------------------------------- MODULE Mailbox -------------------------------
(***************************************************************************)
(* The ring buffer of app/msg_mailbox.c, as operators on a Mailbox value:  *)
(* a record with the array msg_queue and the two cursors front and rear    *)
(* (struct T_mailbox, api/ctc_def.h).  One slot of the array always stays  *)
(* free, so that front = rear can only mean "empty".                       *)
(*                                                                         *)
(* A package is copied whole by memcpy; here it is a value of Msg_pkg.     *)
(* Locks and condition variable are not part of the ring: they belong to   *)
(* the modules that use it.                                                *)
(***************************************************************************)
EXTENDS Integers, Sequences

CONSTANTS
  MAX_MSG_NUM,  (* number of slots of the ring (64 in com_def.h)          *)
  Msg_pkg,      (* the packages a client can deliver                      *)
  Blank         (* content of a slot nobody wrote: the 0xff of init       *)

ASSUME RingAssumption == MAX_MSG_NUM \in Nat \ {0}

Index == 0 .. MAX_MSG_NUM - 1

Mailboxes ==
  [msg_queue : [Index -> Msg_pkg \cup {Blank}], front : Index, rear : Index]

(* Mutant: the cursor does not wrap around.                                *)
NextIndexUnwrapped(i) == i + 1

(* The slot after slot i. *)
NextIndex(i) == (i + 1) % MAX_MSG_NUM

init_mailbox == [msg_queue |-> [i \in Index |-> Blank], front |-> 0, rear |-> 0]

(* Mutant: compares without the wrap-around.                               *)
IsFullUnwrapped(mb) == mb.rear + 1 = mb.front

is_full(mb) == NextIndex(mb.rear) = mb.front

is_empty(mb) == mb.front = mb.rear

(* The ring after push_mailbox(mb, msg); the call returns ~is_full(mb). *)
push_mailbox(mb, msg) ==
  IF is_full(mb)
    THEN mb
    ELSE [mb EXCEPT !.msg_queue[mb.rear] = msg, !.rear = NextIndex(mb.rear)]

(* The ring after pop_mailbox(mb, msg), and the package the call copies    *)
(* out; it returns ~is_empty(mb), and copies nothing when that is FALSE.   *)
pop_mailbox(mb) ==
  IF is_empty(mb) THEN mb ELSE [mb EXCEPT !.front = NextIndex(mb.front)]

popped(mb) == mb.msg_queue[mb.front]

(* Mutant: forgets that rear may be behind front.                          *)
MsgNumUnwrapped(mb) == mb.rear - mb.front

get_msg_num(mb) == (mb.rear - mb.front + MAX_MSG_NUM) % MAX_MSG_NUM

(* The packages traverse_mailbox lists, from front up to rear.             *)
traverse_mailbox(mb) ==
  [k \in 1 .. get_msg_num(mb) |->
     mb.msg_queue[(mb.front + (k - 1)) % MAX_MSG_NUM]]

=============================================================================
