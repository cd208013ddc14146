----------------------------- MODULE MailboxRing -----------------------------
(***************************************************************************)
(* A client that pushes to and pops from one ring of app/msg_mailbox.c in  *)
(* any order.  Push and Pop are the functions push_mailbox and             *)
(* pop_mailbox with their results; init_mailbox is the initial state.      *)
(***************************************************************************)
EXTENDS Mailbox

VARIABLES
  mb,    (* the ring                                                      *)
  last   (* what the last call returned: the flag and the copied package  *)

vars == <<mb, last>>

Init ==
  /\ mb = init_mailbox
  /\ last = [ok |-> TRUE, pkg |-> Blank]

Push(msg) ==
  /\ mb' = push_mailbox(mb, msg)
  /\ last' = [ok |-> ~is_full(mb), pkg |-> Blank]

Pop ==
  /\ mb' = pop_mailbox(mb)
  /\ last' = [ok |-> ~is_empty(mb), pkg |-> IF is_empty(mb) THEN Blank ELSE popped(mb)]

(* The packages the loop of traverse_mailbox visits, one slot after the    *)
(* other: i = front; while (i != rear) i = (i + 1) % MAX_MSG_NUM.          *)
Walk(b) ==
  LET from[i \in Index] ==
        IF i = b.rear THEN << >> ELSE <<b.msg_queue[i]>> \o from[NextIndex(i)]
  IN  from[b.front]

Next == (\E msg \in Msg_pkg : Push(msg)) \/ Pop

Spec == Init /\ [][Next]_vars

-----------------------------------------------------------------------------

(* The ring is a Mailbox and the last call reported a flag and a package.  *)
TypeOK ==
  /\ mb \in Mailboxes
  /\ last \in [ok : BOOLEAN, pkg : Msg_pkg \cup {Blank}]

(* A slot that was never written, or was left behind, is never listed:     *)
(* what lies between front and rear was pushed by a client.                *)
ListedWasPushed ==
  \A k \in DOMAIN traverse_mailbox(mb) : traverse_mailbox(mb)[k] \in Msg_pkg

(* The closed form of traverse_mailbox, whose length is get_msg_num, lists *)
(* what its loop visits: the loop stops, after as many slots as            *)
(* get_msg_num counts, wherever the cursors stand.                         *)
TraverseIsTheWalk == traverse_mailbox(mb) = Walk(mb)

(* The ring is a first-in first-out queue of MAX_MSG_NUM - 1 packages: no  *)
(* package is lost, duplicated, overwritten or reordered when the cursors  *)
(* wrap around, and a push or a pop fails exactly when the queue is full   *)
(* or empty.                                                               *)
Queue == INSTANCE MailQueue WITH
           Capacity <- MAX_MSG_NUM - 1, Packages <- Msg_pkg, Nothing <- Blank,
           mails <- traverse_mailbox(mb), reply <- last

ImplementsMailQueue == Queue!QueueSpec

=============================================================================
