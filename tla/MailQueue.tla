------------------------------ MODULE MailQueue ------------------------------
(***************************************************************************)
(* What the mailbox promises: a first-in first-out queue of at most        *)
(* Capacity packages, whose operations report whether they took place.     *)
(* MailboxRing implements it (app/msg_mailbox.c).                          *)
(***************************************************************************)
EXTENDS Naturals, Sequences

CONSTANTS
  Capacity,  (* how many packages the queue can hold                      *)
  Packages,  (* the packages that can be enqueued                         *)
  Nothing    (* the package reported by a call that yields none           *)

VARIABLES
  mails,     (* the packages held, oldest first                           *)
  reply      (* what the last call reported                               *)

QueueInit ==
  /\ mails = << >>
  /\ reply = [ok |-> TRUE, pkg |-> Nothing]

Enqueue(p) ==
  \/ /\ Len(mails) < Capacity
     /\ mails' = Append(mails, p)
     /\ reply' = [ok |-> TRUE, pkg |-> Nothing]
  \/ /\ Len(mails) = Capacity
     /\ UNCHANGED mails
     /\ reply' = [ok |-> FALSE, pkg |-> Nothing]

Dequeue ==
  \/ /\ mails # << >>
     /\ mails' = Tail(mails)
     /\ reply' = [ok |-> TRUE, pkg |-> Head(mails)]
  \/ /\ mails = << >>
     /\ UNCHANGED mails
     /\ reply' = [ok |-> FALSE, pkg |-> Nothing]

QueueNext == (\E p \in Packages : Enqueue(p)) \/ Dequeue

QueueSpec == QueueInit /\ [][QueueNext]_<<mails, reply>>

=============================================================================
