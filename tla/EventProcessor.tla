--------------------------- MODULE EventProcessor ---------------------------
(***************************************************************************)
(* The event processor an application starts with start_event_handler_for  *)
(* (app/msg_handler.c): the event poster thread hands each package to the  *)
(* syncers (module Syncer) or else to the mailbox (module Mailbox), and    *)
(* the event handler thread empties the mailbox.                           *)
(*                                                                         *)
(* mailbox_lock is never held across a blocking call: cond_wait lets go of *)
(* it.  deliver_mail and the two halves of wait_post are one action each.  *)
(* is_mailbox_empty and fetch_mail read the ring without the lock.         *)
(*                                                                         *)
(* The model starts when init_msg_mailbox and init_syncers have returned.  *)
(***************************************************************************)
EXTENDS Syncer, Mailbox

ASSUME PackagesAreMsgs == Msg_pkg = Msgs /\ Blank \notin Msgs

VARIABLES
  mb,        (* msg_mailbox                                               *)
  hpc,       (* where the event handler thread is in its loop             *)
  handled,   (* the packages process_event was called with                *)
  delivered  (* history: the packages given to deliver_mail, in order     *)

mailVars == <<mb, hpc, handled, delivered>>
eventVars == <<syncVars, mailVars>>

EventInit ==
  /\ SyncInit
  /\ mb = init_mailbox
  /\ hpc = "check"
  /\ handled = {}
  /\ delivered = << >>

(* Mutant: the signal is forgotten.                                        *)
NoSignal == UNCHANGED hpc

(* pthread_cond_signal reaches the handler thread only while it sleeps.    *)
CondSignal == hpc' = IF hpc = "asleep" THEN "fetch" ELSE hpc

(* Mutant: waits for room in the mailbox.                                  *)
DeliverWhenRoom ==
  /\ Delivered /\ ~is_full(mb)
  /\ mb' = push_mailbox(mb, pmsg)
  /\ CondSignal
  /\ delivered' = Append(delivered, pmsg)
  /\ UNCHANGED handled

(* post_event when sync_event has failed.  A full mailbox drops the        *)
(* package and nobody looks at the result; the signal is sent either way   *)
(* and is lost unless the handler thread sleeps.  (The handler thread also *)
(* needs mailbox_lock to leave wait_post, but nobody keeps that lock.)     *)
deliver_mail ==
  /\ Delivered
  /\ mb' = push_mailbox(mb, pmsg)
  /\ CondSignal
  /\ delivered' = Append(delivered, pmsg)
  /\ UNCHANGED handled

HandlerStep(from, to) ==
  /\ hpc = from
  /\ hpc' = to
  /\ UNCHANGED <<syncVars, mb, delivered>>

(* Mutant: the test is the wrong way round.                                *)
CheckInverted ==
  /\ HandlerStep("check", IF is_empty(mb) THEN "fetch" ELSE "wait")
  /\ UNCHANGED handled

CheckMailbox ==
  /\ HandlerStep("check", IF is_empty(mb) THEN "wait" ELSE "fetch")
  /\ UNCHANGED handled

(* wait_post sleeps at once: it does not look at the mailbox again.        *)
wait_post == HandlerStep("wait", "asleep") /\ UNCHANGED handled

(* pthread_cond_wait may return without a signal.                          *)
WakeUp == SpuriousWakeups /\ HandlerStep("asleep", "fetch") /\ UNCHANGED handled

(* fetch_mail only lists the mailbox: it pops nothing, leaves the buffer   *)
(* of event_handler all zero and has no return statement, so either result *)
(* may be read.  On "true" process_event is called with that buffer, for   *)
(* which Blank stands.                                                     *)
FetchAndProcess ==
  /\ HandlerStep("fetch", "check")
  /\ handled' \in {handled, handled \cup {Blank}}

HandlerThread == CheckMailbox \/ wait_post \/ FetchAndProcess

PosterThread == sync_event \/ FinishCopy \/ Notify

EventNext ==
  \/ /\ \E c \in Callers :
          \/ CallerStep(c)
          \/ SpuriousWake(c)
          \/ \E e \in Events, k \in Kinds : Call(c, e, k)
     /\ UNCHANGED mailVars
  \/ (\E m \in Msgs : Recv(m)) /\ UNCHANGED mailVars
  \/ PosterThread /\ UNCHANGED mailVars
  \/ deliver_mail
  \/ HandlerThread
  \/ WakeUp

(* As in Syncer; the handler thread also keeps running.                    *)
EventFairness ==
  /\ \A c \in Callers : WF_eventVars(CallerStep(c) /\ UNCHANGED mailVars)
  /\ WF_eventVars((PosterThread /\ UNCHANGED mailVars) \/ deliver_mail)
  /\ WF_eventVars(HandlerThread)

EventSpec == EventInit /\ [][EventNext]_eventVars /\ EventFairness

-----------------------------------------------------------------------------
(* Properties.                                                             *)

(* The ring is a Mailbox of packages; the handler thread is in its loop.   *)
ProcessorTypeOK ==
  /\ mb \in Mailboxes
  /\ hpc \in {"check", "wait", "asleep", "fetch"}
  /\ handled \subseteq Msgs \cup {Blank}
  /\ delivered \in Seq(Msgs)

(* How many of n delivered packages fit in the ring nobody pops from.      *)
Kept(n) == IF n < MAX_MSG_NUM THEN n ELSE MAX_MSG_NUM - 1

(* The mailbox is what the poster delivered, in that order: the oldest     *)
(* packages are never overwritten, only the newest are dropped when it is  *)
(* full, and no package that a syncer took is in it.                       *)
MailboxKeepsTheFirst ==
  /\ traverse_mailbox(mb) = SubSeq(delivered, 1, Kept(Len(delivered)))
  /\ \A m \in Msgs : (fate[m] = "direct" /\ pmsg # m) <=>
                       \E k \in DOMAIN delivered : delivered[k] = m

(* A handler thread that has come to fetch_mail with mail in the box never *)
(* goes to sleep over that mail.                                           *)
NoSleepOverMail ==
  [](hpc = "fetch" /\ ~is_empty(mb) => [](hpc # "asleep"))

(* The poster and the callers do what Syncer says, whatever the mailbox    *)
(* and the handler thread do: a full mailbox or a sleeping handler never   *)
(* blocks the poster.                                                      *)
ImplementsSyncer == SyncSpec

(* "try handle directly!" (msg_syncer.c:242): a package no syncer took is  *)
(* handled by process_event.                                               *)
DirectIsHandled == \A m \in Msgs : fate[m] = "direct" ~> m \in handled

=============================================================================
