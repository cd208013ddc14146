------------------------------- MODULE Syncer -------------------------------
(***************************************************************************)
(* The pool of event syncers of app/msg_syncer.c: application threads that *)
(* block in wait_on or wait_on_with_act for an event, and the event poster *)
(* thread that hands every received package to sync_event.                 *)
(*                                                                         *)
(* Two kinds of mutex protect the pool.  syncers_lock covers the           *)
(* allocation and the registration fields of all syncers, and sync_event   *)
(* from its scan to its return.  The _lock of a syncer belongs to its      *)
(* condition variable; its owner also holds it while it reads _msg.        *)
(* sync_event writes _msg before it takes that lock, so writes and reads   *)
(* of _msg can overlap: both are modelled as two steps, one per half of    *)
(* the package.                                                            *)
(*                                                                         *)
(* A critical section that is not blocked inside is one action.  The model *)
(* starts when init_syncers has returned.                                  *)
(***************************************************************************)
EXTENDS Integers, FiniteSets

CONSTANTS
  Callers,          (* activations of wait_on and wait_on_with_act         *)
  NumSyncers,       (* length of event_syncers (64)                        *)
  Msgs,             (* packages that may arrive, each at most once         *)
  Events,           (* event numbers packages carry and callers wait for   *)
  EventOf,          (* the event of a package                              *)
  INVALID_EVENT,    (* _on_event of an idle syncer: 0xff, itself an event  *)
  Poster,           (* the event poster thread, as owner of a lock         *)
  NULL,             (* no owner, no syncer, no package: all-zero _msg      *)
  SpuriousWakeups,  (* may pthread_cond_timedwait return 0 unsignalled?    *)
  NestedCalls,      (* may a handler call wait_on again?                   *)
  Kinds             (* what calls register: the buffer of wait_on, the     *)
                    (* handler of wait_on_with_act, or "none": it is NULL  *)

ASSUME SyncerAssumption ==
  /\ NumSyncers \in Nat
  /\ EventOf \in [Msgs -> Events]
  /\ INVALID_EVENT \in Events
  /\ NULL \notin Callers \cup Msgs \cup {Poster}
  /\ SpuriousWakeups \in BOOLEAN
  /\ NestedCalls \in BOOLEAN
  /\ Kinds \subseteq {"data", "act", "none"}

Slots == 0 .. NumSyncers - 1

ASSUME NullIsNoSlot == NULL \notin Slots

VARIABLES
  is_valid,      (* per syncer: free to be allocated                      *)
  on_event,      (* per syncer: the event it matches                      *)
  msg,           (* per syncer: the two halves of _msg                    *)
  handle,        (* per syncer: the caller whose handler is registered    *)
  sync_data,     (* per syncer: the caller whose buffer is registered     *)
  syncers_lock,  (* owner of syncers_lock between two actions             *)
  slot_lock      (* per syncer: owner of its _lock between two actions    *)

VARIABLES
  pc,            (* per caller: where it is in wait_on                    *)
  slot,          (* per caller: the syncer it allocated                   *)
  want,          (* per caller: the event it waits for                    *)
  kind,          (* per caller: what the call registers                   *)
  woke,          (* per caller: what ended its wait                       *)
  got,           (* per caller: the halves copied to it, or to its handler*)
  ret,           (* per caller: the result of the call                    *)
  nested         (* per caller: the activation its handler is waiting in  *)

VARIABLES
  ppc,           (* where the poster is in post_event                     *)
  pmsg,          (* the package it received                               *)
  pslot,         (* the syncer sync_event matched                         *)
  fate           (* per package: what became of it                        *)

syncerVars == <<is_valid, on_event, msg, handle, sync_data>>
callerVars == <<pc, slot, want, kind, woke, got, ret, nested>>
posterVars == <<ppc, pmsg, pslot, fate>>
syncVars   == <<syncerVars, syncers_lock, slot_lock, callerVars, posterVars>>

Zero == [lo |-> NULL, hi |-> NULL]

PcStates   == {"idle", "alloc", "regist", "wait", "waiting", "signalled",
               "timedout", "copy", "free"}
Registered == {"wait", "waiting", "signalled", "timedout", "copy", "free"}
Fates      == {"unsent", "posting", "synced", "direct"}

SyncInit ==
  /\ is_valid = [s \in Slots |-> TRUE]
  /\ on_event = [s \in Slots |-> INVALID_EVENT]
  /\ msg = [s \in Slots |-> Zero]
  /\ handle = [s \in Slots |-> NULL]
  /\ sync_data = [s \in Slots |-> NULL]
  /\ syncers_lock = NULL
  /\ slot_lock = [s \in Slots |-> NULL]
  /\ pc = [c \in Callers |-> "idle"]
  /\ slot = [c \in Callers |-> NULL]
  /\ want = [c \in Callers |-> INVALID_EVENT]
  /\ kind = [c \in Callers |-> "data"]
  /\ woke = [c \in Callers |-> "none"]
  /\ got = [c \in Callers |-> Zero]
  /\ ret = [c \in Callers |-> "none"]
  /\ nested = [c \in Callers |-> NULL]
  /\ ppc = "idle"
  /\ pmsg = NULL
  /\ pslot = NULL
  /\ fate = [m \in Msgs |-> "unsent"]

-----------------------------------------------------------------------------
(* The callers.                                                            *)

Goto(c, l) == pc' = [pc EXCEPT ![c] = l]

(* Activation c enters the call for event e.  wait_on without a buffer is  *)
(* no activation: it fails before alloc_syncer and changes nothing.        *)
Enter(c, e, k) ==
  /\ pc[c] = "idle"
  /\ Goto(c, "alloc")
  /\ want' = [want EXCEPT ![c] = e]
  /\ kind' = [kind EXCEPT ![c] = k]
  /\ UNCHANGED <<syncerVars, syncers_lock, slot_lock, slot, woke, got, ret, posterVars>>

Call(c, e, k) ==
  /\ \A d \in Callers : nested[d] # c
  /\ Enter(c, e, k)
  /\ UNCHANGED nested

(* The handler of c, run by sync_act under the lock of its syncer, itself  *)
(* calls wait_on: activation d runs while c stays inside its handler.      *)
CallFromHandler(c, d, e, k) ==
  /\ NestedCalls
  /\ pc[c] = "copy" /\ kind[c] = "act" /\ nested[c] = NULL
  /\ \A b \in Callers : nested[b] # d
  /\ Enter(d, e, k)
  /\ nested' = [nested EXCEPT ![c] = d]

(* The call returns: its frame is gone, and a handler waiting in it goes on. *)
Return(c) ==
  /\ Goto(c, "idle")
  /\ want' = [want EXCEPT ![c] = INVALID_EVENT]
  /\ kind' = [kind EXCEPT ![c] = "data"]
  /\ woke' = [woke EXCEPT ![c] = "none"]
  /\ got' = [got EXCEPT ![c] = Zero]
  /\ ret' = [ret EXCEPT ![c] = "none"]
  /\ nested' = [d \in Callers |-> IF nested[d] = c THEN NULL ELSE nested[d]]

(* Mutant: without the test of _is_valid.                                  *)
FirstAllocatable(s) == \A t \in Slots : t < s => ~is_valid[t]

(* The syncer alloc_syncer picks: the first that is free.                  *)
FirstValid(s) == is_valid[s] /\ \A t \in Slots : t < s => ~is_valid[t]

(* The sections of a call under syncers_lock.  What it does inside has a   *)
(* name of its own: in Startup the lock may fail to keep others out.       *)
AllocInside(c) ==
  /\ pc[c] = "alloc"
  /\ \/ \E s \in Slots :
          /\ FirstValid(s)
          /\ is_valid' = [is_valid EXCEPT ![s] = FALSE]
          /\ slot' = [slot EXCEPT ![c] = s]
          /\ Goto(c, "regist")
          /\ UNCHANGED <<want, kind, woke, got, ret, nested>>
     \/ /\ \A s \in Slots : ~is_valid[s]
        /\ Return(c)
        /\ UNCHANGED <<is_valid, slot>>
  /\ UNCHANGED <<on_event, msg, handle, sync_data, syncers_lock, slot_lock, posterVars>>

alloc_syncer(c) == syncers_lock = NULL /\ AllocInside(c)

RegistInside(c) ==
  LET s == slot[c] IN
  /\ pc[c] = "regist"
  /\ on_event' = [on_event EXCEPT ![s] = want[c]]
  /\ handle' = IF kind[c] = "act" THEN [handle EXCEPT ![s] = c] ELSE handle
  /\ sync_data' = IF kind[c] = "data" THEN [sync_data EXCEPT ![s] = c] ELSE sync_data
  /\ Goto(c, "wait")
  /\ UNCHANGED <<is_valid, msg, syncers_lock, slot_lock, slot, want, kind, woke, got,
                 ret, nested, posterVars>>

regist_event(c) == syncers_lock = NULL /\ RegistInside(c)

(* sync_act and sync_data up to pthread_cond_timedwait, which lets go of   *)
(* the lock they took.                                                     *)
BeginWait(c) ==
  /\ pc[c] = "wait" /\ slot_lock[slot[c]] = NULL
  /\ Goto(c, "waiting")
  /\ UNCHANGED <<syncerVars, syncers_lock, slot_lock, slot, want, kind, woke, got, ret,
                 nested, posterVars>>

(* The wait ends: after 250 ms, or for no reason.  A signal is Notify.     *)
EndWait(c, l, why) ==
  /\ pc[c] = "waiting"
  /\ Goto(c, l)
  /\ woke' = [woke EXCEPT ![c] = why]
  /\ UNCHANGED <<syncerVars, syncers_lock, slot_lock, slot, want, kind, got, ret,
                 nested, posterVars>>

Timeout(c) == EndWait(c, "timedout", "timeout")

SpuriousWake(c) == SpuriousWakeups /\ EndWait(c, "signalled", "spurious")

(* Mutant: returns what pthread_cond_timedwait returned.                   *)
TimedOutRaw(c) ==
  /\ pc[c] = "timedout" /\ slot_lock[slot[c]] = NULL
  /\ ret' = [ret EXCEPT ![c] = "ETIMEDOUT"]
  /\ Goto(c, "free")
  /\ UNCHANGED <<syncerVars, syncers_lock, slot_lock, slot, want, kind, woke, got, nested,
                 posterVars>>

(* ETIMEDOUT: the caller has its lock back, lets go of it and fails.       *)
TimedOut(c) ==
  /\ pc[c] = "timedout" /\ slot_lock[slot[c]] = NULL
  /\ ret' = [ret EXCEPT ![c] = "FAILED"]
  /\ Goto(c, "free")
  /\ UNCHANGED <<syncerVars, syncers_lock, slot_lock, slot, want, kind, woke, got, nested,
                 posterVars>>

(* Mutant: looks at the other of the two fields.                           *)
SinkSwapped(c) == IF kind[c] = "data" THEN handle[slot[c]] ELSE sync_data[slot[c]]

(* Who receives the package of syncer s: the registered handler or buffer. *)
Sink(c) == IF kind[c] = "data" THEN sync_data[slot[c]] ELSE handle[slot[c]]

(* The woken caller has its lock back and reads the first half of _msg.    *)
BeginCopy(c) ==
  LET s == slot[c] IN
  /\ pc[c] = "signalled" /\ slot_lock[s] = NULL
  /\ slot_lock' = [slot_lock EXCEPT ![s] = c]
  /\ got' = [d \in Callers |-> IF d = Sink(c) THEN [got[d] EXCEPT !.lo = msg[s].lo]
                                              ELSE got[d]]
  /\ Goto(c, "copy")
  /\ UNCHANGED <<syncerVars, syncers_lock, slot, want, kind, woke, ret, nested, posterVars>>

(* Mutant: a path without the unlock.                                      *)
StayLocked(s) == UNCHANGED slot_lock

Unlock(s) == slot_lock' = [slot_lock EXCEPT ![s] = NULL]

(* It reads the second half and lets go of the lock.  memcpy succeeds; a   *)
(* handler returns what it likes; without buffer or handler it fails.      *)
EndCopy(c) ==
  LET s == slot[c] IN
  /\ pc[c] = "copy" /\ nested[c] = NULL
  /\ got' = [d \in Callers |-> IF d = Sink(c) THEN [got[d] EXCEPT !.hi = msg[s].hi]
                                              ELSE got[d]]
  /\ \E r \in {"SUCCESS", "FAILED"} :
       /\ Sink(c) = NULL => r = "FAILED"
       /\ Sink(c) # NULL /\ kind[c] = "data" => r = "SUCCESS"
       /\ ret' = [ret EXCEPT ![c] = r]
  /\ Unlock(s)
  /\ Goto(c, "free")
  /\ UNCHANGED <<syncerVars, syncers_lock, slot, want, kind, woke, nested, posterVars>>

(* Mutants: one of the fields is not reset.                                *)
DeregisterKeepingEvent(s) ==
  /\ handle' = [handle EXCEPT ![s] = NULL]
  /\ sync_data' = [sync_data EXCEPT ![s] = NULL]
  /\ msg' = [msg EXCEPT ![s] = Zero]
  /\ UNCHANGED on_event

DeregisterKeepingHandle(s) ==
  /\ on_event' = [on_event EXCEPT ![s] = INVALID_EVENT]
  /\ sync_data' = [sync_data EXCEPT ![s] = NULL]
  /\ msg' = [msg EXCEPT ![s] = Zero]
  /\ UNCHANGED handle

DeregisterKeepingPackage(s) ==
  /\ on_event' = [on_event EXCEPT ![s] = INVALID_EVENT]
  /\ handle' = [handle EXCEPT ![s] = NULL]
  /\ sync_data' = [sync_data EXCEPT ![s] = NULL]
  /\ UNCHANGED msg

(* free_syncer takes back what regist_event and notify_handle wrote.       *)
Deregister(s) ==
  /\ on_event' = [on_event EXCEPT ![s] = INVALID_EVENT]
  /\ handle' = [handle EXCEPT ![s] = NULL]
  /\ sync_data' = [sync_data EXCEPT ![s] = NULL]
  /\ msg' = [msg EXCEPT ![s] = Zero]

FreeInside(c) ==
  LET s == slot[c] IN
  /\ pc[c] = "free"
  /\ is_valid' = [is_valid EXCEPT ![s] = TRUE]
  /\ Deregister(s)
  /\ slot' = [slot EXCEPT ![c] = NULL]
  /\ Return(c)
  /\ UNCHANGED <<syncers_lock, slot_lock, posterVars>>

free_syncer(c) == syncers_lock = NULL /\ FreeInside(c)

-----------------------------------------------------------------------------
(* The poster: post_event for one package after the other.                 *)

Recv(m) ==
  /\ ppc = "idle" /\ fate[m] = "unsent"
  /\ ppc' = "sync"
  /\ pmsg' = m
  /\ fate' = [fate EXCEPT ![m] = "posting"]
  /\ UNCHANGED <<syncerVars, syncers_lock, slot_lock, callerVars, pslot>>

(* Mutants: the loop starts at 1; it looks for any allocated syncer.       *)
MatchesFromOne(s) == s # 0 /\ on_event[s] = EventOf[pmsg]
MatchesAllocated(s) == ~is_valid[s]

Matches(s) == on_event[s] = EventOf[pmsg]

(* The syncer sync_event stops at: the first on the event of the package.  *)
FirstMatch(s) == Matches(s) /\ \A t \in Slots : t < s => ~Matches(t)

(* sync_event under syncers_lock: notify_handle starts to copy the package *)
(* to the matching syncer, or the call fails and the package is left to    *)
(* deliver_mail.                                                           *)
sync_event ==
  /\ ppc = "sync" /\ syncers_lock = NULL
  /\ \/ \E s \in Slots :
          /\ FirstMatch(s)
          /\ syncers_lock' = Poster
          /\ pslot' = s
          /\ msg' = [msg EXCEPT ![s].lo = pmsg]
          /\ ppc' = "copy"
          /\ UNCHANGED fate
     \/ /\ \A s \in Slots : ~Matches(s)
        /\ ppc' = "deliver"
        /\ fate' = [fate EXCEPT ![pmsg] = "direct"]
        /\ UNCHANGED <<syncers_lock, pslot, msg>>
  /\ UNCHANGED <<is_valid, on_event, handle, sync_data, slot_lock, callerVars, pmsg>>

FinishCopy ==
  /\ ppc = "copy"
  /\ msg' = [msg EXCEPT ![pslot].hi = pmsg]
  /\ ppc' = "notify"
  /\ UNCHANGED <<is_valid, on_event, handle, sync_data, syncers_lock, slot_lock,
                 callerVars, pmsg, pslot, fate>>

(* Mutant: signals without the lock.                                       *)
SignalsUnlocked(s) == TRUE

(* pthread_mutex_lock of notify_handle.                                    *)
MaySignal(s) == slot_lock[s] = NULL

(* The signal of notify_handle reaches a caller only if it already waits;  *)
(* then sync_event returns SUCCESS either way.                             *)
Notify ==
  /\ ppc = "notify" /\ MaySignal(pslot)
  /\ \/ \E c \in Callers :
          /\ pc[c] = "waiting" /\ slot[c] = pslot
          /\ Goto(c, "signalled")
          /\ woke' = [woke EXCEPT ![c] = "signal"]
     \/ /\ \A c \in Callers : ~(pc[c] = "waiting" /\ slot[c] = pslot)
        /\ UNCHANGED <<pc, woke>>
  /\ syncers_lock' = NULL
  /\ fate' = [fate EXCEPT ![pmsg] = "synced"]
  /\ ppc' = "idle"
  /\ pmsg' = NULL
  /\ pslot' = NULL
  /\ UNCHANGED <<syncerVars, slot_lock, slot, want, kind, got, ret, nested>>

(* deliver_mail is done; EventProcessor says what it does.                 *)
Delivered ==
  /\ ppc = "deliver"
  /\ ppc' = "idle"
  /\ pmsg' = NULL
  /\ UNCHANGED <<syncerVars, syncers_lock, slot_lock, callerVars, pslot, fate>>

-----------------------------------------------------------------------------

CallerStep(c) ==
  \/ alloc_syncer(c) \/ regist_event(c) \/ BeginWait(c) \/ Timeout(c) \/ TimedOut(c)
  \/ BeginCopy(c) \/ EndCopy(c) \/ free_syncer(c)

PosterStep == sync_event \/ FinishCopy \/ Notify \/ Delivered

SyncNext ==
  \/ \E c \in Callers : \/ CallerStep(c)
                        \/ SpuriousWake(c)
                        \/ \E e \in Events, k \in Kinds :
                             \/ Call(c, e, k)
                             \/ \E d \in Callers \ {c} : CallFromHandler(c, d, e, k)
  \/ \E m \in Msgs : Recv(m)
  \/ PosterStep

(* Threads keep running and the clock reaches the deadline of a wait.      *)
(* Nobody is obliged to call wait_on, to send a package or to be woken for *)
(* no reason.  No lock is held across a step that blocks, except _lock     *)
(* inside a handler, so weak fairness lets every thread get its lock.      *)
SyncFairness == (\A c \in Callers : WF_syncVars(CallerStep(c))) /\ WF_syncVars(PosterStep)

SyncSpec == SyncInit /\ [][SyncNext]_syncVars /\ SyncFairness

-----------------------------------------------------------------------------
(* Properties.                                                             *)

Halves == [lo : Msgs \cup {NULL}, hi : Msgs \cup {NULL}]

(* Every field of a syncer, and every local of a thread, has its type.     *)
TypeOK ==
  /\ is_valid \in [Slots -> BOOLEAN]
  /\ on_event \in [Slots -> Events]
  /\ msg \in [Slots -> Halves]
  /\ handle \in [Slots -> Callers \cup {NULL}]
  /\ sync_data \in [Slots -> Callers \cup {NULL}]
  /\ syncers_lock \in {NULL, Poster}
  /\ slot_lock \in [Slots -> Callers \cup {NULL}]
  /\ pc \in [Callers -> PcStates]
  /\ slot \in [Callers -> Slots \cup {NULL}]
  /\ want \in [Callers -> Events]
  /\ kind \in [Callers -> {"data", "act", "none"}]
  /\ woke \in [Callers -> {"none", "signal", "spurious", "timeout"}]
  /\ got \in [Callers -> Halves]
  /\ ret \in [Callers -> {"none", "SUCCESS", "FAILED"}]
  /\ nested \in [Callers -> Callers \cup {NULL}]
  /\ ppc \in {"idle", "sync", "copy", "notify", "deliver"}
  /\ pmsg \in Msgs \cup {NULL}
  /\ pslot \in Slots \cup {NULL}
  /\ fate \in [Msgs -> Fates]

(* Between alloc_syncer and free_syncer a syncer belongs to exactly one    *)
(* call, and a syncer no call holds can be allocated: none is shared or    *)
(* leaked, whichever way the call ends.                                    *)
SlotOwnership ==
  /\ \A s \in Slots : is_valid[s] <=> \A c \in Callers : slot[c] # s
  /\ \A c, d \in Callers : c # d /\ slot[c] # NULL => slot[c] # slot[d]

(* What regist_event wrote stays until the call's own free_syncer: the     *)
(* syncer matches the event of its holder and points to the holder's       *)
(* buffer or handler only; a free syncer points to nobody.                 *)
RegistrationIntegrity ==
  /\ \A c \in Callers : pc[c] \in Registered =>
       /\ on_event[slot[c]] = want[c]
       /\ handle[slot[c]] = IF kind[c] = "act" THEN c ELSE NULL
       /\ sync_data[slot[c]] = IF kind[c] = "data" THEN c ELSE NULL
  /\ \A s \in Slots : is_valid[s] =>
       on_event[s] = INVALID_EVENT /\ handle[s] = NULL /\ sync_data[s] = NULL

OfEvent(e) == {m \in Msgs : EventOf[m] = e}

(* A call that sync_event woke, and that has a buffer or a handler, was    *)
(* given data of a package of its event,                                   *)
(* both halves, although notify_handle writes _msg without the lock of the *)
(* reader.  The halves may come from two packages of that event, if the    *)
(* second arrives before the reader is done.                               *)
SignalledGetsOwnEvent ==
  \A c \in Callers : pc[c] = "free" /\ woke[c] = "signal" /\ kind[c] # "none" =>
    got[c].lo \in OfEvent(want[c]) /\ got[c].hi \in OfEvent(want[c])

(* A call woken for no reason succeeds with whatever _msg holds.  That is  *)
(* a package of its event, zeroes, or a package with the number of         *)
(* INVALID_EVENT, which an idle syncer accepts: never the answer to        *)
(* another call.                                                           *)
SpuriousSeesNoOtherEvent ==
  \A c \in Callers : pc[c] = "free" /\ woke[c] = "spurious" =>
    {got[c].lo, got[c].hi} \subseteq
       OfEvent(want[c]) \cup OfEvent(INVALID_EVENT) \cup {NULL}

Awaited(m) == \E c \in Callers : pc[c] \in Registered /\ want[c] = EventOf[m]

(* sync_event leaves a package to the mailbox only if no registered call   *)
(* waits for its event.                                                    *)
DirectOnlyWhenUnawaited ==
  [][\A m \in Msgs : fate[m] # "direct" /\ fate'[m] = "direct" => ~Awaited(m)]_syncVars

(* sync_event claims a package only for a call that is still registered    *)
(* for its event, not for one that has returned.  The event INVALID_EVENT  *)
(* is excepted: ClaimedIsAwaited.                                          *)
SyncedHadWaiter ==
  [][\A m \in Msgs : fate[m] # "synced" /\ fate'[m] = "synced" =>
       EventOf[m] = INVALID_EVENT \/ Awaited(m)]_syncVars

(* A buffer is written, and a handler runs, only while its own call is     *)
(* between the wake-up and free_syncer: wait_on never writes through the   *)
(* pointer of a call that has returned or has not been answered.           *)
WrittenOnlyDuringItsCall ==
  [][\A c \in Callers : got'[c] # got[c] =>
       pc[c] \in {"signalled", "copy"} \/ pc'[c] = "idle"]_syncVars

(* Call c cannot go on by itself: it is not running, somebody has the lock *)
(* it needs, or its handler waits in another call.                         *)
Blocked(c) ==
  \/ pc[c] = "idle"
  \/ pc[c] \in {"alloc", "regist", "free"} /\ syncers_lock # NULL
  \/ pc[c] \in {"wait", "timedout", "signalled"} /\ slot_lock[slot[c]] # NULL
  \/ pc[c] = "copy" /\ nested[c] # NULL

PosterBlocked ==
  \/ ppc = "idle"
  \/ ppc = "sync" /\ syncers_lock # NULL
  \/ ppc = "notify" /\ slot_lock[pslot] # NULL

InTheMiddle == ppc # "idle" \/ \E c \in Callers : pc[c] # "idle"

(* The threads in the middle of a call are all blocked.                    *)
Stuck == InTheMiddle /\ PosterBlocked /\ \A c \in Callers : Blocked(c)

(* The activations inside c: c itself, the one its handler waits in, the   *)
(* one the handler of that one waits in, and so on.                        *)
Inside(c) ==
  {d \in Callers : \A S \in SUBSET Callers :
     c \in S /\ (\A x \in S : nested[x] \in S \cup {NULL}) => d \in S}

(* The lock cycle of a handler that calls wait_on: it holds its _lock, and *)
(* the innermost call inside it needs syncers_lock; notify_handle holds    *)
(* syncers_lock and needs that _lock.                                      *)
LockCycle ==
  /\ ppc = "notify"
  /\ \E c, d \in Callers :
       /\ slot_lock[pslot] = c
       /\ d \in Inside(c)
       /\ pc[d] \in {"alloc", "regist", "free"}

(* The two kinds of lock are nested in both orders, but only this one      *)
(* situation is a deadlock.                                                *)
StuckOnlyInLockCycle == Stuck => LockCycle

(* Nothing another thread does, and no time-out, ends the lock cycle.      *)
LockCycleIsForever == [][LockCycle => LockCycle']_syncVars

(* Every wait_on and wait_on_with_act returns.                             *)
WaitReturns == \A c \in Callers : pc[c] # "idle" ~> pc[c] = "idle"

(* The poster comes back from post_event to accept the next package.       *)
PostReturns == ppc # "idle" ~> ppc = "idle"

(* A wait_on that was signalled does return SUCCESS.                       *)
SignalledSucceeds ==
  \A c \in Callers :
    woke[c] = "signal" /\ kind[c] = "data" ~> ret[c] = "SUCCESS"

(* "sync event SUCCESS!" (msg_syncer.c:236), and the package goes nowhere  *)
(* else: so the call it was for should not fail with the package in its    *)
(* syncer.                                                                 *)
SyncedIsReceived ==
  \A c \in Callers : pc[c] = "free" /\ ret[c] = "FAILED" /\ kind[c] = "data" =>
    msg[slot[c]] = Zero

(* "event seems not need sync, try handle directly!" (msg_syncer.c:242) is *)
(* said of a package for whose event nobody is registered: every package   *)
(* sync_event claims should have a waiting call.                           *)
ClaimedIsAwaited ==
  [][\A m \in Msgs : fate[m] # "synced" /\ fate'[m] = "synced" => Awaited(m)]_syncVars

=============================================================================
