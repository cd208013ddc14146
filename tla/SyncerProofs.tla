---------------------------- MODULE SyncerProofs ----------------------------
(***************************************************************************)
(* Proofs about the syncer pool, for any number of callers, syncers,       *)
(* packages and events, with spurious wake-ups and nested calls or not.    *)
(*                                                                         *)
(* IInv is the inductive invariant: the types, where a thread may hold     *)
(* which syncer and lock (Placement), ownership, registration, and what    *)
(* the memory of a matched or signalled syncer contains (Contents).        *)
(***************************************************************************)
EXTENDS Syncer, TLAPS

(* A call holds a syncer from alloc_syncer to free_syncer; the poster      *)
(* holds a package while in post_event ...                                 *)
Places ==
  /\ \A c \in Callers : slot[c] = NULL <=> pc[c] \in {"idle", "alloc"}
  /\ ppc # "idle" => pmsg \in Msgs
  /\ ppc \in {"copy", "notify"} => pslot \in Slots

(* ... and syncers_lock, with a syncer on the event of that package, while *)
(* in notify_handle.                                                       *)
Matched ==
  ppc \in {"copy", "notify"} => syncers_lock = Poster /\ on_event[pslot] = EventOf[pmsg]

Placement == Places /\ Matched

(* No two calls hold one syncer.                                           *)
Alone == \A c, d \in Callers : c # d /\ slot[c] # NULL => slot[c] # slot[d]

(* What regist_event wrote for a call.                                     *)
Registers ==
  \A c \in Callers : pc[c] \in Registered =>
    /\ on_event[slot[c]] = want[c]
    /\ handle[slot[c]] = IF kind[c] = "act" THEN c ELSE NULL
    /\ sync_data[slot[c]] = IF kind[c] = "data" THEN c ELSE NULL

(* A syncer that is allocated but not registered yet is as clean as a free *)
(* one.                                                                    *)
Unregistered ==
  \A c \in Callers : pc[c] = "regist" =>
    on_event[slot[c]] = INVALID_EVENT /\ handle[slot[c]] = NULL /\ sync_data[slot[c]] = NULL

(* What _msg holds while the poster writes it and the signalled caller     *)
(* reads it.                                                               *)
Contents ==
  /\ ppc \in {"copy", "notify"} => msg[pslot].lo = pmsg
  /\ ppc = "notify" => msg[pslot].hi = pmsg
  /\ \A c \in Callers : woke[c] = "signal" =>
       /\ pc[c] \in {"signalled", "copy", "free"}
       /\ pc[c] = "signalled" => msg[slot[c]].lo \in OfEvent(want[c])
       /\ pc[c] \in {"signalled", "copy"} => msg[slot[c]].hi \in OfEvent(want[c])
       /\ pc[c] \in {"copy", "free"} /\ kind[c] # "none" => got[c].lo \in OfEvent(want[c])
       /\ pc[c] = "free" /\ kind[c] # "none" => got[c].hi \in OfEvent(want[c])

IInv ==
  TypeOK /\ Placement /\ SlotOwnership /\ RegistrationIntegrity /\ Unregistered /\ Contents

-----------------------------------------------------------------------------

LEMMA InitIInv == SyncInit => IInv
  BY SyncerAssumption, NullIsNoSlot
  DEF SyncInit, IInv, TypeOK, Placement, Places, Matched, SlotOwnership,
      RegistrationIntegrity, Unregistered, Contents, Zero, Halves, PcStates, Registered, Fates

(* Writing one half of a package yields a pair of halves.                  *)
LEMMA HalfWritten ==
  ASSUME NEW h \in Halves, NEW m \in Msgs \cup {NULL}
  PROVE  [h EXCEPT !.lo = m] \in Halves /\ [h EXCEPT !.hi = m] \in Halves
  BY DEF Halves

(* A step keeps the types.                                                 *)
LEMMA TypeStep ==
  ASSUME TypeOK, Places, SyncNext
  PROVE  TypeOK'
<1>. USE SyncerAssumption, NullIsNoSlot DEF TypeOK, Places
<1>1. ASSUME NEW c \in Callers, alloc_syncer(c) PROVE TypeOK'
  <2>1. ASSUME NEW s \in Slots,
               is_valid' = [is_valid EXCEPT ![s] = FALSE],
               slot' = [slot EXCEPT ![c] = s],
               Goto(c, "regist"),
               UNCHANGED <<want, kind, woke, got, ret, nested>>
        PROVE  TypeOK'
    BY <1>1, <2>1 DEF alloc_syncer, AllocInside, Goto, PcStates, posterVars
  <2>2. CASE Return(c) /\ UNCHANGED <<is_valid, slot>>
    BY <1>1, <2>2 DEF alloc_syncer, AllocInside, Goto, Return, Zero, Halves, PcStates, posterVars
  <2>. QED BY <1>1, <2>1, <2>2 DEF alloc_syncer, AllocInside
<1>2. ASSUME NEW c \in Callers, regist_event(c) PROVE TypeOK'
  BY <1>2 DEF regist_event, RegistInside, Goto, PcStates, posterVars
<1>3. ASSUME NEW c \in Callers, BeginWait(c) PROVE TypeOK'
  BY <1>3 DEF BeginWait, Goto, PcStates, posterVars, syncerVars
<1>4. ASSUME NEW c \in Callers, Timeout(c) \/ SpuriousWake(c) PROVE TypeOK'
  BY <1>4 DEF Timeout, SpuriousWake, EndWait, Goto, PcStates, posterVars, syncerVars
<1>5. ASSUME NEW c \in Callers, TimedOut(c) PROVE TypeOK'
  BY <1>5 DEF TimedOut, Goto, PcStates, posterVars, syncerVars
<1>6. ASSUME NEW c \in Callers, BeginCopy(c) PROVE TypeOK'
  <2>1. slot[c] \in Slots
    BY <1>6 DEF BeginCopy
  <2>2. msg[slot[c]].lo \in Msgs \cup {NULL}
    BY <2>1 DEF Halves
  <2>3. got' \in [Callers -> Halves]
    BY <1>6, <2>2, HalfWritten DEF BeginCopy
  <2>. QED BY <1>6, <2>1, <2>3 DEF BeginCopy, Goto, PcStates, posterVars, syncerVars
<1>7. ASSUME NEW c \in Callers, EndCopy(c) PROVE TypeOK'
  <2>1. slot[c] \in Slots
    BY <1>7 DEF EndCopy
  <2>2. msg[slot[c]].hi \in Msgs \cup {NULL}
    BY <2>1 DEF Halves
  <2>3. got' \in [Callers -> Halves]
    BY <1>7, <2>2, HalfWritten DEF EndCopy
  <2>. QED BY <1>7, <2>1, <2>3 DEF EndCopy, Unlock, Goto, PcStates, posterVars, syncerVars
<1>8. ASSUME NEW c \in Callers, free_syncer(c) PROVE TypeOK'
  BY <1>8 DEF free_syncer, FreeInside, Deregister, Goto, Return, Zero, Halves, PcStates, posterVars
<1>9. ASSUME NEW c \in Callers, NEW e \in Events, NEW k \in Kinds,
             Call(c, e, k) \/ \E d \in Callers : CallFromHandler(d, c, e, k)
      PROVE  TypeOK'
  BY <1>9 DEF Call, CallFromHandler, Enter, Goto, PcStates, posterVars, syncerVars
<1>10. ASSUME NEW m \in Msgs, Recv(m) PROVE TypeOK'
  BY <1>10 DEF Recv, callerVars, syncerVars, Fates
<1>11. CASE sync_event
  <2>1. ASSUME NEW s \in Slots, msg' = [msg EXCEPT ![s].lo = pmsg], pmsg \in Msgs
        PROVE  msg' \in [Slots -> Halves]
    <3>1. msg' = [msg EXCEPT ![s] = [msg[s] EXCEPT !.lo = pmsg]]
      BY <2>1
    <3>2. [msg[s] EXCEPT !.lo = pmsg] \in Halves
      BY <2>1, HalfWritten
    <3>. QED BY <3>1, <3>2
  <2>2. msg' \in [Slots -> Halves]
    BY <1>11, <2>1 DEF sync_event
  <2>. QED BY <1>11, <2>2 DEF sync_event, callerVars, Fates
<1>12. CASE FinishCopy
  <2>1. msg' \in [Slots -> Halves]
    BY <1>12, HalfWritten DEF FinishCopy
  <2>. QED BY <1>12, <2>1 DEF FinishCopy, callerVars
<1>13. CASE Notify
  BY <1>13 DEF Notify, Goto, PcStates, syncerVars, Fates
<1>14. CASE Delivered
  BY <1>14 DEF Delivered, callerVars, syncerVars
<1>. QED
  BY <1>1, <1>2, <1>3, <1>4, <1>5, <1>6, <1>7, <1>8, <1>9, <1>10, <1>11, <1>12, <1>13, <1>14
  DEF SyncNext, CallerStep, PosterStep

(* A step keeps Places.                                                    *)
LEMMA PlacesStep ==
  ASSUME TypeOK, Places, SyncNext
  PROVE  Places'
<1>. USE SyncerAssumption, NullIsNoSlot DEF TypeOK, Places
<1>1. ASSUME NEW c \in Callers, alloc_syncer(c) PROVE Places'
  BY <1>1 DEF alloc_syncer, AllocInside, Goto, Return, posterVars
<1>2. ASSUME NEW c \in Callers, regist_event(c) PROVE Places'
  BY <1>2 DEF regist_event, RegistInside, Goto, posterVars
<1>3. ASSUME NEW c \in Callers, BeginWait(c) PROVE Places'
  BY <1>3 DEF BeginWait, Goto, posterVars, syncerVars
<1>4. ASSUME NEW c \in Callers, Timeout(c) \/ SpuriousWake(c) PROVE Places'
  BY <1>4 DEF Timeout, SpuriousWake, EndWait, Goto, posterVars, syncerVars
<1>5. ASSUME NEW c \in Callers, TimedOut(c) PROVE Places'
  BY <1>5 DEF TimedOut, Goto, posterVars, syncerVars
<1>6. ASSUME NEW c \in Callers, BeginCopy(c) PROVE Places'
  BY <1>6 DEF BeginCopy, Goto, posterVars, syncerVars
<1>7. ASSUME NEW c \in Callers, EndCopy(c) PROVE Places'
  BY <1>7 DEF EndCopy, Unlock, Goto, posterVars, syncerVars
<1>8. ASSUME NEW c \in Callers, free_syncer(c) PROVE Places'
  BY <1>8 DEF free_syncer, FreeInside, Deregister, Goto, Return, posterVars
<1>9. ASSUME NEW c \in Callers, NEW e \in Events, NEW k \in Kinds,
             Call(c, e, k) \/ \E d \in Callers : CallFromHandler(d, c, e, k)
      PROVE  Places'
  BY <1>9 DEF Call, CallFromHandler, Enter, Goto, posterVars, syncerVars
<1>10. ASSUME NEW m \in Msgs, Recv(m) PROVE Places'
  BY <1>10 DEF Recv, callerVars, syncerVars
<1>11. CASE sync_event
  BY <1>11 DEF sync_event, FirstMatch, Matches, callerVars
<1>12. CASE FinishCopy
  BY <1>12 DEF FinishCopy, callerVars
<1>13. CASE Notify
  BY <1>13 DEF Notify, Goto, syncerVars
<1>14. CASE Delivered
  BY <1>14 DEF Delivered, callerVars, syncerVars
<1>. QED
  BY <1>1, <1>2, <1>3, <1>4, <1>5, <1>6, <1>7, <1>8, <1>9, <1>10, <1>11, <1>12, <1>13, <1>14
  DEF SyncNext, CallerStep, PosterStep

(* A step keeps Matched: on_event changes under syncers_lock only, which   *)
(* the poster holds while it needs the match.                              *)
LEMMA MatchedStep ==
  ASSUME TypeOK, Places, Matched, SyncNext
  PROVE  Matched'
<1>. USE SyncerAssumption, NullIsNoSlot DEF TypeOK, Places, Matched
<1>1. ASSUME NEW c \in Callers, alloc_syncer(c) PROVE Matched'
  BY <1>1 DEF alloc_syncer, AllocInside, Goto, Return, posterVars
<1>2. ASSUME NEW c \in Callers, regist_event(c) PROVE Matched'
  BY <1>2 DEF regist_event, RegistInside, Goto, posterVars
<1>3. ASSUME NEW c \in Callers, BeginWait(c) PROVE Matched'
  BY <1>3 DEF BeginWait, Goto, posterVars, syncerVars
<1>4. ASSUME NEW c \in Callers, Timeout(c) \/ SpuriousWake(c) PROVE Matched'
  BY <1>4 DEF Timeout, SpuriousWake, EndWait, Goto, posterVars, syncerVars
<1>5. ASSUME NEW c \in Callers, TimedOut(c) PROVE Matched'
  BY <1>5 DEF TimedOut, Goto, posterVars, syncerVars
<1>6. ASSUME NEW c \in Callers, BeginCopy(c) PROVE Matched'
  BY <1>6 DEF BeginCopy, Goto, posterVars, syncerVars
<1>7. ASSUME NEW c \in Callers, EndCopy(c) PROVE Matched'
  BY <1>7 DEF EndCopy, Unlock, Goto, posterVars, syncerVars
<1>8. ASSUME NEW c \in Callers, free_syncer(c) PROVE Matched'
  BY <1>8 DEF free_syncer, FreeInside, Deregister, Goto, Return, posterVars
<1>9. ASSUME NEW c \in Callers, NEW e \in Events, NEW k \in Kinds,
             Call(c, e, k) \/ \E d \in Callers : CallFromHandler(d, c, e, k)
      PROVE  Matched'
  BY <1>9 DEF Call, CallFromHandler, Enter, Goto, posterVars, syncerVars
<1>10. ASSUME NEW m \in Msgs, Recv(m) PROVE Matched'
  BY <1>10 DEF Recv, callerVars, syncerVars
<1>11. CASE sync_event
  BY <1>11 DEF sync_event, FirstMatch, Matches, callerVars
<1>12. CASE FinishCopy
  BY <1>12 DEF FinishCopy, callerVars
<1>13. CASE Notify
  BY <1>13 DEF Notify, Goto, syncerVars
<1>14. CASE Delivered
  BY <1>14 DEF Delivered, callerVars, syncerVars
<1>. QED
  BY <1>1, <1>2, <1>3, <1>4, <1>5, <1>6, <1>7, <1>8, <1>9, <1>10, <1>11, <1>12, <1>13, <1>14
  DEF SyncNext, CallerStep, PosterStep

(* A step keeps SlotOwnership.                                             *)
LEMMA OwnershipStep ==
  ASSUME TypeOK, Places, SlotOwnership, SyncNext
  PROVE  SlotOwnership'
<1>. USE SyncerAssumption, NullIsNoSlot DEF TypeOK, Places, SlotOwnership
<1>1. ASSUME NEW c \in Callers, alloc_syncer(c) PROVE SlotOwnership'
  <2>1. ASSUME NEW s \in Slots,
               FirstValid(s),
               is_valid' = [is_valid EXCEPT ![s] = FALSE],
               slot' = [slot EXCEPT ![c] = s],
               Goto(c, "regist"),
               UNCHANGED <<want, kind, woke, got, ret, nested>>
        PROVE  SlotOwnership'
    BY <1>1, <2>1 DEF alloc_syncer, AllocInside, FirstValid, Goto, posterVars
  <2>2. CASE Return(c) /\ UNCHANGED <<is_valid, slot>>
    BY <1>1, <2>2 DEF alloc_syncer, AllocInside, Goto, Return, posterVars
  <2>. QED BY <1>1, <2>1, <2>2 DEF alloc_syncer, AllocInside
<1>2. ASSUME NEW c \in Callers, regist_event(c) PROVE SlotOwnership'
  BY <1>2 DEF regist_event, RegistInside, Goto, posterVars
<1>3. ASSUME NEW c \in Callers, BeginWait(c) PROVE SlotOwnership'
  BY <1>3 DEF BeginWait, Goto, posterVars, syncerVars
<1>4. ASSUME NEW c \in Callers, Timeout(c) \/ SpuriousWake(c) PROVE SlotOwnership'
  BY <1>4 DEF Timeout, SpuriousWake, EndWait, Goto, posterVars, syncerVars
<1>5. ASSUME NEW c \in Callers, TimedOut(c) PROVE SlotOwnership'
  BY <1>5 DEF TimedOut, Goto, posterVars, syncerVars
<1>6. ASSUME NEW c \in Callers, BeginCopy(c) PROVE SlotOwnership'
  BY <1>6 DEF BeginCopy, Goto, posterVars, syncerVars
<1>7. ASSUME NEW c \in Callers, EndCopy(c) PROVE SlotOwnership'
  BY <1>7 DEF EndCopy, Unlock, Goto, posterVars, syncerVars
<1>8. ASSUME NEW c \in Callers, free_syncer(c) PROVE SlotOwnership'
  BY <1>8 DEF free_syncer, FreeInside, Deregister, Goto, Return, posterVars
<1>9. ASSUME NEW c \in Callers, NEW e \in Events, NEW k \in Kinds,
             Call(c, e, k) \/ \E d \in Callers : CallFromHandler(d, c, e, k)
      PROVE  SlotOwnership'
  BY <1>9 DEF Call, CallFromHandler, Enter, Goto, posterVars, syncerVars
<1>10. ASSUME NEW m \in Msgs, Recv(m) PROVE SlotOwnership'
  BY <1>10 DEF Recv, callerVars, syncerVars
<1>11. CASE sync_event
  BY <1>11 DEF sync_event, FirstMatch, Matches, callerVars
<1>12. CASE FinishCopy
  BY <1>12 DEF FinishCopy, callerVars
<1>13. CASE Notify
  BY <1>13 DEF Notify, Goto, syncerVars
<1>14. CASE Delivered
  BY <1>14 DEF Delivered, callerVars, syncerVars
<1>. QED
  BY <1>1, <1>2, <1>3, <1>4, <1>5, <1>6, <1>7, <1>8, <1>9, <1>10, <1>11, <1>12, <1>13, <1>14
  DEF SyncNext, CallerStep, PosterStep

(* A step keeps the registration of every syncer but the one it allocates,  *)
(* registers or frees.                                                     *)
LEMMA RegistrationStep ==
  ASSUME TypeOK, Places, SlotOwnership, RegistrationIntegrity, Unregistered, SyncNext
  PROVE  (RegistrationIntegrity /\ Unregistered)'
<1>. USE SyncerAssumption, NullIsNoSlot DEF TypeOK, Places, SlotOwnership, RegistrationIntegrity, Unregistered, Registered
<1>1. ASSUME NEW c \in Callers, alloc_syncer(c) PROVE (RegistrationIntegrity /\ Unregistered)'
  <2>1. ASSUME NEW s \in Slots,
               FirstValid(s),
               is_valid' = [is_valid EXCEPT ![s] = FALSE],
               slot' = [slot EXCEPT ![c] = s],
               Goto(c, "regist"),
               UNCHANGED <<want, kind, woke, got, ret, nested>>
        PROVE  (RegistrationIntegrity /\ Unregistered)'
    BY <1>1, <2>1 DEF alloc_syncer, AllocInside, FirstValid, Goto, posterVars
  <2>2. CASE Return(c) /\ UNCHANGED <<is_valid, slot>>
    BY <1>1, <2>2 DEF alloc_syncer, AllocInside, Goto, Return, posterVars
  <2>. QED BY <1>1, <2>1, <2>2 DEF alloc_syncer, AllocInside
<1>2. ASSUME NEW c \in Callers, regist_event(c) PROVE (RegistrationIntegrity /\ Unregistered)'
  BY <1>2 DEF regist_event, RegistInside, Goto, posterVars
<1>3. ASSUME NEW c \in Callers, BeginWait(c) PROVE (RegistrationIntegrity /\ Unregistered)'
  BY <1>3 DEF BeginWait, Goto, posterVars, syncerVars
<1>4. ASSUME NEW c \in Callers, Timeout(c) \/ SpuriousWake(c) PROVE (RegistrationIntegrity /\ Unregistered)'
  BY <1>4 DEF Timeout, SpuriousWake, EndWait, Goto, posterVars, syncerVars
<1>5. ASSUME NEW c \in Callers, TimedOut(c) PROVE (RegistrationIntegrity /\ Unregistered)'
  BY <1>5 DEF TimedOut, Goto, posterVars, syncerVars
<1>6. ASSUME NEW c \in Callers, BeginCopy(c) PROVE (RegistrationIntegrity /\ Unregistered)'
  BY <1>6 DEF BeginCopy, Goto, posterVars, syncerVars
<1>7. ASSUME NEW c \in Callers, EndCopy(c) PROVE (RegistrationIntegrity /\ Unregistered)'
  BY <1>7 DEF EndCopy, Unlock, Goto, posterVars, syncerVars
<1>8. ASSUME NEW c \in Callers, free_syncer(c) PROVE (RegistrationIntegrity /\ Unregistered)'
  BY <1>8 DEF free_syncer, FreeInside, Deregister, Goto, Return, posterVars
<1>9. ASSUME NEW c \in Callers, NEW e \in Events, NEW k \in Kinds,
             Call(c, e, k) \/ \E d \in Callers : CallFromHandler(d, c, e, k)
      PROVE  (RegistrationIntegrity /\ Unregistered)'
  BY <1>9 DEF Call, CallFromHandler, Enter, Goto, posterVars, syncerVars
<1>10. ASSUME NEW m \in Msgs, Recv(m) PROVE (RegistrationIntegrity /\ Unregistered)'
  BY <1>10 DEF Recv, callerVars, syncerVars
<1>11. CASE sync_event
  BY <1>11 DEF sync_event, FirstMatch, Matches, callerVars
<1>12. CASE FinishCopy
  BY <1>12 DEF FinishCopy, callerVars
<1>13. CASE Notify
  BY <1>13 DEF Notify, Goto, syncerVars
<1>14. CASE Delivered
  BY <1>14 DEF Delivered, callerVars, syncerVars
<1>. QED
  BY <1>1, <1>2, <1>3, <1>4, <1>5, <1>6, <1>7, <1>8, <1>9, <1>10, <1>11, <1>12, <1>13, <1>14
  DEF SyncNext, CallerStep, PosterStep

(* A registered call copies to its own buffer or handler, if it has one.   *)
LEMMA SinkIsOwn ==
  ASSUME TypeOK, Registers, NEW c \in Callers, pc[c] \in {"signalled", "copy"}
  PROVE  Sink(c) = IF kind[c] = "none" THEN NULL ELSE c
  BY SMT DEF TypeOK, Registers, Registered, Sink

(* The first half is copied when the call has its lock back, ...           *)
LEMMA CopyOfLow ==
  ASSUME TypeOK, Registers, NEW c \in Callers, BeginCopy(c)
  PROVE  got' = IF kind[c] = "none" THEN got ELSE [got EXCEPT ![c].lo = msg[slot[c]].lo]
<1>1. got \in [Callers -> Halves] /\ NULL \notin Callers
  BY SyncerAssumption, Zenon DEF TypeOK
<1>2. Sink(c) = IF kind[c] = "none" THEN NULL ELSE c
  BY SinkIsOwn, Zenon DEF BeginCopy
<1>3. got' = [d \in Callers |-> IF d = Sink(c) THEN [got[d] EXCEPT !.lo = msg[slot[c]].lo]
                                               ELSE got[d]]
  BY Zenon DEF BeginCopy
<1>4. c \in Callers
  OBVIOUS
<1>5. CASE kind[c] = "none"
  <2>1. \A d \in Callers : d # Sink(c)
    BY ONLY <1>1, <1>2, <1>5
  <2>. QED BY ONLY <1>1, <1>3, <1>5, <2>1
<1>6. CASE kind[c] # "none"
  <2>1. Sink(c) = c
    BY ONLY <1>2, <1>6
  <2>. QED BY ONLY <1>1, <1>3, <1>4, <1>6, <2>1
<1>. QED BY <1>5, <1>6

(* ... the second when it lets go of it.                                   *)
LEMMA CopyOfHigh ==
  ASSUME TypeOK, Registers, NEW c \in Callers, EndCopy(c)
  PROVE  got' = IF kind[c] = "none" THEN got ELSE [got EXCEPT ![c].hi = msg[slot[c]].hi]
<1>1. got \in [Callers -> Halves] /\ NULL \notin Callers
  BY SyncerAssumption, Zenon DEF TypeOK
<1>2. Sink(c) = IF kind[c] = "none" THEN NULL ELSE c
  BY SinkIsOwn, Zenon DEF EndCopy
<1>3. got' = [d \in Callers |-> IF d = Sink(c) THEN [got[d] EXCEPT !.hi = msg[slot[c]].hi]
                                               ELSE got[d]]
  BY Zenon DEF EndCopy
<1>4. c \in Callers
  OBVIOUS
<1>5. CASE kind[c] = "none"
  <2>1. \A d \in Callers : d # Sink(c)
    BY ONLY <1>1, <1>2, <1>5
  <2>. QED BY ONLY <1>1, <1>3, <1>5, <2>1
<1>6. CASE kind[c] # "none"
  <2>1. Sink(c) = c
    BY ONLY <1>2, <1>6
  <2>. QED BY ONLY <1>1, <1>3, <1>4, <1>6, <2>1
<1>. QED BY <1>5, <1>6

(* A step keeps Contents: only a package of the event of the reader is     *)
(* ever written under its eyes.                                            *)
LEMMA ContentsStep ==
  ASSUME TypeOK, Placement, Alone, Registers, Contents, SyncNext
  PROVE  Contents'
<1>. USE SyncerAssumption, NullIsNoSlot DEF TypeOK, Placement, Places, Matched, Alone, Registers, Registered, Contents, OfEvent
<1>1. ASSUME NEW c \in Callers, alloc_syncer(c) PROVE Contents'
  BY <1>1 DEF alloc_syncer, AllocInside, Goto, Return, posterVars
<1>2. ASSUME NEW c \in Callers, regist_event(c) PROVE Contents'
  BY <1>2 DEF regist_event, RegistInside, Goto, posterVars
<1>3. ASSUME NEW c \in Callers, BeginWait(c) PROVE Contents'
  BY <1>3 DEF BeginWait, Goto, posterVars, syncerVars
<1>4. ASSUME NEW c \in Callers, Timeout(c) \/ SpuriousWake(c) PROVE Contents'
  <2>1. PICK l \in {"timedout", "signalled"}, why \in {"timeout", "spurious"} :
              EndWait(c, l, why)
    BY <1>4 DEF Timeout, SpuriousWake
  <2>2. woke'[c] # "signal" /\ \A d \in Callers \ {c} : woke'[d] = woke[d] /\ pc'[d] = pc[d]
    BY <2>1 DEF EndWait, Goto
  <2>. QED BY <2>1, <2>2 DEF EndWait, posterVars, syncerVars
<1>5. ASSUME NEW c \in Callers, TimedOut(c) PROVE Contents'
  BY <1>5 DEF TimedOut, Goto, posterVars, syncerVars
<1>6. ASSUME NEW c \in Callers, BeginCopy(c) PROVE Contents'
  <2>1. got' = IF kind[c] = "none" THEN got ELSE [got EXCEPT ![c].lo = msg[slot[c]].lo]
    BY CopyOfLow, <1>6
  <2>2. got \in [Callers -> Halves]
    BY DEF TypeOK
  <2>3. /\ kind[c] # "none" => got'[c].lo = msg[slot[c]].lo
        /\ \A d \in Callers \ {c} : got'[d] = got[d]
    BY ONLY <2>1, <2>2 DEF Halves
  <2>4. /\ pc[c] = "signalled" /\ pc'[c] = "copy"
        /\ \A d \in Callers \ {c} : pc'[d] = pc[d]
        /\ UNCHANGED <<msg, slot, want, kind, woke, ppc, pmsg, pslot>>
    BY <1>6 DEF BeginCopy, Goto, posterVars, syncerVars
  <2>. HIDE DEF TypeOK, Places, Matched, Alone, Registers
  <2>. QED BY <2>3, <2>4
<1>7. ASSUME NEW c \in Callers, EndCopy(c) PROVE Contents'
  <2>1. got' = IF kind[c] = "none" THEN got ELSE [got EXCEPT ![c].hi = msg[slot[c]].hi]
    BY CopyOfHigh, <1>7
  <2>2. got \in [Callers -> Halves]
    BY DEF TypeOK
  <2>3. /\ kind[c] # "none" => got'[c].hi = msg[slot[c]].hi /\ got'[c].lo = got[c].lo
        /\ \A d \in Callers \ {c} : got'[d] = got[d]
    BY ONLY <2>1, <2>2 DEF Halves
  <2>4. /\ pc[c] = "copy" /\ pc'[c] = "free"
        /\ \A d \in Callers \ {c} : pc'[d] = pc[d]
        /\ UNCHANGED <<msg, slot, want, kind, woke, ppc, pmsg, pslot>>
    BY <1>7 DEF EndCopy, Unlock, Goto, posterVars, syncerVars
  <2>. HIDE DEF TypeOK, Places, Matched, Alone, Registers
  <2>. QED BY <2>3, <2>4
<1>8. ASSUME NEW c \in Callers, free_syncer(c) PROVE Contents'
  BY <1>8 DEF free_syncer, FreeInside, Deregister, Goto, Return, posterVars
<1>9. ASSUME NEW c \in Callers, NEW e \in Events, NEW k \in Kinds,
             Call(c, e, k) \/ \E d \in Callers : CallFromHandler(d, c, e, k)
      PROVE  Contents'
  BY <1>9 DEF Call, CallFromHandler, Enter, Goto, posterVars, syncerVars
<1>10. ASSUME NEW m \in Msgs, Recv(m) PROVE Contents'
  BY <1>10 DEF Recv, callerVars, syncerVars
<1>11. CASE sync_event
  <2>1. ASSUME NEW s \in Slots,
               FirstMatch(s),
               pslot' = s,
               msg' = [msg EXCEPT ![s].lo = pmsg],
               ppc' = "copy"
        PROVE  Contents'
    <3>1. pmsg \in OfEvent(on_event[s])
      BY <1>11, <2>1 DEF sync_event, FirstMatch, Matches
    <3>2. /\ msg'[s].lo = pmsg
          /\ \A t \in Slots : t # s => msg'[t].lo = msg[t].lo
          /\ \A t \in Slots : msg'[t].hi = msg[t].hi
      BY <2>1 DEF Halves
    <3>. QED BY <1>11, <2>1, <3>1, <3>2 DEF sync_event, callerVars
  <2>2. CASE UNCHANGED msg /\ ppc' = "deliver"
    BY <1>11, <2>2 DEF sync_event, callerVars
  <2>. QED BY <1>11, <2>1, <2>2 DEF sync_event
<1>12. CASE FinishCopy
  BY <1>12 DEF FinishCopy, callerVars
<1>13. CASE Notify
  BY <1>13 DEF Notify, Goto, syncerVars
<1>14. CASE Delivered
  BY <1>14 DEF Delivered, callerVars, syncerVars
<1>. QED
  BY <1>1, <1>2, <1>3, <1>4, <1>5, <1>6, <1>7, <1>8, <1>9, <1>10, <1>11, <1>12, <1>13, <1>14
  DEF SyncNext, CallerStep, PosterStep

-----------------------------------------------------------------------------

LEMMA StepIInv == IInv /\ [SyncNext]_syncVars => IInv'
<1>1. ASSUME IInv, SyncNext PROVE IInv'
  <2>1. Alone /\ Registers
    BY <1>1, Zenon DEF IInv, SlotOwnership, RegistrationIntegrity, Alone, Registers
  <2> QED
    BY <1>1, <2>1, TypeStep, PlacesStep, MatchedStep, OwnershipStep, RegistrationStep,
       ContentsStep DEF IInv, Placement
<1>2. ASSUME IInv, UNCHANGED syncVars PROVE IInv'
  BY <1>2
  DEF syncVars, syncerVars, callerVars, posterVars, IInv, TypeOK, Placement, Places,
      Matched, SlotOwnership, RegistrationIntegrity, Unregistered, Contents
<1>. QED BY <1>1, <1>2

(* IInv holds in every state of every behaviour of the pool.               *)
THEOREM Invariance == SyncSpec => []IInv
<1>1. SyncInit => IInv
  BY InitIInv
<1>2. IInv /\ [SyncNext]_syncVars => IInv'
  BY StepIInv
<1>. QED BY <1>1, <1>2, PTL DEF SyncSpec

(* Every field of the syncers and every local of the threads keeps its     *)
(* type (struct T_event_syncer).                                           *)
THEOREM TypeCorrect == SyncSpec => []TypeOK
<1>1. IInv => TypeOK
  BY DEF IInv
<1>. QED BY <1>1, Invariance, PTL

(* However many threads call wait_on, no two ever hold one syncer and no   *)
(* syncer is leaked.                                                       *)
THEOREM ExclusiveSyncers == SyncSpec => []SlotOwnership
<1>1. IInv => SlotOwnership
  BY DEF IInv
<1>. QED BY <1>1, Invariance, PTL

(* A registration stays what its call made it until that call frees the    *)
(* syncer.                                                                 *)
THEOREM StableRegistrations == SyncSpec => []RegistrationIntegrity
<1>1. IInv => RegistrationIntegrity
  BY DEF IInv
<1>. QED BY <1>1, Invariance, PTL

(* wait_on never hands a signalled caller data of an event it did not ask  *)
(* for, although _msg is written outside the lock it is read under.        *)
THEOREM SignalBringsOwnEvent == SyncSpec => []SignalledGetsOwnEvent
<1>1. IInv => SignalledGetsOwnEvent
  BY DEF IInv, Contents, SignalledGetsOwnEvent
<1>. QED BY <1>1, Invariance, PTL

(* A step of the pool that changes what a caller was given is a step of    *)
(* the call of that caller.                                                *)
THEOREM NoForeignWrite == SyncSpec => WrittenOnlyDuringItsCall
<1> DEFINE Own == \A c \in Callers : got'[c] # got[c] =>
                    pc[c] \in {"signalled", "copy"} \/ pc'[c] = "idle"
<1>1. ASSUME IInv, SyncNext PROVE Own
  <2>. USE <1>1 DEF IInv, TypeOK
  <2>1. ASSUME NEW c \in Callers, alloc_syncer(c) \/ free_syncer(c) PROVE Own
    BY <2>1 DEF alloc_syncer, AllocInside, free_syncer, FreeInside, Return, Goto
  <2>2. ASSUME NEW c \in Callers, BeginCopy(c) \/ EndCopy(c) PROVE Own
    <3>1. pc[c] \in {"signalled", "copy"} /\ \A d \in Callers \ {c} : got'[d] = got[d]
      BY <2>2, CopyOfLow, CopyOfHigh DEF BeginCopy, EndCopy, RegistrationIntegrity, Registers
    <3>. QED BY <3>1
  <2>3. CASE UNCHANGED got
    BY <2>3
  <2>. QED
    BY <2>1, <2>2, <2>3
    DEF SyncNext, CallerStep, PosterStep, regist_event, RegistInside, BeginWait, Timeout, SpuriousWake,
        EndWait, TimedOut, Call, CallFromHandler, Enter, Recv, sync_event, FinishCopy,
        Notify, Delivered, callerVars
<1>2. ASSUME UNCHANGED syncVars PROVE Own
  BY <1>2 DEF syncVars, callerVars
<1>3. IInv /\ [SyncNext]_syncVars => [Own]_syncVars
  BY <1>1, <1>2
<1>. HIDE DEF Own
<1>4. SyncSpec => [][Own]_syncVars
  BY <1>3, Invariance, PTL DEF SyncSpec
<1>. QED BY <1>4 DEF WrittenOnlyDuringItsCall, Own

(* No package bypasses a call that is registered for its event.            *)
THEOREM AwaitedIsNotDirect == SyncSpec => DirectOnlyWhenUnawaited
<1> DEFINE Own == \A m \in Msgs : fate[m] # "direct" /\ fate'[m] = "direct" => ~Awaited(m)
<1>1. ASSUME IInv, SyncNext PROVE Own
  <2>. USE <1>1 DEF IInv, TypeOK, Fates
  <2>1. CASE sync_event
    BY <2>1 DEF sync_event, Matches, Awaited, RegistrationIntegrity, Placement, Places, Matched, Registered
  <2>2. CASE Notify \/ \E m \in Msgs : Recv(m)
    BY <2>2 DEF Notify, Recv
  <2>3. CASE UNCHANGED fate
    BY <2>3
  <2>. QED
    BY <2>1, <2>2, <2>3
    DEF SyncNext, CallerStep, PosterStep, regist_event, RegistInside, BeginWait, Timeout, SpuriousWake,
        EndWait, TimedOut, Call, CallFromHandler, Enter, Recv, FinishCopy, alloc_syncer, AllocInside,
        free_syncer, FreeInside, BeginCopy, EndCopy, Delivered, callerVars, posterVars
<1>2. ASSUME UNCHANGED syncVars PROVE Own
  BY <1>2 DEF syncVars, posterVars
<1>3. IInv /\ [SyncNext]_syncVars => [Own]_syncVars
  BY <1>1, <1>2
<1>. HIDE DEF Own
<1>4. SyncSpec => [][Own]_syncVars
  BY <1>3, Invariance, PTL DEF SyncSpec
<1>. QED BY <1>4 DEF DirectOnlyWhenUnawaited, Own

(* A package is claimed only while a call waits for its event, unless its  *)
(* event is the number idle syncers carry.                                 *)
THEOREM ClaimedForAWaiter == SyncSpec => SyncedHadWaiter
<1> DEFINE Own == \A m \in Msgs : fate[m] # "synced" /\ fate'[m] = "synced" =>
                    EventOf[m] = INVALID_EVENT \/ Awaited(m)
<1>1. ASSUME IInv, SyncNext PROVE Own
  <2>. USE <1>1 DEF IInv, TypeOK, Fates
  <2>1. CASE Notify
    <3>1. pmsg \in Msgs /\ pslot \in Slots /\ on_event[pslot] = EventOf[pmsg]
      BY <2>1 DEF Notify, Placement, Places, Matched
    <3>2. ASSUME on_event[pslot] # INVALID_EVENT PROVE Awaited(pmsg)
      <4>1. PICK c \in Callers : slot[c] = pslot
        BY <3>1, <3>2 DEF RegistrationIntegrity, SlotOwnership
      <4>2. pc[c] \in Registered
        BY <3>1, <3>2, <4>1, NullIsNoSlot DEF Placement, Places, Matched, Unregistered, Registered, PcStates
      <4>. QED BY <3>1, <4>1, <4>2 DEF Awaited, RegistrationIntegrity
    <3>. QED BY <2>1, <3>1, <3>2 DEF Notify
  <2>2. CASE sync_event \/ \E m \in Msgs : Recv(m)
    BY <2>2 DEF sync_event, Recv
  <2>3. CASE UNCHANGED fate
    BY <2>3
  <2>. QED
    BY <2>1, <2>2, <2>3
    DEF SyncNext, CallerStep, PosterStep, regist_event, RegistInside, BeginWait, Timeout, SpuriousWake,
        EndWait, TimedOut, Call, CallFromHandler, Enter, Recv, FinishCopy, alloc_syncer, AllocInside,
        free_syncer, FreeInside, BeginCopy, EndCopy, Delivered, callerVars, posterVars
<1>2. ASSUME UNCHANGED syncVars PROVE Own
  BY <1>2 DEF syncVars, posterVars
<1>3. IInv /\ [SyncNext]_syncVars => [Own]_syncVars
  BY <1>1, <1>2
<1>. HIDE DEF Own
<1>4. SyncSpec => [][Own]_syncVars
  BY <1>3, Invariance, PTL DEF SyncSpec
<1>. QED BY <1>4 DEF SyncedHadWaiter, Own

-----------------------------------------------------------------------------
(* What a call that was woken for no reason can see.                       *)

(* What a syncer on event e may hold: zeroes, a package of e, or a package *)
(* it accepted while it was idle.                                          *)
Allowed(e) == OfEvent(e) \cup OfEvent(INVALID_EVENT) \cup {NULL}

(* No syncer, and no call, holds half of a package it was not on the event *)
(* of; an idle call is on no event but INVALID_EVENT.                      *)
Seen ==
  /\ \A s \in Slots : msg[s].lo \in Allowed(on_event[s]) /\ msg[s].hi \in Allowed(on_event[s])
  /\ \A c \in Callers : got[c].lo \in Allowed(want[c]) /\ got[c].hi \in Allowed(want[c])
  /\ \A c \in Callers : pc[c] = "idle" => want[c] = INVALID_EVENT

(* What an idle syncer may hold, every syncer may hold.                    *)
LEMMA IdleAllowed ==
  ASSUME NEW e \in Events, NEW m \in Allowed(INVALID_EVENT)
  PROVE  m \in Allowed(e)
  BY DEF Allowed

(* A step keeps Seen: a syncer changes its event only while it has nothing *)
(* but what an idle syncer may hold, or is cleared.                        *)
LEMMA SeenStep ==
  ASSUME IInv, Seen, SyncNext
  PROVE  Seen'
<1>. USE SyncerAssumption, NullIsNoSlot DEF IInv, TypeOK, Seen
<1>0. NULL \in Allowed(INVALID_EVENT)
  BY DEF Allowed
<1>1. ASSUME NEW c \in Callers, alloc_syncer(c) PROVE Seen'
  <2>1. CASE Goto(c, "regist") /\ UNCHANGED <<want, got>>
    BY <1>1, <2>1 DEF alloc_syncer, AllocInside, Goto
  <2>2. CASE Return(c)
    BY <1>0, <1>1, <2>2, IdleAllowed DEF alloc_syncer, AllocInside, Goto, Return, Zero
  <2>. QED BY <1>1, <2>1, <2>2 DEF alloc_syncer, AllocInside
<1>2. ASSUME NEW c \in Callers, regist_event(c) PROVE Seen'
  <2>1. /\ slot[c] \in Slots /\ on_event[slot[c]] = INVALID_EVENT
        /\ on_event' = [on_event EXCEPT ![slot[c]] = want[c]]
        /\ pc' = [pc EXCEPT ![c] = "wait"]
        /\ UNCHANGED <<msg, got, want>>
    BY <1>2 DEF regist_event, RegistInside, Goto, Unregistered, Placement, Places, Matched
  <2>. QED BY <2>1, IdleAllowed
<1>3. ASSUME NEW c \in Callers, BeginCopy(c) PROVE Seen'
  <2>1. /\ slot[c] \in Slots /\ on_event[slot[c]] = want[c]
        /\ pc' = [pc EXCEPT ![c] = "copy"]
        /\ UNCHANGED <<msg, on_event, want>>
    BY <1>3 DEF BeginCopy, Goto, Placement, Places, Matched, RegistrationIntegrity, Registered, syncerVars
  <2>2. got' = IF kind[c] = "none" THEN got ELSE [got EXCEPT ![c].lo = msg[slot[c]].lo]
    BY <1>3, CopyOfLow DEF RegistrationIntegrity, Registers
  <2>. QED BY <2>1, <2>2 DEF Halves
<1>4. ASSUME NEW c \in Callers, EndCopy(c) PROVE Seen'
  <2>1. /\ slot[c] \in Slots /\ on_event[slot[c]] = want[c]
        /\ pc' = [pc EXCEPT ![c] = "free"]
        /\ UNCHANGED <<msg, on_event, want>>
    BY <1>4 DEF EndCopy, Goto, Placement, Places, Matched, RegistrationIntegrity, Registered, syncerVars
  <2>2. got' = IF kind[c] = "none" THEN got ELSE [got EXCEPT ![c].hi = msg[slot[c]].hi]
    BY <1>4, CopyOfHigh DEF RegistrationIntegrity, Registers
  <2>. QED BY <2>1, <2>2 DEF Halves
<1>5. ASSUME NEW c \in Callers, free_syncer(c) PROVE Seen'
  BY <1>0, <1>5 DEF free_syncer, FreeInside, Deregister, Goto, Return, Zero
<1>6. ASSUME NEW c \in Callers, NEW e \in Events, NEW k \in Kinds,
             Call(c, e, k) \/ \E d \in Callers : CallFromHandler(d, c, e, k)
      PROVE  Seen'
  <2>1. /\ want[c] = INVALID_EVENT
        /\ want' = [want EXCEPT ![c] = e]
        /\ pc' = [pc EXCEPT ![c] = "alloc"]
        /\ UNCHANGED <<msg, on_event, got>>
    BY <1>6 DEF Call, CallFromHandler, Enter, Goto, syncerVars
  <2>. QED BY <2>1, IdleAllowed
<1>7. CASE sync_event
  <2>1. ASSUME NEW s \in Slots,
               FirstMatch(s),
               msg' = [msg EXCEPT ![s].lo = pmsg]
        PROVE  Seen'
    <3>1. pmsg \in Allowed(on_event[s])
      BY <1>7, <2>1 DEF sync_event, FirstMatch, Matches, Placement, Places, Matched, OfEvent, Allowed
    <3>. QED BY <1>7, <2>1, <3>1 DEF sync_event, callerVars, Halves
  <2>2. CASE UNCHANGED msg
    BY <1>7, <2>2 DEF sync_event, callerVars
  <2>. QED BY <1>7, <2>1, <2>2 DEF sync_event
<1>8. CASE FinishCopy
  <2>1. pslot \in Slots /\ pmsg \in Allowed(on_event[pslot])
    BY <1>8 DEF FinishCopy, Placement, Places, Matched, OfEvent, Allowed
  <2>. QED BY <1>8, <2>1 DEF FinishCopy, callerVars, Halves
<1>9. CASE /\ UNCHANGED <<msg, on_event, got, want>>
           /\ \A c \in Callers : pc'[c] = "idle" => pc[c] = "idle"
  BY <1>9
<1>10. ASSUME NEW c \in Callers,
              BeginWait(c) \/ Timeout(c) \/ SpuriousWake(c) \/ TimedOut(c)
       PROVE  Seen'
  BY <1>9, <1>10 DEF BeginWait, Timeout, SpuriousWake, EndWait, TimedOut, Goto, syncerVars
<1>11. CASE Notify \/ Delivered \/ \E m \in Msgs : Recv(m)
  BY <1>9, <1>11 DEF Notify, Delivered, Recv, Goto, syncerVars, callerVars
<1>. QED
  BY <1>1, <1>2, <1>3, <1>4, <1>5, <1>6, <1>7, <1>8, <1>10, <1>11
  DEF SyncNext, CallerStep, PosterStep

(* Even a call that pthread_cond_timedwait woke without a signal never     *)
(* reads the answer to another event, whoever used its syncer before.      *)
THEOREM NoForeignAnswer == SyncSpec => []SpuriousSeesNoOtherEvent
<1>1. SyncInit => Seen
  BY DEF SyncInit, Seen, Zero, Allowed
<1>2. IInv /\ Seen /\ [SyncNext]_syncVars => Seen'
  <2>1. ASSUME Seen, UNCHANGED syncVars PROVE Seen'
    BY <2>1 DEF Seen, syncVars, syncerVars, callerVars
  <2>. QED BY <2>1, SeenStep
<1>3. Seen => SpuriousSeesNoOtherEvent
  BY DEF Seen, SpuriousSeesNoOtherEvent, Allowed
<1>. QED BY <1>1, <1>2, <1>3, Invariance, PTL DEF SyncSpec

-----------------------------------------------------------------------------
(* Deadlock.                                                               *)

(* Who has a lock: syncers_lock is held between two steps only by the      *)
(* poster in notify_handle, the _lock of a syncer only by the call that    *)
(* reads it.                                                               *)
LocksHeld ==
  /\ syncers_lock # NULL => ppc \in {"copy", "notify"}
  /\ \A s \in Slots : slot_lock[s] # NULL => pc[slot_lock[s]] = "copy" /\ slot[slot_lock[s]] = s

(* A call that waits for a nested one is inside its handler, and the       *)
(* nested one has not returned.                                            *)
NestedRun == \A c \in Callers : nested[c] # NULL => pc[c] = "copy" /\ pc[nested[c]] # "idle"

(* Nesting is well-founded: in any set of calls there is one that waits    *)
(* for none of the set.                                                    *)
Grounded == \A S \in SUBSET Callers : S # {} => \E c \in S : nested[c] \notin S

LInv == LocksHeld /\ NestedRun /\ Grounded

(* What a step may do to the nesting.                                      *)
Nests(c, d) == nested[c] = NULL /\ nested[d] = NULL /\ nested' = [nested EXCEPT ![c] = d]
Unnests(c)  == nested' = [d \in Callers |-> IF nested[d] = c THEN NULL ELSE nested[d]]

(* A call that begins waits for none yet, so no cycle is closed; one that  *)
(* returns only takes an edge away.                                        *)
LEMMA GroundedKept ==
  ASSUME nested \in [Callers -> Callers \cup {NULL}], Grounded,
         \/ UNCHANGED nested
         \/ \E c \in Callers : Unnests(c)
         \/ \E c, d \in Callers : c # d /\ Nests(c, d)
  PROVE  Grounded'
<1>. SUFFICES ASSUME NEW S \in SUBSET Callers, S # {} PROVE \E c \in S : nested'[c] \notin S
  BY DEF Grounded
<1>1. PICK c \in S : nested[c] \notin S
  BY DEF Grounded
<1>2. NULL \notin S
  BY SyncerAssumption
<1>3. CASE UNCHANGED nested
  BY <1>1, <1>3
<1>4. ASSUME NEW b \in Callers, Unnests(b) PROVE \E x \in S : nested'[x] \notin S
  BY <1>1, <1>2, <1>4 DEF Unnests
<1>5. ASSUME NEW b \in Callers, NEW d \in Callers, b # d, Nests(b, d)
      PROVE  \E x \in S : nested'[x] \notin S
  <2>1. CASE d \in S
    BY <1>2, <1>5, <2>1 DEF Nests
  <2>2. CASE d \notin S
    BY <1>1, <1>5, <2>2 DEF Nests
  <2>. QED BY <2>1, <2>2
<1>. QED BY <1>3, <1>4, <1>5

(* A step keeps LocksHeld, NestedRun and Grounded.                         *)
LEMMA LocksStep ==
  ASSUME TypeOK, Places, Alone, LInv, SyncNext
  PROVE  LInv'
<1>. USE SyncerAssumption, NullIsNoSlot DEF TypeOK, Places, Alone
<1>0. ASSUME LocksHeld', NestedRun',
             \/ UNCHANGED nested
             \/ \E c \in Callers : Unnests(c)
             \/ \E c, d \in Callers : c # d /\ Nests(c, d)
      PROVE  LInv'
  BY <1>0, GroundedKept DEF LInv
<1>. USE DEF LInv, LocksHeld, NestedRun
<1>1. ASSUME NEW c \in Callers, alloc_syncer(c) PROVE LInv'
  <2>1. ASSUME NEW s \in Slots,
               FirstValid(s),
               is_valid' = [is_valid EXCEPT ![s] = FALSE],
               slot' = [slot EXCEPT ![c] = s],
               Goto(c, "regist"),
               UNCHANGED <<want, kind, woke, got, ret, nested>>
        PROVE  LInv'
    BY <1>0, <1>1, <2>1 DEF alloc_syncer, AllocInside, FirstValid, Goto, posterVars
  <2>2. CASE Return(c) /\ UNCHANGED <<is_valid, slot>>
    <3>1. /\ pc[c] = "alloc" /\ syncers_lock = NULL /\ Unnests(c)
          /\ pc' = [pc EXCEPT ![c] = "idle"]
          /\ UNCHANGED <<slot, slot_lock, syncers_lock, ppc>>
      BY <1>1, <2>2, Zenon DEF alloc_syncer, AllocInside, Goto, Return, posterVars, Unnests
    <3>2. LocksHeld' /\ NestedRun'
      BY <3>1 DEF Unnests
    <3>. QED BY <1>0, <3>1, <3>2
  <2>. QED BY <1>0, <1>1, <2>1, <2>2 DEF alloc_syncer, AllocInside
<1>2. ASSUME NEW c \in Callers, regist_event(c) PROVE LInv'
  BY <1>0, <1>2 DEF regist_event, RegistInside, Goto, posterVars
<1>3. ASSUME NEW c \in Callers, BeginWait(c) PROVE LInv'
  BY <1>0, <1>3 DEF BeginWait, Goto, posterVars, syncerVars
<1>4. ASSUME NEW c \in Callers, Timeout(c) \/ SpuriousWake(c) PROVE LInv'
  BY <1>0, <1>4 DEF Timeout, SpuriousWake, EndWait, Goto, posterVars, syncerVars
<1>5. ASSUME NEW c \in Callers, TimedOut(c) PROVE LInv'
  BY <1>0, <1>5 DEF TimedOut, Goto, posterVars, syncerVars
<1>6. ASSUME NEW c \in Callers, BeginCopy(c) PROVE LInv'
  BY <1>0, <1>6 DEF BeginCopy, Goto, posterVars, syncerVars
<1>7. ASSUME NEW c \in Callers, EndCopy(c) PROVE LInv'
  BY <1>0, <1>7 DEF EndCopy, Unlock, Goto, posterVars, syncerVars
<1>8. ASSUME NEW c \in Callers, free_syncer(c) PROVE LInv'
  <2>1. /\ pc[c] = "free" /\ syncers_lock = NULL /\ Unnests(c)
        /\ pc' = [pc EXCEPT ![c] = "idle"]
        /\ slot' = [slot EXCEPT ![c] = NULL]
        /\ UNCHANGED <<slot_lock, syncers_lock, ppc>>
    BY <1>8, Zenon DEF free_syncer, FreeInside, Goto, Return, posterVars, Unnests
  <2>2. LocksHeld' /\ NestedRun'
    BY <2>1 DEF Unnests
  <2>. QED BY <1>0, <2>1, <2>2
<1>9. ASSUME NEW c \in Callers, NEW e \in Events, NEW k \in Kinds,
             Call(c, e, k) \/ \E d \in Callers : CallFromHandler(d, c, e, k)
      PROVE  LInv'
  <2>1. /\ pc[c] = "idle" /\ nested[c] = NULL
        /\ pc' = [pc EXCEPT ![c] = "alloc"]
        /\ UNCHANGED <<slot, slot_lock, syncers_lock, ppc>>
    BY <1>9 DEF Call, CallFromHandler, Enter, Goto, posterVars
  <2>2. CASE Call(c, e, k)
    BY <1>0, <2>1, <2>2 DEF Call
  <2>3. ASSUME NEW d \in Callers, CallFromHandler(d, c, e, k) PROVE LInv'
    <3>1. pc[d] = "copy" /\ d # c /\ Nests(d, c)
      BY <2>1, <2>3, Zenon DEF CallFromHandler, Nests
    <3>2. LocksHeld' /\ NestedRun'
      BY <2>1, <3>1 DEF Nests
    <3>. QED BY <1>0, <3>1, <3>2
  <2>. QED BY <1>9, <2>2, <2>3
<1>10. ASSUME NEW m \in Msgs, Recv(m) PROVE LInv'
  BY <1>0, <1>10 DEF Recv, callerVars, syncerVars
<1>11. CASE sync_event
  BY <1>0, <1>11 DEF sync_event, FirstMatch, Matches, callerVars
<1>12. CASE FinishCopy
  BY <1>0, <1>12 DEF FinishCopy, callerVars
<1>13. CASE Notify
  BY <1>0, <1>13 DEF Notify, Goto, syncerVars
<1>14. CASE Delivered
  BY <1>0, <1>14 DEF Delivered, callerVars, syncerVars
<1>. QED
  BY <1>1, <1>2, <1>3, <1>4, <1>5, <1>6, <1>7, <1>8, <1>9, <1>10, <1>11, <1>12, <1>13, <1>14
  DEF SyncNext, CallerStep, PosterStep

LEMMA LocksInvariance == SyncSpec => []LInv
<1>1. SyncInit => LInv
  <2>1. SyncInit => LocksHeld /\ NestedRun
    BY DEF SyncInit, LocksHeld, NestedRun
  <2>2. SyncInit => Grounded
    BY SyncerAssumption DEF SyncInit, Grounded
  <2>. QED BY <2>1, <2>2 DEF LInv
<1>2. IInv /\ LInv /\ [SyncNext]_syncVars => LInv'
  <2>1. ASSUME IInv, LInv, SyncNext PROVE LInv'
    <3>1. TypeOK /\ Places /\ Alone
      BY <2>1, Zenon DEF IInv, Placement, SlotOwnership, Alone
    <3>. QED BY <2>1, <3>1, LocksStep
  <2>2. ASSUME LInv, UNCHANGED syncVars PROVE LInv'
    BY <2>2 DEF LInv, LocksHeld, NestedRun, Grounded, syncVars, callerVars, posterVars
  <2>. QED BY <2>1, <2>2
<1>. QED BY <1>1, <1>2, Invariance, PTL DEF SyncSpec

(* The nesting below c, down to a call that waits for no other.            *)
LEMMA InsideIsClosed ==
  ASSUME nested \in [Callers -> Callers \cup {NULL}], NEW c \in Callers
  PROVE  /\ c \in Inside(c)
         /\ \A x \in Inside(c) : nested[x] \in Inside(c) \cup {NULL}
BY DEF Inside

LEMMA Innermost ==
  ASSUME nested \in [Callers -> Callers \cup {NULL}], Grounded, NEW c \in Callers
  PROVE  \E d \in Inside(c) : nested[d] = NULL
<1>1. Inside(c) \in SUBSET Callers
  BY DEF Inside
<1>2. PICK d \in Inside(c) : nested[d] \notin Inside(c)
  BY <1>1, InsideIsClosed DEF Grounded
<1>. QED BY <1>2, InsideIsClosed

(* All calls inside a call that runs are running.                          *)
LEMMA InsideRuns ==
  ASSUME nested \in [Callers -> Callers \cup {NULL}], NestedRun,
         NEW c \in Callers, pc[c] # "idle", NEW d \in Inside(c)
  PROVE  pc[d] # "idle"
<1> DEFINE S == {x \in Callers : pc[x] # "idle"}
<1>1. c \in S /\ \A x \in S : nested[x] \in S \cup {NULL}
  BY DEF NestedRun
<1>2. d \in S
  <2>1. S \in SUBSET Callers
    OBVIOUS
  <2> HIDE DEF S
  <2>. QED BY <1>1, <2>1 DEF Inside
<1>. QED BY <1>2

(* A call that waits for no nested one is blocked by a lock, and since the *)
(* _lock of a syncer is held by nobody but its own call, by syncers_lock.  *)
LEMMA BlockedByPoster ==
  ASSUME TypeOK, Places, Alone, LInv,
         NEW d \in Callers, pc[d] # "idle", nested[d] = NULL, Blocked(d)
  PROVE  pc[d] \in {"alloc", "regist", "free"} /\ syncers_lock # NULL
<1>1. ASSUME pc[d] \in {"wait", "timedout", "signalled"}, slot_lock[slot[d]] # NULL
      PROVE  FALSE
  <2>1. slot[d] \in Slots
    BY <1>1 DEF TypeOK, Places
  <2>2. /\ slot_lock[slot[d]] \in Callers
        /\ pc[slot_lock[slot[d]]] = "copy"
        /\ slot[slot_lock[slot[d]]] = slot[d]
    BY <1>1, <2>1 DEF TypeOK, LInv, LocksHeld
  <2>. QED BY <1>1, <2>1, <2>2, NullIsNoSlot DEF Alone
<1>. QED BY <1>1 DEF Blocked

(* However many threads wait, answer and nest: the only deadlock is that   *)
(* of a handler whose innermost nested call needs syncers_lock while the   *)
(* poster, holding it, wants the _lock the handler runs under.             *)
THEOREM OnlyDeadlock == SyncSpec => []StuckOnlyInLockCycle
<1>1. ASSUME IInv, LInv, Stuck PROVE LockCycle
  <2>1. /\ TypeOK /\ Places /\ Alone /\ LocksHeld /\ NestedRun /\ Grounded
        /\ nested \in [Callers -> Callers \cup {NULL}]
    BY <1>1, Zenon DEF IInv, Placement, SlotOwnership, Alone, TypeOK, LInv
  <2>2. ASSUME NEW c \in Callers, pc[c] # "idle"
        PROVE  syncers_lock # NULL /\ \E d \in Inside(c) : pc[d] \in {"alloc", "regist", "free"}
    <3>1. PICK d \in Inside(c) : nested[d] = NULL
      BY <2>1, Innermost
    <3>2. d \in Callers
      BY DEF Inside
    <3>3. pc[d] # "idle"
      BY <2>1, <2>2, InsideRuns
    <3>. QED BY <1>1, <2>1, <3>1, <3>2, <3>3, BlockedByPoster DEF Stuck
  <2>3. ppc = "notify" /\ slot_lock[pslot] # NULL
    BY <1>1, <2>1, <2>2 DEF Stuck, InTheMiddle, PosterBlocked, LocksHeld
  <2>4. /\ slot_lock[pslot] \in Callers
        /\ pc[slot_lock[pslot]] = "copy"
    BY <2>1, <2>3 DEF TypeOK, Places, LocksHeld
  <2>5. PICK d \in Inside(slot_lock[pslot]) : pc[d] \in {"alloc", "regist", "free"}
    BY <2>2, <2>4
  <2>. QED BY <2>3, <2>4, <2>5 DEF LockCycle, Inside
<1>2. IInv /\ LInv => StuckOnlyInLockCycle
  BY <1>1 DEF StuckOnlyInLockCycle
<1>. QED BY <1>2, Invariance, LocksInvariance, PTL

(* No handler waits for a call of its own.                                 *)
Flat == \A c \in Callers : nested[c] = NULL

(* Then one of the threads in the middle of a call can go on: the call     *)
(* that holds the _lock the poster wants, or else the poster.              *)
LEMMA FlatGoesOn ==
  ASSUME TypeOK, Places, Alone, LInv, Flat
  PROVE  ~Stuck
<1> SUFFICES ASSUME Stuck PROVE FALSE
  OBVIOUS
<1>1. ppc \in {"copy", "notify"}
  <2>1. CASE ppc # "idle"
    BY <2>1 DEF Stuck, PosterBlocked, LInv, LocksHeld
  <2>2. ASSUME NEW c \in Callers, pc[c] # "idle" PROVE ppc \in {"copy", "notify"}
    BY <2>2, BlockedByPoster DEF Stuck, Flat, LInv, LocksHeld
  <2>. QED BY <2>1, <2>2 DEF Stuck, InTheMiddle
<1>2. pslot \in Slots /\ slot_lock[pslot] # NULL
  BY <1>1 DEF Stuck, PosterBlocked, Places
<1>3. slot_lock[pslot] \in Callers /\ pc[slot_lock[pslot]] = "copy"
  BY <1>2 DEF TypeOK, LInv, LocksHeld
<1>. QED BY <1>3 DEF Stuck, Blocked, Flat

(* Without a handler that calls wait_on there is none at all.              *)
THEOREM NoDeadlockUnnested ==
  ASSUME ~NestedCalls
  PROVE  SyncSpec => []~Stuck
<1>1. SyncInit => Flat
  BY DEF SyncInit, Flat
<1>2. Flat /\ [SyncNext]_syncVars => Flat'
  <2>1. ASSUME Flat, UNCHANGED nested PROVE Flat'
    BY <2>1 DEF Flat
  <2>2. ASSUME Flat, NEW c \in Callers, Return(c) PROVE Flat'
    BY <2>2 DEF Return, Flat
  <2>. QED
    BY <2>1, <2>2, Zenon
    DEF SyncNext, CallerStep, PosterStep, alloc_syncer, AllocInside, regist_event, RegistInside, BeginWait, Timeout,
        SpuriousWake, EndWait, TimedOut, BeginCopy, EndCopy, free_syncer, FreeInside, Call,
        CallFromHandler, Recv, sync_event, FinishCopy, Notify, Delivered, syncVars, callerVars
<1>3. IInv /\ LInv /\ Flat => ~Stuck
  <2>1. IInv => TypeOK /\ Places /\ Alone
    BY Zenon DEF IInv, Placement, SlotOwnership, Alone
  <2>. QED BY <2>1, FlatGoesOn
<1>. QED BY <1>1, <1>2, <1>3, Invariance, LocksInvariance, PTL DEF SyncSpec

(* Who is inside a call stays inside it while calls only begin.            *)
LEMMA InsideGrows ==
  ASSUME NEW c \in Callers, NEW d \in Inside(c),
         \/ UNCHANGED nested
         \/ \E x, y \in Callers : nested[x] = NULL /\ nested' = [nested EXCEPT ![x] = y],
         nested \in [Callers -> Callers \cup {NULL}]
  PROVE  d \in Inside(c)'
<1>1. d \in Callers
  BY DEF Inside
<1>2. SUFFICES ASSUME NEW S \in SUBSET Callers, c \in S,
                      \A x \in S : nested'[x] \in S \cup {NULL}
               PROVE  d \in S
  BY <1>1 DEF Inside
<1>3. \A x \in S : nested[x] \in S \cup {NULL}
  BY <1>2
<1>. QED BY <1>2, <1>3 DEF Inside

(* Once the poster and the handler wait for each other, they wait for      *)
(* ever: neither the clock nor any other thread lets one of them go on.    *)
THEOREM DeadlockIsForever == SyncSpec => LockCycleIsForever
<1> DEFINE Own == LockCycle => LockCycle'
<1>1. ASSUME IInv, LInv, LockCycle, SyncNext PROVE LockCycle'
  <2>1. PICK c, d \in Callers : /\ ppc = "notify" /\ slot_lock[pslot] = c /\ d \in Inside(c)
                                /\ pc[d] \in {"alloc", "regist", "free"}
    BY <1>1 DEF LockCycle
  <2>2. /\ TypeOK /\ Alone /\ pslot \in Slots /\ syncers_lock # NULL
        /\ nested \in [Callers -> Callers \cup {NULL}]
        /\ c # NULL
    BY <1>1, <2>1, SyncerAssumption
    DEF IInv, SlotOwnership, Alone, TypeOK, Placement, Places, Matched
  <2>3. pc[c] = "copy" /\ slot[c] = pslot
    BY <1>1, <2>1, <2>2 DEF LInv, LocksHeld
  <2>4. nested[c] # NULL
    <3>1. ASSUME nested[c] = NULL PROVE FALSE
      <4>1. {c} \in SUBSET Callers /\ \A x \in {c} : nested[x] \in {c} \cup {NULL}
        BY <3>1
      <4>. QED BY <2>1, <2>3, <4>1 DEF Inside
    <3>. QED BY <3>1
  <2>5. ASSUME UNCHANGED <<ppc, pslot>>, slot_lock'[pslot] = c, pc'[d] = pc[d],
               \/ UNCHANGED nested
               \/ \E x, y \in Callers : nested[x] = NULL /\ nested' = [nested EXCEPT ![x] = y]
        PROVE  LockCycle'
    <3>1. d \in Inside(c)'
      BY <2>1, <2>2, <2>5, InsideGrows
    <3>2. ppc' = "notify" /\ slot_lock'[pslot'] = c /\ pc'[d] \in {"alloc", "regist", "free"}
      BY <2>1, <2>5
    <3>. QED BY <3>1, <3>2 DEF LockCycle
  <2>6. ASSUME NEW b \in Callers, b # d, NEW l, Goto(b, l),
               UNCHANGED <<ppc, pslot, nested>>,
               slot_lock'[pslot] = slot_lock[pslot]
        PROVE  LockCycle'
    BY <2>1, <2>2, <2>5, <2>6 DEF Goto, TypeOK
  <2>7. ASSUME NEW b \in Callers, BeginWait(b) \/ Timeout(b) \/ SpuriousWake(b) \/ TimedOut(b)
        PROVE  LockCycle'
    BY <2>1, <2>6, <2>7
    DEF BeginWait, Timeout, SpuriousWake, EndWait, TimedOut, posterVars
  <2>8. ASSUME NEW b \in Callers, BeginCopy(b) PROVE LockCycle'
    <3>1. slot_lock[slot[b]] = NULL /\ slot_lock' = [slot_lock EXCEPT ![slot[b]] = b]
      BY <2>8 DEF BeginCopy
    <3>2. slot_lock'[pslot] = slot_lock[pslot]
      BY <2>1, <2>2, <3>1 DEF TypeOK
    <3>. QED BY <2>1, <2>6, <2>8, <3>2 DEF BeginCopy, posterVars
  <2>9. ASSUME NEW b \in Callers, EndCopy(b) PROVE LockCycle'
    <3>1. b # c /\ slot_lock' = [slot_lock EXCEPT ![slot[b]] = NULL]
      BY <2>4, <2>9 DEF EndCopy, Unlock
    <3>2. slot_lock'[pslot] = slot_lock[pslot]
      BY <2>2, <2>3, <3>1, NullIsNoSlot DEF TypeOK, Alone
    <3>. QED BY <2>1, <2>6, <2>9, <3>2 DEF EndCopy, posterVars
  <2>10. ASSUME NEW b \in Callers, NEW e \in Events, NEW k \in Kinds, Enter(b, e, k),
                \/ UNCHANGED nested
                \/ \E x, y \in Callers : nested[x] = NULL /\ nested' = [nested EXCEPT ![x] = y]
         PROVE  LockCycle'
    BY <2>1, <2>2, <2>5, <2>10 DEF Enter, Goto, posterVars, TypeOK
  <2>11. ASSUME NEW b \in Callers, NEW e \in Events, NEW k \in Kinds,
                Call(b, e, k) \/ \E x \in Callers : CallFromHandler(x, b, e, k)
         PROVE  LockCycle'
    BY <2>10, <2>11, Zenon DEF Call, CallFromHandler
  <2>12. ASSUME NEW b \in Callers PROVE ~(alloc_syncer(b) \/ regist_event(b) \/ free_syncer(b))
    BY <2>2 DEF alloc_syncer, AllocInside, regist_event, RegistInside, free_syncer, FreeInside
  <2>13. ~(PosterStep \/ \E m \in Msgs : Recv(m))
    BY <2>1, <2>2
    DEF PosterStep, sync_event, FinishCopy, Notify, MaySignal, Delivered, Recv
  <2>. QED
    BY <1>1, <2>7, <2>8, <2>9, <2>11, <2>12, <2>13 DEF SyncNext, CallerStep
<1>2. ASSUME LockCycle, UNCHANGED syncVars PROVE LockCycle'
  BY <1>2 DEF LockCycle, Inside, syncVars, callerVars, posterVars
<1>3. IInv /\ LInv /\ [SyncNext]_syncVars => [Own]_syncVars
  BY <1>1, <1>2
<1>. HIDE DEF Own
<1>4. SyncSpec => [][Own]_syncVars
  BY <1>3, Invariance, LocksInvariance, PTL DEF SyncSpec
<1>. QED BY <1>4 DEF LockCycleIsForever, Own

=============================================================================
