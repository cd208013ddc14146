---------------------------- MODULE StartupProofs ----------------------------
(***************************************************************************)
(* Proofs about the start of the event processor, for any calls, syncers,  *)
(* packages and backlog: what holds of the syncers while init_syncers is   *)
(* still at work on them, who can be left asleep on syncers_lock, and what *)
(* a result of send_msg_to_local means.                                    *)
(*                                                                         *)
(* Two invariants.  Base holds whatever init_syncers runs into: the types, *)
(* and where a thread may be when it sleeps on syncers_lock or is inside.  *)
(* Proper is what the lock is there for: that one thread is inside, and    *)
(* all that follows for the syncers.  It holds until init_syncers writes   *)
(* to what is in use, and not after.                                       *)
(***************************************************************************)
EXTENDS Startup, EventProcessorProofs

LockTypes ==
  /\ word \in {"free", "locked", "contended"}
  /\ at \in [Threads -> {"out", "asleep", "woken", "in"}]
  /\ seen \in [Callers -> Slots \cup {NULL}]
  /\ left \subseteq Threads

(* Somebody is inside while the word is not free.  As long as somebody     *)
(* sleeps that was not left, the word says so, or a thread was woken that  *)
(* will say so.                                                            *)
Futex ==
  /\ word # "free" => \E t \in Threads : at[t] = "in"
  /\ Asleep \ left # {} => word = "contended" \/ \E t \in Threads : at[t] = "woken"

(* Where a thread is in the code when it is not outside of syncers_lock,   *)
(* and when it has the _lock of a syncer.                                  *)
LockPlaces ==
  /\ \A c \in Callers : at[c] # "out" => pc[c] \in {"alloc", "regist", "free"}
  /\ at[Poster] # "out" => ppc \in {"sync", "copy", "notify"}
  /\ ppc \in {"copy", "notify"} => at[Poster] = "in"
  /\ syncers_lock # NULL => ppc \in {"copy", "notify"}
  /\ \A c \in Callers : seen[c] # NULL => at[c] = "in" /\ pc[c] = "alloc"
  /\ \A s \in Slots : slot_lock[s] # NULL => pc[slot_lock[s]] = "copy" /\ slot[slot_lock[s]] = s

Base == TypeOK /\ Places /\ LockTypes /\ Futex /\ LockPlaces

(* The syncers init_syncers has not yet set free, and those whose event it *)
(* has not yet written.                                                    *)
Unborn(s) ==
  \/ init_at = <<"lock">>
  \/ init_at = <<s, "valid">>
  \/ \E t \in Slots : t < s /\ init_at \in {<<t, "valid">>, <<t, "event">>, <<t, "rest">>}

Fresh(s) == Unborn(s) \/ init_at = <<s, "event">>

OneInside ==
  /\ \A t \in Threads : at[t] = "in" => word # "free"
  /\ \A t, u \in Threads : at[t] = "in" /\ at[u] = "in" => t = u

(* What alloc_syncer has read is still so when it takes the syncer.        *)
SeenIsFirst == \A c \in Callers : seen[c] # NULL => FirstValid(seen[c])

(* A free syncer is held by nobody, and no two calls hold one.             *)
Exclusive ==
  /\ \A s \in Slots : is_valid[s] => \A c \in Callers : slot[c] # s
  /\ Alone

UnbornIsFree == \A s \in Slots : Unborn(s) => ~is_valid[s] /\ \A c \in Callers : slot[c] # s

(* A syncer without a registered call points to nobody.                    *)
Unsunk ==
  \A s \in Slots :
    \/ handle[s] = NULL /\ sync_data[s] = NULL
    \/ \E c \in Callers : slot[c] = s /\ pc[c] \in Registered

(* What a syncer matches: nothing, event 0 until init_syncers writes it,   *)
(* or the event of the call registered with it.                            *)
EventsAreWanted ==
  \A s \in Slots :
    \/ on_event[s] = INVALID_EVENT
    \/ on_event[s] = ZERO_EVENT /\ Fresh(s)
    \/ \E c \in Callers : pc[c] \in Registered /\ slot[c] = s /\ want[c] = on_event[s]

(* Why sync_event is about to claim the package it copies.                 *)
Claim ==
  ppc \in {"copy", "notify"} =>
    \/ EventOf[pmsg] = INVALID_EVENT
    \/ EventOf[pmsg] = ZERO_EVENT /\ Fresh(pslot)
    \/ syncers_lock = Poster /\ Awaited(pmsg)

Proper ==
  /\ OneInside /\ SeenIsFirst /\ Exclusive /\ UnbornIsFree /\ EventsAreWanted /\ Claim
  /\ Matched /\ Registers /\ Unsunk /\ Contents

StartInv == Base /\ (~raced => Proper)

-----------------------------------------------------------------------------
(* syncers_lock.                                                           *)

LEMMA PosterIsThread == Poster \in Threads /\ Callers \subseteq Threads /\ Poster \notin Callers
BY StartupAssumption DEF Threads

(* What pthread_mutex_lock does.                                           *)
LEMMA LockIs ==
  ASSUME LockTypes, Futex, NEW t \in Threads, pthread_mutex_lock(t)
  PROVE  /\ LockTypes' /\ Futex'
         /\ WantsLock(t) /\ at[t] # "in" /\ UNCHANGED <<eventVars, initVars, seen, left, sockVars>>
         /\ \A u \in Threads : u # t => at'[u] = at[u]
         /\ word' # "free"
         /\ at'[t] = "in" => word = "free"
<1>. USE DEF LockTypes, Asleep
<1>1. /\ WantsLock(t) /\ at[t] \in {"out", "woken"}
      /\ UNCHANGED <<eventVars, initVars, seen, left, sockVars>>
  BY Zenon DEF pthread_mutex_lock
<1>2. CASE word = "free"
  <2>1. at' = [at EXCEPT ![t] = "in"] /\ word' = IF at[t] = "woken" THEN "contended" ELSE "locked"
    BY <1>2, Zenon DEF pthread_mutex_lock
  <2>2. CASE at[t] = "woken"
    BY <1>1, <1>2, <2>1, <2>2 DEF Futex
  <2>3. CASE at[t] = "out"
    BY <1>1, <1>2, <2>1, <2>3 DEF Futex
  <2> QED  BY <1>1, <2>2, <2>3
<1>3. CASE word # "free"
  <2>1. at' = [at EXCEPT ![t] = "asleep"] /\ word' = "contended"
    BY <1>3, Zenon DEF pthread_mutex_lock
  <2> QED  BY <1>1, <1>3, <2>1 DEF Futex
<1> QED  BY <1>2, <1>3

(* What pthread_mutex_unlock does: who leaves is out, and of the others at *)
(* most one changes, a sleeper that is woken.                              *)
LEMMA UnlockIs ==
  ASSUME LockTypes, Futex, NEW t \in Threads, at[t] = "in", pthread_mutex_unlock(t), left' = left
  PROVE  /\ word' \in {"free", "locked", "contended"}
         /\ at' \in [Threads -> {"out", "asleep", "woken", "in"}]
         /\ Futex'
         /\ word' = "free" /\ at'[t] = "out"
         /\ \A u \in Threads : u # t => at'[u] = at[u] \/ (at[u] = "asleep" /\ at'[u] = "woken")
<1>. USE DEF LockTypes, Asleep
<1>1. CASE word = "contended" /\ Asleep # {}
  <2>1. PICK u \in Asleep : at' = [at EXCEPT ![t] = "out", ![u] = "woken"] /\ word' = "free"
    BY <1>1, Zenon DEF pthread_mutex_unlock
  <2> QED  BY <1>1, <2>1 DEF Futex
<1>2. CASE ~(word = "contended" /\ Asleep # {})
  <2>1. at' = [at EXCEPT ![t] = "out"] /\ word' = "free"
    BY <1>2, Zenon DEF pthread_mutex_unlock
  <2> QED  BY <1>2, <2>1 DEF Futex
<1> QED  BY <1>1, <1>2

-----------------------------------------------------------------------------
(* What the initialisation does.                                           *)

LEMMA PlacesDiffer ==
  ASSUME NEW s \in Slots, NEW t \in Slots,
         NEW k \in {"valid", "event", "rest"}, NEW l \in {"valid", "event", "rest"}
  PROVE  /\ <<s, k>> = <<t, l>> <=> s = t /\ k = l
         /\ <<s, k>> # <<"lock">> /\ <<s, k>> # <<"done">>
<1>1. Len(<<s, k>>) = 2 /\ Len(<<"lock">>) = 1 /\ Len(<<"done">>) = 1
  OBVIOUS
<1> QED  BY <1>1


(* A step of init_syncers only makes syncers born, and the one whose event *)
(* it writes loses the zero.                                               *)
LEMMA InitMoves ==
  ASSUME NEW s \in Slots, NEW t \in Slots
  PROVE  /\ init_at = <<"lock">> => Unborn(t) /\ Fresh(t)
         /\ init_at = <<"lock">> /\ init_at' = <<0, "valid">> => Fresh(t)'
         /\ init_at = <<s, "valid">> => Unborn(s)
         /\ init_at = <<s, "valid">> /\ init_at' = <<s, "event">> =>
              /\ Unborn(t)' => Unborn(t) /\ t # s
              /\ Fresh(t) => Fresh(t)'
         /\ init_at = <<s, "event">> /\ init_at' = <<s, "rest">> =>
              /\ Unborn(t)' => Unborn(t)
              /\ Fresh(t) /\ t # s => Fresh(t)'
         /\ init_at = <<s, "rest">>
            /\ init_at' = (IF s + 1 \in Slots THEN <<s + 1, "valid">> ELSE <<"done">>) =>
              /\ Unborn(t)' => Unborn(t)
              /\ Fresh(t) => Fresh(t)'
<1>. USE SyncerAssumption, StartupAssumption, PlacesDiffer DEF Slots
<1>1. init_at = <<"lock">> => Unborn(t) /\ Fresh(t)
  BY Zenon DEF Unborn, Fresh
<1>2. ASSUME init_at' = <<0, "valid">> PROVE Fresh(t)'
  <2>1. 0 \in Slots /\ (t = 0 \/ 0 < t)
    BY SMT
  <2> QED  BY <1>2, <2>1, Zenon DEF Unborn, Fresh
<1>3. init_at = <<s, "valid">> => Unborn(s)
  BY Zenon DEF Unborn
<1>4. ASSUME init_at = <<s, "valid">>, init_at' = <<s, "event">>
      PROVE  (Unborn(t)' => Unborn(t) /\ t # s) /\ (Fresh(t) => Fresh(t)')
  <2>1. Unborn(t) <=> s = t \/ s < t
    BY <1>4, Zenon DEF Unborn
  <2>2. Unborn(t)' <=> s < t
    BY <1>4, Zenon DEF Unborn
  <2>3. Fresh(t) <=> s = t \/ s < t
    BY <1>4, <2>1, Zenon DEF Fresh
  <2>4. Fresh(t)' <=> s = t \/ s < t
    BY <1>4, <2>2, Zenon DEF Fresh
  <2> QED  BY <2>1, <2>2, <2>3, <2>4, SMT
<1>5. ASSUME init_at = <<s, "event">>, init_at' = <<s, "rest">>
      PROVE  (Unborn(t)' => Unborn(t)) /\ (Fresh(t) /\ t # s => Fresh(t)')
  <2>1. Unborn(t) <=> s < t
    BY <1>5, Zenon DEF Unborn
  <2>2. Unborn(t)' <=> s < t
    BY <1>5, Zenon DEF Unborn
  <2>3. Fresh(t) <=> s = t \/ s < t
    BY <1>5, <2>1, Zenon DEF Fresh
  <2> QED  BY <2>1, <2>2, <2>3, SMT DEF Fresh
<1>6. ASSUME init_at = <<s, "rest">>,
             init_at' = (IF s + 1 \in Slots THEN <<s + 1, "valid">> ELSE <<"done">>)
      PROVE  (Unborn(t)' => Unborn(t)) /\ (Fresh(t) => Fresh(t)')
  <2>1. Unborn(t) <=> s < t
    BY <1>6, Zenon DEF Unborn
  <2>2. Fresh(t) <=> s < t
    BY <1>6, <2>1, Zenon DEF Fresh
  <2>3. CASE s + 1 \in Slots
    <3>1. Unborn(t)' <=> s + 1 = t \/ s + 1 < t
      BY <1>6, <2>3, Zenon DEF Unborn
    <3> QED  BY <2>1, <2>2, <3>1, SMT DEF Fresh
  <2>4. CASE s + 1 \notin Slots
    <3>1. ~(s < t)
      BY <2>4, SMT
    <3>2. init_at' = <<"done">> /\ <<"done">> # <<"lock">>
      BY <1>6, <2>4, SMT
    <3>3. ~Unborn(t)'
      BY <3>2, Zenon DEF Unborn
    <3> QED  BY <2>1, <2>2, <3>1, <3>3, Zenon
  <2> QED  BY <2>3, <2>4
<1> QED  BY <1>1, <1>2, <1>3, <1>4, <1>5, <1>6, Zenon

(* What a step of init_syncers is, as far as the syncers see it.           *)
LEMMA InitIs ==
  ASSUME init_syncers
  PROVE  /\ UNCHANGED <<callerVars, posterVars, syncers_lock, at, seen>>
         /\ raced => raced'
         /\ \/ /\ init_at = <<"lock">> /\ init_at' = <<0, "valid">>
               /\ ~raced' => word = "free"
               /\ word' = "free" /\ left' = Asleep
               /\ UNCHANGED <<syncerVars, slot_lock>>
            \/ \E s \in Slots :
                 /\ ~raced' => ~InUse(s)
                 /\ UNCHANGED <<word, left>>
                 /\ \/ /\ init_at = <<s, "valid">> /\ init_at' = <<s, "event">>
                       /\ slot_lock' = [slot_lock EXCEPT ![s] = NULL]
                       /\ is_valid' = [is_valid EXCEPT ![s] = TRUE]
                       /\ UNCHANGED <<on_event, handle, sync_data, msg>>
                    \/ /\ init_at = <<s, "event">> /\ init_at' = <<s, "rest">>
                       /\ on_event' = [on_event EXCEPT ![s] = INVALID_EVENT]
                       /\ UNCHANGED <<slot_lock, is_valid, handle, sync_data, msg>>
                    \/ /\ init_at = <<s, "rest">>
                       /\ init_at' = IF s + 1 \in Slots THEN <<s + 1, "valid">>
                                                        ELSE <<"done">>
                       /\ handle' = [handle EXCEPT ![s] = NULL]
                       /\ sync_data' = [sync_data EXCEPT ![s] = NULL]
                       /\ msg' = [msg EXCEPT ![s] = Zero]
                       /\ UNCHANGED <<slot_lock, is_valid, on_event>>
<1>1. CASE InitSyncersLock
  BY <1>1, Zenon DEF InitSyncersLock, InitStep
<1>2. ASSUME NEW s \in Slots, InitValid(s) \/ InitEvent(s) \/ InitRest(s)
      PROVE  /\ UNCHANGED <<callerVars, posterVars, syncers_lock, at, seen, word, left>>
             /\ raced' = (raced \/ InUse(s))
             /\ \/ /\ init_at = <<s, "valid">> /\ init_at' = <<s, "event">>
                   /\ slot_lock' = [slot_lock EXCEPT ![s] = NULL]
                   /\ is_valid' = [is_valid EXCEPT ![s] = TRUE]
                   /\ UNCHANGED <<on_event, handle, sync_data, msg>>
                \/ /\ init_at = <<s, "event">> /\ init_at' = <<s, "rest">>
                   /\ on_event' = [on_event EXCEPT ![s] = INVALID_EVENT]
                   /\ UNCHANGED <<slot_lock, is_valid, handle, sync_data, msg>>
                \/ /\ init_at = <<s, "rest">>
                   /\ init_at' = IF s + 1 \in Slots THEN <<s + 1, "valid">> ELSE <<"done">>
                   /\ handle' = [handle EXCEPT ![s] = NULL]
                   /\ sync_data' = [sync_data EXCEPT ![s] = NULL]
                   /\ msg' = [msg EXCEPT ![s] = Zero]
                   /\ UNCHANGED <<slot_lock, is_valid, on_event>>
  BY <1>2, Zenon DEF InitValid, InitEvent, SetIdleEvent, InitRest, InitStep, mutexVars
<1> QED  BY <1>1, <1>2, Zenon DEF init_syncers

-----------------------------------------------------------------------------
(* The senders.                                                            *)

SocketTypeOK ==
  /\ spc \in [Msgs -> {"idle", "connect", "send", "done"}]
  /\ tries \in [Msgs -> 0 .. ConnectTries]
  /\ sent \in [Msgs -> {"none", "SUCCESS", "FAILED"}]
  /\ pending \in Seq(Msgs) /\ Len(pending) <= Backlog

(* What a step can do to the senders and to the connections.               *)
LEMMA SocketSteps ==
  ASSUME [StartNext]_allVars
  PROVE  \/ UNCHANGED sockVars
         \/ \E r \in {"SUCCESS", "FAILED"} : Accept(r)
         \/ \E m \in Msgs : BeginSend(m) \/ send_msg_to_local(m)
<1>1. UNCHANGED allVars => UNCHANGED sockVars
  BY Zenon DEF allVars
<1>2. AcceptAndRecv \/ AcceptAndClose => \E r \in {"SUCCESS", "FAILED"} : Accept(r)
  BY Zenon DEF AcceptAndRecv, AcceptAndClose
<1>3. event_poster => UNCHANGED sockVars \/ AcceptAndRecv \/ AcceptAndClose
  BY Zenon DEF event_poster, init_msg_mailbox, try_create_socket, pthread_mutex_lock, PosterRuns
<1>4. event_handler => UNCHANGED sockVars
  BY Zenon DEF event_handler, init_syncers, InitSyncersLock, InitValid, InitEvent, InitRest,
     InitStep
<1>5. ASSUME NEW c \in Callers, CallBegins(c) \/ CallerRuns(c) \/ pthread_mutex_lock(c)
      PROVE  UNCHANGED sockVars
  BY <1>5, Zenon DEF CallBegins, CallerRuns, pthread_mutex_lock
<1> QED  BY <1>1, <1>2, <1>3, <1>4, <1>5, Zenon DEF StartNext

LEMMA SocketTypeStep ==
  ASSUME SocketTypeOK, [StartNext]_allVars
  PROVE  SocketTypeOK'
<1>1. CASE UNCHANGED sockVars
  BY <1>1, Zenon DEF SocketTypeOK, sockVars
<1>2. ASSUME NEW r \in {"SUCCESS", "FAILED"}, Accept(r) PROVE SocketTypeOK'
  <2>1. pending # << >> /\ pending' = Tail(pending) /\ UNCHANGED <<spc, tries, sent>>
    BY <1>2, Zenon DEF Accept
  <2>2. pending' \in Seq(Msgs) /\ Len(pending') = Len(pending) - 1
    BY <2>1, HeadTailProperties DEF SocketTypeOK
  <2>3. Len(pending') <= Backlog
    BY <2>2, LenProperties, StartupAssumption, SMT DEF SocketTypeOK
  <2> QED  BY <2>1, <2>2, <2>3, Zenon DEF SocketTypeOK
<1>3. ASSUME NEW m \in Msgs, BeginSend(m) \/ Send(m) PROVE SocketTypeOK'
  <2>1. /\ \E l \in {"connect", "done"} : spc' = [spc EXCEPT ![m] = l]
        /\ sent' = sent \/ \E r \in {"SUCCESS", "FAILED"} : sent' = [sent EXCEPT ![m] = r]
        /\ UNCHANGED <<tries, pending>>
    BY <1>3, Zenon DEF BeginSend, Send, SendStep
  <2> QED  BY <2>1, SMT DEF SocketTypeOK
<1>4. ASSUME NEW m \in Msgs, ConnectRefused(m) PROVE SocketTypeOK'
  <2>1. /\ UNCHANGED pending
        /\ \/ /\ spc' = [spc EXCEPT ![m] = "done"] /\ tries' = [tries EXCEPT ![m] = 0]
              /\ sent' = [sent EXCEPT ![m] = "FAILED"]
           \/ /\ tries[m] + 1 < ConnectTries
              /\ spc' = [spc EXCEPT ![m] = "connect"]
              /\ tries' = [tries EXCEPT ![m] = tries[m] + 1]
              /\ sent' = sent
    <3>1. CASE tries[m] + 1 >= ConnectTries
      BY <1>4, <3>1, Zenon DEF ConnectRefused, SendStep
    <3>2. CASE ~(tries[m] + 1 >= ConnectTries)
      <4>1. tries[m] + 1 < ConnectTries
        BY <3>2, StartupAssumption, SMT DEF SocketTypeOK
      <4> QED  BY <1>4, <3>2, <4>1, Zenon DEF ConnectRefused, SendStep
    <3> QED  BY <3>1, <3>2
  <2>2. /\ tries[m] \in 0 .. ConnectTries /\ tries \in [Msgs -> 0 .. ConnectTries]
        /\ ConnectTries \in Nat \ {0}
    BY StartupAssumption, Zenon DEF SocketTypeOK
  <2>3. tries' \in [Msgs -> 0 .. ConnectTries]
    BY <2>1, <2>2, SMT
  <2>4. /\ spc' \in [Msgs -> {"idle", "connect", "send", "done"}]
        /\ sent' \in [Msgs -> {"none", "SUCCESS", "FAILED"}]
    <3>1. /\ \E l \in {"connect", "done"} : spc' = [spc EXCEPT ![m] = l]
          /\ sent' = sent \/ sent' = [sent EXCEPT ![m] = "FAILED"]
      BY <2>1, Zenon
    <3>2. /\ spc \in [Msgs -> {"idle", "connect", "send", "done"}]
          /\ sent \in [Msgs -> {"none", "SUCCESS", "FAILED"}]
      BY Zenon DEF SocketTypeOK
    <3> QED  BY ONLY <3>1, <3>2, SMT
  <2> QED  BY <2>1, <2>3, <2>4, Zenon DEF SocketTypeOK
<1>5. ASSUME NEW m \in Msgs, Connect(m) PROVE SocketTypeOK'
  <2>1. /\ Len(pending) < Backlog /\ pending' = Append(pending, m)
        /\ spc' = [spc EXCEPT ![m] = "send"] /\ tries' = [tries EXCEPT ![m] = 0]
        /\ sent' = sent
    BY <1>5, Zenon DEF Connect, CanConnect, SendStep
  <2>2. pending' \in Seq(Msgs) /\ Len(pending') = Len(pending) + 1
    BY <2>1, AppendProperties DEF SocketTypeOK
  <2>3. Len(pending') <= Backlog
    BY <2>1, <2>2, LenProperties, StartupAssumption, SMT DEF SocketTypeOK
  <2>4. spc' \in [Msgs -> {"idle", "connect", "send", "done"}] /\ tries' \in [Msgs -> 0 .. ConnectTries]
    BY <2>1, StartupAssumption, SMT DEF SocketTypeOK
  <2> QED  BY <2>1, <2>2, <2>3, <2>4, Zenon DEF SocketTypeOK
<1> QED  BY <1>1, <1>2, <1>3, <1>4, <1>5, SocketSteps, Zenon DEF send_msg_to_local

(* The poster accepts a connection for one of the packages.                *)
LEMMA AcceptIs ==
  ASSUME SocketTypeOK, AcceptAndRecv
  PROVE  \E m \in Msgs :
           /\ Recv(m) /\ sent[m] = "SUCCESS"
           /\ UNCHANGED <<mailVars, initVars, lockVars, spc, tries, sent>>
<1>1. /\ pending # << >> /\ sent[Head(pending)] = "SUCCESS" /\ Recv(Head(pending))
      /\ UNCHANGED <<mailVars, initVars, lockVars, spc, tries, sent>>
  BY Zenon DEF AcceptAndRecv, Accept
<1>2. Head(pending) \in Msgs
  BY <1>1, HeadTailProperties DEF SocketTypeOK
<1> QED  BY <1>1, <1>2, Zenon

(* The steps of the start.                                                 *)

LEMMA StartSteps ==
  ASSUME SocketTypeOK, [StartNext]_allVars
  PROVE  \/ init_syncers
         \/ /\ UNCHANGED <<init_at, raced>>
            /\ \/ UNCHANGED <<syncVars, lockVars>>
               \/ \E t \in Threads : pthread_mutex_lock(t)
               \/ \E c \in Callers : CallBegins(c) \/ CallerRuns(c)
               \/ ((\E m \in Msgs : Recv(m)) \/ Delivered) /\ UNCHANGED lockVars
               \/ PosterRuns
<1>1. UNCHANGED allVars => UNCHANGED <<syncVars, lockVars, init_at, raced>>
  BY Zenon DEF allVars, eventVars, initVars
<1>2. ASSUME NEW t \in Threads, pthread_mutex_lock(t) PROVE UNCHANGED <<init_at, raced>>
  BY <1>2, Zenon DEF pthread_mutex_lock, initVars
<1>3. ASSUME NEW c \in Callers, CallBegins(c) \/ CallerRuns(c) PROVE UNCHANGED <<init_at, raced>>
  BY <1>3, Zenon DEF CallBegins, CallerRuns, initVars
<1>4. CASE init_msg_mailbox \/ try_create_socket
  BY <1>4, Zenon DEF init_msg_mailbox, try_create_socket, eventVars
<1>5. CASE AcceptAndRecv
  BY <1>5, AcceptIs, Zenon DEF initVars
<1>6. CASE AcceptAndClose
  BY <1>6, Zenon DEF AcceptAndClose, Accept, NothingToPost, initVars
<1>7. PosterRuns => UNCHANGED <<init_at, raced>>
  BY Zenon DEF PosterRuns, initVars
<1>8. CASE \/ deliver_mail /\ UNCHANGED <<init_at, raced, lockVars>>
           \/ DeliverToForgotten /\ UNCHANGED <<initVars, lockVars>>
  BY <1>8, Zenon DEF deliver_mail, DeliverToForgotten, initVars
<1>9. event_handler => init_syncers \/ UNCHANGED <<syncVars, lockVars, init_at, raced>>
  BY Zenon DEF event_handler, HandlerThread, CheckMailbox, wait_post, FetchAndProcess,
     HandlerStep, initVars
<1>10. WakeUp => UNCHANGED syncVars
  BY Zenon DEF WakeUp, HandlerStep
<1>11. ASSUME NEW m \in Msgs, BeginSend(m) \/ send_msg_to_local(m)
      PROVE  UNCHANGED <<syncVars, lockVars, init_at, raced>>
  BY <1>11, Zenon DEF BeginSend, send_msg_to_local, ConnectRefused, Connect, Send, SendStep,
     eventVars, initVars
<1>12. Poster \in Threads /\ \A c \in Callers : c \in Threads
  BY PosterIsThread, Zenon
<1>13. CASE event_poster
  BY <1>2, <1>4, <1>5, <1>6, <1>7, <1>8, <1>12, <1>13, Zenon DEF event_poster
<1> QED  BY <1>1, <1>2, <1>3, <1>9, <1>10, <1>11, <1>12, <1>13, Zenon DEF StartNext

(* Steps of a caller, by how much of Syncer they are.  Those of the first  *)
(* kind are Syncer's own; those of the second are, if c is alone inside.   *)
LEMMA CallerSteps ==
  ASSUME NEW c \in Callers, CallBegins(c) \/ CallerRuns(c)
  PROVE  \/ /\ SyncNext /\ UNCHANGED lockVars
            /\ \/ (\E e \in Events, k \in Kinds : Call(c, e, k))
               \/ BeginWait(c) \/ Timeout(c) \/ TimedOut(c) \/ BeginCopy(c) \/ EndCopy(c)
         \/ FindSyncer(c) /\ UNCHANGED <<syncVars, mutexVars, left>>
         \/ TakeSyncer(c) /\ UNCHANGED left
         \/ UnderLock(c) /\ UNCHANGED <<seen, left>>
<1>1. \A w \in Wanted : w[1] \in Events /\ w[2] \in Kinds
  BY StartupAssumption, SMT
<1>2. CASE CallBegins(c)
  BY <1>1, <1>2, Zenon DEF CallBegins, SyncNext
<1>3. CASE CallerRuns(c)
  BY <1>3, Zenon DEF CallerRuns, FindSyncer, UnderLock, OutsideLock, SyncNext, CallerStep,
     lockVars
<1> QED  BY <1>2, <1>3

LEMMA PosterSteps ==
  ASSUME PosterRuns
  PROVE  /\ SyncNext /\ UNCHANGED <<seen, left>>
         /\ \/ sync_event /\ at[Poster] = "in" /\ ppc' = "copy" /\ UNCHANGED mutexVars
            \/ sync_event /\ at[Poster] = "in" /\ ppc' = "deliver" /\ pthread_mutex_unlock(Poster)
            \/ FinishCopy /\ UNCHANGED mutexVars
            \/ Notify /\ pthread_mutex_unlock(Poster)
<1>1. sync_event \/ FinishCopy \/ Notify => SyncNext
  BY Zenon DEF SyncNext, PosterStep
<1>2. sync_event => ppc' \in {"copy", "deliver"}
  BY Zenon DEF sync_event
<1>3. "copy" # "deliver"
  OBVIOUS
<1> QED  BY <1>1, <1>2, <1>3, Zenon DEF PosterRuns

-----------------------------------------------------------------------------
(* What the threads do inside syncers_lock, whoever else is there.         *)

LEMMA InsideTypes ==
  ASSUME TypeOK, Places, LockTypes, LockPlaces, NEW c \in Callers, TakeSyncer(c) \/ UnderLock(c)
  PROVE  TypeOK' /\ Places'
<1>. USE SyncerAssumption, NullIsNoSlot DEF TypeOK, Places
<1>1. CASE TakeSyncer(c)
  <2>1. seen[c] \in Slots /\ pc[c] = "alloc"
    BY <1>1 DEF TakeSyncer, LockTypes, LockPlaces
  <2>2. /\ is_valid' = [is_valid EXCEPT ![seen[c]] = FALSE]
        /\ slot' = [slot EXCEPT ![c] = seen[c]]
        /\ pc' = [pc EXCEPT ![c] = "regist"]
        /\ UNCHANGED <<on_event, msg, handle, sync_data, syncers_lock, slot_lock, want, kind, woke,
                       got, ret, nested, posterVars>>
    BY <1>1, Zenon DEF TakeSyncer, Goto
  <2>. QED  BY <2>1, <2>2 DEF PcStates, posterVars
<1>2. CASE NoSyncer(c)
  <2>1. Return(c) /\ UNCHANGED <<is_valid, slot>>
    BY <1>2, Zenon DEF NoSyncer, AllocInside, FirstValid
  <2>2. /\ pc[c] = "alloc"
        /\ UNCHANGED <<on_event, msg, handle, sync_data, syncers_lock, slot_lock, posterVars>>
    BY <1>2, Zenon DEF NoSyncer, AllocInside
  <2>. QED  BY <2>1, <2>2 DEF Goto, Return, Zero, Halves, PcStates, posterVars
<1>3. CASE RegistInside(c)
  BY <1>3 DEF RegistInside, Goto, PcStates, posterVars
<1>4. CASE FreeInside(c)
  BY <1>4 DEF FreeInside, Deregister, Goto, Return, Zero, Halves, PcStates, posterVars
<1> QED  BY <1>1, <1>2, <1>3, <1>4 DEF UnderLock

(* Inside, a caller moves itself, and nobody's _lock.                      *)
LEMMA InsideMoves ==
  ASSUME TypeOK, Places, NEW c \in Callers, TakeSyncer(c) \/ UnderLock(c),
         seen[c] # NULL => pc[c] = "alloc"
  PROVE  /\ pc[c] \in {"alloc", "regist", "free"}
         /\ \A d \in Callers : d # c => pc'[d] = pc[d] /\ slot'[d] = slot[d]
         /\ UNCHANGED <<slot_lock, syncers_lock, posterVars>>
         /\ pthread_mutex_unlock(c)
         /\ TakeSyncer(c) => seen' = [seen EXCEPT ![c] = NULL]
         /\ UnderLock(c) => UNCHANGED seen /\ seen[c] = NULL /\ at[c] = "in"
<1>1. CASE TakeSyncer(c)
  <2>1. /\ seen[c] # NULL /\ slot' = [slot EXCEPT ![c] = seen[c]]
        /\ pc' = [pc EXCEPT ![c] = "regist"]
        /\ seen' = [seen EXCEPT ![c] = NULL]
        /\ pthread_mutex_unlock(c)
        /\ UNCHANGED <<syncers_lock, slot_lock, posterVars>>
    BY <1>1, Zenon DEF TakeSyncer, Goto
  <2>. QED  BY <2>1, <1>1 DEF TypeOK, UnderLock
<1>2. CASE UnderLock(c)
  <2>1. /\ pc[c] \in {"alloc", "regist", "free"}
        /\ \E l \in {"regist", "wait", "idle"} : pc' = [pc EXCEPT ![c] = l]
        /\ slot' = slot \/ \E s \in Slots \cup {NULL} : slot' = [slot EXCEPT ![c] = s]
        /\ UNCHANGED <<slot_lock, syncers_lock, posterVars>>
    BY <1>2, Zenon DEF UnderLock, NoSyncer, AllocInside, RegistInside, FreeInside, Goto, Return
  <2>2. at[c] = "in" /\ seen[c] = NULL /\ pthread_mutex_unlock(c) /\ UNCHANGED seen
    BY <1>2, Zenon DEF UnderLock
  <2>3. ~TakeSyncer(c)
    BY <2>2, Zenon DEF TakeSyncer
  <2>. QED  BY <2>1, <2>2, <2>3 DEF TypeOK
<1> QED  BY <1>1, <1>2

(* A step keeps what Base says of the locks.                               *)
LEMMA HoldStep ==
  ASSUME SocketTypeOK, Base, [StartNext]_allVars
  PROVE  LockTypes' /\ Futex' /\ LockPlaces'
<1>0. TypeOK /\ Places /\ LockTypes /\ Futex /\ LockPlaces
  BY Zenon DEF Base
<1>. USE PosterIsThread, SyncerAssumption, NullIsNoSlot
<1>1. CASE init_syncers
  <2>1. /\ UNCHANGED <<pc, slot, ppc, syncers_lock, at, seen>>
        /\ \/ word' = word /\ left' = left
           \/ word' = "free" /\ left' = Asleep
        /\ \/ slot_lock' = slot_lock
           \/ \E s \in Slots : slot_lock' = [slot_lock EXCEPT ![s] = NULL]
    BY <1>1, InitIs, Zenon DEF callerVars, posterVars
  <2>2. LockTypes' /\ Futex'
    BY <1>0, <2>1 DEF LockTypes, Futex, Asleep
  <2>3. \A s \in Slots : slot_lock'[s] \in {NULL, slot_lock[s]}
    BY <1>0, <2>1 DEF TypeOK
  <2> QED  BY <1>0, <2>1, <2>2, <2>3 DEF LockPlaces
<1>2. CASE UNCHANGED <<syncVars, lockVars>>
  <2>1. /\ UNCHANGED <<pc, slot, ppc, syncers_lock, slot_lock>>
        /\ UNCHANGED <<word, at, seen, left>>
    BY <1>2, Zenon DEF syncVars, callerVars, posterVars, lockVars, mutexVars
  <2> QED  BY <1>0, <2>1 DEF LockTypes, Futex, LockPlaces, Asleep
<1>3. ASSUME NEW t \in Threads, pthread_mutex_lock(t) PROVE LockTypes' /\ Futex' /\ LockPlaces'
  <2>1. LockTypes' /\ Futex'
    BY <1>0, <1>3, LockIs, Zenon
  <2>2. /\ UNCHANGED <<pc, slot, ppc, syncers_lock, slot_lock, seen>>
        /\ WantsLock(t) /\ at[t] # "in" /\ \A u \in Threads : u # t => at'[u] = at[u]
    BY <1>0, <1>3, LockIs, Zenon DEF eventVars, syncVars, callerVars, posterVars
  <2>3. \A c \in Callers : at'[c] # "out" => pc[c] \in {"alloc", "regist", "free"}
    BY <1>0, <2>2 DEF LockPlaces, WantsLock
  <2>4. /\ at'[Poster] # "out" => ppc \in {"sync", "copy", "notify"}
        /\ ppc \in {"copy", "notify"} => at'[Poster] = "in"
    BY <1>0, <2>2 DEF LockPlaces, WantsLock
  <2>5. \A c \in Callers : seen[c] # NULL => at'[c] = "in" /\ pc[c] = "alloc"
    BY <1>0, <2>2 DEF LockPlaces, WantsLock
  <2> QED  BY <1>0, <2>1, <2>2, <2>3, <2>4, <2>5 DEF LockPlaces
<1>4. ASSUME NEW c \in Callers, UNCHANGED lockVars,
             \/ \E e \in Events, k \in Kinds : Call(c, e, k)
             \/ BeginWait(c) \/ Timeout(c) \/ TimedOut(c) \/ BeginCopy(c) \/ EndCopy(c)
      PROVE  LockTypes' /\ Futex' /\ LockPlaces'
  <2>1. UNCHANGED <<word, at, seen, left>>
    BY <1>4, Zenon DEF lockVars, mutexVars
  <2>2. LockTypes' /\ Futex'
    BY <1>0, <2>1 DEF LockTypes, Futex, Asleep
  <2>3. UNCHANGED <<slot, ppc, syncers_lock>>
    BY <1>4, Zenon
    DEF Call, Enter, BeginWait, Timeout, TimedOut, EndWait, BeginCopy, EndCopy, posterVars
  <2>4. \/ pc[c] = "idle" /\ pc' = [pc EXCEPT ![c] = "alloc"] /\ slot_lock' = slot_lock
        \/ /\ pc[c] \in {"wait", "waiting", "timedout"}
           /\ \E l \in {"waiting", "timedout", "free"} : pc' = [pc EXCEPT ![c] = l]
           /\ slot_lock' = slot_lock
        \/ /\ pc[c] = "signalled" /\ pc' = [pc EXCEPT ![c] = "copy"]
           /\ slot_lock' = [slot_lock EXCEPT ![slot[c]] = c]
        \/ /\ pc[c] = "copy" /\ pc' = [pc EXCEPT ![c] = "free"]
           /\ slot_lock' = [slot_lock EXCEPT ![slot[c]] = NULL]
    <3>1. (\E e \in Events, k \in Kinds : Call(c, e, k)) =>
             pc[c] = "idle" /\ pc' = [pc EXCEPT ![c] = "alloc"] /\ slot_lock' = slot_lock
      BY Zenon DEF Call, Enter, Goto
    <3>2. BeginWait(c) \/ Timeout(c) \/ TimedOut(c) =>
             /\ pc[c] \in {"wait", "waiting", "timedout"}
             /\ \E l \in {"waiting", "timedout", "free"} : pc' = [pc EXCEPT ![c] = l]
             /\ slot_lock' = slot_lock
      BY Zenon DEF BeginWait, Timeout, TimedOut, EndWait, Goto
    <3>3. BeginCopy(c) => /\ pc[c] = "signalled" /\ pc' = [pc EXCEPT ![c] = "copy"]
                          /\ slot_lock' = [slot_lock EXCEPT ![slot[c]] = c]
      BY Zenon DEF BeginCopy, Goto
    <3>4. EndCopy(c) => /\ pc[c] = "copy" /\ pc' = [pc EXCEPT ![c] = "free"]
                        /\ slot_lock' = [slot_lock EXCEPT ![slot[c]] = NULL]
      BY Zenon DEF EndCopy, Unlock, Goto
    <3> QED  BY <1>4, <3>1, <3>2, <3>3, <3>4, Zenon
  <2>5. \A d \in Callers : at'[d] # "out" => pc'[d] \in {"alloc", "regist", "free"}
    BY <1>0, <2>1, <2>4 DEF LockPlaces, TypeOK
  <2>6. \A d \in Callers : seen'[d] # NULL => at'[d] = "in" /\ pc'[d] = "alloc"
    BY <1>0, <2>1, <2>4 DEF LockPlaces, TypeOK
  <2>7. \A s \in Slots : slot_lock'[s] # NULL =>
          pc'[slot_lock'[s]] = "copy" /\ slot'[slot_lock'[s]] = s
    BY <1>0, <2>3, <2>4 DEF LockPlaces, TypeOK, Places
  <2> QED  BY <1>0, <2>1, <2>2, <2>3, <2>5, <2>6, <2>7 DEF LockPlaces
<1>5. ASSUME NEW c \in Callers, FindSyncer(c), UNCHANGED <<syncVars, mutexVars, left>>
      PROVE  LockTypes' /\ Futex' /\ LockPlaces'
  <2>1. /\ UNCHANGED <<pc, slot, ppc, syncers_lock, slot_lock, word, at, left>>
        /\ at[c] = "in" /\ pc[c] = "alloc"
        /\ \E s \in Slots : seen' = [seen EXCEPT ![c] = s]
    BY <1>5, Zenon DEF FindSyncer, syncVars, callerVars, posterVars, mutexVars
  <2>2. LockTypes' /\ Futex'
    BY <1>0, <2>1 DEF LockTypes, Futex, Asleep
  <2> QED  BY <1>0, <2>1, <2>2 DEF LockPlaces, LockTypes
<1>6. ASSUME NEW c \in Callers, TakeSyncer(c) \/ UnderLock(c), UNCHANGED left,
             UnderLock(c) => UNCHANGED seen
      PROVE  LockTypes' /\ Futex' /\ LockPlaces'
  <2>1. /\ pc[c] \in {"alloc", "regist", "free"}
        /\ \A d \in Callers : d # c => pc'[d] = pc[d] /\ slot'[d] = slot[d]
        /\ UNCHANGED <<slot_lock, syncers_lock, posterVars>>
        /\ pthread_mutex_unlock(c)
        /\ TakeSyncer(c) => seen' = [seen EXCEPT ![c] = NULL]
        /\ UnderLock(c) => UNCHANGED seen /\ seen[c] = NULL /\ at[c] = "in"
    BY <1>0, <1>6, InsideMoves, Zenon DEF LockPlaces
  <2>2. at[c] = "in"
    BY <1>0, <1>6, <2>1 DEF LockPlaces, TakeSyncer
  <2>3. /\ word' \in {"free", "locked", "contended"}
        /\ at' \in [Threads -> {"out", "asleep", "woken", "in"}]
        /\ Futex' /\ at'[c] = "out"
        /\ \A u \in Threads : u # c => at'[u] = at[u] \/ (at[u] = "asleep" /\ at'[u] = "woken")
    BY <1>0, <1>6, <2>1, <2>2, UnlockIs, Zenon
  <2>4. seen'[c] = NULL /\ seen' \in [Callers -> Slots \cup {NULL}]
        /\ \A d \in Callers : d # c => seen'[d] = seen[d]
    BY <1>0, <1>6, <2>1 DEF LockTypes
  <2>5. LockTypes'
    BY <1>0, <1>6, <2>3, <2>4 DEF LockTypes
  <2>6. \A d \in Callers : at'[d] # "out" => pc'[d] \in {"alloc", "regist", "free"}
    BY <1>0, <2>1, <2>3 DEF LockPlaces
  <2>7. /\ at'[Poster] # "out" => ppc \in {"sync", "copy", "notify"}
        /\ ppc \in {"copy", "notify"} => at'[Poster] = "in"
    BY <1>0, <2>3 DEF LockPlaces
  <2>8. \A d \in Callers : seen'[d] # NULL => at'[d] = "in" /\ pc'[d] = "alloc"
    BY <1>0, <2>1, <2>3, <2>4 DEF LockPlaces
  <2>9. \A s \in Slots : slot_lock[s] # NULL =>
          pc'[slot_lock[s]] = "copy" /\ slot'[slot_lock[s]] = s
    BY <1>0, <2>1 DEF LockPlaces, TypeOK
  <2>10. UNCHANGED <<ppc, syncers_lock, slot_lock>>
    BY <2>1, Zenon DEF posterVars
  <2> QED  BY <1>0, <2>3, <2>5, <2>6, <2>7, <2>8, <2>9, <2>10 DEF LockPlaces
<1>7. CASE ((\E m \in Msgs : Recv(m)) \/ Delivered) /\ UNCHANGED lockVars
  <2>1. /\ UNCHANGED <<pc, slot, syncers_lock, slot_lock, word, at, seen, left>>
        /\ ppc \in {"idle", "deliver"} /\ ppc' \in {"sync", "idle"}
    BY <1>7, Zenon DEF Recv, Delivered, callerVars, lockVars, mutexVars
  <2>2. LockTypes' /\ Futex'
    BY <1>0, <2>1 DEF LockTypes, Futex, Asleep
  <2> QED  BY <1>0, <2>1, <2>2 DEF LockPlaces
<1>8. CASE PosterRuns
  <2>0. UNCHANGED <<seen, left>>
    BY <1>8, PosterSteps, Zenon
  <2>1. CASE UNCHANGED mutexVars /\ (FinishCopy \/ (sync_event /\ at[Poster] = "in" /\ ppc' = "copy"))
    <3>1. /\ UNCHANGED <<pc, slot, slot_lock, word, at>>
          /\ ppc' \in {"copy", "notify"} /\ at[Poster] = "in"
      BY <1>0, <2>1, Zenon DEF FinishCopy, sync_event, callerVars, mutexVars, LockPlaces
    <3>2. LockTypes' /\ Futex'
      BY <1>0, <2>0, <3>1 DEF LockTypes, Futex, Asleep
    <3> QED  BY <1>0, <2>0, <3>1, <3>2 DEF LockPlaces
  <2>2. CASE /\ Notify \/ (sync_event /\ at[Poster] = "in" /\ ppc' = "deliver")
             /\ pthread_mutex_unlock(Poster)
    <3>1. /\ UNCHANGED <<slot, slot_lock>> /\ syncers_lock' = NULL
          /\ ppc' \in {"idle", "deliver"} /\ at[Poster] = "in"
      <4>1. CASE Notify
        BY <1>0, <4>1, Zenon DEF Notify, LockPlaces
      <4>2. CASE sync_event /\ at[Poster] = "in" /\ ppc' = "deliver"
        <5>1. ppc' # "copy"
          BY <4>2
        <5> QED  BY <4>2, <5>1, Zenon DEF sync_event, callerVars
      <4> QED  BY <2>2, <4>1, <4>2
    <3>2. pc' = pc \/ \E c \in Callers : pc[c] = "waiting" /\ pc' = [pc EXCEPT ![c] = "signalled"]
      BY <2>2, Zenon DEF Notify, sync_event, Goto, callerVars
    <3>3. /\ word' \in {"free", "locked", "contended"}
          /\ at' \in [Threads -> {"out", "asleep", "woken", "in"}]
          /\ Futex' /\ at'[Poster] = "out"
          /\ \A u \in Threads : u # Poster =>
               at'[u] = at[u] \/ (at[u] = "asleep" /\ at'[u] = "woken")
      BY <1>0, <2>0, <2>2, <3>1, UnlockIs, Zenon
    <3>4. LockTypes'
      BY <1>0, <2>0, <3>3 DEF LockTypes
    <3>5. \A c \in Callers : at'[c] # "out" => pc'[c] \in {"alloc", "regist", "free"}
      BY <1>0, <3>2, <3>3 DEF LockPlaces, TypeOK
    <3>6. \A c \in Callers : seen'[c] # NULL => at'[c] = "in" /\ pc'[c] = "alloc"
      BY <1>0, <2>0, <3>2, <3>3 DEF LockPlaces, TypeOK
    <3>7. \A s \in Slots : slot_lock[s] # NULL =>
            pc'[slot_lock[s]] = "copy" /\ slot[slot_lock[s]] = s
      BY <1>0, <3>2 DEF LockPlaces, TypeOK
    <3> QED  BY <3>1, <3>3, <3>4, <3>5, <3>6, <3>7 DEF LockPlaces
  <2> QED  BY <1>8, <2>1, <2>2, PosterSteps, Zenon
<1>9. ASSUME NEW c \in Callers, CallBegins(c) \/ CallerRuns(c)
      PROVE  LockTypes' /\ Futex' /\ LockPlaces'
  BY <1>4, <1>5, <1>6, <1>9, CallerSteps, InsideMoves, <1>0, Zenon DEF LockPlaces
<1> QED  BY <1>1, <1>2, <1>3, <1>7, <1>8, <1>9, StartSteps, Zenon

LEMMA InitKeepsTypes ==
  ASSUME TypeOK, Places, init_syncers
  PROVE  TypeOK' /\ Places'
<1>1. UNCHANGED <<callerVars, posterVars>>
  BY InitIs, Zenon
<1>2. Zero \in Halves
  BY DEF Zero, Halves
<1>3. /\ is_valid' \in [Slots -> BOOLEAN] /\ on_event' \in [Slots -> Events]
      /\ msg' \in [Slots -> Halves]
      /\ handle' \in [Slots -> Callers \cup {NULL}]
      /\ sync_data' \in [Slots -> Callers \cup {NULL}]
      /\ syncers_lock' \in {NULL, Poster}
      /\ slot_lock' \in [Slots -> Callers \cup {NULL}]
  <2>1. CASE UNCHANGED <<syncerVars, slot_lock, syncers_lock>>
    BY <2>1 DEF TypeOK, syncerVars
  <2>2. ASSUME NEW s \in Slots, UNCHANGED syncers_lock,
               is_valid' \in {is_valid, [is_valid EXCEPT ![s] = TRUE]},
               on_event' \in {on_event, [on_event EXCEPT ![s] = INVALID_EVENT]},
               msg' \in {msg, [msg EXCEPT ![s] = Zero]},
               handle' \in {handle, [handle EXCEPT ![s] = NULL]},
               sync_data' \in {sync_data, [sync_data EXCEPT ![s] = NULL]},
               slot_lock' \in {slot_lock, [slot_lock EXCEPT ![s] = NULL]}
        PROVE  /\ is_valid' \in [Slots -> BOOLEAN] /\ on_event' \in [Slots -> Events]
               /\ msg' \in [Slots -> Halves]
               /\ handle' \in [Slots -> Callers \cup {NULL}]
               /\ sync_data' \in [Slots -> Callers \cup {NULL}]
               /\ syncers_lock' \in {NULL, Poster}
               /\ slot_lock' \in [Slots -> Callers \cup {NULL}]
    <3>1. is_valid' \in [Slots -> BOOLEAN]
      BY <2>2 DEF TypeOK
    <3>2. on_event' \in [Slots -> Events]
      BY <2>2, SyncerAssumption DEF TypeOK
    <3>3. msg' \in [Slots -> Halves]
      BY <1>2, <2>2 DEF TypeOK
    <3>4. handle' \in [Slots -> Callers \cup {NULL}]
      BY <2>2 DEF TypeOK
    <3>5. sync_data' \in [Slots -> Callers \cup {NULL}]
      BY <2>2 DEF TypeOK
    <3>6. slot_lock' \in [Slots -> Callers \cup {NULL}]
      BY <2>2 DEF TypeOK
    <3> QED  BY <2>2, <3>1, <3>2, <3>3, <3>4, <3>5, <3>6 DEF TypeOK
  <2> QED  BY <2>1, <2>2, InitIs, Zenon
<1> QED  BY <1>1, <1>3 DEF TypeOK, Places, callerVars, posterVars


LEMMA BaseStep ==
  ASSUME SocketTypeOK, Base, [StartNext]_allVars
  PROVE  Base'
<1>0. TypeOK /\ Places /\ LockTypes /\ Futex /\ LockPlaces
  BY Zenon DEF Base
<1>1. CASE init_syncers
  BY <1>0, <1>1, InitKeepsTypes, HoldStep, Zenon DEF Base
<1>2. ASSUME SyncNext PROVE Base'
  BY <1>0, <1>2, TypeStep, PlacesStep, HoldStep, Zenon DEF Base
<1>3. CASE UNCHANGED syncVars
  <2>1. TypeOK' /\ Places'
    BY <1>0, <1>3, Zenon DEF TypeOK, Places, syncVars, syncerVars, callerVars, posterVars
  <2> QED  BY <2>1, HoldStep, Zenon DEF Base
<1>4. ASSUME NEW c \in Callers, CallBegins(c) \/ CallerRuns(c) PROVE Base'
  <2>1. CASE TakeSyncer(c) \/ UnderLock(c)
    BY <1>0, <2>1, InsideTypes, HoldStep, Zenon DEF Base
  <2> QED  BY <1>2, <1>3, <1>4, <2>1, CallerSteps, Zenon
<1>5. ASSUME (\E m \in Msgs : Recv(m)) \/ Delivered PROVE SyncNext
  BY <1>5, Zenon DEF SyncNext, PosterStep
<1>6. ASSUME NEW t \in Threads, pthread_mutex_lock(t) PROVE UNCHANGED syncVars
  BY <1>6, Zenon DEF pthread_mutex_lock, eventVars
<1> QED  BY <1>1, <1>2, <1>3, <1>4, <1>5, <1>6, StartSteps, PosterSteps, Zenon

-----------------------------------------------------------------------------
(* As long as one thread is inside at a time, the steps are Syncer's.      *)

LEMMA ProperIsSync ==
  ASSUME SocketTypeOK, Base, OneInside, SeenIsFirst, [StartNext]_allVars
  PROVE  init_syncers \/ ([SyncNext]_syncVars /\ UNCHANGED <<init_at, raced>>)
<1>0. TypeOK /\ Places /\ LockTypes /\ Futex /\ LockPlaces
  BY Zenon DEF Base
<1>1. ASSUME NEW c \in Callers, TakeSyncer(c) \/ UnderLock(c) PROVE SyncNext
  <2>1. at[c] = "in"
    BY <1>0, <1>1, Zenon DEF LockPlaces, TakeSyncer, UnderLock
  <2>2. syncers_lock = NULL
    <3>1. c \in Threads /\ Poster \in Threads /\ c # Poster
      BY PosterIsThread
    <3> QED  BY <1>0, <2>1, <3>1, SMT DEF LockPlaces, OneInside
  <2>3. CASE TakeSyncer(c)
    <3>1. /\ seen[c] \in Slots /\ FirstValid(seen[c]) /\ pc[c] = "alloc"
          /\ is_valid' = [is_valid EXCEPT ![seen[c]] = FALSE]
          /\ slot' = [slot EXCEPT ![c] = seen[c]] /\ Goto(c, "regist")
          /\ UNCHANGED <<want, kind, woke, got, ret, nested>>
          /\ UNCHANGED <<on_event, msg, handle, sync_data, syncers_lock, slot_lock, posterVars>>
      <4>1. seen[c] # NULL
        BY <2>3, Zenon DEF TakeSyncer
      <4>2. seen[c] \in Slots
        BY <1>0, <4>1, SMT DEF LockTypes
      <4> QED  BY <1>0, <2>3, <4>1, <4>2, Zenon DEF TakeSyncer, LockPlaces, SeenIsFirst, posterVars
    <3>2. AllocInside(c)
      BY <3>1, Zenon DEF AllocInside
    <3> QED  BY <2>2, <3>2, Zenon DEF alloc_syncer, CallerStep, SyncNext
  <2>4. CASE UnderLock(c)
    BY <2>2, <2>4, Zenon
    DEF UnderLock, NoSyncer, alloc_syncer, regist_event, free_syncer, CallerStep, SyncNext
  <2> QED  BY <1>1, <2>3, <2>4
<1>2. ASSUME NEW c \in Callers, CallBegins(c) \/ CallerRuns(c) PROVE [SyncNext]_syncVars
  BY <1>1, <1>2, CallerSteps, Zenon
<1>3. ASSUME (\E m \in Msgs : Recv(m)) \/ Delivered PROVE SyncNext
  BY <1>3, Zenon DEF SyncNext, PosterStep
<1>4. ASSUME NEW t \in Threads, pthread_mutex_lock(t) PROVE UNCHANGED syncVars
  BY <1>4, Zenon DEF pthread_mutex_lock, eventVars
<1> QED  BY <1>2, <1>3, <1>4, StartSteps, PosterSteps, Zenon

(* One thread is inside as long as init_syncers lets go of the lock of     *)
(* nobody.                                                                 *)
LEMMA OneInsideStep ==
  ASSUME SocketTypeOK, Base, OneInside, [StartNext]_allVars, ~raced'
  PROVE  OneInside'
<1>0. TypeOK /\ Places /\ LockTypes /\ Futex /\ LockPlaces
  BY Zenon DEF Base
<1>. USE PosterIsThread
<1>1. CASE UNCHANGED mutexVars
  BY <1>1, Zenon DEF OneInside, mutexVars
<1>2. ASSUME NEW t \in Threads, at[t] = "in", pthread_mutex_unlock(t), left' = left
      PROVE  OneInside'
  <2>1. /\ at'[t] = "out"
        /\ \A u \in Threads : u # t => at'[u] = at[u] \/ (at[u] = "asleep" /\ at'[u] = "woken")
    BY <1>0, <1>2, UnlockIs, Zenon
  <2>2. \A u \in Threads : at'[u] # "in"
    BY <1>2, <2>1, SMT DEF OneInside
  <2> QED  BY <2>2, Zenon DEF OneInside
<1>3. ASSUME NEW t \in Threads, pthread_mutex_lock(t) PROVE OneInside'
  <2>1. /\ \A u \in Threads : u # t => at'[u] = at[u]
        /\ word' # "free" /\ (at'[t] = "in" => word = "free")
    BY <1>0, <1>3, LockIs, Zenon
  <2> QED  BY <2>1, Zenon DEF OneInside
<1>4. CASE init_syncers
  <2>1. UNCHANGED at /\ (word' = word \/ word = "free")
    BY <1>4, InitIs, Zenon
  <2> QED  BY <2>1, Zenon DEF OneInside
<1>5. ASSUME NEW c \in Callers, CallBegins(c) \/ CallerRuns(c) PROVE OneInside'
  <2>1. ASSUME TakeSyncer(c) \/ UnderLock(c) PROVE at[c] = "in" /\ pthread_mutex_unlock(c)
    BY <1>0, <2>1, Zenon DEF LockPlaces, TakeSyncer, UnderLock
  <2> QED  BY <1>1, <1>2, <1>5, <2>1, CallerSteps, Zenon DEF lockVars
<1>6. CASE PosterRuns
  <2>1. Notify => at[Poster] = "in"
    BY <1>0, Zenon DEF Notify, LockPlaces
  <2> QED  BY <1>1, <1>2, <1>6, <2>1, PosterSteps, Zenon
<1> QED  BY <1>1, <1>3, <1>4, <1>5, <1>6, StartSteps, Zenon DEF lockVars

(* Nobody else takes or frees a syncer meanwhile, and init_syncers sets    *)
(* free only syncers behind those that are free already.                   *)
LEMMA FirstStep ==
  ASSUME SocketTypeOK, Base, OneInside, SeenIsFirst, UnbornIsFree, [StartNext]_allVars
  PROVE  SeenIsFirst'
<1>0. TypeOK /\ Places /\ LockTypes /\ Futex /\ LockPlaces
  BY Zenon DEF Base
<1>1. CASE UNCHANGED <<is_valid, seen>>
  BY <1>1, Zenon DEF SeenIsFirst, FirstValid
<1>2. CASE init_syncers
  <2>1. seen' = seen
    BY <1>2, InitIs, Zenon
  <2>2. ASSUME NEW s \in Slots, init_at = <<s, "valid">>,
               is_valid' = [is_valid EXCEPT ![s] = TRUE]
        PROVE  SeenIsFirst'
    <3>1. \A t \in Slots : s = t \/ s < t => ~is_valid[t]
      BY <2>2, Zenon DEF UnbornIsFree, Unborn
    <3>2. ASSUME NEW c \in Callers, seen[c] # NULL PROVE FirstValid(seen[c])'
      <4>1. seen[c] \in Slots /\ FirstValid(seen[c])
        BY <1>0, <3>2 DEF LockTypes, SeenIsFirst
      <4>2. ~(s = seen[c]) /\ ~(s < seen[c])
        BY <3>1, <4>1 DEF FirstValid
      <4> QED  BY <1>0, <2>1, <2>2, <4>1, <4>2 DEF FirstValid, TypeOK
    <3> QED  BY <2>1, <3>2, Zenon DEF SeenIsFirst
  <2> QED  BY <1>1, <1>2, <2>1, <2>2, InitIs, Zenon DEF syncerVars
<1>3. ASSUME NEW c \in Callers, CallBegins(c) \/ CallerRuns(c) PROVE SeenIsFirst'
  <2>1. CASE /\ UNCHANGED lockVars
             /\ \/ \E e \in Events, k \in Kinds : Call(c, e, k)
                \/ BeginWait(c) \/ Timeout(c) \/ TimedOut(c) \/ BeginCopy(c) \/ EndCopy(c)
    BY <1>1, <2>1, Zenon
    DEF Call, Enter, BeginWait, Timeout, TimedOut, EndWait, BeginCopy, EndCopy, lockVars, syncerVars
  <2>2. CASE FindSyncer(c) /\ UNCHANGED syncVars
    <3>1. /\ is_valid' = is_valid
          /\ \E s \in Slots : FirstValid(s) /\ seen' = [seen EXCEPT ![c] = s]
      BY <2>2, Zenon DEF FindSyncer, syncVars, syncerVars
    <3> QED  BY <1>0, <3>1 DEF SeenIsFirst, FirstValid, LockTypes
  <2>3. CASE TakeSyncer(c) \/ UnderLock(c)
    <3>1. /\ TakeSyncer(c) => seen' = [seen EXCEPT ![c] = NULL]
          /\ UnderLock(c) => seen' = seen /\ seen[c] = NULL
      BY <2>3, Zenon DEF TakeSyncer, UnderLock
    <3>2. at[c] = "in"
      BY <1>0, <2>3, Zenon DEF LockPlaces, TakeSyncer, UnderLock
    <3>3. \A d \in Callers : d # c => seen[d] = NULL
      BY <1>0, <3>2, PosterIsThread, SMT DEF LockPlaces, OneInside
    <3>4. \A d \in Callers : seen'[d] = NULL
      BY <1>0, <2>3, <3>1, <3>3 DEF LockTypes
    <3> QED  BY <3>4, Zenon DEF SeenIsFirst
  <2> QED  BY <1>3, <2>1, <2>2, <2>3, CallerSteps, Zenon
<1>4. CASE ((\E m \in Msgs : Recv(m)) \/ Delivered) /\ UNCHANGED lockVars
  BY <1>1, <1>4, Zenon DEF Recv, Delivered, syncerVars, lockVars
<1>5. CASE PosterRuns
  <2>1. sync_event \/ FinishCopy \/ Notify => UNCHANGED is_valid
    BY Zenon DEF sync_event, FinishCopy, Notify, syncerVars
  <2> QED  BY <1>1, <1>5, <2>1, PosterSteps, Zenon
<1>6. ASSUME NEW t \in Threads, pthread_mutex_lock(t) PROVE UNCHANGED <<is_valid, seen>>
  BY <1>6, Zenon DEF pthread_mutex_lock, eventVars, syncVars, syncerVars
<1>7. UNCHANGED <<syncVars, lockVars>> => UNCHANGED <<is_valid, seen>>
  BY Zenon DEF syncVars, syncerVars, lockVars
<1> QED  BY <1>1, <1>2, <1>3, <1>4, <1>5, <1>6, <1>7, StartSteps, Zenon

-----------------------------------------------------------------------------
(* What the steps of Syncer keep, in a pool that may not be initialised.   *)

(* A call takes a free syncer and makes only its own free.                 *)
LEMMA ExclusiveStep ==
  ASSUME TypeOK, Places, Exclusive, SyncNext
  PROVE  Exclusive'
<1>. USE SyncerAssumption, NullIsNoSlot DEF TypeOK, Places, Exclusive, Alone
<1>1. ASSUME NEW c \in Callers, alloc_syncer(c) PROVE Exclusive'
  <2>1. ASSUME NEW s \in Slots,
               FirstValid(s),
               is_valid' = [is_valid EXCEPT ![s] = FALSE],
               slot' = [slot EXCEPT ![c] = s],
               Goto(c, "regist"),
               UNCHANGED <<want, kind, woke, got, ret, nested>>
        PROVE  Exclusive'
    BY <1>1, <2>1 DEF alloc_syncer, AllocInside, FirstValid, Goto, posterVars
  <2>2. CASE Return(c) /\ UNCHANGED <<is_valid, slot>>
    BY <1>1, <2>2 DEF alloc_syncer, AllocInside, Goto, Return, posterVars
  <2>. QED BY <1>1, <2>1, <2>2 DEF alloc_syncer, AllocInside
<1>2. ASSUME NEW c \in Callers, regist_event(c) PROVE Exclusive'
  BY <1>2 DEF regist_event, RegistInside, Goto, posterVars
<1>3. ASSUME NEW c \in Callers, BeginWait(c) PROVE Exclusive'
  BY <1>3 DEF BeginWait, Goto, posterVars, syncerVars
<1>4. ASSUME NEW c \in Callers, Timeout(c) \/ SpuriousWake(c) PROVE Exclusive'
  BY <1>4 DEF Timeout, SpuriousWake, EndWait, Goto, posterVars, syncerVars
<1>5. ASSUME NEW c \in Callers, TimedOut(c) PROVE Exclusive'
  BY <1>5 DEF TimedOut, Goto, posterVars, syncerVars
<1>6. ASSUME NEW c \in Callers, BeginCopy(c) PROVE Exclusive'
  BY <1>6 DEF BeginCopy, Goto, posterVars, syncerVars
<1>7. ASSUME NEW c \in Callers, EndCopy(c) PROVE Exclusive'
  BY <1>7 DEF EndCopy, Unlock, Goto, posterVars, syncerVars
<1>8. ASSUME NEW c \in Callers, free_syncer(c) PROVE Exclusive'
  BY <1>8 DEF free_syncer, FreeInside, Deregister, Goto, Return, posterVars
<1>9. ASSUME NEW c \in Callers, NEW e \in Events, NEW k \in Kinds,
             Call(c, e, k) \/ \E d \in Callers : CallFromHandler(d, c, e, k)
      PROVE  Exclusive'
  BY <1>9 DEF Call, CallFromHandler, Enter, Goto, posterVars, syncerVars
<1>10. ASSUME NEW m \in Msgs, Recv(m) PROVE Exclusive'
  BY <1>10 DEF Recv, callerVars, syncerVars
<1>11. CASE sync_event
  BY <1>11 DEF sync_event, FirstMatch, Matches, callerVars
<1>12. CASE FinishCopy
  BY <1>12 DEF FinishCopy, callerVars
<1>13. CASE Notify
  BY <1>13 DEF Notify, Goto, syncerVars
<1>14. CASE Delivered
  BY <1>14 DEF Delivered, callerVars, syncerVars
<1>. QED
  BY <1>1, <1>2, <1>3, <1>4, <1>5, <1>6, <1>7, <1>8, <1>9, <1>10, <1>11, <1>12, <1>13, <1>14
  DEF SyncNext, CallerStep, PosterStep

(* A call registers with a syncer that points to nobody, and leaves it so. *)
LEMMA RegistersStep ==
  ASSUME TypeOK, Places, Exclusive, Registers, Unsunk, SyncNext
  PROVE  (Registers /\ Unsunk)'
<1>. USE SyncerAssumption, NullIsNoSlot
     DEF TypeOK, Places, Exclusive, Alone, Registers, Unsunk, Registered
<1>1. ASSUME NEW c \in Callers, alloc_syncer(c) PROVE (Registers /\ Unsunk)'
  <2>1. ASSUME NEW s \in Slots,
               FirstValid(s),
               is_valid' = [is_valid EXCEPT ![s] = FALSE],
               slot' = [slot EXCEPT ![c] = s],
               Goto(c, "regist"),
               UNCHANGED <<want, kind, woke, got, ret, nested>>
        PROVE  (Registers /\ Unsunk)'
    BY <1>1, <2>1 DEF alloc_syncer, AllocInside, FirstValid, Goto, posterVars
  <2>2. CASE Return(c) /\ UNCHANGED <<is_valid, slot>>
    BY <1>1, <2>2 DEF alloc_syncer, AllocInside, Goto, Return, posterVars
  <2>. QED BY <1>1, <2>1, <2>2 DEF alloc_syncer, AllocInside
<1>2. ASSUME NEW c \in Callers, regist_event(c) PROVE (Registers /\ Unsunk)'
  BY <1>2 DEF regist_event, RegistInside, Goto, posterVars
<1>3. ASSUME NEW c \in Callers, BeginWait(c) PROVE (Registers /\ Unsunk)'
  BY <1>3 DEF BeginWait, Goto, posterVars, syncerVars
<1>4. ASSUME NEW c \in Callers, Timeout(c) \/ SpuriousWake(c) PROVE (Registers /\ Unsunk)'
  <2>1. PICK l \in {"timedout", "signalled"} : pc' = [pc EXCEPT ![c] = l]
    BY <1>4 DEF Timeout, SpuriousWake, EndWait, Goto
  <2>2. pc[c] = "waiting" /\ UNCHANGED <<syncerVars, slot, want, kind>>
    BY <1>4 DEF Timeout, SpuriousWake, EndWait
  <2> QED  BY <2>1, <2>2 DEF syncerVars
<1>5. ASSUME NEW c \in Callers, TimedOut(c) PROVE (Registers /\ Unsunk)'
  BY <1>5 DEF TimedOut, Goto, posterVars, syncerVars
<1>6. ASSUME NEW c \in Callers, BeginCopy(c) PROVE (Registers /\ Unsunk)'
  BY <1>6 DEF BeginCopy, Goto, posterVars, syncerVars
<1>7. ASSUME NEW c \in Callers, EndCopy(c) PROVE (Registers /\ Unsunk)'
  BY <1>7 DEF EndCopy, Unlock, Goto, posterVars, syncerVars
<1>8. ASSUME NEW c \in Callers, free_syncer(c) PROVE (Registers /\ Unsunk)'
  BY <1>8 DEF free_syncer, FreeInside, Deregister, Goto, Return, posterVars
<1>9. ASSUME NEW c \in Callers, NEW e \in Events, NEW k \in Kinds,
             Call(c, e, k) \/ \E d \in Callers : CallFromHandler(d, c, e, k)
      PROVE  (Registers /\ Unsunk)'
  BY <1>9 DEF Call, CallFromHandler, Enter, Goto, posterVars, syncerVars
<1>10. ASSUME NEW m \in Msgs, Recv(m) PROVE (Registers /\ Unsunk)'
  BY <1>10 DEF Recv, callerVars, syncerVars
<1>11. CASE sync_event
  BY <1>11 DEF sync_event, FirstMatch, Matches, callerVars
<1>12. CASE FinishCopy
  BY <1>12 DEF FinishCopy, callerVars
<1>13. CASE Notify
  BY <1>13 DEF Notify, Goto, syncerVars
<1>14. CASE Delivered
  BY <1>14 DEF Delivered, callerVars, syncerVars
<1>. QED
  BY <1>1, <1>2, <1>3, <1>4, <1>5, <1>6, <1>7, <1>8, <1>9, <1>10, <1>11, <1>12, <1>13, <1>14
  DEF SyncNext, CallerStep, PosterStep

(* A syncer nobody can take is taken by nobody, and freed by nobody.       *)
LEMMA UnbornStep ==
  ASSUME TypeOK, Places, UnbornIsFree, SyncNext, UNCHANGED init_at
  PROVE  UnbornIsFree'
<1>. USE SyncerAssumption, NullIsNoSlot DEF TypeOK, Places
<1>0. \A s \in Slots : Unborn(s)' <=> Unborn(s)
  BY Zenon DEF Unborn
<1>1. ASSUME NEW c \in Callers, alloc_syncer(c) PROVE UnbornIsFree'
  BY <1>0, <1>1 DEF alloc_syncer, AllocInside, FirstValid, UnbornIsFree
<1>2. ASSUME NEW c \in Callers, free_syncer(c) PROVE UnbornIsFree'
  BY <1>0, <1>2 DEF free_syncer, FreeInside, UnbornIsFree
<1>3. CASE UNCHANGED <<is_valid, slot>>
  BY <1>0, <1>3 DEF UnbornIsFree
<1>. QED
  BY <1>1, <1>2, <1>3, Zenon
  DEF SyncNext, CallerStep, PosterStep, regist_event, RegistInside, BeginWait, Timeout, SpuriousWake,
      EndWait, TimedOut, BeginCopy, EndCopy, Call, CallFromHandler, Enter, Recv, sync_event,
      FinishCopy, Notify, Delivered, callerVars, syncerVars

(* Only regist_event puts a syncer on an event, that of its call.          *)
LEMMA EventsStep ==
  ASSUME TypeOK, Places, Exclusive, EventsAreWanted, SyncNext, UNCHANGED init_at
  PROVE  EventsAreWanted'
<1>. USE SyncerAssumption, NullIsNoSlot
     DEF TypeOK, Places, Exclusive, Alone, EventsAreWanted, Registered
<1>0. \A s \in Slots : Fresh(s)' <=> Fresh(s)
  BY Zenon DEF Unborn, Fresh
<1>1. ASSUME NEW c \in Callers, alloc_syncer(c) PROVE EventsAreWanted'
  <2>1. ASSUME NEW s \in Slots,
               FirstValid(s),
               is_valid' = [is_valid EXCEPT ![s] = FALSE],
               slot' = [slot EXCEPT ![c] = s],
               Goto(c, "regist"),
               UNCHANGED <<want, kind, woke, got, ret, nested>>
        PROVE  EventsAreWanted'
    BY <1>0, <1>1, <2>1 DEF alloc_syncer, AllocInside, FirstValid, Goto, posterVars
  <2>2. CASE Return(c) /\ UNCHANGED <<is_valid, slot>>
    BY <1>0, <1>1, <2>2 DEF alloc_syncer, AllocInside, Goto, Return, posterVars
  <2>. QED BY <1>0, <1>1, <2>1, <2>2 DEF alloc_syncer, AllocInside
<1>2. ASSUME NEW c \in Callers, regist_event(c) PROVE EventsAreWanted'
  BY <1>0, <1>2 DEF regist_event, RegistInside, Goto, posterVars
<1>3. ASSUME NEW c \in Callers, BeginWait(c) PROVE EventsAreWanted'
  BY <1>0, <1>3 DEF BeginWait, Goto, posterVars, syncerVars
<1>4. ASSUME NEW c \in Callers, Timeout(c) \/ SpuriousWake(c) PROVE EventsAreWanted'
  BY <1>0, <1>4 DEF Timeout, SpuriousWake, EndWait, Goto, posterVars, syncerVars
<1>5. ASSUME NEW c \in Callers, TimedOut(c) PROVE EventsAreWanted'
  BY <1>0, <1>5 DEF TimedOut, Goto, posterVars, syncerVars
<1>6. ASSUME NEW c \in Callers, BeginCopy(c) PROVE EventsAreWanted'
  BY <1>0, <1>6 DEF BeginCopy, Goto, posterVars, syncerVars
<1>7. ASSUME NEW c \in Callers, EndCopy(c) PROVE EventsAreWanted'
  BY <1>0, <1>7 DEF EndCopy, Unlock, Goto, posterVars, syncerVars
<1>8. ASSUME NEW c \in Callers, free_syncer(c) PROVE EventsAreWanted'
  BY <1>0, <1>8 DEF free_syncer, FreeInside, Deregister, Goto, Return, posterVars
<1>9. ASSUME NEW c \in Callers, NEW e \in Events, NEW k \in Kinds,
             Call(c, e, k) \/ \E d \in Callers : CallFromHandler(d, c, e, k)
      PROVE  EventsAreWanted'
  BY <1>0, <1>9 DEF Call, CallFromHandler, Enter, Goto, posterVars, syncerVars
<1>10. ASSUME NEW m \in Msgs, Recv(m) PROVE EventsAreWanted'
  BY <1>0, <1>10 DEF Recv, callerVars, syncerVars
<1>11. CASE sync_event
  BY <1>0, <1>11 DEF sync_event, FirstMatch, Matches, callerVars
<1>12. CASE FinishCopy
  BY <1>0, <1>12 DEF FinishCopy, callerVars
<1>13. CASE Notify
  BY <1>0, <1>13 DEF Notify, Goto, syncerVars
<1>14. CASE Delivered
  BY <1>0, <1>14 DEF Delivered, callerVars, syncerVars
<1>. QED
  BY <1>1, <1>2, <1>3, <1>4, <1>5, <1>6, <1>7, <1>8, <1>9, <1>10, <1>11, <1>12, <1>13, <1>14
  DEF SyncNext, CallerStep, PosterStep

(* sync_event finds a syncer for one of the reasons EventsAreWanted gives; *)
(* a call it found cannot leave while it holds syncers_lock.               *)
LEMMA ClaimStep ==
  ASSUME TypeOK, Places, EventsAreWanted, Claim, SyncNext, UNCHANGED init_at
  PROVE  Claim'
<1>. USE SyncerAssumption, NullIsNoSlot DEF TypeOK, Places, Claim, Awaited, Registered
<1>0. \A s \in Slots : Fresh(s)' <=> Fresh(s)
  BY Zenon DEF Unborn, Fresh
<1>1. ASSUME NEW c \in Callers, alloc_syncer(c) PROVE Claim'
  <2>1. ASSUME NEW s \in Slots,
               FirstValid(s),
               is_valid' = [is_valid EXCEPT ![s] = FALSE],
               slot' = [slot EXCEPT ![c] = s],
               Goto(c, "regist"),
               UNCHANGED <<want, kind, woke, got, ret, nested>>
        PROVE  Claim'
    BY <1>0, <1>1, <2>1 DEF alloc_syncer, AllocInside, FirstValid, Goto, posterVars
  <2>2. CASE Return(c) /\ UNCHANGED <<is_valid, slot>>
    BY <1>0, <1>1, <2>2 DEF alloc_syncer, AllocInside, Goto, Return, posterVars
  <2>. QED BY <1>0, <1>1, <2>1, <2>2 DEF alloc_syncer, AllocInside
<1>2. ASSUME NEW c \in Callers, regist_event(c) PROVE Claim'
  BY <1>0, <1>2 DEF regist_event, RegistInside, Goto, posterVars
<1>3. ASSUME NEW c \in Callers, BeginWait(c) PROVE Claim'
  BY <1>0, <1>3 DEF BeginWait, Goto, posterVars, syncerVars
<1>4. ASSUME NEW c \in Callers, Timeout(c) \/ SpuriousWake(c) PROVE Claim'
  BY <1>0, <1>4 DEF Timeout, SpuriousWake, EndWait, Goto, posterVars, syncerVars
<1>5. ASSUME NEW c \in Callers, TimedOut(c) PROVE Claim'
  BY <1>0, <1>5 DEF TimedOut, Goto, posterVars, syncerVars
<1>6. ASSUME NEW c \in Callers, BeginCopy(c) PROVE Claim'
  BY <1>0, <1>6 DEF BeginCopy, Goto, posterVars, syncerVars
<1>7. ASSUME NEW c \in Callers, EndCopy(c) PROVE Claim'
  BY <1>0, <1>7 DEF EndCopy, Unlock, Goto, posterVars, syncerVars
<1>8. ASSUME NEW c \in Callers, free_syncer(c) PROVE Claim'
  BY <1>0, <1>8 DEF free_syncer, FreeInside, Deregister, Goto, Return, posterVars
<1>9. ASSUME NEW c \in Callers, NEW e \in Events, NEW k \in Kinds,
             Call(c, e, k) \/ \E d \in Callers : CallFromHandler(d, c, e, k)
      PROVE  Claim'
  BY <1>0, <1>9 DEF Call, CallFromHandler, Enter, Goto, posterVars, syncerVars
<1>10. ASSUME NEW m \in Msgs, Recv(m) PROVE Claim'
  BY <1>0, <1>10 DEF Recv, callerVars, syncerVars
<1>11. CASE sync_event
  BY <1>0, <1>11 DEF sync_event, FirstMatch, Matches, EventsAreWanted, callerVars
<1>12. CASE FinishCopy
  BY <1>0, <1>12 DEF FinishCopy, callerVars
<1>13. CASE Notify
  BY <1>0, <1>13 DEF Notify, Goto, syncerVars
<1>14. CASE Delivered
  BY <1>0, <1>14 DEF Delivered, callerVars, syncerVars
<1>. QED
  BY <1>1, <1>2, <1>3, <1>4, <1>5, <1>6, <1>7, <1>8, <1>9, <1>10, <1>11, <1>12, <1>13, <1>14
  DEF SyncNext, CallerStep, PosterStep

-----------------------------------------------------------------------------
(* What the steps of init_syncers keep, unless something was in use.       *)

(* init_syncers sets free only what nobody could have taken.               *)
LEMMA InitKeepsExclusive ==
  ASSUME TypeOK, Exclusive, UnbornIsFree, init_syncers
  PROVE  Exclusive' /\ UnbornIsFree'
<1>1. slot' = slot
  BY InitIs, Zenon DEF callerVars
<1>2. CASE init_at = <<"lock">> /\ is_valid' = is_valid
  <2>1. \A s \in Slots : Unborn(s)
    BY <1>2, Zenon DEF Unborn
  <2> QED  BY <1>1, <1>2, <2>1, Zenon DEF Exclusive, Alone, UnbornIsFree
<1>3. ASSUME NEW s \in Slots, init_at = <<s, "valid">>, init_at' = <<s, "event">>,
             is_valid' = [is_valid EXCEPT ![s] = TRUE]
      PROVE  Exclusive' /\ UnbornIsFree'
  <2>1. /\ is_valid'[s] /\ \A t \in Slots : t # s => is_valid'[t] = is_valid[t]
        /\ Unborn(s) /\ \A t \in Slots : Unborn(t)' => Unborn(t) /\ t # s
    BY <1>3, InitMoves, SMT DEF TypeOK
  <2> QED  BY <1>1, <2>1, Zenon DEF Exclusive, Alone, UnbornIsFree
<1>4. ASSUME is_valid' = is_valid, \A t \in Slots : Unborn(t)' => Unborn(t)
      PROVE  Exclusive' /\ UnbornIsFree'
  BY <1>1, <1>4, Zenon DEF Exclusive, Alone, UnbornIsFree
<1> QED  BY <1>2, <1>3, <1>4, InitIs, InitMoves, Zenon DEF syncerVars

LEMMA InitKeepsEvents ==
  ASSUME TypeOK, EventsAreWanted, init_syncers
  PROVE  EventsAreWanted'
<1>1. UNCHANGED <<pc, slot, want>>
  BY InitIs, Zenon DEF callerVars
<1>2. ASSUME on_event' = on_event, \A t \in Slots : Fresh(t) => Fresh(t)'
      PROVE  EventsAreWanted'
  BY <1>1, <1>2, Zenon DEF EventsAreWanted
<1>3. ASSUME NEW s \in Slots, on_event' = [on_event EXCEPT ![s] = INVALID_EVENT],
             \A t \in Slots : Fresh(t) /\ t # s => Fresh(t)'
      PROVE  EventsAreWanted'
  <2>1. \A t \in Slots : on_event'[t] = IF t = s THEN INVALID_EVENT ELSE on_event[t]
    BY <1>3, SMT DEF TypeOK
  <2>2. ASSUME NEW t \in Slots, t # s, on_event'[t] # INVALID_EVENT
        PROVE  \/ on_event'[t] = ZERO_EVENT /\ Fresh(t)'
               \/ \E c \in Callers :
                    pc'[c] \in Registered /\ slot'[c] = t /\ want'[c] = on_event'[t]
    <3>1. on_event'[t] = on_event[t]
      BY <2>1, <2>2, SMT
    <3> QED  BY <1>1, <1>3, <2>2, <3>1, Zenon DEF EventsAreWanted
  <2>3. on_event'[s] = INVALID_EVENT
    BY <2>1, SMT
  <2> QED  BY <2>2, <2>3, Zenon DEF EventsAreWanted
<1> QED  BY <1>2, <1>3, InitIs, InitMoves, Zenon DEF syncerVars


(* While init_syncers has not set up syncers_lock, no call is registered;  *)
(* and if nobody is inside, the poster has claimed nothing.                *)
LEMMA InitKeepsClaim ==
  ASSUME Base, OneInside, Claim, init_syncers, ~raced'
  PROVE  Claim'
<1>1. UNCHANGED <<pc, slot, want, ppc, pmsg, pslot, syncers_lock>>
  BY InitIs, Zenon DEF callerVars, posterVars
<1> SUFFICES ASSUME ppc \in {"copy", "notify"} PROVE Claim'
  BY <1>1, SMT DEF Claim
<1>2. pslot \in Slots
  BY Zenon DEF Base, Places
<1> PICK p \in Slots : p = pslot
  BY <1>2
<1>3. Fresh(pslot) <=> Fresh(p)
  BY Zenon DEF Fresh, Unborn
<1>4. Fresh(pslot)' <=> Fresh(p)'
  BY <1>1, SMT DEF Fresh, Unborn
<1>5. Awaited(pmsg)' <=> Awaited(pmsg)
  BY <1>1, SMT DEF Awaited
<1>6. CASE word = "free"
  BY <1>6, PosterIsThread, Zenon DEF Base, LockPlaces, OneInside
<1>7. CASE Fresh(p) => Fresh(p)'
  <2> HIDE DEF Fresh, Awaited
  <2> QED  BY <1>1, <1>3, <1>4, <1>5, <1>7, SMT DEF Claim
<1>8. ASSUME NEW s \in Slots, ~raced' => ~InUse(s),
             init_at = <<s, "event">>, init_at' = <<s, "rest">>
      PROVE  Fresh(p) => Fresh(p)'
  BY <1>8, InitMoves, Zenon DEF InUse
<1> QED  BY <1>6, <1>7, <1>8, InitIs, InitMoves, Zenon

(* Unless it was in use, the syncer that is initialised is nobody's.       *)
LEMMA InitKeepsContents ==
  ASSUME TypeOK, Places, Matched, Registers, Unsunk, Contents, init_syncers, ~raced'
  PROVE  (Matched /\ Registers /\ Unsunk /\ Contents)'
<1>1. UNCHANGED <<callerVars, posterVars, syncers_lock>>
  BY InitIs, Zenon
<1>2. Matched /\ Registers /\ Unsunk /\ Contents
  OBVIOUS
<1>3. CASE syncers_lock' = syncers_lock /\ UNCHANGED <<on_event, handle, sync_data, msg>>
  BY <1>1, <1>2, <1>3, Zenon
  DEF callerVars, posterVars, Matched, Registers, Unsunk, Contents
<1>4. ASSUME NEW s \in Slots, ~InUse(s), syncers_lock' = syncers_lock,
             \A t \in Slots : t # s => on_event'[t] = on_event[t] /\ handle'[t] = handle[t]
               /\ sync_data'[t] = sync_data[t] /\ msg'[t] = msg[t],
             handle'[s] \in {NULL, handle[s]}, sync_data'[s] \in {NULL, sync_data[s]}
      PROVE  (Matched /\ Registers /\ Unsunk /\ Contents)'
  <2>0. /\ pslot # s /\ \A c \in Callers : slot[c] # s
        /\ \A c \in Callers : slot[c] \in Slots \cup {NULL}
        /\ \A c \in Callers : pc[c] \in Registered => slot[c] # NULL
        /\ ppc \in {"copy", "notify"} => pslot \in Slots
    BY <1>4 DEF InUse, TypeOK, Places, Registered
  <2>1. Matched'
    BY <1>1, <1>2, <1>4, <2>0 DEF posterVars, Matched
  <2>2. Registers'
    BY <1>1, <1>2, <1>4, <2>0 DEF callerVars, Registers
  <2>3. Unsunk'
    BY <1>1, <1>2, <1>4, <2>0 DEF callerVars, Unsunk
  <2>4. Contents'
    BY <1>1, <1>2, <1>4, <2>0 DEF callerVars, posterVars, Contents, Registered
  <2> QED  BY <2>1, <2>2, <2>3, <2>4
<1>5. CASE UNCHANGED syncerVars
  BY <1>1, <1>3, <1>5, Zenon DEF syncerVars
<1>6. ASSUME NEW s \in Slots, ~InUse(s), UNCHANGED syncers_lock,
             \/ /\ on_event' = [on_event EXCEPT ![s] = INVALID_EVENT]
                /\ UNCHANGED <<handle, sync_data, msg>>
             \/ /\ handle' = [handle EXCEPT ![s] = NULL]
                /\ sync_data' = [sync_data EXCEPT ![s] = NULL]
                /\ msg' = [msg EXCEPT ![s] = Zero]
                /\ UNCHANGED on_event
      PROVE  (Matched /\ Registers /\ Unsunk /\ Contents)'
  BY <1>4, <1>6 DEF TypeOK
<1> QED  BY <1>3, <1>5, <1>6, InitIs, Zenon

-----------------------------------------------------------------------------
(* The invariant.                                                          *)

LEMMA StartInvInit == StartInit => StartInv
<1> SUFFICES ASSUME StartInit PROVE StartInv
  OBVIOUS
<1>1. /\ is_valid = [s \in Slots |-> FALSE] /\ on_event = [s \in Slots |-> ZERO_EVENT]
      /\ msg = [s \in Slots |-> Zero] /\ handle = [s \in Slots |-> NULL]
      /\ sync_data = [s \in Slots |-> NULL] /\ syncers_lock = NULL
      /\ slot_lock = [s \in Slots |-> NULL]
      /\ pc = [c \in Callers |-> "idle"] /\ slot = [c \in Callers |-> NULL]
      /\ want = [c \in Callers |-> INVALID_EVENT] /\ kind = [c \in Callers |-> "data"]
      /\ woke = [c \in Callers |-> "none"] /\ got = [c \in Callers |-> Zero]
      /\ ret = [c \in Callers |-> "none"] /\ nested = [c \in Callers |-> NULL]
      /\ ppc = "idle" /\ pmsg = NULL /\ pslot = NULL
      /\ fate = [m \in Msgs |-> "unsent"]
      /\ init_at = <<"lock">>
      /\ word = "free" /\ at = [t \in Threads |-> "out"]
      /\ seen = [c \in Callers |-> NULL] /\ left = {}
  BY Zenon DEF StartInit
<1>2. TypeOK
  BY <1>1, SyncerAssumption, StartupAssumption DEF TypeOK, Zero, Halves, PcStates, Fates
<1>3. Places
  BY <1>1 DEF Places
<1>4. LockTypes /\ Futex /\ LockPlaces
  BY <1>1, PosterIsThread DEF LockTypes, Futex, LockPlaces, Asleep
<1>5. OneInside /\ SeenIsFirst
  BY <1>1 DEF OneInside, SeenIsFirst
<1>6. Exclusive /\ UnbornIsFree
  BY <1>1, NullIsNoSlot DEF Exclusive, Alone, UnbornIsFree
<1>7. EventsAreWanted
  BY <1>1, InitMoves DEF EventsAreWanted
<1>8. Claim
  BY <1>1 DEF Claim
<1>9. Matched /\ Registers /\ Unsunk /\ Contents
  BY <1>1, SyncerAssumption DEF Matched, Registers, Unsunk, Contents, Registered
<1> QED
  BY <1>2, <1>3, <1>4, <1>5, <1>6, <1>7, <1>8, <1>9, Zenon DEF StartInv, Base, Proper

LEMMA ProperStep ==
  ASSUME SocketTypeOK, Base, Proper, [StartNext]_allVars, ~raced'
  PROVE  Proper'
<1>0. /\ TypeOK /\ Places
      /\ OneInside /\ SeenIsFirst /\ Exclusive /\ UnbornIsFree /\ EventsAreWanted /\ Claim
      /\ Matched /\ Registers /\ Unsunk /\ Contents
  BY Zenon DEF Base, Proper
<1>1. OneInside' /\ SeenIsFirst'
  BY <1>0, OneInsideStep, FirstStep, Zenon
<1>2. CASE init_syncers
  BY <1>0, <1>1, <1>2, InitKeepsExclusive, InitKeepsEvents, InitKeepsClaim, InitKeepsContents,
     Zenon DEF Proper
<1>3. CASE SyncNext /\ UNCHANGED init_at
  <2>1. Exclusive' /\ UnbornIsFree' /\ EventsAreWanted' /\ Claim'
    BY <1>0, <1>3, ExclusiveStep, UnbornStep, EventsStep, ClaimStep, Zenon
  <2>2. Alone /\ Placement
    BY <1>0, Zenon DEF Exclusive, Placement
  <2>3. Matched' /\ (Registers /\ Unsunk)' /\ Contents'
    BY <1>0, <1>3, <2>2, MatchedStep, RegistersStep, ContentsStep, Zenon
  <2> QED  BY <1>1, <2>1, <2>3, Zenon DEF Proper
<1>4. CASE UNCHANGED syncVars /\ UNCHANGED init_at
  <2>1. UNCHANGED <<syncerVars, callerVars, posterVars>> /\ syncers_lock' = syncers_lock
        /\ slot_lock' = slot_lock
    BY <1>4, Zenon DEF syncVars
  <2>2. Exclusive' /\ UnbornIsFree'
    BY <1>0, <1>4, <2>1, Zenon
    DEF Exclusive, Alone, UnbornIsFree, Unborn, syncerVars, callerVars
  <2>3. \A s \in Slots : Fresh(s)' <=> Fresh(s)
    BY <1>4, Zenon DEF Fresh, Unborn
  <2>4. EventsAreWanted'
    BY <1>0, <2>1, <2>3, Zenon DEF EventsAreWanted, syncerVars, callerVars
  <2>5. Claim'
    BY <1>0, <1>4, <2>1, <2>3, SMT DEF Claim, Places, Awaited, callerVars, posterVars
  <2>6. (Matched /\ Registers /\ Unsunk /\ Contents)'
    BY <1>0, <1>4, <2>1, Zenon
    DEF Matched, Registers, Unsunk, Contents, syncerVars, callerVars, posterVars
  <2> QED  BY <1>1, <2>2, <2>4, <2>5, <2>6, Zenon DEF Proper
<1> QED  BY <1>0, <1>2, <1>3, <1>4, ProperIsSync, Zenon

LEMMA StartInvStep ==
  ASSUME SocketTypeOK, StartInv, [StartNext]_allVars
  PROVE  StartInv'
<1>1. raced => raced'
  BY InitIs, StartSteps, Zenon
<1> QED  BY <1>1, BaseStep, ProperStep, Zenon DEF StartInv


LEMMA SocketTypeCorrect == StartSpec => []SocketTypeOK
<1>1. StartInit => SocketTypeOK
  <2> SUFFICES ASSUME StartInit PROVE SocketTypeOK
    OBVIOUS
  <2>1. /\ spc = [m \in Msgs |-> "idle"] /\ tries = [m \in Msgs |-> 0]
        /\ sent = [m \in Msgs |-> "none"] /\ pending = << >>
    BY Zenon DEF StartInit
  <2>2. << >> \in Seq(Msgs) /\ Len(<< >>) = 0
    BY EmptySeq
  <2> QED  BY <2>1, <2>2, StartupAssumption, SMT DEF SocketTypeOK
<1> QED  BY <1>1, SocketTypeStep, PTL DEF StartSpec

LEMMA StartInvariance == StartSpec => []StartInv
BY StartInvInit, StartInvStep, SocketTypeCorrect, PTL DEF StartSpec

-----------------------------------------------------------------------------
(* What it says.                                                           *)
(* Calls that come while init_syncers is at work are safe unless one of    *)
(* them is inside the syncer, or a thread inside the lock, that is being   *)
(* initialised: one thread is inside syncers_lock, though alloc_syncer     *)
(* reads and writes in two steps and the lock is set up meanwhile.         *)
THEOREM StartIsSafe == StartSpec => []StartIsSafeUnlessRaced
<1>1. StartInv => StartIsSafeUnlessRaced
  <2> SUFFICES ASSUME StartInv, ~raced PROVE StartIsSafeUnlessRaced
    BY DEF StartIsSafeUnlessRaced
  <2>1. TypeOK /\ Alone /\ Registers /\ Contents
    BY Zenon DEF StartInv, Base, Proper, Exclusive
  <2>2. \A c \in Callers : pc[c] \in Registered /\ kind[c] # "none" => Sink(c) = c
    BY <2>1, SMT DEF Registers, Sink, TypeOK
  <2>3. SignalledGetsOwnEvent
    BY <2>1, SMT DEF Contents, SignalledGetsOwnEvent
  <2> QED  BY <2>1, <2>2, <2>3, Zenon DEF Alone, Registers, StartIsSafeUnlessRaced
<1> QED  BY <1>1, StartInvariance, PTL

(* Whatever init_syncers runs into, and two threads inside the lock do to  *)
(* each other, a thread is stranded only if it slept on the lock when that *)
(* was zeroed.                                                             *)
THEOREM StartStuckOnlyIfLeft == StartSpec => []StuckOnlyIfLeft
<1>1. ASSUME Base, InTheMiddle, \A t \in Threads : HeldUp(t), left \cap Asleep = {}
      PROVE  FALSE
  <2>0. TypeOK /\ Places /\ LockTypes /\ Futex /\ LockPlaces
    BY <1>1, Zenon DEF Base
  <2>1. \A c \in Callers : pc[c] # "copy"
    <3> SUFFICES ASSUME NEW c \in Callers, pc[c] = "copy" PROVE FALSE
      OBVIOUS
    <3>1. at[c] = "out" /\ HeldUp(c) /\ c # Poster
      BY <1>1, <2>0, PosterIsThread DEF LockPlaces
    <3> QED  BY <3>1 DEF HeldUp
  <2>2. \A s \in Slots : slot_lock[s] = NULL
    BY <2>0, <2>1 DEF LockPlaces, TypeOK
  <2>3. /\ \A c \in Callers : at[c] = "asleep" \/ pc[c] = "idle"
        /\ at[Poster] = "asleep" \/ ppc = "idle"
    BY <1>1, <2>0, <2>2, PosterIsThread DEF HeldUp, Places, TypeOK
  <2>4. \A t \in Threads : at[t] # "asleep" => at[t] = "out"
    BY <2>0, <2>3, PosterIsThread DEF LockPlaces, LockTypes, Threads
  <2>5. Asleep # {}
    BY <1>1, <2>3, PosterIsThread DEF InTheMiddle, Asleep
  <2>6. Asleep \ left # {}
    BY <1>1, <2>5
  <2>7. word = "contended" \/ \E t \in Threads : at[t] = "woken"
    BY <2>0, <2>6, Zenon DEF Futex
  <2>8. \E t \in Threads : at[t] \in {"in", "woken"}
    BY <2>0, <2>7 DEF Futex
  <2> QED  BY <2>4, <2>8
<1>2. StartInv => StuckOnlyIfLeft
  BY <1>1, Zenon DEF StartInv, StuckOnlyIfLeft
<1> QED  BY <1>2, StartInvariance, PTL

(* A package nobody waits for is claimed only if its event is that of an   *)
(* idle syncer or of one that is not initialised.                          *)
LEMMA ClaimReason ==
  ASSUME SocketTypeOK, StartInv, [StartNext]_allVars
  PROVE  \A m \in Msgs : ClaimHasReason(m)
<1>. SUFFICES ASSUME ~raced PROVE \A m \in Msgs : ClaimHasReason(m)
  BY DEF ClaimHasReason
<1>. USE DEF ClaimHasReason
<1>1. TypeOK /\ Places /\ Claim
  BY Zenon DEF StartInv, Base, Proper
<1>2. CASE Notify
  <2>1. ppc = "notify" /\ fate' = [fate EXCEPT ![pmsg] = "synced"]
    BY <1>2, Zenon DEF Notify
  <2>2. pmsg \in Msgs /\ pslot \in Slots
    BY <1>1, <2>1, SMT DEF Places
  <2>3. \A m \in Msgs : fate[m] # "synced" /\ fate'[m] = "synced" => m = pmsg
    BY <1>1, <2>1, SMT DEF TypeOK
  <2>4. Fresh(pslot) => init_at # <<"done">>
    <3>1. <<"lock">> # <<"done">>
      OBVIOUS
    <3> QED  BY <2>2, <3>1, PlacesDiffer, Zenon DEF Fresh, Unborn
  <2>5. \/ EventOf[pmsg] = INVALID_EVENT
        \/ EventOf[pmsg] = ZERO_EVENT /\ Fresh(pslot)
        \/ Awaited(pmsg)
    BY <1>1, <2>1, SMT DEF Claim
  <2> QED  BY <2>3, <2>4, <2>5, Zenon
<1>3. CASE sync_event \/ \E m \in Msgs : Recv(m)
  BY <1>1, <1>3, SMT DEF sync_event, Recv, TypeOK, Fates
<1>4. CASE UNCHANGED fate
  BY <1>4, Zenon
<1>5. init_syncers => UNCHANGED fate
  BY InitIs, Zenon DEF posterVars
<1>6. init_syncers \/ [SyncNext]_syncVars
  BY ProperIsSync, Zenon DEF StartInv, Proper
<1> QED
  BY <1>2, <1>3, <1>4, <1>5, <1>6, Zenon
  DEF SyncNext, CallerStep, PosterStep, alloc_syncer, AllocInside, regist_event, RegistInside, BeginWait, Timeout,
      SpuriousWake, EndWait, TimedOut, BeginCopy, EndCopy, free_syncer, FreeInside, Call,
      CallFromHandler, Enter, FinishCopy, Delivered, syncVars, posterVars

(* Unless init_syncers interfered, no package bypasses a call that is      *)
(* registered for its event.                                               *)
LEMMA BypassReason ==
  ASSUME SocketTypeOK, StartInv, [StartNext]_allVars
  PROVE  \A m \in Msgs : BypassHasReason(m)
<1>. SUFFICES ASSUME ~raced PROVE \A m \in Msgs : BypassHasReason(m)
  BY DEF BypassHasReason
<1>. USE DEF BypassHasReason
<1>1. TypeOK /\ Places /\ Registers
  BY Zenon DEF StartInv, Base, Proper
<1>2. CASE sync_event
  <2>1. ppc = "sync" /\ pmsg \in Msgs
    BY <1>1, <1>2, SMT DEF sync_event, Places
  <2>2. UNCHANGED fate \/ (fate' = [fate EXCEPT ![pmsg] = "direct"] /\ \A s \in Slots : ~Matches(s))
    BY <1>2, Zenon DEF sync_event
  <2>3. ASSUME \A s \in Slots : ~Matches(s) PROVE ~Awaited(pmsg)
    BY <1>1, <2>3, SMT DEF Matches, Awaited, Registers, Places, Registered, TypeOK
  <2>. QED  BY <1>1, <2>1, <2>2, <2>3, SMT DEF TypeOK
<1>3. CASE Notify \/ \E m \in Msgs : Recv(m)
  BY <1>1, <1>3, SMT DEF Notify, Recv, TypeOK, Fates
<1>4. CASE UNCHANGED fate
  BY <1>4, Zenon
<1>5. init_syncers => UNCHANGED fate
  BY InitIs, Zenon DEF posterVars
<1>6. init_syncers \/ [SyncNext]_syncVars
  BY ProperIsSync, Zenon DEF StartInv, Proper
<1> QED
  BY <1>2, <1>3, <1>4, <1>5, <1>6, Zenon
  DEF SyncNext, CallerStep, PosterStep, alloc_syncer, AllocInside, regist_event, RegistInside, BeginWait, Timeout,
      SpuriousWake, EndWait, TimedOut, BeginCopy, EndCopy, free_syncer, FreeInside, Call,
      CallFromHandler, Enter, FinishCopy, Delivered, syncVars, posterVars

(* Whatever init_syncers interferes with, sync_event decides wrongly only  *)
(* for the reasons FateAtStart names.                                      *)
THEOREM FateHasReason == StartSpec => FateAtStart
<1> DEFINE Own == \A m \in Msgs : ClaimHasReason(m) /\ BypassHasReason(m)
<1>1. SocketTypeOK /\ StartInv /\ [StartNext]_allVars => Own
  BY ClaimReason, BypassReason, Zenon
<1> HIDE DEF Own
<1>2. StartSpec => [][Own]_allVars
  BY <1>1, StartInvariance, SocketTypeCorrect, PTL DEF StartSpec
<1> QED  BY <1>2 DEF FateAtStart, Own

-----------------------------------------------------------------------------
(* Types.                                                                  *)

HandlerLoop == {"check", "wait", "asleep", "fetch"}

ThreadTypeOK ==
  /\ mb \in Mailboxes /\ handled \subseteq Msgs \cup {Blank} /\ delivered \in Seq(Msgs)
  /\ hpc \in {"init"} \cup HandlerLoop
  /\ init_at \in InitPlaces /\ (init_at = <<"done">> <=> hpc # "init")
  /\ post_at \in {"mailbox", "socket", "loop", "ended"}
  /\ forgotten \in BOOLEAN /\ raced \in BOOLEAN

(* What a step can do to the two threads.                                  *)
LEMMA ThreadSteps ==
  ASSUME SocketTypeOK, [StartNext]_allVars
  PROVE  \/ UNCHANGED <<mailVars, initVars>>
         \/ init_syncers
         \/ init_msg_mailbox \/ try_create_socket
         \/ /\ deliver_mail
            /\ forgotten' = FALSE /\ UNCHANGED <<init_at, post_at, raced>>
         \/ DeliverToForgotten /\ UNCHANGED initVars
         \/ /\ hpc \in HandlerLoop /\ hpc' \in HandlerLoop
            /\ handled' \in {handled, handled \cup {Blank}}
            /\ forgotten' \in {forgotten, FALSE}
            /\ UNCHANGED <<mb, delivered, init_at, post_at, raced>>
<1>1. UNCHANGED allVars => UNCHANGED <<mailVars, initVars>>
  BY Zenon DEF allVars, eventVars
<1>2. AcceptAndRecv \/ AcceptAndClose => UNCHANGED <<mailVars, initVars>>
  BY Zenon DEF AcceptAndRecv, AcceptAndClose, Accept
<1>3. ASSUME \/ HandlerThread /\ UNCHANGED initVars
             \/ WakeUp /\ forgotten' = FALSE /\ UNCHANGED <<post_at, init_at, raced>>
      PROVE  /\ hpc \in HandlerLoop /\ hpc' \in HandlerLoop
             /\ handled' \in {handled, handled \cup {Blank}}
             /\ forgotten' \in {forgotten, FALSE}
             /\ UNCHANGED <<mb, delivered, init_at, post_at, raced>>
  <2>1. CASE HandlerThread /\ UNCHANGED initVars
    BY <2>1, SMT
    DEF HandlerThread, CheckMailbox, wait_post, FetchAndProcess, HandlerStep, HandlerLoop, initVars
  <2>2. CASE WakeUp /\ forgotten' = FALSE /\ UNCHANGED <<post_at, init_at, raced>>
    <3>1. /\ hpc = "asleep" /\ hpc' = "fetch" /\ handled' = handled
          /\ UNCHANGED <<mb, delivered>>
      BY <2>2, Zenon DEF WakeUp, HandlerStep
    <3> QED  BY <2>2, <3>1, Zenon DEF HandlerLoop
  <2> QED  BY <1>3, <2>1, <2>2
<1>4. ASSUME NEW m \in Msgs, BeginSend(m) \/ send_msg_to_local(m)
      PROVE  UNCHANGED <<mailVars, initVars>>
  BY <1>4, Zenon DEF BeginSend, send_msg_to_local, ConnectRefused, Connect, Send, SendStep,
     eventVars
<1>5. event_poster =>
        \/ init_msg_mailbox \/ try_create_socket \/ AcceptAndRecv \/ AcceptAndClose
        \/ UNCHANGED <<mailVars, initVars>>
        \/ deliver_mail /\ forgotten' = FALSE /\ UNCHANGED <<init_at, post_at, raced>>
        \/ DeliverToForgotten /\ UNCHANGED initVars
  BY Zenon DEF event_poster, pthread_mutex_lock, PosterRuns, eventVars
<1>6. event_handler => init_syncers \/ (HandlerThread /\ UNCHANGED initVars)
  BY Zenon DEF event_handler
<1>7. StartNext =>
        \/ UNCHANGED <<mailVars, initVars>>
        \/ event_poster \/ event_handler
        \/ WakeUp /\ forgotten' = FALSE /\ UNCHANGED <<post_at, init_at, raced>>
        \/ \E m \in Msgs : BeginSend(m) \/ send_msg_to_local(m)
  BY Zenon DEF StartNext, CallBegins, CallerRuns, pthread_mutex_lock, eventVars
<1> QED  BY <1>1, <1>2, <1>3, <1>4, <1>5, <1>6, <1>7, Zenon

LEMMA InitPlacesAre ==
  /\ \A s \in Slots, k \in {"valid", "event", "rest"} : <<s, k>> \in InitPlaces
  /\ <<0, "valid">> \in InitPlaces /\ <<"lock">> \in InitPlaces /\ <<"done">> \in InitPlaces
  /\ <<0, "valid">> # <<"done">> /\ <<"lock">> # <<"done">>
<1>1. 0 \in Slots
  BY SyncerAssumption, StartupAssumption, SMT DEF Slots
<1>2. <<"lock">> # <<"done">>
  OBVIOUS
<1> QED  BY <1>1, <1>2, PlacesDiffer, Zenon DEF InitPlaces

LEMMA ThreadTypeStep ==
  ASSUME SocketTypeOK, Places, ThreadTypeOK, [StartNext]_allVars
  PROVE  ThreadTypeOK'
<1>0. /\ mb \in Mailboxes /\ handled \subseteq Msgs \cup {Blank} /\ delivered \in Seq(Msgs)
      /\ hpc \in {"init"} \cup HandlerLoop
      /\ init_at \in InitPlaces /\ (init_at = <<"done">> <=> hpc # "init")
      /\ post_at \in {"mailbox", "socket", "loop", "ended"}
      /\ forgotten \in BOOLEAN /\ raced \in BOOLEAN
  BY Zenon DEF ThreadTypeOK
<1>1. CASE UNCHANGED <<mailVars, initVars>>
  BY <1>0, <1>1, Zenon DEF ThreadTypeOK, mailVars, initVars
<1>2. CASE init_syncers
  <2>1. /\ UNCHANGED <<mb, handled, delivered, post_at, forgotten>>
        /\ raced' \in BOOLEAN
        /\ hpc' = hpc \/ hpc' = "check"
    BY <1>2, Zenon DEF init_syncers, InitSyncersLock, InitValid, InitEvent, InitRest, InitStep
  <2>2. init_at' \in InitPlaces /\ (init_at' = <<"done">> <=> hpc' # "init")
    <3>1. CASE InitSyncersLock
      BY <1>0, <3>1, InitPlacesAre, Zenon DEF InitSyncersLock, InitStep
    <3>2. ASSUME NEW s \in Slots, InitValid(s) \/ InitEvent(s)
          PROVE  init_at' \in InitPlaces /\ (init_at' = <<"done">> <=> hpc' # "init")
      BY <1>0, <3>2, InitPlacesAre, PlacesDiffer, Zenon DEF InitValid, InitEvent, InitStep
    <3>3. ASSUME NEW s \in Slots, InitRest(s)
          PROVE  init_at' \in InitPlaces /\ (init_at' = <<"done">> <=> hpc' # "init")
      <4>1. init_at = <<s, "rest">> /\ hpc = "init"
        BY <1>0, <3>3, PlacesDiffer, Zenon DEF InitRest, InitStep
      <4>2. CASE s + 1 \in Slots
        <5>1. init_at' = <<s + 1, "valid">> /\ hpc' = "init"
          BY <3>3, <4>1, <4>2, Zenon DEF InitRest, InitStep
        <5> QED  BY <4>2, <5>1, InitPlacesAre, PlacesDiffer, Zenon
      <4>3. CASE s + 1 \notin Slots
        <5>1. init_at' = <<"done">> /\ hpc' = "check"
          BY <3>3, <4>3, Zenon DEF InitRest, InitStep
        <5>2. hpc' # "init"
          BY <5>1, SMT
        <5> QED  BY <5>1, <5>2, InitPlacesAre, Zenon
      <4> QED  BY <4>2, <4>3
    <3> QED  BY <1>2, <3>1, <3>2, <3>3, Zenon DEF init_syncers
  <2>3. hpc' \in {"init"} \cup HandlerLoop
    BY <1>0, <2>1, SMT DEF HandlerLoop
  <2> QED  BY <1>0, <2>1, <2>2, <2>3, Zenon DEF ThreadTypeOK
<1>3. CASE init_msg_mailbox
  <2>1. /\ mb' = init_mailbox /\ UNCHANGED <<hpc, handled, delivered, init_at, raced>>
        /\ forgotten' \in BOOLEAN /\ post_at' = "socket"
    BY <1>3, Zenon DEF init_msg_mailbox
  <2> QED  BY <1>0, <2>1, InitIsEmpty, Zenon DEF ThreadTypeOK
<1>4. CASE try_create_socket
  <2>1. /\ UNCHANGED <<mailVars, init_at, raced, forgotten>>
        /\ post_at' \in {"loop", "ended"}
    BY <1>4, Zenon DEF try_create_socket, eventVars
  <2>2. post_at' \in {"mailbox", "socket", "loop", "ended"}
    BY <2>1, Zenon
  <2> QED  BY <1>0, <2>1, <2>2, Zenon DEF ThreadTypeOK, mailVars
<1>5. ASSUME pmsg \in Msgs, mb' = push_mailbox(mb, pmsg), delivered' = Append(delivered, pmsg),
             handled' = handled, forgotten' \in BOOLEAN,
             hpc' = (IF hpc = "asleep" THEN "fetch" ELSE hpc) \/ hpc' = hpc,
             UNCHANGED <<init_at, post_at, raced>>
      PROVE  ThreadTypeOK'
  <2>1. mb' \in Mailboxes
    BY <1>0, <1>5, PushKeepsRing, PackagesAreMsgs, Zenon
  <2>2. delivered' \in Seq(Msgs)
    BY <1>0, <1>5, AppendProperties, Zenon
  <2>3. hpc' \in {"init"} \cup HandlerLoop /\ (hpc' # "init" <=> hpc # "init")
    BY <1>0, <1>5, SMT DEF HandlerLoop
  <2> QED  BY <1>0, <1>5, <2>1, <2>2, <2>3, Zenon DEF ThreadTypeOK
<1>6. CASE deliver_mail /\ forgotten' = FALSE /\ UNCHANGED <<init_at, post_at, raced>>
  BY <1>5, <1>6, DeliverIs, Zenon
<1>7. CASE DeliverToForgotten /\ UNCHANGED initVars
  <2>1. pmsg \in Msgs
    <3>1. ppc = "deliver"
      BY <1>7, Zenon DEF DeliverToForgotten, Delivered
    <3> QED  BY <3>1, SMT DEF Places
  <2> QED  BY <1>0, <1>5, <1>7, <2>1, Zenon DEF DeliverToForgotten, initVars
<1>8. CASE /\ hpc \in HandlerLoop /\ hpc' \in HandlerLoop
           /\ handled' \in {handled, handled \cup {Blank}}
           /\ forgotten' \in {forgotten, FALSE}
           /\ UNCHANGED <<mb, delivered, init_at, post_at, raced>>
  <2>1. hpc # "init" /\ hpc' # "init"
    BY <1>8, SMT DEF HandlerLoop
  <2> QED  BY <1>0, <1>8, <2>1, Zenon DEF ThreadTypeOK
<1> QED  BY <1>1, <1>2, <1>3, <1>4, <1>6, <1>7, <1>8, ThreadSteps, Zenon

(* The types of the two threads, the mailbox and the socket; the handler   *)
(* thread is in its loop exactly when init_syncers has returned.           *)
THEOREM StartTypeCorrect == StartSpec => []StartTypeOK
<1>1. StartInit => ThreadTypeOK
  <2> SUFFICES ASSUME StartInit PROVE ThreadTypeOK
    OBVIOUS
  <2>1. /\ mb = init_mailbox /\ hpc = "init" /\ handled = {} /\ delivered = << >>
        /\ post_at = "mailbox" /\ init_at = <<"lock">> /\ forgotten = FALSE /\ raced = FALSE
    BY Zenon DEF StartInit
  <2>2. << >> \in Seq(Msgs)
    BY EmptySeq
  <2> QED  BY <2>1, <2>2, InitIsEmpty, InitPlacesAre, Zenon DEF ThreadTypeOK
<1>2. SocketTypeOK /\ StartInv /\ ThreadTypeOK /\ [StartNext]_allVars => ThreadTypeOK'
  BY ThreadTypeStep, Zenon DEF StartInv, Base
<1>3. StartInv /\ ThreadTypeOK /\ SocketTypeOK => StartTypeOK
  BY SMT DEF StartInv, Base, LockTypes, ThreadTypeOK, HandlerLoop, SocketTypeOK, StartTypeOK
<1> QED  BY <1>1, <1>2, <1>3, StartInvariance, SocketTypeCorrect, PTL DEF StartSpec

-----------------------------------------------------------------------------
(* What a result of send_msg_to_local means.                               *)

(* The poster has a package only after its sender was told SUCCESS, and a  *)
(* sender gets its result once.                                            *)
Sends ==
  /\ ppc # "idle" => fate[pmsg] # "unsent"
  /\ \A m \in Msgs : fate[m] # "unsent" => sent[m] = "SUCCESS"
  /\ \A m \in Msgs : sent[m] # "none" => spc[m] = "done"

(* What a step can do to the fates.                                        *)
LEMMA FateSteps ==
  ASSUME SocketTypeOK, [StartNext]_allVars
  PROVE  \/ UNCHANGED <<ppc, pmsg, fate>>
         \/ AcceptAndRecv
         \/ /\ ppc # "idle" /\ UNCHANGED sockVars
            /\ \/ fate' = fate
               \/ \E f \in Fates \ {"unsent"} : fate' = [fate EXCEPT ![pmsg] = f]
            /\ ppc' = "idle" \/ pmsg' = pmsg
<1>1. UNCHANGED allVars \/ WakeUp \/ event_handler => UNCHANGED <<ppc, pmsg, fate>>
  BY InitIs, Zenon DEF allVars, eventVars, WakeUp, event_handler, HandlerThread, CheckMailbox,
     wait_post, FetchAndProcess, HandlerStep, syncVars, posterVars
<1>2. ASSUME NEW c \in Callers, CallBegins(c) \/ CallerRuns(c) \/ pthread_mutex_lock(c)
      PROVE  UNCHANGED <<ppc, pmsg, fate>>
  BY <1>2, Zenon
  DEF CallBegins, Call, Enter, CallerRuns, FindSyncer, TakeSyncer, UnderLock, NoSyncer, AllocInside,
      RegistInside, FreeInside, OutsideLock, BeginWait, Timeout, EndWait, TimedOut, BeginCopy,
      EndCopy, pthread_mutex_lock, eventVars, syncVars, posterVars
<1>3. ASSUME NEW m \in Msgs, BeginSend(m) \/ send_msg_to_local(m)
      PROVE  UNCHANGED <<ppc, pmsg, fate>>
  BY <1>3, Zenon DEF BeginSend, send_msg_to_local, ConnectRefused, Connect, Send, SendStep,
     eventVars, syncVars, posterVars
<1>4. init_msg_mailbox \/ try_create_socket \/ AcceptAndClose \/ pthread_mutex_lock(Poster) =>
        UNCHANGED <<ppc, pmsg, fate>>
  BY Zenon DEF init_msg_mailbox, try_create_socket, AcceptAndClose, NothingToPost,
     pthread_mutex_lock, eventVars, syncVars, posterVars
<1>5. ASSUME PosterRuns \/ deliver_mail \/ DeliverToForgotten
      PROVE  /\ ppc # "idle"
             /\ \/ fate' = fate
                \/ \E f \in Fates \ {"unsent"} : fate' = [fate EXCEPT ![pmsg] = f]
             /\ ppc' = "idle" \/ pmsg' = pmsg
  <2>1. CASE sync_event
    BY <2>1, SMT DEF sync_event, Fates
  <2>2. CASE FinishCopy
    BY <2>2, SMT DEF FinishCopy
  <2>3. CASE Notify
    <3>1. ppc = "notify" /\ ppc' = "idle" /\ fate' = [fate EXCEPT ![pmsg] = "synced"]
      BY <2>3, Zenon DEF Notify
    <3>2. "synced" \in Fates \ {"unsent"} /\ ppc # "idle"
      BY <3>1, SMT DEF Fates
    <3> QED  BY <3>1, <3>2, Zenon
  <2>4. CASE Delivered
    BY <2>4, SMT DEF Delivered
  <2> QED  BY <1>5, <2>1, <2>2, <2>3, <2>4, Zenon DEF PosterRuns, deliver_mail, DeliverToForgotten
<1>6. event_poster => \/ UNCHANGED <<ppc, pmsg, fate>>
                      \/ AcceptAndRecv
                      \/ (PosterRuns \/ deliver_mail \/ DeliverToForgotten) /\ UNCHANGED sockVars
  BY <1>4, Zenon DEF event_poster, PosterRuns
<1> QED  BY <1>1, <1>2, <1>3, <1>5, <1>6, Zenon DEF StartNext

LEMMA SendsStep ==
  ASSUME TypeOK, Places, SocketTypeOK, Sends, [StartNext]_allVars
  PROVE  Sends'
<1>0. /\ fate \in [Msgs -> Fates] /\ sent \in [Msgs -> {"none", "SUCCESS", "FAILED"}]
      /\ spc \in [Msgs -> {"idle", "connect", "send", "done"}]
      /\ ppc # "idle" => pmsg \in Msgs
  BY Zenon DEF TypeOK, SocketTypeOK, Places
<1>1. ASSUME UNCHANGED <<ppc, pmsg, fate>>, NEW m \in Msgs, BeginSend(m) \/ send_msg_to_local(m)
      PROVE  Sends'
  <2>1. /\ \E l \in {"connect", "send", "done"} : spc' = [spc EXCEPT ![m] = l]
        /\ \/ sent' = sent /\ spc[m] # "done"
           \/ /\ spc[m] # "done" /\ spc' = [spc EXCEPT ![m] = "done"]
              /\ \E r \in {"SUCCESS", "FAILED"} : sent' = [sent EXCEPT ![m] = r]
    <3>1. CASE BeginSend(m) \/ Connect(m) \/ Send(m)
      BY <3>1, SMT DEF BeginSend, Connect, Send, SendStep
    <3>2. CASE ConnectRefused(m)
      BY <3>2, SMT DEF ConnectRefused, SendStep
    <3> QED  BY <1>1, <3>1, <3>2, Zenon DEF send_msg_to_local
  <2>2. sent[m] = "none" /\ fate[m] = "unsent"
    BY <1>0, <2>1, SMT DEF Sends
  <2>3. \A n \in Msgs : n # m => spc'[n] = spc[n] /\ sent'[n] = sent[n]
    BY <1>0, <2>1, SMT
  <2>4. sent'[m] # "none" => spc'[m] = "done"
    BY <1>0, <2>1, <2>2, SMT
  <2> QED  BY <1>1, <2>2, <2>3, <2>4, SMT DEF Sends
<1>2. CASE AcceptAndRecv
  <2>1. PICK m \in Msgs : Recv(m) /\ sent[m] = "SUCCESS" /\ UNCHANGED <<spc, sent>>
    BY <1>2, AcceptIs, Zenon
  <2>2. pmsg' = m /\ fate' = [fate EXCEPT ![m] = "posting"]
    BY <2>1, Zenon DEF Recv
  <2> QED  BY <1>0, <2>1, <2>2, SMT DEF Sends
<1>3. CASE /\ ppc # "idle" /\ UNCHANGED sockVars
           /\ \/ fate' = fate
              \/ \E f \in Fates \ {"unsent"} : fate' = [fate EXCEPT ![pmsg] = f]
           /\ ppc' = "idle" \/ pmsg' = pmsg
  <2>1. UNCHANGED <<spc, sent>>
    BY <1>3, Zenon DEF sockVars
  <2> QED  BY <1>0, <1>3, <2>1, SMT DEF Sends
<1>4. CASE UNCHANGED <<ppc, pmsg, fate, spc, sent>>
  BY <1>4, SMT DEF Sends
<1>5. ASSUME UNCHANGED <<ppc, pmsg, fate>>, NEW r \in {"SUCCESS", "FAILED"}, Accept(r)
      PROVE  Sends'
  BY <1>4, <1>5, Zenon DEF Accept
<1> QED  BY <1>1, <1>2, <1>3, <1>4, <1>5, FateSteps, SocketSteps, Zenon DEF sockVars

(* A package whose sender was told FAILED is never posted, whether connect *)
(* failed or send did after the connection was queued; the poster accepts  *)
(* that connection and finds nothing to post.  The safety half of          *)
(* SendResultHolds.                                                        *)
THEOREM FailedIsNeverPosted ==
  StartSpec => [](\A m \in Msgs : sent[m] = "FAILED" => fate[m] = "unsent")
<1>1. StartInit => Sends
  BY SMT DEF StartInit, Sends
<1>2. StartInv /\ SocketTypeOK /\ Sends /\ [StartNext]_allVars => Sends'
  BY SendsStep, Zenon DEF StartInv, Base
<1>3. Sends => \A m \in Msgs : sent[m] = "FAILED" => fate[m] = "unsent"
  BY SMT DEF Sends
<1> QED  BY <1>1, <1>2, <1>3, StartInvariance, SocketTypeCorrect, PTL DEF StartSpec

=============================================================================
