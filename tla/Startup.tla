------------------------------- MODULE Startup -------------------------------
(***************************************************************************)
(* The start of an application's event processor (start_event_handler_for, *)
(* app/msg_handler.c) and the local socket its packages come through.      *)
(*                                                                         *)
(* Initialisation belongs to the threads: the poster thread initialises    *)
(* the mailbox with its lock and condition variable, then creates the      *)
(* socket; the handler thread initialises the syncers with theirs.  Each   *)
(* may find the other already at work on what it initialises.  Until then  *)
(* memory is zero: no syncer is free, and all of them are on event 0.      *)
(* Application threads may call wait_on from the beginning.                *)
(*                                                                         *)
(* pthread_mutex_init on syncers_lock zeroes it under the threads that     *)
(* hold it or sleep on it.  So the lock is modelled here by what it is:    *)
(* the word glibc's pthread_mutex_lock and _unlock work on, and where each *)
(* thread is with it.  A thread may be preempted while it is inside.       *)
(*                                                                         *)
(* Other processes send with send_msg_to_local (app/msg_util.c): connect,  *)
(* up to a hundred times, send, close.  The poster accepts one connection  *)
(* after the other.                                                        *)
(***************************************************************************)
EXTENDS EventProcessor

CONSTANTS
  ZERO_EVENT,    (* event number 0                                        *)
  Wanted,        (* the calls it makes: events and how it waits for them  *)
  ConnectTries,  (* attempts of connect_socket before it gives up (100)   *)
  Backlog,       (* connections the socket holds: SOCKET_NCONN and one    *)
  CreateMayFail  (* may try_create_socket fail, or the process be missing *)
                 (* in comm_matrix?                                       *)

ASSUME StartupAssumption ==
  /\ NumSyncers # 0
  /\ ZERO_EVENT \in Events /\ ZERO_EVENT # INVALID_EVENT
  /\ Wanted \subseteq Events \X Kinds
  /\ Poster \notin Callers
  /\ ConnectTries \in Nat \ {0}
  /\ Backlog \in Nat \ {0}
  /\ CreateMayFail \in BOOLEAN

VARIABLES
  post_at,   (* the poster thread: "mailbox", "socket", "loop", "ended"   *)
  init_at,   (* the handler thread: where it is in init_syncers, or "done"*)
  forgotten, (* it sleeps on a condition variable that was initialised    *)
  raced,     (* history: init_syncers wrote to what was in use            *)
  word,      (* syncers_lock: "free", "locked", or "contended"            *)
  at,        (* per thread, with it: "out", "asleep", "woken" or "in"     *)
  seen,      (* per caller: the syncer alloc_syncer found and not yet took*)
  left,      (* history: who slept on syncers_lock when it was initialised*)
  spc,       (* per package, its sender: "idle", "connect", "send", "done"*)
  tries,     (* failed attempts of its connect_socket                     *)
  sent,      (* the result of its send_msg_to_local                       *)
  pending    (* the connections to be accepted, oldest first              *)

Threads == Callers \cup {Poster}

initVars == <<post_at, init_at, forgotten, raced>>
mutexVars == <<word, at>>
lockVars == <<mutexVars, seen, left>>
sockVars == <<spc, tries, sent, pending>>
allVars  == <<eventVars, initVars, lockVars, sockVars>>

StartInit ==
  /\ is_valid = [s \in Slots |-> FALSE]
  /\ on_event = [s \in Slots |-> ZERO_EVENT]
  /\ msg = [s \in Slots |-> Zero]
  /\ handle = [s \in Slots |-> NULL]
  /\ sync_data = [s \in Slots |-> NULL]
  /\ syncers_lock = NULL
  /\ slot_lock = [s \in Slots |-> NULL]
  /\ pc = [c \in Callers |-> "idle"]
  /\ slot = [c \in Callers |-> NULL]
  /\ want = [c \in Callers |-> INVALID_EVENT]
  /\ kind = [c \in Callers |-> "data"]
  /\ woke = [c \in Callers |-> "none"]
  /\ got = [c \in Callers |-> Zero]
  /\ ret = [c \in Callers |-> "none"]
  /\ nested = [c \in Callers |-> NULL]
  /\ ppc = "idle" /\ pmsg = NULL /\ pslot = NULL
  /\ fate = [m \in Msgs |-> "unsent"]
  /\ mb = init_mailbox /\ hpc = "init" /\ handled = {} /\ delivered = << >>
  /\ post_at = "mailbox" /\ init_at = <<"lock">> /\ forgotten = FALSE /\ raced = FALSE
  /\ word = "free" /\ at = [t \in Threads |-> "out"]
  /\ seen = [c \in Callers |-> NULL] /\ left = {}
  /\ spc = [m \in Msgs |-> "idle"]
  /\ tries = [m \in Msgs |-> 0]
  /\ sent = [m \in Msgs |-> "none"]
  /\ pending = << >>

-----------------------------------------------------------------------------
(* syncers_lock.                                                           *)

Asleep == {t \in Threads : at[t] = "asleep"}

WantsLock(t) ==
  \/ t = Poster /\ ppc = "sync"
  \/ t \in Callers /\ pc[t] \in {"alloc", "regist", "free"}

(* Whoever finds the word free has the lock; one that has slept leaves it  *)
(* contended, for others may sleep still.  Whoever does not, sleeps.       *)
pthread_mutex_lock(t) ==
  /\ WantsLock(t) /\ at[t] \in {"out", "woken"}
  /\ IF word = "free"
       THEN /\ word' = IF at[t] = "woken" THEN "contended" ELSE "locked"
            /\ at' = [at EXCEPT ![t] = "in"]
       ELSE /\ word' = "contended"
            /\ at' = [at EXCEPT ![t] = "asleep"]
  /\ UNCHANGED <<eventVars, initVars, seen, left, sockVars>>

(* The word is free, whoever had taken it; a sleeper is woken only if the  *)
(* word said that there is one.                                            *)
pthread_mutex_unlock(t) ==
  /\ word' = "free"
  /\ IF word = "contended" /\ Asleep # {}
       THEN \E u \in Asleep : at' = [at EXCEPT ![t] = "out", ![u] = "woken"]
       ELSE at' = [at EXCEPT ![t] = "out"]

(* alloc_syncer in two steps: it reads _is_valid and then resets it.       *)
FindSyncer(c) ==
  /\ at[c] = "in" /\ pc[c] = "alloc" /\ seen[c] = NULL
  /\ \E s \in Slots : FirstValid(s) /\ seen' = [seen EXCEPT ![c] = s]
  /\ UNCHANGED <<syncVars, mutexVars>>

TakeSyncer(c) ==
  /\ seen[c] # NULL
  /\ is_valid' = [is_valid EXCEPT ![seen[c]] = FALSE]
  /\ slot' = [slot EXCEPT ![c] = seen[c]]
  /\ seen' = [seen EXCEPT ![c] = NULL]
  /\ Goto(c, "regist")
  /\ pthread_mutex_unlock(c)
  /\ UNCHANGED <<on_event, msg, handle, sync_data, syncers_lock, slot_lock, want, kind, woke,
                 got, ret, nested, posterVars>>

NoSyncer(c) == (\A s \in Slots : ~is_valid[s]) /\ AllocInside(c)

(* The other sections are one action each.  When two threads are inside,   *)
(* which takes a race, they could mix further; the properties claim of     *)
(* what the syncers hold then nothing.                                     *)
UnderLock(c) ==
  /\ at[c] = "in" /\ seen[c] = NULL
  /\ NoSyncer(c) \/ RegistInside(c) \/ FreeInside(c)
  /\ pthread_mutex_unlock(c)
  /\ UNCHANGED seen

OutsideLock(c) ==
  /\ BeginWait(c) \/ Timeout(c) \/ TimedOut(c) \/ BeginCopy(c) \/ EndCopy(c)
  /\ UNCHANGED <<mutexVars, seen>>

CallerRuns(c) ==
  /\ FindSyncer(c) \/ TakeSyncer(c) \/ UnderLock(c) \/ OutsideLock(c)
  /\ UNCHANGED <<left, mailVars, initVars, sockVars>>

CallBegins(c) ==
  /\ \E w \in Wanted : Call(c, w[1], w[2])
  /\ UNCHANGED <<mailVars, initVars, lockVars, sockVars>>

(* sync_event keeps the lock while it copies and signals.                  *)
PosterRuns ==
  /\ \/ /\ at[Poster] = "in"
        /\ sync_event
        /\ IF ppc' = "copy" THEN UNCHANGED mutexVars ELSE pthread_mutex_unlock(Poster)
     \/ FinishCopy /\ UNCHANGED mutexVars
     \/ Notify /\ pthread_mutex_unlock(Poster)
  /\ UNCHANGED <<mailVars, initVars, seen, left, sockVars>>

-----------------------------------------------------------------------------
(* The handler thread runs init_syncers before its loop.                   *)

(* Is a call or notify_handle at work on syncer s?                         *)
InUse(s) ==
  \/ pslot = s
  \/ \E c \in Callers : slot[c] = s

InitStep(from, to, inUse) ==
  /\ init_at = from
  /\ init_at' = to
  /\ raced' = (raced \/ inUse)
  /\ UNCHANGED <<callerVars, posterVars, syncers_lock, mb, handled, delivered, post_at,
                 forgotten, seen, sockVars>>

(* The word is zeroed whether a thread is inside or not.  One that is goes *)
(* on, and so may the next; one that sleeps is not woken by that.          *)
InitSyncersLock ==
  /\ InitStep(<<"lock">>, <<0, "valid">>, word # "free")
  /\ word' = "free"
  /\ left' = Asleep
  /\ UNCHANGED <<syncerVars, slot_lock, at, hpc>>

(* One round of its loop, without syncers_lock.  The syncer can be taken   *)
(* as soon as _is_valid is set, while the fields after it are not yet.     *)
InitValid(s) ==
  /\ InitStep(<<s, "valid">>, <<s, "event">>, InUse(s))
  /\ slot_lock' = [slot_lock EXCEPT ![s] = NULL]
  /\ is_valid' = [is_valid EXCEPT ![s] = TRUE]
  /\ UNCHANGED <<on_event, handle, sync_data, msg, mutexVars, left, hpc>>

(* Mutant: the event is left zero.                                         *)
LeaveEventZero(s) == on_event' = on_event

SetIdleEvent(s) == on_event' = [on_event EXCEPT ![s] = INVALID_EVENT]

InitEvent(s) ==
  /\ InitStep(<<s, "event">>, <<s, "rest">>, InUse(s))
  /\ SetIdleEvent(s)
  /\ UNCHANGED <<slot_lock, is_valid, handle, sync_data, msg, mutexVars, left, hpc>>

(* _handle, _sync_data and _msg; after the last syncer the loop begins.    *)
InitRest(s) ==
  /\ InitStep(<<s, "rest">>, IF s + 1 \in Slots THEN <<s + 1, "valid">> ELSE <<"done">>,
              InUse(s))
  /\ hpc' = IF s + 1 \in Slots THEN hpc ELSE "check"
  /\ handle' = [handle EXCEPT ![s] = NULL]
  /\ sync_data' = [sync_data EXCEPT ![s] = NULL]
  /\ msg' = [msg EXCEPT ![s] = Zero]
  /\ UNCHANGED <<slot_lock, is_valid, on_event, mutexVars, left>>

init_syncers ==
  \/ InitSyncersLock
  \/ \E s \in Slots : InitValid(s) \/ InitEvent(s) \/ InitRest(s)

-----------------------------------------------------------------------------
(* The poster thread before its loop.                                      *)

(* pthread_cond_init forgets a handler thread that already waits.          *)
init_msg_mailbox ==
  /\ post_at = "mailbox"
  /\ mb' = init_mailbox
  /\ forgotten' = (hpc = "asleep")
  /\ post_at' = "socket"
  /\ UNCHANGED <<syncVars, hpc, handled, delivered, init_at, raced, lockVars, sockVars>>

(* unlink, bind, listen; or the thread ends.                               *)
try_create_socket ==
  /\ post_at = "socket"
  /\ post_at' \in {"loop"} \cup {p \in {"ended"} : CreateMayFail}
  /\ UNCHANGED <<eventVars, init_at, forgotten, raced, lockVars, sockVars>>

Listening == post_at = "loop"

-----------------------------------------------------------------------------
(* send_msg_to_local of package m in another process.                      *)

SendStep(m, from, to) ==
  /\ spc[m] = from
  /\ spc' = [spc EXCEPT ![m] = to]
  /\ UNCHANGED <<eventVars, initVars, lockVars>>

BeginSend(m) ==
  /\ SendStep(m, "idle", "connect")
  /\ UNCHANGED <<tries, sent, pending>>

(* Nobody listens: connect fails at once and is repeated after 10 ms.      *)
ConnectRefused(m) ==
  /\ ~Listening
  /\ IF tries[m] + 1 >= ConnectTries
       THEN /\ SendStep(m, "connect", "done")
            /\ tries' = [tries EXCEPT ![m] = 0]
            /\ sent' = [sent EXCEPT ![m] = "FAILED"]
       ELSE /\ SendStep(m, "connect", "connect")
            /\ tries' = [tries EXCEPT ![m] = @ + 1]
            /\ UNCHANGED sent
  /\ UNCHANGED pending

(* Mutant: a backlog without a limit.                                      *)
AlwaysConnects == Listening

(* A full backlog makes connect block.                                     *)
CanConnect == Listening /\ Len(pending) < Backlog

Connect(m) ==
  /\ CanConnect
  /\ SendStep(m, "connect", "send")
  /\ pending' = Append(pending, m)
  /\ tries' = [tries EXCEPT ![m] = 0]
  /\ UNCHANGED sent

(* send and close.  The package is in the socket, accepted or not, or send *)
(* failed and the connection is closed without it.                         *)
Send(m) ==
  /\ SendStep(m, "send", "done")
  /\ \E r \in {"SUCCESS", "FAILED"} : sent' = [sent EXCEPT ![m] = r]
  /\ UNCHANGED <<tries, pending>>

send_msg_to_local(m) == ConnectRefused(m) \/ Connect(m) \/ Send(m)

-----------------------------------------------------------------------------
(* The loop of the poster: accept the oldest connection and wait in recv   *)
(* until the sender has sent its package, or closed without one.           *)
Accept(r) ==
  /\ Listening /\ pending # << >>
  /\ sent[Head(pending)] = r
  /\ pending' = Tail(pending)
  /\ UNCHANGED <<mailVars, initVars, lockVars, spc, tries, sent>>

AcceptAndRecv == Accept("SUCCESS") /\ Recv(Head(pending))

(* Mutant: posts what recv left in the buffer, whatever recv returned.     *)
PostsAnyway == Recv(Head(pending))

(* recv_size <= 0: the connection is closed and nothing is posted.         *)
NothingToPost == UNCHANGED syncVars

AcceptAndClose == Accept("FAILED") /\ ppc = "idle" /\ NothingToPost

(* A handler thread that was forgotten need not be woken by the signal.    *)
DeliverToForgotten ==
  /\ forgotten
  /\ Delivered
  /\ mb' = push_mailbox(mb, pmsg)
  /\ delivered' = Append(delivered, pmsg)
  /\ UNCHANGED <<hpc, handled>>

event_poster ==
  \/ init_msg_mailbox
  \/ try_create_socket
  \/ AcceptAndRecv \/ AcceptAndClose
  \/ pthread_mutex_lock(Poster)
  \/ PosterRuns
  \/ deliver_mail /\ forgotten' = FALSE /\ UNCHANGED <<post_at, init_at, raced, lockVars, sockVars>>
  \/ DeliverToForgotten /\ UNCHANGED <<initVars, lockVars, sockVars>>

event_handler ==
  \/ init_syncers
  \/ HandlerThread /\ UNCHANGED <<initVars, lockVars, sockVars>>

(* Calls are not woken for no reason here: Syncer has that.                *)
StartNext ==
  \/ \E c \in Callers : CallBegins(c) \/ CallerRuns(c) \/ pthread_mutex_lock(c)
  \/ event_poster
  \/ event_handler
  \/ WakeUp /\ forgotten' = FALSE /\ UNCHANGED <<post_at, init_at, raced, lockVars, sockVars>>
  \/ \E m \in Msgs : BeginSend(m) \/ send_msg_to_local(m)

(* The two threads keep running, and so do the calls and the senders that  *)
(* have begun.  Calls may come one after the other for ever, but each is   *)
(* outside syncers_lock most of its time: the poster, whenever it is awake *)
(* and wants the lock, is not too late for it each time.                   *)
StartFairness ==
  /\ WF_allVars(event_poster)
  /\ SF_allVars(pthread_mutex_lock(Poster) /\ word = "free")
  /\ WF_allVars(event_handler)
  /\ \A c \in Callers : WF_allVars(CallerRuns(c) \/ pthread_mutex_lock(c))
  /\ \A m \in Msgs : WF_allVars(send_msg_to_local(m))

StartSpec == StartInit /\ [][StartNext]_allVars /\ StartFairness

-----------------------------------------------------------------------------
(* Properties.                                                             *)

InitPlaces == {<<"lock">>, <<"done">>} \cup (Slots \X {"valid", "event", "rest"})

(* Every variable has its type; the handler thread is in its loop when     *)
(* init_syncers has returned.                                              *)
StartTypeOK ==
  /\ TypeOK
  /\ mb \in Mailboxes /\ handled \subseteq Msgs \cup {Blank} /\ delivered \in Seq(Msgs)
  /\ hpc \in {"init", "check", "wait", "asleep", "fetch"}
  /\ init_at \in InitPlaces /\ (init_at = <<"done">> <=> hpc # "init")
  /\ post_at \in {"mailbox", "socket", "loop", "ended"}
  /\ forgotten \in BOOLEAN /\ raced \in BOOLEAN
  /\ word \in {"free", "locked", "contended"}
  /\ at \in [Threads -> {"out", "asleep", "woken", "in"}]
  /\ seen \in [Callers -> Slots \cup {NULL}]
  /\ left \subseteq Threads
  /\ spc \in [Msgs -> {"idle", "connect", "send", "done"}]
  /\ tries \in [Msgs -> 0 .. ConnectTries]
  /\ sent \in [Msgs -> {"none", "SUCCESS", "FAILED"}]
  /\ pending \in Seq(Msgs) /\ Len(pending) <= Backlog

(* Calls and packages may come while init_syncers is at work.  Unless one  *)
(* of them is inside the very syncer, or inside the very lock, that is     *)
(* being initialised, no syncer is shared, a registration stays, and a     *)
(* call that is signalled gets a package of its event.                     *)
StartIsSafeUnlessRaced ==
  ~raced => /\ \A c, d \in Callers : c # d /\ slot[c] # NULL => slot[c] # slot[d]
            /\ \A c \in Callers : pc[c] \in Registered =>
                 on_event[slot[c]] = want[c] /\ (kind[c] # "none" => Sink(c) = c)
            /\ SignalledGetsOwnEvent

(* sync_event claims a package with no call waiting only if the package    *)
(* has the number of INVALID_EVENT, or is of event 0 and came before       *)
(* init_syncers was done (syncers not initialised yet match event 0), or   *)
(* after init_syncers wrote to what was in use.                            *)
ClaimHasReason(m) ==
  fate[m] # "synced" /\ fate'[m] = "synced" =>
    \/ Awaited(m)
    \/ EventOf[m] = INVALID_EVENT
    \/ EventOf[m] = ZERO_EVENT /\ init_at # <<"done">>
    \/ raced

(* It leaves the answer to a registered call to the mailbox, past the      *)
(* call, only after init_syncers wrote to what was in use.                 *)
BypassHasReason(m) ==
  fate[m] # "direct" /\ fate'[m] = "direct" => raced \/ ~Awaited(m)

(* While both threads initialise, what sync_event decides of a package is  *)
(* wrong for these reasons only.                                           *)
FateAtStart == [][\A m \in Msgs : ClaimHasReason(m) /\ BypassHasReason(m)]_allVars

(* A thread that cannot go on by itself: it has no call, sleeps on         *)
(* syncers_lock, or waits for the _lock of a syncer.                       *)
HeldUp(t) ==
  \/ at[t] = "asleep"
  \/ t \in Callers /\ pc[t] = "idle"
  \/ t \in Callers /\ pc[t] \in {"wait", "timedout", "signalled"} /\ slot_lock[slot[t]] # NULL
  \/ t = Poster /\ ppc = "idle"
  \/ t = Poster /\ ppc = "notify" /\ slot_lock[pslot] # NULL

(* With handlers that do not call wait_on, the threads in the middle of a  *)
(* call are all held up only if one of them slept on syncers_lock when     *)
(* init_syncers zeroed it, and sleeps still.  Two threads inside the lock  *)
(* at once, and an unlock by one that has lost it, strand nobody else.     *)
StuckOnlyIfLeft ==
  InTheMiddle /\ (\A t \in Threads : HeldUp(t)) => left \cap Asleep # {}

HasMail == ~is_empty(mb)

(* The handler thread comes to sleep over mail in two ways only: the mail  *)
(* came after it had found the mailbox empty and before it waited, or      *)
(* init_msg_mailbox ran when it was asleep already.                        *)
SleepsOverMailForReason ==
  [][hpc' = "asleep" /\ HasMail' =>
       \/ hpc = "wait" /\ HasMail
       \/ hpc = "asleep" /\ (HasMail \/ forgotten)]_allVars

Posted(m) == fate[m] \in {"synced", "direct"} /\ pmsg # m

(* send_msg_to_local returns FAILED, before it was connected or after,     *)
(* only for a package that is never posted.  The poster posts all those it *)
(* returned SUCCESS for, whatever the handler thread and the mailbox do,   *)
(* unless it slept on syncers_lock when init_syncers zeroed it.            *)
SendResultHolds ==
  /\ [](\A m \in Msgs : sent[m] = "FAILED" => fate[m] = "unsent")
  /\ <>[](Poster \notin left => \A m \in Msgs : sent[m] = "SUCCESS" => Posted(m))

=============================================================================
