----------------------------- MODULE Transmitter -----------------------------
(***************************************************************************)
(* The daemon of app/msg_transmitter.c over infra/mq_util.c and            *)
(* infra/rs485_util.c.  The thread exter_transmitter takes messages from   *)
(* the message queue and writes them to the RS-485 line; for those that    *)
(* need it, send_to_rs485_sync waits for an acknowledgement.  The thread   *)
(* inter_transmitter opens the line, hands every frame it receives to its  *)
(* local process and then calls notify_recv: any frame acknowledges        *)
(* whatever message is being waited for.                                   *)
(*                                                                         *)
(* ack_syncer.lock is held over the write and is let go of by the wait.    *)
(* Receiving a frame is one action here (RxParser has the bytes), and so   *)
(* is handing it to a local process (Startup has the sockets).             *)
(***************************************************************************)
EXTENDS Timeouts, Sequences

CONSTANTS
  Msgs,         (* messages the applications of this card transmit        *)
  NeedAck,      (* those whose ack_flag is NEED_ACK                       *)
  Frames,       (* frames the other card sends, each at most once         *)
  Passing,      (* those recv_msg_from_exter returns with SUCCESS         *)
  MAX_MSG_NUM,  (* mq_maxmsg of the queue (64)                            *)
  Clocks,       (* readings of CLOCK_MONOTONIC                            *)
  OpenMayFail,  (* may mq_open and the two opens of open_rs485 fail?      *)
  SpuriousWakeups,  (* may pthread_cond_timedwait return 0 unsignalled?   *)
  MaxRestarts,  (* bound: how often the daemon is killed and started      *)
  NULL

ASSUME TransmitterAssumption ==
  /\ NeedAck \subseteq Msgs
  /\ Passing \subseteq Frames
  /\ MAX_MSG_NUM \in Nat \ {0}
  /\ Clocks \subseteq timespec /\ Clocks # {}
  /\ OpenMayFail \in BOOLEAN
  /\ SpuriousWakeups \in BOOLEAN
  /\ MaxRestarts \in Nat
  /\ NULL \notin Msgs \cup Frames
  /\ "timeout" \notin Frames /\ "spurious" \notin Frames

VARIABLES
  mq,         (* the POSIX message queue; it outlives the daemon          *)
  accepted,   (* the messages transmit_msg returned SUCCESS for           *)
  written,    (* history: the messages given to write(), as frs485_fd was *)
  onLine,     (* history: those of them that came out on the line         *)
  result      (* per message: the result of send_msg_to_remote            *)

VARIABLES
  epc,        (* where exter_transmitter is                               *)
  mqdes,      (* its mqdes_int: "closed", "open", or -1: "failed"         *)
  emsg,       (* its msg_tmp                                              *)
  ack_lock,   (* is ack_syncer.lock held by it?                           *)
  created,    (* has create_ack_ayncer run?                               *)
  live,       (* it sleeps on ack_syncer.cond with a deadline to come     *)
  tp          (* the clock when it computed the deadline                  *)

VARIABLES
  ipc,        (* where inter_transmitter is                               *)
  fd,         (* frs485_fd: "unset" is 0, "failed" is 255                 *)
  imsg,       (* its msg_tmp                                              *)
  inbox,      (* frames at the serial port, not read yet                  *)
  sent,       (* the frames the other card has sent                       *)
  handed,     (* history: the frames given to send_msg_to_local           *)
  endedBy,    (* history: per message, what ended its wait: a frame, ...  *)
  restarts    (* number of restarts of the daemon                         *)

queueVars == <<mq, accepted>>
exterVars == <<epc, mqdes, emsg, live, tp>>
interVars == <<ipc, fd, created, imsg, handed>>
lineVars  == <<inbox, sent>>
logVars   == <<written, onLine, result, endedBy>>
vars == <<queueVars, exterVars, interVars, ack_lock, lineVars, logVars, restarts>>

Start == [epc |-> "open", ipc |-> "gpio"]

Init ==
  /\ mq = << >> /\ accepted = {}
  /\ written = << >> /\ onLine = << >> /\ result = [m \in Msgs |-> "none"]
  /\ endedBy = [m \in Msgs |-> NULL]
  /\ epc = Start.epc /\ mqdes = "closed" /\ emsg = NULL
  /\ ack_lock = FALSE /\ created = FALSE
  /\ live = FALSE /\ tp = NULL
  /\ ipc = Start.ipc /\ fd = "unset" /\ imsg = NULL
  /\ inbox = << >> /\ sent = {} /\ handed = << >>
  /\ restarts = 0

-----------------------------------------------------------------------------
(* The applications and the other card.                                    *)

(* Mutant: a queue without a limit.                                        *)
QueueNeverFull == TRUE

HasRoom == Len(mq) < MAX_MSG_NUM

(* transmit_msg in an application: mq_timedsend appends, all messages have *)
(* the same priority.  When there is no room for a second it fails and     *)
(* changes nothing; the application may try again.                         *)
transmit_msg(m) ==
  /\ m \notin accepted /\ HasRoom
  /\ mq' = Append(mq, m)
  /\ accepted' = accepted \cup {m}
  /\ UNCHANGED <<exterVars, interVars, ack_lock, lineVars, logVars, restarts>>

(* The other card sends f; it is lost on the line, or because the serial   *)
(* port is not open.                                                       *)
PeerSends(f) ==
  /\ f \notin sent
  /\ sent' = sent \cup {f}
  /\ \/ inbox' = inbox
     \/ fd = "line" /\ inbox' = Append(inbox, f)
  /\ UNCHANGED <<queueVars, exterVars, interVars, ack_lock, logVars, restarts>>

-----------------------------------------------------------------------------
(* exter_transmitter.                                                      *)

(* When the queue cannot be opened, the loop starts all the same.          *)
open_inter_comm ==
  /\ epc = "open"
  /\ mqdes' \in {"open"} \cup {d \in {"failed"} : OpenMayFail}
  /\ epc' = "recv"
  /\ UNCHANGED <<emsg, live, tp, queueVars, interVars, ack_lock, lineVars, logVars,
                 restarts>>

(* mq_timedreceive; without a message it fails after a second and the loop *)
(* calls it again.                                                         *)
recv_msg_from_inter ==
  /\ epc = "recv" /\ mqdes = "open" /\ mq # << >>
  /\ emsg' = Head(mq)
  /\ mq' = Tail(mq)
  /\ epc' = "send"
  /\ UNCHANGED <<mqdes, live, tp, accepted, interVars, ack_lock, lineVars, logVars, restarts>>

Report(r) == result' = [result EXCEPT ![emsg] = r]

(* send_to_rs485: with a descriptor that is not the line, the message goes *)
(* nowhere.  The result of write() is not looked at, so this thread goes   *)
(* on in the same way.                                                     *)
Write ==
  /\ written' = Append(written, emsg)
  /\ onLine' = IF fd = "line" THEN Append(onLine, emsg) ELSE onLine

(* Without an acknowledgement.                                             *)
SendNoAck ==
  /\ epc = "send" /\ emsg \notin NeedAck
  /\ Write
  /\ Report("SUCCESS")
  /\ emsg' = NULL
  /\ epc' = "recv"
  /\ UNCHANGED <<mqdes, live, tp, queueVars, interVars, ack_lock, lineVars, endedBy,
                 restarts>>

(* send_to_rs485_sync: takes the lock and writes.                          *)
SendSync ==
  /\ epc = "send" /\ emsg \in NeedAck
  /\ ~ack_lock
  /\ ack_lock' = TRUE
  /\ Write
  /\ epc' = "written"
  /\ UNCHANGED <<mqdes, emsg, live, tp, queueVars, interVars, lineVars, result, endedBy,
                 restarts>>

(* Has the deadline not passed yet when it is computed?                    *)
AheadOf(t) == Earlier(t, get_time_out_len(t))

(* It reads the clock and waits, which lets go of the lock.  A wait with a *)
(* deadline that has passed, perhaps since it was computed, ends with      *)
(* ETIMEDOUT at once.  Before create_ack_ayncer the zeroed condition       *)
(* variable goes by CLOCK_REALTIME, which may be anywhere.                 *)
BeginWait ==
  /\ epc = "written"
  /\ tp' \in Clocks
  /\ live' \in IF created THEN {FALSE, AheadOf(tp')} ELSE BOOLEAN
  /\ ack_lock' = FALSE
  /\ epc' = "wait"
  /\ UNCHANGED <<mqdes, emsg, queueVars, interVars, lineVars, logVars, restarts>>

EndWait(why) ==
  /\ epc = "wait"
  /\ live' = FALSE
  /\ endedBy' = [endedBy EXCEPT ![emsg] = why]
  /\ epc' = "relock"
  /\ UNCHANGED <<mqdes, emsg, tp, queueVars, fd, created, handed, ack_lock, sent, inbox,
                 written, onLine, result, restarts>>

Timeout == EndWait("timeout") /\ UNCHANGED <<ipc, imsg>>

SpuriousWake == SpuriousWakeups /\ live /\ EndWait("spurious") /\ UNCHANGED <<ipc, imsg>>

(* Mutant: returns without the unlock when the wait timed out.             *)
LockedAfterTimeout == endedBy[emsg] = "timeout"

LockedAfterWait == FALSE

(* The wait has the lock back; the result is known, exter_transmitter does *)
(* nothing with it.                                                        *)
EndSend ==
  /\ epc = "relock" /\ ~ack_lock
  /\ ack_lock' = LockedAfterWait
  /\ Report(IF endedBy[emsg] = "timeout" THEN "FAILED" ELSE "SUCCESS")
  /\ emsg' = NULL /\ tp' = NULL
  /\ epc' = "recv"
  /\ UNCHANGED <<mqdes, live, queueVars, interVars, lineVars, written, onLine, endedBy,
                 restarts>>

ExterStep ==
  \/ open_inter_comm \/ recv_msg_from_inter \/ SendNoAck \/ SendSync
  \/ BeginWait \/ Timeout \/ EndSend

-----------------------------------------------------------------------------
(* inter_transmitter.                                                      *)

(* open_rs485 stops at init_gpio when that fails; inter_transmitter goes   *)
(* on to read from descriptor 0.                                           *)
init_gpio ==
  /\ ipc = "gpio"
  /\ ipc' \in {"create"} \cup {p \in {"read"} : OpenMayFail}
  /\ UNCHANGED <<fd, created, imsg, handed, queueVars, exterVars, ack_lock, lineVars, logVars,
                 restarts>>

(* Initialises the lock and the condition variable, in use or not: whoever *)
(* holds the lock loses it, whoever sleeps is forgotten until its deadline.*)
create_ack_ayncer ==
  /\ ipc = "create"
  /\ created' = TRUE
  /\ ack_lock' = FALSE
  /\ live' = FALSE
  /\ ipc' = "serial"
  /\ UNCHANGED <<fd, imsg, handed, epc, mqdes, emsg, tp, queueVars, lineVars, logVars,
                 restarts>>

(* iomon_get_frs485_fd returns 255 when the port cannot be opened, and     *)
(* open_rs485 only knows -1: it succeeds with a descriptor nobody opened.  *)
iomon_get_frs485_fd ==
  /\ ipc = "serial"
  /\ fd' \in {"line"} \cup {d \in {"failed"} : OpenMayFail}
  /\ ipc' = "read"
  /\ UNCHANGED <<created, imsg, handed, queueVars, exterVars, ack_lock, lineVars, logVars,
                 restarts>>

(* recv_msg_from_exter comes back with a frame, or with FAILED and the     *)
(* loop drops what it was.                                                 *)
recv_msg_from_exter ==
  /\ ipc = "read" /\ inbox # << >>
  /\ inbox' = Tail(inbox)
  /\ IF Head(inbox) \in Passing
       THEN imsg' = Head(inbox) /\ ipc' = "local"
       ELSE UNCHANGED <<imsg, ipc>>
  /\ UNCHANGED <<fd, created, handed, queueVars, exterVars, ack_lock, sent, logVars, restarts>>

(* Mutant: the signal comes first, and the frame after it.                 *)
NotifyBeforeLocal ==
  /\ ipc = "local"
  /\ ipc' = "notify"
  /\ UNCHANGED <<handed, fd, created, imsg, queueVars, exterVars, ack_lock, lineVars, logVars,
                 restarts>>

(* The attempt is made, for up to a second, and its result is ignored.     *)
send_msg_to_local ==
  /\ ipc = "local"
  /\ handed' = Append(handed, imsg)
  /\ ipc' = "notify"
  /\ UNCHANGED <<fd, created, imsg, queueVars, exterVars, ack_lock, lineVars, logVars, restarts>>

NotifyDone ==
  /\ imsg' = NULL
  /\ ipc' = "read"

(* notify_recv: the signal reaches exter_transmitter only if it sleeps.    *)
notify_recv ==
  /\ ipc = "notify" /\ ~ack_lock
  /\ NotifyDone
  /\ \/ live /\ EndWait(imsg)
     \/ ~live /\ UNCHANGED <<fd, created, handed, queueVars, exterVars, ack_lock, lineVars,
                             logVars, restarts>>

InterStep ==
  \/ init_gpio \/ create_ack_ayncer \/ iomon_get_frs485_fd
  \/ recv_msg_from_exter \/ send_msg_to_local \/ notify_recv

-----------------------------------------------------------------------------

(* The daemon is killed and started again: its memory and what is at the   *)
(* port are gone, the queue is still there.                                *)
Restart ==
  /\ restarts < MaxRestarts
  /\ restarts' = restarts + 1
  /\ epc' = Start.epc /\ mqdes' = "closed" /\ emsg' = NULL
  /\ ack_lock' = FALSE /\ created' = FALSE
  /\ live' = FALSE /\ tp' = NULL
  /\ ipc' = Start.ipc /\ fd' = "unset" /\ imsg' = NULL
  /\ inbox' = << >>
  /\ UNCHANGED <<queueVars, sent, handed, logVars>>

Next ==
  \/ \E m \in Msgs : transmit_msg(m)
  \/ \E f \in Frames : PeerSends(f)
  \/ ExterStep
  \/ SpuriousWake
  \/ InterStep
  \/ Restart

(* Both threads keep running and the clock reaches the deadline of a wait. *)
(* Applications need not send, the other card need not answer.             *)
Spec == Init /\ [][Next]_vars /\ WF_vars(ExterStep) /\ WF_vars(InterStep)

-----------------------------------------------------------------------------
(* Properties.                                                             *)

(* Every variable has its type.                                            *)
TransmitterTypeOK ==
  /\ mq \in Seq(Msgs) /\ Len(mq) <= MAX_MSG_NUM
  /\ accepted \subseteq Msgs
  /\ written \in Seq(Msgs) /\ onLine \in Seq(Msgs)
  /\ result \in [Msgs -> {"none", "SUCCESS", "FAILED"}]
  /\ epc \in {"open", "recv", "send", "written", "wait", "relock"}
  /\ mqdes \in {"closed", "open", "failed"}
  /\ emsg \in Msgs \cup {NULL}
  /\ ack_lock \in BOOLEAN /\ created \in BOOLEAN /\ live \in BOOLEAN
  /\ tp \in Clocks \cup {NULL}
  /\ ipc \in {"gpio", "create", "serial", "read", "local", "notify"}
  /\ fd \in {"unset", "line", "failed"}
  /\ imsg \in Frames \cup {NULL}
  /\ inbox \in Seq(Frames) /\ sent \subseteq Frames /\ handed \in Seq(Frames)
  /\ endedBy \in [Msgs -> Frames \cup {NULL, "timeout", "spurious"}]
  /\ restarts \in 0 .. MaxRestarts

Elems(s) == {s[i] : i \in DOMAIN s}

(* send_to_rs485_sync reports SUCCESS only for a message it gave to write, *)
(* and only if a frame came in, unless its wait ended for no reason.  That *)
(* frame has been handed to its local process before, and acknowledges no  *)
(* other message.  This although the lock and the condition variable may   *)
(* be initialised in the middle of the call.  It is not said that the      *)
(* message came out on the line: the port may have been opened after the   *)
(* write and before the frame.                                             *)
SuccessIsAcknowledged ==
  \A m \in NeedAck : result[m] = "SUCCESS" /\ endedBy[m] # "spurious" =>
    /\ m \in Elems(written)
    /\ endedBy[m] \in Elems(handed) \cap Passing
    /\ \A n \in Msgs \ {m} : endedBy[n] # endedBy[m]

LateInSecond(t) == t.tv_nsec >= 700000000

(* A frame acknowledges a message only if the clock was in the last 300 ms *)
(* of a second when the message had been written: 300 ms after that is the *)
(* deadline the code means (rs485_util.c:186), not the one it waits for.   *)
AcknowledgedLateInSecond ==
  [][\A m \in Msgs : endedBy'[m] # endedBy[m] /\ endedBy'[m] \in Frames =>
       LateInSecond(tp)]_vars

(* The acknowledgements, the start-up order of the threads and the failed  *)
(* opens neither duplicate nor reorder messages or frames, and an          *)
(* unanswered message holds up neither direction for ever.  A message is   *)
(* lost only if the serial port is not open when it is written: it is not  *)
(* open yet, or could not be opened.                                       *)
Unwritten == IF epc = "send" THEN <<emsg>> ELSE << >>

TheRelay == INSTANCE Relay WITH
  Frames   <- Passing,
  Capacity <- MAX_MSG_NUM + 1,
  open     <- mqdes = "open",
  line     <- fd = "line",
  waiting  <- Unwritten \o mq,
  put      <- onLine,
  lost     <- Elems(written) \ Elems(onLine),
  arrived  <- IF ipc = "local" THEN <<imsg>> ELSE << >>,
  passed   <- handed

ImplementsRelay == TheRelay!RelaySpec

=============================================================================
