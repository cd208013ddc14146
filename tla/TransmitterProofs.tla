------------------------- MODULE TransmitterProofs -------------------------
(***************************************************************************)
(* Proofs about the daemon, for any messages, frames, clock and limit of   *)
(* the queue, with failing opens, losses and restarts: what a SUCCESS of   *)
(* send_to_rs485_sync stands for; that the daemon implements Relay; and    *)
(* what the wrong divisor of get_time_out_len means, namely that only in   *)
(* the last 300 ms of a second can a frame be an acknowledgement.          *)
(***************************************************************************)
EXTENDS Transmitter, SequenceTheorems, TLAPS

-----------------------------------------------------------------------------
(* The deadlines of module Timeouts, for every clock reading: one is       *)
(* exact, the other is mostly in the past.                                 *)

(* Adding q seconds and a rest for m milliseconds adds s seconds and m.     *)
LEMMA Carry ==
  ASSUME NEW a \in Nat, NEW b \in Nat, NEW s \in Nat, NEW m \in Nat, NEW q \in Nat,
         NEW r \in Nat, b + m * 1000000 = 1000000000 * q + r
  PROVE  (a + q + s) * 1000000000 + r = a * 1000000000 + b + (1000 * s + m) * 1000000
BY SMT

(* wait_on waits until exactly time_ms after the clock was read, and the   *)
(* result is a valid timespec, which pthread_cond_timedwait insists on.    *)
THEOREM WaitDeadlineIsExact ==
  ASSUME NEW ts \in timespec, NEW time_ms \in Nat
  PROVE  /\ set_time_out_ms(ts, time_ms) \in timespec
         /\ Nanos(set_time_out_ms(ts, time_ms)) = Nanos(ts) + Millis(time_ms)
<1> DEFINE s == time_ms \div 1000
           m == time_ms % 1000
           nsec == ts.tv_nsec + m * 1000000
<1>1. ts.tv_sec \in Nat /\ ts.tv_nsec \in Nat
  BY SMT DEF timespec
<1>2. s \in Nat /\ m \in Nat /\ time_ms = 1000 * s + m
  BY SMT
<1>3. set_time_out_ms(ts, time_ms) =
        [tv_sec |-> ts.tv_sec + nsec \div 1000000000 + s, tv_nsec |-> nsec % 1000000000]
  BY SMT DEF set_time_out_ms
<1> HIDE DEF s, m
<1>4. nsec \in Nat
  BY SMT, <1>1, <1>2
<1>5. PICK q \in Nat, r \in Nat : /\ r < 1000000000 /\ nsec = 1000000000 * q + r
                                  /\ nsec \div 1000000000 = q /\ nsec % 1000000000 = r
  <2> HIDE DEF nsec
  <2> QED BY SMT, <1>4
<1>6. ts.tv_nsec + m * 1000000 = 1000000000 * q + r
  BY SMT, <1>5
<1>7. set_time_out_ms(ts, time_ms) = [tv_sec |-> ts.tv_sec + q + s, tv_nsec |-> r]
  BY SMT, <1>3, <1>5
<1>8. set_time_out_ms(ts, time_ms) \in timespec
  BY SMT, <1>1, <1>2, <1>5, <1>7 DEF timespec
<1>9. Nanos(set_time_out_ms(ts, time_ms)) = (ts.tv_sec + q + s) * 1000000000 + r
  BY SMT, <1>7 DEF Nanos
<1>10. (ts.tv_sec + q + s) * 1000000000 + r =
         ts.tv_sec * 1000000000 + ts.tv_nsec + (1000 * s + m) * 1000000
  BY SMT, <1>1, <1>2, <1>6, Carry
<1> QED BY SMT, <1>2, <1>8, <1>9, <1>10 DEF Nanos, Millis

(* The deadline for an acknowledgement is a valid timespec, never more     *)
(* than 300 ms away, and a whole number of tenths of a second before that. *)
THEOREM AckDeadlineIsNeverLater ==
  ASSUME NEW ts \in timespec
  PROVE  /\ get_time_out_len(ts) \in timespec
         /\ \E k \in 0 .. 9 :
              Nanos(get_time_out_len(ts)) + Millis(100) * k = Nanos(ts) + Millis(300)
<1> DEFINE nsec == ts.tv_nsec + (300 % 1000) * 1000000
<1>1. ts.tv_sec \in Nat /\ ts.tv_nsec \in Nat
  BY SMT DEF timespec
<1>2. nsec \in Nat /\ nsec = ts.tv_nsec + 300000000 /\ 300 \div 1000 = 0
  BY SMT, <1>1
<1>3. get_time_out_len(ts) =
        [tv_sec |-> ts.tv_sec + nsec \div 1000000000 + 300 \div 1000,
         tv_nsec |-> nsec % 100000000]
  BY SMT DEF get_time_out_len
<1> HIDE DEF nsec
<1> DEFINE q == nsec \div 1000000000
           r == nsec % 1000000000
           k == r \div 100000000
           u == nsec % 100000000
<1>4. /\ q \in Nat /\ u \in Nat /\ u < 100000000
      /\ k \in 0 .. 9 /\ k \in Nat
      /\ nsec = 1000000000 * q + 100000000 * k + u
  <2>1. q \in Nat /\ r \in Nat /\ r < 1000000000 /\ nsec = 1000000000 * q + r
    BY SMT, <1>2
  <2>2. u = r % 100000000
    BY SMT, <1>2
  <2> HIDE DEF q, r, u
  <2>3. k \in Nat /\ u \in Nat /\ u < 100000000 /\ r = 100000000 * k + u
    BY SMT, <2>1, <2>2
  <2> HIDE DEF k
  <2>4. k \in 0 .. 9
    BY SMT, <2>1, <2>3
  <2>5. nsec = 1000000000 * q + 100000000 * k + u
    BY SMT, <2>1, <2>3
  <2> QED BY SMT, <2>1, <2>3, <2>4, <2>5
<1>5. get_time_out_len(ts) = [tv_sec |-> ts.tv_sec + q, tv_nsec |-> u]
  <2>1. get_time_out_len(ts) = [tv_sec |-> ts.tv_sec + q + 300 \div 1000, tv_nsec |-> u]
    BY SMT, <1>3
  <2> HIDE DEF q, r, k, u
  <2> QED BY SMT, <1>1, <1>2, <1>4, <2>1
<1> HIDE DEF q, r, k, u
<1>6. get_time_out_len(ts) \in timespec
  BY SMT, <1>1, <1>4, <1>5 DEF timespec
<1>7. Nanos(get_time_out_len(ts)) = (ts.tv_sec + q) * 1000000000 + u
  BY SMT, <1>5 DEF Nanos
<1>8. (ts.tv_sec + q) * 1000000000 + u + (100 * 1000000) * k =
        ts.tv_sec * 1000000000 + ts.tv_nsec + 300 * 1000000
  BY SMT, <1>1, <1>2, <1>4
<1> QED BY SMT, <1>4, <1>6, <1>7, <1>8 DEF Nanos, Millis

(* It is in the future only if the clock was read in the last 300 ms of a  *)
(* second: otherwise the wait for the acknowledgement is over at once.     *)
THEOREM AckWindow ==
  ASSUME NEW ts \in timespec
  PROVE  Earlier(ts, get_time_out_len(ts)) <=> ts.tv_nsec >= 700000000
<1>1. ts.tv_sec \in Nat /\ ts.tv_nsec \in Nat /\ ts.tv_nsec < 1000000000
  BY SMT DEF timespec
<1>2. get_time_out_len(ts).tv_sec = ts.tv_sec + (ts.tv_nsec + 300000000) \div 1000000000
  BY SMT, <1>1 DEF get_time_out_len
<1>3. get_time_out_len(ts).tv_nsec = (ts.tv_nsec + 300000000) % 100000000
  BY SMT, <1>1 DEF get_time_out_len
<1>4. CASE ts.tv_nsec >= 700000000
  BY SMT, <1>1, <1>2, <1>4 DEF Earlier
<1>5. CASE ts.tv_nsec < 700000000
  <2>1. (ts.tv_nsec + 300000000) \div 1000000000 = 0
    BY SMT, <1>1, <1>5
  <2>2. (ts.tv_nsec + 300000000) % 100000000 = ts.tv_nsec % 100000000
    BY SMT, <1>1
  <2>3. ts.tv_nsec % 100000000 <= ts.tv_nsec
    BY SMT, <1>1
  <2> QED BY SMT, <1>1, <1>2, <1>3, <1>5, <2>1, <2>2, <2>3 DEF Earlier
<1> QED BY SMT, <1>1, <1>4, <1>5

-----------------------------------------------------------------------------
(* The messages of the queue.                                              *)

(* Sequences of different elements.                                        *)
Distinct(s) == \A i, j \in DOMAIN s : s[i] = s[j] => i = j

(* Appending adds one element ...                                          *)
LEMMA ElemsOfAppend ==
  ASSUME NEW S, NEW s \in Seq(S), NEW e \in S
  PROVE  /\ Append(s, e) \in Seq(S) /\ Len(Append(s, e)) = Len(s) + 1
         /\ Elems(Append(s, e)) = Elems(s) \cup {e}
         /\ Distinct(s) /\ e \notin Elems(s) => Distinct(Append(s, e))
<1> DEFINE t == Append(s, e)
<1>1. /\ t \in Seq(S) /\ Len(t) = Len(s) + 1 /\ t[Len(s) + 1] = e
      /\ \A i \in 1 .. Len(s) : t[i] = s[i]
  BY AppendProperties
<1>2. DOMAIN s = 1 .. Len(s) /\ DOMAIN t = 1 .. Len(s) + 1 /\ Len(s) \in Nat
  BY <1>1, LenProperties
<1> HIDE DEF t
<1>3. Elems(t) = Elems(s) \cup {e}
  BY <1>1, <1>2, SMT DEF Elems
<1>4. ASSUME Distinct(s), e \notin Elems(s) PROVE Distinct(t)
  BY <1>1, <1>2, <1>4, SMT DEF Distinct, Elems
<1> QED  BY <1>1, <1>3, <1>4 DEF t

(* ... and the head of a sequence of different elements is not in its tail. *)
LEMMA ElemsOfTail ==
  ASSUME NEW S, NEW s \in Seq(S), s # << >>, Distinct(s)
  PROVE  /\ Head(s) \in S /\ Head(s) \in Elems(s)
         /\ Tail(s) \in Seq(S) /\ Len(Tail(s)) = Len(s) - 1
         /\ Elems(Tail(s)) = Elems(s) \ {Head(s)}
         /\ Distinct(Tail(s))
<1> DEFINE t == Tail(s)
<1>1. /\ Head(s) \in S /\ Head(s) = s[1] /\ t \in Seq(S) /\ Len(t) = Len(s) - 1
      /\ \A i \in 1 .. Len(t) : t[i] = s[i + 1]
  BY HeadTailProperties
<1>2. DOMAIN s = 1 .. Len(s) /\ DOMAIN t = 1 .. Len(s) - 1 /\ Len(s) \in Nat \ {0}
  BY <1>1, LenProperties, EmptySeq
<1> HIDE DEF t
<1>3. Head(s) \in Elems(s)
  BY <1>1, <1>2, SMT DEF Elems
<1>4. Elems(t) \subseteq Elems(s) \ {Head(s)}
  BY <1>1, <1>2, SMT DEF Elems, Distinct
<1>5. ASSUME NEW i \in DOMAIN s, s[i] # s[1] PROVE s[i] \in Elems(t)
  <2>1. i - 1 \in DOMAIN t /\ s[i] = t[i - 1]
    BY <1>1, <1>2, <1>5, SMT
  <2> QED  BY <2>1, Zenon DEF Elems
<1>6. Elems(s) \ {Head(s)} \subseteq Elems(t)
  BY <1>1, <1>5, Zenon DEF Elems
<1>7. ASSUME NEW i \in DOMAIN t, NEW j \in DOMAIN t, t[i] = t[j] PROVE i = j
  <2>1. /\ i + 1 \in DOMAIN s /\ j + 1 \in DOMAIN s
        /\ s[i + 1] = t[i] /\ s[j + 1] = t[j]
    BY <1>1, <1>2, SMT
  <2>2. i + 1 = j + 1
    BY <1>7, <2>1, Zenon DEF Distinct
  <2> QED  BY <1>2, <2>2, SMT
<1>8. Distinct(t)
  BY <1>7, Zenon DEF Distinct
<1> QED  BY <1>1, <1>3, <1>4, <1>6, <1>8 DEF t

LEMMA ElemsOfNone == Elems(<< >>) = {} /\ Distinct(<< >>)
BY SMT DEF Elems, Distinct

-----------------------------------------------------------------------------
(* Types, and what the threads have in hand.                               *)

InWork == epc \in {"send", "written", "wait", "relock"}

InHand ==
  /\ InWork => emsg \in Msgs
  /\ epc \in {"written", "wait", "relock"} => emsg \in NeedAck
  /\ epc = "open" => mqdes = "closed"
  /\ epc = "send" => mqdes = "open"
  /\ ipc \in {"local", "notify"} => imsg \in Passing

Typed == TransmitterTypeOK /\ InHand

(* What write() does to the two histories.                                 *)
LEMMA WriteIs ==
  ASSUME written \in Seq(Msgs), onLine \in Seq(Msgs), emsg \in Msgs, Write
  PROVE  /\ written' \in Seq(Msgs) /\ Elems(written') = Elems(written) \cup {emsg}
         /\ onLine' \in Seq(Msgs)
         /\ fd = "line" => Elems(onLine') = Elems(onLine) \cup {emsg}
         /\ fd # "line" => onLine' = onLine
  BY ElemsOfAppend, SMT DEF Write

LEMMA TypedInit == Init => Typed
<1> SUFFICES ASSUME Init PROVE Typed
  OBVIOUS
<1>1. /\ mq = << >> /\ accepted = {} /\ written = << >> /\ onLine = << >> /\ inbox = << >> /\ sent = {}
      /\ handed = << >> /\ emsg = NULL /\ imsg = NULL /\ tp = NULL /\ restarts = 0
      /\ epc = "open" /\ mqdes = "closed" /\ ipc = "gpio" /\ fd = "unset"
      /\ ack_lock \in BOOLEAN /\ created \in BOOLEAN /\ live \in BOOLEAN
      /\ result = [m \in Msgs |-> "none"] /\ endedBy = [m \in Msgs |-> NULL]
  BY Zenon DEF Init, Start
<1>2. << >> \in Seq(Msgs) /\ << >> \in Seq(Frames) /\ Len(<< >>) = 0
  BY EmptySeq
<1> QED  BY <1>1, <1>2, TransmitterAssumption, SMT DEF Typed, TransmitterTypeOK, InHand, InWork

LEMMA TypedStep == Typed /\ [Next]_vars => Typed'
<1> SUFFICES ASSUME Typed, [Next]_vars PROVE Typed'
  OBVIOUS
<1> USE TransmitterAssumption DEF Typed, TransmitterTypeOK, InHand, InWork
<1>1. CASE UNCHANGED vars
  BY <1>1, SMT DEF vars, queueVars, exterVars, interVars, lineVars, logVars
<1>2. ASSUME NEW m \in Msgs, transmit_msg(m) PROVE Typed'
  <2>1. mq' \in Seq(Msgs) /\ Len(mq') <= MAX_MSG_NUM
    BY <1>2, ElemsOfAppend, SMT DEF transmit_msg, HasRoom
  <2> QED  BY <1>2, <2>1, SMT DEF transmit_msg, exterVars, interVars, lineVars, logVars
<1>3. ASSUME NEW f \in Frames, PeerSends(f) PROVE Typed'
  <2>1. inbox' \in {inbox, Append(inbox, f)}
    BY <1>3, Zenon DEF PeerSends
  <2>2. Append(inbox, f) \in Seq(Frames)
    BY ElemsOfAppend, SMT
  <2>3. /\ inbox' \in Seq(Frames) /\ sent' = sent \cup {f}
        /\ UNCHANGED <<queueVars, exterVars, interVars, ack_lock, logVars, restarts>>
    BY <1>3, <2>1, <2>2, Zenon DEF PeerSends
  <2> QED  BY <2>3, SMT DEF queueVars, exterVars, interVars, logVars
<1>4. CASE open_inter_comm
  BY <1>4, SMT DEF open_inter_comm, queueVars, interVars, lineVars, logVars
<1>5. CASE recv_msg_from_inter
  <2>1. emsg' \in Msgs /\ mq' \in Seq(Msgs) /\ Len(mq') = Len(mq) - 1
    BY <1>5, HeadTailProperties, SMT DEF recv_msg_from_inter
  <2>2. Len(mq') <= MAX_MSG_NUM
    BY <2>1, SMT
  <2> QED  BY <1>5, <2>1, <2>2, SMT DEF recv_msg_from_inter, interVars, lineVars, logVars
<1>6. CASE SendNoAck
  <2>1. written' \in Seq(Msgs) /\ onLine' \in Seq(Msgs)
    BY <1>6, WriteIs, SMT DEF SendNoAck
  <2> QED  BY <1>6, <2>1, SMT DEF SendNoAck, Report, queueVars, interVars, lineVars
<1>7. CASE SendSync
  <2>1. written' \in Seq(Msgs) /\ onLine' \in Seq(Msgs)
    BY <1>7, WriteIs, SMT DEF SendSync
  <2> QED  BY <1>7, <2>1, SMT DEF SendSync, queueVars, interVars, lineVars
<1>8. CASE BeginWait
  <2>1. AheadOf(tp') \in BOOLEAN
    BY Zenon DEF AheadOf, Earlier
  <2> HIDE DEF AheadOf
  <2>2. live' \in BOOLEAN
    BY <1>8, <2>1, Zenon DEF BeginWait
  <2>3. /\ tp' \in Clocks /\ epc = "written" /\ epc' = "wait" /\ ack_lock' \in BOOLEAN
        /\ UNCHANGED <<mqdes, emsg, queueVars, interVars, lineVars, logVars, restarts>>
    BY <1>8, Zenon DEF BeginWait
  <2> QED  BY <2>2, <2>3, SMT DEF queueVars, interVars, lineVars, logVars
<1>9. CASE Timeout \/ SpuriousWake
  <2>1. PICK why \in {"timeout", "spurious"} : EndWait(why)
    BY <1>9, Zenon DEF Timeout, SpuriousWake
  <2>2. /\ epc = "wait" /\ epc' = "relock" /\ live' \in BOOLEAN
        /\ endedBy' = [endedBy EXCEPT ![emsg] = why]
        /\ UNCHANGED <<mqdes, emsg, tp, queueVars, fd, created, handed, ack_lock, sent, inbox,
                       written, onLine, result, restarts, ipc, imsg>>
    BY <1>9, <2>1, Zenon DEF Timeout, SpuriousWake, EndWait
  <2> QED  BY <2>2, SMT DEF queueVars
<1>10. CASE EndSend
  <2>1. PICK r \in {"FAILED", "SUCCESS"} : result' = [result EXCEPT ![emsg] = r]
    BY <1>10, Zenon DEF EndSend, Report
  <2>2. /\ ack_lock' \in BOOLEAN /\ emsg' = NULL /\ tp' = NULL /\ epc' = "recv"
        /\ UNCHANGED <<mqdes, live, queueVars, interVars, lineVars, written, onLine, endedBy,
                       restarts>>
    BY <1>10, Zenon DEF EndSend, LockedAfterWait
  <2>3. result' \in [Msgs -> {"none", "SUCCESS", "FAILED"}]
    BY <2>1, Zenon
  <2> QED  BY <2>2, <2>3, SMT DEF queueVars, interVars, lineVars
<1>11. CASE init_gpio \/ create_ack_ayncer \/ iomon_get_frs485_fd
  <2>1. /\ ipc' \in {"create", "read", "serial"} /\ fd' \in {fd, "line", "failed"}
        /\ ack_lock' \in BOOLEAN /\ created' \in BOOLEAN /\ live' \in BOOLEAN
        /\ UNCHANGED <<imsg, handed, epc, mqdes, emsg, tp, queueVars, lineVars, logVars, restarts>>
    BY <1>11, Zenon DEF init_gpio, create_ack_ayncer, iomon_get_frs485_fd, exterVars
  <2> QED  BY <2>1, SMT DEF queueVars, lineVars, logVars
<1>12. CASE recv_msg_from_exter
  <2>1. Head(inbox) \in Frames /\ inbox' \in Seq(Frames)
    BY <1>12, HeadTailProperties, SMT DEF recv_msg_from_exter
  <2> QED  BY <1>12, <2>1, SMT DEF recv_msg_from_exter, queueVars, exterVars, logVars
<1>13. CASE send_msg_to_local
  <2>1. handed' \in Seq(Frames)
    BY <1>13, ElemsOfAppend, SMT DEF send_msg_to_local
  <2> QED  BY <1>13, <2>1, SMT DEF send_msg_to_local, queueVars, exterVars, lineVars, logVars
<1>14. CASE notify_recv
  <2>1. /\ ipc = "notify" /\ imsg' = NULL /\ ipc' = "read" /\ live' \in BOOLEAN
        /\ UNCHANGED <<mqdes, emsg, tp, queueVars, fd, created, handed, ack_lock, lineVars,
                       written, onLine, result, restarts>>
        /\ \/ epc = "wait" /\ epc' = "relock" /\ endedBy' = [endedBy EXCEPT ![emsg] = imsg]
           \/ UNCHANGED <<epc, endedBy>>
    BY <1>14, Zenon DEF notify_recv, NotifyDone, EndWait, exterVars, lineVars, logVars
  <2> QED  BY <2>1, SMT DEF queueVars, lineVars
<1>15. CASE Restart
  <2>1. << >> \in Seq(Frames)
    BY EmptySeq
  <2>2. /\ inbox' = << >> /\ emsg' = NULL /\ imsg' = NULL /\ tp' = NULL
        /\ restarts < MaxRestarts /\ restarts' = restarts + 1
        /\ epc' = "open" /\ mqdes' = "closed" /\ ipc' = "gpio" /\ fd' = "unset"
        /\ ack_lock' \in BOOLEAN /\ created' \in BOOLEAN /\ live' \in BOOLEAN
        /\ UNCHANGED <<queueVars, sent, handed, logVars>>
    BY <1>15, Zenon DEF Restart, Start
  <2> QED  BY <2>1, <2>2, SMT DEF queueVars, logVars
<1> QED  BY <1>1, <1>2, <1>3, <1>4, <1>5, <1>6, <1>7, <1>8, <1>9, <1>10, <1>11, <1>12, <1>13,
            <1>14, <1>15, Zenon DEF Next, ExterStep, InterStep

-----------------------------------------------------------------------------
(* No message is in work twice, and no frame is.                           *)

(* A message waits in the queue, or is in work, or has been written, or    *)
(* has a result; it is none of them before it was accepted.                *)
Once ==
  /\ Distinct(mq) /\ Elems(mq) \subseteq accepted
  /\ Elems(onLine) \subseteq Elems(written) /\ Elems(written) \subseteq accepted \ Elems(mq)
  /\ epc = "send" => emsg \notin Elems(written)
  /\ InWork => emsg \in accepted \ Elems(mq) /\ result[emsg] = "none"
  /\ \A m \in Msgs : result[m] # "none" => m \in accepted \ Elems(mq)

(* A frame waits at the port, or is in hand, or was handed over; it is     *)
(* none of them before it was sent.                                        *)
Fresh ==
  /\ Distinct(inbox) /\ Elems(inbox) \subseteq sent /\ Elems(handed) \subseteq sent
  /\ Elems(inbox) \cap Elems(handed) = {}
  /\ ipc \in {"local", "notify"} => imsg \in sent \ Elems(inbox)
  /\ ipc = "local" => imsg \notin Elems(handed)

LEMMA OnceStep == Typed /\ Once /\ [Next]_vars => Once'
<1> SUFFICES ASSUME Typed, Once, [Next]_vars PROVE Once'
  OBVIOUS
<1>0. /\ mq \in Seq(Msgs) /\ accepted \subseteq Msgs
      /\ written \in Seq(Msgs) /\ onLine \in Seq(Msgs)
      /\ result \in [Msgs -> {"none", "SUCCESS", "FAILED"}]
      /\ InWork => emsg \in Msgs
  BY Zenon DEF Typed, TransmitterTypeOK, InHand
<1>1. ASSUME NEW m \in Msgs, transmit_msg(m) PROVE Once'
  <2>1. /\ m \notin accepted /\ mq' = Append(mq, m) /\ accepted' = accepted \cup {m}
        /\ UNCHANGED <<written, onLine, result, epc, emsg>>
    BY <1>1, Zenon DEF transmit_msg, exterVars, logVars
  <2>2. Elems(mq') = Elems(mq) \cup {m} /\ Distinct(mq')
    BY <1>0, <2>1, ElemsOfAppend, Zenon DEF Once
  <2> QED  BY <1>0, <2>1, <2>2, SMT DEF Once, InWork
<1>2. CASE recv_msg_from_inter
  <2>1. /\ epc = "recv" /\ mq # << >> /\ emsg' = Head(mq) /\ mq' = Tail(mq) /\ epc' = "send"
        /\ UNCHANGED <<accepted, written, onLine, result>>
    BY <1>2, Zenon DEF recv_msg_from_inter, logVars
  <2>2. /\ emsg' \in Elems(mq) /\ emsg' \in Msgs /\ Elems(mq') = Elems(mq) \ {emsg'}
        /\ Distinct(mq')
    BY <1>0, <2>1, ElemsOfTail, Zenon DEF Once
  <2> QED  BY <1>0, <2>1, <2>2, SMT DEF Once, InWork
<1>3. CASE SendNoAck \/ SendSync
  <2>1. /\ epc = "send" /\ Write /\ UNCHANGED <<mq, accepted>>
        /\ \/ epc' = "recv" /\ result' = [result EXCEPT ![emsg] = "SUCCESS"]
           \/ epc' = "written" /\ UNCHANGED <<emsg, result>>
    BY <1>3, Zenon DEF SendNoAck, SendSync, Report, queueVars
  <2>2. emsg \in Msgs /\ emsg \in accepted \ Elems(mq) /\ result[emsg] = "none"
    BY <1>0, <2>1, SMT DEF Once, InWork
  <2>3. /\ Elems(written') = Elems(written) \cup {emsg}
        /\ Elems(onLine') \subseteq Elems(onLine) \cup {emsg}
    BY <1>0, <2>1, <2>2, WriteIs, SMT
  <2>4. /\ Distinct(mq') /\ Elems(mq') \subseteq accepted'
        /\ Elems(onLine') \subseteq Elems(written')
        /\ Elems(written') \subseteq accepted' \ Elems(mq')
    BY <2>1, <2>2, <2>3, SMT DEF Once
  <2>5. \A m \in Msgs : result'[m] # "none" => m \in accepted \ Elems(mq)
    BY <1>0, <2>1, <2>2, SMT DEF Once
  <2>6. InWork' => emsg' = emsg /\ result'[emsg] = "none"
    BY <2>1, <2>2, SMT DEF InWork
  <2> QED  BY <2>1, <2>2, <2>4, <2>5, <2>6, SMT DEF Once
<1>4. CASE EndSend
  <2>1. /\ epc = "relock" /\ epc' = "recv" /\ UNCHANGED <<mq, accepted, written, onLine>>
        /\ \A m \in Msgs \ {emsg} : result'[m] = result[m]
    BY <1>0, <1>4, Zenon DEF EndSend, Report, queueVars
  <2> QED  BY <1>0, <2>1, SMT DEF Once, InWork
<1>5. CASE /\ (InWork' => InWork) /\ (epc' = "send" => epc = "send")
           /\ UNCHANGED <<mq, accepted, written, onLine, emsg, result>>
  BY <1>5, Zenon DEF Once
<1>6. CASE Restart
  <2>1. epc' = "open" /\ UNCHANGED <<mq, accepted, written, onLine, result>>
    BY <1>6, Zenon DEF Restart, Start, queueVars, logVars
  <2> QED  BY <2>1, SMT DEF Once, InWork
<1>7. ASSUME \/ UNCHANGED vars \/ \E f \in Frames : PeerSends(f)
             \/ open_inter_comm \/ BeginWait \/ Timeout \/ SpuriousWake \/ InterStep
      PROVE  Once'
  <2>1. UNCHANGED <<mq, accepted, written, onLine, emsg, result>>
    BY <1>7, Zenon DEF vars, PeerSends, open_inter_comm, BeginWait, Timeout, SpuriousWake,
       EndWait, InterStep, init_gpio, create_ack_ayncer, iomon_get_frs485_fd,
       recv_msg_from_exter, send_msg_to_local, notify_recv, queueVars, exterVars, logVars
  <2>2. \/ UNCHANGED epc
        \/ epc \in {"written", "wait"} /\ epc' \in {"wait", "relock"}
        \/ epc' = "recv"
    BY <1>7, Zenon DEF vars, PeerSends, open_inter_comm, BeginWait, Timeout, SpuriousWake,
       EndWait, InterStep, init_gpio, create_ack_ayncer, iomon_get_frs485_fd,
       recv_msg_from_exter, send_msg_to_local, notify_recv, exterVars
  <2> QED  BY <1>5, <2>1, <2>2, SMT DEF InWork
<1> QED  BY <1>1, <1>2, <1>3, <1>4, <1>6, <1>7, Zenon DEF Next, ExterStep

LEMMA FreshStep == Typed /\ Fresh /\ [Next]_vars => Fresh'
<1> SUFFICES ASSUME Typed, Fresh, [Next]_vars PROVE Fresh'
  OBVIOUS
<1>0. /\ inbox \in Seq(Frames) /\ handed \in Seq(Frames)
      /\ ipc \in {"local", "notify"} => imsg \in Frames
  BY TransmitterAssumption, SMT DEF Typed, TransmitterTypeOK, InHand
<1>1. ASSUME NEW f \in Frames, PeerSends(f) PROVE Fresh'
  <2>1. /\ f \notin sent /\ sent' = sent \cup {f} /\ UNCHANGED <<handed, ipc, imsg>>
        /\ inbox' = inbox \/ inbox' = Append(inbox, f)
    BY <1>1, Zenon DEF PeerSends, interVars
  <2>2. f \notin Elems(inbox) /\ f \notin Elems(handed)
    BY <2>1, Zenon DEF Fresh
  <2>3. /\ Elems(Append(inbox, f)) = Elems(inbox) \cup {f}
        /\ Distinct(Append(inbox, f))
    BY <1>0, <2>2, ElemsOfAppend, Zenon DEF Fresh
  <2>4. Elems(inbox') \subseteq Elems(inbox) \cup {f} /\ Distinct(inbox')
    <3>1. CASE inbox' = inbox
      BY <3>1, Zenon DEF Fresh
    <3>2. CASE inbox' = Append(inbox, f)
      BY <2>3, <3>2, Zenon
    <3> QED  BY <2>1, <3>1, <3>2, Zenon
  <2> QED  BY <2>1, <2>2, <2>4, SMT DEF Fresh
<1>2. CASE recv_msg_from_exter
  <2>1. /\ ipc = "read" /\ inbox # << >> /\ inbox' = Tail(inbox) /\ UNCHANGED <<sent, handed>>
        /\ (imsg' = Head(inbox) /\ ipc' = "local") \/ ipc' = "read"
    BY <1>2, Zenon DEF recv_msg_from_exter
  <2>2. /\ Head(inbox) \in Elems(inbox) /\ Elems(inbox') = Elems(inbox) \ {Head(inbox)}
        /\ Distinct(inbox')
    BY <1>0, <2>1, ElemsOfTail, Zenon DEF Fresh
  <2> QED  BY <2>1, <2>2, SMT DEF Fresh
<1>3. CASE send_msg_to_local
  <2>1. /\ ipc = "local" /\ ipc' = "notify" /\ handed' = Append(handed, imsg)
        /\ UNCHANGED <<inbox, sent, imsg>>
    BY <1>3, Zenon DEF send_msg_to_local, lineVars
  <2>2. Elems(handed') = Elems(handed) \cup {imsg}
    BY <1>0, <2>1, ElemsOfAppend, SMT
  <2> QED  BY <2>1, <2>2, SMT DEF Fresh
<1>4. CASE Restart
  <2>1. /\ ipc' = "gpio" /\ inbox' = << >> /\ UNCHANGED <<sent, handed>>
    BY <1>4, Zenon DEF Restart, Start
  <2> QED  BY <2>1, ElemsOfNone, SMT DEF Fresh
<1>5. CASE ipc' \in {"create", "serial", "read"} /\ UNCHANGED <<inbox, sent, handed>>
  BY <1>5, SMT DEF Fresh
<1>6. CASE UNCHANGED <<inbox, sent, handed, ipc, imsg>>
  BY <1>6, Zenon DEF Fresh
<1>7. CASE init_gpio \/ create_ack_ayncer \/ iomon_get_frs485_fd \/ notify_recv
  <2>1. ipc' \in {"create", "serial", "read"} /\ UNCHANGED <<inbox, sent, handed>>
    BY <1>7, Zenon DEF init_gpio, create_ack_ayncer, iomon_get_frs485_fd, notify_recv,
       NotifyDone, EndWait, lineVars
  <2> QED  BY <1>5, <2>1, Zenon
<1>8. CASE \/ UNCHANGED vars \/ ExterStep \/ SpuriousWake
           \/ \E m \in Msgs : transmit_msg(m)
  <2>1. UNCHANGED <<inbox, sent, handed, ipc, imsg>>
    BY <1>8, Zenon DEF vars, transmit_msg, ExterStep, open_inter_comm, recv_msg_from_inter,
       SendNoAck, SendSync, BeginWait, Timeout, SpuriousWake, EndWait, EndSend, interVars,
       lineVars
  <2> QED  BY <1>6, <2>1, Zenon
<1>9. InterStep => Fresh'
  BY <1>2, <1>3, <1>7, Zenon DEF InterStep
<1> QED  BY <1>1, <1>4, <1>8, <1>9, Zenon DEF Next

(* What ended a wait: a frame that was handed over before and ended no     *)
(* other wait, or else the deadline, or nothing.                           *)
Acks ==
  /\ \A m \in Msgs : endedBy[m] \in Frames =>
       endedBy[m] \in Elems(handed) \cap Passing /\ m \in Elems(written)
  /\ \A m, n \in Msgs : endedBy[m] \in Frames /\ endedBy[m] = endedBy[n] => m = n
  /\ ipc = "notify" => imsg \in Elems(handed) /\ \A m \in Msgs : endedBy[m] # imsg
  /\ epc \in {"written", "wait", "relock"} => emsg \in Elems(written)
  /\ epc = "relock" => endedBy[emsg] \in Frames \cup {"timeout", "spurious"}
  /\ \A m \in NeedAck : result[m] = "SUCCESS" => endedBy[m] \in Frames \cup {"spurious"}

(* The end of a wait keeps Acks, if it is no frame or one that is news.    *)
LEMMA EndWaitKeepsAcks ==
  ASSUME Typed, Once, Acks,
         NEW why \in Passing \cup {"timeout", "spurious"},
         EndWait(why),
         why \in Passing => why \in Elems(handed) /\ \A m \in Msgs : endedBy[m] # why,
         ipc' = "notify" => ipc = "notify" /\ imsg' = imsg /\ why \notin Frames
  PROVE  Acks'
<1>1. /\ epc = "wait" /\ epc' = "relock" /\ endedBy' = [endedBy EXCEPT ![emsg] = why]
      /\ UNCHANGED <<emsg, handed, written, result>>
  BY Zenon DEF EndWait
<1>2. /\ endedBy \in [Msgs -> Frames \cup {NULL, "timeout", "spurious"}]
      /\ emsg \in Msgs /\ result[emsg] = "none" /\ emsg \in Elems(written)
      /\ NeedAck \subseteq Msgs /\ Passing \subseteq Frames
      /\ "timeout" \notin Frames /\ "spurious" \notin Frames
      /\ ipc = "notify" => imsg \in Passing
  BY <1>1, TransmitterAssumption, SMT DEF Typed, TransmitterTypeOK, InHand, InWork, Once, Acks
<1>3. endedBy'[emsg] = why /\ \A m \in Msgs \ {emsg} : endedBy'[m] = endedBy[m]
  BY <1>1, <1>2, Zenon
<1>4. \A m \in Msgs : endedBy'[m] \in Frames =>
        endedBy'[m] \in Elems(handed') \cap Passing /\ m \in Elems(written')
  BY <1>1, <1>2, <1>3, SMT DEF Acks
<1>5. \A m, n \in Msgs : endedBy'[m] \in Frames /\ endedBy'[m] = endedBy'[n] => m = n
  BY <1>2, <1>3, SMT DEF Acks
<1>6. ipc' = "notify" => imsg' \in Elems(handed') /\ \A m \in Msgs : endedBy'[m] # imsg'
  BY <1>1, <1>2, <1>3, SMT DEF Acks
<1>7. epc' = "relock" /\ emsg' \in Elems(written')
      /\ endedBy'[emsg'] \in Frames \cup {"timeout", "spurious"}
  BY <1>1, <1>2, <1>3, SMT
<1>8. \A m \in NeedAck : result'[m] = "SUCCESS" => endedBy'[m] \in Frames \cup {"spurious"}
  BY <1>1, <1>2, <1>3, SMT DEF Acks
<1> QED  BY <1>4, <1>5, <1>6, <1>7, <1>8, Zenon DEF Acks

LEMMA AcksStep == Typed /\ Once /\ Fresh /\ Acks /\ [Next]_vars => Acks'
<1> SUFFICES ASSUME Typed, Once, Fresh, Acks, [Next]_vars PROVE Acks'
  OBVIOUS
<1>0. /\ written \in Seq(Msgs) /\ handed \in Seq(Frames)
      /\ result \in [Msgs -> {"none", "SUCCESS", "FAILED"}]
      /\ InWork => emsg \in Msgs
      /\ ipc \in {"local", "notify"} => imsg \in Passing /\ imsg \in Frames
      /\ NeedAck \subseteq Msgs /\ Passing \subseteq Frames
      /\ "timeout" \notin Frames /\ "spurious" \notin Frames
  BY TransmitterAssumption, SMT DEF Typed, TransmitterTypeOK, InHand
<1>1. CASE SendNoAck \/ SendSync
  <2>1. /\ epc = "send" /\ written' = Append(written, emsg)
        /\ UNCHANGED <<endedBy, handed, ipc, imsg>>
        /\ \/ epc' = "recv" /\ emsg \notin NeedAck /\ result' = [result EXCEPT ![emsg] = "SUCCESS"]
           \/ epc' = "written" /\ UNCHANGED <<emsg, result>>
    BY <1>1, Zenon DEF SendNoAck, SendSync, Write, Report, interVars
  <2>2. Elems(written') = Elems(written) \cup {emsg}
    BY <1>0, <2>1, ElemsOfAppend, SMT DEF InWork
  <2>3. \A m \in NeedAck : result'[m] = result[m]
    BY <1>0, <2>1, SMT
  <2>4. epc' \in {"written", "wait", "relock"} => emsg' \in Elems(written')
    BY <2>1, <2>2, SMT
  <2>5. epc' # "relock"
    BY <2>1, SMT
  <2> QED  BY <2>1, <2>2, <2>3, <2>4, <2>5, SMT DEF Acks
<1>2. CASE BeginWait
  <2>1. /\ epc = "written" /\ epc' = "wait"
        /\ UNCHANGED <<emsg, written, endedBy, handed, ipc, imsg, result>>
    BY <1>2, Zenon DEF BeginWait, interVars, logVars
  <2> QED  BY <2>1, SMT DEF Acks
<1>3. CASE Timeout \/ SpuriousWake
  <2>1. PICK why \in {"timeout", "spurious"} : EndWait(why)
    BY <1>3, Zenon DEF Timeout, SpuriousWake
  <2>2. UNCHANGED <<ipc, imsg>> /\ why \notin Frames /\ why \notin Passing
    BY <1>0, <1>3, <2>1, Zenon DEF Timeout, SpuriousWake
  <2> QED  BY <2>1, <2>2, EndWaitKeepsAcks, Zenon
<1>4. CASE EndSend
  <2>1. /\ epc = "relock" /\ epc' = "recv"
        /\ UNCHANGED <<written, endedBy, handed, ipc, imsg>>
        /\ result' = [result EXCEPT ![emsg] = IF endedBy[emsg] = "timeout" THEN "FAILED"
                                                                          ELSE "SUCCESS"]
    BY <1>4, Zenon DEF EndSend, Report, interVars
  <2>2. emsg \in Msgs /\ endedBy[emsg] \in Frames \cup {"timeout", "spurious"}
    BY <1>0, <2>1, SMT DEF InWork, Acks
  <2>3. \A m \in NeedAck : result'[m] = "SUCCESS" => endedBy[m] \in Frames \cup {"spurious"}
    BY <1>0, <2>1, <2>2, SMT DEF Acks
  <2> QED  BY <2>1, <2>3, SMT DEF Acks
<1>5. CASE send_msg_to_local
  <2>1. /\ ipc = "local" /\ ipc' = "notify" /\ imsg' = imsg /\ handed' = Append(handed, imsg)
        /\ UNCHANGED <<epc, emsg, written, endedBy, result>>
    BY <1>5, Zenon DEF send_msg_to_local, exterVars, logVars
  <2>2. imsg \in Frames /\ imsg \notin Elems(handed)
    BY <1>0, <2>1, SMT DEF Fresh
  <2>3. Elems(handed') = Elems(handed) \cup {imsg}
    BY <1>0, <2>1, <2>2, ElemsOfAppend, SMT
  <2>4. \A m \in Msgs : endedBy[m] # imsg
    BY <2>2, SMT DEF Acks
  <2> QED  BY <2>1, <2>3, <2>4, SMT DEF Acks
<1>6. CASE notify_recv
  <2>1. ipc = "notify" /\ ipc' = "read"
    BY <1>6, Zenon DEF notify_recv, NotifyDone
  <2>2. CASE EndWait(imsg)
    <3>1. imsg \in Passing /\ imsg \in Elems(handed) /\ \A m \in Msgs : endedBy[m] # imsg
      BY <1>0, <2>1, SMT DEF Acks
    <3>2. ipc' # "notify"
      BY <2>1, SMT
    <3> QED  BY <2>2, <3>1, <3>2, EndWaitKeepsAcks, Zenon
  <2>3. CASE UNCHANGED <<handed, epc, emsg, written, endedBy, result>>
    BY <2>1, <2>3, SMT DEF Acks
  <2> QED  BY <1>6, <2>2, <2>3, Zenon DEF notify_recv, exterVars, logVars
<1>7. CASE init_gpio \/ create_ack_ayncer \/ iomon_get_frs485_fd \/ recv_msg_from_exter
  <2>1. /\ ipc' \in ({"create", "serial", "read", "local"} \cup {ipc}) \ {"notify"}
        /\ UNCHANGED <<handed, epc, emsg, written, endedBy, result>>
    BY <1>7, SMT DEF init_gpio, create_ack_ayncer, iomon_get_frs485_fd, recv_msg_from_exter,
       exterVars, logVars
  <2> QED  BY <2>1, SMT DEF Acks
<1>8. CASE Restart
  <2>1. epc' = "open" /\ ipc' = "gpio" /\ UNCHANGED <<handed, written, endedBy, result>>
    BY <1>8, Zenon DEF Restart, Start, logVars
  <2> QED  BY <2>1, SMT DEF Acks
<1>9. CASE \/ UNCHANGED vars \/ open_inter_comm \/ recv_msg_from_inter
           \/ \E m \in Msgs : transmit_msg(m)
           \/ \E f \in Frames : PeerSends(f)
  <2>1. /\ UNCHANGED <<handed, written, endedBy, result, ipc, imsg>>
        /\ UNCHANGED <<epc, emsg>> \/ epc' = "recv" \/ epc' = "send"
    BY <1>9, Zenon DEF vars, open_inter_comm, recv_msg_from_inter, transmit_msg, PeerSends,
       exterVars, interVars, logVars
  <2> QED  BY <2>1, SMT DEF Acks
<1>10. ExterStep \/ SpuriousWake => Acks'
  BY <1>1, <1>2, <1>3, <1>4, <1>9, Zenon DEF ExterStep
<1>11. InterStep => Acks'
  BY <1>5, <1>6, <1>7, Zenon DEF InterStep
<1> QED  BY <1>8, <1>9, <1>10, <1>11, Zenon DEF Next

(* The inductive invariant behind the acknowledgements.                    *)
AckInv == Typed /\ Once /\ Fresh /\ Acks

THEOREM AcksInvariant == Spec => []AckInv
<1>1. Init => AckInv
  <2> SUFFICES ASSUME Init PROVE AckInv
    OBVIOUS
  <2>1. /\ mq = << >> /\ accepted = {} /\ written = << >> /\ onLine = << >>
        /\ inbox = << >> /\ sent = {}
        /\ handed = << >> /\ epc = "open" /\ ipc = "gpio"
        /\ result = [m \in Msgs |-> "none"] /\ endedBy = [m \in Msgs |-> NULL]
    BY Zenon DEF Init, Start
  <2>2. Once /\ Fresh
    BY <2>1, ElemsOfNone, SMT DEF Once, Fresh, InWork
  <2>3. Acks
    BY <2>1, TransmitterAssumption, SMT DEF Acks
  <2> QED  BY <2>2, <2>3, TypedInit DEF AckInv
<1>2. AckInv /\ [Next]_vars => AckInv'
  BY TypedStep, OnceStep, FreshStep, AcksStep DEF AckInv
<1> QED  BY <1>1, <1>2, PTL DEF Spec

(* Every variable of the daemon keeps its type, and the queue its limit.   *)
THEOREM TransmitterTypeCorrect == Spec => []TransmitterTypeOK
<1>1. AckInv => TransmitterTypeOK
  BY Zenon DEF AckInv, Typed
<1> QED  BY <1>1, AcksInvariant, PTL

(* send_to_rs485_sync reports SUCCESS, but for spurious wake-ups, only for *)
(* a message that was written and that a frame of its own answered, in     *)
(* whatever order the threads start, fail to open and are restarted.       *)
THEOREM SuccessNeedsAFrame == Spec => []SuccessIsAcknowledged
<1>1. ASSUME AckInv, NEW m \in NeedAck, result[m] = "SUCCESS", endedBy[m] # "spurious"
      PROVE  /\ m \in Elems(written)
             /\ endedBy[m] \in Elems(handed) \cap Passing
             /\ \A n \in Msgs \ {m} : endedBy[n] # endedBy[m]
  <2>1. m \in Msgs /\ endedBy[m] \in Frames
    BY <1>1, TransmitterAssumption, SMT DEF AckInv, Acks
  <2> QED  BY <1>1, <2>1, SMT DEF AckInv, Acks
<1>2. AckInv => SuccessIsAcknowledged
  BY <1>1, Zenon DEF SuccessIsAcknowledged
<1> QED  BY <1>2, AcksInvariant, PTL

-----------------------------------------------------------------------------
(* A thread that sleeps on an initialised condition variable computed its  *)
(* deadline late in a second.                                              *)
SleepsLate ==
  /\ live => epc = "wait"
  /\ live /\ created => LateInSecond(tp)

(* Without the condition variable the port is not open, and no frame is on *)
(* its way: the path that skips create_ack_ayncer skips the port as well.  *)
NoFramesBefore ==
  /\ ~created => fd = "unset" /\ ipc \in {"gpio", "create", "read"}
  /\ fd # "line" => inbox = << >>
  /\ ipc \in {"gpio", "create"} => ~created
  /\ ipc \in {"gpio", "create", "serial"} => fd = "unset"

Timely == SleepsLate /\ NoFramesBefore /\ created \in BOOLEAN

LEMMA TransmitterInit == Init => Timely
<1> SUFFICES ASSUME Init PROVE Timely
  OBVIOUS
<1>1. live = FALSE /\ created = FALSE /\ fd = "unset" /\ ipc = "gpio" /\ inbox = << >>
  BY Zenon DEF Init, Start
<1>2. SleepsLate /\ created \in BOOLEAN
  BY <1>1, Zenon DEF SleepsLate
<1>3. NoFramesBefore
  BY <1>1, Zenon DEF NoFramesBefore
<1> QED  BY <1>2, <1>3, Zenon DEF Timely

LEMMA TransmitterStep == Timely /\ [Next]_vars => Timely'
<1> SUFFICES ASSUME Timely, [Next]_vars PROVE Timely'
  OBVIOUS
<1> USE DEF Timely, SleepsLate, NoFramesBefore
<1>1. CASE UNCHANGED vars
  BY <1>1, SMT DEF vars, queueVars, exterVars, interVars, lineVars, logVars
<1>2. ASSUME NEW m \in Msgs, transmit_msg(m) PROVE Timely'
  BY <1>2, SMT DEF transmit_msg, exterVars, interVars, lineVars, logVars
<1>3. ASSUME NEW f \in Frames, PeerSends(f) PROVE Timely'
  BY <1>3, SMT DEF PeerSends, queueVars, exterVars, interVars, logVars
<1>4. CASE ExterStep \/ SpuriousWake
  <2>1. CASE open_inter_comm
    BY <2>1, SMT DEF open_inter_comm, queueVars, interVars, lineVars, logVars
  <2>2. CASE recv_msg_from_inter
    BY <2>2, SMT DEF recv_msg_from_inter, interVars, lineVars, logVars
  <2>3. CASE SendNoAck
    BY <2>3, SMT DEF SendNoAck, queueVars, interVars, lineVars
  <2>4. CASE SendSync
    BY <2>4, SMT DEF SendSync, queueVars, interVars, lineVars
  <2>5. CASE BeginWait
    <3>1. /\ UNCHANGED <<created, fd, ipc, inbox>> /\ epc' = "wait"
          /\ tp' \in Clocks
          /\ created => live' \in {FALSE, AheadOf(tp')}
      BY <2>5, Zenon DEF BeginWait, interVars, lineVars
    <3>2. tp' \in timespec
      BY <3>1, TransmitterAssumption, Zenon
    <3>3. AheadOf(tp') <=> LateInSecond(tp')
      BY <3>2, AckWindow, SMT DEF AheadOf, LateInSecond
    <3>4. created /\ live' => AheadOf(tp')
      BY <3>1, Zenon
    <3>5. live' /\ created' => LateInSecond(tp')
      BY <3>1, <3>3, <3>4, SMT
    <3>6. NoFramesBefore' /\ created' \in BOOLEAN
      BY <3>1, SMT
    <3> QED  BY <3>1, <3>5, <3>6, Zenon
  <2>6. CASE Timeout \/ SpuriousWake
    <3>1. live' = FALSE /\ UNCHANGED <<created, fd, ipc, inbox>>
      BY <2>6, Zenon DEF Timeout, SpuriousWake, EndWait
    <3> QED  BY <3>1, SMT
  <2>7. CASE EndSend
    <3>1. UNCHANGED <<created, fd, ipc, inbox, live>>
      BY <2>7, Zenon DEF EndSend, interVars, lineVars
    <3>2. ~live
      BY <2>7, SMT DEF EndSend
    <3> QED  BY <2>7, <3>1, <3>2, SMT DEF EndSend
  <2> QED  BY <1>4, <2>1, <2>2, <2>3, <2>4, <2>5, <2>6, <2>7, Zenon DEF ExterStep
<1>5. CASE InterStep
  <2>1. CASE init_gpio
    <3>1. /\ ipc = "gpio" /\ ipc' \in {"create", "read"}
          /\ UNCHANGED <<created, fd, inbox, live, tp, epc>>
      BY <2>1, Zenon DEF init_gpio, exterVars, lineVars
    <3> QED  BY <3>1, SMT
  <2>2. CASE create_ack_ayncer
    BY <2>2, SMT DEF create_ack_ayncer, queueVars, lineVars, logVars
  <2>3. CASE iomon_get_frs485_fd
    <3>1. /\ ipc = "serial" /\ ipc' = "read"
          /\ UNCHANGED <<created, inbox, live, tp, epc>>
      BY <2>3, Zenon DEF iomon_get_frs485_fd, exterVars, lineVars
    <3> QED  BY <3>1, SMT
  <2>4. CASE recv_msg_from_exter
    BY <2>4, SMT DEF recv_msg_from_exter, queueVars, exterVars, logVars
  <2>5. CASE send_msg_to_local
    BY <2>5, SMT DEF send_msg_to_local, queueVars, exterVars, lineVars, logVars
  <2>6. CASE notify_recv
    BY <2>6, SMT DEF notify_recv, NotifyDone, EndWait, queueVars, exterVars, lineVars, logVars
  <2> QED  BY <1>5, <2>1, <2>2, <2>3, <2>4, <2>5, <2>6, Zenon DEF InterStep
<1>6. CASE Restart
  <2>1. /\ live' = FALSE /\ created' = FALSE /\ fd' = "unset" /\ ipc' = "gpio"
        /\ inbox' = << >>
    BY <1>6, Zenon DEF Restart, Start
  <2>2. SleepsLate' /\ created' \in BOOLEAN
    BY <2>1, Zenon
  <2>3. NoFramesBefore'
    BY <2>1, Zenon
  <2> QED  BY <2>2, <2>3, Zenon
<1> QED  BY <1>1, <1>2, <1>3, <1>4, <1>5, <1>6, Zenon DEF Next

(* What ends a wait is a frame only in notify_recv, with the port open.    *)
LEMMA AcknowledgedInTime ==
  ASSUME Timely, [Next]_vars, NEW m \in Msgs, endedBy'[m] # endedBy[m], endedBy'[m] \in Frames
  PROVE  LateInSecond(tp)
<1>1. CASE notify_recv /\ live
  <2>1. ipc = "notify"
    BY <1>1, Zenon DEF notify_recv
  <2>2. created
    BY <2>1, SMT DEF Timely, NoFramesBefore
  <2> QED  BY <1>1, <2>2, Zenon DEF Timely, SleepsLate
<1>2. CASE Timeout \/ SpuriousWake
  <2>1. PICK why \in {"timeout", "spurious"} : endedBy' = [endedBy EXCEPT ![emsg] = why]
    BY <1>2, Zenon DEF Timeout, SpuriousWake, EndWait
  <2>2. why \notin Frames
    BY <2>1, TransmitterAssumption, Zenon
  <2>3. endedBy'[m] \in {endedBy[m], why}
    BY <2>1, SMT
  <2> QED  BY <2>2, <2>3, SMT
<1>3. CASE UNCHANGED endedBy
  BY <1>3, Zenon
<1>4. \/ notify_recv /\ live
      \/ Timeout \/ SpuriousWake
      \/ UNCHANGED endedBy
  <2>1. CASE UNCHANGED vars
    BY <2>1, Zenon DEF vars, logVars
  <2>2. CASE \E n \in Msgs : transmit_msg(n)
    BY <2>2, Zenon DEF transmit_msg, logVars
  <2>3. CASE \E f \in Frames : PeerSends(f)
    BY <2>3, Zenon DEF PeerSends, logVars
  <2>4. CASE ExterStep
    BY <2>4, Zenon DEF ExterStep, open_inter_comm, recv_msg_from_inter, SendNoAck, SendSync,
       BeginWait, EndSend, logVars
  <2>5. CASE InterStep
    BY <2>5, Zenon DEF InterStep, init_gpio, create_ack_ayncer, iomon_get_frs485_fd,
       recv_msg_from_exter, send_msg_to_local, notify_recv, logVars
  <2>6. CASE Restart
    BY <2>6, Zenon DEF Restart, logVars
  <2> QED  BY <2>1, <2>2, <2>3, <2>4, <2>5, <2>6, Zenon DEF Next
<1> QED  BY <1>1, <1>2, <1>3, <1>4, Zenon

(* In no run of the daemon does a frame count as an acknowledgement unless *)
(* the clock was in the last 300 ms of a second when the wait began.       *)
THEOREM LateAcknowledgementsOnly == Spec => AcknowledgedLateInSecond
<1>1. Timely /\ [Next]_vars =>
        [\A m \in Msgs : endedBy'[m] # endedBy[m] /\ endedBy'[m] \in Frames =>
           LateInSecond(tp)]_vars
  BY AcknowledgedInTime
<1>2. Spec => []Timely
  BY TransmitterInit, TransmitterStep, PTL DEF Spec
<1> QED  BY <1>1, <1>2, PTL DEF Spec, AcknowledgedLateInSecond

-----------------------------------------------------------------------------
(* The daemon does what Relay says.                                        *)

(* The messages that are not written yet: the one in hand, and the queue.  *)
Waiting == Unwritten \o mq

LEMMA OneInFront ==
  ASSUME NEW S, NEW s \in Seq(S), NEW e \in S
  PROVE  /\ << >> \o s = s
         /\ <<e>> \o s \in Seq(S) /\ Len(<<e>> \o s) = Len(s) + 1 /\ <<e>> \o s # << >>
         /\ Head(<<e>> \o s) = e /\ Tail(<<e>> \o s) = s
         /\ Elems(<<e>> \o s) = Elems(s) \cup {e}
<1> DEFINE t == <<e>> \o s
<1>1. <<e>> \in Seq(S) /\ Len(<<e>>) = 1 /\ Len(s) \in Nat /\ <<e>>[1] = e
  BY SMT
<1>2. /\ t \in Seq(S) /\ Len(t) = Len(s) + 1 /\ t[1] = e
      /\ \A i \in 1 .. Len(s) : t[i + 1] = s[i]
  <2>1. /\ t \in Seq(S) /\ Len(t) = 1 + Len(s)
        /\ \A i \in 1 .. 1 + Len(s) : t[i] = IF i <= 1 THEN <<e>>[i] ELSE s[i - 1]
    BY <1>1, ConcatProperties, Zenon
  <2> HIDE DEF t
  <2>2. t[1] = e
    BY <1>1, <2>1, SMT
  <2>3. ASSUME NEW i \in 1 .. Len(s) PROVE t[i + 1] = s[i]
    <3>1. i + 1 \in 1 .. 1 + Len(s) /\ ~(i + 1 <= 1) /\ (i + 1) - 1 = i
      BY <1>1, SMT
    <3> QED  BY <2>1, <3>1, Zenon
  <2> QED  BY <1>1, <2>1, <2>2, <2>3, SMT
<1>3. << >> \o s = s
  BY ConcatEmptySeq
<1> HIDE DEF t
<1>4. t # << >>
  BY <1>1, <1>2, EmptySeq, SMT
<1>5. /\ Head(t) = e /\ Tail(t) \in Seq(S) /\ Len(Tail(t)) = Len(s)
      /\ \A i \in 1 .. Len(s) : Tail(t)[i] = s[i]
  BY <1>1, <1>2, <1>4, HeadTailProperties, SMT
<1>6. Tail(t) = s
  BY <1>5, SeqEqual, SMT
<1>7. Elems(t) = Elems(s) \cup {e}
  <2>1. DOMAIN t = 1 .. Len(s) + 1 /\ DOMAIN s = 1 .. Len(s)
    BY <1>2, LenProperties
  <2>2. e \in Elems(t) /\ Elems(s) \subseteq Elems(t)
    BY <1>1, <1>2, <2>1, SMT DEF Elems
  <2>3. ASSUME NEW i \in DOMAIN t PROVE t[i] \in Elems(s) \cup {e}
    <3>1. CASE i = 1
      BY <1>2, <3>1
    <3>2. CASE i # 1
      <4>1. i - 1 \in 1 .. Len(s) /\ (i - 1) + 1 = i
        BY <1>1, <2>1, <3>2, SMT
      <4>2. t[i] = s[i - 1]
        BY <1>2, <4>1, Zenon
      <4> QED  BY <2>1, <4>1, <4>2, Zenon DEF Elems
    <3> QED  BY <3>1, <3>2
  <2>4. Elems(t) \subseteq Elems(s) \cup {e}
    BY <2>3, Zenon DEF Elems
  <2> QED  BY <2>2, <2>4
<1> QED  BY <1>2, <1>3, <1>4, <1>5, <1>6, <1>7 DEF t

(* Only a message in hand is in front of the queue.                        *)
LEMMA WaitingIs ==
  ASSUME Typed
  PROVE  /\ Waiting \in Seq(Msgs)
         /\ epc # "send" => Waiting = mq
         /\ epc = "send" => /\ emsg \in Msgs /\ Waiting = <<emsg>> \o mq /\ Waiting # << >>
                            /\ Head(Waiting) = emsg /\ Tail(Waiting) = mq
         /\ Len(Waiting) <= Len(mq) + 1
         /\ Elems(Waiting) = Elems(mq) \cup (IF epc = "send" THEN {emsg} ELSE {})
<1>1. mq \in Seq(Msgs) /\ Len(mq) \in Nat /\ (epc = "send" => emsg \in Msgs)
  BY LenProperties, SMT DEF Typed, TransmitterTypeOK, InHand, InWork
<1>2. CASE epc = "send"
  <2>1. Waiting = <<emsg>> \o mq
    BY <1>2, Zenon DEF Waiting, Unwritten
  <2> QED  BY <1>1, <1>2, <2>1, OneInFront, SMT
<1>3. CASE epc # "send"
  <2>1. Waiting = << >> \o mq
    BY <1>3, Zenon DEF Waiting, Unwritten
  <2>2. << >> \o mq = mq
    BY <1>1, ConcatEmptySeq, Zenon
  <2> QED  BY <1>1, <1>3, <2>1, <2>2, SMT
<1> QED  BY <1>2, <1>3

(* Without one in hand, what waits after a step is the queue.              *)
LEMMA QueueAlone ==
  ASSUME mq \in Seq(Msgs), UNCHANGED mq, epc' # "send"
  PROVE  Waiting' = mq
<1>1. Unwritten' = << >>
  BY Zenon DEF Unwritten
<1>2. << >> \o mq = mq
  BY ConcatEmptySeq, Zenon
<1> QED  BY <1>1, <1>2, Zenon DEF Waiting

Arrived == IF ipc = "local" THEN <<imsg>> ELSE << >>

Lost == Elems(written) \ Elems(onLine)

LEMMA RelaySame ==
  ASSUME UNCHANGED <<mqdes, fd, written, onLine, handed>>, Waiting' = Waiting, Arrived' = Arrived
  PROVE  UNCHANGED TheRelay!relayVars
BY Zenon DEF TheRelay!relayVars, Waiting, Arrived, Lost

(* Each step of the daemon, its applications and the other card is a step  *)
(* of the relay, or none.                                                  *)
LEMMA RelayStep ==
  ASSUME AckInv, AckInv', NoFramesBefore, [Next]_vars
  PROVE  [TheRelay!RelayNext]_(TheRelay!relayVars)
<1> USE DEF AckInv
<1>0. /\ mq \in Seq(Msgs) /\ written \in Seq(Msgs) /\ onLine \in Seq(Msgs)
      /\ handed \in Seq(Frames)
      /\ inbox \in Seq(Frames) /\ Len(mq) <= MAX_MSG_NUM /\ Len(mq) \in Nat
      /\ MAX_MSG_NUM \in Nat
  BY LenProperties, TransmitterAssumption, SMT DEF Typed, TransmitterTypeOK
<1>1. ASSUME NEW m \in Msgs, transmit_msg(m)
      PROVE  TheRelay!Accept(m)
  <2>1. /\ m \notin accepted /\ Len(mq) < MAX_MSG_NUM /\ mq' = Append(mq, m)
        /\ UNCHANGED <<mqdes, fd, written, onLine, handed, epc, emsg, ipc, imsg>>
    BY <1>1, Zenon DEF transmit_msg, HasRoom, exterVars, interVars, logVars
  <2>2. Len(Waiting) < MAX_MSG_NUM + 1
    BY <1>0, <2>1, WaitingIs, LenProperties, SMT
  <2>3. m \notin Elems(Waiting) \cup Elems(onLine) \cup Lost
    <3>1. /\ Elems(Waiting) \subseteq accepted /\ Elems(written) \subseteq accepted
          /\ Elems(onLine) \subseteq accepted
      BY WaitingIs, SMT DEF Once, InWork
    <3> QED  BY <2>1, <3>1, Zenon DEF Lost
  <2>4. Waiting' = Append(Waiting, m)
    <3>1. Unwritten \in Seq(Msgs) /\ Unwritten' = Unwritten /\ <<m>> \in Seq(Msgs)
      BY <2>1, SMT DEF Unwritten, Typed, InHand, InWork
    <3>2. mq' = mq \o <<m>> /\ Append(Waiting, m) = Waiting \o <<m>>
      BY <1>0, <2>1, WaitingIs, AppendIsConcat, Zenon
    <3>3. (Unwritten \o mq) \o <<m>> = Unwritten \o (mq \o <<m>>)
      <4>1. mq \in Seq(Msgs)
        BY <1>0
      <4> QED  BY ONLY <3>1, <4>1, ConcatAssociative
    <3> QED  BY <3>1, <3>2, <3>3, Zenon DEF Waiting
  <2>5. Arrived' = Arrived
    BY <2>1, Zenon DEF Arrived
  <2>6. m \notin TheRelay!Elems(Waiting) \cup TheRelay!Elems(onLine) \cup Lost
    BY <2>3, Zenon DEF Elems, TheRelay!Elems
  <2> QED  BY <2>1, <2>2, <2>4, <2>5, <2>6, Zenon DEF TheRelay!Accept, Waiting, Arrived, Lost
<1>2. CASE open_inter_comm
  <2>1. /\ mqdes = "closed" /\ epc' = "recv" /\ epc = "open" /\ mqdes' \in {"open", "failed"}
        /\ UNCHANGED <<mq, fd, written, onLine, handed, emsg, ipc, imsg>>
    BY <1>2, SMT DEF open_inter_comm, Typed, InHand, queueVars, interVars, logVars
  <2>2. Waiting = mq /\ Waiting' = mq
    BY <1>0, <2>1, WaitingIs, QueueAlone, SMT
  <2>3. Arrived' = Arrived
    BY <2>1, Zenon DEF Arrived
  <2>4. CASE mqdes' = "open"
    BY <2>1, <2>2, <2>3, <2>4, SMT DEF TheRelay!Open, TheRelay!RelayNext, Waiting, Arrived, Lost
  <2>5. CASE mqdes' = "failed"
    BY <2>1, <2>2, <2>3, <2>5, SMT DEF TheRelay!relayVars, Waiting, Arrived, Lost
  <2> QED  BY <2>1, <2>4, <2>5
<1>3. CASE recv_msg_from_inter
  <2>1. /\ epc = "recv" /\ epc' = "send" /\ mq # << >> /\ emsg' = Head(mq) /\ mq' = Tail(mq)
        /\ UNCHANGED <<mqdes, fd, written, onLine, handed, ipc, imsg>>
    BY <1>3, Zenon DEF recv_msg_from_inter, interVars, logVars
  <2>2. Waiting = mq /\ Waiting' = <<Head(mq)>> \o Tail(mq)
    <3>1. Waiting = mq
      BY <2>1, WaitingIs, SMT
    <3>2. Unwritten' = <<Head(mq)>>
      BY <2>1, SMT DEF Unwritten
    <3> QED  BY <2>1, <3>1, <3>2, Zenon DEF Waiting
  <2>3. <<Head(mq)>> \o Tail(mq) = mq
    <3>1. /\ Head(mq) \in Msgs /\ Tail(mq) \in Seq(Msgs) /\ Head(mq) = mq[1]
          /\ Len(Tail(mq)) = Len(mq) - 1
          /\ \A i \in 1 .. Len(Tail(mq)) : Tail(mq)[i] = mq[i + 1]
      BY <1>0, <2>1, HeadTailProperties
    <3> DEFINE t == <<Head(mq)>> \o Tail(mq)
    <3>2. /\ t \in Seq(Msgs) /\ Len(t) = Len(mq) /\ t # << >>
          /\ Head(t) = mq[1] /\ Tail(t) = Tail(mq)
      BY <1>0, <3>1, OneInFront, SMT
    <3> HIDE DEF t
    <3>3. /\ Head(t) = t[1] /\ \A i \in 1 .. Len(Tail(t)) : Tail(t)[i] = t[i + 1]
      BY <3>2, HeadTailProperties
    <3>4. ASSUME NEW i \in 1 .. Len(t) PROVE t[i] = mq[i]
      <4>1. CASE i = 1
        BY <3>2, <3>3, <4>1
      <4>2. CASE i # 1
        <5>1. i - 1 \in 1 .. Len(Tail(mq)) /\ (i - 1) + 1 = i
          BY <1>0, <3>1, <3>2, <4>2, SMT
        <5> QED  BY <3>1, <3>2, <3>3, <5>1, Zenon
      <4> QED  BY <4>1, <4>2
    <3> QED  BY <1>0, <3>2, <3>4, SeqEqual DEF t
  <2>4. Arrived' = Arrived
    BY <2>1, Zenon DEF Arrived
  <2> QED  BY <2>1, <2>2, <2>3, <2>4, RelaySame, Zenon
<1>4. CASE SendNoAck \/ SendSync
  <2>1. /\ epc = "send" /\ epc' \in {"recv", "written"} /\ Write
        /\ UNCHANGED <<mq, mqdes, fd, handed, ipc, imsg>>
    BY <1>4, Zenon DEF SendNoAck, SendSync, queueVars, interVars
  <2>2. mqdes = "open" /\ Waiting # << >> /\ Head(Waiting) = emsg /\ Waiting' = Tail(Waiting)
    <3>1. mqdes = "open" /\ Waiting # << >> /\ Head(Waiting) = emsg /\ Tail(Waiting) = mq
      BY <2>1, WaitingIs, SMT DEF Typed, InHand
    <3>2. Waiting' = mq
      BY <1>0, <2>1, QueueAlone, SMT
    <3> QED  BY <3>1, <3>2
  <2>3. Arrived' = Arrived
    BY <2>1, Zenon DEF Arrived
  <2>4. emsg \in Msgs /\ emsg \notin Elems(written) /\ Elems(onLine) \subseteq Elems(written)
    BY <2>1, SMT DEF Typed, InHand, InWork, Once
  <2>5. Elems(written') = Elems(written) \cup {emsg}
    BY <1>0, <2>1, <2>4, WriteIs, Zenon
  <2>6. CASE fd = "line"
    <3>1. onLine' = Append(onLine, emsg) /\ Elems(onLine') = Elems(onLine) \cup {emsg}
      BY <1>0, <2>1, <2>4, <2>6, WriteIs, Zenon DEF Write
    <3>2. Lost' = Lost
      BY <2>4, <2>5, <3>1, Zenon DEF Lost
    <3> QED  BY <2>1, <2>2, <2>3, <2>6, <3>1, <3>2, Zenon
             DEF TheRelay!Put, TheRelay!RelayNext, Waiting, Arrived, Lost
  <2>7. CASE fd # "line"
    <3>1. onLine' = onLine
      BY <2>1, <2>7, Zenon DEF Write
    <3>2. Lost' = Lost \cup {emsg}
      BY <2>4, <2>5, <3>1, Zenon DEF Lost
    <3> QED  BY <2>1, <2>2, <2>3, <2>7, <3>1, <3>2, Zenon
             DEF TheRelay!Lose, TheRelay!RelayNext, Waiting, Arrived, Lost
  <2> QED  BY <2>6, <2>7
<1>5. CASE recv_msg_from_exter
  <2>1. /\ ipc = "read" /\ inbox # << >>
        /\ \/ ipc' = "local" /\ imsg' = Head(inbox) /\ Head(inbox) \in Passing
           \/ UNCHANGED <<ipc, imsg>>
        /\ UNCHANGED <<mq, epc, emsg, mqdes, fd, written, onLine, handed>>
    BY <1>5, Zenon DEF recv_msg_from_exter, queueVars, exterVars, logVars
  <2>2. Waiting' = Waiting
    BY <2>1, Zenon DEF Waiting, Unwritten
  <2>3. Head(inbox) \in Elems(inbox)
    BY <1>0, <2>1, ElemsOfTail, Zenon DEF Fresh
  <2>4. Head(inbox) \notin Elems(handed)
    BY <2>3, SMT DEF Fresh
  <2>5. Arrived = << >>
    BY <2>1, SMT DEF Arrived
  <2>6. CASE ipc' = "local" /\ imsg' = Head(inbox) /\ Head(inbox) \in Passing
    <3>1. Arrived' = Append(Arrived, Head(inbox))
      BY <2>5, <2>6, SMT DEF Arrived
    <3>2. Head(inbox) \notin TheRelay!Elems(Arrived) \cup TheRelay!Elems(handed)
      BY <2>4, <2>5, SMT DEF Elems, TheRelay!Elems
    <3>3. TheRelay!Arrive(Head(inbox))
      BY <2>1, <2>2, <3>1, <3>2, Zenon DEF TheRelay!Arrive, Waiting, Arrived, Lost
    <3> QED  BY <2>6, <3>3, Zenon DEF TheRelay!RelayNext
  <2>7. CASE UNCHANGED <<ipc, imsg>>
    <3>1. Arrived' = Arrived
      BY <2>7, Zenon DEF Arrived
    <3> QED  BY <2>1, <2>2, <3>1, RelaySame, Zenon
  <2> QED  BY <2>1, <2>6, <2>7
<1>6. CASE send_msg_to_local
  <2>1. /\ ipc = "local" /\ ipc' = "notify" /\ handed' = Append(handed, imsg)
        /\ UNCHANGED <<mq, epc, emsg, mqdes, fd, written, onLine>>
    BY <1>6, Zenon DEF send_msg_to_local, queueVars, exterVars, logVars
  <2>2. Waiting' = Waiting
    BY <2>1, Zenon DEF Waiting, Unwritten
  <2>3. /\ Arrived = <<imsg>> /\ Arrived' = << >> /\ Arrived # << >>
        /\ Head(Arrived) = imsg /\ Tail(Arrived) = << >>
    BY <2>1, SMT DEF Arrived
  <2> QED  BY <2>1, <2>2, <2>3, Zenon DEF TheRelay!Pass, TheRelay!RelayNext, Waiting, Arrived, Lost
<1>7. CASE Restart
  <2>1. /\ mqdes' = "closed" /\ fd' = "unset" /\ epc' = "open" /\ ipc' = "gpio"
        /\ UNCHANGED <<mq, written, onLine, handed>>
    BY <1>7, Zenon DEF Restart, Start, queueVars, logVars
  <2>2. Waiting' = mq /\ Waiting' \in {Waiting} \cup {Tail(w) : w \in {Waiting} \ {<< >>}}
    <3>1. Waiting' = mq
      BY <1>0, <2>1, QueueAlone, SMT
    <3>2. Waiting = mq \/ (Waiting # << >> /\ Tail(Waiting) = mq)
      BY WaitingIs, SMT
    <3> QED  BY <3>1, <3>2, Zenon
  <2>3. Arrived' = << >> /\ (mqdes' = "open") = FALSE /\ (fd' = "line") = FALSE
    BY <2>1, SMT DEF Arrived
  <2> QED  BY <2>1, <2>2, <2>3, Zenon DEF TheRelay!Restart, TheRelay!RelayNext, Waiting, Arrived, Lost
<1>8. CASE \/ UNCHANGED vars \/ BeginWait \/ Timeout \/ SpuriousWake \/ EndSend
           \/ \E f \in Frames : PeerSends(f)
           \/ init_gpio \/ create_ack_ayncer \/ notify_recv
  <2>1. UNCHANGED <<mq, mqdes, fd, written, onLine, handed>>
    BY <1>8, Zenon DEF vars, BeginWait, Timeout, SpuriousWake, EndWait, EndSend, PeerSends,
       init_gpio, create_ack_ayncer, notify_recv, queueVars, exterVars,
       interVars, logVars
  <2>2. \/ UNCHANGED <<epc, emsg>>
        \/ epc \in {"written", "wait", "relock"} /\ epc' \in {"wait", "relock", "recv"}
    BY <1>8, Zenon DEF vars, BeginWait, Timeout, SpuriousWake, EndWait, EndSend, PeerSends,
       init_gpio, create_ack_ayncer, notify_recv, exterVars
  <2>3. \/ UNCHANGED <<ipc, imsg>>
        \/ ipc \in {"gpio", "create", "serial", "notify"} /\ ipc' \in {"create", "serial", "read"}
    BY <1>8, Zenon DEF vars, BeginWait, Timeout, SpuriousWake, EndWait, EndSend, PeerSends,
       init_gpio, create_ack_ayncer, notify_recv, NotifyDone, interVars
  <2>4. Waiting' = Waiting
    BY <2>1, <2>2, SMT DEF Waiting, Unwritten
  <2>5. Arrived' = Arrived
    BY <2>3, SMT DEF Arrived
  <2> QED  BY <2>1, <2>4, <2>5, RelaySame, Zenon
<1>12. CASE iomon_get_frs485_fd
  <2>1. /\ ipc = "serial" /\ ipc' = "read" /\ fd' \in {"line", "failed"}
        /\ UNCHANGED <<mq, mqdes, written, onLine, handed, epc, emsg, imsg>>
    BY <1>12, SMT DEF iomon_get_frs485_fd, queueVars, exterVars, logVars
  <2>2. Waiting' = Waiting /\ Arrived' = Arrived /\ Lost' = Lost
    BY <2>1, SMT DEF Waiting, Unwritten, Arrived, Lost
  <2>3. fd = "unset"
    BY <2>1, Zenon DEF NoFramesBefore
  <2>4. CASE fd' = "line"
    <3>1. ~(fd = "line") /\ (fd' = "line") = TRUE
      BY <2>3, <2>4, SMT
    <3> QED  BY <2>1, <2>2, <3>1, Zenon
             DEF TheRelay!OpenLine, TheRelay!RelayNext, Waiting, Arrived, Lost
  <2>5. CASE fd' = "failed"
    <3>1. (fd' = "line") = (fd = "line")
      BY <2>3, <2>5, SMT
    <3> QED  BY <2>1, <2>2, <3>1, Zenon DEF TheRelay!relayVars, Waiting, Arrived, Lost
  <2> QED  BY <2>1, <2>4, <2>5
<1>9. ExterStep \/ SpuriousWake => [TheRelay!RelayNext]_(TheRelay!relayVars)
  BY <1>2, <1>3, <1>4, <1>8, Zenon DEF ExterStep
<1>10. InterStep => [TheRelay!RelayNext]_(TheRelay!relayVars)
  BY <1>5, <1>6, <1>8, <1>12, Zenon DEF InterStep
<1>11. (\E m \in Msgs : transmit_msg(m)) => TheRelay!RelayNext
  BY <1>1, Zenon DEF TheRelay!RelayNext
<1> QED  BY <1>7, <1>8, <1>9, <1>10, <1>11, Zenon DEF Next

(* The daemon neither duplicates nor reorders what it accepted, and loses  *)
(* a message only while the serial port is not open, and the message and   *)
(* the frame in hand at a restart: it implements the safety part of Relay. *)
THEOREM DaemonRelays ==
  Spec => TheRelay!RelayInit /\ [][TheRelay!RelayNext]_(TheRelay!relayVars)
<1>1. Init => TheRelay!RelayInit
  <2> SUFFICES ASSUME Init PROVE TheRelay!RelayInit
    OBVIOUS
  <2>1. /\ mq = << >> /\ written = << >> /\ onLine = << >> /\ handed = << >>
        /\ epc = "open" /\ ipc = "gpio" /\ mqdes = "closed" /\ fd = "unset"
    BY Zenon DEF Init, Start
  <2>2. /\ Waiting = << >> /\ Arrived = << >>
        /\ (mqdes = "open") = FALSE /\ (fd = "line") = FALSE
    BY <2>1, ConcatEmptySeq, EmptySeq, SMT DEF Waiting, Unwritten, Arrived
  <2>3. Lost = {}
    BY <2>1, ElemsOfNone, Zenon DEF Lost
  <2> QED  BY <2>1, <2>2, <2>3, Zenon DEF TheRelay!RelayInit, Waiting, Arrived, Lost
<1>2. AckInv /\ AckInv' /\ Timely /\ [Next]_vars =>
        [TheRelay!RelayNext]_(TheRelay!relayVars)
  BY RelayStep DEF Timely
<1>3. Spec => []Timely
  BY TransmitterInit, TransmitterStep, PTL DEF Spec
<1> QED  BY <1>1, <1>2, <1>3, AcksInvariant, PTL DEF Spec

=============================================================================
