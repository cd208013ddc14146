------------------------------- MODULE Sender -------------------------------
(***************************************************************************)
(* One message on its way: from the sending functions of app/msg_sender.c, *)
(* with the packaging and routing of app/msg_util.c, to a process of the   *)
(* same card, or through the daemon, the line and the daemon of the card   *)
(* it is for to a process there.  Both cards run this program.             *)
(*                                                                         *)
(* Waiting, losses and failing system calls are left to Transmitter and    *)
(* Startup, receiving byte by byte to RxParser: here everything succeeds   *)
(* that can, and the question is what becomes of the message itself.       *)
(***************************************************************************)
EXTENDS OldFrame

CONSTANTS
  Events,     (* event numbers                                            *)
  Places,     (* destinations, as << shelf, card, pid >>                  *)
  Data,       (* what an application sends: sequences of bytes            *)
  CmdTypes,   (* cmd_type of ctc_send_old_msg                             *)
  SELF,       (* << shelf, card >> of the sender, << 1, 1 >> in hw_info.c *)
  SELF_PID,   (* self_pid of the sending process                          *)
  COMM_MATRIX,(* processes with a socket, the same on both cards          *)
  CheckMayPass, (* may msg_check succeed?  In this build it never does    *)
  NULL

ASSUME SenderAssumption ==
  /\ Events \subseteq Words
  /\ Places \subseteq Bytes \X Bytes \X Bytes
  /\ \A d \in Data : d \in Seq(Bytes)
  /\ CmdTypes \subseteq Bytes
  /\ SELF \in Bytes \X Bytes /\ SELF_PID \in Bytes
  /\ COMM_MATRIX \subseteq Bytes
  /\ CheckMayPass \in BOOLEAN

MAX_BODY_LEN == 4096
MAX_EXT_MSG_LEN == 256

VARIABLES
  signed,    (* is char signed on this platform?                          *)
  at,        (* where the message is                                      *)
  api,       (* the function that was called, and its arguments: event,   *)
  event,     (*   destination, data, acknowledgement, type of command     *)
  dst,
  data,
  ack,
  cmd_type,
  result,    (* what the function returned                                *)
  msg,       (* the package, wherever it is                               *)
  frame      (* the frame on the line, if it is of the old protocol       *)

args == <<signed, api, event, dst, data, ack, cmd_type>>
vars == <<args, at, result, msg, frame>>

(* ctc_send_sync_msg and ctc_send_asyn_msg are "msg" with either ack.      *)
Init ==
  /\ signed \in BOOLEAN
  /\ api \in {"msg", "old", "inter"}
  /\ event \in Events /\ data \in Data /\ ack \in {0, 1}
  /\ dst \in IF api = "inter" THEN {SELF \o <<p[3]>> : p \in Places} ELSE Places
  /\ cmd_type \in IF api = "old" THEN CmdTypes ELSE {0}
  /\ at = "call" /\ result = "none" /\ msg = NULL /\ frame = NULL

-----------------------------------------------------------------------------
(* In the sending process.                                                 *)

(* The exclusive or of the header and of the data, as what it covers.      *)
calc_msg_xor(m) ==
  <<m.protocol_type, m.shelf, m.card, m.pid, m.cmd_type_old, m.event, m.ack_flag, m.src,
    m.total_len, m.data>>

(* Mutant: the checksum comes before the length.                           *)
FcsBeforeLength ==
  LET m == [protocol_type |-> 0, shelf |-> dst[1], card |-> dst[2],
            pid |-> dst[3], cmd_type_old |-> 0, event |-> event, ack_flag |-> ack,
            src |-> SELF \o <<SELF_PID>>, total_len |-> 0, data |-> data, fcs |-> 0]
  IN [m EXCEPT !.fcs = calc_msg_xor(m), !.total_len = HEAD_LEN + FCS_LEN + Len(data)]

(* The checksum is computed when protocol_type and cmd_type_old are zero.  *)
package_msg ==
  LET m == [protocol_type |-> 0, shelf |-> dst[1], card |-> dst[2],
            pid |-> dst[3], cmd_type_old |-> 0, event |-> event, ack_flag |-> ack,
            src |-> SELF \o <<SELF_PID>>, total_len |-> HEAD_LEN + FCS_LEN + Len(data),
            data |-> data, fcs |-> 0]
  IN [m EXCEPT !.fcs = calc_msg_xor(m)]

package_new_ptp_msg == [package_msg EXCEPT !.protocol_type = NEW_PTP]

package_old_ptp_msg ==
  [package_msg EXCEPT !.protocol_type = OLD_PTP, !.cmd_type_old = cmd_type]

(* Mutant: both numbers have to differ.                                    *)
is_cross_shelf_and_dev == dst[1] # SELF[1] /\ dst[2] # SELF[2]

is_cross_dev == ~(dst[1] = SELF[1] /\ dst[2] = SELF[2])

Finish(place, r, m) ==
  /\ at' = place
  /\ result' = r
  /\ msg' = m
  /\ UNCHANGED <<args, frame>>

Refuse == Finish("nowhere", "FAILED", NULL)

(* transmit_msg: the message waits in the queue for the daemon.            *)
ToQueue(m) == Finish("queue", "SUCCESS", m)

(* send_msg_to_local: only processes in comm_matrix have a socket.         *)
ToLocal(m) ==
  IF dst[3] \in COMM_MATRIX THEN Finish("process", "SUCCESS", m) ELSE Refuse

(* ctc_send_inter_msg is the same with the own card for a destination.     *)
ctc_send_msg ==
  /\ at = "call" /\ api \in {"msg", "inter"}
  /\ \/ Len(data) > MAX_BODY_LEN /\ Refuse
     \/ /\ Len(data) <= MAX_BODY_LEN
        /\ is_cross_dev
        /\ IF Len(data) > MAX_EXT_MSG_LEN THEN Refuse ELSE ToQueue(package_new_ptp_msg)
     \/ /\ Len(data) <= MAX_BODY_LEN
        /\ ~is_cross_dev
        /\ ToLocal(package_new_ptp_msg)

(* An old message takes the line whatever its destination.                 *)
ctc_send_old_msg ==
  /\ at = "call" /\ api = "old"
  /\ IF Len(data) > MAX_BODY_LEN \/ Len(data) > MAX_EXT_MSG_LEN
       THEN Refuse
       ELSE ToQueue(package_old_ptp_msg)

-----------------------------------------------------------------------------
(* In the daemon of the sending card, and in that of the other one.        *)

(* A new message is sent as it is, total_len bytes of it.                  *)
send_msg_to_remote ==
  /\ at = "queue"
  /\ at' = IF msg.protocol_type = OLD_PTP /\ CopyDies(signed, LenByte(msg))
             THEN "crashed" ELSE "line"
  /\ frame' = IF at' = "line" /\ msg.protocol_type = OLD_PTP
                THEN convert_new_to_old(msg) ELSE frame
  /\ UNCHANGED <<args, result, msg>>

(* The package the other card makes of it.                                 *)
try_recv_full_msg ==
  /\ at = "line"
  /\ at' = IF msg.protocol_type = OLD_PTP /\ CopyDies(signed, frame.frame.len)
             THEN "crashed" ELSE "received"
  /\ msg' = IF at' = "received" /\ msg.protocol_type = OLD_PTP
              THEN convert_old_to_new(signed, frame) ELSE msg
  /\ UNCHANGED <<args, result, frame>>

(* Whether it succeeds is a free choice: it depends on the number of the   *)
(* own card, not on the message.                                           *)
msg_check ==
  /\ at = "received"
  /\ at' \in {"nowhere"} \cup {p \in {"peer"} : CheckMayPass}
  /\ UNCHANGED <<args, result, msg, frame>>

(* inter_transmitter passes it on.                                         *)
inter_transmitter ==
  /\ at = "peer"
  /\ at' = IF msg.pid \in COMM_MATRIX THEN "peer_process" ELSE "nowhere"
  /\ UNCHANGED <<args, result, msg, frame>>

Next ==
  \/ ctc_send_msg \/ ctc_send_old_msg
  \/ send_msg_to_remote \/ try_recv_full_msg \/ msg_check \/ inter_transmitter

Spec == Init /\ [][Next]_vars /\ WF_vars(Next)

-----------------------------------------------------------------------------
(* Properties.                                                             *)

Final == {"nowhere", "process", "peer_process", "crashed"}

(* The message is somewhere, and the call returns as it leaves; what waits *)
(* in the queue or reached a local process says how long its data is.      *)
SenderTypeOK ==
  /\ at \in {"call", "queue", "line", "received", "peer"} \cup Final
  /\ result \in {"none", "SUCCESS", "FAILED"} /\ (result = "none" <=> at = "call")
  /\ at \in {"queue", "process"} =>
       msg.total_len \in Words /\ get_msg_len_from_pkg(msg) = Len(data)

(* A new message that is received is on the card it was addressed to, and  *)
(* if by a process, by that one; it holds the event, the data and the      *)
(* sender that were given to the sending function, and a checksum that is  *)
(* right although it was computed before protocol_type was set.  This is   *)
(* also so of any message that reaches a process.                          *)
DeliveredAsSent ==
  at \in {"process", "peer_process"} \/ (at = "received" /\ api # "old") =>
    /\ at = "process" <=> <<dst[1], dst[2]>> = SELF
    /\ <<msg.shelf, msg.card, msg.pid>> = dst
    /\ msg.event = event /\ msg.data = data /\ msg.src = SELF \o <<SELF_PID>>
    /\ msg.fcs = calc_msg_xor(msg)

(* A convertible old message crashes neither daemon, and is received with  *)
(* its command, its type, its data and the checksum that a receiver will   *)
(* compute.                                                                *)
OldArrivesIntact ==
  api = "old" /\ Convertible(signed, event, data) =>
    /\ at # "crashed"
    /\ at = "received" =>
         /\ msg.event = event /\ msg.cmd_type_old = cmd_type /\ msg.data = data
         /\ <<msg.shelf, msg.card>> = <<dst[1], dst[2]>>
         /\ msg.fcs = CheckSum(msg)

(* A call with a new message returns, and a message it accepted reaches    *)
(* its process on this card or is received on the other one; one that it   *)
(* refused goes nowhere.                                                   *)
AcceptedIsDelivered ==
  at = "call" /\ api # "old" ~>
    \/ result = "FAILED" /\ at = "nowhere"
    \/ result = "SUCCESS"
         /\ at = IF <<dst[1], dst[2]>> = SELF THEN "process" ELSE "received"

=============================================================================
