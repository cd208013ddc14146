---------------------------- MODULE SenderProofs ----------------------------
(***************************************************************************)
(* What arrives is what was sent, for every destination, event and         *)
(* content: of the old protocol on platforms of either kind, if it can be  *)
(* converted at all, and of the new protocol as far as a process.          *)
(***************************************************************************)
EXTENDS Sender, SequenceTheorems, TLAPS

-----------------------------------------------------------------------------
(* Both conversions of the old protocol together.                          *)

(* A package as package_old_ptp_msg makes it.                              *)
Packaged(pkg) ==
  /\ pkg.event \in Words
  /\ pkg.data \in Seq(Bytes)
  /\ pkg.total_len = HEAD_LEN + FCS_LEN + Len(pkg.data)

(* A small length survives in a byte, in a char and in total_len.          *)
LEMMA SmallLength ==
  ASSUME NEW sign \in BOOLEAN, NEW n \in Nat, n <= LongestData(sign)
  PROVE  /\ n \in 0 .. 248
         /\ Byte(n) = n
         /\ Word(HEAD_LEN + FCS_LEN + n - HEAD_LEN - FCS_LEN) = n
         /\ Word(n + HEAD_LEN + FCS_LEN - HEAD_LEN - FCS_LEN) = n
         /\ ~CopyDies(sign, n)
         /\ CheckSumOffset(n) = FRAME_DATA_OFFSET + n
<1>1. n \in 0 .. 248 /\ (sign => n <= 127)
  BY SMT DEF LongestData
<1>2. Byte(n) = n
  BY <1>1, SMT DEF Byte
<1>3. /\ Word(HEAD_LEN + FCS_LEN + n - HEAD_LEN - FCS_LEN) = n
      /\ Word(n + HEAD_LEN + FCS_LEN - HEAD_LEN - FCS_LEN) = n
  BY <1>1, SMT DEF Word, HEAD_LEN, FCS_LEN
<1>4. ~CopyDies(sign, n)
  BY <1>1, SMT DEF CopyDies, AsInt
<1>5. CheckSumOffset(n) = FRAME_DATA_OFFSET + n
  BY <1>1, SMT DEF CheckSumOffset, Byte, FRAME_DATA_OFFSET
<1> QED  BY <1>1, <1>2, <1>3, <1>4, <1>5, Zenon

(* The event number is read back as it was.                                *)
LEMMA EventSurvives ==
  ASSUME NEW sign \in BOOLEAN, NEW e \in Words,
         e <= LargestEvent(sign)
  PROVE  AsWord(sign, Byte(e)) = e /\ Byte(Byte(e)) = Byte(e)
<1>1. e \in 0 .. 255 /\ (sign => e <= 127)
  BY SMT DEF LargestEvent, Words
<1>2. Byte(e) = e
  BY <1>1, SMT DEF Byte
<1>3. AsInt(sign, e) = e /\ Word(e) = e
  BY <1>1, SMT DEF AsInt, Word
<1> QED  BY <1>2, <1>3, Zenon DEF AsWord

(* The length byte of a frame made of a convertible package is the length  *)
(* of its data, and neither copy dies of it.                               *)
LEMMA LengthSurvives ==
  ASSUME NEW sign \in BOOLEAN, NEW pkg, Packaged(pkg), Convertible(sign, pkg.event, pkg.data)
  PROVE  /\ Len(pkg.data) \in Nat
         /\ Len(pkg.data) <= LongestData(sign)
         /\ get_msg_len_from_pkg(pkg) = Len(pkg.data)
         /\ LenByte(pkg) = Len(pkg.data)
         /\ ~CopyDies(sign, LenByte(pkg))
<1>1. /\ pkg.data \in Seq(Bytes)
      /\ pkg.total_len = HEAD_LEN + FCS_LEN + Len(pkg.data)
  BY Zenon DEF Packaged
<1>2. Len(pkg.data) <= LongestData(sign)
  BY Zenon DEF Convertible
<1>3. Len(pkg.data) \in Nat
  BY <1>1, LenProperties, Zenon
<1>4. get_msg_len_from_pkg(pkg) = Len(pkg.data)
  <2>1. Word(HEAD_LEN + FCS_LEN + Len(pkg.data) - HEAD_LEN - FCS_LEN) = Len(pkg.data)
    BY <1>2, <1>3, SmallLength, Zenon
  <2> QED  BY <1>1, <1>3, <2>1, SMT DEF get_msg_len_from_pkg, HEAD_LEN, FCS_LEN
<1>5. LenByte(pkg) = Len(pkg.data)
  BY <1>2, <1>3, <1>4, SmallLength, Zenon DEF LenByte
<1>6. ~CopyDies(sign, Len(pkg.data))
  BY <1>2, <1>3, SmallLength, Zenon
<1> QED  BY <1>2, <1>3, <1>4, <1>5, <1>6, SMT

(* Both conversions together keep the address, the command, its type and   *)
(* the data of a convertible package, and the checksum of the frame is the *)
(* one msg_check computes of the package that comes out.                   *)
THEOREM RoundTrip ==
  ASSUME NEW sign \in BOOLEAN, NEW pkg, Packaged(pkg), Convertible(sign, pkg.event, pkg.data),
         NEW m, m = convert_old_to_new(sign, convert_new_to_old(pkg))
  PROVE  /\ m.event = pkg.event /\ m.data = pkg.data /\ m.cmd_type_old = pkg.cmd_type_old
         /\ m.shelf = pkg.shelf /\ m.card = pkg.card
         /\ m.fcs = CheckSum(m)
<1> DEFINE n == Len(pkg.data)
           old == convert_new_to_old(pkg)
<1>1. /\ n \in Nat /\ n <= LongestData(sign)
      /\ LenByte(pkg) = n
  BY LengthSurvives, Zenon
<1>2. /\ old.frame = [shelf |-> pkg.shelf, card |-> pkg.card, cmd_type_old |-> pkg.cmd_type_old,
                      event |-> Byte(pkg.event), len |-> n, data |-> pkg.data]
      /\ old.sum = Sum(old.frame, n)
  <2>1. SubSeq(pkg.data, 1, n) = pkg.data
    BY SubSeqFull, Zenon DEF Packaged
  <2> QED  BY <1>1, <2>1 DEF convert_new_to_old
<1> HIDE DEF old
<1>3. m.event = pkg.event /\ Byte(Byte(pkg.event)) = Byte(pkg.event)
  <2>1. pkg.event \in Words
    BY Zenon DEF Packaged
  <2>2. pkg.event <= LargestEvent(sign)
    BY Zenon DEF Convertible
  <2>3. m.event = AsWord(sign, Byte(pkg.event))
    BY <1>2, SMT DEF convert_old_to_new, old
  <2> QED  BY <2>1, <2>2, <2>3, EventSurvives, Zenon
<1>4. /\ m.data = pkg.data /\ m.cmd_type_old = pkg.cmd_type_old
      /\ m.shelf = pkg.shelf /\ m.card = pkg.card
      /\ m.total_len = n + HEAD_LEN + FCS_LEN
      /\ m.fcs = ByteAt(old, CheckSumOffset(n))
  BY <1>2 DEF convert_old_to_new, old
<1>5. m.fcs = Sum(old.frame, n)
  <2>1. CheckSumOffset(n) = FRAME_DATA_OFFSET + n
    BY <1>1, SmallLength, Zenon
  <2>2. ByteAt(old, FRAME_DATA_OFFSET + n) = old.sum
    <3>1. old.frame.len = n
      BY <1>2
    <3>2. ~(FRAME_DATA_OFFSET + n < FRAME_DATA_OFFSET) /\ ~(FRAME_DATA_OFFSET + n < FRAME_DATA_OFFSET + n)
      BY <1>1, SMT DEF FRAME_DATA_OFFSET
    <3> QED  BY <3>1, <3>2, Zenon DEF ByteAt
  <2> QED  BY <1>2, <1>4, <2>1, <2>2
<1>6. CheckSum(m) = Sum(m, n)
  <2>1. get_msg_len_from_pkg(m) = n
    <3>1. Word(n + HEAD_LEN + FCS_LEN - HEAD_LEN - FCS_LEN) = n
      BY <1>1, SmallLength, Zenon
    <3> QED  BY <1>1, <1>4, <3>1, SMT DEF get_msg_len_from_pkg, HEAD_LEN, FCS_LEN
  <2> QED  BY <2>1, Zenon DEF CheckSum
<1>7. Sum(m, n) = Sum(old.frame, n)
  BY <1>2, <1>3, <1>4, SMT DEF Sum
<1> QED  BY <1>3, <1>4, <1>5, <1>6, <1>7

-----------------------------------------------------------------------------
(* The way of an old message.                                              *)

(* What is known of an old message in each place.  The arguments stay what *)
(* they were, so the package can always be made again from them.           *)
OldOnItsWay ==
  /\ at = "queue" => msg = package_old_ptp_msg
  /\ at = "line" => msg = package_old_ptp_msg /\ frame = convert_new_to_old(msg)
  /\ at = "received" =>
       msg = convert_old_to_new(signed, convert_new_to_old(package_old_ptp_msg))
  /\ Convertible(signed, event, data) => at # "crashed"

ArgsOK == signed \in BOOLEAN /\ event \in Words /\ data \in Seq(Bytes)

OldInv == ArgsOK /\ (api = "old" => OldOnItsWay)

(* The fields of a package of the old protocol.                            *)
LEMMA PackageOfArgs ==
  ASSUME ArgsOK
  PROVE  LET p == package_old_ptp_msg IN
         /\ p.event = event /\ p.data = data /\ p.cmd_type_old = cmd_type
         /\ p.shelf = dst[1] /\ p.card = dst[2]
         /\ p.protocol_type = OLD_PTP
         /\ Packaged(p)
<1> DEFINE p == package_old_ptp_msg
<1>1. /\ p.event = event /\ p.data = data /\ p.cmd_type_old = cmd_type
      /\ p.shelf = dst[1] /\ p.card = dst[2]
      /\ p.protocol_type = OLD_PTP
      /\ p.total_len = HEAD_LEN + FCS_LEN + Len(data)
  BY SMT DEF package_old_ptp_msg, package_msg
<1> HIDE DEF p
<1>2. Packaged(p)
  BY <1>1, Zenon DEF Packaged, ArgsOK
<1> QED  BY <1>1, <1>2 DEF p

LEMMA OldInit == Init => OldInv
<1> SUFFICES ASSUME Init PROVE OldInv
  OBVIOUS
<1>1. ArgsOK
  BY SenderAssumption, Zenon DEF Init, ArgsOK
<1>2. at = "call"
  BY Zenon DEF Init
<1> QED  BY <1>1, <1>2, SMT DEF OldInv, OldOnItsWay

(* While the arguments stay, so does the package.                          *)
LEMMA SameArgs ==
  ASSUME UNCHANGED args
  PROVE  /\ package_old_ptp_msg' = package_old_ptp_msg
         /\ signed' = signed /\ event' = event /\ data' = data /\ api' = api
         /\ ArgsOK' <=> ArgsOK
BY SMT DEF args, package_old_ptp_msg, package_msg, ArgsOK

(* No step changes what the sending function was given.                    *)
LEMMA ArgsStay ==
  ASSUME [Next]_vars
  PROVE  UNCHANGED args
<1>1. ctc_send_msg => UNCHANGED args
  BY Zenon DEF ctc_send_msg, Finish, Refuse, ToQueue, ToLocal
<1>2. ctc_send_old_msg => UNCHANGED args
  BY Zenon DEF ctc_send_old_msg, Finish, Refuse, ToQueue
<1>3. send_msg_to_remote \/ try_recv_full_msg \/ msg_check \/ inter_transmitter => UNCHANGED args
  BY Zenon DEF send_msg_to_remote, try_recv_full_msg, msg_check, inter_transmitter
<1>4. UNCHANGED vars => UNCHANGED args
  BY Zenon DEF vars
<1> QED  BY <1>1, <1>2, <1>3, <1>4, Zenon DEF Next

(* The argument, one case per action: both copies use the length byte of   *)
(* the package that the arguments make.                                    *)
LEMMA OldStep == OldInv /\ [Next]_vars => OldInv'
<1> SUFFICES ASSUME OldInv, [Next]_vars PROVE OldInv'
  OBVIOUS
<1>1. UNCHANGED args
  BY ArgsStay
<1>2. ArgsOK /\ ArgsOK'
  BY <1>1, SameArgs, Zenon DEF OldInv
<1> SUFFICES ASSUME api = "old" PROVE OldOnItsWay'
  BY <1>1, <1>2, SameArgs, Zenon DEF OldInv
<1>3. OldOnItsWay
  BY Zenon DEF OldInv
<1> DEFINE p == package_old_ptp_msg
           old == convert_new_to_old(p)
<1>4. Convertible(signed, event, data) => ~CopyDies(signed, LenByte(p))
  BY <1>2, PackageOfArgs, LengthSurvives, Zenon DEF ArgsOK
<1>5. old.frame.len = LenByte(p)
  BY SMT DEF convert_new_to_old
<1>6. p.protocol_type = OLD_PTP /\ p' = p
  BY <1>1, <1>2, PackageOfArgs, SameArgs, Zenon
<1>7. CASE UNCHANGED vars
  BY <1>3, <1>6, <1>7, SMT DEF OldOnItsWay, vars, args
<1>8. CASE ctc_send_msg
  BY <1>8, Zenon DEF ctc_send_msg
<1>9. CASE ctc_send_old_msg
  <2>1. \/ at' = "nowhere"
        \/ at' = "queue" /\ msg' = p
    BY <1>9, SMT DEF ctc_send_old_msg, Refuse, ToQueue, Finish
  <2> QED  BY <1>6, <2>1, SMT DEF OldOnItsWay
<1>10. CASE send_msg_to_remote
  <2>1. at = "queue" /\ msg = p /\ msg' = p
    BY <1>3, <1>10, SMT DEF OldOnItsWay, send_msg_to_remote
  <2>2. CASE CopyDies(signed, LenByte(p))
    <3>1. at' = "crashed"
      BY <1>6, <1>10, <2>1, <2>2, Zenon DEF send_msg_to_remote
    <3>2. ~Convertible(signed, event, data)'
      BY <1>1, <1>4, <2>2, SameArgs, SMT
    <3> QED  BY <3>1, <3>2, SMT DEF OldOnItsWay
  <2>3. CASE ~CopyDies(signed, LenByte(p))
    <3>1. at' = "line"
      BY <1>6, <1>10, <2>1, <2>3, Zenon DEF send_msg_to_remote
    <3>2. frame' = old
      BY <1>6, <1>10, <2>1, <3>1, Zenon DEF send_msg_to_remote
    <3> QED  BY <1>6, <2>1, <3>1, <3>2, SMT DEF OldOnItsWay
  <2> QED  BY <2>2, <2>3
<1>11. CASE try_recv_full_msg
  <2>1. at = "line" /\ msg = p /\ frame = old
    BY <1>3, <1>11, SMT DEF OldOnItsWay, try_recv_full_msg
  <2>2. CASE CopyDies(signed, LenByte(p))
    <3>1. at' = "crashed"
      BY <1>5, <1>6, <1>11, <2>1, <2>2, Zenon DEF try_recv_full_msg
    <3>2. ~Convertible(signed, event, data)'
      BY <1>1, <1>4, <2>2, SameArgs, SMT
    <3> QED  BY <3>1, <3>2, SMT DEF OldOnItsWay
  <2>3. CASE ~CopyDies(signed, LenByte(p))
    <3>1. at' = "received"
      BY <1>5, <1>6, <1>11, <2>1, <2>3, Zenon DEF try_recv_full_msg
    <3>2. msg' = convert_old_to_new(signed, old)
      BY <1>6, <1>11, <2>1, <3>1, Zenon DEF try_recv_full_msg
    <3>3. signed' = signed
      BY <1>1, SameArgs
    <3> QED  BY <1>6, <3>1, <3>2, <3>3, SMT DEF OldOnItsWay
  <2> QED  BY <2>2, <2>3
<1>12. CASE msg_check
  <2>1. at' \in {"nowhere", "peer"}
    BY <1>12, SMT DEF msg_check
  <2> QED  BY <2>1, SMT DEF OldOnItsWay
<1>13. CASE inter_transmitter
  <2>1. at' \in {"nowhere", "peer_process"}
    BY <1>13, Zenon DEF inter_transmitter
  <2> QED  BY <2>1, SMT DEF OldOnItsWay
<1> QED  BY <1>7, <1>8, <1>9, <1>10, <1>11, <1>12, <1>13, Zenon DEF Next

(* What is received is the result of both conversions.                     *)
LEMMA OldFollows == OldInv => OldArrivesIntact
<1> SUFFICES ASSUME OldInv, api = "old", Convertible(signed, event, data)
             PROVE  /\ at # "crashed"
                    /\ at = "received" =>
                         /\ msg.event = event /\ msg.cmd_type_old = cmd_type
                         /\ msg.data = data
                         /\ <<msg.shelf, msg.card>> = <<dst[1], dst[2]>>
                         /\ msg.fcs = CheckSum(msg)
  BY Zenon DEF OldArrivesIntact
<1>1. ArgsOK /\ OldOnItsWay
  BY Zenon DEF OldInv
<1>2. at # "crashed"
  BY <1>1, Zenon DEF OldOnItsWay
<1>3. ASSUME at = "received"
      PROVE  /\ msg.event = event /\ msg.cmd_type_old = cmd_type /\ msg.data = data
             /\ <<msg.shelf, msg.card>> = <<dst[1], dst[2]>>
             /\ msg.fcs = CheckSum(msg)
  <2> DEFINE p == package_old_ptp_msg
  <2>1. msg = convert_old_to_new(signed, convert_new_to_old(p))
    BY <1>1, <1>3, Zenon DEF OldOnItsWay
  <2>2. /\ signed \in BOOLEAN /\ Packaged(p)
        /\ p.event = event /\ p.data = data /\ p.cmd_type_old = cmd_type
        /\ p.shelf = dst[1] /\ p.card = dst[2]
    BY <1>1, PackageOfArgs, Zenon DEF ArgsOK
  <2> HIDE DEF p
  <2>3. Convertible(signed, p.event, p.data)
    BY <2>2, SMT
  <2>4. \A m : m = convert_old_to_new(signed, convert_new_to_old(p)) =>
               /\ m.event = p.event /\ m.data = p.data /\ m.cmd_type_old = p.cmd_type_old
               /\ m.shelf = p.shelf /\ m.card = p.card /\ m.fcs = CheckSum(m)
    BY <2>2, <2>3, RoundTrip
  <2>5. /\ msg.event = p.event /\ msg.data = p.data /\ msg.cmd_type_old = p.cmd_type_old
        /\ msg.shelf = p.shelf /\ msg.card = p.card /\ msg.fcs = CheckSum(msg)
    BY <2>1, <2>4, Zenon
  <2> QED  BY <2>2, <2>5, SMT
<1> QED  BY <1>2, <1>3

(* A convertible old message crashes neither daemon and is received with   *)
(* its command, type, address and data, and with the checksum a receiver   *)
(* will compute, whatever its content and whether char is signed or not.   *)
THEOREM OldMessagesArrive == Spec => []OldArrivesIntact
<1>1. Spec => []OldInv
  BY OldInit, OldStep, PTL DEF Spec
<1>2. OldInv => OldArrivesIntact
  BY OldFollows
<1> QED  BY <1>1, <1>2, PTL

-----------------------------------------------------------------------------
(* The way of a new message.                                               *)

(* A new message is as the arguments make it wherever it is, and takes the *)
(* line only if its destination is another card.                           *)
NewOnItsWay ==
  /\ at \in {"queue", "line", "received", "peer", "peer_process"} =>
       msg = package_new_ptp_msg /\ is_cross_dev
  /\ at = "process" => msg = package_new_ptp_msg /\ ~is_cross_dev

(* An old message takes the line, and is for process 1 behind it.          *)
OldForOne ==
  /\ at \notin {"process", "peer_process"}
  /\ at \in {"received", "peer"} => msg.pid = 1

AddressOK == dst \in Bytes \X Bytes \X Bytes

Sent == OldInv /\ AddressOK /\ (IF api = "old" THEN OldForOne ELSE NewOnItsWay)

(* The fields of a package of the new protocol.                            *)
LEMMA NewPackage ==
  LET p == package_new_ptp_msg IN
  /\ <<p.shelf, p.card, p.pid>> = <<dst[1], dst[2], dst[3]>>
  /\ p.event = event /\ p.data = data /\ p.src = SELF \o <<SELF_PID>>
  /\ p.fcs = calc_msg_xor(p)
  /\ p.protocol_type = NEW_PTP /\ p.total_len = HEAD_LEN + FCS_LEN + Len(data)
BY SMT DEF package_new_ptp_msg, package_msg, calc_msg_xor, NEW_PTP

LEMMA ThreeOf ==
  ASSUME NEW x \in Bytes, NEW y \in Bytes, NEW z \in Bytes
  PROVE  <<x, y>> \o <<z>> = <<x, y, z>>
<1> DEFINE s == <<x, y>>
           t == <<z>>
           u == s \o t
<1>1. /\ s \in Seq(Bytes) /\ Len(s) = 2 /\ s[1] = x /\ s[2] = y
      /\ t \in Seq(Bytes) /\ Len(t) = 1 /\ t[1] = z
  BY SMT
<1> HIDE DEF s, t
<1>2. /\ u \in Seq(Bytes) /\ Len(u) = Len(s) + Len(t)
      /\ \A i \in 1 .. Len(s) + Len(t) : u[i] = IF i <= Len(s) THEN s[i] ELSE t[i - Len(s)]
  BY <1>1, ConcatProperties, Zenon
<1> HIDE DEF u
<1>3. u \in Seq(Bytes) /\ Len(u) = 3 /\ u[1] = x /\ u[2] = y /\ u[3] = z
  BY <1>1, <1>2, SMT
<1>4. u = <<x, y, z>>
  BY <1>3, SMT
<1> QED  BY <1>4 DEF s, t, u

LEMMA NewInit == Init => Sent
<1> SUFFICES ASSUME Init PROVE Sent
  OBVIOUS
<1>1. at = "call"
  BY Zenon DEF Init
<1>2. AddressOK
  <2>1. CASE api # "inter"
    BY <2>1, SenderAssumption, SMT DEF Init, AddressOK
  <2>2. CASE api = "inter"
    <3>0. dst \in {SELF \o <<p[3]>> : p \in Places}
      BY <2>2, Zenon DEF Init
    <3>1. PICK p \in Places : dst = SELF \o <<p[3]>>
      BY <3>0, Zenon
    <3>2. PICK x \in Bytes, y \in Bytes : SELF = <<x, y>>
      BY SenderAssumption, SMT
    <3>3. p[3] \in Bytes
      BY SenderAssumption, SMT
    <3>4. SELF \o <<p[3]>> = <<x, y, p[3]>>
      BY <3>2, <3>3, ThreeOf, Zenon
    <3> QED  BY <3>1, <3>2, <3>3, <3>4, SMT DEF AddressOK
  <2> QED  BY <2>1, <2>2
<1>3. NewOnItsWay /\ OldForOne
  BY <1>1, SMT DEF NewOnItsWay, OldForOne
<1> QED  BY <1>2, <1>3, OldInit, Zenon DEF Sent

LEMMA NewStep ==
  ASSUME 1 \notin COMM_MATRIX, Sent, [Next]_vars
  PROVE  Sent'
<1>1. OldInv' /\ UNCHANGED args
  BY OldStep, ArgsStay, Zenon DEF Sent
<1>2. /\ AddressOK' /\ api' = api
      /\ package_new_ptp_msg' = package_new_ptp_msg /\ (is_cross_dev' <=> is_cross_dev)
  BY <1>1, SMT DEF Sent, AddressOK, args, package_new_ptp_msg, package_msg, is_cross_dev
<1>3. ASSUME api # "old" PROVE NewOnItsWay'
  <2>1. NewOnItsWay /\ package_new_ptp_msg.protocol_type # OLD_PTP
    BY <1>3, NewPackage, SMT DEF Sent, NEW_PTP, OLD_PTP
  <2>2. CASE UNCHANGED vars
    BY <1>2, <2>1, <2>2, SMT DEF NewOnItsWay, vars
  <2>3. CASE ctc_send_msg
    <3>1. \/ at' = "nowhere"
          \/ at' = "queue" /\ msg' = package_new_ptp_msg /\ is_cross_dev
          \/ at' = "process" /\ msg' = package_new_ptp_msg /\ ~is_cross_dev
      BY <2>3, Zenon DEF ctc_send_msg, ToQueue, ToLocal, Refuse, Finish
    <3> QED  BY <1>2, <3>1, SMT DEF NewOnItsWay
  <2>4. CASE send_msg_to_remote
    <3>1. at = "queue" /\ msg' = msg /\ msg = package_new_ptp_msg /\ is_cross_dev
      BY <2>1, <2>4, SMT DEF NewOnItsWay, send_msg_to_remote
    <3>2. at' = "line"
      BY <2>1, <2>4, <3>1, Zenon DEF send_msg_to_remote
    <3> QED  BY <1>2, <3>1, <3>2, SMT DEF NewOnItsWay
  <2>5. CASE try_recv_full_msg
    <3>1. at = "line" /\ msg = package_new_ptp_msg /\ is_cross_dev
      BY <2>1, <2>5, SMT DEF NewOnItsWay, try_recv_full_msg
    <3>2. at' = "received" /\ msg' = msg
      BY <2>1, <2>5, <3>1, Zenon DEF try_recv_full_msg
    <3> QED  BY <1>2, <3>1, <3>2, SMT DEF NewOnItsWay
  <2>6. CASE msg_check \/ inter_transmitter
    <3>1. at \in {"received", "peer"} /\ msg' = msg /\ at' \in {"nowhere", "peer", "peer_process"}
      BY <2>6, Zenon DEF msg_check, inter_transmitter
    <3> QED  BY <1>2, <2>1, <3>1, SMT DEF NewOnItsWay
  <2>7. CASE ctc_send_old_msg
    BY <1>3, <2>7, Zenon DEF ctc_send_old_msg
  <2> QED  BY <2>2, <2>3, <2>4, <2>5, <2>6, <2>7, Zenon DEF Next
<1>4. ASSUME api = "old" PROVE OldForOne'
  <2>1. OldForOne /\ OldOnItsWay /\ ArgsOK
    BY <1>4, Zenon DEF Sent, OldInv
  <2>2. CASE UNCHANGED vars
    BY <2>1, <2>2, SMT DEF OldForOne, vars
  <2>3. CASE ctc_send_old_msg \/ send_msg_to_remote
    <3>1. at' \in {"nowhere", "queue", "line", "crashed"}
      BY <2>3, Zenon DEF ctc_send_old_msg, send_msg_to_remote, ToQueue, Refuse, Finish
    <3> QED  BY <3>1, SMT DEF OldForOne
  <2>4. CASE try_recv_full_msg
    <3>1. at = "line" /\ at' \in {"crashed", "received"}
      BY <2>4, Zenon DEF try_recv_full_msg
    <3>2. msg.protocol_type = OLD_PTP
      BY <2>1, <3>1, PackageOfArgs, SMT DEF OldOnItsWay
    <3>3. at' = "received" => msg'.pid = 1
      BY <2>4, <3>2, SMT DEF try_recv_full_msg, convert_old_to_new
    <3> QED  BY <3>1, <3>3, SMT DEF OldForOne
  <2>5. CASE msg_check
    <3>1. at = "received" /\ at' \in {"nowhere", "peer"} /\ msg' = msg
      BY <2>5, Zenon DEF msg_check
    <3> QED  BY <2>1, <3>1, SMT DEF OldForOne
  <2>6. CASE inter_transmitter
    <3>1. at = "peer" /\ at' = IF msg.pid \in COMM_MATRIX THEN "peer_process" ELSE "nowhere"
      BY <2>6, Zenon DEF inter_transmitter
    <3>2. msg.pid = 1
      BY <2>1, <3>1, SMT DEF OldForOne
    <3> QED  BY <3>1, <3>2, SMT DEF OldForOne
  <2>7. CASE ctc_send_msg
    BY <1>4, <2>7, Zenon DEF ctc_send_msg
  <2> QED  BY <2>2, <2>3, <2>4, <2>5, <2>6, <2>7, Zenon DEF Next
<1> QED  BY <1>1, <1>2, <1>3, <1>4, Zenon DEF Sent

LEMMA NewFollows ==
  ASSUME Sent
  PROVE  DeliveredAsSent
<1> SUFFICES ASSUME at \in {"process", "peer_process"} \/ (at = "received" /\ api # "old")
             PROVE  /\ at = "process" <=> <<dst[1], dst[2]>> = SELF
                    /\ <<msg.shelf, msg.card, msg.pid>> = dst
                    /\ msg.event = event /\ msg.data = data /\ msg.src = SELF \o <<SELF_PID>>
                    /\ msg.fcs = calc_msg_xor(msg)
  BY Zenon DEF DeliveredAsSent
<1>1. /\ NewOnItsWay /\ msg = package_new_ptp_msg
      /\ at = "process" <=> ~is_cross_dev
  BY SMT DEF Sent, OldForOne, NewOnItsWay
<1>2. ~is_cross_dev <=> <<dst[1], dst[2]>> = SELF
  BY SenderAssumption, SMT DEF is_cross_dev
<1>3. <<dst[1], dst[2], dst[3]>> = dst
  BY SMT DEF Sent, AddressOK
<1> QED  BY <1>1, <1>2, <1>3, NewPackage, SMT

(* Where no process has the number 1, which is what comm_matrix says: a    *)
(* message that reaches a process reaches the one it was addressed to,     *)
(* with the event, data and sender it was given and a checksum that is     *)
(* right, and so is a new message the other card receives.                 *)
THEOREM MessagesArriveAsSent ==
  ASSUME 1 \notin COMM_MATRIX
  PROVE  Spec => []DeliveredAsSent
<1>1. Init => Sent
  BY NewInit
<1>2. Sent /\ [Next]_vars => Sent'
  BY NewStep
<1>3. Sent => DeliveredAsSent
  BY NewFollows
<1> QED  BY <1>1, <1>2, <1>3, PTL DEF Spec

-----------------------------------------------------------------------------
(* Lengths.                                                                *)

(* What left the call is not longer than the sender allows.                *)
Packed ==
  /\ at \in {"call", "queue", "line", "received", "peer"} \cup Final
  /\ result \in {"none", "SUCCESS", "FAILED"} /\ (result = "none" <=> at = "call")
  /\ at \in {"queue", "process"} =>
       msg.total_len = HEAD_LEN + FCS_LEN + Len(data) /\ Len(data) <= MAX_BODY_LEN

LEMMA LengthFits ==
  ASSUME NEW n \in Nat, n <= MAX_BODY_LEN
  PROVE  /\ HEAD_LEN + FCS_LEN + n \in Words
         /\ Word(HEAD_LEN + FCS_LEN + n - HEAD_LEN - FCS_LEN) = n
<1>1. HEAD_LEN + FCS_LEN + n - HEAD_LEN - FCS_LEN = n
  BY SMT DEF HEAD_LEN, FCS_LEN
<1>2. n \in 0 .. 4096
  BY SMT DEF MAX_BODY_LEN
<1>3. Word(n) = n
  BY <1>2, SMT DEF Word
<1>4. HEAD_LEN + FCS_LEN + n \in Words
  BY SMT DEF HEAD_LEN, FCS_LEN, Words, MAX_BODY_LEN
<1> QED  BY <1>1, <1>3, <1>4, Zenon

LEMMA PackedStep ==
  ASSUME ArgsOK, Packed, [Next]_vars
  PROVE  Packed'
<1>1. UNCHANGED args
  BY ArgsStay
<1>2. data' = data
  BY <1>1, SMT DEF args
<1>3. CASE UNCHANGED vars
  BY <1>2, <1>3, SMT DEF Packed, vars
<1>4. CASE ctc_send_msg \/ ctc_send_old_msg
  <2>1. Len(data) \in Nat
    BY LenProperties, Zenon DEF ArgsOK
  <2>2. \/ at' = "nowhere" /\ result' = "FAILED"
        \/ /\ at' \in {"queue", "process"} /\ result' = "SUCCESS"
           /\ ~(Len(data) > MAX_BODY_LEN) \/ Len(data) <= MAX_BODY_LEN
           /\ msg' = package_new_ptp_msg \/ msg' = package_old_ptp_msg
    BY <1>4, Zenon DEF ctc_send_msg, ctc_send_old_msg, ToQueue, ToLocal, Refuse, Finish
  <2>3. /\ package_new_ptp_msg.total_len = HEAD_LEN + FCS_LEN + Len(data)
        /\ package_old_ptp_msg.total_len = HEAD_LEN + FCS_LEN + Len(data)
    BY SMT DEF package_new_ptp_msg, package_old_ptp_msg, package_msg
  <2> QED  BY <1>2, <2>1, <2>2, <2>3, SMT DEF Packed, Final, MAX_BODY_LEN
<1>5. CASE send_msg_to_remote \/ try_recv_full_msg \/ msg_check \/ inter_transmitter
  <2>1. at \in {"queue", "line", "received", "peer"} /\ result' = result
        /\ at' \in {"line", "crashed", "received", "nowhere", "peer", "peer_process"}
    BY <1>5, Zenon DEF send_msg_to_remote, try_recv_full_msg, msg_check, inter_transmitter
  <2> QED  BY <2>1, SMT DEF Packed, Final
<1> QED  BY <1>3, <1>4, <1>5, Zenon DEF Next

(* A message is somewhere, and the call has returned if it left; the       *)
(* uint16_t that holds its length does not overflow.                       *)
THEOREM SenderTypeCorrect == Spec => []SenderTypeOK
<1>1. Init => ArgsOK /\ Packed
  <2> SUFFICES ASSUME Init PROVE Packed
    BY OldInit, Zenon DEF OldInv
  <2>1. at = "call" /\ result = "none"
    BY Zenon DEF Init
  <2> QED  BY <2>1, SMT DEF Packed, Final
<1>2. ArgsOK /\ Packed /\ [Next]_vars => (ArgsOK /\ Packed)'
  BY PackedStep, ArgsStay, SameArgs
<1>3. ArgsOK /\ Packed => SenderTypeOK
  <2> SUFFICES ASSUME ArgsOK, Packed, at \in {"queue", "process"}
               PROVE  msg.total_len \in Words /\ get_msg_len_from_pkg(msg) = Len(data)
    BY Zenon DEF Packed, SenderTypeOK
  <2> DEFINE n == Len(data)
  <2>1. n \in Nat /\ n <= MAX_BODY_LEN
    <3>1. n \in Nat
      BY LenProperties, Zenon DEF ArgsOK
    <3>2. n <= MAX_BODY_LEN
      BY Zenon DEF Packed
    <3> QED  BY <3>1, <3>2
  <2>2. HEAD_LEN + FCS_LEN + n \in Words /\ Word(HEAD_LEN + FCS_LEN + n - HEAD_LEN - FCS_LEN) = n
    BY <2>1, LengthFits, Zenon
  <2>3. msg.total_len = HEAD_LEN + FCS_LEN + n
    BY Zenon DEF Packed
  <2>4. get_msg_len_from_pkg(msg) = n
    BY <2>1, <2>2, <2>3, SMT DEF get_msg_len_from_pkg, HEAD_LEN, FCS_LEN
  <2> QED  BY <2>2, <2>3, <2>4, Zenon
<1> QED  BY <1>1, <1>2, <1>3, PTL DEF Spec

=============================================================================
