--------------------------- MODULE RxParserProofs ---------------------------
(***************************************************************************)
(* Proofs about the receiver of the RS-485 line.  Whatever bytes arrive,   *)
(* and however read() cuts them, msg_buff never overflows and head_pos     *)
(* stays on the keyword it was set to: bytes are only appended to msg_buff *)
(* between two calls of try_recv_full_msg.  What the invariant needs of    *)
(* the search for a keyword is that it returns a place where one stands.   *)
(***************************************************************************)
EXTENDS RxParser, SequenceTheorems, WellFoundedInduction, TLAPS

(* A non-empty set of naturals has a least element.                        *)
LEMMA Least ==
  ASSUME NEW S \in SUBSET Nat, S # {}
  PROVE  \E i \in S : \A j \in S : i <= j
<1> DEFINE R == OpToRel(<, Nat)
<1>1. IsWellFoundedOn(R, Nat)
  BY NatLessThanWellFounded
<1>2. \A i, j \in Nat : i < j => <<i, j>> \in R
  BY DEF OpToRel
<1> HIDE DEF R
<1>3. PICK x \in S : \A y \in S : ~ (<<y, x>> \in R)
  BY <1>1, WFMin
<1>4. \A y \in S : ~ (y < x)
  BY <1>2, <1>3
<1>5. \A y \in S : x <= y
  <2>1. S \subseteq Nat
    OBVIOUS
  <2> QED
    BY <2>1, <1>4
<1> QED
  BY <1>5

(* get_msg_head returns 0 or a place of the keyword in the buffer.         *)
LEMMA HeadIsThere ==
  ASSUME NEW b \in Seq(0 .. 255), NEW patn,
         get_msg_head(b, patn) # 0
  PROVE  /\ get_msg_head(b, patn) \in 1 .. Len(b) - 1
         /\ b[get_msg_head(b, patn)] = patn[1]
         /\ b[get_msg_head(b, patn) + 1] = patn[2]
<1> DEFINE places == {i \in 1 .. Len(b) - 1 : b[i] = patn[1] /\ b[i + 1] = patn[2]}
           first == CHOOSE i \in places : \A j \in places : i <= j
<1>1. places # {}
  BY DEF get_msg_head
<1>2. get_msg_head(b, patn) = first
  BY <1>1 DEF get_msg_head
<1>3. places \in SUBSET Nat
  BY LenProperties
<1>4. \E i \in places : \A j \in places : i <= j
  <2> HIDE DEF places
  <2> QED
    BY <1>1, <1>3, Least
<1>5. first \in places
  <2> HIDE DEF places
  <2> QED
    BY <1>4
<1> QED
  BY <1>2, <1>5

(* A run of elements of a sequence.                                        *)
LEMMA SubSeqIn ==
  ASSUME NEW S, NEW s \in Seq(S), NEW m \in 1 .. Len(s) + 1, NEW n \in 0 .. Len(s)
  PROVE  /\ SubSeq(s, m, n) \in Seq(S)
         /\ Len(SubSeq(s, m, n)) = IF m <= n THEN n - m + 1 ELSE 0
         /\ \A i \in 1 .. n - m + 1 : SubSeq(s, m, n)[i] = s[m + i - 1]
BY LenProperties, SubSeqProperties

(* A concatenation, element by element.                                    *)
LEMMA ConcatIs ==
  ASSUME NEW S, NEW s \in Seq(S), NEW t \in Seq(S)
  PROVE  /\ s \o t \in Seq(S)
         /\ Len(s) \in Nat /\ Len(t) \in Nat /\ Len(s \o t) = Len(s) + Len(t)
         /\ \A i \in 1 .. Len(s) : (s \o t)[i] = s[i]
         /\ \A i \in 1 .. Len(t) : (s \o t)[Len(s) + i] = t[i]
<1>1. PICK m, n : m = Len(s) /\ n = Len(t)
  OBVIOUS
<1>2. /\ s \o t \in Seq(S) /\ m \in Nat /\ n \in Nat /\ Len(s \o t) = m + n
      /\ \A i \in 1 .. m + n : (s \o t)[i] = IF i <= m THEN s[i] ELSE t[i - m]
  BY <1>1, LenProperties, ConcatProperties
<1>3. /\ \A i \in 1 .. m : i \in 1 .. m + n /\ i <= m
      /\ \A i \in 1 .. n : m + i \in 1 .. m + n /\ ~(m + i <= m) /\ (m + i) - m = i
  BY ONLY <1>2
<1>4. \A i \in 1 .. m : (s \o t)[i] = s[i]
  BY <1>2, <1>3
<1>5. \A i \in 1 .. n : (s \o t)[m + i] = t[i]
  BY <1>2, <1>3
<1> QED
  BY <1>1, <1>2, <1>4, <1>5

(* What is left of a sequence without its first n elements.                *)
LEMMA Remainder ==
  ASSUME NEW S, NEW s \in Seq(S), NEW n \in 1 .. Len(s)
  PROVE  /\ Len(SubSeq(s, n + 1, Len(s))) \in Nat
         /\ Len(SubSeq(s, n + 1, Len(s))) + n = Len(s)
         /\ \A i \in 1 .. Len(SubSeq(s, n + 1, Len(s))) :
              SubSeq(s, n + 1, Len(s))[i] = s[n + i]
<1>1. PICK m, t : m = Len(s) /\ t = SubSeq(s, n + 1, m)
  OBVIOUS
<1>2. m \in Nat /\ n \in 1 .. m /\ n + 1 \in 1 .. m + 1 /\ m \in 0 .. m
  BY <1>1, LenProperties
<1>3. /\ Len(t) = IF n + 1 <= m THEN m - (n + 1) + 1 ELSE 0
      /\ \A i \in 1 .. m - (n + 1) + 1 : t[i] = s[n + 1 + i - 1]
  BY <1>1, <1>2, SubSeqIn
<1>4. Len(t) = m - n /\ m - (n + 1) + 1 = m - n
  BY <1>2, <1>3
<1>5. \A i \in 1 .. m - n : n + 1 + i - 1 = n + i
  BY <1>2
<1>6. \A i \in 1 .. Len(t) : t[i] = s[n + i]
  BY <1>3, <1>4, <1>5
<1>7. Len(t) \in Nat /\ Len(t) + n = m
  BY <1>2, <1>4
<1> QED
  BY <1>1, <1>6, <1>7

(* The package an old frame becomes: the frame has all the bytes that its  *)
(* length byte promises, so every byte convert_old_to_new reads is there.  *)
LEMMA ConvertedIsAPackage ==
  ASSUME NEW raw \in Seq(0 .. 255), Len(raw) >= OLD_HEAD_LEN,
         Len(raw) = OldFrameLen(raw[4])
  PROVE  convert_old_to_new(raw) \in Seq(Fields)
<1>1. PICK len : len = raw[4]
  OBVIOUS
<1> DEFINE front == <<len + HEAD_LEN + FCS_LEN, raw[3], raw[Byte(OLD_HEAD_LEN + len) + 1]>>
           data == SubSeq(raw, OLD_HEAD_LEN + 1, OLD_HEAD_LEN + len)
<1>2. /\ len \in 0 .. 255 /\ raw[3] \in 0 .. 255
      /\ Len(raw) = len + 6
  <2>1. Len(raw) \in Nat /\ Len(raw) >= 4
    BY LenProperties DEF OLD_HEAD_LEN
  <2>2. 3 \in 1 .. Len(raw) /\ 4 \in 1 .. Len(raw)
    BY <2>1
  <2>3. raw[3] \in 0 .. 255 /\ raw[4] \in 0 .. 255
    BY <2>2, ElementOfSeq
  <2>4. Len(raw) = OldFrameLen(len) /\ len \in 0 .. 255
    BY <1>1, <2>3
  <2> QED
    BY <2>3, <2>4 DEF OLD_HEAD_LEN, OLD_TAIL_LEN, OldFrameLen
<1>3. raw[Byte(OLD_HEAD_LEN + len) + 1] \in 0 .. 255
  <2>1. Byte(OLD_HEAD_LEN + len) + 1 \in 1 .. Len(raw)
    BY <1>2 DEF Byte, OLD_HEAD_LEN
  <2> QED
    BY <2>1, ElementOfSeq
<1>4. MAGIC_WORD \o front \in Seq(Fields)
  <2>1. MAGIC_WORD \in Seq(Fields)
    BY DEF MAGIC_WORD, Fields, HEAD_LEN, FCS_LEN
  <2>2. front \in Seq(Fields)
    BY <1>2, <1>3 DEF Fields, HEAD_LEN, FCS_LEN
  <2> QED
    BY <2>1, <2>2, ConcatProperties
<1>5. data \in Seq(Fields)
  <2>1. \A i \in OLD_HEAD_LEN + 1 .. OLD_HEAD_LEN + len : raw[i] \in Fields
    <3>1. TAKE i \in OLD_HEAD_LEN + 1 .. OLD_HEAD_LEN + len
    <3>2. i \in 1 .. Len(raw)
      BY <1>2 DEF OLD_HEAD_LEN
    <3>3. raw[i] \in 0 .. 255
      BY <3>2, ElementOfSeq
    <3> QED
      BY <3>3 DEF Fields, HEAD_LEN, FCS_LEN
  <2>2. OLD_HEAD_LEN + 1 \in Int /\ OLD_HEAD_LEN + len \in Int
    BY <1>2 DEF OLD_HEAD_LEN
  <2> QED
    BY <2>1, <2>2, SubSeqProperties
<1>6. convert_old_to_new(raw) = (MAGIC_WORD \o front) \o data
  BY <1>1 DEF convert_old_to_new
<1> HIDE DEF front, data
<1> QED
  BY <1>4, <1>5, <1>6, ConcatProperties

-----------------------------------------------------------------------------

(* The inductive invariant: that of the runs, and the length byte behind   *)
(* msg_len has arrived (or head_pos + 3 would not be a byte of msg_buff).  *)
LengthIsThere == next_step = "OLD_CHECK_FULL" => head_pos + 3 <= Len(msg_buff)

RxInv == RxTypeOK /\ HeadStaysOnKeyword /\ LengthIsThere

LineOK == wire \in Seq(0 .. 255) /\ spaced \in BOOLEAN /\ sent \in Seq(Frames)

(* The keyword that step is for stands at position h.                      *)
Stands(step, h) ==
  /\ h \in 1 .. Len(msg_buff) - 1
  /\ Keyword(h) = IF step = "RECV_HEAD" THEN MAGIC_WORD ELSE OLD_MAGIC_WORD

(* Every return leaves an empty buffer.                                    *)
LEMMA ReturnStep ==
  ASSUME RxInv, NEW pkgs \in Seq(Seq(Fields)), Return(pkgs),
         LineOK', msg_len' \in 0 .. 255
  PROVE  RxInv'
<1>1. received' \in Seq(Seq(Fields)) /\ forwarded' \in Seq(Seq(Fields))
  BY ConcatProperties DEF RxInv, RxTypeOK, Return
<1>2. /\ pc' = "parse" /\ msg_buff' = << >>
      /\ next_step' = "RECV_START" /\ head_pos' = 0
  BY DEF Return
<1>3. 0 \in 0 .. RX_BUFF_LEN
  BY ParserAssumption DEF RX_BUFF_LEN
<1>4. RxTypeOK'
  BY <1>1, <1>2, <1>3 DEF RxTypeOK, LineOK
<1>5. HeadStaysOnKeyword'
  BY <1>2, <1>3 DEF HeadStaysOnKeyword
<1> QED
  BY <1>2, <1>4, <1>5 DEF RxInv, LengthIsThere

(* A step that goes on to read() may leave any head that stands.           *)
LEMMA ContinueStep ==
  ASSUME RxInv, NEW h, NEW step, Continue(step, h),
         LineOK', msg_len' \in 0 .. 255,
         step \in {"RECV_HEAD", "OLD_CHECK_LEN", "OLD_CHECK_FULL"}, Stands(step, h),
         step = "OLD_CHECK_FULL" => h + 3 <= Len(msg_buff) /\ msg_len' = msg_buff[h + 3]
  PROVE  RxInv'
<1>1. /\ pc' = "read" /\ msg_buff' = msg_buff
      /\ next_step' = step /\ head_pos' = h
      /\ received' = received /\ forwarded' = forwarded
  BY DEF Continue, calls
<1>2. /\ Len(msg_buff) <= RX_BUFF_LEN
      /\ h \in 1 .. Len(msg_buff) - 1
      /\ h \in 0 .. RX_BUFF_LEN /\ h # 0 /\ h < Len(msg_buff)
  BY ParserAssumption, LenProperties
  DEF RxInv, RxTypeOK, HeadStaysOnKeyword, Stands, RX_BUFF_LEN
<1>3. RxTypeOK'
  BY <1>1, <1>2 DEF RxInv, RxTypeOK, LineOK
<1>4. HeadStaysOnKeyword'
  BY <1>1, <1>2 DEF HeadStaysOnKeyword, Stands, Keyword
<1> QED
  BY <1>1, <1>3, <1>4 DEF RxInv, LengthIsThere

(* One round with the head of a frame of the new protocol at h.            *)
LEMMA NewHeadStep ==
  ASSUME RxInv, NEW h, Stands("RECV_HEAD", h), try_recv_head(h), LineOK'
  PROVE  RxInv'
<1>1. /\ msg_len' \in 0 .. 255
      /\ msg_buff \in Seq(0 .. 255) /\ Len(msg_buff) \in Nat
      /\ h \in 1 .. Len(msg_buff) - 1
  BY LenProperties DEF RxInv, RxTypeOK, Stands, try_recv_head
<1>2. CASE Continue("RECV_HEAD", h)
  BY <1>1, <1>2, ContinueStep
<1>3. CASE Return(<< >>)
  <2>1. << >> \in Seq(Seq(Fields))
    OBVIOUS
  <2> QED
    BY <1>1, <1>3, <2>1, ReturnStep
<1>4. CASE /\ Avail(h) >= HEAD_LEN /\ Avail(h) >= msg_buff[h + 2]
           /\ Return(<<SubSeq(msg_buff, h, h + msg_buff[h + 2] - 1)>>)
  <2>1. PICK len : len = msg_buff[h + 2]
    OBVIOUS
  <2>2. len \in 0 .. 255
    <3>1. h + 2 \in 1 .. Len(msg_buff)
      BY <1>1, <1>4 DEF Avail, HEAD_LEN
    <3> QED
      BY <1>1, <2>1, <3>1, ElementOfSeq
  <2>3. h + len - 1 \in 0 .. Len(msg_buff)
    <3>1. Len(msg_buff) - h + 1 >= len
      BY ONLY <1>4, <2>1 DEF Avail
    <3> QED
      BY ONLY <1>1, <2>2, <3>1
  <2>4. \A i \in h .. h + len - 1 : msg_buff[i] \in Fields
    <3>1. TAKE i \in h .. h + len - 1
    <3>2. i \in 1 .. Len(msg_buff)
      BY <1>1, <2>2, <2>3
    <3>3. msg_buff[i] \in 0 .. 255
      BY <1>1, <3>2, ElementOfSeq
    <3> QED
      BY <3>3 DEF Fields, HEAD_LEN, FCS_LEN
  <2>5. SubSeq(msg_buff, h, h + len - 1) \in Seq(Fields)
    <3>1. h \in Int /\ h + len - 1 \in Int
      BY <1>1, <2>2
    <3> QED
      BY <2>4, <3>1, SubSeqProperties
  <2>6. /\ <<SubSeq(msg_buff, h, h + len - 1)>> \in Seq(Seq(Fields))
        /\ Return(<<SubSeq(msg_buff, h, h + len - 1)>>)
    BY <1>4, <2>1, <2>5
  <2> QED
    BY <1>1, <2>6, ReturnStep
<1> QED
  BY <1>2, <1>3, <1>4 DEF try_recv_head

(* The body of an old frame at h, when its length byte is there: either    *)
(* the frame is whole or the next round is entered with the length kept.   *)
LEMMA OldBodyStep ==
  ASSUME RxInv, NEW h, NEW len \in 0 .. 255,
         Stands("OLD_CHECK_FULL", h), h + 3 <= Len(msg_buff), len = msg_buff[h + 3],
         try_recv_old_msg_body(h, len), msg_len' = len, LineOK'
  PROVE  RxInv'
<1>1. /\ msg_buff \in Seq(0 .. 255) /\ Len(msg_buff) \in Nat
      /\ h \in 1 .. Len(msg_buff) - 1
  BY LenProperties DEF RxInv, RxTypeOK, Stands
<1>2. CASE Continue("OLD_CHECK_FULL", h)
  BY <1>2, ContinueStep
<1>3. CASE /\ Avail(h) >= OldFrameLen(len)
           /\ Return(<<convert_old_to_new(SubSeq(msg_buff, h, h + OldFrameLen(len) - 1))>>)
  <2> DEFINE last == h + OldFrameLen(len) - 1
             raw == SubSeq(msg_buff, h, last)
  <2>1. /\ h \in 1 .. Len(msg_buff) + 1 /\ last \in 0 .. Len(msg_buff)
        /\ last - h + 1 = OldFrameLen(len) /\ last >= h + 3
        /\ OldFrameLen(len) >= OLD_HEAD_LEN
    <3>1. Len(msg_buff) - h + 1 >= OldFrameLen(len)
      BY ONLY <1>3 DEF Avail
    <3> QED
      BY ONLY <1>1, <3>1, len \in 0 .. 255 DEF OldFrameLen, OLD_HEAD_LEN, OLD_TAIL_LEN
  <2>2. /\ raw \in Seq(0 .. 255)
        /\ Len(raw) = IF h <= last THEN last - h + 1 ELSE 0
        /\ \A i \in 1 .. last - h + 1 : raw[i] = msg_buff[h + i - 1]
    <3> HIDE DEF last
    <3> QED
      BY <1>1, <2>1, SubSeqIn
  <2>3. Len(raw) = OldFrameLen(len) /\ raw[4] = len
    <3> HIDE DEF last, raw
    <3>1. 4 \in 1 .. last - h + 1 /\ h + 4 - 1 = h + 3
      BY <1>1, <2>1
    <3>2. Len(raw) = last - h + 1
      BY <1>1, <2>1, <2>2
    <3>3. raw[4] = msg_buff[h + 4 - 1]
      BY <2>2, <3>1
    <3> QED
      BY <2>1, <3>1, <3>2, <3>3
  <2>4. convert_old_to_new(raw) \in Seq(Fields)
    <3> HIDE DEF raw
    <3> QED
      BY <2>1, <2>2, <2>3, ConvertedIsAPackage
  <2>5. <<convert_old_to_new(raw)>> \in Seq(Seq(Fields))
    <3> HIDE DEF raw
    <3> QED
      BY <2>4
  <2> QED
    BY <1>3, <2>5, ReturnStep
<1> QED
  BY <1>2, <1>3 DEF try_recv_old_msg_body

(* A round in STEP_OLD_CHECK_LEN.                                          *)
LEMMA OldLenStep ==
  ASSUME RxInv, NEW h, Stands("OLD_CHECK_LEN", h), OldCheckLen(h), LineOK'
  PROVE  RxInv'
<1>1. /\ msg_buff \in Seq(0 .. 255) /\ Len(msg_buff) \in Nat
      /\ msg_len \in 0 .. 255
      /\ h \in 1 .. Len(msg_buff) - 1
      /\ Stands("OLD_CHECK_FULL", h)
  BY LenProperties DEF RxInv, RxTypeOK, Stands
<1>2. CASE Continue("OLD_CHECK_LEN", h) /\ UNCHANGED msg_len
  BY <1>1, <1>2, ContinueStep
<1>3. CASE /\ Avail(h) >= OLD_HEAD_LEN
           /\ msg_len' = msg_buff[h + 3]
           /\ try_recv_old_msg_body(h, msg_len')
  <2>1. h + 3 <= Len(msg_buff) /\ h + 3 \in 1 .. Len(msg_buff)
    BY <1>1, <1>3 DEF Avail, OLD_HEAD_LEN
  <2>2. msg_len' \in 0 .. 255
    BY <1>1, <1>3, <2>1, ElementOfSeq
  <2> QED
    BY <1>1, <1>3, <2>1, <2>2, OldBodyStep
<1> QED
  BY <1>2, <1>3 DEF OldCheckLen

(* A round in STEP_RECV_START: what get_msg_head finds does stand there.   *)
LEMMA StartStep ==
  ASSUME RxInv, start_recv, LineOK'
  PROVE  RxInv'
<1> DEFINE new == get_msg_head(msg_buff, MAGIC_WORD)
           old == get_msg_head(msg_buff, OLD_MAGIC_WORD)
<1>1. msg_buff \in Seq(0 .. 255) /\ msg_len \in 0 .. 255
  BY DEF RxInv, RxTypeOK
<1>2. CASE new # 0 /\ try_recv_head(new)
  <2>1. Stands("RECV_HEAD", new)
    BY <1>1, <1>2, HeadIsThere DEF Stands, Keyword, MAGIC_WORD
  <2> HIDE DEF new
  <2> QED
    BY <1>2, <2>1, NewHeadStep
<1>3. CASE old # 0 /\ OldCheckLen(old)
  <2>1. Stands("OLD_CHECK_LEN", old)
    BY <1>1, <1>3, HeadIsThere DEF Stands, Keyword, OLD_MAGIC_WORD
  <2> HIDE DEF old
  <2> QED
    BY <1>3, <2>1, OldLenStep
<1>4. CASE Continue("RECV_START", 0) /\ UNCHANGED msg_len
  <2>1. /\ pc' = "read" /\ msg_buff' = msg_buff /\ msg_len' = msg_len
        /\ next_step' = "RECV_START" /\ head_pos' = 0
        /\ received' = received /\ forwarded' = forwarded
    BY <1>4 DEF Continue, calls
  <2>2. 0 \in 0 .. RX_BUFF_LEN
    BY ParserAssumption DEF RX_BUFF_LEN
  <2>3. RxTypeOK'
    BY <2>1, <2>2 DEF RxInv, RxTypeOK, LineOK
  <2>4. HeadStaysOnKeyword'
    BY <2>1 DEF RxInv, HeadStaysOnKeyword
  <2> QED
    BY <2>1, <2>3, <2>4 DEF RxInv, LengthIsThere
<1> QED
  BY <1>2, <1>3, <1>4 DEF start_recv

(* The head that is kept between two rounds stands.                        *)
LEMMA KeptHead ==
  ASSUME RxInv, next_step # "RECV_START"
  PROVE  Stands(next_step, head_pos)
<1>1. /\ head_pos # 0 /\ head_pos < Len(msg_buff)
      /\ Keyword(head_pos) = IF next_step = "RECV_HEAD" THEN MAGIC_WORD ELSE OLD_MAGIC_WORD
  BY DEF RxInv, HeadStaysOnKeyword
<1>2. head_pos \in Nat /\ Len(msg_buff) \in Nat
  BY ParserAssumption, LenProperties DEF RxInv, RxTypeOK, RX_BUFF_LEN
<1>3. head_pos \in 1 .. Len(msg_buff) - 1
  BY <1>1, <1>2
<1> QED
  BY <1>1, <1>3 DEF Stands

(* read() appends: whatever stood in msg_buff still stands.                *)
LEMMA ReadStep ==
  ASSUME RxInv, recv_raw_data
  PROVE  RxInv'
<1>1. PICK n \in 1 .. PKG :
        /\ n <= Len(wire)
        /\ wire' = SubSeq(wire, n + 1, Len(wire))
        /\ \/ /\ Len(msg_buff) + n <= RX_BUFF_LEN
              /\ msg_buff' = msg_buff \o SubSeq(wire, 1, n)
              /\ pc' = "parse"
              /\ UNCHANGED <<next_step, head_pos, calls>>
           \/ Len(msg_buff) + n > RX_BUFF_LEN /\ Return(<< >>)
  BY DEF recv_raw_data
<1>2. /\ wire \in Seq(0 .. 255) /\ msg_buff \in Seq(0 .. 255) /\ n \in Nat
      /\ Len(wire) \in Nat /\ Len(msg_buff) \in Nat
  BY ParserAssumption, LenProperties DEF RxInv, RxTypeOK
<1>3. UNCHANGED <<spaced, sent, msg_len>>
  BY DEF recv_raw_data
<1>4. LineOK'
  <2>1. n + 1 \in 1 .. Len(wire) + 1 /\ Len(wire) \in 0 .. Len(wire)
    BY <1>1, <1>2
  <2>2. wire' \in Seq(0 .. 255)
    BY <1>1, <1>2, <2>1, SubSeqIn
  <2> QED
    BY <1>3, <2>2 DEF RxInv, RxTypeOK, LineOK
<1>5. CASE Return(<< >>)
  <2>1. << >> \in Seq(Seq(Fields)) /\ msg_len' \in 0 .. 255
    BY <1>3 DEF RxInv, RxTypeOK
  <2> QED
    BY <1>4, <1>5, <2>1, ReturnStep
<1>6. CASE /\ Len(msg_buff) + n <= RX_BUFF_LEN
           /\ msg_buff' = msg_buff \o SubSeq(wire, 1, n)
           /\ pc' = "parse"
           /\ UNCHANGED <<next_step, head_pos, calls>>
  <2>1. SubSeq(wire, 1, n) \in Seq(0 .. 255) /\ Len(SubSeq(wire, 1, n)) = n
    <3>1. 1 \in 1 .. Len(wire) + 1 /\ n \in 0 .. Len(wire) /\ 1 <= n
      BY <1>1, <1>2
    <3> QED
      BY <1>2, <3>1, SubSeqIn
  <2>2. /\ msg_buff' \in Seq(0 .. 255)
        /\ Len(msg_buff') = Len(msg_buff) + n
        /\ \A i \in 1 .. Len(msg_buff) : msg_buff'[i] = msg_buff[i]
    BY <1>2, <1>6, <2>1, ConcatProperties
  <2>3. UNCHANGED <<next_step, head_pos, received, forwarded, spaced, sent, msg_len>>
    BY <1>3, <1>6 DEF calls
  <2>4. RxTypeOK'
    BY <1>4, <1>6, <2>2, <2>3 DEF RxInv, RxTypeOK, LineOK
  <2>5. CASE next_step = "RECV_START"
    <3>1. HeadStaysOnKeyword'
      BY <1>6, <2>2, <2>3, <2>5 DEF RxInv, HeadStaysOnKeyword
    <3> QED
      BY <2>3, <2>4, <2>5, <3>1 DEF RxInv, LengthIsThere
  <2>6. CASE next_step # "RECV_START"
    <3>1. /\ head_pos \in 1 .. Len(msg_buff) - 1
          /\ Keyword(head_pos) = IF next_step = "RECV_HEAD" THEN MAGIC_WORD ELSE OLD_MAGIC_WORD
      BY <2>6, KeptHead DEF Stands
    <3>2. Keyword(head_pos)' = Keyword(head_pos) /\ head_pos < Len(msg_buff')
      <4>1. head_pos \in 1 .. Len(msg_buff) /\ head_pos + 1 \in 1 .. Len(msg_buff)
        BY <1>2, <3>1
      <4>2. head_pos < Len(msg_buff) + n
        BY <1>2, <3>1
      <4> QED
        BY <2>2, <2>3, <4>1, <4>2 DEF Keyword
    <3>3. next_step = "OLD_CHECK_FULL" =>
            /\ head_pos + 3 <= Len(msg_buff')
            /\ msg_len = msg_buff'[head_pos + 3]
      <4>1. HAVE next_step = "OLD_CHECK_FULL"
      <4>2. head_pos + 3 <= Len(msg_buff) /\ msg_len = msg_buff[head_pos + 3]
        BY <4>1 DEF RxInv, LengthIsThere, HeadStaysOnKeyword
      <4>3. head_pos + 3 \in 1 .. Len(msg_buff) /\ head_pos + 3 <= Len(msg_buff) + n
        BY <1>2, <3>1, <4>2
      <4> QED
        BY <2>2, <4>2, <4>3
    <3>4. head_pos # 0
      BY <3>1
    <3>5. HeadStaysOnKeyword'
      BY <1>6, <2>2, <2>3, <2>6, <3>1, <3>2, <3>3, <3>4 DEF HeadStaysOnKeyword
    <3> QED
      BY <2>3, <2>4, <3>3, <3>5 DEF RxInv, LengthIsThere
  <2> QED
    BY <2>5, <2>6
<1> QED
  BY <1>1, <1>5, <1>6

-----------------------------------------------------------------------------

LEMMA RxInit == Init => RxInv
<1>1. SUFFICES ASSUME Init PROVE RxInv
  OBVIOUS
<1>2. 0 \in 0 .. RX_BUFF_LEN
  BY ParserAssumption DEF RX_BUFF_LEN
<1>3. RxTypeOK
  BY <1>1, <1>2 DEF Init, RxTypeOK
<1>4. HeadStaysOnKeyword
  BY <1>1, <1>2 DEF Init, HeadStaysOnKeyword
<1> QED
  BY <1>1, <1>3, <1>4 DEF Init, RxInv, LengthIsThere

LEMMA RxStep == RxInv /\ [Next]_vars => RxInv'
<1>1. SUFFICES ASSUME RxInv, [Next]_vars PROVE RxInv'
  OBVIOUS
<1>2. ASSUME NEW f \in Frames, Transmit(f) PROVE RxInv'
  <2>1. /\ wire' = wire \o Bytes[f] /\ sent' = Append(sent, f)
        /\ UNCHANGED <<spaced, pc, msg_buff, next_step, head_pos, msg_len, received, forwarded>>
    BY <1>2 DEF Transmit, calls
  <2>2. wire' \in Seq(0 .. 255)
    <3>1. Bytes[f] \in Seq(0 .. 255) /\ wire \in Seq(0 .. 255)
      BY <1>1, ParserAssumption DEF RxInv, RxTypeOK
    <3> QED
      BY <2>1, <3>1, ConcatProperties
  <2>3. sent' \in Seq(Frames)
    BY <1>1, <2>1, AppendProperties DEF RxInv, RxTypeOK
  <2>4. RxTypeOK'
    BY <1>1, <2>1, <2>2, <2>3 DEF RxInv, RxTypeOK
  <2>5. HeadStaysOnKeyword'
    BY <1>1, <2>1 DEF RxInv, HeadStaysOnKeyword, Keyword
  <2> QED
    BY <1>1, <2>1, <2>4, <2>5 DEF RxInv, LengthIsThere
<1>3. CASE Parse
  <2>1. LineOK'
    BY <1>1, <1>3 DEF Parse, line, RxInv, RxTypeOK, LineOK
  <2>2. CASE next_step = "RECV_START" /\ start_recv
    BY <1>1, <2>1, <2>2, StartStep
  <2>3. CASE next_step = "RECV_HEAD" /\ try_recv_head(head_pos)
    BY <1>1, <2>1, <2>3, KeptHead, NewHeadStep
  <2>4. CASE next_step = "OLD_CHECK_LEN" /\ OldCheckLen(head_pos)
    BY <1>1, <2>1, <2>4, KeptHead, OldLenStep
  <2>5. CASE /\ next_step = "OLD_CHECK_FULL"
             /\ try_recv_old_msg_body(head_pos, msg_len)
             /\ UNCHANGED msg_len
    <3>1. /\ Stands("OLD_CHECK_FULL", head_pos) /\ msg_len \in 0 .. 255
          /\ head_pos + 3 <= Len(msg_buff) /\ msg_len = msg_buff[head_pos + 3]
      BY <1>1, <2>5, KeptHead DEF RxInv, RxTypeOK, HeadStaysOnKeyword, LengthIsThere
    <3>2. msg_len' = msg_len
      BY <2>5
    <3> QED
      BY <1>1, <2>1, <2>5, <3>1, <3>2, OldBodyStep
  <2> QED
    BY <1>3, <2>2, <2>3, <2>4, <2>5 DEF Parse
<1>4. CASE recv_raw_data
  BY <1>1, <1>4, ReadStep
<1>5. CASE UNCHANGED vars
  <2>1. UNCHANGED <<wire, spaced, sent, pc, msg_buff, next_step, head_pos, msg_len, received, forwarded>>
    BY <1>5 DEF vars, line, calls
  <2> QED
    BY <1>1, <2>1 DEF RxInv, RxTypeOK, HeadStaysOnKeyword, LengthIsThere, Keyword
<1> QED
  BY <1>1, <1>2, <1>3, <1>4, <1>5 DEF Next

(* The variables keep their types, and msg_buff never overflows.           *)
THEOREM RxTypeCorrect == Spec => []RxTypeOK
<1>1. RxInv => RxTypeOK
  BY DEF RxInv
<1> QED
  BY RxInit, RxStep, <1>1, PTL DEF Spec

(* Whatever arrives, in whatever pieces, head_pos stands on the keyword    *)
(* for which try_recv_full_msg entered its step, msg_len on its length.    *)
THEOREM HeadStays == Spec => []HeadStaysOnKeyword
<1>1. RxInv => HeadStaysOnKeyword
  BY DEF RxInv
<1> QED
  BY RxInit, RxStep, <1>1, PTL DEF Spec

-----------------------------------------------------------------------------
(* What one round of the switch may do, with a head that stands at h: wait *)
(* for more bytes, reject the frame, or return it.                         *)

Waits(h) ==
  /\ UNCHANGED <<msg_buff, received>>
  /\ pc' = "read"
  /\ \/ get_msg_head(msg_buff, MAGIC_WORD) = 0 /\ get_msg_head(msg_buff, OLD_MAGIC_WORD) = 0
     \/ /\ Stands("RECV_HEAD", h)
        /\ Avail(h) < HEAD_LEN \/ Avail(h) < msg_buff[h + 2]
     \/ /\ Stands("OLD_CHECK_LEN", h)
        /\ Avail(h) < OLD_HEAD_LEN \/ Avail(h) < OldFrameLen(msg_buff[h + 3])

Rejects(h) ==
  /\ Stands("RECV_HEAD", h)
  /\ Avail(h) >= HEAD_LEN /\ msg_buff[h + 2] > PKG
  /\ Return(<< >>)

TakesNew(h) ==
  /\ Stands("RECV_HEAD", h)
  /\ Avail(h) >= HEAD_LEN /\ msg_buff[h + 2] <= PKG
  /\ Avail(h) >= msg_buff[h + 2]
  /\ Return(<<SubSeq(msg_buff, h, h + msg_buff[h + 2] - 1)>>)

TakesOld(h) ==
  /\ Stands("OLD_CHECK_LEN", h)
  /\ h + 3 <= Len(msg_buff)
  /\ Avail(h) >= OldFrameLen(msg_buff[h + 3])
  /\ Return(<<convert_old_to_new(SubSeq(msg_buff, h, h + OldFrameLen(msg_buff[h + 3]) - 1))>>)

Moves(h) == Waits(h) \/ Rejects(h) \/ TakesNew(h) \/ TakesOld(h)

LEMMA NewMoves ==
  ASSUME NEW h, Stands("RECV_HEAD", h), try_recv_head(h)
  PROVE  Moves(h)
<1>1. CASE Avail(h) < HEAD_LEN /\ Continue("RECV_HEAD", h)
  BY <1>1, Zenon DEF Continue, calls, Moves, Waits
<1>2. CASE Avail(h) >= HEAD_LEN /\ msg_buff[h + 2] > PKG /\ Return(<< >>)
  BY <1>2, Zenon DEF Moves, Rejects
<1>3. CASE Avail(h) < msg_buff[h + 2] /\ Continue("RECV_HEAD", h)
  BY <1>3, Zenon DEF Continue, calls, Moves, Waits
<1>4. CASE /\ Avail(h) >= HEAD_LEN /\ msg_buff[h + 2] <= PKG
           /\ Avail(h) >= msg_buff[h + 2]
           /\ Return(<<SubSeq(msg_buff, h, h + msg_buff[h + 2] - 1)>>)
  BY <1>4, Zenon DEF Moves, TakesNew
<1> QED
  BY <1>1, <1>2, <1>3, <1>4, Zenon DEF try_recv_head

LEMMA OldBodyMoves ==
  ASSUME NEW h, Stands("OLD_CHECK_LEN", h), h + 3 <= Len(msg_buff),
         try_recv_old_msg_body(h, msg_buff[h + 3])
  PROVE  Moves(h)
BY Zenon DEF try_recv_old_msg_body, Continue, calls, Moves, Waits, TakesOld

LEMMA OldMoves ==
  ASSUME RxTypeOK, NEW h, Stands("OLD_CHECK_LEN", h), OldCheckLen(h)
  PROVE  Moves(h)
<1>1. CASE Avail(h) < OLD_HEAD_LEN /\ Continue("OLD_CHECK_LEN", h)
  BY <1>1, Zenon DEF Continue, calls, Moves, Waits
<1>2. CASE Avail(h) >= OLD_HEAD_LEN /\ try_recv_old_msg_body(h, msg_buff[h + 3])
  <2>1. h + 3 <= Len(msg_buff)
    <3>1. h \in Int /\ Len(msg_buff) \in Int
      BY LenProperties DEF RxTypeOK, Stands
    <3> QED
      BY <1>2, <3>1 DEF Avail, OLD_HEAD_LEN
  <2> QED
    BY <1>2, <2>1, OldBodyMoves
<1> QED
  BY <1>1, <1>2, Zenon DEF OldCheckLen

LEMMA ParseMoves ==
  ASSUME RxInv, Parse
  PROVE  UNCHANGED line /\ \E h \in Int : Moves(h)
<1>1. UNCHANGED line
  BY DEF Parse
<1>2. \A h : Stands("RECV_HEAD", h) \/ Stands("OLD_CHECK_LEN", h) => h \in Int
  BY LenProperties DEF RxInv, RxTypeOK, Stands
<1>3. \A h : Stands("OLD_CHECK_FULL", h) <=> Stands("OLD_CHECK_LEN", h)
  BY DEF Stands
<1>4. msg_buff \in Seq(0 .. 255) /\ RxTypeOK
  BY DEF RxInv, RxTypeOK
<1>5. CASE next_step = "RECV_START" /\ start_recv
  <2> DEFINE new == get_msg_head(msg_buff, MAGIC_WORD)
             old == get_msg_head(msg_buff, OLD_MAGIC_WORD)
  <2>1. CASE new # 0 /\ try_recv_head(new)
    <3>1. Stands("RECV_HEAD", new)
      BY <1>4, <2>1, HeadIsThere DEF Stands, Keyword, MAGIC_WORD
    <3> HIDE DEF new
    <3> QED
      BY <1>1, <1>2, <2>1, <3>1, NewMoves
  <2>2. CASE old # 0 /\ OldCheckLen(old)
    <3>1. Stands("OLD_CHECK_LEN", old)
      BY <1>4, <2>2, HeadIsThere DEF Stands, Keyword, OLD_MAGIC_WORD
    <3> HIDE DEF old
    <3> QED
      BY <1>1, <1>2, <1>4, <2>2, <3>1, OldMoves
  <2>3. CASE new = 0 /\ old = 0 /\ Continue("RECV_START", 0)
    <3>1. Waits(0)
      BY <2>3, Zenon DEF Continue, calls, Waits
    <3> QED
      BY <1>1, <3>1 DEF Moves
  <2> HIDE DEF new, old
  <2>4. \/ new # 0 /\ try_recv_head(new)
        \/ new = 0 /\ old # 0 /\ OldCheckLen(old)
        \/ new = 0 /\ old = 0 /\ Continue("RECV_START", 0) /\ UNCHANGED msg_len
    BY <1>5, Zenon DEF start_recv, new, old
  <2> QED
    BY <2>1, <2>2, <2>3, <2>4
<1>6. CASE next_step = "RECV_HEAD" /\ try_recv_head(head_pos)
  BY <1>1, <1>2, <1>6, KeptHead, NewMoves
<1>7. CASE next_step = "OLD_CHECK_LEN" /\ OldCheckLen(head_pos)
  BY <1>1, <1>2, <1>4, <1>7, KeptHead, OldMoves
<1>8. CASE /\ next_step = "OLD_CHECK_FULL"
           /\ try_recv_old_msg_body(head_pos, msg_len)
  <2>1. /\ Stands("OLD_CHECK_LEN", head_pos)
        /\ head_pos + 3 <= Len(msg_buff) /\ msg_len = msg_buff[head_pos + 3]
    BY <1>3, <1>8, KeptHead DEF RxInv, HeadStaysOnKeyword, LengthIsThere
  <2>2. try_recv_old_msg_body(head_pos, msg_buff[head_pos + 3])
    BY <1>8, <2>1
  <2> QED
    BY <1>1, <1>2, <2>1, <2>2, OldBodyMoves
<1> QED
  BY <1>5, <1>6, <1>7, <1>8, Zenon DEF Parse

-----------------------------------------------------------------------------
(* The stream: str is all that was ever sent, and off[k] is how much of it *)
(* came before the k-th frame.                                             *)
Laid(str, off) ==
  /\ str \in Seq(0 .. 255)
  /\ off \in [1 .. Len(sent) + 1 -> Nat]
  /\ off[1] = 0 /\ off[Len(sent) + 1] = Len(str)
  /\ \A i, j \in 1 .. Len(sent) + 1 : i < j => off[i] < off[j]
  /\ \A k \in 1 .. Len(sent) :
       /\ off[k + 1] = off[k] + Len(Bytes[sent[k]])
       /\ \A i \in 1 .. Len(Bytes[sent[k]]) : str[off[k] + i] = Bytes[sent[k]][i]

(* The call under way began to read after p bytes; what it read and what   *)
(* it has still to read is the rest of the stream.                         *)
ReadFrom(str, p) ==
  /\ p \in Nat /\ p + Len(msg_buff) + Len(wire) = Len(str)
  /\ \A i \in 1 .. Len(msg_buff) : msg_buff[i] = str[p + i]
  /\ \A i \in 1 .. Len(wire) : wire[i] = str[p + Len(msg_buff) + i]

(* The frames that were returned lie in the first p bytes.                 *)
Taken(off, p, at) ==
  /\ at \in [1 .. Len(received) -> 1 .. Len(sent)]
  /\ \A k \in 1 .. Len(received) :
       Package[sent[at[k]]] = <<received[k]>> /\ off[at[k] + 1] <= p
  /\ \A i, k \in 1 .. Len(received) : i < k => at[i] < at[k]

Cut == \E str, off, p, at : Laid(str, off) /\ ReadFrom(str, p) /\ Taken(off, p, at)

(* What a frame on a clean line is.                                        *)
LEMMA FrameIs ==
  ASSUME CleanLine, NEW f \in Frames
  PROVE  /\ Bytes[f] \in Seq(0 .. 255) /\ Len(Bytes[f]) \in Nat \ {0}
         /\ \/ NewFrame(Bytes[f], Package[f])
            \/ OldFrame(Bytes[f], Package[f])
            \/ Noise(Bytes[f], Package[f])
         /\ \A i \in 2 .. Len(Bytes[f]) - 1 : ~KeywordAt(Bytes[f], i)
<1>1. Bytes[f] \in Seq(0 .. 255) /\ Len(Bytes[f]) \in Nat
  BY ParserAssumption, LenProperties
<1>2. /\ \/ NewFrame(Bytes[f], Package[f])
         \/ OldFrame(Bytes[f], Package[f])
         \/ Noise(Bytes[f], Package[f])
      /\ \A i \in 2 .. Len(Bytes[f]) - 1 : ~KeywordAt(Bytes[f], i)
  BY DEF CleanLine
<1>3. Len(Bytes[f]) # 0
  BY <1>1, <1>2 DEF NewFrame, OldFrame, Noise, HEAD_LEN, OLD_HEAD_LEN
<1> QED
  BY <1>1, <1>2, <1>3

(* The keywords in the stream are the first two bytes of frames.           *)
LEMMA KeywordStartsFrame ==
  ASSUME CleanLine, sent \in Seq(Frames), NEW str, NEW off, Laid(str, off),
         NEW i \in 1 .. Len(str) - 1, KeywordAt(str, i)
  PROVE  \E k \in 1 .. Len(sent) : i = off[k] + 1 /\ Len(Bytes[sent[k]]) >= 2
<1> DEFINE n == Len(sent)
<1>1. n \in Nat /\ Len(str) \in Nat /\ i \in Nat \ {0}
  BY LenProperties DEF Laid
<1> HIDE DEF n
<1>2. PICK k \in 1 .. n : off[k] < i /\ i <= off[k + 1]
  <2> DEFINE S == {j \in 1 .. n + 1 : i <= off[j]}
  <2>1. S \in SUBSET Nat /\ n + 1 \in S
    BY <1>1 DEF Laid, n
  <2>2. PICK j \in S : \A l \in S : j <= l
    <3> HIDE DEF S
    <3> QED
      BY <2>1, Least
  <2>3. j # 1
    BY <1>1, <2>2 DEF Laid, n
  <2>4. j - 1 \in 1 .. n /\ j - 1 \notin S
    BY <1>1, <2>2, <2>3
  <2>5. off[j - 1] < i /\ i <= off[(j - 1) + 1]
    <3>1. off[j - 1] \in Nat /\ (j - 1) + 1 = j
      BY <1>1, <2>4 DEF Laid, n
    <3> QED
      BY <1>1, <2>2, <2>4, <3>1
  <2> QED
    BY <2>4, <2>5
<1> DEFINE b == Bytes[sent[k]]
           x == i - off[k]
<1>3. sent[k] \in Frames
  BY ElementOfSeq DEF n
<1>4. /\ b \in Seq(0 .. 255) /\ Len(b) \in Nat \ {0}
      /\ \A m \in 2 .. Len(b) - 1 : ~KeywordAt(b, m)
  BY <1>3, FrameIs
<1>5. /\ off[k] \in Nat /\ off[k + 1] = off[k] + Len(b)
      /\ \A m \in 1 .. Len(b) : str[off[k] + m] = b[m]
  <2>1. k \in 1 .. n + 1
    BY <1>1, <1>2
  <2>2. off[k] \in Nat
    BY <2>1 DEF Laid, n
  <2>3. k \in 1 .. Len(sent)
    BY <1>2 DEF n
  <2> QED
    BY <2>2, <2>3, Zenon DEF Laid
<1> HIDE DEF b
<1>6. x \in 1 .. Len(b) /\ off[k] + x = i /\ off[k] + (x + 1) = i + 1
  BY <1>1, <1>2, <1>4, <1>5
<1>7. str[i] = b[x]
  BY <1>5, <1>6
<1>8. CASE x < Len(b)
  <2>1. str[i + 1] = b[x + 1]
    <3>1. x + 1 \in 1 .. Len(b)
      BY <1>4, <1>6, <1>8
    <3> HIDE DEF x
    <3> QED
      BY <1>5, <1>6, <3>1
  <2>2. KeywordAt(b, x)
    <3> HIDE DEF x
    <3> QED
      BY <1>7, <2>1 DEF KeywordAt
  <2>3. x = 1
    <3>1. x \notin 2 .. Len(b) - 1
      BY <1>4, <2>2
    <3> QED
      BY <1>4, <1>6, <1>8, <3>1
  <2> QED
    BY <1>1, <1>2, <1>4, <1>5, <1>8, <2>3 DEF b, n
<1>9. CASE x = Len(b)
  <2>1. i = off[k + 1] /\ i < off[n + 1]
    BY <1>1, <1>4, <1>5, <1>9 DEF Laid, n
  <2>2. k + 1 \in 1 .. n
    BY <1>1, <2>1, <1>2
  <2> DEFINE g == sent[k + 1]
  <2>3. g \in Frames /\ Len(Bytes[g]) \in Nat \ {0}
    BY <2>2, ElementOfSeq, FrameIs DEF n
  <2>4. str[i + 1] = Bytes[g][1]
    <3>1. \A m \in 1 .. Len(Bytes[g]) : str[off[k + 1] + m] = Bytes[g][m]
      BY <2>2 DEF Laid, n
    <3> HIDE DEF g
    <3> QED
      BY <2>1, <2>3, <3>1
  <2>5. ~KeywordAt(<<b[Len(b)], Bytes[g][1]>>, 1)
    BY <1>3, <2>3 DEF CleanLine, b
  <2>6. <<str[i], str[i + 1]>> = <<b[Len(b)], Bytes[g][1]>>
    <3> HIDE DEF x, g
    <3> QED
      BY <1>7, <1>9, <2>4
  <2>7. KeywordAt(<<b[Len(b)], Bytes[g][1]>>, 1)
    <3> HIDE DEF g
    <3> QED
      BY <2>6 DEF KeywordAt
  <2> QED
    BY <2>5, <2>7
<1> QED
  BY <1>4, <1>6, <1>8, <1>9

(* Bytes of msg_buff that agree with those of a frame b are b.             *)
LEMMA SameBytes ==
  ASSUME msg_buff \in Seq(0 .. 255), NEW b \in Seq(0 .. 255), NEW h \in 1 .. Len(msg_buff),
         Len(b) \in Nat \ {0}, Avail(h) >= Len(b),
         \A i \in 1 .. Len(b) : msg_buff[h + i - 1] = b[i]
  PROVE  SubSeq(msg_buff, h, h + Len(b) - 1) = b
<1>1. Len(msg_buff) \in Nat
  BY LenProperties
<1>2. PICK m : m = h + Len(b) - 1
  OBVIOUS
<1>3. /\ h \in 1 .. Len(msg_buff) + 1 /\ m \in 0 .. Len(msg_buff)
      /\ h <= m /\ m - h + 1 = Len(b)
  BY <1>1, <1>2 DEF Avail
<1>4. /\ SubSeq(msg_buff, h, m) \in Seq(0 .. 255)
      /\ Len(SubSeq(msg_buff, h, m)) = m - h + 1
      /\ \A i \in 1 .. m - h + 1 : SubSeq(msg_buff, h, m)[i] = msg_buff[h + i - 1]
  <2>1. /\ SubSeq(msg_buff, h, m) \in Seq(0 .. 255)
        /\ Len(SubSeq(msg_buff, h, m)) = IF h <= m THEN m - h + 1 ELSE 0
        /\ \A i \in 1 .. m - h + 1 : SubSeq(msg_buff, h, m)[i] = msg_buff[h + i - 1]
    BY ONLY <1>3, msg_buff \in Seq(0 .. 255), SubSeqIn
  <2> QED
    BY ONLY <1>3, <2>1
<1>5. PICK raw : raw = SubSeq(msg_buff, h, m)
  OBVIOUS
<1>6. raw \in Seq(0 .. 255) /\ Len(raw) = Len(b) /\ \A i \in 1 .. Len(b) : raw[i] = b[i]
  BY <1>3, <1>4, <1>5
<1>7. raw = b
  BY <1>6, SeqEqual
<1> QED
  BY <1>2, <1>5, <1>7

(* A head that stands in msg_buff is the beginning of a frame.             *)
LEMMA HeadIsAFrame ==
  ASSUME CleanLine, RxTypeOK, NEW str, NEW off, NEW p, Laid(str, off), ReadFrom(str, p),
         NEW h \in Int, NEW step, Stands(step, h)
  PROVE  \E k \in 1 .. Len(sent) :
           /\ p + h = off[k] + 1
           /\ Len(Bytes[sent[k]]) >= 2
           /\ \A i \in 1 .. Len(Bytes[sent[k]]) :
                h + i - 1 <= Len(msg_buff) => msg_buff[h + i - 1] = Bytes[sent[k]][i]
<1>1. /\ sent \in Seq(Frames) /\ Len(msg_buff) \in Nat /\ Len(wire) \in Nat
      /\ h \in 1 .. Len(msg_buff) - 1 /\ p \in Nat /\ Len(str) \in Nat
      /\ p + Len(msg_buff) + Len(wire) = Len(str)
  BY LenProperties DEF RxTypeOK, Stands, ReadFrom, Laid
<1>2. str[p + h] = msg_buff[h] /\ str[p + (h + 1)] = msg_buff[h + 1]
  <2>1. h \in 1 .. Len(msg_buff) /\ h + 1 \in 1 .. Len(msg_buff)
    BY <1>1
  <2> QED
    BY <2>1 DEF ReadFrom
<1>3. p + h \in 1 .. Len(str) - 1 /\ p + (h + 1) = (p + h) + 1
  BY <1>1
<1>4. KeywordAt(str, p + h)
  BY <1>2, <1>3 DEF KeywordAt, Stands, Keyword
<1>5. PICK k \in 1 .. Len(sent) : p + h = off[k] + 1 /\ Len(Bytes[sent[k]]) >= 2
  BY <1>1, <1>3, <1>4, KeywordStartsFrame
<1>6. ASSUME NEW i \in 1 .. Len(Bytes[sent[k]]), h + i - 1 <= Len(msg_buff)
      PROVE  msg_buff[h + i - 1] = Bytes[sent[k]][i]
  <2>1. str[off[k] + i] = Bytes[sent[k]][i] /\ off[k] \in Nat
    <3>1. k \in 1 .. Len(sent) + 1
      BY LenProperties DEF RxTypeOK
    <3> QED
      BY <3>1 DEF Laid
  <2>2. i \in Nat /\ i >= 1
    BY <1>1, ElementOfSeq, ParserAssumption, LenProperties
  <2>3. h + i - 1 \in 1 .. Len(msg_buff) /\ p + (h + i - 1) = off[k] + i
    <3>1. PICK o, l : o = off[k] /\ l = Len(msg_buff)
      OBVIOUS
    <3>2. /\ h \in Nat /\ h >= 1 /\ h + i - 1 <= l /\ l \in Nat
          /\ p \in Nat /\ o \in Nat /\ p + h = o + 1
      BY <1>1, <1>5, <1>6, <2>1, <3>1
    <3>3. h + i - 1 \in 1 .. l /\ p + (h + i - 1) = o + i
      BY ONLY <2>2, <3>2
    <3> QED
      BY <3>1, <3>3
  <2> QED
    BY <2>1, <2>3 DEF ReadFrom
<1> QED
  BY <1>5, <1>6

(* What a round returns is the package of a frame of the stream.           *)
LEMMA TakesAFrame ==
  ASSUME CleanLine, RxTypeOK, NEW str, NEW off, NEW p, Laid(str, off), ReadFrom(str, p),
         NEW h \in Int, TakesNew(h) \/ TakesOld(h)
  PROVE  \E k \in 1 .. Len(sent) :
           /\ off[k] >= p /\ off[k + 1] <= p + Len(msg_buff)
           /\ Len(Package[sent[k]]) = 1 /\ Return(Package[sent[k]])
<1>1. PICK step : Stands(step, h)
  BY Zenon DEF TakesNew, TakesOld
<1>2. PICK k \in 1 .. Len(sent) :
        /\ p + h = off[k] + 1
        /\ Len(Bytes[sent[k]]) >= 2
        /\ \A i \in 1 .. Len(Bytes[sent[k]]) :
             h + i - 1 <= Len(msg_buff) => msg_buff[h + i - 1] = Bytes[sent[k]][i]
  BY <1>1, HeadIsAFrame
<1> DEFINE f == sent[k]
           b == Bytes[f]
<1>3. /\ f \in Frames /\ msg_buff \in Seq(0 .. 255) /\ Len(msg_buff) \in Nat
      /\ h \in 1 .. Len(msg_buff) - 1 /\ p \in Nat /\ off[k] \in Nat
      /\ off[k + 1] = off[k] + Len(b)
  <2>1. k \in 1 .. Len(sent) + 1 /\ sent \in Seq(Frames) /\ msg_buff \in Seq(0 .. 255)
    BY LenProperties DEF RxTypeOK
  <2> QED
    BY <1>1, <2>1, ElementOfSeq, LenProperties DEF Laid, ReadFrom, Stands
<1>4. /\ b \in Seq(0 .. 255) /\ Len(b) \in Nat \ {0}
      /\ NewFrame(b, Package[f]) \/ OldFrame(b, Package[f]) \/ Noise(b, Package[f])
  BY <1>3, FrameIs
<1> HIDE DEF f
<1>5. \A i \in 1 .. Len(b) : h + i - 1 <= Len(msg_buff) => msg_buff[h + i - 1] = b[i]
  BY <1>2 DEF f
<1> HIDE DEF b
<1>6. Keyword(h) = <<b[1], b[2]>>
  <2>1. 1 \in 1 .. Len(b) /\ 2 \in 1 .. Len(b) /\ h + 1 - 1 = h /\ h + 2 - 1 = h + 1
    BY <1>2, <1>3, <1>4 DEF b, f
  <2>2. h <= Len(msg_buff) /\ h + 1 <= Len(msg_buff)
    BY <1>3
  <2>3. msg_buff[h] = b[1] /\ msg_buff[h + 1] = b[2]
    BY <1>5, <2>1, <2>2
  <2> QED
    BY <2>3 DEF Keyword
<1>7. ASSUME Avail(h) >= Len(b)
      PROVE  /\ SubSeq(msg_buff, h, h + Len(b) - 1) = b
             /\ off[k] >= p /\ off[k + 1] <= p + Len(msg_buff)
  <2>1. h \in 1 .. Len(msg_buff) /\ Len(msg_buff) - h + 1 >= Len(b)
    BY <1>3, <1>7 DEF Avail
  <2>2. \A i \in 1 .. Len(b) : msg_buff[h + i - 1] = b[i]
    <3>1. \A i \in 1 .. Len(b) : h + i - 1 <= Len(msg_buff)
      BY <1>3, <1>4, <2>1
    <3> QED
      BY <1>5, <3>1
  <2>3. off[k] >= p /\ off[k + 1] <= p + Len(msg_buff)
    BY <1>2, <1>3, <1>4, <2>1
  <2> QED
    BY <1>3, <1>4, <1>7, <2>1, <2>2, <2>3, SameBytes
<1>8. CASE TakesNew(h)
  <2>1. /\ <<b[1], b[2]>> = MAGIC_WORD
        /\ Avail(h) >= 4 /\ msg_buff[h + 2] <= PKG /\ Avail(h) >= msg_buff[h + 2]
        /\ Return(<<SubSeq(msg_buff, h, h + msg_buff[h + 2] - 1)>>)
    BY <1>6, <1>8 DEF TakesNew, Stands, HEAD_LEN
  <2>2. Len(b) >= 3 => msg_buff[h + 2] = b[3]
    <3>1. h + 3 - 1 = h + 2 /\ h + 2 <= Len(msg_buff)
      BY <1>3, <2>1 DEF Avail
    <3> QED
      BY <1>4, <1>5, <3>1
  <2>3. NewFrame(b, Package[f])
    <3>1. ~OldFrame(b, Package[f])
      BY <2>1 DEF OldFrame, MAGIC_WORD, OLD_MAGIC_WORD
    <3>2. KeywordAt(b, 1)
      BY <2>1 DEF KeywordAt
    <3>3. ~Noise(b, Package[f])
      <4>1. SUFFICES ASSUME Len(b) >= 3, b[3] > PKG PROVE FALSE
        BY <1>2, <3>2 DEF Noise, b, f
      <4>2. b[3] \in 0 .. 255 /\ PKG \in Nat
        <5>1. 3 \in 1 .. Len(b)
          BY <1>4, <4>1
        <5> QED
          BY <1>4, <5>1, ElementOfSeq, ParserAssumption
      <4>3. PICK x : x = b[3]
        OBVIOUS
      <4>4. x \in Int /\ PKG \in Int /\ x > PKG
        <5>1. x \in 0 .. 255 /\ PKG \in Nat /\ x > PKG
          BY <4>1, <4>2, <4>3, Zenon
        <5> QED
          BY ONLY <5>1
      <4>5. x <= PKG
        BY <2>1, <2>2, <4>1, <4>3, Zenon
      <4> QED
        BY ONLY <4>4, <4>5
    <3> QED
      BY <1>4, <3>1, <3>3
  <2>4. Len(b) >= 3 /\ b[3] = Len(b) /\ Package[f] = <<b>>
    BY <2>3, <1>4, ParserAssumption DEF NewFrame, HEAD_LEN
  <2>5. Avail(h) >= Len(b) /\ Return(<<SubSeq(msg_buff, h, h + Len(b) - 1)>>)
    BY <2>1, <2>2, <2>4
  <2>6. Return(Package[f]) /\ Len(Package[f]) = 1
    BY <1>7, <2>4, <2>5
  <2> QED
    BY <1>7, <2>5, <2>6 DEF f
<1>9. CASE TakesOld(h)
  <2>1. /\ <<b[1], b[2]>> = OLD_MAGIC_WORD
        /\ h + 3 <= Len(msg_buff) /\ Avail(h) >= OldFrameLen(msg_buff[h + 3])
        /\ Return(<<convert_old_to_new(SubSeq(msg_buff, h, h + OldFrameLen(msg_buff[h + 3]) - 1))>>)
    BY <1>6, <1>9 DEF TakesOld, Stands
  <2>2. OldFrame(b, Package[f])
    <3>1. MAGIC_WORD # OLD_MAGIC_WORD
      BY DEF MAGIC_WORD, OLD_MAGIC_WORD
    <3>2. KeywordAt(b, 1)
      BY <2>1 DEF KeywordAt
    <3> QED
      BY <1>2, <1>4, <2>1, <3>1, <3>2 DEF NewFrame, Noise, b, f
  <2>3. /\ Len(b) >= 4 /\ Len(b) = OldFrameLen(b[4])
        /\ Package[f] = <<convert_old_to_new(b)>>
    BY <1>4, <2>2, ParserAssumption
    DEF OldFrame, OldFrameLen, OLD_HEAD_LEN, RX_BUFF_LEN
  <2>4. msg_buff[h + 3] = b[4]
    <3>1. h + 4 - 1 = h + 3 /\ 4 \in 1 .. Len(b)
      BY <1>3, <1>4, <2>3
    <3> QED
      BY <1>5, <2>1, <3>1
  <2>5. /\ Avail(h) >= Len(b)
        /\ Return(<<convert_old_to_new(SubSeq(msg_buff, h, h + Len(b) - 1))>>)
    BY <2>1, <2>3, <2>4
  <2>6. Return(Package[f]) /\ Len(Package[f]) = 1
    BY <1>7, <2>3, <2>5
  <2> QED
    BY <1>7, <2>5, <2>6 DEF f
<1> QED
  BY <1>8, <1>9

(* A return with one package adds it to those that were received.          *)
LEMMA OneMore ==
  ASSUME received \in Seq(Seq(Fields)), NEW w \in Seq(Seq(Fields)), Len(w) = 1, Return(w)
  PROVE  /\ Len(received) \in Nat /\ Len(received') = Len(received) + 1
         /\ \A i \in 1 .. Len(received) : received'[i] = received[i]
         /\ w = <<received'[Len(received) + 1]>>
<1>1. received' = received \o w
  BY Zenon DEF Return
<1>2. PICK more : more = received \o w
  OBVIOUS
<1>3. /\ Len(received) \in Nat /\ Len(more) = Len(received) + 1
      /\ \A i \in 1 .. Len(received) : more[i] = received[i]
      /\ \A i \in 1 .. 1 : more[Len(received) + i] = w[i]
  <2>1. /\ Len(received) \in Nat /\ Len(received \o w) = Len(received) + Len(w)
        /\ \A i \in 1 .. Len(received) : (received \o w)[i] = received[i]
        /\ \A i \in 1 .. Len(w) : (received \o w)[Len(received) + i] = w[i]
    BY ONLY received \in Seq(Seq(Fields)), w \in Seq(Seq(Fields)), ConcatIs
  <2> QED
    BY <1>2, <2>1
<1>4. w = <<w[1]>>
  <2>1. w[1] \in Seq(Fields)
    <3>1. 1 \in 1 .. Len(w)
      OBVIOUS
    <3> QED
      BY <3>1, ElementOfSeq
  <2>2. <<w[1]>> \in Seq(Seq(Fields)) /\ Len(<<w[1]>>) = 1
    BY <2>1
  <2> QED
    BY <2>2, SeqEqual
<1> QED
  BY <1>1, <1>2, <1>3, <1>4

(* A return with frame k: the call after it reads on behind that frame.    *)
LEMMA CutTakes ==
  ASSUME RxTypeOK, NEW str, NEW off, NEW p, NEW at,
         Laid(str, off), ReadFrom(str, p), Taken(off, p, at),
         NEW k \in 1 .. Len(sent), off[k] >= p, off[k + 1] <= p + Len(msg_buff),
         Len(Package[sent[k]]) = 1, Return(Package[sent[k]]), UNCHANGED line
  PROVE  Cut'
<1>0. PICK q, l : q = p + Len(msg_buff) /\ l = Len(received)
  OBVIOUS
<1> DEFINE to == [n \in 1 .. l + 1 |-> IF n <= l THEN at[n] ELSE k]
<1>1. /\ p \in Nat /\ q \in Nat /\ l \in Nat /\ Len(sent) \in Nat /\ q >= p
      /\ sent \in Seq(Frames) /\ received \in Seq(Seq(Fields)) /\ Len(wire) \in Nat
      /\ wire' = wire /\ sent' = sent /\ msg_buff' = << >>
      /\ received' = received \o Package[sent[k]]
  <2>1. /\ wire' = wire /\ sent' = sent /\ msg_buff' = << >>
        /\ received' = received \o Package[sent[k]]
    BY Zenon DEF Return, line
  <2>2. /\ sent \in Seq(Frames) /\ received \in Seq(Seq(Fields))
        /\ wire \in Seq(0 .. 255) /\ msg_buff \in Seq(0 .. 255) /\ p \in Nat
    BY Zenon DEF RxTypeOK, ReadFrom
  <2>3. /\ Len(sent) \in Nat /\ l \in Nat
        /\ Len(wire) \in Nat /\ Len(msg_buff) \in Nat
    <3>1. l = Len(received)
      BY <1>0
    <3> QED
      BY ONLY <2>2, <3>1, LenProperties
  <2>4. q \in Nat /\ q >= p
    <3>1. PICK m : m = Len(msg_buff)
      OBVIOUS
    <3>2. q = p + m /\ m \in Nat /\ p \in Nat
      BY <1>0, <2>2, <2>3, <3>1
    <3> QED
      BY ONLY <3>2
  <2> QED
    BY <2>1, <2>2, <2>3, <2>4
<1>2. Laid(str, off)'
  BY <1>1 DEF Laid
<1>3. ReadFrom(str, q)'
  BY <1>0, <1>1 DEF ReadFrom
<1>4. /\ Len(received') = l + 1
      /\ \A i \in 1 .. l : received'[i] = received[i]
      /\ Package[sent[k]] = <<received'[l + 1]>>
  <2>1. Package[sent[k]] \in Seq(Seq(Fields))
    BY <1>1, ElementOfSeq, ParserAssumption
  <2> QED
    BY <1>0, <1>1, <2>1, OneMore
<1>5. /\ \A i \in 1 .. l : at[i] \in 1 .. Len(sent)
      /\ \A i \in 1 .. l : Package[sent[at[i]]] = <<received[i]>> /\ off[at[i] + 1] <= p
      /\ \A i, n \in 1 .. l : i < n => at[i] < at[n]
  BY <1>0 DEF Taken
<1>6. \A i \in 1 .. l : at[i] < k /\ off[at[i] + 1] <= q
  <2>1. TAKE i \in 1 .. l
  <2>2. PICK a : a = at[i]
    OBVIOUS
  <2>3. /\ a \in 1 .. Len(sent) /\ off[a + 1] <= p
        /\ a + 1 \in 1 .. Len(sent) + 1 /\ k \in 1 .. Len(sent) + 1
    BY <1>1, <1>5, <2>2
  <2>4. off[a + 1] \in Nat /\ off[k] \in Nat /\ (k < a + 1 => off[k] < off[a + 1])
    BY <2>3 DEF Laid
  <2>5. ~(k < a + 1)
    <3>1. PICK x, y : x = off[k] /\ y = off[a + 1]
      OBVIOUS
    <3>2. x \in Nat /\ y \in Nat /\ (k < a + 1 => x < y) /\ y <= p /\ x >= p /\ p \in Nat
      BY <1>1, <2>3, <2>4, <3>1
    <3> QED
      BY ONLY <3>2
  <2>6. a < k
    <3>1. a \in Nat /\ k \in Nat
      BY <1>1, <2>3
    <3> QED
      BY ONLY <2>5, <3>1
  <2>7. off[a + 1] <= q
    <3>1. PICK y : y = off[a + 1]
      OBVIOUS
    <3>2. y \in Nat /\ y <= p /\ p \in Nat /\ q \in Nat /\ q >= p
      BY <1>1, <2>3, <2>4, <3>1
    <3>3. y <= q
      BY ONLY <3>2
    <3> QED
      BY <3>1, <3>3
  <2> QED
    BY <2>2, <2>6, <2>7
<1>7. Taken(off, q, to)'
  <2>1. to \in [1 .. l + 1 -> 1 .. Len(sent)]
    BY <1>1, <1>5
  <2>2. ASSUME NEW i \in 1 .. l + 1
        PROVE  Package[sent[to[i]]] = <<received'[i]>> /\ off[to[i] + 1] <= q
    <3>1. CASE i <= l
      <4>1. i \in 1 .. l /\ to[i] = at[i]
        BY <1>1, <3>1
      <4> QED
        BY <1>4, <1>5, <1>6, <4>1
    <3>2. CASE ~(i <= l)
      <4>1. i = l + 1 /\ to[i] = k
        BY <1>1, <3>2
      <4> QED
        BY <1>0, <1>4, <4>1
    <3> QED
      BY <3>1, <3>2
  <2>3. ASSUME NEW i \in 1 .. l + 1, NEW n \in 1 .. l + 1, i < n
        PROVE  to[i] < to[n]
    <3>1. i \in 1 .. l /\ to[i] = at[i]
      BY <1>1, <2>3
    <3>2. CASE n <= l
      BY <1>1, <1>5, <2>3, <3>1, <3>2
    <3>3. CASE ~(n <= l)
      BY <1>1, <1>6, <2>3, <3>1, <3>3
    <3> QED
      BY <3>2, <3>3
  <2>4. PICK too : too = to
    OBVIOUS
  <2> HIDE DEF to
  <2>5. Taken(off, q, too)'
    BY <1>1, <1>4, <2>1, <2>2, <2>3, <2>4 DEF Taken
  <2> QED
    BY <2>4, <2>5
<1> QED
  BY <1>2, <1>3, <1>7 DEF Cut

(* A return without a frame: what was read is dropped, and n bytes more.   *)
LEMMA CutDrops ==
  ASSUME RxTypeOK, Cut, Return(<< >>), sent' = sent,
         NEW n \in Nat, Len(wire') \in Nat, Len(wire') + n = Len(wire),
         \A i \in 1 .. Len(wire') : wire'[i] = wire[n + i]
  PROVE  Cut'
<1>1. PICK str, off, p, at : Laid(str, off) /\ ReadFrom(str, p) /\ Taken(off, p, at)
  BY DEF Cut
<1>0. PICK q : q = p + Len(msg_buff) + n
  OBVIOUS
<1>2. /\ p \in Nat /\ Len(msg_buff) \in Nat /\ q \in Nat /\ q >= p
      /\ received \in Seq(Seq(Fields)) /\ Len(sent) \in Nat
      /\ msg_buff' = << >> /\ received' = received
  <2>1. received \o << >> = received
    BY DEF RxTypeOK
  <2> QED
    BY <1>0, <1>1, <2>1, LenProperties DEF RxTypeOK, ReadFrom, Return
<1>3. Laid(str, off)'
  BY <1>1 DEF Laid
<1>4. ReadFrom(str, q)'
  <2>1. /\ p + Len(msg_buff) + Len(wire) = Len(str)
        /\ \A i \in 1 .. Len(wire) : wire[i] = str[p + Len(msg_buff) + i]
    BY <1>1 DEF ReadFrom
  <2>2. q + 0 + Len(wire') = Len(str)
    <3>1. PICK m, w, x, y : m = Len(msg_buff) /\ w = Len(wire) /\ x = Len(wire') /\ y = Len(str)
      OBVIOUS
    <3>2. /\ m \in Nat /\ x \in Nat /\ n \in Nat /\ p \in Nat
          /\ x + n = w /\ p + m + w = y /\ q = p + m + n
      BY <1>0, <1>2, <2>1, <3>1
    <3>3. q + 0 + x = y
      BY ONLY <3>2
    <3> QED
      BY <3>1, <3>3
  <2>3. \A i \in 1 .. Len(wire') : wire'[i] = str[q + 0 + i]
    <3>1. TAKE i \in 1 .. Len(wire')
    <3>2. n + i \in 1 .. Len(wire) /\ p + Len(msg_buff) + (n + i) = q + 0 + i
      BY <1>0, <1>2
    <3> QED
      BY <2>1, <3>2
  <2> QED
    BY <1>2, <2>2, <2>3 DEF ReadFrom
<1>5. Taken(off, q, at)'
  <2>1. \A k \in 1 .. Len(received) : off[at[k] + 1] \in Nat
    <3>1. TAKE k \in 1 .. Len(received)
    <3>2. at[k] \in 1 .. Len(sent)
      BY <1>1 DEF Taken
    <3>3. at[k] + 1 \in 1 .. Len(sent) + 1
      <4>1. PICK a, l : a = at[k] /\ l = Len(sent)
        OBVIOUS
      <4>2. a \in 1 .. l /\ l \in Nat
        BY <1>2, <3>2, <4>1
      <4>3. a + 1 \in 1 .. l + 1
        BY ONLY <4>2
      <4> QED
        BY <4>1, <4>3
    <3> QED
      BY <1>1, <3>3 DEF Laid
  <2>2. \A k \in 1 .. Len(received) : off[at[k] + 1] <= p
    BY <1>1 DEF Taken
  <2>3. \A k \in 1 .. Len(received) : off[at[k] + 1] <= q
    <3> QED
      BY <1>2, <2>1, <2>2
  <2> QED
    BY <1>1, <1>2, <2>3 DEF Taken
<1> QED
  BY <1>3, <1>4, <1>5 DEF Cut

(* read() moves bytes from the line to the buffer.                         *)
LEMMA ReadsOn ==
  ASSUME RxTypeOK, NEW str, NEW p, ReadFrom(str, p), NEW n \in 1 .. Len(wire),
         msg_buff' = msg_buff \o SubSeq(wire, 1, n),
         wire' = SubSeq(wire, n + 1, Len(wire))
  PROVE  ReadFrom(str, p)'
<1>1. /\ wire \in Seq(0 .. 255) /\ msg_buff \in Seq(0 .. 255)
      /\ Len(wire) \in Nat /\ Len(msg_buff) \in Nat /\ n \in Nat /\ n >= 1 /\ n <= Len(wire)
      /\ p \in Nat /\ p + Len(msg_buff) + Len(wire) = Len(str)
  BY LenProperties DEF RxTypeOK, ReadFrom
<1>2. /\ SubSeq(wire, 1, n) \in Seq(0 .. 255) /\ Len(SubSeq(wire, 1, n)) = n
      /\ \A i \in 1 .. n : SubSeq(wire, 1, n)[i] = wire[i]
  <2>1. 1 \in 1 .. Len(wire) + 1 /\ n \in 0 .. Len(wire)
    BY <1>1
  <2>2. /\ SubSeq(wire, 1, n) \in Seq(0 .. 255)
        /\ Len(SubSeq(wire, 1, n)) = IF 1 <= n THEN n - 1 + 1 ELSE 0
        /\ \A i \in 1 .. n - 1 + 1 : SubSeq(wire, 1, n)[i] = wire[1 + i - 1]
    BY ONLY <1>1, <2>1, SubSeqIn
  <2>3. \A i \in 1 .. n : i \in 1 .. n - 1 + 1 /\ 1 + i - 1 = i
    BY <1>1
  <2> QED
    BY <1>1, <2>2, <2>3
<1>3. /\ Len(wire') \in Nat /\ Len(wire') + n = Len(wire)
      /\ \A i \in 1 .. Len(wire') : wire'[i] = wire[n + i]
  BY <1>1, Remainder
<1>4. PICK head : head = SubSeq(wire, 1, n)
  OBVIOUS
<1>5. /\ Len(msg_buff') = Len(msg_buff) + n
      /\ \A i \in 1 .. Len(msg_buff) : msg_buff'[i] = msg_buff[i]
      /\ \A i \in 1 .. n : msg_buff'[Len(msg_buff) + i] = wire[i]
  <2>1. /\ Len(msg_buff \o head) = Len(msg_buff) + Len(head)
        /\ \A i \in 1 .. Len(msg_buff) : (msg_buff \o head)[i] = msg_buff[i]
        /\ \A i \in 1 .. Len(head) : (msg_buff \o head)[Len(msg_buff) + i] = head[i]
    BY <1>1, <1>2, <1>4, ConcatIs
  <2> QED
    BY <1>2, <1>4, <2>1
<1>6. p + Len(msg_buff') + Len(wire') = Len(str)
  <2>1. PICK m, w, x, z : /\ m = Len(msg_buff) /\ w = Len(wire)
                          /\ x = Len(wire') /\ z = Len(msg_buff')
    OBVIOUS
  <2>2. /\ m \in Nat /\ w \in Nat /\ n \in Nat /\ p \in Nat
        /\ p + m + w = Len(str) /\ x \in Nat /\ x + n = w /\ z = m + n
    BY <1>1, <1>3, <1>5, <2>1
  <2>3. p + z + x = p + m + w
    BY ONLY <2>2
  <2> QED
    BY <2>1, <2>2, <2>3
<1>7. \A i \in 1 .. Len(wire') : wire'[i] = str[p + Len(msg_buff') + i]
  <2>1. TAKE i \in 1 .. Len(wire')
  <2>2. /\ n + i \in 1 .. Len(wire)
        /\ p + Len(msg_buff) + (n + i) = p + Len(msg_buff') + i
    BY <1>1, <1>3, <1>5
  <2> QED
    BY <1>3, <2>2 DEF ReadFrom
<1>8. \A i \in 1 .. Len(msg_buff') : msg_buff'[i] = str[p + i]
  <2>1. TAKE i \in 1 .. Len(msg_buff')
  <2>2. CASE i <= Len(msg_buff)
    <3>1. i \in 1 .. Len(msg_buff)
      BY <1>1, <1>5, <2>2
    <3> QED
      BY <1>5, <3>1 DEF ReadFrom
  <2>3. CASE ~(i <= Len(msg_buff))
    <3>1. PICK x \in 1 .. n : i = Len(msg_buff) + x
      <4>1. i - Len(msg_buff) \in 1 .. n /\ i = Len(msg_buff) + (i - Len(msg_buff))
        BY <1>1, <1>5, <2>3
      <4> QED
        BY <4>1
    <3>2. x \in 1 .. Len(wire) /\ p + Len(msg_buff) + x = p + i
      BY <1>1, <3>1
    <3>3. msg_buff'[i] = wire[x]
      BY <1>5, <3>1
    <3> QED
      BY <3>2, <3>3 DEF ReadFrom
  <2> QED
    BY <2>2, <2>3
<1> QED
  BY <1>1, <1>6, <1>7, <1>8 DEF ReadFrom

(* The peer sends f: the stream grows by its bytes.                        *)
LEMMA StreamGrows ==
  ASSUME CleanLine, RxTypeOK, NEW f \in Frames,
         NEW str, NEW off, NEW p, Laid(str, off), ReadFrom(str, p),
         wire' = wire \o Bytes[f], sent' = Append(sent, f), msg_buff' = msg_buff
  PROVE  \E longer, offs :
           /\ Laid(longer, offs)' /\ ReadFrom(longer, p)'
           /\ \A k \in 1 .. Len(sent) + 1 : offs[k] = off[k]
<1>1. PICK b, n, m : b = Bytes[f] /\ n = Len(sent) /\ m = Len(str)
  OBVIOUS
<1>2. b \in Seq(0 .. 255) /\ Len(b) \in Nat \ {0}
  BY <1>1, FrameIs
<1>3. /\ sent \in Seq(Frames) /\ wire \in Seq(0 .. 255) /\ str \in Seq(0 .. 255)
      /\ n \in Nat /\ m \in Nat /\ Len(wire) \in Nat /\ Len(msg_buff) \in Nat
  BY <1>1, LenProperties DEF RxTypeOK, Laid
<1>4. PICK longer, offs : /\ longer = str \o b
                          /\ offs = [k \in 1 .. n + 2 |-> IF k <= n + 1 THEN off[k] ELSE m + Len(b)]
  OBVIOUS
<1>5. /\ longer \in Seq(0 .. 255) /\ Len(longer) = m + Len(b)
      /\ \A i \in 1 .. m : longer[i] = str[i]
      /\ \A i \in 1 .. Len(b) : longer[m + i] = b[i]
  <2>1. /\ str \o b \in Seq(0 .. 255) /\ Len(str \o b) = Len(str) + Len(b)
        /\ \A i \in 1 .. Len(str) : (str \o b)[i] = str[i]
        /\ \A i \in 1 .. Len(b) : (str \o b)[Len(str) + i] = b[i]
    BY ONLY <1>2, <1>3, ConcatIs
  <2> QED
    BY ONLY <1>1, <1>4, <2>1
<1>6. /\ Len(wire') = Len(wire) + Len(b)
      /\ \A i \in 1 .. Len(wire) : wire'[i] = wire[i]
      /\ \A i \in 1 .. Len(b) : wire'[Len(wire) + i] = b[i]
  BY <1>1, <1>2, <1>3, ConcatIs
<1>7. /\ Len(sent') = n + 1 /\ \A i \in 1 .. n : sent'[i] = sent[i]
      /\ sent'[n + 1] = f
  BY <1>1, <1>3, AppendProperties
<1>8. /\ off \in [1 .. n + 1 -> Nat] /\ off[1] = 0 /\ off[n + 1] = m
      /\ \A i, j \in 1 .. n + 1 : i < j => off[i] < off[j]
      /\ \A k \in 1 .. n :
           /\ off[k + 1] = off[k] + Len(Bytes[sent[k]])
           /\ \A i \in 1 .. Len(Bytes[sent[k]]) : str[off[k] + i] = Bytes[sent[k]][i]
  BY <1>1 DEF Laid
<1>9. /\ \A k \in 1 .. n + 1 : offs[k] = off[k] /\ off[k] \in Nat /\ off[k] <= m
      /\ offs[n + 2] = m + Len(b)
  <2>1. /\ \A k \in 1 .. n + 1 : k \in 1 .. n + 2 /\ k <= n + 1 /\ n + 1 \in 1 .. n + 1
        /\ n + 2 \in 1 .. n + 2 /\ ~(n + 2 <= n + 1)
    BY <1>3
  <2>2. \A k \in 1 .. n + 1 : k < n + 1 \/ k = n + 1
    BY <1>3
  <2>3. \A k \in 1 .. n + 1 : off[k] \in Nat /\ off[k] <= m
    <3>1. TAKE k \in 1 .. n + 1
    <3>2. PICK x : x = off[k]
      OBVIOUS
    <3>3. x \in Nat /\ (x < m \/ x = m)
      BY <1>8, <2>1, <2>2, <3>2
    <3>4. x <= m
      BY ONLY <1>3, <3>3
    <3> QED
      BY <3>2, <3>3, <3>4
  <2> QED
    BY <1>4, <2>1, <2>3
<1>10. Laid(longer, offs)'
  <2>1. offs \in [1 .. (n + 1) + 1 -> Nat]
    <3>1. m + Len(b) \in Nat /\ (n + 1) + 1 = n + 2
      BY <1>2, <1>3
    <3>2. \A k \in 1 .. n + 2 : k <= n + 1 => k \in 1 .. n + 1
      BY <1>3
    <3> QED
      BY <1>4, <1>8, <3>1, <3>2
  <2>2. offs[1] = 0
    BY <1>3, <1>8, <1>9
  <2>3. ASSUME NEW i \in 1 .. n + 2, NEW j \in 1 .. n + 2, i < j
        PROVE  offs[i] < offs[j]
    <3>1. i \in 1 .. n + 1
      BY <1>3, <2>3
    <3>2. CASE j <= n + 1
      BY <1>3, <1>8, <1>9, <2>3, <3>1, <3>2
    <3>3. CASE ~(j <= n + 1)
      <4>1. j = n + 2
        BY <1>3, <3>3
      <4>2. PICK x, y : x = off[i] /\ y = Len(b)
        OBVIOUS
      <4>3. x \in Nat /\ x <= m /\ y \in Nat \ {0}
        BY <1>2, <1>9, <3>1, <4>2
      <4>4. x < m + y
        BY ONLY <1>3, <4>3
      <4> QED
        BY <1>9, <3>1, <4>1, <4>2, <4>4
    <3> QED
      BY <3>2, <3>3
  <2>4. ASSUME NEW k \in 1 .. n + 1
        PROVE  /\ offs[k + 1] = offs[k] + Len(Bytes[sent'[k]])
               /\ \A i \in 1 .. Len(Bytes[sent'[k]]) : longer[offs[k] + i] = Bytes[sent'[k]][i]
    <3>1. CASE k = n + 1
      <4>1. sent'[k] = f /\ offs[k] = m /\ offs[k + 1] = m + Len(b)
        <5>1. k + 1 = n + 2 /\ k \in 1 .. n + 1
          BY <1>3, <3>1
        <5> QED
          BY <1>7, <1>8, <1>9, <3>1, <5>1
      <4> QED
        BY <1>1, <1>5, <4>1
    <3>2. CASE k # n + 1
      <4>1. k \in 1 .. n /\ k + 1 \in 1 .. n + 1
        BY <1>3, <3>2
      <4>2. PICK g : g = Bytes[sent[k]]
        OBVIOUS
      <4>3. /\ g = Bytes[sent'[k]] /\ offs[k] = off[k] /\ offs[k + 1] = off[k + 1]
            /\ off[k + 1] = off[k] + Len(g)
            /\ \A i \in 1 .. Len(g) : str[off[k] + i] = g[i]
            /\ off[k] \in Nat /\ off[k + 1] <= m
        BY <1>7, <1>8, <1>9, <4>1, <4>2
      <4>4. ASSUME NEW i \in 1 .. Len(g)
            PROVE  longer[off[k] + i] = g[i]
        <5>1. PICK o, l : o = off[k] /\ l = Len(g)
          OBVIOUS
        <5>2. l \in Nat /\ o \in Nat /\ o + l <= m /\ i \in 1 .. l
          <6>1. g \in Seq(0 .. 255)
            BY <1>3, <4>1, <4>2, ElementOfSeq, ParserAssumption, <1>1
          <6> QED
            BY <4>3, <5>1, <6>1, LenProperties
        <5>3. o + i \in 1 .. m
          BY ONLY <1>3, <5>2
        <5> QED
          BY <1>5, <4>3, <5>1, <5>3
      <4> QED
        BY <4>3, <4>4
    <3> QED
      BY <3>1, <3>2
  <2>5. /\ Len(sent') + 1 = n + 2 /\ (n + 1) + 1 = n + 2 /\ Len(sent') = n + 1
        /\ offs[n + 2] = Len(longer)
    <3>1. Len(sent') = n + 1 /\ offs[n + 2] = Len(longer)
      BY <1>5, <1>7, <1>9, Zenon
    <3>2. (n + 1) + 1 = n + 2
      BY <1>3
    <3> QED
      BY ONLY <3>1, <3>2, Zenon
  <2>6. \A i, j \in 1 .. n + 2 : i < j => offs[i] < offs[j]
    BY <2>3
  <2>7. \A k \in 1 .. n + 1 :
          /\ offs[k + 1] = offs[k] + Len(Bytes[sent'[k]])
          /\ \A i \in 1 .. Len(Bytes[sent'[k]]) : longer[offs[k] + i] = Bytes[sent'[k]][i]
    BY <2>4
  <2> QED
    BY ONLY <1>5, <2>1, <2>2, <2>5, <2>6, <2>7, Zenon DEF Laid
<1>11. ReadFrom(longer, p)'
  <2>1. PICK x, w, l : x = Len(msg_buff) /\ w = Len(wire) /\ l = Len(b)
    OBVIOUS
  <2>2. /\ p \in Nat /\ x \in Nat /\ w \in Nat /\ l \in Nat /\ m \in Nat /\ p + x + w = m
        /\ \A i \in 1 .. x : msg_buff[i] = str[p + i]
        /\ \A i \in 1 .. w : wire[i] = str[p + x + i]
    BY <1>1, <1>2, <1>3, <2>1 DEF ReadFrom
  <2>3. /\ \A i \in 1 .. x : p + i \in 1 .. m
        /\ \A i \in 1 .. w : p + x + i \in 1 .. m
        /\ p + x + (w + l) = m + l
    BY ONLY <2>2
  <2>4. \A i \in 1 .. x : msg_buff[i] = longer[p + i]
    BY <1>5, <2>2, <2>3
  <2>5. \A i \in 1 .. w + l : wire'[i] = longer[p + x + i]
    <3>1. TAKE i \in 1 .. w + l
    <3>2. CASE i <= w
      <4>1. i \in 1 .. w
        BY <2>2, <3>2
      <4> QED
        BY <1>5, <1>6, <2>1, <2>2, <2>3, <4>1
    <3>3. CASE ~(i <= w)
      <4>1. PICK j \in 1 .. l : i = w + j /\ p + x + i = m + j
        <5>1. i - w \in 1 .. l /\ i = w + (i - w) /\ p + x + i = m + (i - w)
          BY ONLY <2>2, <3>3, i \in 1 .. w + l
        <5> QED
          BY <5>1
      <4> QED
        BY <1>5, <1>6, <2>1, <4>1
    <3> QED
      BY <3>2, <3>3
  <2>6. /\ Len(msg_buff') = x /\ msg_buff' = msg_buff /\ Len(wire') = w + l
        /\ Len(longer) = m + l
    BY <1>5, <1>6, <2>1
  <2> QED
    BY <2>2, <2>3, <2>4, <2>5, <2>6 DEF ReadFrom
<1> QED
  BY <1>1, <1>9, <1>10, <1>11

LEMMA CutSends ==
  ASSUME CleanLine, RxTypeOK, Cut, NEW f \in Frames,
         wire' = wire \o Bytes[f], sent' = Append(sent, f),
         UNCHANGED <<msg_buff, received>>
  PROVE  Cut'
<1>1. PICK str, off, p, at : Laid(str, off) /\ ReadFrom(str, p) /\ Taken(off, p, at)
  BY DEF Cut
<1>2. PICK longer, offs : /\ Laid(longer, offs)' /\ ReadFrom(longer, p)'
                          /\ \A k \in 1 .. Len(sent) + 1 : offs[k] = off[k]
  BY <1>1, StreamGrows
<1>3. PICK n : n = Len(sent) /\ n \in Nat
  BY LenProperties DEF RxTypeOK
<1>4. Len(sent') = n + 1 /\ \A i \in 1 .. n : sent'[i] = sent[i]
  BY <1>3, AppendProperties DEF RxTypeOK
<1>5. Taken(offs, p, at)'
  <2>1. /\ at \in [1 .. Len(received) -> 1 .. n]
        /\ \A k \in 1 .. Len(received) :
             Package[sent[at[k]]] = <<received[k]>> /\ off[at[k] + 1] <= p
        /\ \A i, k \in 1 .. Len(received) : i < k => at[i] < at[k]
    BY <1>1, <1>3 DEF Taken
  <2>2. \A i \in 1 .. n : i \in 1 .. n + 1 /\ i + 1 \in 1 .. n + 1
    BY <1>3
  <2>3. at \in [1 .. Len(received) -> 1 .. n + 1]
    BY <2>1, <2>2
  <2>4. \A k \in 1 .. Len(received) :
          Package[sent'[at[k]]] = <<received[k]>> /\ offs[at[k] + 1] <= p
    BY <1>2, <1>3, <1>4, <2>1, <2>2
  <2>5. received' = received
    OBVIOUS
  <2> QED
    BY <1>4, <2>1, <2>3, <2>4, <2>5 DEF Taken
<1> QED
  BY <1>2, <1>5 DEF Cut

LEMMA CutInit == Init => Cut
<1>1. SUFFICES ASSUME Init PROVE Cut
  OBVIOUS
<1>2. wire = << >> /\ sent = << >> /\ msg_buff = << >> /\ received = << >>
  BY <1>1 DEF Init
<1>3. PICK off, at : off = [k \in 1 .. 1 |-> 0] /\ at = [k \in 1 .. 0 |-> 0]
  OBVIOUS
<1>4. Laid(<< >>, off) /\ ReadFrom(<< >>, 0) /\ Taken(off, 0, at)
  BY <1>2, <1>3 DEF Laid, ReadFrom, Taken
<1> QED
  BY <1>4 DEF Cut

LEMMA CutKept ==
  ASSUME Cut, wire' = wire, sent' = sent, msg_buff' = msg_buff, received' = received
  PROVE  Cut'
<1>1. PICK str, off, p, at : Laid(str, off) /\ ReadFrom(str, p) /\ Taken(off, p, at)
  BY DEF Cut
<1>2. Laid(str, off)'
  BY <1>1 DEF Laid
<1>3. ReadFrom(str, p)'
  BY <1>1 DEF ReadFrom
<1>4. Taken(off, p, at)'
  BY <1>1 DEF Taken
<1> QED
  BY <1>2, <1>3, <1>4 DEF Cut

LEMMA CutStep ==
  ASSUME CleanLine, RxInv, Cut, [Next]_vars
  PROVE  Cut'
<1>1. /\ RxTypeOK /\ wire \in Seq(0 .. 255) /\ Len(wire) \in Nat
  BY LenProperties DEF RxInv, RxTypeOK
<1>2. ASSUME NEW f \in Frames, Transmit(f) PROVE Cut'
  <2>1. /\ wire' = wire \o Bytes[f] /\ sent' = Append(sent, f)
        /\ UNCHANGED <<msg_buff, received>>
    BY <1>2, Zenon DEF Transmit, calls
  <2> QED
    BY <1>1, <2>1, CutSends
<1>3. CASE Parse
  <2>1. PICK h \in Int : UNCHANGED line /\ Moves(h)
    BY <1>3, ParseMoves
  <2>2. wire' = wire /\ sent' = sent
    BY <2>1, Zenon DEF line
  <2>3. CASE Waits(h)
    <3>1. msg_buff' = msg_buff /\ received' = received
      BY <2>3, Zenon DEF Waits
    <3> QED
      BY <2>2, <3>1, CutKept
  <2>4. CASE Rejects(h)
    <3>1. Return(<< >>)
      BY <2>4, Zenon DEF Rejects
    <3>2. /\ Len(wire') \in Nat /\ Len(wire') + 0 = Len(wire)
          /\ \A i \in 1 .. Len(wire') : wire'[i] = wire[0 + i]
      BY <1>1, <2>2
    <3> QED
      BY <1>1, <2>2, <3>1, <3>2, CutDrops
  <2>5. CASE TakesNew(h) \/ TakesOld(h)
    <3>1. PICK str, off, p, at : Laid(str, off) /\ ReadFrom(str, p) /\ Taken(off, p, at)
      BY DEF Cut
    <3>2. PICK k \in 1 .. Len(sent) :
            /\ off[k] >= p /\ off[k + 1] <= p + Len(msg_buff)
            /\ Len(Package[sent[k]]) = 1 /\ Return(Package[sent[k]])
      BY <1>1, <2>5, <3>1, TakesAFrame
    <3> QED
      BY <1>1, <2>1, <3>1, <3>2, CutTakes
  <2> QED
    BY <2>1, <2>3, <2>4, <2>5, Zenon DEF Moves
<1>4. CASE recv_raw_data
  <2>1. PICK n \in 1 .. PKG :
          /\ n <= Len(wire) /\ wire' = SubSeq(wire, n + 1, Len(wire))
          /\ \/ /\ msg_buff' = msg_buff \o SubSeq(wire, 1, n) /\ UNCHANGED calls
             \/ Return(<< >>)
    BY <1>4, Zenon DEF recv_raw_data
  <2>2. sent' = sent
    BY <1>4, Zenon DEF recv_raw_data
  <2>3. n \in Nat /\ n \in 1 .. Len(wire)
    BY <1>1, <2>1, ParserAssumption
  <2>4. CASE msg_buff' = msg_buff \o SubSeq(wire, 1, n) /\ UNCHANGED calls
    <3>1. received' = received
      BY <2>4, Zenon DEF calls
    <3>2. PICK str, off, p, at : Laid(str, off) /\ ReadFrom(str, p) /\ Taken(off, p, at)
      BY DEF Cut
    <3>3. ReadFrom(str, p)'
      BY <1>1, <2>1, <2>3, <2>4, <3>2, ReadsOn
    <3>4. Laid(str, off)' /\ Taken(off, p, at)'
      BY <2>2, <3>1, <3>2 DEF Laid, Taken
    <3> QED
      BY <3>3, <3>4 DEF Cut
  <2>5. CASE Return(<< >>)
    <3>1. /\ Len(wire') \in Nat /\ Len(wire') + n = Len(wire)
          /\ \A i \in 1 .. Len(wire') : wire'[i] = wire[n + i]
      BY <1>1, <2>1, <2>3, Remainder
    <3> QED
      BY <1>1, <2>2, <2>3, <2>5, <3>1, CutDrops
  <2> QED
    BY <2>1, <2>4, <2>5
<1>5. CASE UNCHANGED vars
  <2>1. wire' = wire /\ sent' = sent /\ msg_buff' = msg_buff /\ received' = received
    BY <1>5, Zenon DEF vars, line, calls
  <2> QED
    BY <2>1, CutKept
<1> QED
  BY <1>2, <1>3, <1>4, <1>5 DEF Next

(* On a line on which keywords only start frames, and however read() cuts  *)
(* the stream and wherever in it a call of try_recv_full_msg begins, every *)
(* package it returns was sent, each once and in the order of sending.     *)
THEOREM OnlyFramesArrive ==
  ASSUME CleanLine
  PROVE  Spec => []OnlySentFrames
<1>1. Init => RxInv /\ Cut
  BY RxInit, CutInit
<1>2. (RxInv /\ Cut) /\ [Next]_vars => (RxInv /\ Cut)'
  BY RxStep, CutStep
<1>3. RxInv /\ Cut => OnlySentFrames
  <2>1. SUFFICES ASSUME RxInv, Cut PROVE OnlySentFrames
    OBVIOUS
  <2>2. PICK off, p, at : Taken(off, p, at)
    BY <2>1 DEF Cut
  <2>3. DOMAIN received = 1 .. Len(received)
    BY <2>1, LenProperties DEF RxInv, RxTypeOK
  <2> QED
    BY <2>2, <2>3 DEF Taken, OnlySentFrames
<1> QED
  BY <1>1, <1>2, <1>3, PTL DEF Spec

-----------------------------------------------------------------------------
(* The peer that pauses between frames.  The call under way began to read  *)
(* behind the last frame that was returned, at most one more is on its     *)
(* way, and a receiver that waits in read() with nothing to read has none. *)
InStep(off, p) ==
  /\ Len(sent) \in {Len(received), Len(received) + 1}
  /\ p = off[Len(received) + 1]
  /\ \A k \in 1 .. Len(received) : Package[sent[k]] = <<received[k]>>
  /\ \A k \in 1 .. Len(sent) : Len(Package[sent[k]]) = 1
  /\ Len(sent) = Len(received) + 1 /\ Len(wire) = 0 => pc = "parse"

Paused ==
  spaced => \E str, off, p : Laid(str, off) /\ ReadFrom(str, p) /\ InStep(off, p)

(* A keyword that stands in the buffer is found.                           *)
LEMMA HeadIsFound ==
  ASSUME NEW b \in Seq(0 .. 255), NEW patn,
         NEW i \in 1 .. Len(b) - 1, b[i] = patn[1], b[i + 1] = patn[2]
  PROVE  get_msg_head(b, patn) # 0
<1> DEFINE places == {j \in 1 .. Len(b) - 1 : b[j] = patn[1] /\ b[j + 1] = patn[2]}
           first == CHOOSE j \in places : \A l \in places : j <= l
<1>1. i \in places
  OBVIOUS
<1>2. get_msg_head(b, patn) = first
  BY <1>1 DEF get_msg_head
<1>3. places \in SUBSET Nat /\ 0 \notin places
  BY LenProperties
<1>4. first \in places
  <2> HIDE DEF places
  <2>1. \E j \in places : \A l \in places : j <= l
    BY <1>1, <1>3, Least
  <2> QED
    BY <2>1
<1> QED
  <2> HIDE DEF places, first
  <2> QED
    BY <1>2, <1>3, <1>4

(* While a frame b is on its way, msg_buff holds a beginning of it and the *)
(* line the rest, so that a keyword can stand at the first byte only.      *)
LEMMA OnItsWay ==
  ASSUME CleanLine, RxTypeOK, NEW str, NEW off, NEW p,
         Laid(str, off), ReadFrom(str, p), InStep(off, p),
         Len(sent) = Len(received) + 1,
         NEW g, g = sent[Len(sent)], NEW b, b = Bytes[g]
  PROVE  /\ Len(b) \in Nat /\ Len(b) <= RX_BUFF_LEN
         /\ NewFrame(b, Package[g]) \/ OldFrame(b, Package[g])
         /\ Len(msg_buff) \in Nat /\ Len(wire) \in Nat
         /\ Len(msg_buff) + Len(wire) = Len(b)
         /\ \A i \in 1 .. Len(msg_buff) : msg_buff[i] = b[i]
         /\ \A step, h : Stands(step, h) => h = 1
<1>1. PICK n, m, w : n = Len(sent) /\ m = Len(msg_buff) /\ w = Len(wire)
  OBVIOUS
<1>2. /\ sent \in Seq(Frames) /\ n \in Nat /\ m \in Nat /\ w \in Nat
      /\ n = Len(received) + 1 /\ n \in 1 .. n /\ n \in 1 .. n + 1
  <2>1. sent \in Seq(Frames) /\ n \in Nat /\ m \in Nat /\ w \in Nat /\ Len(received) \in Nat
    BY <1>1, LenProperties DEF RxTypeOK
  <2>2. n = Len(received) + 1
    BY <1>1
  <2>3. n \in 1 .. n /\ n \in 1 .. n + 1
    BY <2>1, <2>2
  <2> QED
    BY <2>1, <2>2, <2>3
<1>3. g \in Frames /\ Len(Package[g]) = 1
  BY <1>1, <1>2, ElementOfSeq DEF InStep
<1>4. /\ b \in Seq(0 .. 255) /\ Len(b) \in Nat \ {0}
      /\ NewFrame(b, Package[g]) \/ OldFrame(b, Package[g])
  <2>1. ~Noise(b, Package[g])
    <3>1. Package[g] # << >>
      BY ONLY <1>3
    <3> QED
      BY <3>1, Zenon DEF Noise
  <2> QED
    BY <1>3, <2>1, FrameIs
<1>5. Len(b) <= RX_BUFF_LEN
  <2>1. PICK l : l = Len(b)
    OBVIOUS
  <2>2. l \in Nat /\ PKG \in Nat /\ (l <= PKG \/ l <= RX_BUFF_LEN)
    BY <1>4, <2>1, ParserAssumption DEF NewFrame, OldFrame, RX_BUFF_LEN, HEAD_LEN, OLD_HEAD_LEN
  <2>3. l <= RX_BUFF_LEN
    BY ONLY <2>2 DEF RX_BUFF_LEN
  <2> QED
    BY <2>1, <2>3
<1>6. PICK o, l : o = off[n] /\ l = Len(b)
  OBVIOUS
<1>7. /\ p = o /\ o \in Nat /\ off[n + 1] = o + l /\ off[n + 1] = Len(str)
      /\ \A i \in 1 .. l : str[o + i] = b[i]
      /\ \A k \in 1 .. n : k < n => off[k] < o
      /\ \A k \in 1 .. n : off[k] \in Nat
  <2>1. /\ off \in [1 .. n + 1 -> Nat] /\ off[n + 1] = Len(str)
        /\ \A i, j \in 1 .. n + 1 : i < j => off[i] < off[j]
        /\ off[n + 1] = off[n] + Len(b)
        /\ \A i \in 1 .. Len(b) : str[off[n] + i] = b[i]
    BY <1>1, <1>2 DEF Laid
  <2>2. p = off[n]
    BY <1>2 DEF InStep
  <2>3. \A k \in 1 .. n : k \in 1 .. n + 1
    BY <1>2
  <2> QED
    BY <1>2, <1>6, <2>1, <2>2, <2>3
<1>8. p + m + w = Len(str) /\ \A i \in 1 .. m : msg_buff[i] = str[p + i]
  BY <1>1 DEF ReadFrom
<1>9. m + w = l
  <2>1. l \in Nat /\ o + m + w = o + l
    BY <1>4, <1>6, <1>7, <1>8
  <2> QED
    BY ONLY <1>2, <1>7, <2>1
<1>10. \A i \in 1 .. m : msg_buff[i] = b[i]
  <2>1. \A i \in 1 .. m : i \in 1 .. l
    BY ONLY <1>2, <1>9
  <2> QED
    BY <1>7, <1>8, <2>1
<1>11. ASSUME NEW step, NEW h, Stands(step, h) PROVE h = 1
  <2>1. h \in 1 .. m - 1 /\ h \in Int
    BY <1>1, <1>2, <1>11 DEF Stands
  <2>2. PICK k \in 1 .. n : p + h = off[k] + 1
    BY <1>1, <1>11, <2>1, HeadIsAFrame
  <2>3. PICK x : x = off[k]
    OBVIOUS
  <2>4. x \in Nat /\ (k < n => x < o) /\ (k = n => x = o) /\ o + h = x + 1 /\ k \in 1 .. n
    BY <1>6, <1>7, <2>2, <2>3
  <2> QED
    BY ONLY <1>2, <1>7, <2>1, <2>4
<1> QED
  BY <1>1, <1>2, <1>4, <1>5, <1>6, <1>9, <1>10, <1>11

(* A round that waits or rejects does so before the frame is whole.        *)
LEMMA WaitsForBytes ==
  ASSUME CleanLine, RxTypeOK, NEW str, NEW off, NEW p,
         Laid(str, off), ReadFrom(str, p), InStep(off, p),
         NEW h, Waits(h) \/ Rejects(h)
  PROVE  Waits(h) /\ ~(Len(sent) = Len(received) + 1 /\ Len(wire) = 0)
<1>1. CASE Len(sent) = Len(received) + 1
  <2>1. PICK g, b : g = sent[Len(sent)] /\ b = Bytes[g]
    OBVIOUS
  <2>2. PICK m, l : m = Len(msg_buff) /\ l = Len(b)
    OBVIOUS
  <2>3. /\ l \in Nat /\ m \in Nat /\ Len(wire) \in Nat /\ m + Len(wire) = l
        /\ NewFrame(b, Package[g]) \/ OldFrame(b, Package[g])
        /\ \A i \in 1 .. m : msg_buff[i] = b[i]
        /\ \A step, x : Stands(step, x) => x = 1
    BY <1>1, <2>1, <2>2, OnItsWay
  <2>4. Stands("RECV_HEAD", h) => h = 1 /\ m >= 2 /\ NewFrame(b, Package[g])
    <3>1. SUFFICES ASSUME Stands("RECV_HEAD", h)
                   PROVE  h = 1 /\ m >= 2 /\ ~OldFrame(b, Package[g])
      BY <2>3
    <3>2. h = 1 /\ h \in 1 .. m - 1 /\ <<msg_buff[h], msg_buff[h + 1]>> = MAGIC_WORD
      BY <2>2, <2>3, <3>1 DEF Stands, Keyword
    <3>3. m >= 2 /\ 1 \in 1 .. m /\ 2 \in 1 .. m
      BY <2>3, <3>2
    <3>4. <<b[1], b[2]>> = MAGIC_WORD
      BY <2>3, <3>2, <3>3
    <3> QED
      BY <3>2, <3>3, <3>4 DEF OldFrame, MAGIC_WORD, OLD_MAGIC_WORD
  <2>5. Stands("OLD_CHECK_LEN", h) => h = 1 /\ m >= 2 /\ OldFrame(b, Package[g])
    <3>1. SUFFICES ASSUME Stands("OLD_CHECK_LEN", h)
                   PROVE  h = 1 /\ m >= 2 /\ ~NewFrame(b, Package[g])
      BY <2>3
    <3>2. h = 1 /\ h \in 1 .. m - 1 /\ <<msg_buff[h], msg_buff[h + 1]>> = OLD_MAGIC_WORD
      BY <2>2, <2>3, <3>1 DEF Stands, Keyword
    <3>3. m >= 2 /\ 1 \in 1 .. m /\ 2 \in 1 .. m
      BY <2>3, <3>2
    <3>4. <<b[1], b[2]>> = OLD_MAGIC_WORD
      BY <2>3, <3>2, <3>3
    <3> QED
      BY <3>2, <3>3, <3>4 DEF NewFrame, MAGIC_WORD, OLD_MAGIC_WORD
  <2>6. NewFrame(b, Package[g]) =>
          l >= 4 /\ l <= PKG /\ b[3] = l /\ b[1] = MAGIC_WORD[1] /\ b[2] = MAGIC_WORD[2]
    BY <2>2, <2>3, ParserAssumption DEF NewFrame, HEAD_LEN, MAGIC_WORD
  <2>7. OldFrame(b, Package[g]) =>
          l >= 4 /\ l = OldFrameLen(b[4]) /\ b[1] = OLD_MAGIC_WORD[1] /\ b[2] = OLD_MAGIC_WORD[2]
    BY <2>2, <2>3, ParserAssumption
    DEF OldFrame, OldFrameLen, OLD_HEAD_LEN, OLD_MAGIC_WORD, RX_BUFF_LEN
  <2>8. ~Rejects(h)
    <3>1. SUFFICES ASSUME Rejects(h) PROVE FALSE
      OBVIOUS
    <3>2. Stands("RECV_HEAD", h) /\ Avail(h) >= HEAD_LEN /\ msg_buff[h + 2] > PKG
      BY <3>1, Zenon DEF Rejects
    <3>3. m - 1 + 1 >= 4 /\ msg_buff[3] > PKG
      BY <2>2, <2>4, <3>2 DEF Avail, HEAD_LEN
    <3>4. 3 \in 1 .. m
      BY <2>3, <3>3
    <3>5. l > PKG /\ l <= PKG
      BY <2>3, <2>4, <2>6, <3>2, <3>3, <3>4
    <3> QED
      BY <2>3, <3>5, ParserAssumption
  <2>9. Len(wire) # 0
    <3>1. SUFFICES ASSUME Len(wire) = 0 PROVE FALSE
      OBVIOUS
    <3>2. m = l
      BY <2>3, <3>1
    <3>3. CASE /\ get_msg_head(msg_buff, MAGIC_WORD) = 0
               /\ get_msg_head(msg_buff, OLD_MAGIC_WORD) = 0
      <4>1. msg_buff \in Seq(0 .. 255)
        BY DEF RxTypeOK
      <4>2. 1 \in 1 .. m - 1 /\ 1 \in 1 .. m /\ 2 \in 1 .. m
        BY <2>3, <2>6, <2>7, <3>2
      <4>3. /\ 1 \in 1 .. Len(msg_buff) - 1
            /\ msg_buff[1] = b[1] /\ msg_buff[1 + 1] = b[2]
        BY <2>2, <2>3, <4>2
      <4>4. \/ msg_buff[1] = MAGIC_WORD[1] /\ msg_buff[1 + 1] = MAGIC_WORD[2]
            \/ msg_buff[1] = OLD_MAGIC_WORD[1] /\ msg_buff[1 + 1] = OLD_MAGIC_WORD[2]
        BY <2>3, <2>6, <2>7, <4>3
      <4> QED
        BY <3>3, <4>1, <4>3, <4>4, HeadIsFound
    <3>4. CASE /\ Stands("RECV_HEAD", h)
               /\ Avail(h) < HEAD_LEN \/ Avail(h) < msg_buff[h + 2]
      <4>1. h = 1 /\ l >= 4 /\ b[3] = l /\ 3 \in 1 .. m
        BY <2>3, <2>4, <2>6, <3>2, <3>4
      <4>2. msg_buff[3] = l /\ h + 2 = 3 /\ Avail(h) = l
        BY <2>2, <2>3, <3>2, <4>1 DEF Avail
      <4> QED
        BY <2>3, <3>4, <4>1, <4>2 DEF HEAD_LEN
    <3>5. CASE /\ Stands("OLD_CHECK_LEN", h)
               /\ Avail(h) < OLD_HEAD_LEN \/ Avail(h) < OldFrameLen(msg_buff[h + 3])
      <4>1. h = 1 /\ l >= 4 /\ OldFrameLen(b[4]) = l /\ 4 \in 1 .. m
        BY <2>3, <2>5, <2>7, <3>2, <3>5
      <4>2. OldFrameLen(msg_buff[4]) = l /\ h + 3 = 4 /\ Avail(h) = l
        BY <2>2, <2>3, <3>2, <4>1 DEF Avail
      <4> QED
        BY <2>3, <3>5, <4>1, <4>2 DEF OLD_HEAD_LEN
    <3>6. Waits(h)
      BY <2>8
    <3> QED
      BY <3>3, <3>4, <3>5, <3>6, Zenon DEF Waits
  <2> QED
    BY <2>8, <2>9
<1>2. CASE Len(sent) # Len(received) + 1
  <2>1. Len(msg_buff) = 0
    <3>1. PICK n, m, w, x : /\ n = Len(sent) /\ m = Len(msg_buff) /\ w = Len(wire)
                            /\ x = Len(str)
      OBVIOUS
    <3>2. n = Len(received) /\ p = off[n + 1] /\ off[n + 1] = x /\ p + m + w = x
      BY <1>2, <3>1 DEF InStep, Laid, ReadFrom
    <3>3. m \in Nat /\ w \in Nat /\ p \in Nat
      BY <3>1, LenProperties DEF RxTypeOK, ReadFrom
    <3>4. p + m + w = p
      BY <3>2
    <3>5. m = 0
      BY ONLY <3>3, <3>4
    <3> QED
      BY <3>1, <3>5
  <2>2. \A step : ~Stands(step, h)
    BY <2>1 DEF Stands
  <2> QED
    BY <1>2, <2>2, Zenon DEF Rejects
<1> QED
  BY <1>1, <1>2

LEMMA PausedInit == Init => Paused
<1>1. SUFFICES ASSUME Init PROVE Paused
  OBVIOUS
<1>2. wire = << >> /\ sent = << >> /\ msg_buff = << >> /\ received = << >>
  BY <1>1 DEF Init
<1>3. PICK off : off = [k \in 1 .. 1 |-> 0]
  OBVIOUS
<1>4. Laid(<< >>, off) /\ ReadFrom(<< >>, 0) /\ InStep(off, 0)
  BY <1>2, <1>3 DEF Laid, ReadFrom, InStep
<1> QED
  BY <1>4 DEF Paused

(* The peer sends the next frame when the last one has been returned.      *)
LEMMA PausedSends ==
  ASSUME CleanLine, RxTypeOK, Paused, NEW f \in Frames, Transmit(f)
  PROVE  Paused'
<1>1. SUFFICES ASSUME spaced PROVE Paused'
  BY DEF Paused, Transmit
<1>2. /\ wire' = wire \o Bytes[f] /\ sent' = Append(sent, f)
      /\ UNCHANGED <<spaced, pc, msg_buff, received>>
      /\ wire = << >> /\ pc = "read" /\ Package[f] # << >>
  BY <1>1, Zenon DEF Transmit, calls
<1>3. PICK str, off, p : Laid(str, off) /\ ReadFrom(str, p) /\ InStep(off, p)
  BY <1>1 DEF Paused
<1>4. PICK longer, offs : /\ Laid(longer, offs)' /\ ReadFrom(longer, p)'
                          /\ \A k \in 1 .. Len(sent) + 1 : offs[k] = off[k]
  BY <1>2, <1>3, StreamGrows
<1>5. PICK n : n = Len(sent) /\ n \in Nat /\ n = Len(received)
  <2>1. Len(sent) \in Nat /\ Len(wire) = 0
    BY <1>2, LenProperties DEF RxTypeOK
  <2>2. Len(sent) = Len(received)
    BY <1>2, <1>3, <2>1 DEF InStep
  <2> QED
    BY <2>1, <2>2
<1>6. /\ Len(sent') = n + 1 /\ \A i \in 1 .. n : sent'[i] = sent[i]
      /\ sent'[n + 1] = f
  <2>1. sent \in Seq(Frames)
    BY DEF RxTypeOK
  <2>2. /\ Len(Append(sent, f)) = n + 1 /\ Append(sent, f)[n + 1] = f
        /\ \A i \in 1 .. n : Append(sent, f)[i] = sent[i]
    <3>1. /\ Len(Append(sent, f)) = Len(sent) + 1
          /\ Append(sent, f)[Len(sent) + 1] = f
          /\ \A i \in 1 .. Len(sent) : Append(sent, f)[i] = sent[i]
      BY ONLY <2>1, f \in Frames, AppendProperties
    <3> QED
      BY ONLY <1>5, <3>1
  <2> QED
    BY <1>2, <2>2
<1>7. Len(Package[f]) = 1
  <2>1. Package[f] \in Seq(Seq(Fields)) /\ Len(Package[f]) <= 1
    BY ParserAssumption
  <2>2. Len(Package[f]) \in Nat /\ Len(Package[f]) # 0
    BY ONLY <1>2, <2>1, LenProperties, EmptySeq
  <2>3. PICK l : l = Len(Package[f])
    OBVIOUS
  <2>4. l \in Nat /\ l # 0 /\ l <= 1
    BY ONLY <2>1, <2>2, <2>3
  <2>5. l = 1
    BY ONLY <2>4
  <2> QED
    BY <2>3, <2>5
<1>8. Len(wire') # 0
  <2>1. Bytes[f] \in Seq(0 .. 255) /\ Len(Bytes[f]) \in Nat \ {0} /\ wire \in Seq(0 .. 255)
    BY FrameIs DEF RxTypeOK
  <2>2. Len(wire \o Bytes[f]) = Len(wire) + Len(Bytes[f]) /\ Len(wire) \in Nat
    BY ONLY <2>1, ConcatIs
  <2> QED
    BY <1>2, <2>1, <2>2
<1>9. InStep(offs, p)'
  <2>1. /\ p = off[n + 1]
        /\ \A k \in 1 .. n : Package[sent[k]] = <<received[k]>>
        /\ \A k \in 1 .. n : Len(Package[sent[k]]) = 1
    BY <1>3, <1>5 DEF InStep
  <2>2. p = offs[n + 1]
    <3>1. n + 1 \in 1 .. Len(sent) + 1
      BY <1>5
    <3> QED
      BY <1>4, <2>1, <3>1
  <2>3. \A k \in 1 .. n : Package[sent'[k]] = <<received[k]>>
    BY <1>6, <2>1
  <2>4. \A k \in 1 .. n + 1 : Len(Package[sent'[k]]) = 1
    <3>1. TAKE k \in 1 .. n + 1
    <3>2. k \in 1 .. n \/ k = n + 1
      BY <1>5
    <3> QED
      BY <1>6, <1>7, <2>1, <3>2
  <2>5. received' = received /\ Len(received) = n
    BY <1>2, <1>5
  <2> QED
    BY ONLY <1>6, <1>8, <2>2, <2>3, <2>4, <2>5, Zenon DEF InStep
<1> QED
  BY <1>4, <1>9 DEF Paused

(* read() never finds the buffer full: a frame fits in it.                 *)
LEMMA PausedReads ==
  ASSUME CleanLine, RxTypeOK, Paused, recv_raw_data
  PROVE  Paused'
<1>1. SUFFICES ASSUME spaced PROVE Paused'
  BY Zenon DEF Paused, recv_raw_data
<1>2. PICK str, off, p : Laid(str, off) /\ ReadFrom(str, p) /\ InStep(off, p)
  BY <1>1 DEF Paused
<1>3. PICK n \in 1 .. PKG :
        /\ n <= Len(wire) /\ wire' = SubSeq(wire, n + 1, Len(wire))
        /\ \/ /\ msg_buff' = msg_buff \o SubSeq(wire, 1, n)
              /\ pc' = "parse" /\ UNCHANGED calls
           \/ Len(msg_buff) + n > RX_BUFF_LEN
  BY Zenon DEF recv_raw_data
<1>4. sent' = sent /\ spaced' = spaced
  BY Zenon DEF recv_raw_data
<1>5. n \in Nat /\ n >= 1 /\ n \in 1 .. Len(wire) /\ Len(wire) \in Nat
  BY <1>3, ParserAssumption, LenProperties DEF RxTypeOK
<1>6. Len(sent) = Len(received) + 1
  <2>1. SUFFICES ASSUME Len(sent) = Len(received) PROVE FALSE
    BY <1>2 DEF InStep
  <2>2. PICK l, m, w, x : /\ l = Len(sent) /\ m = Len(msg_buff) /\ w = Len(wire)
                          /\ x = Len(str)
    OBVIOUS
  <2>3. p = off[l + 1] /\ off[l + 1] = x /\ p + m + w = x
    BY <1>2, <2>1, <2>2 DEF InStep, Laid, ReadFrom
  <2>4. m \in Nat /\ w \in Nat /\ w >= 1 /\ p \in Nat /\ p + m + w = p
    BY <1>2, <1>5, <2>2, <2>3, LenProperties DEF RxTypeOK, ReadFrom
  <2> QED
    BY ONLY <2>4
<1>7. ~(Len(msg_buff) + n > RX_BUFF_LEN)
  <2>1. PICK g, b : g = sent[Len(sent)] /\ b = Bytes[g]
    OBVIOUS
  <2>2. /\ Len(b) \in Nat /\ Len(b) <= RX_BUFF_LEN
        /\ Len(msg_buff) \in Nat /\ Len(msg_buff) + Len(wire) = Len(b)
    BY <1>2, <1>6, <2>1, OnItsWay
  <2>3. RX_BUFF_LEN \in Nat
    BY ParserAssumption DEF RX_BUFF_LEN
  <2> QED
    BY <1>3, <1>5, <2>2, <2>3
<1>8. /\ msg_buff' = msg_buff \o SubSeq(wire, 1, n)
      /\ pc' = "parse" /\ received' = received
  BY <1>3, <1>7 DEF calls
<1>9. ReadFrom(str, p)'
  BY <1>2, <1>3, <1>5, <1>8, ReadsOn
<1>10. Laid(str, off)'
  BY <1>2, <1>4 DEF Laid
<1>11. InStep(off, p)'
  BY <1>2, <1>4, <1>8 DEF InStep
<1> QED
  BY <1>9, <1>10, <1>11 DEF Paused

(* A round returns the frame that is on its way, whole, or waits for it.   *)
LEMMA PausedParses ==
  ASSUME CleanLine, RxInv, Paused, Parse
  PROVE  Paused'
<1>1. SUFFICES ASSUME spaced PROVE Paused'
  BY Zenon DEF Paused, Parse, line
<1>2. PICK str, off, p : Laid(str, off) /\ ReadFrom(str, p) /\ InStep(off, p)
  BY <1>1 DEF Paused
<1>3. PICK h \in Int : UNCHANGED line /\ Moves(h)
  BY ParseMoves
<1>4. wire' = wire /\ sent' = sent /\ RxTypeOK
  BY <1>3, Zenon DEF line, RxInv
<1>5. Laid(str, off)'
  BY <1>2, <1>4 DEF Laid
<1>6. CASE Waits(h) \/ Rejects(h)
  <2>1. Waits(h) /\ ~(Len(sent) = Len(received) + 1 /\ Len(wire) = 0)
    BY <1>2, <1>4, <1>6, WaitsForBytes
  <2>2. msg_buff' = msg_buff /\ received' = received
    BY <2>1, Zenon DEF Waits
  <2>3. ReadFrom(str, p)'
    BY <1>2, <1>4, <2>2 DEF ReadFrom
  <2>4. InStep(off, p)'
    BY <1>2, <1>4, <2>1, <2>2 DEF InStep
  <2> QED
    BY <1>5, <2>3, <2>4 DEF Paused
<1>7. CASE TakesNew(h) \/ TakesOld(h)
  <2>1. PICK k \in 1 .. Len(sent) :
          /\ off[k] >= p /\ off[k + 1] <= p + Len(msg_buff)
          /\ Len(Package[sent[k]]) = 1 /\ Return(Package[sent[k]])
    BY <1>2, <1>4, <1>7, TakesAFrame
  <2>2. PICK n, r, m, w, x : /\ n = Len(sent) /\ r = Len(received)
                             /\ m = Len(msg_buff) /\ w = Len(wire) /\ x = Len(str)
    OBVIOUS
  <2>3. /\ n \in Nat /\ r \in Nat /\ m \in Nat /\ w \in Nat /\ p \in Nat
        /\ n = r \/ n = r + 1
        /\ p = off[r + 1] /\ p + m + w = x
    BY <1>2, <1>4, <2>2, LenProperties DEF RxTypeOK, InStep, ReadFrom
  <2>4. /\ off \in [1 .. n + 1 -> Nat] /\ off[n + 1] = x
        /\ \A i, j \in 1 .. n + 1 : i < j => off[i] < off[j]
    BY <1>2, <2>2 DEF Laid
  <2>5. k = n /\ n = r + 1
    <3>1. k \in 1 .. n /\ k \in 1 .. n + 1 /\ r + 1 \in 1 .. n + 1
      BY <2>2, <2>3
    <3>2. PICK y : y = off[k]
      OBVIOUS
    <3>3. y \in Nat /\ y >= p /\ (k < r + 1 => y < p)
      BY <2>1, <2>3, <2>4, <3>1, <3>2
    <3> QED
      BY ONLY <2>3, <3>1, <3>3
  <2>6. PICK q : q = p + m
    OBVIOUS
  <2>7. q \in Nat /\ q = x /\ w = 0 /\ off[n + 1] = q
    <3>1. x <= q
      BY <2>1, <2>2, <2>4, <2>5, <2>6
    <3> QED
      BY <2>3, <2>4, <2>6, <3>1
  <2>8. Package[sent[k]] \in Seq(Seq(Fields)) /\ received \in Seq(Seq(Fields))
    BY <1>4, ElementOfSeq, ParserAssumption DEF RxTypeOK
  <2>9. /\ Len(received') = n /\ \A i \in 1 .. r : received'[i] = received[i]
        /\ Package[sent[n]] = <<received'[n]>>
    <3>1. /\ Len(received') = r + 1
          /\ \A i \in 1 .. r : received'[i] = received[i]
          /\ Package[sent[k]] = <<received'[r + 1]>>
      BY <2>1, <2>2, <2>8, OneMore
    <3> QED
      BY <2>5, <3>1
  <2>10. msg_buff' = << >>
    BY <2>1, Zenon DEF Return
  <2>11. ReadFrom(str, q)'
    BY <1>4, <2>2, <2>7, <2>10 DEF ReadFrom
  <2>12. InStep(off, q)'
    <3>1. /\ \A i \in 1 .. r : Package[sent[i]] = <<received[i]>>
          /\ \A i \in 1 .. n : Len(Package[sent[i]]) = 1
      BY <1>2, <2>2 DEF InStep
    <3>2. \A i \in 1 .. n : Package[sent[i]] = <<received'[i]>>
      <4>1. TAKE i \in 1 .. n
      <4>2. i \in 1 .. r \/ i = n
        BY <2>3, <2>5
      <4> QED
        BY <2>9, <3>1, <4>2
    <3>3. n # n + 1
      BY <2>3
    <3> QED
      BY <1>4, <2>2, <2>7, <2>9, <3>1, <3>2, <3>3, Zenon DEF InStep
  <2> QED
    BY <1>5, <2>11, <2>12 DEF Paused
<1> QED
  BY <1>3, <1>6, <1>7, Zenon DEF Moves

LEMMA PausedStep ==
  ASSUME CleanLine, RxInv, Paused, [Next]_vars
  PROVE  Paused'
<1>1. RxTypeOK
  BY DEF RxInv
<1>2. ASSUME NEW f \in Frames, Transmit(f) PROVE Paused'
  BY <1>1, <1>2, PausedSends
<1>3. CASE Parse
  BY <1>3, PausedParses
<1>4. CASE recv_raw_data
  BY <1>1, <1>4, PausedReads
<1>5. CASE UNCHANGED vars
  <2>1. UNCHANGED <<wire, spaced, sent, pc, msg_buff, received>>
    BY <1>5, Zenon DEF vars, line, calls
  <2>2. SUFFICES ASSUME spaced PROVE Paused'
    BY <2>1 DEF Paused
  <2>3. PICK str, off, p : Laid(str, off) /\ ReadFrom(str, p) /\ InStep(off, p)
    BY <2>2 DEF Paused
  <2>4. Laid(str, off)'
    BY <2>1, <2>3 DEF Laid
  <2>5. ReadFrom(str, p)'
    BY <2>1, <2>3 DEF ReadFrom
  <2>6. InStep(off, p)'
    BY <2>1, <2>3 DEF InStep
  <2> QED
    BY <2>4, <2>5, <2>6 DEF Paused
<1> QED
  BY <1>2, <1>3, <1>4, <1>5 DEF Next

(* From a peer that pauses between frames every frame arrives, in order:   *)
(* none is lost to the buffer that a call of try_recv_full_msg clears.     *)
THEOREM FramesArriveInOrder ==
  ASSUME CleanLine
  PROVE  Spec => []ReceivedIsPrefix
<1>1. Init => RxInv /\ Paused
  BY RxInit, PausedInit
<1>2. (RxInv /\ Paused) /\ [Next]_vars => (RxInv /\ Paused)'
  BY RxStep, PausedStep
<1>3. RxInv /\ Paused => ReceivedIsPrefix
  <2>1. SUFFICES ASSUME RxInv, Paused, spaced
                 PROVE  /\ Len(received) <= Len(sent)
                        /\ \A k \in 1 .. Len(received) : Package[sent[k]] = <<received[k]>>
    BY DEF ReceivedIsPrefix
  <2>2. PICK off, p : InStep(off, p)
    BY <2>1 DEF Paused
  <2>3. Len(received) \in Nat
    BY <2>1, LenProperties DEF RxInv, RxTypeOK
  <2> QED
    BY <2>2, <2>3 DEF InStep
<1> QED
  BY <1>1, <1>2, <1>3, PTL DEF Spec

=============================================================================
