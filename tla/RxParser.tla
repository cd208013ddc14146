------------------------------ MODULE RxParser ------------------------------
(***************************************************************************)
(* The receiver of the RS-485 line, app/msg_util.c: try_recv_full_msg      *)
(* collects what read() returns in msg_buff until it finds a whole frame   *)
(* of the new or of the old protocol, and recv_msg_from_exter checks it.   *)
(* The transmitter of the daemon calls recv_msg_from_exter in a loop.      *)
(*                                                                         *)
(* Bytes are numbers and msg_buff is the sequence of its first             *)
(* rx_add_up_len bytes; positions count from 1, and 0 is a NULL head_pos.  *)
(* Headers keep the fields the parser looks at, so the lengths of a header *)
(* and of a package are parameters:                                        *)
(*    new   0xAA 0x55 total_len event | fcs | data                         *)
(*    old   'S' 'M' event len | data | checksum '@'                        *)
(* A char is unsigned here; that convert_old_to_new takes the length for a *)
(* signed one on other platforms is the matter of OldFrame.                *)
(***************************************************************************)
EXTENDS Integers, Sequences

CONSTANTS
  PKG,       (* sizeof(Msg_pkg): the most one read() returns              *)
  Frames,    (* what a peer can put on the line: frames and noise         *)
  Bytes,     (* the bytes of each of them                                 *)
  Package,   (* the package it stands for, as << p >>; << >> for noise    *)
  MaxSent,   (* bound: how many of them are sent                          *)
  SELF_CARD  (* get_self_card_id(): 1 in hw_info.c                        *)

MAGIC_WORD     == <<170, 85>>
OLD_MAGIC_WORD == <<83, 77>>
HEAD_LEN       == 4
FCS_LEN        == 1
OLD_HEAD_LEN   == 4
OLD_TAIL_LEN   == 2
RX_BUFF_LEN    == 2 * PKG

Byte(x) == x % 256

(* The fields of a package; total_len is a uint16_t.                       *)
Fields == 0 .. 255 + HEAD_LEN + FCS_LEN

ASSUME ParserAssumption ==
  /\ PKG \in Nat /\ PKG >= HEAD_LEN + FCS_LEN
  /\ Bytes \in [Frames -> Seq(0 .. 255)]
  /\ Package \in [Frames -> Seq(Seq(Fields))]
  /\ \A f \in Frames : Len(Package[f]) <= 1
  /\ MaxSent \in Nat

VARIABLES
  wire,       (* bytes that arrived and were not read yet                 *)
  spaced,     (* does the peer pause until the receiver waits again?      *)
  sent,       (* history: what the peer sent                              *)
  pc,         (* "parse": in the switch of the loop, "read": in read()    *)
  msg_buff,   (* the bytes collected since the call of try_recv_full_msg  *)
  next_step,  (* STEP_...                                                 *)
  head_pos,   (* where in msg_buff the frame starts                       *)
  msg_len,    (* length byte of the old frame (static)                    *)
  received,   (* history: the packages try_recv_full_msg returned         *)
  forwarded   (* history: the packages recv_msg_from_exter returned       *)

line  == <<wire, spaced, sent>>
calls == <<received, forwarded>>
vars  == <<line, pc, msg_buff, next_step, head_pos, msg_len, calls>>

Init ==
  /\ wire = << >> /\ spaced \in BOOLEAN /\ sent = << >>
  /\ pc = "parse"
  /\ msg_buff = << >>
  /\ next_step = "RECV_START"
  /\ head_pos = 0
  /\ msg_len = 0
  /\ received = << >> /\ forwarded = << >>

(* The line delivers f; a peer that pauses has a line without noise.       *)
Transmit(f) ==
  /\ Len(sent) < MaxSent
  /\ spaced => wire = << >> /\ pc = "read" /\ Package[f] # << >>
  /\ wire' = wire \o Bytes[f]
  /\ sent' = Append(sent, f)
  /\ UNCHANGED <<spaced, pc, msg_buff, next_step, head_pos, msg_len, calls>>

-----------------------------------------------------------------------------

(* Mutants: -1 for "not found"; only the first byte is compared.           *)
HeadOrMinusOne(b, patn) ==
  LET places == {i \in 1 .. Len(b) - 1 : b[i] = patn[1] /\ b[i + 1] = patn[2]} IN
  IF places = {} THEN -1 ELSE CHOOSE i \in places : \A j \in places : i <= j

HeadByFirstByte(b, patn) ==
  LET places == {i \in 1 .. Len(b) : b[i] = patn[1]} IN
  IF places = {} THEN 0 ELSE CHOOSE i \in places : \A j \in places : i <= j

(* The first place of a two byte keyword in the buffer b, or 0.            *)
get_msg_head(b, patn) ==
  LET places == {i \in 1 .. Len(b) - 1 : b[i] = patn[1] /\ b[i + 1] = patn[2]} IN
  IF places = {} THEN 0 ELSE CHOOSE i \in places : \A j \in places : i <= j

(* The bytes from position h on that are there already.                    *)
Avail(h) == Len(msg_buff) - h + 1

(* msg_check looks at a local variable that is all zero instead of at the  *)
(* received message.  The number of its card is what decides: the          *)
(* checksums after that are never reached in this build.                   *)
msg_check == SELF_CARD = 0 + 2

(* Mutant: the next call goes on with the old buffer.                      *)
ReturnKeepingBuffer(pkgs) ==
  /\ received' = received \o pkgs
  /\ forwarded' = IF msg_check THEN forwarded \o pkgs ELSE forwarded
  /\ pc' = "parse"
  /\ next_step' = "RECV_START"
  /\ head_pos' = 0
  /\ UNCHANGED msg_buff

(* try_recv_full_msg returns, with a package or none; recv_msg_from_exter  *)
(* checks it; the next call clears the buffer and what is left in it.      *)
Return(pkgs) ==
  /\ received' = received \o pkgs
  /\ forwarded' = IF msg_check THEN forwarded \o pkgs ELSE forwarded
  /\ pc' = "parse"
  /\ msg_buff' = << >>
  /\ next_step' = "RECV_START"
  /\ head_pos' = 0

(* CONTINUE: the loop goes on to read().                                   *)
Continue(step, h) ==
  /\ next_step' = step
  /\ head_pos' = h
  /\ pc' = "read"
  /\ UNCHANGED <<msg_buff, calls>>

(* try_recv_head and the try_recv_body it calls, with the head at h.  The  *)
(* STEP_RECV_FULL that try_recv_body leaves is overwritten with            *)
(* STEP_RECV_HEAD before it returns, so every round reads the head again.  *)
try_recv_head(h) ==
  LET total_len == msg_buff[h + 2] IN
  /\ UNCHANGED msg_len
  /\ \/ Avail(h) < HEAD_LEN /\ Continue("RECV_HEAD", h)
     \/ Avail(h) >= HEAD_LEN /\ total_len > PKG /\ Return(<< >>)
     \/ /\ Avail(h) >= HEAD_LEN /\ total_len <= PKG
        /\ \/ Avail(h) < total_len /\ Continue("RECV_HEAD", h)
           \/ /\ Avail(h) >= total_len
              /\ Return(<<SubSeq(msg_buff, h, h + total_len - 1)>>)

(* The old frame raw as a package of the new protocol: the checksum takes  *)
(* the place of the fcs; its offset is a uint8_t.                          *)
convert_old_to_new(raw) ==
  LET len == raw[4] IN
  MAGIC_WORD \o <<len + HEAD_LEN + FCS_LEN, raw[3], raw[Byte(OLD_HEAD_LEN + len) + 1]>>
             \o SubSeq(raw, OLD_HEAD_LEN + 1, OLD_HEAD_LEN + len)

(* Mutant: one byte too many.                                              *)
OldFrameLenPlusOne(len) == OLD_HEAD_LEN + len + OLD_TAIL_LEN + 1

OldFrameLen(len) == OLD_HEAD_LEN + len + OLD_TAIL_LEN

try_recv_old_msg_body(h, len) ==
  \/ /\ Avail(h) >= OldFrameLen(len)
     /\ Return(<<convert_old_to_new(SubSeq(msg_buff, h, h + OldFrameLen(len) - 1))>>)
  \/ Avail(h) < OldFrameLen(len) /\ Continue("OLD_CHECK_FULL", h)

(* recv_msg_old_flow in STEP_OLD_CHECK_LEN.                                *)
OldCheckLen(h) ==
  \/ /\ Avail(h) < OLD_HEAD_LEN
     /\ Continue("OLD_CHECK_LEN", h)
     /\ UNCHANGED msg_len
  \/ /\ Avail(h) >= OLD_HEAD_LEN
     /\ msg_len' = msg_buff[h + 3]
     /\ try_recv_old_msg_body(h, msg_len')

(* A keyword of the new protocol anywhere in the buffer comes first.       *)
start_recv ==
  LET new == get_msg_head(msg_buff, MAGIC_WORD)
      old == get_msg_head(msg_buff, OLD_MAGIC_WORD)
  IN  \/ new # 0 /\ try_recv_head(new)
      \/ new = 0 /\ old # 0 /\ OldCheckLen(old)
      \/ new = 0 /\ old = 0 /\ Continue("RECV_START", 0) /\ UNCHANGED msg_len

(* One round of the switch of try_recv_full_msg.                           *)
Parse ==
  /\ pc = "parse"
  /\ \/ next_step = "RECV_START" /\ start_recv
     \/ next_step = "RECV_HEAD" /\ try_recv_head(head_pos)
     \/ next_step = "OLD_CHECK_LEN" /\ OldCheckLen(head_pos)
     \/ /\ next_step = "OLD_CHECK_FULL"
        /\ try_recv_old_msg_body(head_pos, msg_len)
        /\ UNCHANGED msg_len
  /\ UNCHANGED line

(* read() blocks until bytes are there and returns some of them; without   *)
(* room for them the call fails.                                           *)
recv_raw_data ==
  /\ pc = "read"
  /\ \E n \in 1 .. PKG :
       /\ n <= Len(wire)
       /\ wire' = SubSeq(wire, n + 1, Len(wire))
       /\ \/ /\ Len(msg_buff) + n <= RX_BUFF_LEN
             /\ msg_buff' = msg_buff \o SubSeq(wire, 1, n)
             /\ pc' = "parse"
             /\ UNCHANGED <<next_step, head_pos, calls>>
          \/ Len(msg_buff) + n > RX_BUFF_LEN /\ Return(<< >>)
  /\ UNCHANGED <<spaced, sent, msg_len>>

Next == (\E f \in Frames : Transmit(f)) \/ Parse \/ recv_raw_data

(* The receiver thread keeps running; the peer sends when it likes.        *)
Spec == Init /\ [][Next]_vars /\ WF_vars(Parse \/ recv_raw_data)

-----------------------------------------------------------------------------
(* What the parser relies on: nothing in the protocols escapes a keyword   *)
(* in the data, so a line may also carry what it takes for a frame.        *)

KeywordAt(b, i) == <<b[i], b[i + 1]>> \in {MAGIC_WORD, OLD_MAGIC_WORD}

NewFrame(b, pkgs) ==
  /\ Len(b) \in HEAD_LEN .. PKG
  /\ <<b[1], b[2]>> = MAGIC_WORD /\ b[3] = Len(b)
  /\ pkgs = <<b>>

OldFrame(b, pkgs) ==
  /\ Len(b) \in OLD_HEAD_LEN .. RX_BUFF_LEN
  /\ <<b[1], b[2]>> = OLD_MAGIC_WORD /\ Len(b) = OLD_HEAD_LEN + b[4] + OLD_TAIL_LEN
  /\ pkgs = <<convert_old_to_new(b)>>

(* Noise has no keyword, or is a head whose length betrays it.             *)
Noise(b, pkgs) ==
  /\ Len(b) >= 1 /\ pkgs = << >>
  /\ \/ Len(b) >= 2 => ~KeywordAt(b, 1)
     \/ Len(b) >= 3 /\ <<b[1], b[2]>> = MAGIC_WORD /\ b[3] > PKG

(* Keywords only start frames, whatever follows what on the line.          *)
CleanLine ==
  /\ \A f \in Frames : LET b == Bytes[f] IN
       /\ NewFrame(b, Package[f]) \/ OldFrame(b, Package[f]) \/ Noise(b, Package[f])
       /\ \A i \in 2 .. Len(b) - 1 : ~KeywordAt(b, i)
  /\ \A f, g \in Frames : ~KeywordAt(<<Bytes[f][Len(Bytes[f])], Bytes[g][1]>>, 1)

-----------------------------------------------------------------------------
(* Properties.                                                             *)

(* The type of every variable; head_pos points into msg_buff of the code.  *)
RxTypeOK ==
  /\ wire \in Seq(0 .. 255) /\ spaced \in BOOLEAN /\ sent \in Seq(Frames)
  /\ pc \in {"parse", "read"}
  /\ msg_buff \in Seq(0 .. 255)
  /\ next_step \in {"RECV_START", "RECV_HEAD", "OLD_CHECK_LEN", "OLD_CHECK_FULL"}
  /\ head_pos \in 0 .. RX_BUFF_LEN
  /\ msg_len \in 0 .. 255
  /\ received \in Seq(Seq(Fields)) /\ forwarded \in Seq(Seq(Fields))

Keyword(h) == <<msg_buff[h], msg_buff[h + 1]>>

(* The buffer never overflows, and in every step after the first head_pos  *)
(* still points to the keyword that step was entered for.                  *)
HeadStaysOnKeyword ==
  /\ Len(msg_buff) <= RX_BUFF_LEN
  /\ (next_step = "RECV_START") <=> (head_pos = 0)
  /\ head_pos # 0 =>
       /\ head_pos < Len(msg_buff)
       /\ Keyword(head_pos) = IF next_step = "RECV_HEAD" THEN MAGIC_WORD ELSE OLD_MAGIC_WORD
  /\ next_step = "OLD_CHECK_FULL" => msg_len = msg_buff[head_pos + 3]

(* However the line cuts the stream in reads, and wherever in it a call    *)
(* starts, every package that is returned was sent, each once and in the   *)
(* order of sending: none is made up of two frames or of noise.  This is   *)
(* said of a line on which keywords only start frames: CleanLine.          *)
OnlySentFrames ==
  \E at \in [1 .. Len(received) -> 1 .. Len(sent)] :
    /\ \A k \in DOMAIN received : Package[sent[at[k]]] = <<received[k]>>
    /\ \A j, k \in DOMAIN received : j < k => at[j] < at[k]

(* If the peer pauses between frames, none is lost or overtaken ...        *)
ReceivedIsPrefix ==
  spaced =>
    /\ Len(received) <= Len(sent)
    /\ \A k \in 1 .. Len(received) : Package[sent[k]] = <<received[k]>>

(* ... and every one is eventually returned.                               *)
AllAreReceived ==
  \A n \in 1 .. MaxSent : spaced /\ Len(sent) >= n ~> Len(received) >= n

(* ASSERT_SUCC_WITH(msg_check(rcv_buf), ...) (msg_util.c:462): a whole     *)
(* frame passes the check and is forwarded.                                *)
ReceivedIsForwarded == forwarded = received

=============================================================================
