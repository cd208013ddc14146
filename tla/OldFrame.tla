------------------------------ MODULE OldFrame ------------------------------
(***************************************************************************)
(* The conversions between packages and frames of the old protocol, in     *)
(* app/msg_util.c.  An old frame is                                        *)
(*    'S' 'M' shelf card cmd_type cmd len | data | checksum '@'            *)
(* and its bytes are of type char: whether one above 127 is negative as an *)
(* int depends on the platform (signed).                                   *)
(*                                                                         *)
(* A checksum is represented by what it covers: when two checksums of the  *)
(* model are equal, so are those of the code.                              *)
(***************************************************************************)
EXTENDS Integers, Sequences

HEAD_LEN == 16         (* sizeof(Msg_head) *)
FCS_LEN == 1
FRAME_DATA_OFFSET == 7
OLD_PTP == 1
NEW_PTP == 0

Bytes == 0 .. 255
Words == {n \in Nat : n < 65536}    (* uint16_t *)

Byte(x) == x % 256
Word(x) == x % 65536

(* The int that byte x is when it is read as a char.                       *)
AsInt(signed, x) == IF signed /\ x >= 128 THEN x - 256 ELSE x

(* The uint16_t that assigning such a char yields.                         *)
AsWord(signed, x) == Word(AsInt(signed, x))

(* Mutant: the checksum is taken for a part of the data.                   *)
LenWithFcs(pkg) == Word(pkg.total_len - HEAD_LEN)

get_msg_len_from_pkg(pkg) == Word(pkg.total_len - HEAD_LEN - FCS_LEN)

(* The sum over shelf, card, cmd_type_old, event, length and data, each    *)
(* reduced to a byte.                                                      *)
Sum(p, len) == <<p.shelf, p.card, p.cmd_type_old, Byte(p.event), Byte(len), p.data>>

(* Both conversions call memcpy with the length byte read as a char: when  *)
(* it is negative, the process dies.                                       *)
CopyDies(signed, len) == AsInt(signed, len) < 0

LenByte(pkg) == Byte(get_msg_len_from_pkg(pkg))

(* old_msg of convert_new_to_old, when the copy does not die.              *)
convert_new_to_old(pkg) ==
  LET frame == [shelf |-> pkg.shelf, card |-> pkg.card, cmd_type_old |-> pkg.cmd_type_old,
                event |-> Byte(pkg.event), len |-> LenByte(pkg),
                data |-> SubSeq(pkg.data, 1, LenByte(pkg))]
  IN [frame |-> frame, sum |-> Sum(frame, frame.len)]

(* The byte at an offset of an old frame, in the header, the data, or the  *)
(* checksum behind it.                                                     *)
ByteAt(old, i) ==
  LET head == <<83, 77, old.frame.shelf, old.frame.card, old.frame.cmd_type_old,
                old.frame.event, old.frame.len>>
  IN
  IF i < FRAME_DATA_OFFSET THEN <<head[i + 1]>>
  ELSE IF i < FRAME_DATA_OFFSET + old.frame.len
         THEN <<old.frame.data[i - FRAME_DATA_OFFSET + 1]>>
         ELSE old.sum

(* Mutant: the last byte of the data.                                      *)
LastDataOffset(len) == Byte(FRAME_DATA_OFFSET + len - 1)

(* check_sum_offset is a uint8_t.                                          *)
CheckSumOffset(len) == Byte(FRAME_DATA_OFFSET + len)

(* format_msg of convert_old_to_new, when the copy does not die: src_dir   *)
(* and ack_flag stay zero, the checksum is kept in fcs, get_pid_by_event   *)
(* returns 1 for every event.  No char exceeds MAX_EXT_MSG_LEN.            *)
convert_old_to_new(signed, old) ==
  [protocol_type |-> OLD_PTP,
   shelf         |-> old.frame.shelf,
   card          |-> old.frame.card,
   pid           |-> 1,
   cmd_type_old  |-> old.frame.cmd_type_old,
   event         |-> AsWord(signed, old.frame.event),
   ack_flag      |-> 0,
   src           |-> <<0, 0, 0>>,
   total_len     |-> old.frame.len + HEAD_LEN + FCS_LEN,
   data          |-> old.frame.data,
   fcs           |-> ByteAt(old, CheckSumOffset(old.frame.len))]

(* The sum msg_check means to compare with the fcs of an old package.      *)
CheckSum(pkg) == Sum(pkg, get_msg_len_from_pkg(pkg))

(* What an old message may hold for its length and command to survive both *)
(* conversions: both are read back as chars, and the offset of the         *)
(* checksum has to fit in a byte.                                          *)
LongestData(signed) == IF signed THEN 127 ELSE 248
LargestEvent(signed) == IF signed THEN 127 ELSE 255

Convertible(signed, event, data) ==
  Len(data) <= LongestData(signed) /\ event <= LargestEvent(signed)

=============================================================================
