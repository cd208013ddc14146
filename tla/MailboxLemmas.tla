---------------------------- MODULE MailboxLemmas ----------------------------
(***************************************************************************)
(* What the operators of the ring do, for any number of slots and any      *)
(* packages: the cursors wrap around, a push appends to the listing of     *)
(* traverse_mailbox and a pop takes its head.                              *)
(***************************************************************************)
EXTENDS Mailbox, SequenceTheorems, TLAPS

-----------------------------------------------------------------------------
(* Arithmetic of the cursors.                                              *)

(* A cursor below the size is its own remainder.                           *)
LEMMA ModSmall ==
  ASSUME NEW n \in Nat \ {0}, NEW a \in 0 .. n - 1
  PROVE  a % n = a
  OBVIOUS

(* A cursor that ran past the end once wraps to the start.                 *)
LEMMA ModOnce ==
  ASSUME NEW n \in Nat \ {0}, NEW a \in n .. 2 * n - 1
  PROVE  a % n = a - n
  OBVIOUS

(* NextIndex steps to the next slot and from the last one to slot 0.       *)
LEMMA NextIndexIs ==
  ASSUME NEW i \in Index
  PROVE  /\ NextIndex(i) \in Index
         /\ NextIndex(i) = IF i = MAX_MSG_NUM - 1 THEN 0 ELSE i + 1
<1>1. CASE i = MAX_MSG_NUM - 1
  <2>1. i + 1 \in MAX_MSG_NUM .. 2 * MAX_MSG_NUM - 1
    BY <1>1, RingAssumption DEF Index
  <2>2. (i + 1) % MAX_MSG_NUM = 0
    BY <1>1, <2>1, ModOnce, RingAssumption DEF Index
  <2>3. QED
    BY <1>1, <2>2, RingAssumption DEF Index, NextIndex
<1>2. CASE i # MAX_MSG_NUM - 1
  <2>1. i + 1 \in 0 .. MAX_MSG_NUM - 1
    BY <1>2, RingAssumption DEF Index
  <2>2. (i + 1) % MAX_MSG_NUM = i + 1
    BY <2>1, ModSmall, RingAssumption
  <2>3. QED
    BY <1>2, <2>1, <2>2, RingAssumption DEF Index, NextIndex
<1>3. QED
  BY <1>1, <1>2

(* Two cursors at most one turn apart: the sum of a cursor and an offset   *)
(* within the ring wraps at most once.                                     *)
LEMMA WrapIs ==
  ASSUME NEW i \in Index, NEW d \in 0 .. MAX_MSG_NUM
  PROVE  /\ (i + d) % MAX_MSG_NUM \in Index
         /\ (i + d) % MAX_MSG_NUM =
              IF i + d < MAX_MSG_NUM THEN i + d ELSE i + d - MAX_MSG_NUM
<1>1. CASE i + d < MAX_MSG_NUM
  <2>1. i + d \in 0 .. MAX_MSG_NUM - 1
    BY <1>1, RingAssumption DEF Index
  <2>2. QED
    BY <1>1, <2>1, ModSmall, RingAssumption DEF Index
<1>2. CASE ~(i + d < MAX_MSG_NUM)
  <2>1. i + d \in MAX_MSG_NUM .. 2 * MAX_MSG_NUM - 1
    BY <1>2, RingAssumption DEF Index
  <2>2. QED
    BY <1>2, <2>1, ModOnce, RingAssumption DEF Index
<1>3. QED
  BY <1>1, <1>2

(* get_msg_num is the distance from front to rear; the ring is empty at    *)
(* distance 0 and full at distance MAX_MSG_NUM - 1.                        *)
LEMMA CountIs ==
  ASSUME NEW b \in Mailboxes
  PROVE  /\ get_msg_num(b) \in 0 .. MAX_MSG_NUM - 1
         /\ get_msg_num(b) = IF b.rear < b.front THEN b.rear - b.front + MAX_MSG_NUM
                                                 ELSE b.rear - b.front
         /\ is_empty(b) <=> get_msg_num(b) = 0
         /\ is_full(b) <=> get_msg_num(b) = MAX_MSG_NUM - 1
<1>. DEFINE n == b.rear - b.front + MAX_MSG_NUM
<1>1. b.rear \in Index /\ b.front \in Index
  BY DEF Mailboxes
<1>2. NextIndex(b.rear) = IF b.rear = MAX_MSG_NUM - 1 THEN 0 ELSE b.rear + 1
  BY <1>1, NextIndexIs
<1>3. CASE b.rear < b.front
  <2>1. n \in 0 .. MAX_MSG_NUM - 1
    BY <1>1, <1>3, RingAssumption DEF Index
  <2>2. n % MAX_MSG_NUM = n
    BY <2>1, ModSmall, RingAssumption
  <2>3. QED
    BY <1>1, <1>2, <1>3, <2>1, <2>2, RingAssumption
    DEF Index, get_msg_num, is_empty, is_full
<1>4. CASE ~(b.rear < b.front)
  <2>1. n \in MAX_MSG_NUM .. 2 * MAX_MSG_NUM - 1
    BY <1>1, <1>4, RingAssumption DEF Index
  <2>2. n % MAX_MSG_NUM = n - MAX_MSG_NUM
    BY <2>1, ModOnce, RingAssumption
  <2>3. get_msg_num(b) = b.rear - b.front
    BY <1>1, <2>2, RingAssumption DEF Index, get_msg_num
  <2>4. get_msg_num(b) \in 0 .. MAX_MSG_NUM - 1
    BY <1>1, <1>4, <2>3, RingAssumption DEF Index
  <2>5. is_empty(b) <=> get_msg_num(b) = 0
    BY <1>1, <2>3, RingAssumption DEF Index, is_empty
  <2>6. is_full(b) <=> get_msg_num(b) = MAX_MSG_NUM - 1
    BY <1>1, <1>2, <1>4, <2>3, RingAssumption DEF Index, is_full
  <2>7. QED
    BY <1>4, <2>3, <2>4, <2>5, <2>6
<1>5. QED
  BY <1>3, <1>4

-----------------------------------------------------------------------------
(* What the operations do to the listed packages.                          *)

(* The listing is a sequence as long as get_msg_num says.                  *)
LEMMA ListingIs ==
  ASSUME NEW b \in Mailboxes
  PROVE  /\ traverse_mailbox(b) \in Seq(Msg_pkg \cup {Blank})
         /\ Len(traverse_mailbox(b)) = get_msg_num(b)
         /\ \A k \in 1 .. get_msg_num(b) :
              traverse_mailbox(b)[k] = b.msg_queue[(b.front + (k - 1)) % MAX_MSG_NUM]
<1>1. get_msg_num(b) \in Nat
  BY CountIs
<1>2. b.front \in Index /\ b.msg_queue \in [Index -> Msg_pkg \cup {Blank}]
  BY DEF Mailboxes
<1>3. ASSUME NEW k \in 1 .. get_msg_num(b)
      PROVE  (b.front + (k - 1)) % MAX_MSG_NUM \in Index
  <2>1. k - 1 \in 0 .. MAX_MSG_NUM
    BY CountIs, RingAssumption
  <2>2. QED
    BY <1>2, <2>1, WrapIs
<1>4. QED
  BY <1>1, <1>2, <1>3 DEF traverse_mailbox

(* A push into a ring that is not full appends to the listing.             *)
LEMMA PushAppends ==
  ASSUME NEW b \in Mailboxes, NEW pkg \in Msg_pkg, ~is_full(b)
  PROVE  /\ push_mailbox(b, pkg) \in Mailboxes
         /\ traverse_mailbox(push_mailbox(b, pkg)) = Append(traverse_mailbox(b), pkg)
<1>. DEFINE c == push_mailbox(b, pkg)
            n == get_msg_num(b)
            s == traverse_mailbox(b)
            T == Msg_pkg \cup {Blank}
<1>1. /\ b.rear \in Index /\ b.front \in Index
      /\ b.msg_queue \in [Index -> T]
  BY DEF Mailboxes
<1>2. /\ NextIndex(b.rear) \in Index
      /\ NextIndex(b.rear) = IF b.rear = MAX_MSG_NUM - 1 THEN 0 ELSE b.rear + 1
  BY <1>1, NextIndexIs
<1>3. c = [b EXCEPT !.msg_queue[b.rear] = pkg, !.rear = NextIndex(b.rear)]
  BY DEF push_mailbox
<1>4. /\ c \in Mailboxes
      /\ c.front = b.front
      /\ c.rear = NextIndex(b.rear)
      /\ c.msg_queue = [b.msg_queue EXCEPT ![b.rear] = pkg]
  BY <1>1, <1>2, <1>3 DEF Mailboxes
<1>5. n \in 0 .. MAX_MSG_NUM - 2
  BY CountIs, RingAssumption
<1>6. n = IF b.rear < b.front THEN b.rear - b.front + MAX_MSG_NUM ELSE b.rear - b.front
  BY CountIs
<1>7. get_msg_num(c) = IF c.rear < c.front THEN c.rear - c.front + MAX_MSG_NUM
                                           ELSE c.rear - c.front
  BY <1>4, CountIs
<1>8. get_msg_num(c) = n + 1
  BY <1>1, <1>2, <1>4, <1>5, <1>6, <1>7, RingAssumption DEF Index
<1>9. ASSUME NEW k \in 1 .. n + 1
      PROVE  c.msg_queue[(b.front + (k - 1)) % MAX_MSG_NUM] =
               IF k = n + 1 THEN pkg
                            ELSE b.msg_queue[(b.front + (k - 1)) % MAX_MSG_NUM]
  <2>. DEFINE i == (b.front + (k - 1)) % MAX_MSG_NUM
  <2>1. k - 1 \in 0 .. MAX_MSG_NUM
    BY <1>5, RingAssumption
  <2>2. /\ i \in Index
        /\ i = IF b.front + (k - 1) < MAX_MSG_NUM THEN b.front + (k - 1)
                                                   ELSE b.front + (k - 1) - MAX_MSG_NUM
    BY <1>1, <2>1, WrapIs
  <2>. HIDE DEF i, n
  <2>3. /\ k \in Int /\ n \in Int /\ b.front \in Int /\ b.rear \in Int /\ i \in Int
        /\ MAX_MSG_NUM \in Int /\ 1 <= k /\ k <= n + 1 /\ n + 2 <= MAX_MSG_NUM
        /\ 0 <= b.front /\ b.front < MAX_MSG_NUM /\ 0 <= b.rear /\ b.rear < MAX_MSG_NUM
    BY <1>1, <1>5, <2>2, RingAssumption DEF Index
  <2>4. i = b.rear <=> k = n + 1
    <3>1. CASE b.rear < b.front
      BY <1>6, <2>2, <2>3, <3>1
    <3>2. CASE ~(b.rear < b.front)
      BY <1>6, <2>2, <2>3, <3>2
    <3>3. QED
      BY <3>1, <3>2
  <2>5. QED
    BY <1>1, <1>4, <2>2, <2>4 DEF i
<1>10. /\ s \in Seq(T) /\ Len(s) = n
       /\ \A k \in 1 .. n : s[k] = b.msg_queue[(b.front + (k - 1)) % MAX_MSG_NUM]
  BY ListingIs
<1>11. /\ traverse_mailbox(c) \in Seq(T)
       /\ Len(traverse_mailbox(c)) = n + 1
       /\ \A k \in 1 .. n + 1 :
            traverse_mailbox(c)[k] = c.msg_queue[(b.front + (k - 1)) % MAX_MSG_NUM]
  BY <1>4, <1>8, ListingIs
<1>12. /\ Append(s, pkg) \in Seq(T)
       /\ Len(Append(s, pkg)) = n + 1
       /\ \A k \in 1 .. n : Append(s, pkg)[k] = s[k]
       /\ Append(s, pkg)[n + 1] = pkg
  BY <1>10, AppendProperties
<1>. HIDE DEF c, n, s
<1>13. ASSUME NEW k \in 1 .. n + 1
       PROVE  traverse_mailbox(c)[k] = Append(s, pkg)[k]
  <2>1. CASE k = n + 1
    BY <1>4, <1>9, <1>11, <1>12, <2>1
  <2>2. CASE k # n + 1
    <3>1. k \in 1 .. n
      BY <1>5, <2>2, RingAssumption
    <3>2. QED
      BY <1>4, <1>9, <1>10, <1>11, <1>12, <2>2, <3>1
  <2>3. QED
    BY <2>1, <2>2
<1>14. traverse_mailbox(c) = Append(s, pkg)
  BY <1>11, <1>12, <1>13, SeqEqual
<1>15. QED
  BY <1>4, <1>14 DEF c, s

(* A pop from a ring that is not empty copies out the head of the listing  *)
(* and leaves its tail.                                                    *)
LEMMA PopTakesHead ==
  ASSUME NEW b \in Mailboxes, ~is_empty(b)
  PROVE  /\ pop_mailbox(b) \in Mailboxes
         /\ traverse_mailbox(b) # << >>
         /\ popped(b) = Head(traverse_mailbox(b))
         /\ traverse_mailbox(pop_mailbox(b)) = Tail(traverse_mailbox(b))
<1>. DEFINE c == pop_mailbox(b)
            n == get_msg_num(b)
            s == traverse_mailbox(b)
            T == Msg_pkg \cup {Blank}
<1>1. /\ b.rear \in Index /\ b.front \in Index
      /\ b.msg_queue \in [Index -> T]
  BY DEF Mailboxes
<1>2. /\ NextIndex(b.front) \in Index
      /\ NextIndex(b.front) = IF b.front = MAX_MSG_NUM - 1 THEN 0 ELSE b.front + 1
  BY <1>1, NextIndexIs
<1>3. c = [b EXCEPT !.front = NextIndex(b.front)]
  BY DEF pop_mailbox
<1>4. /\ c \in Mailboxes
      /\ c.front = NextIndex(b.front)
      /\ c.rear = b.rear
      /\ c.msg_queue = b.msg_queue
  BY <1>1, <1>2, <1>3 DEF Mailboxes
<1>5. n \in 1 .. MAX_MSG_NUM - 1
  BY CountIs, RingAssumption
<1>6. n = IF b.rear < b.front THEN b.rear - b.front + MAX_MSG_NUM ELSE b.rear - b.front
  BY CountIs
<1>7. get_msg_num(c) = IF c.rear < c.front THEN c.rear - c.front + MAX_MSG_NUM
                                           ELSE c.rear - c.front
  BY <1>4, CountIs
<1>8. get_msg_num(c) = n - 1
  BY <1>1, <1>2, <1>4, <1>5, <1>6, <1>7, RingAssumption DEF Index
<1>9. /\ s \in Seq(T) /\ Len(s) = n
      /\ \A k \in 1 .. n : s[k] = b.msg_queue[(b.front + (k - 1)) % MAX_MSG_NUM]
  BY ListingIs
<1>10. /\ s # << >> /\ Head(s) = s[1]
       /\ Tail(s) \in Seq(T)
       /\ Len(Tail(s)) = n - 1
       /\ \A k \in 1 .. n - 1 : Tail(s)[k] = s[k + 1]
  BY <1>5, <1>9, HeadTailProperties
<1>11. popped(b) = Head(s)
  <2>1. (b.front + (1 - 1)) % MAX_MSG_NUM = b.front
    BY <1>1, ModSmall, RingAssumption DEF Index
  <2>2. QED
    BY <1>5, <1>9, <1>10, <2>1 DEF popped
<1>12. ASSUME NEW k \in 1 .. n - 1
       PROVE  (c.front + (k - 1)) % MAX_MSG_NUM = (b.front + k) % MAX_MSG_NUM
  <2>1. k - 1 \in 0 .. MAX_MSG_NUM /\ k \in 0 .. MAX_MSG_NUM
    BY <1>5, RingAssumption
  <2>2. (c.front + (k - 1)) % MAX_MSG_NUM =
              IF c.front + (k - 1) < MAX_MSG_NUM THEN c.front + (k - 1)
                                                 ELSE c.front + (k - 1) - MAX_MSG_NUM
    BY <1>2, <1>4, <2>1, WrapIs
  <2>3. (b.front + k) % MAX_MSG_NUM =
              IF b.front + k < MAX_MSG_NUM THEN b.front + k
                                           ELSE b.front + k - MAX_MSG_NUM
    BY <1>1, <2>1, WrapIs
  <2>4. QED
    BY <1>1, <1>2, <1>4, <1>5, <2>2, <2>3, RingAssumption DEF Index
<1>13. /\ traverse_mailbox(c) \in Seq(T)
       /\ Len(traverse_mailbox(c)) = n - 1
       /\ \A k \in 1 .. n - 1 :
            traverse_mailbox(c)[k] = b.msg_queue[(b.front + k) % MAX_MSG_NUM]
  BY <1>4, <1>8, <1>12, ListingIs
<1>. HIDE DEF c, n, s
<1>14. ASSUME NEW k \in 1 .. n - 1
       PROVE  s[k + 1] = b.msg_queue[(b.front + k) % MAX_MSG_NUM]
  <2>1. k + 1 \in 1 .. n /\ (k + 1) - 1 = k
    BY <1>5, RingAssumption
  <2>2. QED
    BY <1>9, <2>1
<1>15. traverse_mailbox(c) = Tail(s)
  BY <1>10, <1>13, <1>14, SeqEqual
<1>16. QED
  BY <1>4, <1>10, <1>11, <1>15 DEF c, s

(* The empty ring lists nothing.                                           *)
LEMMA InitIsEmpty ==
  /\ init_mailbox \in Mailboxes
  /\ traverse_mailbox(init_mailbox) = << >>
<1>1. 0 \in Index
  BY RingAssumption DEF Index
<1>2. init_mailbox \in Mailboxes
  BY <1>1 DEF init_mailbox, Mailboxes
<1>3. is_empty(init_mailbox)
  BY DEF init_mailbox, is_empty
<1>4. Len(traverse_mailbox(init_mailbox)) = 0
  BY <1>2, <1>3, CountIs, ListingIs
<1>5. QED
  BY <1>2, <1>4, ListingIs

=============================================================================
