---------------------------- MODULE MailboxProofs ----------------------------
(***************************************************************************)
(* The ring of app/msg_mailbox.c keeps its type and implements a bounded   *)
(* first-in first-out queue, for any number of slots and any packages.     *)
(***************************************************************************)
EXTENDS MailboxRing, MailboxLemmas, WellFoundedInduction

(* Whatever sequence of pushes and pops: the cursors stay inside the array *)
(* and the array holds packages.                                           *)
THEOREM TypeCorrect == Spec => []TypeOK
<1>1. Init => TypeOK
  BY InitIsEmpty DEF Init, TypeOK
<1>2. TypeOK /\ [Next]_vars => TypeOK'
  <2> SUFFICES ASSUME TypeOK, [Next]_vars PROVE TypeOK'
    OBVIOUS
  <2>1. ASSUME NEW msg \in Msg_pkg, Push(msg) PROVE TypeOK'
    <3>1. push_mailbox(mb, msg) \in Mailboxes
      <4>1. CASE is_full(mb)
        BY <4>1 DEF push_mailbox, TypeOK
      <4>2. CASE ~is_full(mb)
        BY <4>2, PushAppends DEF TypeOK
      <4>3. QED
        BY <4>1, <4>2
    <3>2. is_full(mb) \in BOOLEAN
      BY DEF is_full
    <3>3. QED
      BY <2>1, <3>1, <3>2 DEF Push, TypeOK
  <2>2. ASSUME Pop PROVE TypeOK'
    <3>1. pop_mailbox(mb) \in Mailboxes
      <4>1. CASE is_empty(mb)
        BY <4>1 DEF pop_mailbox, TypeOK
      <4>2. CASE ~is_empty(mb)
        BY <4>2, PopTakesHead DEF TypeOK
      <4>3. QED
        BY <4>1, <4>2
    <3>2. popped(mb) \in Msg_pkg \cup {Blank}
      BY DEF popped, TypeOK, Mailboxes
    <3>3. is_empty(mb) \in BOOLEAN
      BY DEF is_empty
    <3>4. QED
      BY <2>2, <3>1, <3>2, <3>3 DEF Pop, TypeOK
  <2>3. CASE UNCHANGED vars
    BY <2>3 DEF vars, TypeOK
  <2>4. QED
    BY <2>1, <2>2, <2>3 DEF Next
<1>3. QED
  BY <1>1, <1>2, PTL DEF Spec

(* The ring lists only what a client pushed: no slot left blank by         *)
(* init_mailbox or left behind by pop_mailbox comes back.                  *)
THEOREM ListedWasPushedAlways == Spec => []ListedWasPushed
<1>. DEFINE s == traverse_mailbox(mb)
<1>1. Init => ListedWasPushed
  BY InitIsEmpty DEF Init, ListedWasPushed
<1>2. TypeOK /\ ListedWasPushed /\ [Next]_vars => ListedWasPushed'
  <2> SUFFICES ASSUME TypeOK, ListedWasPushed, [Next]_vars PROVE ListedWasPushed'
    OBVIOUS
  <2>0. /\ mb \in Mailboxes /\ s \in Seq(Msg_pkg \cup {Blank})
        /\ \A k \in 1 .. Len(s) : s[k] \in Msg_pkg
    BY ListingIs DEF TypeOK, ListedWasPushed
  <2>1. ASSUME NEW msg \in Msg_pkg, Push(msg), ~is_full(mb) PROVE ListedWasPushed'
    <3>1. traverse_mailbox(mb)' = Append(s, msg)
      BY <2>0, <2>1, PushAppends DEF Push
    <3>2. QED
      BY <2>0, <2>1, <3>1, AppendProperties DEF ListedWasPushed
  <2>2. ASSUME Pop, ~is_empty(mb) PROVE ListedWasPushed'
    <3>1. s # << >> /\ traverse_mailbox(mb)' = Tail(s)
      BY <2>0, <2>2, PopTakesHead DEF Pop
    <3>2. QED
      BY <2>0, <3>1, HeadTailProperties DEF ListedWasPushed
  <2>3. CASE mb' = mb
    BY <2>3 DEF ListedWasPushed
  <2>4. QED
    BY <2>1, <2>2, <2>3 DEF Next, Push, Pop, push_mailbox, pop_mailbox, vars
<1>3. QED
  BY <1>1, <1>2, TypeCorrect, PTL DEF Spec

(* The ring is a FIFO queue of MAX_MSG_NUM - 1 packages: every push and    *)
(* every pop is an Enqueue or a Dequeue of MailQueue on the listing, with  *)
(* the same result.                                                        *)
THEOREM RingIsMailQueue == Spec => ImplementsMailQueue
<1>. DEFINE s == traverse_mailbox(mb)
<1>1. Init => Queue!QueueInit
  BY InitIsEmpty DEF Init, Queue!QueueInit
<1>2. TypeOK /\ [Next]_vars => [Queue!QueueNext]_<<s, last>>
  <2> SUFFICES ASSUME TypeOK, [Next]_vars PROVE [Queue!QueueNext]_<<s, last>>
    OBVIOUS
  <2>0. /\ mb \in Mailboxes /\ s \in Seq(Msg_pkg \cup {Blank})
        /\ Len(s) \in 0 .. MAX_MSG_NUM - 1
        /\ is_full(mb) <=> Len(s) = MAX_MSG_NUM - 1
        /\ is_empty(mb) <=> Len(s) = 0
    BY CountIs, ListingIs DEF TypeOK
  <2>1. ASSUME NEW msg \in Msg_pkg, Push(msg) PROVE Queue!Enqueue(msg)
    <3>1. CASE is_full(mb)
      BY <2>0, <2>1, <3>1 DEF Push, push_mailbox, Queue!Enqueue
    <3>2. CASE ~is_full(mb)
      <4>1. traverse_mailbox(mb)' = Append(s, msg)
        BY <2>0, <2>1, <3>2, PushAppends DEF Push
      <4>2. Len(s) < MAX_MSG_NUM - 1
        BY <2>0, <3>2, RingAssumption
      <4>3. QED
        BY <2>1, <3>2, <4>1, <4>2 DEF Push, Queue!Enqueue
    <3>3. QED
      BY <3>1, <3>2
  <2>2. ASSUME Pop PROVE Queue!Dequeue
    <3>1. CASE is_empty(mb)
      <4>1. s = << >>
        BY <2>0, <3>1
      <4>2. QED
        BY <2>2, <3>1, <4>1 DEF Pop, pop_mailbox, Queue!Dequeue
    <3>2. CASE ~is_empty(mb)
      <4>1. /\ s # << >> /\ popped(mb) = Head(s)
            /\ traverse_mailbox(mb)' = Tail(s)
        BY <2>0, <2>2, <3>2, PopTakesHead DEF Pop
      <4>2. QED
        BY <2>2, <3>2, <4>1 DEF Pop, Queue!Dequeue
    <3>3. QED
      BY <3>1, <3>2
  <2>3. CASE UNCHANGED vars
    BY <2>3 DEF vars
  <2>4. QED
    BY <2>1, <2>2, <2>3 DEF Next, Queue!QueueNext
<1>3. QED
  BY <1>1, <1>2, TypeCorrect, PTL DEF Spec, ImplementsMailQueue, Queue!QueueSpec

(* What a walk lists from slot i on, for whatever function satisfies the   *)
(* equation of the loop: the slots from i up to rear, as the closed form   *)
(* lists them for a ring whose front is i.                                 *)
LEMMA WalkFrom ==
  ASSUME NEW b \in Mailboxes, NEW f,
         f = [i \in Index |-> IF i = b.rear THEN << >>
                                 ELSE <<b.msg_queue[i]>> \o f[NextIndex(i)]]
  PROVE  \A i \in Index : f[i] = traverse_mailbox([b EXCEPT !.front = i])
<1>. DEFINE At(i) == [b EXCEPT !.front = i]
            Far == {d \in Nat : \E i \in Index :
                      get_msg_num(At(i)) = d /\ f[i] # traverse_mailbox(At(i))}
            R == OpToRel(<, Nat)
<1>1. ASSUME NEW i \in Index
      PROVE  /\ At(i) \in Mailboxes
             /\ At(i).front = i /\ At(i).rear = b.rear /\ At(i).msg_queue = b.msg_queue
             /\ get_msg_num(At(i)) \in Nat
             /\ NextIndex(i) \in Index
  <2>1. At(i) \in Mailboxes
    BY DEF Mailboxes
  <2>2. At(i).front = i /\ At(i).rear = b.rear /\ At(i).msg_queue = b.msg_queue
    BY DEF Mailboxes
  <2>3. get_msg_num(At(i)) \in Nat
    BY <2>1, CountIs
  <2> QED
    BY <2>1, <2>2, <2>3, NextIndexIs
<1>2. ASSUME NEW i \in Index, i = b.rear
      PROVE  f[i] = traverse_mailbox(At(i))
  <2>1. is_empty(At(i))
    BY <1>1, <1>2 DEF is_empty
  <2>2. Len(traverse_mailbox(At(i))) = 0 /\ traverse_mailbox(At(i)) \in Seq(Msg_pkg \cup {Blank})
    BY <1>1, <2>1, CountIs, ListingIs
  <2>3. f[i] = << >>
    BY <1>2
  <2> HIDE DEF At
  <2> QED
    BY <2>2, <2>3
<1>3. ASSUME NEW i \in Index, i # b.rear
      PROVE  /\ get_msg_num(At(NextIndex(i))) < get_msg_num(At(i))
             /\ f[NextIndex(i)] = traverse_mailbox(At(NextIndex(i)))
                  => f[i] = traverse_mailbox(At(i))
  <2> DEFINE s == traverse_mailbox(At(i))
             T == Msg_pkg \cup {Blank}
  <2>1. ~is_empty(At(i))
    BY <1>1, <1>3 DEF is_empty
  <2>2. pop_mailbox(At(i)) = At(NextIndex(i))
    BY <1>1, <2>1 DEF pop_mailbox
  <2>3. f[i] = <<b.msg_queue[i]>> \o f[NextIndex(i)]
    BY <1>3
  <2>4. popped(At(i)) = b.msg_queue[i]
    BY <1>1 DEF popped
  <2> HIDE DEF At
  <2>5. /\ s # << >> /\ s \in Seq(T)
        /\ Head(s) = b.msg_queue[i]
        /\ traverse_mailbox(At(NextIndex(i))) = Tail(s)
        /\ Len(s) = get_msg_num(At(i))
        /\ Len(traverse_mailbox(At(NextIndex(i)))) = get_msg_num(At(NextIndex(i)))
    BY <1>1, <2>1, <2>2, <2>4, PopTakesHead, ListingIs
  <2> HIDE DEF s
  <2>6. /\ Tail(s) \in Seq(T) /\ Len(Tail(s)) = Len(s) - 1 /\ Len(s) \in Nat
        /\ Head(s) \in T
    BY ONLY <2>5, HeadTailProperties, LenProperties
  <2>7. <<Head(s)>> \o Tail(s) = s
    BY ONLY <2>5, <2>6
  <2>8. get_msg_num(At(NextIndex(i))) < get_msg_num(At(i))
    BY <1>1, <2>5, <2>6
  <2> QED
    BY <2>3, <2>5, <2>7, <2>8 DEF s
<1>4. Far = {}
  <2> SUFFICES ASSUME Far # {} PROVE FALSE
    OBVIOUS
  <2>1. IsWellFoundedOn(R, Nat)
    BY NatLessThanWellFounded
  <2>2. Far \in SUBSET Nat
    OBVIOUS
  <2>3. \A d, e \in Nat : d < e => <<d, e>> \in R
    BY DEF OpToRel
  <2>4. PICK d \in Far : \A e \in Far : ~ (<<e, d>> \in R)
    <3> HIDE DEF Far, R
    <3> QED
      BY <2>1, <2>2, WFMin
  <2>5. \A e \in Far : ~ (e < d)
    <3> HIDE DEF Far, R
    <3> QED
      BY <2>2, <2>3, <2>4
  <2>6. PICK i \in Index : get_msg_num(At(i)) = d /\ f[i] # traverse_mailbox(At(i))
    BY <2>4
  <2> HIDE DEF At
  <2>7. i # b.rear
    BY <1>2, <2>6
  <2>8. /\ NextIndex(i) \in Index
        /\ get_msg_num(At(NextIndex(i))) \in Nat
        /\ get_msg_num(At(NextIndex(i))) < d
        /\ f[NextIndex(i)] # traverse_mailbox(At(NextIndex(i)))
    BY <1>1, <1>3, <2>6, <2>7
  <2>9. get_msg_num(At(NextIndex(i))) \in Far
    BY <2>8
  <2> QED
    BY <2>5, <2>8, <2>9
<1>5. QED
  <2> HIDE DEF At
  <2>1. \A i \in Index : f[i] = traverse_mailbox(At(i))
    BY <1>1, <1>4
  <2> QED
    BY <2>1 DEF At

(* The loop of traverse_mailbox ends and lists the closed form: a function *)
(* that satisfies its equation exists, and every such function lists it.   *)
LEMMA WalkIs ==
  ASSUME NEW b \in Mailboxes
  PROVE  Walk(b) = traverse_mailbox(b)
<1>. DEFINE At(i) == [b EXCEPT !.front = i]
            Loop(f) == [i \in Index |-> IF i = b.rear THEN << >>
                                 ELSE <<b.msg_queue[i]>> \o f[NextIndex(i)]]
            g == [i \in Index |-> traverse_mailbox(At(i))]
            from == CHOOSE f : f = Loop(f)
<1>1. ASSUME NEW i \in Index
      PROVE  g[i] = Loop(g)[i]
  <2>1. NextIndex(i) \in Index
    BY NextIndexIs
  <2>2. At(i) \in Mailboxes /\ At(i).front = i /\ At(i).rear = b.rear
        /\ At(i).msg_queue = b.msg_queue
    BY DEF Mailboxes
  <2>3. CASE i = b.rear
    <3>1. is_empty(At(i))
      BY <2>2, <2>3 DEF is_empty
    <3>2. /\ Len(traverse_mailbox(At(i))) = 0
          /\ traverse_mailbox(At(i)) \in Seq(Msg_pkg \cup {Blank})
      BY <2>2, <3>1, CountIs, ListingIs
    <3>3. traverse_mailbox(At(i)) = << >>
      <4> HIDE DEF At
      <4> QED
        BY <3>2
    <3> QED
      BY <2>3, <3>3
  <2>4. CASE i # b.rear
    <3> DEFINE s == traverse_mailbox(At(i))
    <3>1. ~is_empty(At(i))
      BY <2>2, <2>4 DEF is_empty
    <3>2. pop_mailbox(At(i)) = At(NextIndex(i))
      BY <2>2, <3>1 DEF pop_mailbox
    <3>3. popped(At(i)) = b.msg_queue[i]
      BY <2>2 DEF popped
    <3>4. g[NextIndex(i)] = traverse_mailbox(At(NextIndex(i))) /\ g[i] = s
      BY <2>1
    <3>5. Loop(g)[i] = <<b.msg_queue[i]>> \o g[NextIndex(i)]
      BY <2>4
    <3> HIDE DEF At, g, Loop
    <3>6. /\ s # << >> /\ s \in Seq(Msg_pkg \cup {Blank})
          /\ Head(s) = b.msg_queue[i]
          /\ traverse_mailbox(At(NextIndex(i))) = Tail(s)
      BY <2>2, <3>1, <3>2, <3>3, PopTakesHead, ListingIs
    <3> HIDE DEF s
    <3>7. <<Head(s)>> \o Tail(s) = s
      BY ONLY <3>6
    <3> QED
      BY <3>4, <3>5, <3>6, <3>7
  <2> QED
    BY <2>3, <2>4
<1>2. g = Loop(g)
  BY <1>1
<1>3. from = Loop(from)
  <2> HIDE DEF g, Loop
  <2> QED
    BY <1>2
<1>4. Walk(b) = from[b.front]
  BY DEF Walk
<1>5. b.front \in Index /\ [b EXCEPT !.front = b.front] = b
  BY DEF Mailboxes
<1>6. \A i \in Index : from[i] = traverse_mailbox([b EXCEPT !.front = i])
  <2> HIDE DEF from
  <2> QED
    BY <1>3, WalkFrom
<1> QED
  BY <1>4, <1>5, <1>6

(* The closed form of traverse_mailbox that every other theorem about the  *)
(* ring speaks of is what its loop lists, in every state.                  *)
THEOREM TraverseIsTheWalkAlways == Spec => []TraverseIsTheWalk
<1>1. TypeOK => TraverseIsTheWalk
  BY WalkIs DEF TypeOK, TraverseIsTheWalk
<1>2. QED
  BY <1>1, TypeCorrect, PTL

=============================================================================
