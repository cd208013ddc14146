------------------------ MODULE EventProcessorProofs ------------------------
(***************************************************************************)
(* The event processor keeps what is proved of the syncers and of the ring,*)
(* for any number of callers, syncers, packages and slots of the ring.     *)
(***************************************************************************)
EXTENDS EventProcessor, SyncerProofs, MailboxLemmas

-----------------------------------------------------------------------------
(* The processor does what Syncer says.                                    *)

(* What a step can be, as far as the mailbox and the poster see it.        *)
LEMMA EventSteps ==
  ASSUME [EventNext]_eventVars
  PROVE  \/ deliver_mail
         \/ /\ UNCHANGED <<syncVars, mb, delivered>>
            /\ \/ UNCHANGED mailVars
               \/ hpc = "check" /\ hpc' = (IF is_empty(mb) THEN "wait" ELSE "fetch")
                    /\ handled' = handled
               \/ hpc = "wait" /\ hpc' = "asleep" /\ handled' = handled
               \/ hpc = "asleep" /\ hpc' = "fetch" /\ handled' = handled
               \/ hpc = "fetch" /\ hpc' = "check"
                    /\ handled' \in {handled, handled \cup {Blank}}
         \/ /\ SyncNext /\ UNCHANGED mailVars
            /\ \/ UNCHANGED posterVars
               \/ sync_event \/ FinishCopy \/ Notify
               \/ \E m \in Msgs : Recv(m)
<1>1. CASE UNCHANGED eventVars
  BY <1>1, Zenon DEF eventVars, mailVars
<1>2. CASE HandlerThread \/ WakeUp
  BY <1>2, Zenon DEF HandlerThread, WakeUp, CheckMailbox, wait_post, FetchAndProcess, HandlerStep
<1>3. ASSUME NEW c \in Callers,
             \/ CallerStep(c) \/ SpuriousWake(c)
             \/ \E e \in Events, k \in Kinds : Call(c, e, k)
      PROVE  SyncNext /\ UNCHANGED posterVars
  <2>1. SyncNext
    BY <1>3, Zenon DEF SyncNext
  <2>2. UNCHANGED posterVars
    BY <1>3, Zenon DEF CallerStep, SpuriousWake, Call, Enter, alloc_syncer, AllocInside, regist_event, RegistInside,
       BeginWait, Timeout, EndWait, TimedOut, BeginCopy, EndCopy, free_syncer, FreeInside
  <2> QED  BY <2>1, <2>2
<1>4. PosterThread \/ (\E m \in Msgs : Recv(m)) => SyncNext
  BY Zenon DEF PosterThread, PosterStep, SyncNext
<1> QED  BY <1>1, <1>2, <1>3, <1>4, Zenon DEF EventNext, PosterThread

LEMMA DeliverIsDelivered == deliver_mail => SyncNext
BY Zenon DEF deliver_mail, SyncNext, PosterStep

LEMMA EventStepIsSyncStep == [EventNext]_eventVars => [SyncNext]_syncVars
BY EventSteps, DeliverIsDelivered, Zenon

(* The mailbox and the handler thread, whatever they do, leave the callers *)
(* and the poster steps of Syncer: the bridge to the theorems about those. *)
LEMMA ProcessorDoesWhatSyncerSays ==
  EventSpec => SyncInit /\ [][SyncNext]_syncVars
<1>1. EventInit => SyncInit
  BY Zenon DEF EventInit
<1> QED  BY <1>1, EventStepIsSyncStep, PTL DEF EventSpec

(* So what is proved of the syncers holds in the processor.                *)
THEOREM SyncersInProcessor ==
  EventSpec => [](TypeOK /\ SlotOwnership /\ RegistrationIntegrity /\ SignalledGetsOwnEvent)
<1>1. EventSpec => []IInv
  BY ProcessorDoesWhatSyncerSays, InitIInv, StepIInv, PTL
<1>2. IInv => TypeOK /\ SlotOwnership /\ RegistrationIntegrity /\ SignalledGetsOwnEvent
  BY Zenon DEF IInv, Contents, SignalledGetsOwnEvent
<1> QED  BY <1>1, <1>2, PTL

-----------------------------------------------------------------------------
(* Types.                                                                  *)

(* A push keeps the ring a ring.                                           *)
LEMMA PushKeepsRing ==
  ASSUME NEW b \in Mailboxes, NEW p \in Msg_pkg
  PROVE  push_mailbox(b, p) \in Mailboxes
<1>1. CASE is_full(b)
  BY <1>1, Zenon DEF push_mailbox
<1>2. CASE ~is_full(b)
  BY <1>2, PushAppends, Zenon
<1> QED  BY <1>1, <1>2

(* What deliver_mail finds and leaves.                                     *)
LEMMA DeliverIs ==
  ASSUME Places, deliver_mail
  PROVE  /\ ppc = "deliver" /\ ppc' = "idle" /\ pmsg' = NULL /\ fate' = fate
         /\ pmsg \in Msgs /\ pmsg \in Msg_pkg
         /\ mb' = push_mailbox(mb, pmsg) /\ delivered' = Append(delivered, pmsg)
         /\ handled' = handled
         /\ hpc' = IF hpc = "asleep" THEN "fetch" ELSE hpc
<1>1. /\ ppc = "deliver" /\ ppc' = "idle" /\ pmsg' = NULL /\ fate' = fate
      /\ mb' = push_mailbox(mb, pmsg) /\ delivered' = Append(delivered, pmsg)
      /\ handled' = handled
      /\ hpc' = IF hpc = "asleep" THEN "fetch" ELSE hpc
  BY Zenon DEF deliver_mail, Delivered, CondSignal
<1>2. pmsg \in Msgs
  BY <1>1, SMT DEF Places
<1> QED  BY <1>1, <1>2, PackagesAreMsgs, Zenon

LEMMA ProcessorTypeInit == EventInit => ProcessorTypeOK
<1> SUFFICES ASSUME EventInit PROVE ProcessorTypeOK
  OBVIOUS
<1>1. mb = init_mailbox /\ hpc = "check" /\ handled = {} /\ delivered = << >>
  BY Zenon DEF EventInit
<1>2. << >> \in Seq(Msgs)
  BY EmptySeq
<1> QED  BY <1>1, <1>2, InitIsEmpty, Zenon DEF ProcessorTypeOK

LEMMA ProcessorTypeStep ==
  ASSUME IInv, ProcessorTypeOK, [EventNext]_eventVars
  PROVE  ProcessorTypeOK'
<1>0. Places
  BY Zenon DEF IInv, Placement
<1>1. CASE deliver_mail
  <2>1. /\ mb' = push_mailbox(mb, pmsg) /\ delivered' = Append(delivered, pmsg)
        /\ pmsg \in Msgs /\ pmsg \in Msg_pkg /\ handled' = handled
        /\ hpc' \in {hpc, "fetch"}
    BY <1>0, <1>1, DeliverIs, Zenon
  <2>2. mb' \in Mailboxes
    BY <2>1, PushKeepsRing, Zenon DEF ProcessorTypeOK
  <2>3. delivered' \in Seq(Msgs)
    BY <2>1, AppendProperties, Zenon DEF ProcessorTypeOK
  <2>4. hpc' \in {"check", "wait", "asleep", "fetch"}
    BY <2>1, SMT DEF ProcessorTypeOK
  <2> QED  BY <2>1, <2>2, <2>3, <2>4, Zenon DEF ProcessorTypeOK
<1>2. ASSUME UNCHANGED <<mb, delivered>>,
             hpc' \in {hpc, "check", "wait", "asleep", "fetch"},
             handled' \in {handled, handled \cup {Blank}}
      PROVE  ProcessorTypeOK'
  BY <1>2, Zenon DEF ProcessorTypeOK
<1> QED  BY <1>1, <1>2, EventSteps, Zenon DEF mailVars

(* The ring holds packages, and its cursors stay inside it.                *)
THEOREM ProcessorTypeCorrect == EventSpec => []ProcessorTypeOK
<1>1. EventSpec => []IInv
  BY ProcessorDoesWhatSyncerSays, InitIInv, StepIInv, PTL
<1>2. IInv /\ ProcessorTypeOK /\ [EventNext]_eventVars => ProcessorTypeOK'
  BY ProcessorTypeStep
<1> QED  BY <1>1, <1>2, ProcessorTypeInit, PTL DEF EventSpec

-----------------------------------------------------------------------------
(* What the mailbox holds.                                                 *)

(* The package in post_event has no fate until sync_event has failed or    *)
(* notify_handle is done.                                                  *)
Posting ==
  /\ ppc = "idle" => pmsg = NULL
  /\ ppc \in {"sync", "copy", "notify"} => fate[pmsg] = "posting"
  /\ ppc = "deliver" => fate[pmsg] = "direct"

IsDelivered(m) == \E k \in DOMAIN delivered : delivered[k] = m

Held == SubSeq(delivered, 1, Kept(Len(delivered)))

Listed == traverse_mailbox(mb) = Held

DirectIsDelivered == \A m \in Msgs : (fate[m] = "direct" /\ pmsg # m) <=> IsDelivered(m)

MailInv == Posting /\ Listed /\ DirectIsDelivered

(* What is kept of a list that becomes longer.                             *)
LEMMA KeptOfLonger ==
  ASSUME NEW d \in Seq(Msgs), NEW e \in Msgs
  PROVE  LET n == Len(d)
             t == Append(d, e)
         IN  /\ n \in Nat /\ Len(SubSeq(d, 1, Kept(n))) = Kept(n)
             /\ Kept(n) # MAX_MSG_NUM - 1 =>
                  SubSeq(d, 1, Kept(n)) = d /\ SubSeq(t, 1, Kept(Len(t))) = t
             /\ Kept(n) = MAX_MSG_NUM - 1 =>
                  SubSeq(t, 1, Kept(Len(t))) = SubSeq(d, 1, Kept(n))
<1> DEFINE n == Len(d)
           t == Append(d, e)
           k == Kept(n)
<1>1. /\ n \in Nat /\ t \in Seq(Msgs) /\ Len(t) = n + 1
      /\ \A i \in 1 .. n : t[i] = d[i]
  BY AppendProperties, LenProperties
<1> HIDE DEF n, t
<1>2. k \in 0 .. n
  BY <1>1, RingAssumption, SMT DEF Kept
<1>3. /\ SubSeq(d, 1, k) \in Seq(Msgs) /\ Len(SubSeq(d, 1, k)) = k
      /\ \A i \in 1 .. k : SubSeq(d, 1, k)[i] = d[i]
  <2>1. \A i \in 1 .. k : d[i] \in Msgs
    BY <1>1, <1>2, ElementOfSeq, SMT DEF n
  <2>2. 1 .. k \subseteq 1 .. n
    BY <1>1, <1>2, SMT
  <2> QED  BY <1>1, <1>2, <2>1, <2>2, SubSeqProperties, SMT DEF n
<1>4. CASE k # MAX_MSG_NUM - 1
  <2>1. k = n /\ Kept(n + 1) = n + 1
    BY <1>1, <1>4, RingAssumption, SMT DEF Kept
  <2>2. SubSeq(d, 1, n) = d /\ SubSeq(t, 1, n + 1) = t
    BY <1>1, SubSeqFull, Zenon DEF n
  <2> QED  BY <1>1, <1>3, <1>4, <2>1, <2>2 DEF n, t
<1>5. CASE k = MAX_MSG_NUM - 1
  <2>1. Kept(n + 1) = k /\ k <= n
    BY <1>1, <1>2, <1>5, RingAssumption, SMT DEF Kept
  <2>2. SubSeq(t, 1, k) = SubSeq(d, 1, k)
    <3>1. /\ SubSeq(t, 1, k) \in Seq(Msgs) /\ Len(SubSeq(t, 1, k)) = k
          /\ \A i \in 1 .. k : SubSeq(t, 1, k)[i] = t[i]
      <4>1. \A i \in 1 .. k : t[i] \in Msgs
        BY <1>1, <1>2, ElementOfSeq, SMT
      <4> QED  BY <1>1, <1>2, <4>1, SubSeqProperties, SMT
    <3>2. \A i \in 1 .. k : SubSeq(t, 1, k)[i] = SubSeq(d, 1, k)[i]
      BY <1>1, <1>2, <1>3, <3>1, SMT
    <3> QED  BY <1>3, <3>1, <3>2, SeqEqual, SMT
  <2> QED  BY <1>1, <1>3, <1>5, <2>1, <2>2 DEF n, t
<1> QED  BY <1>4, <1>5

LEMMA DeliverKeepsListed ==
  ASSUME ProcessorTypeOK, Places, Listed, deliver_mail
  PROVE  Listed'
<1> DEFINE t == Append(delivered, pmsg)
<1>1. /\ mb' = push_mailbox(mb, pmsg) /\ delivered' = t
      /\ pmsg \in Msgs /\ pmsg \in Msg_pkg
  BY DeliverIs
<1>2. mb \in Mailboxes /\ delivered \in Seq(Msgs)
  BY Zenon DEF ProcessorTypeOK
<1>3. is_full(mb) <=> Kept(Len(delivered)) = MAX_MSG_NUM - 1
  <2>1. Len(traverse_mailbox(mb)) = Kept(Len(delivered))
    BY <1>1, <1>2, KeptOfLonger, Zenon DEF Listed, Held
  <2> QED  BY <1>2, <2>1, CountIs, ListingIs, Zenon
<1>4. CASE is_full(mb)
  <2>1. SubSeq(t, 1, Kept(Len(t))) = SubSeq(delivered, 1, Kept(Len(delivered)))
    BY <1>1, <1>2, <1>3, <1>4, KeptOfLonger, Zenon
  <2>2. mb' = mb
    BY <1>1, <1>4, Zenon DEF push_mailbox
  <2> QED  BY <1>1, <2>1, <2>2, Zenon DEF Listed, Held
<1>5. CASE ~is_full(mb)
  <2>1. Held = delivered /\ SubSeq(t, 1, Kept(Len(t))) = t
    BY <1>1, <1>2, <1>3, <1>5, KeptOfLonger, Zenon DEF Held
  <2>2. traverse_mailbox(mb') = Append(traverse_mailbox(mb), pmsg)
    BY <1>1, <1>2, <1>5, PushAppends, Zenon
  <2> QED  BY <1>1, <2>1, <2>2, Zenon DEF Listed, Held
<1> QED  BY <1>4, <1>5

LEMMA MailInvInit == EventInit => MailInv
<1> SUFFICES ASSUME EventInit PROVE MailInv
  OBVIOUS
<1>1. /\ mb = init_mailbox /\ delivered = << >> /\ ppc = "idle" /\ pmsg = NULL
      /\ fate = [m \in Msgs |-> "unsent"]
  BY Zenon DEF EventInit, SyncInit
<1>2. Posting
  BY <1>1, SMT DEF Posting
<1>3. Listed
  <2>1. << >> \in Seq(Msgs) /\ Len(<< >>) = 0 /\ Kept(0) = 0
    <3>1. Kept(0) = 0
      BY RingAssumption, SMT DEF Kept
    <3> QED  BY <3>1, EmptySeq
  <2>2. SubSeq(<< >>, 1, 0) = << >>
    BY SubSeqEmpty, SMT
  <2> QED  BY <1>1, <2>1, <2>2, InitIsEmpty, Zenon DEF Listed, Held
<1>4. DirectIsDelivered
  BY <1>1, SMT DEF DirectIsDelivered, IsDelivered
<1> QED  BY <1>2, <1>3, <1>4, Zenon DEF MailInv

(* One case per way a package can go.                                      *)
LEMMA MailInvStep ==
  ASSUME IInv, ProcessorTypeOK, MailInv, [EventNext]_eventVars
  PROVE  MailInv'
<1>0. /\ TypeOK /\ Places /\ Posting /\ Listed /\ DirectIsDelivered
      /\ fate \in [Msgs -> Fates] /\ NULL \notin Msgs /\ delivered \in Seq(Msgs)
      /\ ppc # "idle" => pmsg \in Msgs
  BY SyncerAssumption, Zenon DEF IInv, MailInv, TypeOK, ProcessorTypeOK, Placement, Places
<1>1. CASE deliver_mail
  <2>1. /\ ppc = "deliver" /\ ppc' = "idle" /\ pmsg' = NULL /\ fate' = fate /\ pmsg \in Msgs
        /\ delivered' = Append(delivered, pmsg)
    BY <1>0, <1>1, DeliverIs, Zenon
  <2>2. fate[pmsg] = "direct"
    BY <1>0, <2>1, Zenon DEF Posting
  <2>3. \A m \in Msgs : IsDelivered(m)' <=> IsDelivered(m) \/ m = pmsg
    <3> DEFINE t == Append(delivered, pmsg)
    <3>1. /\ t \in Seq(Msgs) /\ Len(t) = Len(delivered) + 1 /\ t[Len(delivered) + 1] = pmsg
          /\ \A i \in 1 .. Len(delivered) : t[i] = delivered[i]
      BY <1>0, <2>1, AppendProperties
    <3>2. /\ DOMAIN delivered = 1 .. Len(delivered) /\ DOMAIN t = 1 .. Len(delivered) + 1
          /\ Len(delivered) \in Nat
      BY <1>0, <3>1, LenProperties
    <3> HIDE DEF t
    <3>3. ASSUME NEW m \in Msgs
          PROVE  (\E k \in DOMAIN t : t[k] = m) <=>
                   (\E k \in DOMAIN delivered : delivered[k] = m) \/ m = pmsg
      BY <3>1, <3>2, SMT
    <3> QED  BY <2>1, <3>3, Zenon DEF IsDelivered, t
  <2>4. Posting'
    BY <2>1, SMT DEF Posting
  <2>5. DirectIsDelivered'
    BY <1>0, <2>1, <2>2, <2>3, Zenon DEF DirectIsDelivered
  <2> QED  BY <1>0, <1>1, <2>4, <2>5, DeliverKeepsListed, Zenon DEF MailInv
<1> SUFFICES ASSUME UNCHANGED <<mb, delivered>> PROVE Posting' /\ DirectIsDelivered'
  BY <1>0, <1>1, EventSteps, Zenon DEF MailInv, mailVars, Listed, Held
<1>2. \A m \in Msgs : IsDelivered(m)' <=> IsDelivered(m)
  BY Zenon DEF IsDelivered
<1>3. CASE UNCHANGED posterVars
  BY <1>0, <1>2, <1>3, SMT DEF Posting, DirectIsDelivered, posterVars
<1>4. ASSUME NEW p \in Msgs, Recv(p) PROVE Posting' /\ DirectIsDelivered'
  <2>1. /\ ppc = "idle" /\ pmsg = NULL /\ fate[p] = "unsent" /\ ppc' = "sync" /\ pmsg' = p
        /\ fate' = [fate EXCEPT ![p] = "posting"]
    BY <1>0, <1>4, Zenon DEF Recv, Posting
  <2>2. ~IsDelivered(p)
    BY <1>0, <2>1, SMT DEF DirectIsDelivered
  <2>3. Posting'
    BY <1>0, <2>1, SMT DEF Posting
  <2>4. \A m \in Msgs \ {p} : fate'[m] = fate[m] /\ pmsg # m
    BY <1>0, <2>1, SMT
  <2> QED  BY <1>0, <1>2, <2>1, <2>2, <2>3, <2>4, Zenon DEF DirectIsDelivered
<1>5. CASE sync_event
  <2>1. /\ ppc = "sync" /\ pmsg' = pmsg
        /\ \/ ppc' = "copy" /\ fate' = fate
           \/ ppc' = "deliver" /\ fate' = [fate EXCEPT ![pmsg] = "direct"]
    BY <1>5, Zenon DEF sync_event
  <2>2. pmsg \in Msgs /\ fate[pmsg] = "posting"
    BY <1>0, <2>1, SMT DEF Posting
  <2>3. ~IsDelivered(pmsg)
    BY <1>0, <2>2, SMT DEF DirectIsDelivered
  <2>4. Posting'
    BY <1>0, <2>1, <2>2, SMT DEF Posting
  <2>5. \A m \in Msgs \ {pmsg} : fate'[m] = fate[m]
    BY <1>0, <2>1, SMT
  <2> QED  BY <1>0, <1>2, <2>1, <2>3, <2>4, <2>5, Zenon DEF DirectIsDelivered
<1>6. CASE FinishCopy
  <2>1. ppc = "copy" /\ ppc' = "notify" /\ pmsg' = pmsg /\ fate' = fate
    BY <1>6, Zenon DEF FinishCopy
  <2> QED  BY <1>0, <1>2, <2>1, SMT DEF Posting, DirectIsDelivered
<1>7. CASE Notify
  <2>1. /\ ppc = "notify" /\ ppc' = "idle" /\ pmsg' = NULL
        /\ fate' = [fate EXCEPT ![pmsg] = "synced"]
    BY <1>7, Zenon DEF Notify
  <2>2. pmsg \in Msgs /\ fate[pmsg] = "posting"
    BY <1>0, <2>1, SMT DEF Posting
  <2>3. ~IsDelivered(pmsg) /\ fate'[pmsg] = "synced"
    BY <1>0, <2>1, <2>2, SMT DEF DirectIsDelivered
  <2>4. Posting'
    BY <2>1, SMT DEF Posting
  <2>5. \A m \in Msgs \ {pmsg} : fate'[m] = fate[m] /\ pmsg' # m
    BY <1>0, <2>1, SMT
  <2> QED  BY <1>0, <1>2, <2>1, <2>3, <2>4, <2>5, SMT DEF DirectIsDelivered
<1>8. CASE UNCHANGED syncVars
  BY <1>3, <1>8, Zenon DEF syncVars
<1> QED  BY <1>1, <1>3, <1>4, <1>5, <1>6, <1>7, <1>8, EventSteps, Zenon DEF MailInv

(* The mailbox lists the first MAX_MSG_NUM - 1 packages the poster gave it,*)
(* in their order, and those it was given are those no syncer took.        *)
THEOREM FirstAreKept == EventSpec => []MailboxKeepsTheFirst
<1>1. EventSpec => []IInv
  BY ProcessorDoesWhatSyncerSays, InitIInv, StepIInv, PTL
<1>2. IInv /\ ProcessorTypeOK /\ MailInv /\ [EventNext]_eventVars => MailInv'
  BY MailInvStep
<1>3. MailInv => MailboxKeepsTheFirst
  BY Zenon DEF MailInv, Listed, Held, DirectIsDelivered, IsDelivered, MailboxKeepsTheFirst
<1> QED  BY <1>1, <1>2, <1>3, MailInvInit, ProcessorTypeCorrect, PTL DEF EventSpec

-----------------------------------------------------------------------------
(* Sleep.                                                                  *)

(* Mail stays, for nobody pops it, and a handler thread that is not in     *)
(* wait_post will see it at its next check.                                *)
AwakeWithMail == ~is_empty(mb) /\ hpc \in {"check", "fetch"}

LEMMA AwakeStep ==
  ASSUME Places, ProcessorTypeOK, AwakeWithMail, [EventNext]_eventVars
  PROVE  AwakeWithMail'
<1>1. mb \in Mailboxes /\ ~is_empty(mb) /\ hpc \in {"check", "fetch"}
  BY Zenon DEF ProcessorTypeOK, AwakeWithMail
<1>2. CASE deliver_mail
  <2>1. /\ mb' = push_mailbox(mb, pmsg) /\ pmsg \in Msg_pkg
        /\ hpc' = IF hpc = "asleep" THEN "fetch" ELSE hpc
    BY <1>2, DeliverIs, Zenon
  <2>2. hpc' \in {"check", "fetch"}
    BY <1>1, <2>1, SMT
  <2>3. ~is_empty(mb')
    <3>1. CASE is_full(mb)
      BY <1>1, <2>1, <3>1, Zenon DEF push_mailbox
    <3>2. CASE ~is_full(mb)
      <4>1. /\ mb' \in Mailboxes
            /\ traverse_mailbox(mb') = Append(traverse_mailbox(mb), pmsg)
        BY <1>1, <2>1, <3>2, PushAppends, Zenon
      <4>2. Len(traverse_mailbox(mb')) = Len(traverse_mailbox(mb)) + 1
        <5>1. /\ traverse_mailbox(mb) \in Seq(Msg_pkg \cup {Blank})
              /\ pmsg \in Msg_pkg \cup {Blank}
          BY <1>1, <2>1, ListingIs
        <5> QED  BY <4>1, <5>1, AppendProperties
      <4>3. get_msg_num(mb') = get_msg_num(mb) + 1 /\ get_msg_num(mb) \in Nat
        BY <1>1, <4>1, <4>2, ListingIs, LenProperties, Zenon
      <4>4. get_msg_num(mb') # 0
        BY <4>3, SMT
      <4> QED  BY <4>1, <4>4, CountIs, Zenon
    <3> QED  BY <3>1, <3>2
  <2> QED  BY <2>2, <2>3, Zenon DEF AwakeWithMail, is_empty
<1>3. ASSUME UNCHANGED mb, hpc' \in {hpc, "check", "fetch"} PROVE AwakeWithMail'
  BY <1>1, <1>3, SMT DEF AwakeWithMail, is_empty
<1>4. \/ deliver_mail
      \/ UNCHANGED mb /\ hpc' \in {hpc, "check", "fetch"}
  <2>1. CASE /\ UNCHANGED <<syncVars, mb, delivered>>
             /\ hpc = "check" /\ hpc' = (IF is_empty(mb) THEN "wait" ELSE "fetch")
    BY <1>1, <2>1, SMT
  <2>2. hpc # "wait" /\ hpc # "asleep"
    BY <1>1, SMT
  <2> QED  BY <2>1, <2>2, EventSteps, Zenon DEF mailVars
<1> QED  BY <1>2, <1>3, <1>4

(* A handler thread that has come to fetch_mail with mail in the box never *)
(* sleeps again, for nothing is ever popped.  Of one that is about to wait *)
(* nothing is said: mail that came after its test does not keep it awake.  *)
THEOREM NeverAsleepOverMail == EventSpec => NoSleepOverMail
<1>1. EventSpec => []IInv
  BY ProcessorDoesWhatSyncerSays, InitIInv, StepIInv, PTL
<1>2. IInv /\ ProcessorTypeOK /\ AwakeWithMail /\ [EventNext]_eventVars => AwakeWithMail'
  BY AwakeStep, Zenon DEF IInv, Placement
<1>3. hpc = "fetch" /\ ~is_empty(mb) => AwakeWithMail
  BY Zenon DEF AwakeWithMail
<1>4. AwakeWithMail => hpc # "asleep"
  BY SMT DEF AwakeWithMail
<1> QED  BY <1>1, <1>2, <1>3, <1>4, ProcessorTypeCorrect, PTL DEF EventSpec, NoSleepOverMail

=============================================================================
