----------------------------- MODULE NodeProofs -----------------------------
(***************************************************************************)
(* Theorems about Node, for any number of records, boots and failures.     *)
(* Within a boot the lemmas of StoreForwardProofs do the work; what is new *)
(* is the FSM, which leaves the tasks alone, and the reboot.               *)
(*                                                                         *)
(* CountedAcrossBoots becomes inductive with two additions: the torn       *)
(* increment is covered whether the counter is clean or not, and a clean   *)
(* counter is the saved one as long as there is something to count.        *)
(* AwakeResetKeepsHeld follows from where a held record still is           *)
(* (HeldOnCard); Accounted, the boots' version of AllKept, is for          *)
(* DeliveryProofs.                                                         *)
(***************************************************************************)
EXTENDS Node, StoreForwardProofs

CleanCounted == clean => Load <= pending
SavedHolds == fsm = "sleep" /\ clean => saved = pending \/ Load <= 0

\* Until the FSM flushes, the file has every record that a burst holds.
HeldOnCard ==
  fsm = "awake" => \A b \in Burst : bpc[b] \in Holding => bRecord[b] \in InSeq(popped)

\* What was sampled and not lost is somewhere, or had its end.
Accounted == \A r \in sampled : r \in lost \/ Kept(r)

NodeInv ==
  /\ NodeTypeOK /\ OneBurst
  /\ RegisterCovers /\ CleanCounted /\ SavedHolds
  /\ LocalsSafe /\ Accounted /\ HeldOnCard

LEMMA BacklogIsLoad ==
  SfTypeOK /\ OneBurst =>
    pending \in Nat /\ Load \in Int /\ Backlog >= Load
<1> SUFFICES ASSUME SfTypeOK, OneBurst
             PROVE  pending \in Nat /\ Load \in Int /\ Backlog >= Load
  OBVIOUS
<1>1. Len(queue) \in Nat /\ Held \in Nat /\ Uncounted \in Nat /\ pending \in Nat
  BY DEF SfTypeOK, Held, Uncounted
<1>2. Backlog = Len(queue) + Held
  BY HoldersCounted DEF Backlog
<1> QED
  BY <1>1, <1>2 DEF Load

-----------------------------------------------------------------------------
(* Records in sequences. *)

LEMMA ServedAgainKeeps ==
  ASSUME NEW s \in Seq(Record), NEW t \in Seq(Record)
  PROVE  s \o t \in Seq(Record) /\ InSeq(t) \subseteq InSeq(s \o t)
<1>1. s \o t \in Seq(Record) /\ Len(s \o t) = Len(s) + Len(t)
  OBVIOUS
<1> SUFFICES ASSUME NEW i \in 1 .. Len(t)
             PROVE  \E j \in 1 .. Len(s \o t) : t[i] = (s \o t)[j]
  BY <1>1 DEF InSeq
<1>2. Len(s) + i \in 1 .. Len(s \o t) /\ (s \o t)[Len(s) + i] = t[i]
  BY <1>1
<1> QED
  BY <1>2

LEMMA InSeqRest ==
  ASSUME NEW s \in Seq(Record), s # <<>>
  PROVE  Head(s) \in InSeq(s) /\ InSeq(Tail(s)) \subseteq InSeq(s)
<1>1. Head(s) \in InSeq(s)
  BY DEF InSeq
<1>2. ASSUME NEW i \in 1 .. Len(Tail(s))
      PROVE  Tail(s)[i] \in InSeq(s)
  <2>1. i + 1 \in 1 .. Len(s) /\ Tail(s)[i] = s[i + 1]
    OBVIOUS
  <2> QED
    BY <2>1 DEF InSeq
<1> QED
  BY <1>1, <1>2 DEF InSeq

LEMMA InSeqConcat ==
  ASSUME NEW s \in Seq(Record), NEW t \in Seq(Record)
  PROVE  InSeq(s \o t) = InSeq(s) \cup InSeq(t)
<1>1. InSeq(t) \subseteq InSeq(s \o t)
  BY ServedAgainKeeps
<1>2. Len(s \o t) = Len(s) + Len(t)
  OBVIOUS
<1>3. ASSUME NEW i \in 1 .. Len(s)
      PROVE  s[i] \in InSeq(s \o t)
  <2>1. i \in 1 .. Len(s \o t) /\ (s \o t)[i] = s[i]
    BY <1>2
  <2> QED
    BY <2>1 DEF InSeq
<1>4. ASSUME NEW i \in 1 .. Len(s \o t)
      PROVE  (s \o t)[i] \in InSeq(s) \cup InSeq(t)
  <2>1. CASE i \in 1 .. Len(s)
    BY <2>1 DEF InSeq
  <2>2. CASE i \notin 1 .. Len(s)
    <3>1. i - Len(s) \in 1 .. Len(t) /\ (s \o t)[i] = t[i - Len(s)]
      BY <1>2, <2>2
    <3> QED
      BY <3>1 DEF InSeq
  <2> QED
    BY <2>1, <2>2
<1> QED
  BY <1>1, <1>3, <1>4 DEF InSeq

LEMMA InSeqTyped ==
  ASSUME NEW s \in Seq(Record)
  PROVE  InSeq(s) \subseteq Record
BY DEF InSeq

-----------------------------------------------------------------------------
(* Initially, and in a step of the tasks. *)

LEMMA NodeInitInv == NodeInit => NodeInv
<1> SUFFICES ASSUME NodeInit PROVE NodeInv
  OBVIOUS
<1>1. SfInit /\ SfTypeOK /\ OneBurst /\ HeldCounted /\ LocalsSafe /\ AllKept
  BY SfInitTyped, SfInitOneBurst, SfInitCounted, SfInitKept DEF NodeInit
<1>2. NodeTypeOK
  BY <1>1, NodeAssumption DEF NodeInit, NodeTypeOK
<1> QED
  BY <1>1, <1>2 DEF NodeInit, NodeInv, HeldCounted, CleanCounted, SavedHolds,
                          AllKept, Accounted, HeldOnCard, SfInit, Holding

\* A burst that holds a record held it before, or has just popped it.
LEMMA HoldsOnOrPopped ==
  ASSUME SfTypeOK, SfNext, NEW b \in Burst, bpc'[b] \in Holding
  PROVE  \/ bpc[b] \in Holding /\ bRecord'[b] = bRecord[b]
         \/ Get /\ bRecord'[b] = Head(queue)
<1> USE DEF SfTypeOK
<1>1. CASE \/ TelSample \/ TelStep \/ MqttConnected \/ MqttDisconnected \/ PublishTask
           \/ Puback \/ WifiLost
  BY <1>1 DEF TelSample, TelStep, TelRoute, TelAppend, TelLoad, TelStore, MqttConnected,
              MqttDisconnected, PublishTask, Puback, WifiLost, burstVars
<1>2. CASE OnReconnect
  BY <1>2 DEF OnReconnect, burstVars, Holding
<1>3. ASSUME NEW c \in Burst, BurstStep(c), c # b
      PROVE  bpc'[b] = bpc[b] /\ bRecord'[b] = bRecord[b]
  BY <1>3 DEF BurstStep, BurstPop, BurstPublish, BurstPuback, CountDelivered,
              BurstPubackTimeout, BurstRequeue, BurstNotify, BurstExit, Goto, LetGo
<1>4. CASE BurstPop(b)
  BY <1>4 DEF BurstPop, Goto, Holding
<1>5. CASE BurstPublish(b) \/ BurstPubackTimeout(b)
  BY <1>5 DEF BurstPublish, BurstPubackTimeout, Holding
<1>6. CASE BurstPuback(b) \/ BurstRequeue(b) \/ BurstNotify(b) \/ BurstExit(b)
  BY <1>6 DEF BurstPuback, CountDelivered, BurstRequeue, BurstNotify, BurstExit, Goto, Holding
<1> QED
  BY <1>1, <1>2, <1>3, <1>4, <1>5, <1>6 DEF SfNext, BurstStep

LEMMA TasksInv == NodeInv /\ Tasks => NodeInv'
<1> SUFFICES ASSUME NodeInv, Tasks PROVE NodeInv'
  OBVIOUS
<1>1. /\ [SfNext]_sfVars
      /\ SfTypeOK /\ OneBurst /\ LocalsSafe /\ RegisterCovers
  BY DEF NodeInv, NodeTypeOK, Tasks, TaskStep
<1>2. SfTypeOK' /\ OneBurst' /\ LocalsSafe'
  BY <1>1, SfNextTyped, SfNextOneBurst, SfNextLocalsSafe
<1>3. StepCounts /\ RegisterCovers'
  BY <1>1, StepsCount
<1>4. popped' \in Seq(Record)
  <2>1. popped \in Seq(Record) /\ queue \in Seq(Record) /\ queue' \in Seq(Record)
    BY <1>1, <1>2 DEF NodeInv, NodeTypeOK, SfTypeOK
  <2>2. CASE Len(queue') < Len(queue)
    <3>1. Len(queue) # 0
      BY <2>1, <2>2
    <3>2. Head(queue) \in Record
      BY <2>1, <3>1
    <3> QED
      BY <2>1, <2>2, <3>2 DEF Tasks
  <2> QED
    BY <2>1, <2>2 DEF Tasks
<1>5. NodeTypeOK'
  BY <1>2, <1>4 DEF NodeInv, NodeTypeOK, Tasks, TaskStep, Clean
<1>6. pending \in Nat /\ Load \in Int
  BY <1>1, BacklogIsLoad
<1>7. (pending \in Nat /\ Load \in Int /\ Backlog >= Load)'
  BY <1>2, BacklogIsLoad, PTL
<1>8. CleanCounted'
  <2>1. CASE clean /\ clean'
    BY <1>3, <1>6, <1>7, <2>1 DEF NodeInv, CleanCounted, StepCounts
  <2>2. CASE Backlog' = 0
    BY <1>7, <2>2 DEF CleanCounted
  <2> QED
    BY <2>1, <2>2 DEF CleanCounted, Tasks, TaskStep, Clean
<1>9. SavedHolds'
  <2> SUFFICES ASSUME fsm = "sleep", clean', Backlog' # 0
               PROVE  saved = pending' \/ Load' <= 0
    BY <1>7 DEF SavedHolds, Tasks, TaskStep
  <2>1. clean /\ pending' = pending
    BY DEF Tasks, TaskStep, Clean
  <2>2. saved = pending \/ Load <= 0
    BY <2>1 DEF NodeInv, SavedHolds
  <2> QED
    BY <1>3, <1>6, <1>7, <2>1, <2>2 DEF StepCounts
<1>10. Accounted'
  <2> SUFFICES ASSUME NEW r \in sampled', r \notin lost
               PROVE  Kept(r)'
    BY DEF Accounted, Tasks, TaskStep
  <2>1. CASE r \in sampled
    <3>1. r \in Record /\ Kept(r)
      BY <1>1, <2>1 DEF NodeInv, Accounted, SfTypeOK
    <3> QED
      BY <1>1, <3>1, KeptStays
  <2>2. CASE r \notin sampled
    BY <1>1, <2>2, SampledIsKept
  <2> QED
    BY <2>1, <2>2
<1>11. HeldOnCard'
  <2> SUFFICES ASSUME fsm = "awake", NEW b \in Burst, bpc'[b] \in Holding
               PROVE  bRecord'[b] \in InSeq(popped')
    BY DEF HeldOnCard, Tasks, TaskStep, InSeq
  <2>1. popped \in Seq(Record) /\ queue \in Seq(Record)
    BY DEF NodeInv, NodeTypeOK, SfTypeOK
  <2>2. CASE Get /\ bRecord'[b] = Head(queue)
    <3>1. Len(queue') < Len(queue) /\ Head(queue) \in Record
      BY <2>1, <2>2, HeadTailProperties DEF Get
    <3>2. popped' = Append(popped, Head(queue))
      BY <3>1 DEF Tasks
    <3> QED
      BY <2>1, <2>2, <3>1, <3>2, InSeqAppend
  <2>3. CASE bpc[b] \in Holding /\ bRecord'[b] = bRecord[b]
    <3>1. bRecord[b] \in InSeq(popped)
      BY <2>3 DEF NodeInv, HeldOnCard
    <3>2. CASE popped' = popped
      BY <2>3, <3>1, <3>2
    <3>3. CASE Len(queue') < Len(queue) /\ popped' = Append(popped, Head(queue))
      <4>1. Head(queue) \in Record
        <5>1. queue # <<>>
          BY <1>2, <2>1, <3>3 DEF SfTypeOK
        <5> QED
          BY <2>1, <5>1, HeadTailProperties
      <4> QED
        BY <2>1, <2>3, <3>1, <3>3, <4>1, InSeqAppend
    <3> QED
      BY <3>2, <3>3 DEF Tasks
  <2> QED
    BY <1>1, <2>2, <2>3, HoldsOnOrPopped DEF Tasks, TaskStep
<1> QED
  BY <1>2, <1>3, <1>5, <1>8, <1>9, <1>10, <1>11 DEF NodeInv

-----------------------------------------------------------------------------
(* The FSM. *)

\* What the parts of the invariant look at and the FSM does not touch.
tasksVars == <<pending, wifi, mqttVars, burstVars, telVars, historyVars>>

LEMMA FsmLeavesTasks ==
  ASSUME NodeInv, UNCHANGED tasksVars, queue' \in Seq(Record), syncDone' \in BOOLEAN,
         clean' => (clean /\ Len(queue') <= Len(queue)) \/ Backlog' = 0
  PROVE  SfTypeOK' /\ OneBurst' /\ RegisterCovers' /\ LocalsSafe' /\ CleanCounted'
<1> USE DEF tasksVars, mqttVars, burstVars, telVars, historyVars
<1>1. SfTypeOK'
  BY DEF NodeInv, NodeTypeOK, SfTypeOK
<1>2. OneBurst' /\ Held' = Held /\ Held \in Nat
  BY DEF NodeInv, OneBurst, Held
<1>3. RegisterCovers' /\ Uncounted' = Uncounted /\ Uncounted \in Nat
  BY DEF NodeInv, RegisterCovers, Uncounted
<1>4. LocalsSafe'
  <2>1. Sent' = Sent
    BY DEF Sent, InSeq
  <2> QED
    BY <2>1 DEF NodeInv, LocalsSafe
<1>5. (pending \in Nat /\ Load \in Int /\ Backlog >= Load)'
  BY <1>1, <1>2, BacklogIsLoad, PTL
<1>6. CASE clean /\ Len(queue') <= Len(queue)
  <2>1. queue \in Seq(Record) /\ pending \in Nat /\ pending' = pending
    BY DEF NodeInv, NodeTypeOK, SfTypeOK
  <2>2. Load' <= Load /\ Load \in Int /\ Load' \in Int
    BY <1>1, <1>2, <1>3, <1>6, <2>1 DEF Load, SfTypeOK
  <2>3. Load <= pending
    BY <1>6 DEF NodeInv, CleanCounted
  <2> QED
    BY <1>1, <1>2, <1>3, <1>4, <2>1, <2>2, <2>3 DEF CleanCounted
<1>7. CASE Backlog' = 0
  BY <1>1, <1>2, <1>3, <1>4, <1>5, <1>7 DEF CleanCounted
<1>8. CASE ~clean'
  BY <1>1, <1>2, <1>3, <1>4, <1>8 DEF CleanCounted
<1> QED
  BY <1>6, <1>7, <1>8

\* A step that leaves the tasks and the card's records alone loses nothing.
LEMMA SameAccounts ==
  ASSUME NodeInv, UNCHANGED tasksVars, UNCHANGED lost, InSeq(queue) \subseteq InSeq(queue')
  PROVE  Accounted'
<1> SUFFICES ASSUME NEW r \in sampled, r \notin lost PROVE Kept(r)'
  BY DEF Accounted, tasksVars, historyVars
<1>1. Kept(r)
  BY DEF NodeInv, Accounted
<1>2. Sent' = Sent /\ UNCHANGED <<telRecord, bRecord>>
  BY DEF tasksVars, mqttVars, burstVars, telVars, historyVars, Sent, InSeq
<1> QED
  BY <1>1, <1>2 DEF Kept, InSeq

LEMMA CustodyTyped == NodeTypeOK => Custody \subseteq Record
BY InSeqTyped DEF NodeTypeOK, SfTypeOK, Custody

\* What is lost is accounted for, and keeps its type.
LEMMA LoseAccounts ==
  ASSUME NodeInv, Lose, popped' = <<>>, UNCHANGED <<sampled, delivered, dropped>>
  PROVE  Accounted' /\ lost' \subseteq Record
<1>1. lost' \subseteq Record
  BY CustodyTyped DEF NodeInv, NodeTypeOK, Lose
<1>2. ASSUME NEW r \in sampled, r \notin lost'
      PROVE  Kept(r)'
  <2>1. r \in Record /\ r \notin lost /\ (r \in Custody => r \in Custody' \cup delivered)
    BY <1>2 DEF NodeInv, NodeTypeOK, SfTypeOK, Lose
  <2>2. Kept(r)
    BY <2>1 DEF NodeInv, Accounted
  <2>3. r \in Custody \cup delivered \cup dropped
    BY <2>1, <2>2 DEF Kept, Sent, Custody, InRam
  <2>4. CASE r \in delivered \cup dropped
    BY <2>4 DEF Kept, Sent
  <2>5. CASE r \in Custody'
    <3>1. InSeq(popped') = {}
      BY DEF InSeq
    <3>2. Custody' = (InRam' \cap Record) \cup InSeq(queue') \cup InSeq(popped')
      BY DEF Custody, InSeq
    <3>3. r \in InRam' \cup InSeq(queue')
      BY <2>5, <3>1, <3>2
    <3>4. InRam' = {telRecord'} \cup {bRecord'[b] : b \in Burst}
                      \cup InSeq(pubQueue') \cup InSeq(outbox')
      BY DEF InRam, InSeq
    <3> QED
      BY <3>3, <3>4 DEF Kept, Sent, InSeq
  <2> QED
    BY <2>1, <2>3, <2>4, <2>5
<1> QED
  BY <1>1, <1>2 DEF Accounted

LEMMA FlushInv ==
  ASSUME NodeInv, NEW from, NEW to \in {"flush", "save"}, Flush(from, to)
  PROVE  NodeInv'
<1>0. /\ NodeTypeOK /\ queue \in Seq(Record) /\ popped \in Seq(Record)
      /\ pending \in Nat /\ syncDone \in BOOLEAN
  BY DEF NodeInv, NodeTypeOK, SfTypeOK
<1>1. UNCHANGED tasksVars /\ syncDone' = syncDone
  BY DEF Flush, tasksVars
<1>2. /\ queue' \in Seq(Record) /\ popped' \in Seq(Record) /\ lost' \subseteq Record
      /\ Accounted'
  <2>0. <<>> \in Seq(Record)
    OBVIOUS
  <2>1. CASE CardCut
    <3>1. popped' = <<>> /\ Lose
      BY <2>1 DEF CardCut
    <3>2. queue' \in Seq(Record)
      <4>1. PICK n \in 0 .. Len(queue) : queue' = SubSeq(queue, 1, n)
        BY <2>1 DEF CardCut
      <4>2. \A i \in 1 .. n : queue[i] \in Record
        BY <1>0
      <4> QED
        BY <1>0, <4>1, <4>2
    <3> QED
      BY <1>1, <2>0, <3>1, <3>2, LoseAccounts DEF tasksVars, historyVars
  <2>2. CASE queue' = queue /\ popped' \in {popped, <<>>} /\ UNCHANGED lost
    <3>1. Accounted'
      BY <1>1, <2>2, SameAccounts
    <3> QED
      BY <1>0, <2>0, <2>2, <3>1 DEF NodeTypeOK
  <2>3. CASE queue' = popped \o queue /\ popped' = <<>> /\ UNCHANGED lost
    <3>1. queue' \in Seq(Record) /\ InSeq(queue) \subseteq InSeq(queue')
      BY <1>0, <2>3, ServedAgainKeeps
    <3>2. Accounted'
      BY <1>1, <2>3, <3>1, SameAccounts
    <3> QED
      BY <1>0, <2>0, <2>3, <3>1, <3>2 DEF NodeTypeOK
  <2> QED
    BY <2>1, <2>2, <2>3 DEF Flush
<1>3. clean' \in BOOLEAN /\ (clean' => (clean /\ Len(queue') <= Len(queue)) \/ Backlog' = 0)
  <2>1. clean' = ((clean /\ ~(Len(queue') > Len(queue))) \/ Backlog' = 0)
    BY DEF Flush, Clean
  <2>2. Len(queue) \in Nat /\ Len(queue') \in Nat
    BY <1>0, <1>2
  <2>3. ~(Len(queue') > Len(queue)) <=> Len(queue') <= Len(queue)
    BY <2>2
  <2> QED
    BY <2>1, <2>3
<1>4. SfTypeOK' /\ OneBurst' /\ RegisterCovers' /\ LocalsSafe' /\ CleanCounted'
  BY <1>0, <1>1, <1>2, <1>3, FsmLeavesTasks
<1>5. NodeTypeOK'
  BY <1>0, <1>2, <1>3, <1>4 DEF Flush, NodeTypeOK
<1>6. SavedHolds' /\ HeldOnCard'
  BY DEF Flush, SavedHolds, HeldOnCard
<1> QED
  BY <1>2, <1>4, <1>5, <1>6 DEF NodeInv

LEMMA FsmInv == NodeInv /\ FsmStep => NodeInv'
<1> SUFFICES ASSUME NodeInv, FsmStep PROVE NodeInv'
  OBVIOUS
<1>1. CASE Flush("low", "flush") \/ Flush("flush", "save")
  BY <1>1, FlushInv
<1>2. CASE SyncEnd \/ BatteryLow \/ Save
  <2>1. /\ UNCHANGED tasksVars /\ UNCHANGED <<queue, popped, boots, lost>>
        /\ syncDone' \in BOOLEAN /\ Clean(FALSE)
        /\ fsm' # "awake" /\ fsm' \in {"low", "flush", "sleep"} /\ saved' \in Nat
        /\ fsm' = "sleep" => saved' = pending'
    BY <1>2 DEF SyncEnd, BatteryLow, Save, sfVars, tasksVars, NodeInv, NodeTypeOK, SfTypeOK
  <2>2. queue' \in Seq(Record) /\ Len(queue') <= Len(queue)
    BY <2>1 DEF NodeInv, NodeTypeOK, SfTypeOK
  <2>3. SfTypeOK' /\ OneBurst' /\ RegisterCovers' /\ LocalsSafe' /\ CleanCounted'
    BY <2>1, <2>2, FsmLeavesTasks DEF Clean
  <2>4. NodeTypeOK'
    BY <2>1, <2>3 DEF Clean, NodeInv, NodeTypeOK
  <2>5. Accounted'
    BY <2>1, SameAccounts
  <2>6. SavedHolds' /\ HeldOnCard'
    BY <2>1 DEF SavedHolds, HeldOnCard
  <2> QED
    BY <2>3, <2>4, <2>5, <2>6 DEF NodeInv
<1> QED
  BY <1>1, <1>2 DEF FsmStep

-----------------------------------------------------------------------------
(* The next boot. *)

LEMMA RebootInv ==
  ASSUME NodeInv, Reboot, queue' \in Seq(Record), pending' \in Nat, clean' \in BOOLEAN,
         clean' => Len(queue') <= pending'
  PROVE  NodeInv'
<1>0. boots \in Nat /\ SfTypeOK
  BY NodeAssumption DEF NodeInv, NodeTypeOK
<1>1. Accounted' /\ lost' \subseteq Record
  BY LoseAccounts DEF Reboot
<1>2. SfTypeOK'
  <2>1. <<>> \in Seq(Record)
    OBVIOUS
  <2>2. /\ bpc' \in [Burst -> {"none", "pop", "notify", "exit"} \cup Holding]
        /\ bRecord' \in [Burst -> Record \cup {NoRecord}]
        /\ \A b \in Burst : bpc'[b] \notin Holding
    BY DEF Reboot, Holding
  <2>3. dropped' \subseteq Record /\ sampled' \subseteq Record /\ delivered' \subseteq Record
    BY <1>0 DEF Reboot, SfTypeOK
  <2>4. puback' \in 0 .. 1 /\ telReg' \in Nat
    BY DEF Reboot
  <2>5. /\ pubQueue' \in Seq(Record) /\ outbox' \in Seq(Record) /\ tel' = "delay"
        /\ telRecord' \in Record \cup {NoRecord}
        /\ wifi' \in BOOLEAN /\ mqttConn' \in BOOLEAN
        /\ burstRunning' \in BOOLEAN /\ syncDone' \in BOOLEAN
        /\ counted' \subseteq Record
    BY <2>1 DEF Reboot
  <2> QED
    BY <2>2, <2>3, <2>4, <2>5 DEF SfTypeOK
<1>3. NodeTypeOK'
  BY <1>0, <1>1, <1>2, NodeAssumption DEF NodeInv, NodeTypeOK, Reboot
<1>4. OneBurst' /\ Held' = 0 /\ Uncounted' = 0 /\ RegisterCovers' /\ SavedHolds'
  BY DEF Reboot, OneBurst, Held, Holding, Uncounted, RegisterCovers, SavedHolds
<1>5. CleanCounted'
  BY <1>4 DEF CleanCounted, Load
<1>6. LocalsSafe' /\ HeldOnCard'
  BY DEF Reboot, LocalsSafe, Holding, HeldOnCard
<1> QED
  BY <1>1, <1>2, <1>3, <1>4, <1>5, <1>6 DEF NodeInv

LEMMA RebootBacklog ==
  ASSUME Reboot, queue' \in Seq(Record)
  PROVE  Backlog' = Len(queue')
<1>1. Holders' = {}
  BY DEF Reboot, Holders, Holding
<1>2. Cardinality(Holders') = 0
  BY <1>1, FS_EmptySet
<1> QED
  BY <1>2 DEF Backlog

LEMMA WakeInv == NodeInv /\ SleepAndWake => NodeInv'
<1> SUFFICES ASSUME NodeInv, SleepAndWake PROVE NodeInv'
  OBVIOUS
<1>0. /\ queue \in Seq(Record) /\ popped \in Seq(Record) /\ pending \in Nat
      /\ SfTypeOK /\ OneBurst
  BY DEF NodeInv, NodeTypeOK, SfTypeOK
<1>1. Uncounted = 0 /\ Held \in Nat /\ Cardinality(Holders) = Held
  BY <1>0, HoldersCounted DEF SleepAndWake, FsmRuns, Uncounted, Held
<1>2. queue' \in Seq(Record) /\ Len(queue') = Len(popped) + Len(queue)
  BY <1>0 DEF SleepAndWake, ServedAgain
<1>3. Backlog' = Len(queue')
  BY <1>2, RebootBacklog DEF SleepAndWake
<1>4. pending' \in Nat /\ (saved = pending => pending' = pending)
  BY <1>0 DEF SleepAndWake
<1>5. ASSUME clean' PROVE Len(queue') <= pending'
  <2>1. CASE Backlog' = 0
    BY <1>3, <1>4, <2>1
  <2>2. CASE clean /\ Len(popped) <= Held
    <3>1. Load = Len(queue) + Held
      BY <1>0, <1>1 DEF Load
    <3>2. Len(queue') <= Load
      BY <1>0, <1>1, <1>2, <2>2, <3>1
    <3>3. CASE saved = pending
      BY <1>0, <1>2, <1>4, <2>2, <3>1, <3>2, <3>3 DEF NodeInv, CleanCounted
    <3>4. CASE Load <= 0
      BY <1>0, <1>1, <1>2, <1>4, <3>1, <3>2, <3>4
    <3> QED
      BY <2>2, <3>3, <3>4 DEF NodeInv, SavedHolds, SleepAndWake
  <2> QED
    <3>1. (clean /\ ~(Len(popped) > Cardinality(Holders))) \/ Backlog' = 0
      BY <1>5 DEF SleepAndWake, Clean
    <3>2. Len(popped) \in Nat
      BY <1>0
    <3> QED
      BY <1>1, <2>1, <2>2, <3>1, <3>2
<1>6. clean' \in BOOLEAN
  BY DEF SleepAndWake, Clean, NodeInv, NodeTypeOK
<1> QED
  BY <1>2, <1>4, <1>5, <1>6, RebootInv DEF SleepAndWake

LEMMA AbruptInv == NodeInv /\ AbruptReset => NodeInv'
<1> SUFFICES ASSUME NodeInv, AbruptReset PROVE NodeInv'
  OBVIOUS
<1>1. queue' \in Seq(Record)
  <2>1. queue \in Seq(Record) /\ popped \in Seq(Record) /\ <<>> \in Seq(Record)
    BY DEF NodeInv, NodeTypeOK, SfTypeOK
  <2> QED
    BY <2>1, ServedAgainKeeps DEF AbruptReset, ServedAgain
<1>2. Backlog' = Len(queue')
  BY <1>1, RebootBacklog DEF AbruptReset
<1>3. pending' = 0 /\ clean' = (Backlog' = 0)
  BY DEF AbruptReset, Clean
<1>4. clean' \in BOOLEAN /\ (clean' => Len(queue') <= pending')
  <2>1. Len(queue') = 0 => Len(queue') <= 0
    OBVIOUS
  <2> QED
    BY <1>2, <1>3, <2>1
<1> QED
  BY <1>1, <1>3, <1>4, RebootInv DEF AbruptReset

-----------------------------------------------------------------------------
(* The invariant and what follows from it. *)

LEMMA NodeStutterInv == NodeInv /\ UNCHANGED nodeVars => NodeInv'
<1> SUFFICES ASSUME NodeInv, UNCHANGED nodeVars PROVE NodeInv'
  OBVIOUS
<1> USE DEF nodeVars, sfVars, mqttVars, burstVars, telVars, historyVars
<1>1. UNCHANGED tasksVars /\ UNCHANGED <<queue, popped, fsm, saved, lost, syncDone, clean>>
  BY DEF tasksVars
<1>2. queue' \in Seq(Record) /\ syncDone' \in BOOLEAN /\ Len(queue') <= Len(queue)
  BY DEF NodeInv, NodeTypeOK, SfTypeOK
<1>3. SfTypeOK' /\ OneBurst' /\ RegisterCovers' /\ LocalsSafe' /\ CleanCounted'
  BY <1>1, <1>2, FsmLeavesTasks
<1>4. NodeTypeOK'
  BY <1>3 DEF NodeInv, NodeTypeOK
<1>5. Accounted'
  BY <1>1, SameAccounts
<1>6. SavedHolds' /\ HeldOnCard'
  BY DEF NodeInv, SavedHolds, Load, Held, Uncounted, HeldOnCard, InSeq
<1> QED
  BY <1>3, <1>4, <1>5, <1>6 DEF NodeInv

LEMMA NodeAlways == NodeSpec => []NodeInv
<1>1. NodeInv /\ [NodeNext]_nodeVars => NodeInv'
  BY TasksInv, FsmInv, WakeInv, AbruptInv, NodeStutterInv DEF NodeNext
<1> QED
  BY NodeInitInv, <1>1, PTL DEF NodeSpec

\* All variables keep their types, over any number of boots.
THEOREM NodeTypeCorrect == NodeSpec => []NodeTypeOK
<1>1. NodeInv => NodeTypeOK
  BY DEF NodeInv
<1> QED
  BY <1>1, NodeAlways, PTL

\* The counter in RTC memory covers the backlog in every boot, whatever the
\* tasks do between the flush, the save and the sleep, unless it had one of the
\* stated excuses (power_fsm.c:139-147, rtc_state.c:35-45).
THEOREM CounterSurvivesSleep == NodeSpec => []CountedAcrossBoots
<1>1. NodeInv => CountedAcrossBoots
  <2> SUFFICES ASSUME NodeInv, clean PROVE Backlog <= pending + Uncounted
    BY DEF CountedAcrossBoots
  <2>1. /\ Len(queue) \in Nat /\ Held \in Nat /\ Uncounted \in Nat /\ pending \in Nat
        /\ Load <= pending
    BY DEF NodeInv, NodeTypeOK, SfTypeOK, CleanCounted, Held, Uncounted
  <2>2. Backlog = Len(queue) + Held
    BY HoldersCounted DEF NodeInv, Backlog
  <2> QED
    BY <2>1, <2>2 DEF Load
<1> QED
  BY <1>1, NodeAlways, PTL

\* A reset while the FSM has not begun to flush takes no record that a burst has
\* popped and not counted, at whatever point of its publish, its wait or its
\* re-queue it is cut off (sd_storage.c:234, store_forward.c:45-76).
THEOREM AwakeResetKeepsHeldAlways == NodeSpec => AwakeResetKeepsHeld
<1>1. ASSUME NodeInv, [NodeNext]_nodeVars, boots' # boots, fsm = "awake",
             NEW b \in Holders
      PROVE  bRecord[b] \in InSeq(queue')
  <2>1. SleepAndWake \/ AbruptReset
    BY <1>1 DEF NodeNext, NodeInv, NodeTypeOK, nodeVars, Tasks, TaskStep, FsmStep, SyncEnd,
                BatteryLow, Flush, Save
  <2>2. queue' = popped \o queue
    BY <1>1, <2>1 DEF SleepAndWake, AbruptReset, ServedAgain
  <2>3. bRecord[b] \in InSeq(popped)
    BY <1>1 DEF NodeInv, HeldOnCard, Holders
  <2>4. queue \in Seq(Record) /\ popped \in Seq(Record)
    BY <1>1 DEF NodeInv, NodeTypeOK, SfTypeOK
  <2> QED
    BY <2>2, <2>3, <2>4, InSeqConcat
<1>2. NodeInv /\ [NodeNext]_nodeVars =>
        (boots' # boots /\ fsm = "awake" => \A b \in Holders : bRecord[b] \in InSeq(queue'))
  BY <1>1
<1> QED
  BY <1>2, NodeAlways, PTL DEF NodeSpec, AwakeResetKeepsHeld
=============================================================================
