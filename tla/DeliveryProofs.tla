--------------------------- MODULE DeliveryProofs ---------------------------
(***************************************************************************)
(* Node implements Delivery, for any number of records, bursts, boots and  *)
(* failures.                                                               *)
(*                                                                         *)
(* Half of each step is in NodeProofs: that nothing leaves custody without *)
(* an account is Accounted after the step, for a record that was sampled   *)
(* and not lost before.  The other half is the flow of data: whatever a    *)
(* task, the client or the card holds after a step, one of them held       *)
(* before it (Flow).  So nothing is ever held that was not sampled         *)
(* (OnlySampled) or that was lost (LostIsGone), which the first half needs *)
(* in turn.                                                                *)
(***************************************************************************)
EXTENDS NodeProofs

InHands == {telRecord} \cup {bRecord[b] : b \in Burst}

OnlySampled == Custody \cup delivered \cup dropped \cup lost \subseteq sampled
LostIsGone == lost \cap (Custody \cup delivered) = {}
Traced == OnlySampled /\ LostIsGone

\* Where the contents of each place come from in a step of the tasks that
\* samples nothing.
Flow ==
  /\ telRecord' \in {telRecord, NoRecord}
  /\ \A b \in Burst : bRecord'[b] \in {bRecord[b], NoRecord} \cup InSeq(queue)
  /\ InSeq(pubQueue') \subseteq InSeq(pubQueue) \cup InHands
  /\ InSeq(outbox') \subseteq InSeq(outbox) \cup InSeq(pubQueue)
  /\ InSeq(queue') \subseteq InSeq(queue) \cup InHands

\* What becomes of the two sets of records that have had their end.
Ends ==
  \/ UNCHANGED <<delivered, dropped>>
  \/ \E r \in InRam \cap Record :
       \/ delivered' = delivered \cup {r} /\ UNCHANGED dropped
       \/ dropped' = dropped \cup {r} /\ UNCHANGED delivered

-----------------------------------------------------------------------------
(* The flow of data in a step of the tasks. *)

LEMMA TasksFlow ==
  ASSUME SfTypeOK, SfNext, ~TelSample
  PROVE  Flow /\ Ends /\ sampled' = sampled
<1> USE DEF SfTypeOK
<1>h. /\ telRecord \in InHands /\ telRecord \in InRam
      /\ \A b \in Burst : bRecord[b] \in InHands /\ bRecord[b] \in InRam
      /\ InSeq(pubQueue) \cup InSeq(outbox) \subseteq InRam
  BY DEF InHands, InRam
\* The record of a task is handed to the client, or put on the card.
<1>e. ASSUME NEW r \in Record, r \in InHands, Enqueue(r)
      PROVE  InSeq(pubQueue') \subseteq InSeq(pubQueue) \cup InHands
  BY <1>e, InSeqAppend DEF Enqueue
<1>p. ASSUME NEW r \in Record, r \in InHands, Put(r)
      PROVE  InSeq(queue') \subseteq InSeq(queue) \cup InHands
  BY <1>p, InSeqAppend DEF Put
<1>1. CASE TelRoute
  <2>1. /\ telRecord \in Record
        /\ telRecord' \in {telRecord, NoRecord}
        /\ Enqueue(telRecord) \/ UNCHANGED pubQueue
        /\ UNCHANGED <<bRecord, queue, outbox, sampled, delivered, dropped>>
    BY <1>1 DEF TelRoute, burstVars, historyVars
  <2> QED
    BY <1>e, <1>h, <2>1 DEF Flow, Ends
<1>2. CASE TelAppend
  <2>1. /\ telRecord \in Record /\ telRecord' = NoRecord
        /\ \/ Put(telRecord) /\ UNCHANGED dropped
           \/ UNCHANGED queue /\ dropped' = dropped \cup {telRecord}
        /\ UNCHANGED <<bRecord, pubQueue, outbox, sampled, delivered>>
    BY <1>2 DEF TelAppend, burstVars, mqttVars
  <2> QED
    BY <1>p, <1>h, <2>1 DEF Flow, Ends
<1>3. CASE \/ TelLoad \/ TelStore \/ MqttConnected \/ MqttDisconnected
           \/ WifiLost \/ OnReconnect
  <2>1. UNCHANGED <<telRecord, bRecord, queue, pubQueue, outbox, historyVars>>
    BY <1>3 DEF TelLoad, TelStore, MqttConnected, MqttDisconnected, WifiLost,
                OnReconnect, telVars, burstVars, mqttVars
  <2> QED
    BY <2>1 DEF Flow, Ends, historyVars
<1>4. CASE PublishTask
  <2>1. /\ Head(pubQueue) \in Record /\ Head(pubQueue) \in InSeq(pubQueue)
        /\ InSeq(pubQueue') \subseteq InSeq(pubQueue)
    BY <1>4, InSeqRest, HeadTailProperties DEF PublishTask
  <2>2. /\ \/ outbox' = Append(outbox, Head(pubQueue)) /\ UNCHANGED dropped
           \/ UNCHANGED outbox /\ dropped' = dropped \cup {Head(pubQueue)}
        /\ UNCHANGED <<telRecord, bRecord, queue, sampled, delivered>>
    BY <1>4 DEF PublishTask, telVars, burstVars
  <2>3. InSeq(outbox') \subseteq InSeq(outbox) \cup InSeq(pubQueue)
    <3>1. InSeq(Append(outbox, Head(pubQueue))) = InSeq(outbox) \cup {Head(pubQueue)}
      BY <2>1, InSeqAppend
    <3> QED
      BY <2>1, <2>2, <3>1
  <2> QED
    BY <1>h, <2>1, <2>2, <2>3 DEF Flow, Ends
<1>5. CASE Puback
  <2>1. /\ Head(outbox) \in Record /\ Head(outbox) \in InSeq(outbox)
        /\ InSeq(outbox') \subseteq InSeq(outbox)
    BY <1>5, InSeqRest, HeadTailProperties DEF Puback
  <2>2. /\ delivered' = delivered \cup {Head(outbox)}
        /\ UNCHANGED <<telRecord, bRecord, queue, pubQueue, sampled, dropped>>
    BY <1>5 DEF Puback, telVars, burstVars
  <2> QED
    BY <1>h, <2>1, <2>2 DEF Flow, Ends
<1>6. ASSUME NEW b \in Burst, BurstPop(b)
      PROVE  Flow /\ Ends /\ sampled' = sampled
  <2>1. UNCHANGED <<telRecord, pubQueue, outbox, historyVars>>
    BY <1>6 DEF BurstPop, telVars, mqttVars
  <2>2. CASE Get /\ bRecord' = [bRecord EXCEPT ![b] = Head(queue)]
    <3>1. Head(queue) \in InSeq(queue) /\ InSeq(queue') \subseteq InSeq(queue)
      BY <2>2, InSeqRest DEF Get
    <3> QED
      BY <2>1, <2>2, <3>1 DEF Flow, Ends, historyVars
  <2>3. CASE UNCHANGED <<queue, bRecord>>
    BY <2>1, <2>3 DEF Flow, Ends, historyVars
  <2> QED
    BY <1>6, <2>2, <2>3 DEF BurstPop
<1>7. ASSUME NEW b \in Burst, BurstPublish(b)
      PROVE  Flow /\ Ends /\ sampled' = sampled
  <2>1. /\ bRecord[b] \in Record
        /\ Enqueue(bRecord[b]) \/ UNCHANGED pubQueue
        /\ UNCHANGED <<telRecord, bRecord, queue, outbox, historyVars>>
    BY <1>7 DEF BurstPublish, telVars, Holding
  <2> QED
    BY <1>e, <1>h, <2>1 DEF Flow, Ends, historyVars
<1>8. ASSUME NEW b \in Burst, BurstPuback(b)
      PROVE  Flow /\ Ends /\ sampled' = sampled
  BY <1>8 DEF BurstPuback, CountDelivered, LetGo, telVars, Flow, Ends
<1>9. ASSUME NEW b \in Burst, BurstRequeue(b)
      PROVE  Flow /\ Ends /\ sampled' = sampled
  <2>1. /\ bRecord[b] \in Record
        /\ \/ Put(bRecord[b]) /\ UNCHANGED dropped
           \/ UNCHANGED queue /\ dropped' = dropped \cup {bRecord[b]}
        /\ bRecord' = [bRecord EXCEPT ![b] = NoRecord]
        /\ UNCHANGED <<telRecord, pubQueue, outbox, sampled, delivered>>
    BY <1>9 DEF BurstRequeue, LetGo, telVars, mqttVars, Holding
  <2> QED
    BY <1>p, <1>h, <2>1 DEF Flow, Ends
<1>10. ASSUME NEW b \in Burst, BurstPubackTimeout(b) \/ BurstNotify(b) \/ BurstExit(b)
       PROVE  Flow /\ Ends /\ sampled' = sampled
  <2>1. UNCHANGED <<telRecord, bRecord, queue, pubQueue, outbox, historyVars>>
    BY <1>10 DEF BurstPubackTimeout, BurstNotify, BurstExit, telVars, mqttVars
  <2> QED
    BY <2>1 DEF Flow, Ends, historyVars
<1> QED
  BY <1>1, <1>2, <1>3, <1>4, <1>5, <1>6, <1>7, <1>8, <1>9, <1>10
     DEF SfNext, TelStep, BurstStep

-----------------------------------------------------------------------------
(* From the places of a record to its custody. *)

\* What came from a place was in custody.
LEMMA FlowShrinks ==
  ASSUME NodeTypeOK, NodeTypeOK', Flow,
         InSeq(popped') \subseteq InSeq(popped) \cup InSeq(queue)
  PROVE  Custody' \subseteq Custody
<1>1. /\ queue \in Seq(Record) /\ pubQueue \in Seq(Record) /\ outbox \in Seq(Record)
      /\ queue' \in Seq(Record)
  BY DEF NodeTypeOK, SfTypeOK
<1>2. InSeq(queue) \subseteq Record /\ InSeq(queue') \subseteq Record
  BY <1>1, InSeqTyped
<1>3. /\ InHands \subseteq InRam
      /\ InSeq(pubQueue) \cup InSeq(outbox) \subseteq InRam
  BY DEF InHands, InRam
<1>4. ASSUME NEW r \in Record, r \in InRam'
      PROVE  r \in Custody
  <2>1. CASE r = telRecord'
    BY <1>3, <1>4, <2>1, RecordAssumption DEF Flow, InHands, Custody
  <2>2. ASSUME NEW b \in Burst, r = bRecord'[b]
        PROVE  r \in Custody
    BY <1>3, <1>4, <2>2, RecordAssumption DEF Flow, InHands, Custody
  <2>3. CASE r \in InSeq(pubQueue') \cup InSeq(outbox')
    BY <1>3, <1>4, <2>3 DEF Flow, Custody
  <2>4. InRam' = {telRecord'} \cup {bRecord'[b] : b \in Burst}
                   \cup InSeq(pubQueue') \cup InSeq(outbox')
    BY DEF InRam, InSeq
  <2> QED
    BY <1>4, <2>1, <2>2, <2>3, <2>4
<1>5. InSeq(queue') \subseteq Custody
  BY <1>2, <1>3 DEF Flow, Custody
<1>6. InSeq(popped') \subseteq Custody
  BY DEF Custody
<1>7. Custody' = (InRam' \cap Record) \cup InSeq(queue') \cup InSeq(popped')
  BY DEF Custody, InSeq
<1> QED
  BY <1>4, <1>5, <1>6, <1>7

\* What leaves custody in a step that loses nothing has been delivered or
\* dropped: it was sampled, so Accounted says after the step where it is.
LEMMA ShrinkKeeps ==
  ASSUME Traced, Accounted', NodeTypeOK', UNCHANGED <<sampled, lost>>,
         Custody' \subseteq Custody
  PROVE  Custodian!Keep
<1>1. ASSUME NEW r \in Custody, r \notin Custody'
      PROVE  r \in delivered' \cup dropped'
  <2>1. r \in sampled' /\ r \in Record /\ r \notin lost'
    BY DEF Traced, OnlySampled, LostIsGone, NodeTypeOK, SfTypeOK
  <2>2. Kept(r)'
    BY <2>1 DEF Accounted
  <2>3. \/ r = telRecord' \/ \E b \in Burst : r = bRecord'[b]
        \/ r \in InSeq(queue') \/ r \in InSeq(pubQueue') \/ r \in InSeq(outbox')
        \/ r \in delivered' \/ r \in dropped'
    BY <2>2 DEF Kept, Sent, InSeq
  <2>4. /\ InRam' = {telRecord'} \cup {bRecord'[b] : b \in Burst}
                      \cup InSeq(pubQueue') \cup InSeq(outbox')
        /\ Custody' = (InRam' \cap Record) \cup InSeq(queue') \cup InSeq(popped')
    BY DEF InRam, Custody, InSeq
  <2> QED
    BY <1>1, <2>1, <2>3, <2>4
<1>2. Custody = Custodian!Custody /\ Custody' = Custodian!Custody'
  BY DEF Custody, Custodian!Custody
<1> QED
  BY <1>1, <1>2 DEF Custodian!Keep

-----------------------------------------------------------------------------
(* Every step of the node is a step of Delivery. *)

LEMMA TasksDeliver ==
  ASSUME NodeInv, NodeInv', Traced, Tasks
  PROVE  Custodian!DeliveryNext
<1>0. /\ SfTypeOK /\ NodeTypeOK /\ NodeTypeOK' /\ Accounted' /\ SfNext
      /\ queue \in Seq(Record) /\ popped \in Seq(Record) /\ lost' = lost
  BY DEF NodeInv, NodeTypeOK, SfTypeOK, Tasks, TaskStep
<1>1. CASE TelSample
  <2>1. PICK r \in Record : /\ r \notin sampled /\ sampled' = sampled \cup {r}
                            /\ telRecord' = r
    BY <1>1 DEF TelSample
  <2>2. UNCHANGED <<queue, pubQueue, outbox, bRecord, delivered, dropped>>
    BY <1>1 DEF TelSample, mqttVars, burstVars
  <2>3. popped' = popped
    BY <1>0, <2>2 DEF Tasks
  <2>4. telRecord = NoRecord
    BY <1>1 DEF NodeInv, LocalsSafe, TelSample
  <2>5. (InRam \cap Record)' = (InRam \cap Record) \cup {r}
    <3>1. InRam' = {r} \cup {bRecord[b] : b \in Burst} \cup InSeq(pubQueue) \cup InSeq(outbox)
      BY <2>1, <2>2 DEF InRam, InSeq
    <3> QED
      BY <2>4, <3>1, RecordAssumption DEF InRam
  <2>6. (InSeq(queue) \cup InSeq(popped))' = InSeq(queue) \cup InSeq(popped)
    BY <2>2, <2>3 DEF InSeq
  <2>7. Custodian!Sample(r)
    BY <1>0, <2>1, <2>2, <2>5, <2>6 DEF Custodian!Sample
  <2> QED
    BY <2>7 DEF Custodian!DeliveryNext
<1>2. CASE ~TelSample
  <2>1. Flow /\ Ends /\ sampled' = sampled
    BY <1>0, <1>2, TasksFlow
  <2>2. InSeq(popped') \subseteq InSeq(popped) \cup InSeq(queue)
    <3>1. CASE Len(queue') < Len(queue)
      <4>1. queue # <<>>
        BY <1>0, <3>1 DEF NodeTypeOK, SfTypeOK
      <4>2. Head(queue) \in InSeq(queue) /\ Head(queue) \in Record
        BY <1>0, <4>1, InSeqRest, HeadTailProperties
      <4>3. InSeq(Append(popped, Head(queue))) = InSeq(popped) \cup {Head(queue)}
        BY <1>0, <4>2, InSeqAppend
      <4> QED
        BY <3>1, <4>2, <4>3 DEF Tasks
    <3>2. CASE ~(Len(queue') < Len(queue))
      BY <3>2 DEF Tasks
    <3> QED
      BY <3>1, <3>2
  <2>3. Custodian!Keep
    BY <1>0, <2>1, <2>2, FlowShrinks, ShrinkKeeps
  <2>4. CASE UNCHANGED <<delivered, dropped>>
    BY <1>0, <2>1, <2>3, <2>4 DEF Custodian!Move, Custodian!DeliveryNext
  <2>5. ASSUME NEW r \in InRam \cap Record,
               \/ delivered' = delivered \cup {r} /\ UNCHANGED dropped
               \/ dropped' = dropped \cup {r} /\ UNCHANGED delivered
        PROVE  Custodian!DeliveryNext
    <3>1. Custodian!Deliver(r) \/ Custodian!Drop(r)
      BY <1>0, <2>1, <2>3, <2>5 DEF Custodian!Deliver, Custodian!Drop
    <3> QED
      BY <2>5, <3>1 DEF Custodian!DeliveryNext
  <2> QED
    BY <2>1, <2>4, <2>5 DEF Ends
<1> QED
  BY <1>1, <1>2

\* Node and Delivery lose alike.
LEMMA LoseIsLose ==
  ASSUME Lose, UNCHANGED <<sampled, delivered, dropped>>
  PROVE  Custodian!Lose
BY DEF Lose, Custodian!Lose, Custody, Custodian!Custody

\* The FSM touches no record in RAM.
LEMMA FsmDelivers ==
  ASSUME NodeInv, NodeInv', Traced, FsmStep
  PROVE  Custodian!DeliveryNext
<1>0. /\ NodeTypeOK' /\ Accounted'
      /\ queue \in Seq(Record) /\ popped \in Seq(Record)
  BY DEF NodeInv, NodeTypeOK, SfTypeOK
<1>1. UNCHANGED <<telRecord, bRecord, pubQueue, outbox, historyVars>>
  BY DEF FsmStep, SyncEnd, BatteryLow, Flush, Save, sfVars, mqttVars, burstVars, telVars
<1>2. InRam' = InRam /\ UNCHANGED <<sampled, delivered, dropped>>
  BY <1>1 DEF InRam, InSeq, historyVars
<1>3. InSeq(<<>>) = {}
  BY DEF InSeq
<1>4. Custody' = (InRam' \cap Record) \cup InSeq(queue') \cup InSeq(popped')
  BY DEF Custody, InSeq
<1>5. CASE /\ queue' = queue \/ queue' = popped \o queue
           /\ popped' = popped \/ popped' = <<>>
           /\ UNCHANGED lost
  <2>1. /\ InSeq(queue') \subseteq InSeq(queue) \cup InSeq(popped)
        /\ InSeq(popped') \subseteq InSeq(popped)
    BY <1>0, <1>3, <1>5, InSeqConcat
  <2>2. Custody' \subseteq Custody
    BY <1>2, <1>4, <2>1 DEF Custody
  <2>3. Custodian!Keep
    BY <1>0, <1>2, <1>5, <2>2, ShrinkKeeps
  <2> QED
    BY <1>2, <1>5, <2>3 DEF Custodian!Move, Custodian!DeliveryNext
<1>6. CASE CardCut
  <2>1. PICK n \in 0 .. Len(queue) : queue' = SubSeq(queue, 1, n)
    BY <1>6 DEF CardCut
  <2>2. InSeq(queue') \subseteq InSeq(queue)
    <3>1. Len(queue') = n /\ \A i \in 1 .. n : queue'[i] = queue[i] /\ i \in 1 .. Len(queue)
      BY <1>0, <2>1
    <3> QED
      BY <3>1 DEF InSeq
  <2>3. CardCuts /\ popped' = <<>> /\ Custodian!Lose
    BY <1>2, <1>6, LoseIsLose DEF CardCut
  <2>4. /\ (InRam \cap Record)' = InRam \cap Record
        /\ (InSeq(queue) \cup InSeq(popped))' \subseteq InSeq(queue) \cup InSeq(popped)
    BY <1>2, <1>3, <2>2, <2>3 DEF InSeq
  <2> QED
    BY <2>3, <2>4 DEF Custodian!Cut, Custodian!DeliveryNext
<1> QED
  BY <1>5, <1>6 DEF FsmStep, SyncEnd, BatteryLow, Flush, Save, sfVars

LEMMA RebootDelivers ==
  ASSUME NodeInv, Reboot, \/ queue' = popped \o queue
                          \/ CardCuts /\ queue' = <<>>
  PROVE  Custodian!DeliveryNext
<1>0. queue \in Seq(Record) /\ popped \in Seq(Record)
  BY DEF NodeInv, NodeTypeOK, SfTypeOK
<1>1. InSeq(<<>>) = {}
  BY DEF InSeq
<1>2. (InRam \cap Record)' = {}
  <2>1. /\ telRecord' = NoRecord /\ pubQueue' = <<>> /\ outbox' = <<>>
        /\ \A b \in Burst : bRecord'[b] = NoRecord
    BY DEF Reboot
  <2>2. InRam' = {NoRecord} \cup {bRecord'[b] : b \in Burst}
    BY <1>1, <2>1 DEF InRam, InSeq
  <2> QED
    BY <2>1, <2>2, RecordAssumption
<1>3. Custodian!Lose /\ popped' = <<>>
  BY LoseIsLose DEF Reboot
<1>4. (InSeq(queue) \cup InSeq(popped))' = InSeq(queue') \cup InSeq(popped')
  BY DEF InSeq
<1>5. CASE queue' = popped \o queue
  <2>1. InSeq(queue') = InSeq(queue) \cup InSeq(popped)
    BY <1>0, <1>5, InSeqConcat
  <2>2. (InSeq(queue) \cup InSeq(popped))' = InSeq(queue) \cup InSeq(popped)
    BY <1>1, <1>3, <1>4, <2>1
  <2> QED
    BY <1>2, <1>3, <2>2 DEF Custodian!Restart, Custodian!DeliveryNext
<1>6. CASE CardCuts /\ queue' = <<>>
  <2>1. (InSeq(queue) \cup InSeq(popped))' = {}
    BY <1>1, <1>3, <1>4, <1>6
  <2> QED
    BY <1>2, <1>3, <1>6, <2>1 DEF Custodian!Cut, Custodian!DeliveryNext
<1> QED
  BY <1>5, <1>6

LEMMA NodeDelivers ==
  ASSUME NodeInv, NodeInv', Traced, [NodeNext]_nodeVars
  PROVE  [Custodian!DeliveryNext]_(Custodian!deliveryVars)
<1>1. CASE SleepAndWake \/ AbruptReset
  BY <1>1, RebootDelivers DEF SleepAndWake, AbruptReset, ServedAgain
<1>2. CASE UNCHANGED nodeVars
  <2>1. /\ UNCHANGED <<sampled, delivered, dropped, lost>>
        /\ (InRam \cap Record)' = InRam \cap Record
        /\ (InSeq(queue) \cup InSeq(popped))' = InSeq(queue) \cup InSeq(popped)
    BY <1>2 DEF nodeVars, sfVars, mqttVars, burstVars, telVars, historyVars, InRam, InSeq
  <2> QED
    BY <2>1 DEF Custodian!deliveryVars
<1> QED
  BY <1>1, <1>2, TasksDeliver, FsmDelivers DEF NodeNext

-----------------------------------------------------------------------------
(* What follows. *)

LEMMA InitDelivers == NodeInit => Traced /\ Custodian!DeliveryInit
<1> SUFFICES ASSUME NodeInit PROVE Traced /\ Custodian!DeliveryInit
  OBVIOUS
<1>1. /\ queue = <<>> /\ popped = <<>> /\ pubQueue = <<>> /\ outbox = <<>>
      /\ telRecord = NoRecord /\ \A b \in Burst : bRecord[b] = NoRecord
      /\ sampled = {} /\ delivered = {} /\ dropped = {} /\ lost = {}
  BY DEF NodeInit, SfInit
<1>2. InSeq(<<>>) = {}
  BY DEF InSeq
<1>3. InRam \cap Record = {} /\ InSeq(queue) = {} /\ InSeq(popped) = {}
  BY <1>1, <1>2, RecordAssumption DEF InRam
<1> QED
  BY <1>1, <1>3 DEF Traced, OnlySampled, LostIsGone, Custody, Custodian!DeliveryInit

\* The abstract steps bring nothing into custody but samples, and lose nothing
\* that the node still has or the broker has.
LEMMA TracedStep ==
  ASSUME Traced, [Custodian!DeliveryNext]_(Custodian!deliveryVars)
  PROVE  Traced'
<1> USE DEF Traced, OnlySampled, LostIsGone
<1>1. Custody = Custodian!Custody /\ Custody' = Custodian!Custody'
  BY DEF Custody, Custodian!Custody
<1>2. InRam \cap Record \subseteq Custody
  BY DEF Custody
<1>3. CASE Custodian!Move
  BY <1>1, <1>3 DEF Custodian!Move, Custodian!Keep
<1>4. ASSUME Custodian!Lose, Custody' \subseteq Custody
      PROVE  Traced'
  BY <1>1, <1>4 DEF Custodian!Lose
<1>5. CASE Custodian!Restart \/ Custodian!Cut
  <2>1. Custody' \subseteq Custody
    BY <1>1, <1>5 DEF Custodian!Restart, Custodian!Cut, Custodian!Custody
  <2> QED
    BY <1>4, <1>5, <2>1 DEF Custodian!Restart, Custodian!Cut
<1>6. ASSUME NEW r \in Record, Custodian!Sample(r)
      PROVE  Traced'
  <2>1. Custody' = Custody \cup {r}
    BY <1>1, <1>6 DEF Custodian!Sample, Custodian!Custody
  <2> QED
    BY <1>6, <2>1 DEF Custodian!Sample
<1>7. ASSUME NEW r \in Record, Custodian!Deliver(r) \/ Custodian!Drop(r)
      PROVE  Traced'
  BY <1>1, <1>2, <1>7 DEF Custodian!Deliver, Custodian!Drop, Custodian!Keep
<1>8. CASE UNCHANGED Custodian!deliveryVars
  <2>1. Custody' = Custody /\ UNCHANGED <<sampled, delivered, dropped, lost>>
    BY <1>1, <1>8 DEF Custodian!deliveryVars, Custodian!Custody
  <2> QED
    BY <2>1
<1> QED
  BY <1>3, <1>5, <1>6, <1>7, <1>8 DEF Custodian!DeliveryNext

LEMMA TracedAlways == NodeSpec => []Traced
<1>1. NodeInv /\ NodeInv' /\ Traced /\ [NodeNext]_nodeVars => Traced'
  BY NodeDelivers, TracedStep
<1> QED
  BY <1>1, InitDelivers, NodeAlways, PTL DEF NodeSpec

\* From boot to boot, whatever fails and whenever the node is reset: a record
\* leaves the node only when the broker has it, when it was given up with an
\* error, when a reset finds it in RAM alone or when compaction cuts it from the
\* card, and what has left does not come back (task_telemetry.c:66-84,
\* store_forward.c:40-76, mqtt_client.c:82-110, sd_storage.c:88-99).
THEOREM NodeDeliversOrDeclares == NodeSpec => DeliversOrDeclares
<1>1. /\ NodeInv /\ NodeInv' /\ Traced /\ [NodeNext]_nodeVars
      => [Custodian!DeliveryNext]_(Custodian!deliveryVars)
  BY NodeDelivers
<1> QED
  BY <1>1, InitDelivers, TracedAlways, NodeAlways, PTL
     DEF NodeSpec, DeliversOrDeclares, Custodian!DeliverySpec

\* Nothing is invented: what the node holds, the broker has, was given up or was
\* lost is what telemetry sampled (task_telemetry.c:40-60).
THEOREM NothingInvented == NodeSpec => []OnlySampled
<1>1. Traced => OnlySampled
  BY DEF Traced
<1> QED
  BY <1>1, TracedAlways, PTL

\* What went without a word is neither delivered nor served again later: every
\* other record is where Accounted says (power_fsm.c:127-152, sd_storage.c:88-99).
THEOREM LostForGood == NodeSpec => [](Accounted /\ LostIsGone)
<1>1. NodeInv /\ Traced => Accounted /\ LostIsGone
  BY DEF NodeInv, Traced
<1> QED
  BY <1>1, NodeAlways, TracedAlways, PTL
=============================================================================
