------------------------- MODULE StoreForwardProofs -------------------------
(***************************************************************************)
(* Theorems about StoreForward, for any number of records and burst        *)
(* identities, any depth of the queues, with or without failing calls.     *)
(*                                                                         *)
(* SfTypeOK and OneBurst are inductive.  BacklogCounted is inductive on    *)
(* top of them: with at most one burst, the number of records in bursts'   *)
(* hands is Held, 0 or 1, and the proof is arithmetic over Len(queue),     *)
(* Held, pending and the telemetry task's register.  NoSilentLoss needs to *)
(* know that the locals of the tasks are empty when they are overwritten   *)
(* and that a burst waiting for a PUBACK has handed its record on.         *)
(***************************************************************************)
EXTENDS StoreForward, SequenceTheorems, FiniteSetTheorems, TLAPS

LEMMA SfInitTyped == SfInit => SfTypeOK
<1> SUFFICES ASSUME SfInit PROVE SfTypeOK
  OBVIOUS
<1> USE DEF SfInit
<1>1. <<>> \in Seq(Record)
  OBVIOUS
<1>2. /\ bpc \in [Burst -> {"none", "pop", "notify", "exit"} \cup Holding]
      /\ bRecord \in [Burst -> Record \cup {NoRecord}]
      /\ \A b \in Burst : bpc[b] \in Holding => bRecord[b] \in Record
  BY DEF Holding
<1>3. /\ queue \in Seq(Record) /\ pubQueue \in Seq(Record) /\ outbox \in Seq(Record)
      /\ pending \in Nat /\ puback \in 0 .. 1 /\ telReg \in Nat
  BY <1>1
<1>4. /\ sampled \subseteq Record /\ delivered \subseteq Record
      /\ counted \subseteq Record /\ dropped \subseteq Record
  OBVIOUS
<1>5. /\ wifi \in BOOLEAN /\ mqttConn \in BOOLEAN
      /\ burstRunning \in BOOLEAN /\ syncDone \in BOOLEAN
      /\ tel \in {"delay", "route", "append", "load", "store"}
      /\ tel \notin {"route", "append"}
      /\ telRecord \in Record \cup {NoRecord}
  OBVIOUS
<1> HIDE DEF SfInit
<1> QED
  BY <1>2, <1>3, <1>4, <1>5 DEF SfTypeOK

LEMMA SfNextTyped == SfTypeOK /\ [SfNext]_sfVars => SfTypeOK'
<1> SUFFICES ASSUME SfTypeOK, [SfNext]_sfVars
             PROVE  SfTypeOK'
  OBVIOUS
<1> USE DEF SfTypeOK
<1>1. CASE TelSample
  <2>1. PICK r \in Record : telRecord' = r /\ sampled' = sampled \cup {r}
    BY <1>1 DEF TelSample
  <2>2. tel' = "route" /\ telRecord' \in Record /\ sampled' \subseteq Record
    BY <1>1, <2>1 DEF TelSample
  <2> QED
    BY <1>1, <2>2 DEF TelSample, mqttVars, burstVars
<1>2. CASE TelRoute
  <2>1. telRecord \in Record
    BY <1>2 DEF TelRoute
  <2>2. CASE wifi /\ CanEnqueue
    <3>1. /\ pubQueue' = Append(pubQueue, telRecord)
          /\ tel' = "delay" /\ telRecord' = NoRecord
      BY <1>2, <2>2 DEF TelRoute, Enqueue
    <3>2. pubQueue' \in Seq(Record)
      BY <2>1, <3>1
    <3> QED
      BY <1>2, <3>1, <3>2 DEF TelRoute, burstVars, historyVars
  <2>3. CASE ~(wifi /\ CanEnqueue)
    <3>1. UNCHANGED <<pubQueue, telRecord>> /\ tel' = "append"
      BY <1>2, <2>3 DEF TelRoute
    <3> QED
      BY <1>2, <2>1, <3>1 DEF TelRoute, burstVars, historyVars
  <2> QED
    BY <2>2, <2>3
<1>3. CASE TelAppend
  <2>1. telRecord \in Record
    BY <1>3 DEF TelAppend
  <2>2. Append(queue, telRecord) \in Seq(Record)
    BY <2>1
  <2>3. queue' \in Seq(Record) /\ dropped' \subseteq Record
    BY <1>3, <2>1, <2>2 DEF TelAppend, Put
  <2>4. tel' \in {"load", "delay"} /\ telRecord' = NoRecord
    BY <1>3 DEF TelAppend
  <2> QED
    BY <1>3, <2>3, <2>4 DEF TelAppend, mqttVars, burstVars
<1>4. CASE TelLoad
  BY <1>4 DEF TelLoad, mqttVars, burstVars, historyVars
<1>5. CASE TelStore
  BY <1>5 DEF TelStore, mqttVars, burstVars, historyVars
<1>6. CASE MqttConnected
  BY <1>6 DEF MqttConnected, telVars, burstVars, historyVars
<1>7. CASE MqttDisconnected
  BY <1>7 DEF MqttDisconnected, telVars, burstVars, historyVars
<1>8. CASE PublishTask
  <2>1. pubQueue' \in Seq(Record) /\ Head(pubQueue) \in Record
    BY <1>8, HeadTailProperties DEF PublishTask
  <2>2. outbox' \in Seq(Record) /\ dropped' \subseteq Record
    <3>1. Append(outbox, Head(pubQueue)) \in Seq(Record)
      BY <2>1
    <3> QED
      BY <1>8, <2>1, <3>1 DEF PublishTask
  <2> QED
    BY <1>8, <2>1, <2>2 DEF PublishTask, telVars, burstVars
<1>9. CASE Puback
  BY <1>9 DEF Puback, telVars, burstVars
<1>10. CASE WifiLost
  BY <1>10 DEF WifiLost, mqttVars, telVars, burstVars, historyVars
<1>11. CASE OnReconnect
  BY <1>11 DEF OnReconnect, mqttVars, telVars, burstVars, historyVars, Holding
<1>12. ASSUME NEW b \in Burst, BurstPop(b)
       PROVE  SfTypeOK'
  <2>1. CASE Get /\ bRecord' = [bRecord EXCEPT ![b] = Head(queue)]
             /\ Goto(b, "publish")
    <3>1. queue' \in Seq(Record) /\ Head(queue) \in Record
      BY <2>1, HeadTailProperties DEF Get
    <3> QED
      BY <1>12, <2>1, <3>1 DEF BurstPop, Goto, mqttVars, telVars, historyVars, Holding
  <2>2. CASE Goto(b, "notify") /\ UNCHANGED <<queue, bRecord>>
    BY <1>12, <2>2 DEF BurstPop, Goto, mqttVars, telVars, historyVars, Holding
  <2> QED
    BY <1>12, <2>1, <2>2 DEF BurstPop
<1>13. ASSUME NEW b \in Burst, BurstPublish(b)
       PROVE  SfTypeOK'
  <2>1. bRecord[b] \in Record
    BY <1>13 DEF BurstPublish, Holding
  <2>2. pubQueue' \in Seq(Record)
    <3>1. Append(pubQueue, bRecord[b]) \in Seq(Record)
      BY <2>1
    <3> QED
      BY <1>13, <3>1 DEF BurstPublish, Enqueue
  <2>3. Goto(b, "puback") \/ Goto(b, "requeue")
    BY <1>13 DEF BurstPublish
  <2>4. UNCHANGED <<queue, pending, wifi, mqttConn, outbox, puback, bRecord,
                    burstRunning, syncDone, telVars, historyVars>>
    BY <1>13 DEF BurstPublish
  <2> QED
    BY <2>1, <2>2, <2>3, <2>4 DEF Goto, telVars, historyVars, Holding
<1>14. ASSUME NEW b \in Burst, BurstPuback(b)
       PROVE  SfTypeOK'
  BY <1>14 DEF BurstPuback, CountDelivered, Goto, LetGo, telVars, Holding
<1>15. ASSUME NEW b \in Burst, BurstPubackTimeout(b)
       PROVE  SfTypeOK'
  BY <1>15 DEF BurstPubackTimeout, Goto, mqttVars, telVars, historyVars, Holding
<1>16. ASSUME NEW b \in Burst, BurstRequeue(b)
       PROVE  SfTypeOK'
  <2>1. bRecord[b] \in Record
    BY <1>16 DEF BurstRequeue, Holding
  <2>2. queue' \in Seq(Record) /\ dropped' \subseteq Record
    <3>1. Append(queue, bRecord[b]) \in Seq(Record)
      BY <2>1
    <3> QED
      BY <1>16, <2>1, <3>1 DEF BurstRequeue, Put
  <2> QED
    BY <1>16, <2>2 DEF BurstRequeue, Goto, LetGo, mqttVars, telVars, Holding
<1>17. ASSUME NEW b \in Burst, BurstNotify(b)
       PROVE  SfTypeOK'
  BY <1>17 DEF BurstNotify, Goto, mqttVars, telVars, historyVars, Holding
<1>18. ASSUME NEW b \in Burst, BurstExit(b)
       PROVE  SfTypeOK'
  BY <1>18 DEF BurstExit, Goto, mqttVars, telVars, historyVars, Holding
<1>19. CASE UNCHANGED sfVars
  BY <1>19 DEF sfVars, mqttVars, burstVars, telVars, historyVars
<1> QED
  BY <1>1, <1>2, <1>3, <1>4, <1>5, <1>6, <1>7, <1>8, <1>9, <1>10, <1>11,
     <1>12, <1>13, <1>14, <1>15, <1>16, <1>17, <1>18, <1>19
     DEF SfNext, TelStep, BurstStep

\* The state stays well typed, and whoever is about to publish or append a
\* record has one.
THEOREM SfTypeCorrect == SfSpec => []SfTypeOK
BY SfInitTyped, SfNextTyped, PTL DEF SfSpec

-----------------------------------------------------------------------------
(* At most one burst. *)

LEMMA SfInitOneBurst == SfInit => OneBurst
BY DEF SfInit, OneBurst

LEMMA SfNextOneBurst ==
  SfTypeOK /\ OneBurst /\ [SfNext]_sfVars => OneBurst'
<1> SUFFICES ASSUME SfTypeOK, OneBurst, [SfNext]_sfVars
             PROVE  OneBurst'
  OBVIOUS
\* Most steps leave the bursts alone.
<1>u. ASSUME UNCHANGED burstVars
      PROVE  OneBurst'
  BY <1>u DEF OneBurst, burstVars
\* A step of a burst that goes on leaves all others alone.
<1>g. ASSUME NEW b \in Burst, bpc[b] # "none", NEW l, Goto(b, l),
             UNCHANGED burstRunning
      PROVE  OneBurst'
  BY <1>g DEF OneBurst, Goto, SfTypeOK
<1>1. CASE TelSample \/ TelStep
  BY <1>1, <1>u DEF TelSample, TelStep, TelRoute, TelAppend, TelLoad, TelStore
<1>2. CASE MqttConnected \/ MqttDisconnected \/ PublishTask \/ Puback \/ WifiLost
  BY <1>2, <1>u DEF MqttConnected, MqttDisconnected, PublishTask, Puback, WifiLost
<1>3. CASE OnReconnect
  <2>1. CASE UNCHANGED burstVars
    BY <2>1, <1>u
  <2>2. CASE ~burstRunning /\ burstRunning'
    <3>1. PICK b \in Burst : bpc' = [bpc EXCEPT ![b] = "pop"]
      BY <1>3, <2>2 DEF OnReconnect, burstVars
    <3>2. \A c \in Burst : bpc[c] = "none"
      BY <2>2 DEF OneBurst
    <3> QED
      BY <2>2, <3>1, <3>2 DEF OneBurst, SfTypeOK
  <2> QED
    BY <1>3, <2>1, <2>2 DEF OnReconnect
<1>4. ASSUME NEW b \in Burst, BurstStep(b)
      PROVE  OneBurst'
  <2>1. CASE BurstPop(b)
    BY <2>1, <1>g DEF BurstPop
  <2>2. CASE BurstPublish(b)
    BY <2>2, <1>g DEF BurstPublish
  <2>3. CASE BurstPuback(b) \/ BurstPubackTimeout(b) \/ BurstRequeue(b)
    BY <2>3, <1>g DEF BurstPuback, CountDelivered, BurstPubackTimeout, BurstRequeue
  <2>4. CASE BurstNotify(b)
    BY <2>4, <1>g DEF BurstNotify
  <2>5. CASE BurstExit(b)
    <3>1. \A c \in Burst : c # b => bpc[c] = "none"
      BY <2>5 DEF BurstExit, OneBurst
    <3>2. \A c \in Burst : bpc'[c] = "none"
      BY <2>5, <3>1 DEF BurstExit, Goto, SfTypeOK
    <3> QED
      BY <3>2 DEF OneBurst
  <2> QED
    BY <1>4, <2>1, <2>2, <2>3, <2>4, <2>5 DEF BurstStep
<1>5. CASE UNCHANGED sfVars
  BY <1>5, <1>u DEF sfVars
<1> QED
  BY <1>1, <1>2, <1>3, <1>4, <1>5 DEF SfNext

\* However Wi-Fi flaps, a second burst is never spawned while one runs.
THEOREM OneBurstAtATime == SfSpec => []OneBurst
<1>1. SfInit => SfTypeOK /\ OneBurst
  BY SfInitTyped, SfInitOneBurst
<1>2. SfTypeOK /\ OneBurst /\ [SfNext]_sfVars => (SfTypeOK /\ OneBurst)'
  BY SfNextTyped, SfNextOneBurst
<1> QED
  BY <1>1, <1>2, PTL DEF SfSpec

-----------------------------------------------------------------------------
(* The backlog is counted. *)

\* The number of records in bursts' hands when at most one burst runs.
Held == IF \E b \in Burst : bpc[b] \in Holding THEN 1 ELSE 0

LEMMA HoldersCounted ==
  ASSUME OneBurst
  PROVE  Cardinality(Holders) = Held
<1>1. CASE \E b \in Burst : bpc[b] \in Holding
  <2>1. PICK b \in Burst : bpc[b] \in Holding
    BY <1>1
  <2>2. \A c \in Burst : bpc[c] \in Holding => c = b
    BY <2>1 DEF OneBurst, Holding
  <2>3. Holders = {b}
    BY <2>1, <2>2 DEF Holders
  <2> QED
    BY <1>1, <2>3, FS_Singleton DEF Held
<1>2. CASE ~ \E b \in Burst : bpc[b] \in Holding
  <2>1. Holders = {}
    BY <1>2 DEF Holders
  <2> QED
    BY <1>2, <2>1, FS_EmptySet DEF Held
<1> QED
  BY <1>1, <1>2

\* What the counter has to cover, but for the record about to be counted.
Load == Len(queue) + Held - Uncounted

\* The torn increment will not undercut the counter.
RegisterCovers == tel = "store" => pending <= telReg

\* BacklogCounted in terms of Held.
HeldCounted == Load <= pending /\ RegisterCovers

LEMMA HeldCountedIsBacklogCounted ==
  ASSUME SfTypeOK, OneBurst
  PROVE  HeldCounted <=> BacklogCounted
<1>1. Len(queue) \in Nat /\ Held \in Nat /\ Uncounted \in Nat /\ pending \in Nat
  BY DEF SfTypeOK, Held, Uncounted
<1> QED
  BY <1>1, HoldersCounted DEF HeldCounted, Load, RegisterCovers, BacklogCounted

LEMMA SfInitCounted == SfInit => HeldCounted
<1> SUFFICES ASSUME SfInit PROVE HeldCounted
  OBVIOUS
<1>1. Held = 0 /\ Len(queue) = 0
  BY DEF SfInit, Held, Holding
<1> QED
  BY <1>1 DEF SfInit, HeldCounted, Load, RegisterCovers, Uncounted

\* What a step of a burst does to Held is seen from that burst alone.
LEMMA HeldFollowsBurst ==
  ASSUME SfTypeOK, OneBurst, NEW b \in Burst, bpc[b] # "none",
         NEW l, Goto(b, l)
  PROVE  /\ Held = IF bpc[b] \in Holding THEN 1 ELSE 0
         /\ Held' = IF l \in Holding THEN 1 ELSE 0
<1>1. \A c \in Burst : c # b => bpc[c] = "none" /\ bpc'[c] = "none"
  BY DEF OneBurst, Goto, SfTypeOK
<1>2. bpc'[b] = l
  BY DEF Goto, SfTypeOK
<1>3. "none" \notin Holding
  BY DEF Holding
<1> QED
  BY <1>1, <1>2, <1>3 DEF Held

\* A step leaves the counter alone and adds nothing to the load; or telemetry
\* counts its record; or a burst counts one down that it no longer holds.
StepCounts ==
  \/ pending' = pending /\ Load' <= Load
  \/ pending' > pending /\ Load' <= Load + 1
  \/ pending' = (IF pending = 0 THEN 0 ELSE pending - 1) /\ Load' <= Load - 1

LEMMA StepsCount ==
  SfTypeOK /\ OneBurst /\ RegisterCovers /\ [SfNext]_sfVars
    => StepCounts /\ RegisterCovers'
<1> SUFFICES ASSUME SfTypeOK, OneBurst, RegisterCovers, [SfNext]_sfVars
             PROVE  StepCounts /\ RegisterCovers'
  OBVIOUS
<1>0. /\ pending \in Nat /\ telReg \in Nat /\ queue \in Seq(Record)
      /\ Len(queue) \in Nat /\ Held \in {0, 1} /\ Uncounted \in {0, 1}
  BY DEF SfTypeOK, Held, Uncounted
\* A step that touches none of the counted things.
<1>u. ASSUME UNCHANGED <<queue, pending, bpc>>,
             UNCHANGED telVars \/ (tel' \notin {"load", "store"} /\ Uncounted = 0)
      PROVE  StepCounts /\ RegisterCovers'
  <2>1. Held' = Held /\ Uncounted' = Uncounted /\ UNCHANGED <<queue, pending>>
    BY <1>u DEF Held, Uncounted, telVars
  <2>2. RegisterCovers'
    BY <1>u DEF RegisterCovers, telVars
  <2> QED
    BY <1>0, <2>1, <2>2 DEF StepCounts, Load
<1>1. CASE TelSample
  BY <1>1, <1>u DEF TelSample, burstVars, Uncounted
<1>2. CASE TelRoute
  BY <1>2, <1>u DEF TelRoute, burstVars, Uncounted
<1>3. CASE TelAppend
  <2>1. Uncounted = 0 /\ Held' = Held /\ pending' = pending /\ tel' # "store"
    BY <1>3 DEF TelAppend, Uncounted, Held, burstVars
  <2>2. CASE Put(telRecord) /\ tel' = "load"
    <3>1. Len(queue') = Len(queue) + 1
      BY <1>0, <2>2 DEF Put
    <3>2. Uncounted' = 1
      BY <2>2 DEF Uncounted
    <3> QED
      BY <1>0, <2>1, <3>1, <3>2 DEF StepCounts, Load, RegisterCovers
  <2>3. CASE UNCHANGED queue /\ tel' = "delay"
    BY <1>3, <2>1, <2>3, <1>u DEF TelAppend, burstVars
  <2> QED
    BY <1>3, <2>2, <2>3 DEF TelAppend
<1>4. CASE TelLoad
  BY <1>0, <1>4 DEF TelLoad, StepCounts, Load, RegisterCovers, Held, Uncounted, burstVars
<1>5. CASE TelStore
  <2>1. /\ pending' = telReg + 1 /\ Held' = Held /\ queue' = queue
        /\ Uncounted = 1 /\ Uncounted' = 0 /\ tel' # "store"
    BY <1>5 DEF TelStore, Held, Uncounted, burstVars
  <2>2. pending <= telReg
    BY <1>5 DEF TelStore, RegisterCovers
  <2> QED
    BY <1>0, <2>1, <2>2 DEF StepCounts, Load, RegisterCovers
<1>6. CASE MqttConnected \/ MqttDisconnected \/ PublishTask \/ Puback \/ WifiLost
  BY <1>6, <1>u
     DEF MqttConnected, MqttDisconnected, PublishTask, Puback, WifiLost, burstVars
<1>7. CASE OnReconnect
  <2>1. Held' = Held
    BY <1>7 DEF OnReconnect, Held, Holding, burstVars, SfTypeOK
  <2>2. UNCHANGED <<queue, pending, telVars>>
    BY <1>7 DEF OnReconnect
  <2> QED
    BY <1>0, <2>1, <2>2 DEF StepCounts, Load, RegisterCovers, Uncounted, telVars
<1>8. ASSUME NEW b \in Burst, BurstPop(b)
      PROVE  StepCounts /\ RegisterCovers'
  <2>1. Uncounted' = Uncounted /\ UNCHANGED <<pending, tel, telReg>>
    BY <1>8 DEF BurstPop, telVars, Uncounted
  <2>2. CASE Get /\ Goto(b, "publish")
    <3>1. Held = 0 /\ Held' = 1
      BY <1>8, <2>2, HeldFollowsBurst DEF BurstPop, Holding
    <3>2. Len(queue') = Len(queue) - 1
      BY <1>0, <2>2, HeadTailProperties DEF Get
    <3> QED
      BY <1>0, <2>1, <3>1, <3>2 DEF StepCounts, Load, RegisterCovers
  <2>3. CASE Goto(b, "notify") /\ UNCHANGED queue
    <3>1. Held = 0 /\ Held' = 0
      BY <1>8, <2>3, HeldFollowsBurst DEF BurstPop, Holding
    <3> QED
      BY <1>0, <2>1, <2>3, <3>1 DEF StepCounts, Load, RegisterCovers
  <2> QED
    BY <1>8, <2>2, <2>3 DEF BurstPop
<1>9. ASSUME NEW b \in Burst, BurstPublish(b)
      PROVE  StepCounts /\ RegisterCovers'
  <2>1. Uncounted' = Uncounted /\ UNCHANGED <<queue, pending, tel, telReg>>
    BY <1>9 DEF BurstPublish, telVars, Uncounted
  <2>2. PICK l \in {"puback", "requeue"} : Goto(b, l)
    BY <1>9 DEF BurstPublish
  <2>3. Held = 1 /\ Held' = 1
    BY <1>9, <2>2, HeldFollowsBurst DEF BurstPublish, Holding
  <2> QED
    BY <1>0, <2>1, <2>3 DEF StepCounts, Load, RegisterCovers
<1>10. ASSUME NEW b \in Burst, BurstPuback(b)
       PROVE  StepCounts /\ RegisterCovers'
  <2>1. /\ Uncounted' = Uncounted /\ UNCHANGED <<queue, tel, telReg>>
        /\ pending' = IF pending = 0 THEN 0 ELSE pending - 1
    BY <1>10 DEF BurstPuback, CountDelivered, telVars, Uncounted
  <2>2. Held = 1 /\ Held' = 0
    BY <1>10, HeldFollowsBurst DEF BurstPuback, CountDelivered, Holding
  <2> QED
    BY <1>0, <2>1, <2>2 DEF StepCounts, Load, RegisterCovers
<1>11. ASSUME NEW b \in Burst, BurstPubackTimeout(b)
       PROVE  StepCounts /\ RegisterCovers'
  <2>1. Uncounted' = Uncounted /\ UNCHANGED <<queue, pending, tel, telReg>>
    BY <1>11 DEF BurstPubackTimeout, telVars, Uncounted
  <2>2. Held = 1 /\ Held' = 1
    BY <1>11, HeldFollowsBurst DEF BurstPubackTimeout, Holding
  <2> QED
    BY <1>0, <2>1, <2>2 DEF StepCounts, Load, RegisterCovers
<1>12. ASSUME NEW b \in Burst, BurstRequeue(b)
       PROVE  StepCounts /\ RegisterCovers'
  <2>1. Uncounted' = Uncounted /\ UNCHANGED <<pending, tel, telReg>>
    BY <1>12 DEF BurstRequeue, telVars, Uncounted
  <2>2. Held = 1 /\ Held' = 0
    BY <1>12, HeldFollowsBurst DEF BurstRequeue, Holding
  <2>3. Len(queue') \in Nat /\ Len(queue') <= Len(queue) + 1
    BY <1>0, <1>12 DEF BurstRequeue, Put
  <2> QED
    BY <1>0, <2>1, <2>2, <2>3 DEF StepCounts, Load, RegisterCovers
<1>13. ASSUME NEW b \in Burst, BurstNotify(b) \/ BurstExit(b)
       PROVE  StepCounts /\ RegisterCovers'
  <2>1. Uncounted' = Uncounted /\ UNCHANGED <<queue, pending, tel, telReg>>
    BY <1>13 DEF BurstNotify, BurstExit, telVars, Uncounted
  <2>2. Held = 0 /\ Held' = 0
    BY <1>13, HeldFollowsBurst DEF BurstNotify, BurstExit, Holding
  <2> QED
    BY <1>0, <2>1, <2>2 DEF StepCounts, Load, RegisterCovers
<1>14. CASE UNCHANGED sfVars
  BY <1>14, <1>u DEF sfVars, burstVars
<1> QED
  BY <1>1, <1>2, <1>3, <1>4, <1>5, <1>6, <1>7, <1>8, <1>9, <1>10, <1>11,
     <1>12, <1>13, <1>14
     DEF SfNext, TelStep, BurstStep

LEMMA SfNextCounted ==
  SfTypeOK /\ OneBurst /\ HeldCounted /\ [SfNext]_sfVars => HeldCounted'
<1> SUFFICES ASSUME SfTypeOK, OneBurst, HeldCounted, [SfNext]_sfVars
             PROVE  HeldCounted'
  OBVIOUS
<1>1. StepCounts /\ RegisterCovers'
  BY StepsCount DEF HeldCounted
<1>2. pending \in Nat /\ Load \in Int /\ pending' \in Nat /\ Load' \in Int
  <2>1. SfTypeOK'
    BY SfNextTyped
  <2> QED
    BY <2>1 DEF SfTypeOK, Load, Held, Uncounted
<1> QED
  BY <1>1, <1>2 DEF StepCounts, HeldCounted

\* pending_records never undercounts the records on the card and in the burst's
\* hands, so a reconnect with a backlog never takes the "nothing to forward"
\* path, but for a record telemetry has appended and is about to count.
THEOREM BacklogAlwaysCounted == SfSpec => []BacklogCounted
<1> DEFINE Inv == SfTypeOK /\ OneBurst /\ HeldCounted
<1>1. SfInit => Inv
  BY SfInitTyped, SfInitOneBurst, SfInitCounted
<1>2. Inv /\ [SfNext]_sfVars => Inv'
  BY SfNextTyped, SfNextOneBurst, SfNextCounted
<1>3. Inv => BacklogCounted
  BY HeldCountedIsBacklogCounted
<1> QED
  BY <1>1, <1>2, <1>3, PTL DEF SfSpec

-----------------------------------------------------------------------------
(* No record is lost in silence. *)

\* The locals of the tasks are empty when they hold no record, so that nothing
\* is overwritten, and a burst that waits for a PUBACK has handed its record on.
LocalsSafe ==
  /\ tel \notin {"route", "append"} => telRecord = NoRecord
  /\ \A b \in Burst : bpc[b] \notin Holding => bRecord[b] = NoRecord
  /\ \A b \in Burst : bpc[b] = "puback" => bRecord[b] \in Sent

\* NoSilentLoss, one record at a time.
Kept(r) ==
  \/ r = telRecord
  \/ \E b \in Burst : r = bRecord[b]
  \/ r \in InSeq(queue)
  \/ r \in Sent
AllKept == \A r \in sampled : Kept(r)

LEMMA AllKeptIsNoSilentLoss == AllKept <=> NoSilentLoss
BY DEF AllKept, Kept, Sent, NoSilentLoss

LEMMA InSeqAppend ==
  ASSUME NEW s \in Seq(Record), NEW r \in Record
  PROVE  InSeq(Append(s, r)) = InSeq(s) \cup {r}
<1>1. \A x : x \in InSeq(Append(s, r)) => x \in InSeq(s) \cup {r}
  BY DEF InSeq
<1>2. InSeq(s) \subseteq InSeq(Append(s, r))
  <2> SUFFICES ASSUME NEW i \in 1 .. Len(s)
               PROVE  \E j \in 1 .. Len(Append(s, r)) : s[i] = Append(s, r)[j]
    BY DEF InSeq
  <2>1. i \in 1 .. Len(Append(s, r)) /\ Append(s, r)[i] = s[i]
    OBVIOUS
  <2> QED
    BY <2>1
<1>3. r \in InSeq(Append(s, r))
  <2>1. /\ Len(s) + 1 \in 1 .. Len(Append(s, r))
        /\ Append(s, r)[Len(s) + 1] = r
    OBVIOUS
  <2> QED
    BY <2>1 DEF InSeq
<1> QED
  BY <1>1, <1>2, <1>3

LEMMA InSeqTail ==
  ASSUME NEW s \in Seq(Record), s # <<>>
  PROVE  InSeq(s) \subseteq {Head(s)} \cup InSeq(Tail(s))
<1> SUFFICES ASSUME NEW i \in 1 .. Len(s)
             PROVE  s[i] \in {Head(s)} \cup InSeq(Tail(s))
  BY DEF InSeq
<1>1. CASE i = 1
  BY <1>1
<1>2. CASE i # 1
  <2>1. i - 1 \in 1 .. Len(Tail(s)) /\ Tail(s)[i - 1] = s[i]
    BY <1>2
  <2> QED
    BY <2>1 DEF InSeq
<1> QED
  BY <1>1, <1>2

LEMMA SfInitKept == SfInit => LocalsSafe /\ AllKept
BY DEF SfInit, LocalsSafe, AllKept, Holding

\* Nothing that was handed to the client disappears: it moves from the publish
\* queue to the outbox to the broker, or is dropped with a warning.
LEMMA SentStays ==
  ASSUME SfTypeOK, [SfNext]_sfVars
  PROVE  Sent \subseteq Sent'
<1> USE DEF SfTypeOK
<1>u. ASSUME UNCHANGED <<pubQueue, outbox, delivered>>, dropped \subseteq dropped'
      PROVE  Sent \subseteq Sent'
  BY <1>u DEF Sent, InSeq
<1>a. ASSUME NEW r \in Record, Enqueue(r), UNCHANGED <<outbox, delivered, dropped>>
      PROVE  Sent \subseteq Sent'
  <2>1. InSeq(pubQueue)' = InSeq(pubQueue) \cup {r}
    <3>1. pubQueue' = Append(pubQueue, r)
      BY <1>a DEF Enqueue
    <3>2. InSeq(pubQueue') = InSeq(pubQueue) \cup {r}
      BY <3>1, InSeqAppend
    <3> QED
      BY <3>2 DEF InSeq
  <2>2. InSeq(outbox)' = InSeq(outbox)
    BY <1>a DEF InSeq
  <2> QED
    BY <1>a, <2>1, <2>2 DEF Sent
<1>1. CASE TelRoute
  <2>1. CASE wifi /\ CanEnqueue
    BY <1>1, <2>1, <1>a DEF TelRoute, historyVars
  <2>2. CASE ~(wifi /\ CanEnqueue)
    BY <1>1, <2>2, <1>u DEF TelRoute, historyVars
  <2> QED
    BY <2>1, <2>2
<1>2. ASSUME NEW b \in Burst, BurstPublish(b)
      PROVE  Sent \subseteq Sent'
  <2>0. bRecord[b] \in Record
    BY <1>2 DEF BurstPublish, Holding
  <2>1. CASE CanEnqueue
    BY <1>2, <2>0, <2>1, <1>a DEF BurstPublish, historyVars
  <2>2. CASE ~CanEnqueue
    BY <1>2, <2>2, <1>u DEF BurstPublish, historyVars
  <2> QED
    BY <2>1, <2>2
<1>3. CASE PublishTask
  <2>1. InSeq(pubQueue) \subseteq {Head(pubQueue)} \cup InSeq(Tail(pubQueue))
    BY <1>3, InSeqTail DEF PublishTask
  <2>2. Head(pubQueue) \in Record /\ pubQueue' = Tail(pubQueue) /\ delivered' = delivered
    BY <1>3, HeadTailProperties DEF PublishTask
  <2>3. InSeq(pubQueue)' = InSeq(Tail(pubQueue))
    BY <2>2 DEF InSeq
  <2>4. \/ InSeq(outbox)' = InSeq(outbox) \cup {Head(pubQueue)} /\ dropped' = dropped
        \/ InSeq(outbox)' = InSeq(outbox) /\ dropped' = dropped \cup {Head(pubQueue)}
    <3>1. CASE outbox' = Append(outbox, Head(pubQueue)) /\ UNCHANGED dropped
      <4>1. InSeq(outbox') = InSeq(outbox) \cup {Head(pubQueue)}
        BY <2>2, <3>1, InSeqAppend
      <4> QED
        BY <3>1, <4>1 DEF InSeq
    <3>2. CASE UNCHANGED outbox /\ dropped' = dropped \cup {Head(pubQueue)}
      BY <3>2 DEF InSeq
    <3> QED
      BY <1>3, <3>1, <3>2 DEF PublishTask
  <2> QED
    BY <2>1, <2>2, <2>3, <2>4 DEF Sent
<1>4. CASE Puback
  <2>1. InSeq(outbox) \subseteq {Head(outbox)} \cup InSeq(Tail(outbox))
    BY <1>4, InSeqTail DEF Puback
  <2>2. /\ InSeq(outbox)' = InSeq(Tail(outbox)) /\ InSeq(pubQueue)' = InSeq(pubQueue)
        /\ delivered' = delivered \cup {Head(outbox)} /\ dropped' = dropped
    BY <1>4 DEF Puback, InSeq
  <2> QED
    BY <2>1, <2>2 DEF Sent
<1>5. CASE TelSample \/ TelAppend \/ TelLoad \/ TelStore
  BY <1>5, <1>u DEF TelSample, TelAppend, TelLoad, TelStore, mqttVars, historyVars
<1>6. CASE MqttConnected \/ MqttDisconnected \/ WifiLost \/ OnReconnect
  BY <1>6, <1>u DEF MqttConnected, MqttDisconnected, WifiLost, OnReconnect, mqttVars,
                    historyVars
<1>7. ASSUME NEW b \in Burst,
             BurstPop(b) \/ BurstPuback(b) \/ BurstPubackTimeout(b)
               \/ BurstRequeue(b) \/ BurstNotify(b) \/ BurstExit(b)
      PROVE  Sent \subseteq Sent'
  BY <1>7, <1>u DEF BurstPop, BurstPuback, CountDelivered, BurstPubackTimeout, BurstRequeue,
                    BurstNotify, BurstExit, mqttVars, historyVars
<1>8. CASE UNCHANGED sfVars
  BY <1>8, <1>u DEF sfVars, mqttVars, historyVars
<1> QED
  BY <1>1, <1>2, <1>3, <1>4, <1>5, <1>6, <1>7, <1>8
     DEF SfNext, TelStep, BurstStep

LEMMA SfNextLocalsSafe ==
  SfTypeOK /\ LocalsSafe /\ [SfNext]_sfVars => LocalsSafe'
<1> SUFFICES ASSUME SfTypeOK, LocalsSafe, [SfNext]_sfVars
             PROVE  LocalsSafe'
  OBVIOUS
<1>0. Sent \subseteq Sent'
  BY SentStays
<1>t. ASSUME UNCHANGED <<bpc, bRecord>>,
             tel' \notin {"route", "append"} => telRecord' = NoRecord
      PROVE  LocalsSafe'
  BY <1>0, <1>t DEF LocalsSafe
\* A burst that goes on to l keeps its record there, or has let it go.
<1>b. ASSUME NEW b \in Burst, NEW l, Goto(b, l), UNCHANGED telVars,
             \A c \in Burst : c # b => bRecord'[c] = bRecord[c],
             l \notin Holding => bRecord'[b] = NoRecord,
             l = "puback" => bRecord'[b] \in Sent'
      PROVE  LocalsSafe'
  <2>1. /\ bpc'[b] = l
        /\ \A c \in Burst : c # b => bpc'[c] = bpc[c]
    BY <1>b DEF Goto, SfTypeOK
  <2>2. ASSUME NEW c \in Burst, bpc'[c] \notin Holding
        PROVE  bRecord'[c] = NoRecord
    BY <1>b, <2>1, <2>2 DEF LocalsSafe
  <2>3. ASSUME NEW c \in Burst, bpc'[c] = "puback"
        PROVE  bRecord'[c] \in Sent'
    BY <1>b, <1>0, <2>1, <2>3 DEF LocalsSafe
  <2> QED
    BY <1>b, <2>2, <2>3 DEF LocalsSafe, telVars
<1>1. CASE TelSample \/ TelStep
  BY <1>1, <1>t DEF LocalsSafe, TelSample, TelStep, TelRoute, TelAppend, TelLoad,
                    TelStore, burstVars
<1>2. CASE MqttConnected \/ MqttDisconnected \/ PublishTask \/ Puback \/ WifiLost
  BY <1>2, <1>t DEF LocalsSafe, MqttConnected, MqttDisconnected, PublishTask, Puback,
                    WifiLost, burstVars, telVars
<1>3. CASE OnReconnect
  <2>1. UNCHANGED <<telVars, bRecord>>
    BY <1>3 DEF OnReconnect, burstVars
  <2>2. CASE UNCHANGED bpc
    BY <2>1, <2>2, <1>t DEF LocalsSafe, telVars
  <2>3. ASSUME NEW b \in Burst, bpc[b] = "none", bpc' = [bpc EXCEPT ![b] = "pop"]
        PROVE  LocalsSafe'
    BY <2>1, <2>3, <1>b DEF LocalsSafe, Goto, Holding
  <2> QED
    BY <1>3, <2>2, <2>3 DEF OnReconnect, burstVars
<1>4. ASSUME NEW b \in Burst, BurstPop(b)
      PROVE  LocalsSafe'
  <2>1. bRecord[b] = NoRecord
    BY <1>4 DEF BurstPop, LocalsSafe, Holding
  <2>2. CASE bRecord' = [bRecord EXCEPT ![b] = Head(queue)] /\ Goto(b, "publish")
    BY <1>4, <2>2, <1>b DEF BurstPop, Holding, SfTypeOK
  <2>3. CASE Goto(b, "notify") /\ UNCHANGED bRecord
    BY <1>4, <2>1, <2>3, <1>b DEF BurstPop
  <2> QED
    BY <1>4, <2>2, <2>3 DEF BurstPop
<1>5. ASSUME NEW b \in Burst, BurstPublish(b)
      PROVE  LocalsSafe'
  <2>1. CASE CanEnqueue
    <3>1. bRecord'[b] \in Sent'
      <4>1. bRecord[b] \in Record /\ bRecord' = bRecord
        BY <1>5 DEF BurstPublish, SfTypeOK, Holding
      <4>2. pubQueue' = Append(pubQueue, bRecord[b])
        BY <1>5, <2>1 DEF BurstPublish, Enqueue
      <4>3. bRecord[b] \in InSeq(pubQueue')
        BY <4>1, <4>2, InSeqAppend DEF SfTypeOK
      <4> QED
        BY <4>1, <4>3 DEF Sent, InSeq
    <3> QED
      BY <1>5, <2>1, <3>1, <1>b DEF BurstPublish, Holding
  <2>2. CASE ~CanEnqueue
    BY <1>5, <2>2, <1>b DEF BurstPublish, Holding
  <2> QED
    BY <2>1, <2>2
<1>6. ASSUME NEW b \in Burst, BurstPuback(b)
      PROVE  LocalsSafe'
  BY <1>6, <1>b DEF BurstPuback, CountDelivered, LetGo, SfTypeOK
<1>7. ASSUME NEW b \in Burst, BurstPubackTimeout(b)
      PROVE  LocalsSafe'
  BY <1>7, <1>b DEF BurstPubackTimeout, Holding
<1>8. ASSUME NEW b \in Burst, BurstRequeue(b)
      PROVE  LocalsSafe'
  BY <1>8, <1>b DEF BurstRequeue, LetGo, SfTypeOK
<1>9. ASSUME NEW b \in Burst, BurstNotify(b) \/ BurstExit(b)
      PROVE  LocalsSafe'
  <2>1. bRecord[b] = NoRecord /\ UNCHANGED <<bRecord, telVars>>
    BY <1>9 DEF BurstNotify, BurstExit, LocalsSafe, Holding
  <2>2. Goto(b, "exit") \/ Goto(b, "none")
    BY <1>9 DEF BurstNotify, BurstExit
  <2> QED
    BY <2>1, <2>2, <1>b
<1>10. CASE UNCHANGED sfVars
  BY <1>10, <1>t DEF LocalsSafe, sfVars, burstVars, telVars
<1> QED
  BY <1>1, <1>2, <1>3, <1>4, <1>5, <1>6, <1>7, <1>8, <1>9, <1>10 DEF SfNext, BurstStep

\* A record that is somewhere, or had its end, stays so.
LEMMA KeptStays ==
  ASSUME SfTypeOK, LocalsSafe, [SfNext]_sfVars, NEW x \in Record, Kept(x)
  PROVE  Kept(x)'
<1>0. Sent \subseteq Sent'
  BY SentStays
<1>1. NoRecord # x
  BY RecordAssumption
\* A step that moves no record of a task or of the card.
<1>u. ASSUME UNCHANGED <<telRecord, bRecord, queue>>
      PROVE  Kept(x)'
  BY <1>0, <1>u DEF Kept, InSeq
\* Putting r on the card keeps r and all that was there.
<1>p. ASSUME NEW r \in Record, Put(r)
      PROVE  InSeq(queue)' = InSeq(queue) \cup {r}
  <2>1. queue' = Append(queue, r)
    BY <1>p DEF Put
  <2>2. InSeq(queue') = InSeq(queue) \cup {r}
    BY <2>1, InSeqAppend DEF SfTypeOK
  <2> QED
    BY <2>2 DEF InSeq
<1>2. CASE TelSample
  <2>1. telRecord = NoRecord /\ bRecord' = bRecord /\ InSeq(queue)' = InSeq(queue)
    BY <1>2 DEF TelSample, LocalsSafe, burstVars, InSeq
  <2> QED
    BY <1>0, <1>1, <2>1 DEF Kept
<1>3. CASE TelRoute
  <2>1. bRecord' = bRecord /\ InSeq(queue)' = InSeq(queue)
    BY <1>3 DEF TelRoute, burstVars, historyVars, InSeq
  <2>2. CASE wifi /\ CanEnqueue
    <3>1. telRecord \in Record /\ pubQueue' = Append(pubQueue, telRecord)
      BY <1>3, <2>2 DEF TelRoute, Enqueue, SfTypeOK
    <3>2. telRecord \in InSeq(pubQueue')
      BY <3>1, InSeqAppend DEF SfTypeOK
    <3>3. telRecord \in Sent'
      BY <3>2 DEF Sent, InSeq
    <3> QED
      BY <1>0, <2>1, <3>3 DEF Kept
  <2>3. CASE ~(wifi /\ CanEnqueue)
    BY <1>3, <2>3, <1>u DEF TelRoute, burstVars, historyVars
  <2> QED
    BY <2>2, <2>3
<1>4. CASE TelAppend
  <2>1. bRecord' = bRecord /\ telRecord \in Record
    BY <1>4 DEF TelAppend, burstVars, SfTypeOK
  <2>2. CASE Put(telRecord)
    BY <1>0, <1>p, <2>1, <2>2 DEF Kept
  <2>3. CASE dropped' = dropped \cup {telRecord} /\ UNCHANGED queue
    <3>1. telRecord \in Sent' /\ InSeq(queue)' = InSeq(queue)
      BY <2>3 DEF Sent, InSeq
    <3> QED
      BY <1>0, <2>1, <3>1 DEF Kept
  <2> QED
    BY <1>4, <2>2, <2>3 DEF TelAppend
<1>5. CASE TelLoad \/ TelStore
  BY <1>5, <1>u DEF TelLoad, TelStore, burstVars, historyVars
<1>6. CASE MqttConnected \/ MqttDisconnected \/ PublishTask \/ Puback \/ WifiLost
  BY <1>6, <1>u DEF MqttConnected, MqttDisconnected, PublishTask, Puback, WifiLost,
                    burstVars, telVars, historyVars
<1>7. CASE OnReconnect
  BY <1>7, <1>u DEF OnReconnect, burstVars, telVars, historyVars
<1>8. ASSUME NEW b \in Burst, BurstPop(b)
      PROVE  Kept(x)'
  <2>1. telRecord' = telRecord /\ bRecord[b] = NoRecord
    BY <1>8 DEF BurstPop, telVars, historyVars, LocalsSafe, Holding
  <2>2. CASE Get /\ bRecord' = [bRecord EXCEPT ![b] = Head(queue)]
    <3>1. InSeq(queue) \subseteq {Head(queue)} \cup InSeq(Tail(queue))
      BY <2>2, InSeqTail DEF Get, SfTypeOK
    <3>2. InSeq(queue)' = InSeq(Tail(queue))
      BY <2>2 DEF Get, InSeq
    <3>3. bRecord'[b] = Head(queue) /\ \A c \in Burst : c # b => bRecord'[c] = bRecord[c]
      BY <2>2 DEF SfTypeOK
    <3> QED
      BY <1>0, <1>1, <2>1, <3>1, <3>2, <3>3 DEF Kept
  <2>3. CASE UNCHANGED <<queue, bRecord>>
    BY <2>1, <2>3, <1>u
  <2> QED
    BY <1>8, <2>2, <2>3 DEF BurstPop
<1>9. ASSUME NEW b \in Burst,
             BurstPublish(b) \/ BurstPubackTimeout(b) \/ BurstNotify(b) \/ BurstExit(b)
      PROVE  Kept(x)'
  BY <1>9, <1>u DEF BurstPublish, BurstPubackTimeout, BurstNotify, BurstExit, telVars,
                    historyVars
<1>10. ASSUME NEW b \in Burst, BurstPuback(b)
       PROVE  Kept(x)'
  <2>1. bRecord[b] \in Sent'
    BY <1>0, <1>10 DEF BurstPuback, CountDelivered, LocalsSafe
  <2>2. /\ telRecord' = telRecord /\ InSeq(queue)' = InSeq(queue)
        /\ \A c \in Burst : c # b => bRecord'[c] = bRecord[c]
    BY <1>10 DEF BurstPuback, CountDelivered, LetGo, telVars, InSeq, SfTypeOK
  <2> QED
    BY <1>0, <2>1, <2>2 DEF Kept
<1>11. ASSUME NEW b \in Burst, BurstRequeue(b)
       PROVE  Kept(x)'
  <2>1. /\ telRecord' = telRecord /\ bRecord[b] \in Record
        /\ \A c \in Burst : c # b => bRecord'[c] = bRecord[c]
    BY <1>11 DEF BurstRequeue, LetGo, telVars, SfTypeOK, Holding
  <2>2. InSeq(queue) \subseteq InSeq(queue)' /\ bRecord[b] \in InSeq(queue)' \cup Sent'
    <3>1. CASE Put(bRecord[b])
      BY <1>p, <2>1, <3>1
    <3>2. CASE dropped' = dropped \cup {bRecord[b]} /\ UNCHANGED queue
      BY <3>2 DEF Sent, InSeq
    <3> QED
      BY <1>11, <3>1, <3>2 DEF BurstRequeue
  <2> QED
    BY <1>0, <2>1, <2>2 DEF Kept
<1>12. CASE UNCHANGED sfVars
  BY <1>12, <1>u DEF sfVars, burstVars, telVars, historyVars
<1> QED
  BY <1>2, <1>3, <1>4, <1>5, <1>6, <1>7, <1>8, <1>9, <1>10, <1>11, <1>12
     DEF SfNext, TelStep, BurstStep

\* A record that was not sampled before the step is the one just built.
LEMMA SampledIsKept ==
  ASSUME [SfNext]_sfVars, NEW x \in sampled', x \notin sampled
  PROVE  Kept(x)'
<1>1. CASE TelSample
  BY <1>1 DEF TelSample, Kept
<1>2. CASE TelStep
  BY <1>2 DEF TelStep, TelRoute, TelAppend, TelLoad, TelStore, historyVars
<1>3. CASE MqttConnected \/ MqttDisconnected \/ PublishTask \/ Puback \/ WifiLost \/ OnReconnect
  BY <1>3 DEF MqttConnected, MqttDisconnected, PublishTask, Puback, WifiLost, OnReconnect,
              historyVars
<1>4. ASSUME NEW b \in Burst, BurstStep(b)
      PROVE  FALSE
  BY <1>4 DEF BurstStep, BurstPop, BurstPublish, BurstPuback, CountDelivered,
              BurstPubackTimeout, BurstRequeue, BurstNotify, BurstExit, historyVars
<1>5. CASE UNCHANGED sfVars
  BY <1>5 DEF sfVars, historyVars
<1> QED
  BY <1>1, <1>2, <1>3, <1>4, <1>5 DEF SfNext

LEMMA SfNextKept ==
  SfTypeOK /\ LocalsSafe /\ AllKept /\ [SfNext]_sfVars => AllKept'
<1> SUFFICES ASSUME SfTypeOK, LocalsSafe, AllKept, [SfNext]_sfVars,
                    NEW x \in sampled'
             PROVE  Kept(x)'
  BY DEF AllKept
<1>1. CASE x \in sampled
  <2>1. x \in Record /\ Kept(x)
    BY <1>1 DEF AllKept, SfTypeOK
  <2> QED
    BY <2>1, KeptStays
<1>2. CASE x \notin sampled
  BY <1>2, SampledIsKept
<1> QED
  BY <1>1, <1>2

\* A record is given up only where a call fails or the publish task drops it:
\* however the telemetry task, a burst, the publish task and the network
\* interleave, each other record is in a task's hands, on the card, with the
\* client, or delivered.
THEOREM NoSilentLossAlways == SfSpec => []NoSilentLoss
<1> DEFINE Inv == SfTypeOK /\ LocalsSafe /\ AllKept
<1>1. SfInit => Inv
  BY SfInitTyped, SfInitKept
<1>2. Inv /\ [SfNext]_sfVars => Inv'
  BY SfNextTyped, SfNextLocalsSafe, SfNextKept
<1>3. Inv => NoSilentLoss
  BY AllKeptIsNoSilentLoss
<1> QED
  BY <1>1, <1>2, <1>3, PTL DEF SfSpec

\* A burst counts down its own record only, which it has handed on, and what
\* was handed on stays accounted for.
LEMMA SfNextCountedSent ==
  SfTypeOK /\ LocalsSafe /\ CountedWasSent /\ [SfNext]_sfVars => CountedWasSent'
<1> SUFFICES ASSUME SfTypeOK, LocalsSafe, CountedWasSent, [SfNext]_sfVars
             PROVE  CountedWasSent'
  OBVIOUS
<1>0. Sent \subseteq Sent'
  BY SentStays
<1>u. ASSUME UNCHANGED counted PROVE CountedWasSent'
  BY <1>0, <1>u DEF CountedWasSent
<1>1. ASSUME NEW b \in Burst, BurstPuback(b)
      PROVE  CountedWasSent'
  <2>1. bRecord[b] \in Sent /\ counted' = counted \cup {bRecord[b]}
    BY <1>1 DEF BurstPuback, CountDelivered, LocalsSafe
  <2> QED
    BY <1>0, <2>1 DEF CountedWasSent
<1>2. ASSUME NEW b \in Burst, BurstStep(b), ~BurstPuback(b)
      PROVE  UNCHANGED counted
  BY <1>2 DEF BurstStep, BurstPop, BurstPublish, BurstPubackTimeout, BurstRequeue,
              BurstNotify, BurstExit, historyVars
<1>3. CASE TelSample \/ TelStep
  BY <1>3, <1>u DEF TelSample, TelStep, TelRoute, TelAppend, TelLoad, TelStore,
                    historyVars
<1>4. CASE MqttConnected \/ MqttDisconnected \/ PublishTask \/ Puback
  BY <1>4, <1>u DEF MqttConnected, MqttDisconnected, PublishTask, Puback, historyVars
<1>5. CASE WifiLost \/ OnReconnect
  BY <1>5, <1>u DEF WifiLost, OnReconnect, historyVars
<1>6. CASE UNCHANGED sfVars
  BY <1>6, <1>u DEF sfVars, historyVars
<1> QED
  BY <1>1, <1>2, <1>3, <1>4, <1>5, <1>6, <1>u DEF SfNext

\* What the decrement of pending_records is worth: a record counted down is at
\* the broker, in the client, or given up by the publish task with a warning.
\* That it need not be one of the first two is the finding of store_forward_token.
THEOREM CountedWasSentAlways == SfSpec => []CountedWasSent
<1> DEFINE Inv == SfTypeOK /\ LocalsSafe /\ CountedWasSent
<1>1. SfInit => Inv
  BY SfInitTyped, SfInitKept DEF SfInit, CountedWasSent
<1>2. Inv /\ [SfNext]_sfVars => Inv'
  BY SfNextTyped, SfNextLocalsSafe, SfNextCountedSent
<1> QED
  BY <1>1, <1>2, PTL DEF SfSpec
=============================================================================
