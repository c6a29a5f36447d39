---------------------------- MODULE StoreForward ----------------------------
(***************************************************************************)
(* Telemetry from its sampling to the broker, within one boot:             *)
(*   tasks/task_telemetry.c   samples, publishes or queues to the card;    *)
(*   net/store_forward.c      the one-shot burst that drains the card;     *)
(*   net/mqtt_client.c        publish queue, publish task, PUBACKs;        *)
(*   net/wifi_manager.c       the Wi-Fi flag and the burst's trigger.      *)
(*                                                                         *)
(* The card is the unread part of TelemetryQueue, whose operations are     *)
(* atomic (SdStorage implements it); a call may also fail.  Tasks share    *)
(* g_rtc_state.pending_records without a lock: the telemetry task's ++ is  *)
(* a load and a store that the burst may preempt.  The burst's own -- runs *)
(* at a higher priority than telemetry on the same core, and is one step.  *)
(*                                                                         *)
(* esp-mqtt is outside src/: an outbox that keeps a QoS-1 message until    *)
(* its PUBACK, in order, and a limit on its memory.  The broker stores a   *)
(* message at the latest when its PUBACK is received.                      *)
(***************************************************************************)
EXTENDS Naturals, Sequences, FiniteSets

CONSTANTS
  Record,          \* the telemetry records
  Burst,           \* identities for burst tasks, more than may run at once
  NoRecord,        \* "no record in hand"
  PublishDepth,    \* MQTT_PUBLISH_QUEUE_DEPTH
  OutboxLimit,     \* messages esp-mqtt has memory for
  CallsMayFail     \* may a call of the SD driver, or xTaskCreate, fail?

ASSUME RecordAssumption == NoRecord \notin Record
ASSUME DepthAssumption == PublishDepth \in Nat /\ OutboxLimit \in Nat
ASSUME FailAssumption == CallsMayFail \in BOOLEAN

VARIABLES
  queue,           \* the unread records on the card, oldest first
  pending,         \* g_rtc_state.pending_records
  wifi,            \* wifi_manager.c: s_connected
  mqttConn,        \* mqtt_client.c: s_connected
  pubQueue,        \* s_publish_queue
  outbox,          \* esp-mqtt's outbox
  puback,          \* count of the binary semaphore s_puback_sem
  burstRunning,    \* s_burst_running
  syncDone,        \* power_fsm.c: s_sync_done
  tel,             \* where the telemetry task is
  telRecord,       \* the record it has built
  telReg,          \* its register: the pending_records it loaded
  bpc,             \* where each burst task is
  bRecord,         \* the record each burst task popped
  sampled,         \* history: the records telemetry has built
  delivered,       \* history: the records the broker has
  counted,         \* history: the records a burst counted as delivered
  dropped          \* history: the records given up, with an error at most

telVars == <<tel, telRecord, telReg>>
burstVars == <<bpc, bRecord, burstRunning>>
mqttVars == <<mqttConn, pubQueue, outbox, puback>>
historyVars == <<sampled, delivered, counted, dropped>>
sfVars == <<queue, pending, wifi, mqttVars, burstVars, syncDone, telVars, historyVars>>

InSeq(s) == {s[i] : i \in 1 .. Len(s)}

\* The places of a burst between its pop and its decrement.
Holding == {"publish", "puback", "requeue"}
Holders == {b \in Burst : bpc[b] \in Holding}

SfTypeOK ==
  /\ queue \in Seq(Record) /\ pending \in Nat
  /\ wifi \in BOOLEAN /\ mqttConn \in BOOLEAN
  /\ pubQueue \in Seq(Record) /\ outbox \in Seq(Record) /\ puback \in 0 .. 1
  /\ burstRunning \in BOOLEAN /\ syncDone \in BOOLEAN
  /\ tel \in {"delay", "route", "append", "load", "store"}
  /\ telRecord \in Record \cup {NoRecord}
  /\ telReg \in Nat
  /\ bpc \in [Burst -> {"none", "pop", "notify", "exit"} \cup Holding]
  /\ bRecord \in [Burst -> Record \cup {NoRecord}]
  /\ sampled \subseteq Record /\ delivered \subseteq Record
  /\ counted \subseteq Record /\ dropped \subseteq Record
  /\ tel \in {"route", "append"} => telRecord \in Record
  /\ \A b \in Burst : bpc[b] \in Holding => bRecord[b] \in Record

SfInit ==
  /\ queue = <<>> /\ pending = 0 /\ wifi = FALSE
  /\ mqttConn = FALSE /\ pubQueue = <<>> /\ outbox = <<>> /\ puback = 0
  /\ burstRunning = FALSE /\ syncDone = FALSE
  /\ tel = "delay" /\ telRecord = NoRecord /\ telReg = 0
  /\ bpc = [b \in Burst |-> "none"] /\ bRecord = [b \in Burst |-> NoRecord]
  /\ sampled = {} /\ delivered = {} /\ counted = {} /\ dropped = {}

-----------------------------------------------------------------------------
(* The card: TelemetryQueue's Put and Get, as seen by who never looks back.  *)

Put(r) == queue' = Append(queue, r)
Get == queue # <<>> /\ queue' = Tail(queue)

(* mqtt_client_publish(), called by the telemetry task and by the burst. *)

CanEnqueue == mqttConn /\ Len(pubQueue) < PublishDepth
Enqueue(r) == pubQueue' = Append(pubQueue, r)

-----------------------------------------------------------------------------
(* The telemetry task.  Records carry a time stamp, so each is sampled once; *)
(* a sample skipped for want of a gauge reading changes nothing.             *)

TelSample ==
  /\ tel = "delay"
  /\ \E r \in Record \ sampled :
       /\ telRecord' = r
       /\ sampled' = sampled \cup {r}
  /\ tel' = "route"
  /\ UNCHANGED <<queue, pending, wifi, mqttVars, burstVars, syncDone, telReg,
                 delivered, counted, dropped>>

\* wifi_is_connected() is looked at first, the client only if Wi-Fi is up.
TelRoute ==
  /\ tel = "route"
  /\ IF wifi /\ CanEnqueue
     THEN /\ Enqueue(telRecord)
          /\ tel' = "delay"
          /\ telRecord' = NoRecord
     ELSE /\ tel' = "append"
          /\ UNCHANGED <<pubQueue, telRecord>>
  /\ UNCHANGED <<queue, pending, wifi, mqttConn, outbox, puback, burstVars,
                 syncDone, telReg, historyVars>>

TelAppend ==
  /\ tel = "append"
  /\ \/ /\ Put(telRecord)
        /\ tel' = "load"
        /\ UNCHANGED dropped
     \/ /\ CallsMayFail                         \* logged and forgotten
        /\ tel' = "delay"
        /\ dropped' = dropped \cup {telRecord}
        /\ UNCHANGED queue
  /\ telRecord' = NoRecord
  /\ UNCHANGED <<pending, wifi, mqttVars, burstVars, syncDone, telReg,
                 sampled, delivered, counted>>

TelLoad ==
  /\ tel = "load"
  /\ telReg' = pending
  /\ tel' = "store"
  /\ UNCHANGED <<queue, pending, wifi, mqttVars, burstVars, syncDone,
                 telRecord, historyVars>>

TelStore ==
  /\ tel = "store"
  /\ pending' = telReg + 1
  /\ telReg' = 0
  /\ tel' = "delay"
  /\ UNCHANGED <<queue, wifi, mqttVars, burstVars, syncDone, telRecord,
                 historyVars>>

-----------------------------------------------------------------------------
(* The MQTT client. *)

MqttConnected ==
  /\ wifi /\ ~mqttConn
  /\ mqttConn' = TRUE
  /\ UNCHANGED <<queue, pending, wifi, pubQueue, outbox, puback, burstVars,
                 syncDone, telVars, historyVars>>

\* The broker or the network went away; Wi-Fi may be up or down.
MqttDisconnected ==
  /\ mqttConn
  /\ mqttConn' = FALSE
  /\ UNCHANGED <<queue, pending, wifi, pubQueue, outbox, puback, burstVars,
                 syncDone, telVars, historyVars>>

\* The publish task takes a message off the queue.  It drops it when not
\* connected, and only logs that esp_mqtt_client_publish() refused it.
PublishTask ==
  /\ pubQueue # <<>>
  /\ pubQueue' = Tail(pubQueue)
  /\ IF mqttConn /\ Len(outbox) < OutboxLimit
     THEN outbox' = Append(outbox, Head(pubQueue)) /\ UNCHANGED dropped
     ELSE UNCHANGED outbox /\ dropped' = dropped \cup {Head(pubQueue)}
  /\ UNCHANGED <<queue, pending, wifi, mqttConn, puback, burstVars, syncDone,
                 telVars, sampled, delivered, counted>>

\* MQTT_EVENT_PUBLISHED for the oldest message; a binary semaphore keeps one
\* token however many arrive.
Puback ==
  /\ mqttConn /\ outbox # <<>>
  /\ delivered' = delivered \cup {Head(outbox)}
  /\ outbox' = Tail(outbox)
  /\ puback' = 1
  /\ UNCHANGED <<queue, pending, wifi, mqttConn, pubQueue, burstVars, syncDone,
                 telVars, sampled, counted, dropped>>

-----------------------------------------------------------------------------
(* Wi-Fi events (WifiManager has the handlers and what leads to them).  An   *)
(* IP_EVENT_STA_GOT_IP, the first or one for a new address, calls            *)
(* store_forward_on_reconnect().                                             *)

WifiLost ==
  /\ wifi
  /\ wifi' = FALSE
  /\ UNCHANGED <<queue, pending, mqttVars, burstVars, syncDone, telVars,
                 historyVars>>

\* Bug: the guard on a burst in progress is missing.
MutOnReconnect ==
  /\ wifi' = TRUE
  /\ \/ /\ pending = 0
        /\ syncDone' = TRUE
        /\ UNCHANGED burstVars
     \/ /\ pending # 0
        /\ \E b \in Burst : bpc[b] = "none" /\ bpc' = [bpc EXCEPT ![b] = "pop"]
        /\ burstRunning' = TRUE
        /\ UNCHANGED <<syncDone, bRecord>>
  /\ UNCHANGED <<queue, pending, mqttVars, telVars, historyVars>>

OnReconnect ==
  /\ wifi' = TRUE
  /\ \/ /\ burstRunning                        \* already in progress
        /\ UNCHANGED <<burstVars, syncDone>>
     \/ /\ ~burstRunning /\ pending = 0        \* nothing to forward
        /\ syncDone' = TRUE
        /\ UNCHANGED burstVars
     \/ /\ ~burstRunning /\ pending # 0
        /\ \E b \in Burst : bpc[b] = "none" /\ bpc' = [bpc EXCEPT ![b] = "pop"]
        /\ burstRunning' = TRUE
        /\ UNCHANGED <<syncDone, bRecord>>
     \/ /\ ~burstRunning /\ pending # 0        \* xTaskCreatePinnedToCore fails
        /\ CallsMayFail
        /\ syncDone' = TRUE
        /\ UNCHANGED burstVars
  /\ UNCHANGED <<queue, pending, mqttVars, telVars, historyVars>>

-----------------------------------------------------------------------------
(* The burst task: pop, publish, wait for a PUBACK, decrement; it ends on an *)
(* empty queue or on the first error.                                        *)

Goto(b, l) == bpc' = [bpc EXCEPT ![b] = l]
LetGo(b) == bRecord' = [bRecord EXCEPT ![b] = NoRecord]

\* Bug: the pop counts the record down at once; its delivery does so again.
MutBurstPop(b) ==
  /\ bpc[b] = "pop"
  /\ \/ /\ Get
        /\ bRecord' = [bRecord EXCEPT ![b] = Head(queue)]
        /\ pending' = IF pending = 0 THEN 0 ELSE pending - 1
        /\ Goto(b, "publish")
     \/ /\ queue = <<>> \/ CallsMayFail
        /\ Goto(b, "notify")
        /\ UNCHANGED <<queue, bRecord, pending>>
  /\ UNCHANGED <<wifi, mqttVars, burstRunning, syncDone, telVars, historyVars>>

\* An empty queue and a failed pop end the burst in the same way.
BurstPop(b) ==
  /\ bpc[b] = "pop"
  /\ \/ /\ Get
        /\ bRecord' = [bRecord EXCEPT ![b] = Head(queue)]
        /\ Goto(b, "publish")
     \/ /\ queue = <<>> \/ CallsMayFail
        /\ Goto(b, "notify")
        /\ UNCHANGED <<queue, bRecord>>
  /\ UNCHANGED <<pending, wifi, mqttVars, burstRunning, syncDone, telVars,
                 historyVars>>

\* Bugs: the result of mqtt_client_publish() is not looked at; a publish that
\* fails ends the burst without queuing the record again.
MutBurstPublishUnseen(b) ==
  /\ bpc[b] = "publish"
  /\ IF CanEnqueue THEN Enqueue(bRecord[b]) ELSE UNCHANGED pubQueue
  /\ Goto(b, "puback")
  /\ UNCHANGED <<queue, pending, wifi, mqttConn, outbox, puback, bRecord,
                 burstRunning, syncDone, telVars, historyVars>>
MutBurstPublish(b) ==
  /\ bpc[b] = "publish"
  /\ IF CanEnqueue
     THEN Enqueue(bRecord[b]) /\ Goto(b, "puback") /\ UNCHANGED bRecord
     ELSE Goto(b, "notify") /\ LetGo(b) /\ UNCHANGED pubQueue
  /\ UNCHANGED <<queue, pending, wifi, mqttConn, outbox, puback, burstRunning,
                 syncDone, telVars, historyVars>>

BurstPublish(b) ==
  /\ bpc[b] = "publish"
  /\ IF CanEnqueue
     THEN Enqueue(bRecord[b]) /\ Goto(b, "puback")
     ELSE Goto(b, "requeue") /\ UNCHANGED pubQueue
  /\ UNCHANGED <<queue, pending, wifi, mqttConn, outbox, puback, bRecord,
                 burstRunning, syncDone, telVars, historyVars>>

CountDelivered(b, left) ==
  /\ bpc[b] = "puback"
  /\ puback = 1
  /\ puback' = 0
  /\ pending' = left
  /\ counted' = counted \cup {bRecord[b]}
  /\ LetGo(b)
  /\ Goto(b, "pop")
  /\ UNCHANGED <<queue, wifi, mqttConn, pubQueue, outbox, burstRunning, syncDone,
                 telVars, sampled, delivered, dropped>>

\* Bug: a decrement that forgets the test for zero, on a uint32_t.
MutBurstPuback(b) == CountDelivered(b, pending - 1)

\* A token is there: it need not be for this record.
BurstPuback(b) == CountDelivered(b, IF pending = 0 THEN 0 ELSE pending - 1)

BurstPubackTimeout(b) ==
  /\ bpc[b] = "puback"
  /\ puback = 0
  /\ Goto(b, "requeue")
  /\ UNCHANGED <<queue, pending, wifi, mqttVars, bRecord, burstRunning, syncDone,
                 telVars, historyVars>>

\* The result of the append is not looked at.
BurstRequeue(b) ==
  /\ bpc[b] = "requeue"
  /\ \/ Put(bRecord[b]) /\ UNCHANGED dropped
     \/ CallsMayFail /\ dropped' = dropped \cup {bRecord[b]} /\ UNCHANGED queue
  /\ LetGo(b)
  /\ Goto(b, "notify")
  /\ UNCHANGED <<pending, wifi, mqttVars, burstRunning, syncDone, telVars,
                 sampled, delivered, counted>>

BurstNotify(b) ==
  /\ bpc[b] = "notify"
  /\ syncDone' = TRUE
  /\ Goto(b, "exit")
  /\ UNCHANGED <<queue, pending, wifi, mqttVars, bRecord, burstRunning, telVars,
                 historyVars>>

\* Bug: the task ends without s_burst_running = false.
MutBurstExit(b) ==
  /\ bpc[b] = "exit"
  /\ Goto(b, "none")
  /\ UNCHANGED <<queue, pending, wifi, mqttVars, bRecord, burstRunning, syncDone,
                 telVars, historyVars>>

BurstExit(b) ==
  /\ bpc[b] = "exit"
  /\ burstRunning' = FALSE
  /\ Goto(b, "none")
  /\ UNCHANGED <<queue, pending, wifi, mqttVars, bRecord, syncDone, telVars,
                 historyVars>>

-----------------------------------------------------------------------------
TelStep == TelRoute \/ TelAppend \/ TelLoad \/ TelStore

BurstStep(b) ==
  \/ BurstPop(b) \/ BurstPublish(b)
  \/ BurstPuback(b) \/ BurstPubackTimeout(b)
  \/ BurstRequeue(b) \/ BurstNotify(b) \/ BurstExit(b)

SfNext ==
  \/ TelSample \/ TelStep
  \/ MqttConnected \/ MqttDisconnected \/ PublishTask \/ Puback
  \/ WifiLost \/ OnReconnect
  \/ \E b \in Burst : BurstStep(b)

SfSpec == SfInit /\ [][SfNext]_sfVars

\* The tasks run; every wait of theirs has a timeout or a message to take.
TaskFairness ==
  /\ WF_sfVars(TelStep)
  /\ WF_sfVars(PublishTask)
  /\ \A b \in Burst : WF_sfVars(BurstStep(b))

SfFairSpec == SfSpec /\ TaskFairness

\* esp-mqtt keeps trying to connect, and the broker acknowledges.
LinkFairness == WF_sfVars(MqttConnected) /\ WF_sfVars(Puback) /\ WF_sfVars(~wifi /\ OnReconnect)

SfLinkSpec == SfFairSpec /\ LinkFairness

-----------------------------------------------------------------------------
(* Properties *)

\* A burst is spawned only when none runs: two would interleave their pops and
\* take each other's PUBACK (store_forward.c:20-21).
OneBurst ==
  \A b \in Burst : bpc[b] # "none" =>
    /\ burstRunning
    /\ \A c \in Burst : bpc[c] # "none" => c = b

\* The telemetry task has appended a record and not yet counted it.
Uncounted == IF tel \in {"load", "store"} THEN 1 ELSE 0

\* pending_records never counts fewer records than are on the card or in a
\* burst's hands: store_forward_on_reconnect() forwards nothing when it is 0,
\* and an undercount would strand the difference.  Torn increments, guarded
\* decrements and re-queues all keep it (task_telemetry.c:74, :82;
\* store_forward.c:55, :67, :73-75).
BacklogCounted ==
  LET backlog == Len(queue) + Cardinality(Holders)
  IN  /\ backlog <= pending + Uncounted
      /\ tel = "store" => pending <= telReg

\* A record is never lost without one of the errors the code logs (a failed
\* append, a message dropped by the publish task) or ignores (a failed
\* re-queue): it is in a task's hands, on the card, in the client or delivered.
NoSilentLoss ==
  sampled \subseteq
    ({telRecord} \cup {bRecord[b] : b \in Burst} \cup InSeq(queue)
       \cup InSeq(pubQueue) \cup InSeq(outbox) \cup delivered \cup dropped)

\* What a record handed to the client may have become.
Sent == InSeq(pubQueue) \cup InSeq(outbox) \cup delivered \cup dropped

\* A PUBACK need not be the record's own, but no record is counted down that
\* the client never had: it has it still, the broker has it, or the publish task
\* gave it up (store_forward.c:53-76, mqtt_client.c:82-110).
CountedWasSent == counted \subseteq Sent

\* store_forward.c:60-63: a PUBACK for another message may release the burst
\* because "all QoS-1 messages are eventually delivered".  So what a burst
\* counted is delivered, or at least still on its way.
CountedIsOnItsWay ==
  counted \subseteq (delivered \cup InSeq(pubQueue) \cup InSeq(outbox) \cup InSeq(queue))

\* A burst ends whatever the network does, tells the FSM, and clears the guard
\* of the next one.
BurstEnds == burstRunning ~> (~burstRunning /\ syncDone)

\* README.md:11: records buffered on the card are forwarded when a connection
\* is available.  Once Wi-Fi and the broker stay up, the card is drained.
BacklogForwarded == <>[](wifi /\ mqttConn) => []<>(queue = <<>>)
=============================================================================
