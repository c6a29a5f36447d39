-------------------------------- MODULE Node --------------------------------
(***************************************************************************)
(* StoreForward over several boots: what deep sleep and resets leave of    *)
(* the card's queue and of g_rtc_state.pending_records.                    *)
(*                                                                         *)
(* The FSM (core/power_fsm.c) is reduced to the way it puts the node to    *)
(* sleep: the sync window closes or the battery is low, the card is        *)
(* flushed, core/rtc_state.c saves a CRC over the counter, the chip        *)
(* sleeps.  It runs at priority 1 on the core of the telemetry task and of *)
(* the burst, so it takes no step where they do not block: between the     *)
(* load and the store, and between the pop and mqtt_client_publish().      *)
(* Everything else may happen between two steps of the FSM.                *)
(*                                                                         *)
(* The card is TelemetryQueue, with the popped records that it still has:  *)
(* the read offset is in RAM, so each boot serves them again.  Compaction  *)
(* may cut the queue where SdStorage says that it can (LossPoint).         *)
(***************************************************************************)
EXTENDS StoreForward

CONSTANTS
  FlushMayFail,    \* may sd_flush_queue() fail?
  CardCuts,        \* may compaction cut the queue?
  Abrupt,          \* may the node be reset outside deep sleep?
  MaxBoots,        \* bound: resets
  MaxLines         \* bound: lines in queue.jsonl, which has none of its own

ASSUME NodeAssumption ==
  FlushMayFail \in BOOLEAN /\ CardCuts \in BOOLEAN /\ Abrupt \in BOOLEAN
    /\ MaxBoots \in Nat /\ MaxLines \in Nat

VARIABLES
  popped,          \* records served and still in queue.jsonl
  fsm,             \* how far the FSM is on its way to sleep
  saved,           \* the pending_records under g_rtc_state.crc32
  boots,           \* resets so far
  clean,           \* history: the counter has had no excuse to fall short
  lost             \* history: records a reset or a cut took, and nobody declared

nodeVars == <<sfVars, popped, fsm, saved, boots, clean, lost>>

Backlog == Len(queue) + Cardinality(Holders)

NodeTypeOK ==
  /\ SfTypeOK
  /\ popped \in Seq(Record)
  /\ fsm \in {"awake", "low", "flush", "save", "sleep"}
  /\ saved \in Nat
  /\ boots \in 0 .. MaxBoots
  /\ clean \in BOOLEAN
  /\ lost \subseteq Record

NodeInit ==
  /\ SfInit
  /\ popped = <<>>
  /\ fsm = "awake" /\ saved = 0 /\ boots = 0
  /\ clean = TRUE /\ lost = {}

\* Lost for a reason given by `excuse`, found again when nothing is left to count.
Clean(excuse) == clean' = ((clean /\ ~excuse) \/ Backlog' = 0)

\* Everywhere a record may be.
InRam == {telRecord} \cup {bRecord[b] : b \in Burst} \cup InSeq(pubQueue) \cup InSeq(outbox)
Custody == (InRam \cap Record) \cup InSeq(queue) \cup InSeq(popped)

\* What is nowhere any more, and was not delivered, is lost without a word.
Lose == lost' = lost \cup (Custody \ (Custody' \cup delivered))

-----------------------------------------------------------------------------
\* The tasks of one boot.  A count that changes behind the save is an excuse:
\* the CRC will not match.
TaskStep ==
  /\ SfNext
  /\ UNCHANGED <<fsm, saved, boots, lost>>
  /\ Clean(fsm = "sleep" /\ pending' # pending)

\* Bug: a pop that deletes the line it has read.
MutTasks ==
  /\ TaskStep
  /\ UNCHANGED popped
  /\ Len(queue') + Len(popped) <= MaxLines

Tasks ==
  /\ TaskStep
  /\ popped' = IF Len(queue') < Len(queue) THEN Append(popped, Head(queue)) ELSE popped
  /\ Len(queue') + Len(popped') <= MaxLines

-----------------------------------------------------------------------------
(* The FSM. *)

FsmRuns == tel \notin {"load", "store"} /\ \A b \in Burst : bpc[b] # "publish"

\* syncDone may be of an earlier burst, and the window may time out over one.
SyncEnd ==
  /\ fsm = "awake" /\ FsmRuns
  /\ syncDone' = FALSE
  /\ fsm' = "flush"
  /\ UNCHANGED <<queue, pending, wifi, mqttVars, burstVars, telVars, historyVars,
                 popped, saved, boots, lost>>
  /\ Clean(FALSE)

BatteryLow ==
  /\ fsm = "awake" /\ FsmRuns
  /\ fsm' = "low"
  /\ UNCHANGED <<sfVars, popped, saved, boots, lost>>
  /\ Clean(FALSE)

\* Only a queue that was read from is compacted.  A full card or a failing
\* rename() then leaves the front of it, or nothing (TelemetryQueue!Cut).
CardCut ==
  /\ CardCuts /\ popped # <<>> /\ popped' = <<>>
  /\ \E n \in 0 .. Len(queue) : queue' = SubSeq(queue, 1, n)
  /\ Lose

\* safety_emergency_flush(), of LOW_POWER_FLUSH and of DEEP_SLEEP: the queue
\* is compacted; or the mutex or the temporary file is not to be had; or the
\* queue cannot be opened, and the offset goes back to the start of the file;
\* or it is cut.
Flush(from, to) ==
  /\ fsm = from /\ FsmRuns
  /\ fsm' = to
  /\ UNCHANGED <<pending, wifi, mqttVars, burstVars, syncDone, telVars, historyVars,
                 saved, boots>>
  /\ \/ popped' = <<>> /\ UNCHANGED <<queue, lost>>
     \/ FlushMayFail /\ UNCHANGED <<queue, popped, lost>>
     \/ FlushMayFail /\ queue' = popped \o queue /\ popped' = <<>> /\ UNCHANGED lost
     \/ CardCut
  /\ Clean(Len(queue') > Len(queue))

\* Bug: the node goes to sleep without rtc_state_save().
MutSave ==
  /\ fsm = "save" /\ FsmRuns
  /\ fsm' = "sleep"
  /\ UNCHANGED <<sfVars, popped, saved, boots, lost>>
  /\ Clean(FALSE)

Save ==
  /\ fsm = "save" /\ FsmRuns
  /\ saved' = pending
  /\ fsm' = "sleep"
  /\ UNCHANGED <<sfVars, popped, boots, lost>>
  /\ Clean(FALSE)

-----------------------------------------------------------------------------
(* The next boot: rtc_state_load(), and everything in RAM afresh. *)

\* Statics and tasks are gone, and with them every record that is not on the
\* card; nothing is logged.
Reboot ==
  /\ boots < MaxBoots /\ boots' = boots + 1
  /\ popped' = <<>>
  /\ wifi' = FALSE /\ mqttConn' = FALSE
  /\ pubQueue' = <<>> /\ outbox' = <<>> /\ puback' = 0
  /\ burstRunning' = FALSE /\ syncDone' = FALSE
  /\ bpc' = [b \in Burst |-> "none"]
  /\ bRecord' = [b \in Burst |-> NoRecord]
  /\ tel' = "delay" /\ telRecord' = NoRecord /\ telReg' = 0
  /\ fsm' = "awake" /\ saved' = 0
  /\ counted' = {}
  /\ Lose
  /\ UNCHANGED <<sampled, delivered, dropped>>

ServedAgain == queue' = popped \o queue

\* The counter survives with a CRC that matches.  Records served a second time
\* are counted down a second time: they are an excuse, unless a burst still
\* held them.
SleepAndWake ==
  /\ fsm = "sleep" /\ FsmRuns
  /\ pending' = IF saved = pending THEN pending ELSE 0
  /\ ServedAgain
  /\ Reboot
  /\ Clean(Len(popped) > Cardinality(Holders))

\* RTC memory does not outlive any other reset.  One inside a flush, between
\* remove() and rename(), leaves no queue.jsonl.
AbruptReset ==
  /\ Abrupt
  /\ pending' = 0
  /\ \/ ServedAgain
     \/ CardCuts /\ fsm \in {"low", "flush"} /\ FsmRuns /\ popped # <<>> /\ queue' = <<>>
  /\ Reboot
  /\ Clean(TRUE)

-----------------------------------------------------------------------------
FsmStep ==
  \/ SyncEnd \/ BatteryLow
  \/ Flush("low", "flush") \/ Flush("flush", "save")
  \/ Save

NodeNext == Tasks \/ FsmStep \/ SleepAndWake \/ AbruptReset

NodeSpec == NodeInit /\ [][NodeNext]_nodeVars

-----------------------------------------------------------------------------
(* Properties *)

\* BacklogCounted over sleep and wake-up: the counter covers the backlog in
\* every boot, unless it was reset with the RTC memory, changed behind its CRC,
\* or spent on a record served before (power_fsm.c:139-147, rtc_state.c:35-45).
CountedAcrossBoots ==
  clean => Backlog <= pending + Uncounted

\* As long as the FSM has not begun to flush, a reset takes no record that a
\* burst has popped and not counted: popping only moves an offset in RAM, and
\* the line is still in the file (sd_storage.c:234, store_forward.c:45-76).  After the
\* flush it may be gone, see StoredSurvives.
AwakeResetKeepsHeld ==
  [][ boots' # boots /\ fsm = "awake" =>
        \A b \in Holders : bRecord[b] \in InSeq(queue') ]_nodeVars

\* From boot to boot the node delivers what it samples at least once, or gives
\* it up with an error, except for what a reset finds in RAM alone and what
\* compaction cuts from the card; and a record that has left the node never
\* comes back (task_telemetry.c:66-84, store_forward.c:40-76,
\* mqtt_client.c:82-110, power_fsm.c:127-152).
Custodian == INSTANCE Delivery
  WITH inRam <- InRam \cap Record, stored <- InSeq(queue) \cup InSeq(popped)
DeliversOrDeclares == Custodian!DeliverySpec

\* README.md:11: records are buffered on the card and forwarded.  So deep sleep
\* does not take one that a burst has read from the card and that waits for its
\* PUBACK.
StoredSurvives ==
  [][ boots' # boots =>
        \A b \in Burst : bpc[b] = "puback" =>
          bRecord[b] \in InSeq(queue') \cup delivered ]_nodeVars
=============================================================================
