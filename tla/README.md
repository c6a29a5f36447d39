# SHA-Node in TLA+

SHA-Node is the firmware of a battery-powered sensor (ESP32-S3, FreeRTOS, two
cores).  It records audio to an SD card, samples its battery, sends the samples
to an MQTT broker or buffers them on the card until it can, and sleeps.  This
directory holds TLA+ models of that firmware, the TLC runs that check them on
small instances, and TLAPS proofs of the results that matter most.

All paths below are relative to `src/`.

## 1. The system

### Components

| Component | State it keeps | Operations | What makes it correct |
|---|---|---|---|
| `drivers/sd_storage.c` | mount flag, mutex, read offset, open audio file (RAM); `queue.jsonl`, `queue.tmp`, audio files (card) | append, pop, audio write, flush/compact | no record lost, reordered or invented; the mutex is always given back |
| `net/store_forward.c` | `s_burst_running` | `store_forward_on_reconnect()`, the one-shot burst task | one burst at a time; it ends; a record leaves the card for good only when it is delivered |
| `net/mqtt_client.c` | connection flag, publish queue (16), binary PUBACK semaphore | publish, publish task, event handler | a message accepted is sent, or its loss is logged |
| `net/wifi_manager.c` | connected flag, backoff, reconnect timer | Wi-Fi and IP event handlers | it keeps reconnecting, at a bounded rate |
| `tasks/task_telemetry.c` | its loop | sample, route to MQTT or card, count, haptic watchdog | what is on the card is counted in `pending_records` |
| `core/power_fsm.c` | state, `s_triggered`, `s_entry_tick`, `s_sync_done`, event group | one handler per state | it always comes to sleep; it sleeps with everything off |
| `tasks/task_audio.c` | its loop | a session from START to DONE | microphone rail off outside sessions; no stale event bit |
| `core/safety.c` | none | emergency flush, OTA gate, haptic gate | conservative on a failed read |
| `drivers/power_rails.c` | four GPIO levels | enable, disable, all off | a rail that is off stays off until its user turns it on |
| `core/rtc_state.c` | `g_rtc_state` in RTC memory | load, save | what deep sleep keeps is valid on wake |
| `drivers/fuel_gauge.c` | cached sample under a mutex | polling task, read | a reader can tell "no sample" from 0 % |
| `drivers/haptic.c` | pattern, phase, `s_blocked`, timer | pulse, timer callback, disable | once disabled, the motor stays off |
| `drivers/mic_dma.c` | chunk queue of pointers into two DMA buffers | ISR, start, stop | a chunk is read before its buffer is reused |
| `net/ota_manager.c` | none | `ota_start()` | no update on a low battery |
| `main/main.c` | none | `app_main()`: init in order, then the FSM | nothing is used before it is initialised |

### How they interact

* Telemetry (core 0, priority 3), the burst and the publish task (core 0,
  priority 4), the FSM (core 0, priority 1) and audio (core 1, priority 5) call
  `sd_storage` under one mutex with a wait of 10 ms.
* `on_ip_event()` calls `store_forward_on_reconnect()`, which starts a burst or
  tells the FSM that there is nothing to do.  The burst pops a record, gives it
  to `mqtt_client_publish()`, waits for the PUBACK semaphore and decrements
  `g_rtc_state.pending_records`.  Telemetry increments the same field, with no
  lock.
* The FSM starts a recording with `AUDIO_START_BIT` and waits for
  `AUDIO_DONE_BIT`; `power_fsm_notify_sync_done()` ends its sync window.
* Deep sleep ends in a reset.  `g_rtc_state` survives if its CRC fits; the files
  survive; everything else starts anew.

### What is hard

Preemption between the tasks of core 0, true parallelism with core 1, resets in
the middle of anything, a counter kept apart from what it counts, a semaphore
shared by all messages, results that are not looked at, waits that time out.
`PROJECT.json` lists every such place with its line under `hazards`, and for
each the properties that cover it or the reason why none does.

## 2. Modules

| Module | Models | Proved about in |
|---|---|---|
| `TelemetryQueue` | what the queue on the card promises: put, get, discard popped records, serve them again; and, apart, the cut that it does not promise | |
| `SdStorage`, `MCSdStorage` | `sd_storage.c`; implements `TelemetryQueue`, with a cut at two points | `SdStorageProofs` |
| `StoreForward`, `MCStoreForward` | telemetry, burst, MQTT client, over one boot | `StoreForwardProofs` |
| `Delivery` | what the node promises for a record it has sampled: delivered at least once, given up with an error, or lost at a restart or a cut of the card | |
| `Node`, `MCNode` | `StoreForward` with the card's passed records, the FSM's way to sleep and `rtc_state.c`, over several boots; implements `Delivery` | `NodeProofs`, `DeliveryProofs` |
| `PowerFsm` | the FSM with audio session, rails, emergency flush, gauge cache | `PowerFsmProofs` |
| `AudioCapture` | one session chunk by chunk: `mic_dma.c` and the loop of `task_audio.c` | `AudioCaptureProofs` |
| `WifiManager` | event handlers, reconnect timer and backoff of `wifi_manager.c` | `WifiManagerProofs` |
| `FuelGauge` | polling task, cache and readers of `fuel_gauge.c` | `SafetyGatesProofs` |
| `Haptic` | patterns, timer callback and `haptic_disable()` of `haptic.c` | `SafetyGatesProofs` |
| `SafetyGates` | composes the two: `safety.c`'s haptic gate, telemetry's watchdog, the FSM's low-battery check | `SafetyGatesProofs` |

`TelemetryQueue` is the seam of the composition.  `SdStorage` shows what the
driver keeps of its promise, and `Node` uses a card that does no more: its card
operations are `TelemetryQueue`'s and the cut, by definition, so there is
nothing to claim there.  `Delivery` is the view from outside, which `Node`
implements.

### TelemetryQueue and SdStorage

`TelemetryQueue` has two variables: `queue`, the records nobody popped, and
`popped`, the records handed out and still in the file.  `SdStorage` implements
it with `queue <- Unread`, `popped <- Passed`: the lines of `queue.jsonl` after
and before `s_read_offset`, or, between `remove()` and `rename()`, the lines of
`queue.tmp`.

A public call is `CallAppend`/`CallOther` (the check of the card), `Take` or
`TakeTimeout` (the mutex), and a body.  The bodies of append, pop and audio
write are one step: they run under the mutex, and a reset in the middle of one
leaves the file as before or after it, as far as whole lines go.  Compaction
is three steps, copy, remove and rename, since a reset between them tells.
Neither of the last two has its result checked, so each has a way to fail
(`CompactRemoveFails`, `CompactRenameFails`).  `Reset` is any reset and the boot
after it.

`Faults` says which FATFS calls may fail, and `ResetInSwap` whether a reset may
fall between `remove()` and `rename()`.  The code can lose unread records at two
points (`LossPoint`): when `remove()` follows a copy that did not fit on the
card, and after `remove()`, when a reset comes or `rename()` fails: the unread
lines are then in `queue.tmp` alone, which nobody reads and the next compaction
truncates.  `ImplementsQueue` says that every step is one of `TelemetryQueue`,
or a `Cut` at one of these points, which leaves the front of the unread records
or nothing.  `CleanCard` (room on the card, a `rename()` that works, no reset in
front of it) is the condition under which there is no such point.  The run
`sd_storage_cut` shows the loss at a reset.

Abstractions: a record is one line and offsets count lines; a missing file is an
empty one; audio data is only "a session is open".  Lines torn by a reset or by
a full card in mid-write are not modelled: a failed append leaves no trace.

### StoreForward

One boot.  The card is `queue`, the unread part of `TelemetryQueue`, with
operations that may fail (`CallsMayFail`).  Each task has a place (`tel`, `bpc`)
and one action per step another task can come between:

* telemetry: `TelSample`, `TelRoute` (MQTT or card), `TelAppend`, then
  `TelLoad` and `TelStore` for `pending_records++`.  The burst has the higher
  priority on the same core: it can preempt telemetry between the load and the
  store, while its own `--` is one step.
* the burst: `BurstPop`, `BurstPublish`, `BurstPuback` or `BurstPubackTimeout`,
  `BurstRequeue`, `BurstNotify`, `BurstExit`.
* the client: `MqttConnected`, `MqttDisconnected`, `PublishTask`, `Puback`.
  esp-mqtt, which is not part of the repository, is an outbox with a limit that
  keeps a message until its PUBACK.
* Wi-Fi: `WifiLost`, `OnReconnect` (`on_ip_event()` with
  `store_forward_on_reconnect()`).

`sampled`, `delivered`, `counted` and `dropped` are history variables.  `Sent` is
where a record handed to the client may be; `CountedWasSent` says that the
decrement of `pending_records` never stands for anything else, which is all that
is left of it when the PUBACK is another message's.

### Node

`Node` extends `StoreForward` by `popped` (the records served and still in the
file), `fsm` (how far the node is on its way to sleep), `saved` (the counter
under the CRC) and the boots.  `Tasks` is any step of `StoreForward`; `SyncEnd`,
`BatteryLow`, `Flush` and `Save` are the FSM's, and a low battery flushes twice,
in `LOW_POWER_FLUSH` and in `DEEP_SLEEP`, as the code does.  `SleepAndWake` and
`AbruptReset` are the end of a boot and the start of the next, `Reboot` being
what they share.  The FSM is the lowest priority of its core (`FsmRuns`): it does
not come between a load and a store, but it does come while a burst waits for
its PUBACK.

`Flush` is one step, with the outcomes that `SdStorage` has for it: the queue is
compacted, left alone, served again from its first line, or cut (`CardCut`, if
`CardCuts`).  A reset inside the flush may leave no queue at all (`AbruptReset`).
`SdStorage` has the steps in between.

The CRC is not computed: `rtc_state_load()` keeps the counter exactly when it is
the one `rtc_state_save()` has seen, so `saved = pending` is the comparison.
`clean` is a history variable.  It says that the counter has had no excuse to
fall short of the backlog; the excuses are the ones the code has (a reset
without RTC memory, a change behind the CRC, records served and counted down
twice, a flush that fails and serves records again).

What a reset finds in RAM alone is lost without a word: `run_deep_sleep()` and
the boot log nothing about it.  The history variable `lost` has these records,
and those of a cut; they are not among the `dropped`, whose loss the code logs.

`Delivery` knows no tasks, queues or counters.  A record is in the node's
custody in RAM (`InRam`: a task's local, the publish queue, the outbox), on the
card (`queue` and `popped`), or on both.  It leaves custody when it has been
delivered or dropped, and only what is in RAM can be either.  Two steps may lose
a record without an error: a restart takes what is in RAM alone and nothing from
the card, and a cut takes from the card.  No step brings a record back.
`DeliversOrDeclares` is the refinement.

### PowerFsm

`state` is the FSM's state and `at` where in `power_fsm_run()` it is.  Each state
handler is one action per outcome; deep sleep is three (`SleepFlush`,
`SleepRailsOff`, `SleepStart`), because the other tasks run on until the chip
stops.  What sleep does to the counter is in `Node`.  The audio task is
`AudioStart` .. `AudioSignal`.  Other tasks appear by what they do to this state
(`NotifySyncDone`, `PollGauge`).  `Wake` is the next boot, after deep sleep or,
if `BrownOut`, at any time.

Ticks are not counted.  A wait with a timeout may end either way, except that
the sync window cannot time out on the pass that opens it.  `PromptAudio` says
that the audio task, alone at the top priority of core 1, answers START within
the 500 ms the FSM waits for it.

### AudioCapture

Chunks are numbered as they are captured.  `OnRecv` is the interrupt: it queues
a pointer or drops the chunk.  The DMA alternates between two buffers, so while
chunk n + 1 is being filled the buffer of chunk n - 1 is overwritten, and only
the chunk captured last is certainly whole.  The task takes a pointer
(`Receive`) and reads through it when it writes (`Written`), and the interrupt
may come in between.  `Start` fails on a deleted channel, `Deadline` stops the
microphone, then the tail is drained.  A chunk the card refuses leaves nothing
in the file; the few bytes of a short `fwrite()` are not modelled.  The result of
`mic_dma_stop()` is not looked at: where it fails, the interrupt goes on to fill
the queue, and `DrainComplete` promises nothing.

### WifiManager

The driver and the IP stack (`link`, `events`) are external.  Each branch of the
two handlers is an action on the head of the event queue; the one-shot timer is
`armed`, then `firing`.  The delays are the real numbers of milliseconds, so that
cap and doubling are checked as they are; time itself is not counted.

### FuelGauge, Haptic and SafetyGates

A structure copy in `FuelGauge` is two steps, for the charge and for the rest,
so that a mixed sample would show.  `haptic_pulse()` and `haptic_disable()` are
split at each call of `esp_timer` and `ledc` and at each assignment the timer
callback can see; the callback runs above all their callers and is one step.  `SafetyGates` joins a task's read with what
it decides: `Watchdog` (a read that fails counts as 0 %), `FsmDecides` (one that
fails counts as enough), `FsmFlush`.

## 3. Runs

| Run | Asks | Result |
|---|---|---|
| `sd_storage` | types, `CompactionSafe`, `CallsConsistent`, `ImplementsQueue`, `MutexReleased`, with every fault and resets at any step | holds |
| `sd_storage_cut` | `KeepsUnread` with a reset in the swap (`sd_storage.h:58`) | violated: queue lost |
| `store_forward` | types, `OneBurst`, `BacklogCounted`, `NoSilentLoss`, `CountedWasSent`, `BurstEnds` | holds |
| `store_forward_token` | `CountedIsOnItsWay` (`store_forward.c:60-63`) | violated: another message's PUBACK |
| `store_forward_drain` | `BacklogForwarded` (`README.md:11`) | violated: no event starts a burst |
| `node` | types, `CountedAcrossBoots`, `AwakeResetKeepsHeld`, `DeliversOrDeclares` over three boots | holds |
| `node_sleep` | `StoredSurvives` (`README.md:11`) | violated: sleep over a waiting burst |
| `power_fsm` | types, `HandshakeSafe`, `SleepsDark`, `AlwaysSleepsAgain`, with resets anywhere | holds |
| `power_fsm_boot` | `BootGatedByGauge` (`docs/architecture.md:44`, `main.c:69-70`) | violated: empty cache reads 0 % |
| `safety_gates` | types, `SampleWhole`, `MotorWatched`, `PhaseInTable`, `StaysStopped`, `LowBatteryStopsMotor` | holds |
| `audio_capture` | types, `FileInOrder`, `DrainComplete`, `NoDanglingQueue`, `LateIsSeen` | holds |
| `wifi_manager` | types, `OneAttempt`, `FlagCatchesUp`, `BackoffSchedule`, `KeepsTrying` | holds |

A violated run is a documented statement that the code does not keep; `findings`
in `PROJECT.json` quotes the statement and says what TLC found.

`CountedAcrossBoots` is about the counter's ordinary life, the save above all.
The ways the code has to let it fall short are excuses, and it would not catch
them.  `AwakeResetKeepsHeld` and `StoredSurvives` belong together: popping only
moves an offset in RAM, so a reset before the flush takes no record that a burst
still holds; the flush ahead of deep sleep does.

`LateIsSeen` is the exact form of a promise that does not hold as
`mic_dma.h:20-24` may be read: a queue of depth four over two buffers gives no
slack.  A chunk is whole in the file only if no other was captured before it was
written, and the queue (or the drop of the next chunk) shows when that was so.

### Remarks without a run

Differences between documents and code that are plain from reading:

* nothing enforces `SD_QUEUE_MAX_RECORDS` (`drivers/sd_storage.h:40-41`), and
  re-queued records can make `queue.jsonl` grow without bound;
* the FSM and the haptic gate do not look at USB power (`README.md:79-80`);
* the sync window is also ended by a burst that was aborted
  (`core/power_fsm.h:46-47`);
* `pending_records` is said to count the queue (`core/rtc_state.h:23`).  It may
  exceed it, and after a reset it may fall short, since records served again are
  counted down twice; a change behind the CRC resets the state on a boot that
  `docs/architecture.md:63` calls valid.  `CountedAcrossBoots` says when it does not;
* `sdkconfig.defaults` enables rollback, and nothing calls
  `esp_ota_mark_app_valid_cancel_rollback()`.

### Bounds

* `sd_storage`: two tasks are enough for one to hold the mutex while the other
  waits, times out or comes next.  Three lines (`MaxRecords`, a guard of
  `CallAppend` alone) give a compaction with something before the offset, at it
  and after it.  Two distinct records show reordering.
* `store_forward`: two records let one be with telemetry or on the card while
  the other is in a burst or in the client; the run for the PUBACK token has
  three.  A publish queue of one is full as soon as it is used; an outbox of two
  can hold a message of each sender, and overflow.  Two burst identities are one
  more than may run.  A record is sampled once, so the runs are finite without
  further bounds.
* `node`: two records, one burst (`OneBurst` is proved), queues of one, three
  boots and two lines in the file; 2.5 million states under symmetry of the
  records.  Flushes fail and cut; the failures of append and pop are in `store_forward`.
  Two lines hold a served and an unread record, which is what a reboot mixes.
  Three boots are enough to serve a record twice and then lose its count.
* `power_fsm` is finite as it stands.
* `safety_gates`: two percentages, one on each side of the threshold, with both
  tasks that read and disable.
* `audio_capture`: the real depth of four and seven chunks, so that the queue
  overflows, empties and overflows again.  A session ends, so the run does not
  ask for deadlock.
* `wifi_manager`: the real base and cap, 1 000 and 300 000 ms, so that the cap is
  not the base times a power of two; three events in the loop before a new address waits.
  `fails` stops counting at the cap.

### Fairness

* `SdFairSpec`: a task inside the driver runs on.  FreeRTOS schedules it, FATFS
  returns, and a wait for the mutex ends after 10 ms.  No call, and no reset, is
  promised.
* `SfFairSpec`: telemetry, the publish task and a burst run on; each of their
  waits has a timeout or a message to take.  The network is free.  `SfLinkSpec`
  adds that Wi-Fi and MQTT keep trying to connect and that the broker
  acknowledges, which makes the violation of `BacklogForwarded` the stronger.
* `PowerFairSpec`: the FSM and the audio task run, the recording reaches its
  deadline, and the wake-up timer fires.  Brown-outs are not fair, and
  `AlwaysSleepsAgain` excepts a node that is reset for ever.  Strong fairness of
  `SyncEnd` is `SYNC_TIMEOUT_MS`: the passes of the window do not all end with
  another wait.  Nothing is assumed of gauge, battery or network, and chunks may
  come for ever until the deadline.
* `GatesFairSpec`: the tasks and the timer run.  `[]<>(poll = "copy")` says that
  the chip answers a poll now and again, and that not every 10 ms wait of the
  poll for a mutex that is held for the copy of a few bytes fails; weak fairness
  would not give that, since the mutex is taken and given in turn.
* `WmSpec`: the event loop and the timer task run.  Nothing is assumed of the
  network: `KeepsTrying` is about attempts, not about success.

## 4. Proofs

TLAPS proves the following for all values of the constants.

* `SdTypeCorrect`, `CallsAlwaysConsistent`, `CompactionCorrect` and
  `DriverImplementsQueue` for any faults and resets, `CleanCardLosesNothing` under
  `CleanCard` (`SdStorageProofs`).  The inductive invariant joins `SdTypeOK` and
  `CallsConsistent` with `CompactionSafe`: to map a step to the abstract queue
  one must know that the offset lies in the file, that a copy in `queue.tmp` is
  a front of the unread part, and that whoever compacts holds the mutex, so no
  append comes between copy and rename.  Lemmas on `SubSeq`, `Append` and `Tail`
  carry the refinement: an append extends the unread part, a pop moves its head,
  `remove()` changes nothing unless the copy was cut, rename discards what was
  passed, and a reset puts the passed lines back in front.  A step at a
  `LossPoint` is a `Cut`; a queue with a hole, in another order, or with lines of
  a stale `queue.tmp` never comes of it.
* `SfTypeCorrect`, `OneBurstAtATime`, `BacklogAlwaysCounted`
  (`StoreForwardProofs`).  `BacklogCounted` says that the card and the bursts
  hold at most as many records as `pending_records` counts, plus the one
  telemetry has not counted yet, and that a load in progress is not older than a
  decrement makes harmless.  It needs `OneBurst`: two bursts could both hold a
  record when one decrements, and the set of holders could not be counted.
* `NoSilentLossAlways` (`StoreForwardProofs`).  The strengthening
  (`LocalsSafe`): a task that holds no record has an empty local, so that no
  step overwrites one, and a burst that waits for a PUBACK has its record in the
  publish queue, in the outbox, at the broker, or given up (`Sent`).  A lemma of
  its own (`SentStays`) shows that nothing leaves `Sent`, and
  `CountedWasSentAlways` follows from the same strengthening.
* `NodeTypeCorrect`, `CounterSurvivesSleep`, `AwakeResetKeepsHeldAlways`
  (`NodeProofs`).  Within a boot the lemmas of `StoreForwardProofs` are cited; new
  are the FSM, which leaves the tasks alone (`FsmLeavesTasks`), and the reboot.
  `CountedAcrossBoots` becomes inductive with `SavedHolds`: a clean counter is the
  saved one as long as there is something to count, so the CRC that fails on the
  next boot fails on a counter with an excuse.  `AwakeResetKeepsHeld` follows from
  `HeldOnCard`: until the flush, what a burst holds is among the records served
  and still in the file.
* `NodeDeliversOrDeclares`, `NothingInvented`, `LostForGood` (`DeliveryProofs`).
  The steps of the tasks are described once by where the contents of each place
  come from (`Flow`): a local from the card, the publish queue from the locals,
  the outbox from the publish queue.  Nothing new comes into custody then, and
  `Accounted` (a sampled record is in custody, delivered, dropped or lost) before
  and after the step says where a record that left it has gone.  That a new
  sample is new to custody too, and that what is lost does not come back, is
  `Traced`, which is carried along.
* `PowerTypeCorrect`, `HandshakeCorrect`, `SleepsDarkAlways`,
  `SleepsDarkButForSessionAlways` (`PowerFsmProofs`).  The strengthening says
  where the FSM may be while START is pending (`StartAnswered`) and that the
  rail is on only for a session that will cut it (`Waiting`).  Only
  `SleepsDarkAlways` assumes `PromptAudio`; without it the last theorem bounds
  what can go wrong to the microphone's rail of one session.
* `AcTypeCorrect`, `FileAlwaysInOrder`, `DrainAlwaysComplete`,
  `NeverDanglingQueue`, `LateIsAlwaysSeen` (`AudioCaptureProofs`).  The argument
  is about sets: what was captured is in the queue, in the task's hand, in the
  file or dropped (`Accounted`), and a place nearer to the card holds only
  earlier chunks (`InOrder`).
* `WmTypeCorrect`, `NeverTwoAttempts`, `FlagAlwaysCatchesUp` and
  `BackoffIsExponential`, whether or not `esp_wifi_connect()` fails, and
  `OneAttemptAlways` if it does not (`WifiManagerProofs`).  `OneAttempt` has two
  halves, `NeverTwo` and `TokenKept`, and only the second is lost with a connect
  that fails.  The first needs that two events that lead to an attempt are never
  in the loop together (`EventsApart`).  `BackoffSchedule` compares the delay
  with a recursive function, `Power`.  That it satisfies its equation is
  proved from the beginnings of the sequence, which exist and agree, by an
  induction stated for a set (`SetInduction`, from `WFMin` of the library); then
  one more failure doubles the schedule up to the cap (`ScheduleDoubles`), as
  the code does.
* `GatesTypeCorrect`, `SamplesAreWhole`, `MotorAlwaysWatched`,
  `PhaseAlwaysInTable`, `StoppedForGood` (`SafetyGatesProofs`).  The two drivers share no state
  (`GatesSplit`), so each has an invariant of its own: who copies holds the mutex
  (`MutexKept`), and the pattern changes only while the timer is stopped
  (`PatternQuiet`).  `StoppedForGood` is the half of `LowBatteryStopsMotor` that
  is safety.

Assumptions are the named `ASSUME`s of the modules (a `NoRecord` outside
`Record`, natural bounds, an ordered backoff range) and the ones just named.

Only model-checked: the liveness properties (`MutexReleased`, `BurstEnds`,
`AlwaysSleepsAgain`, `LowBatteryStopsMotor`, `KeepsTrying`), which need fairness
and ENABLED and are out of the prover's reach.  Every safety property of the
passing runs has its theorem.  No module declares a RECURSIVE operator.

Theorems without a run of their own say more than a run asks:
`CleanCardLosesNothing`, `NothingInvented`, `LostForGood`, `NeverTwoAttempts` and
`SleepsDarkButForSessionAlways` are about an assumption that the run makes or
drops with its constants, or state a strengthening that has a meaning of its own.

## 5. Not modelled

* `ota_manager.c`: `ota_start()` is one comparison (`safety_ota_allowed()`) ahead
  of `esp_https_ota()`, and nothing in the repository calls it.
* `main.c` before `power_fsm_run()`: a sequence of calls that runs alone.  One of
  its orders matters, Wi-Fi being started before `mqtt_client_init()`
  (`main.c:98-99`); it is listed as a hazard.  `mqtt_client_init()` goes with it.
  What `app_main()` lets pass is an initial state (the deleted microphone channel
  in `AudioCapture`).
* A connect call that fails without an event ends the reconnect chain for the
  boot: `OneAttempt` and `KeepsTrying` assume that it does not (`ConnectMayFail`),
  and no document promises anything else.
* Conversion of gauge registers, GPIO, LEDC and I2S configuration, TLS, JSON
  text, audio samples, `esp_https_ota`, the bodies of the vendor libraries,
  logging, `boot_count` and `wake_reason`, `s_wifi_connected` and the event group
  of Wi-Fi, which nothing reads.
* Durations: the modules know which waits may end, not when.  The tick deadline
  of a recording wraps after 49 days; the node sleeps long before.
* The host tests, stubs, board and build files have no behaviour of their own.
