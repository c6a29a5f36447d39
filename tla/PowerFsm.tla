------------------------------ MODULE PowerFsm ------------------------------
(***************************************************************************)
(* The power cycle of a node: core/power_fsm.c, with what it coordinates:  *)
(* the audio task's session (tasks/task_audio.c), the supply rails         *)
(* (drivers/power_rails.c), the emergency flush (core/safety.c) and the    *)
(* cached gauge sample it decides on (drivers/fuel_gauge.c).               *)
(*                                                                         *)
(* The FSM and the audio task run on two cores and meet in an event group  *)
(* with a START and a DONE bit.  Ticks are not counted: a wait with a      *)
(* timeout may end either way, except that the sync window never times out *)
(* on the pass that opened it (power_fsm.c:107-112).  SOC is "low" or "ok" *)
(* against SAFETY_LOW_BATTERY_SOC; "none" is the cache before its first    *)
(* sample, which reads as 0 %.                                             *)
(*                                                                         *)
(* Other tasks appear by what they do to this state: the network calls     *)
(* power_fsm_notify_sync_done().  What deep sleep keeps is in Node.        *)
(***************************************************************************)
CONSTANTS
  PromptAudio,     \* does the audio task, alone at the top priority of core 1,
                   \* answer START within the FSM's 500 ms wait?
  BrownOut         \* may the node also be reset outside deep sleep?

ASSUME PowerAssumption == PromptAudio \in BOOLEAN /\ BrownOut \in BOOLEAN

VARIABLES
  state,           \* the FSM's state
  at,              \* where in power_fsm_run() the FSM is
  triggered,       \* run_active_record(): s_triggered
  windowOpen,      \* run_active_sync(): s_entry_tick # 0
  syncDone,        \* s_sync_done
  bits,            \* the bits set in s_audio_eg
  audio,           \* where the audio task is
  rails,           \* the supply rails that are on
  session,         \* sd_storage.c: is an audio file open?
  hapticBlocked,   \* haptic.c: the permanent-disable flag
  sample,          \* fuel_gauge.c: the cached SOC
  battery          \* the SOC the gauge chip would report

fsmVars == <<state, at, triggered, windowOpen, syncDone>>
audioVars == <<bits, audio, rails, session>>
worldVars == <<sample, battery>>
otherVars == <<audioVars, hapticBlocked, worldVars>>
powerVars == <<fsmVars, audioVars, hapticBlocked, worldVars>>

State == {"BOOT", "ACTIVE_RECORD", "ACTIVE_SYNC", "LOW_POWER_FLUSH", "DEEP_SLEEP"}
Rail == {"MIC", "SD", "HAPTIC", "MODEM"}

PowerTypeOK ==
  /\ state \in State
  /\ at \in {"check", "run", "wait", "off", "sleep", "asleep"}
  /\ triggered \in BOOLEAN
  /\ windowOpen \in BOOLEAN
  /\ syncDone \in BOOLEAN
  /\ bits \subseteq {"START", "DONE"}
  /\ audio \in {"suspended", "settle", "record", "tail", "signal"}
  /\ rails \subseteq Rail
  /\ session \in BOOLEAN
  /\ hapticBlocked \in BOOLEAN
  /\ sample \in {"none", "low", "ok"}
  /\ battery \in {"low", "ok"}

\* app_main() has come to power_fsm_run(): rails off, tasks started.
PowerInit ==
  /\ state = "BOOT" /\ at = "check"
  /\ triggered = FALSE /\ windowOpen = FALSE /\ syncDone = FALSE
  /\ bits = {} /\ audio = "suspended" /\ rails = {} /\ session = FALSE
  /\ hapticBlocked = FALSE
  /\ sample = "none"
  /\ battery \in {"low", "ok"}

-----------------------------------------------------------------------------
(* power_fsm_run(): the check ahead of each pass, then the state's handler. *)

\* fg.soc_percent < SAFETY_LOW_BATTERY_SOC, on a read that succeeds.
SocLow == sample # "ok"

GoTo(s) == state' = s /\ at' = "check"

CheckBattery ==
  /\ at = "check"
  /\ \/ state' = state                       \* SOC fine, or the read failed
     \/ /\ state \in {"ACTIVE_RECORD", "ACTIVE_SYNC"}
        /\ SocLow
        /\ state' = "LOW_POWER_FLUSH"
  /\ at' = "run"
  /\ UNCHANGED <<triggered, windowOpen, syncDone, otherVars>>

In(s, a) == state = s /\ at = a

RunBoot ==
  /\ In("BOOT", "run")
  /\ \/ GoTo("ACTIVE_RECORD")                \* SOC fine, or the read failed
     \/ SocLow /\ GoTo("LOW_POWER_FLUSH")
  /\ UNCHANGED <<triggered, windowOpen, syncDone, otherVars>>

StartRecording ==
  /\ In("ACTIVE_RECORD", "run")
  /\ IF triggered
     THEN UNCHANGED bits
     ELSE bits' = (bits \ {"DONE"}) \cup {"START"}
  /\ triggered' = TRUE
  /\ at' = "wait"
  /\ UNCHANGED <<state, windowOpen, syncDone, audio, rails, session, hapticBlocked,
                 worldVars>>

RecordingDone ==
  /\ In("ACTIVE_RECORD", "wait")
  /\ "DONE" \in bits
  /\ bits' = bits \ {"DONE"}
  /\ triggered' = FALSE
  /\ GoTo("ACTIVE_SYNC")
  /\ UNCHANGED <<windowOpen, syncDone, audio, rails, session, hapticBlocked,
                 worldVars>>

RecordingPoll ==
  /\ In("ACTIVE_RECORD", "wait")
  /\ "DONE" \notin bits
  /\ PromptAudio => "START" \notin bits
  /\ at' = "check"
  /\ UNCHANGED <<state, triggered, windowOpen, syncDone, otherVars>>

\* One pass of the sync window; the first one opens it.
SyncWait ==
  /\ In("ACTIVE_SYNC", "run")
  /\ ~syncDone
  /\ windowOpen' = TRUE
  /\ at' = "check"
  /\ UNCHANGED <<state, triggered, syncDone, otherVars>>

SyncEndIf(over) ==
  /\ In("ACTIVE_SYNC", "run") /\ over
  /\ windowOpen' = FALSE /\ syncDone' = FALSE
  /\ GoTo("DEEP_SLEEP")
  /\ UNCHANGED <<triggered, otherVars>>

\* Bug: the window closes on sync_done alone, without SYNC_TIMEOUT_MS.
MutSyncEnd == SyncEndIf(syncDone)

\* The burst is done, or SYNC_TIMEOUT_MS is over.
SyncEnd == SyncEndIf(syncDone \/ windowOpen)

\* safety_emergency_flush(): haptic, then the HAPTIC and MODEM rails, then the
\* card, whose mutex the audio task may hold for longer than the wait of 10 ms.
EmergencyFlush ==
  /\ hapticBlocked' = TRUE
  /\ rails' = rails \ {"HAPTIC", "MODEM"}
  /\ session' \in {session, FALSE}

RunLowPowerFlush ==
  /\ In("LOW_POWER_FLUSH", "run")
  /\ EmergencyFlush
  /\ GoTo("DEEP_SLEEP")
  /\ UNCHANGED <<triggered, windowOpen, syncDone, bits, audio, worldVars>>

\* run_deep_sleep(), step by step: the other core and the higher priorities of
\* this one run on until esp_deep_sleep_start() returns no more.
SleepFlush ==
  /\ In("DEEP_SLEEP", "run")
  /\ EmergencyFlush
  /\ at' = "off"
  /\ UNCHANGED <<state, triggered, windowOpen, syncDone, bits, audio, worldVars>>

RailsCut(on) ==
  /\ In("DEEP_SLEEP", "off")
  /\ rails' = on
  /\ at' = "sleep"
  /\ UNCHANGED <<state, triggered, windowOpen, syncDone, bits, audio, session,
                 hapticBlocked, worldVars>>

\* Bug: the rails that are still on are taken to be those the flush cut.
MutSleepRailsOff == RailsCut(rails \ {"HAPTIC", "MODEM"})

SleepRailsOff == RailsCut({})

SleepStart ==
  /\ In("DEEP_SLEEP", "sleep")
  /\ at' = "asleep"
  /\ UNCHANGED <<state, triggered, windowOpen, syncDone, otherVars>>

FsmStep ==
  \/ CheckBattery \/ RunBoot
  \/ StartRecording \/ RecordingDone \/ RecordingPoll
  \/ SyncWait \/ SyncEnd
  \/ RunLowPowerFlush
  \/ SleepFlush \/ SleepRailsOff \/ SleepStart

-----------------------------------------------------------------------------
(* The audio task. *)

Awake == at # "asleep"

AudioOnly == UNCHANGED <<fsmVars, hapticBlocked, worldVars>>

StartSession(rail) ==
  /\ Awake /\ audio = "suspended" /\ "START" \in bits
  /\ bits' = bits \ {"START"}
  /\ rails' = rails \cup {rail}
  /\ audio' = "settle"
  /\ UNCHANGED session /\ AudioOnly

\* Bug: the rail is picked by its GPIO number instead of its mask.
MutAudioStart == StartSession("GPIO15")

AudioStart == StartSession("MIC")

\* After 10 ms for the regulator.  mic_dma_start() fails when mic_dma_init()
\* did; the session then ends at once.
AudioSettled ==
  /\ Awake /\ audio = "settle"
  /\ \/ audio' = "record" /\ UNCHANGED rails
     \/ audio' = "signal" /\ rails' = rails \ {"MIC"}
  /\ UNCHANGED <<bits, session>> /\ AudioOnly

\* A chunk goes to the card and opens a session file, unless the call fails.
AudioChunk ==
  /\ Awake /\ audio \in {"record", "tail"}
  /\ session' = TRUE
  /\ UNCHANGED <<bits, audio, rails>> /\ AudioOnly

AudioDeadline ==
  /\ Awake /\ audio = "record"
  /\ audio' = "tail"
  /\ UNCHANGED <<bits, rails, session>> /\ AudioOnly

EndTail(on) ==
  /\ Awake /\ audio = "tail"
  /\ rails' = on
  /\ audio' = "signal"
  /\ UNCHANGED <<bits, session>> /\ AudioOnly

\* Bug: the rail stays on when the last chunks have been drained.
MutAudioTailDone == EndTail(rails)

\* No chunk for 20 ms: the pipeline is empty.
AudioTailDone == EndTail(rails \ {"MIC"})

AudioSignal ==
  /\ Awake /\ audio = "signal"
  /\ bits' = bits \cup {"DONE"}
  /\ audio' = "suspended"
  /\ UNCHANGED <<rails, session>> /\ AudioOnly

\* A chunk does not move the session on: the deadline or the empty queue does.
AudioAdvance ==
  AudioStart \/ AudioSettled \/ AudioDeadline \/ AudioTailDone \/ AudioSignal

-----------------------------------------------------------------------------
(* The gauge, the world and the other tasks. *)

\* fuel_gauge_task() caches a reading; a failed one is dropped.
PollGauge ==
  /\ Awake
  /\ sample' = battery
  /\ UNCHANGED <<fsmVars, audioVars, hapticBlocked, battery>>

BatteryChanges ==
  /\ battery' \in {"low", "ok"}
  /\ UNCHANGED <<fsmVars, audioVars, hapticBlocked, sample>>

\* store_forward.c: a burst ended, or there was nothing to forward.
NotifySyncDone ==
  /\ Awake
  /\ syncDone' = TRUE
  /\ UNCHANGED <<state, at, triggered, windowOpen, otherVars>>

-----------------------------------------------------------------------------
\* Deep sleep ends, or the supply breaks down: the next boot, up to the same
\* point.
Wake ==
  /\ at = "asleep" \/ BrownOut
  /\ state' = "BOOT" /\ at' = "check"
  /\ triggered' = FALSE /\ windowOpen' = FALSE /\ syncDone' = FALSE
  /\ bits' = {} /\ audio' = "suspended" /\ rails' = {} /\ session' = FALSE
  /\ hapticBlocked' = FALSE
  /\ sample' = "none"
  /\ UNCHANGED battery

PowerNext ==
  \/ FsmStep
  \/ AudioAdvance \/ AudioChunk
  \/ PollGauge \/ BatteryChanges \/ NotifySyncDone
  \/ Wake

PowerSpec == PowerInit /\ [][PowerNext]_powerVars

\* Both tasks run, the recording reaches its deadline, the sync window its
\* timeout, and the wake-up timer fires.  Nothing is assumed of the gauge, the
\* network or the battery.  The last conjunct is the timeout: the passes of the
\* sync window do not all end with another wait.
PowerFairSpec ==
  /\ PowerSpec
  /\ WF_powerVars(FsmStep)
  /\ WF_powerVars(AudioAdvance)
  /\ WF_powerVars(at = "asleep" /\ Wake)
  /\ SF_powerVars(SyncEnd)

-----------------------------------------------------------------------------
(* Properties *)

\* Between sessions the microphone is off and nobody records: DONE is set only
\* after the rail is, so the FSM never opens the sync window over a running
\* recording, and the audio task is not started twice.
HandshakeSafe ==
  /\ state \in {"BOOT", "ACTIVE_SYNC"} =>
       audio = "suspended" /\ bits = {} /\ "MIC" \notin rails
  /\ "DONE" \in bits =>
       audio = "suspended" /\ "START" \notin bits /\ "MIC" \notin rails
  /\ audio # "suspended" => "START" \notin bits
  /\ state = "ACTIVE_RECORD" /\ ~triggered =>
       audio = "suspended" /\ bits = {} /\ "MIC" \notin rails

\* The chip goes to sleep with every rail off and the motor blocked, whatever
\* the audio task was doing when the battery ran low (power_fsm.c:142-144): no
\* rail is switched on behind power_rails_all_off().
SleepsDark ==
  at \in {"sleep", "asleep"} => rails = {} /\ hapticBlocked

\* However the recording, the gauge and the network behave, the node keeps
\* going to sleep, unless it is reset again and again: no state of the FSM is
\* for ever.
AlwaysSleepsAgain ==
  []<>(at = "asleep") \/ []<><<at # "asleep" /\ Wake>>_powerVars

\* architecture.md:44-45: BOOT goes to LOW_POWER_FLUSH for a SOC below 15 %,
\* and to ACTIVE_RECORD when the gauge cannot tell.
BootGatedByGauge ==
  [][ state = "BOOT" /\ state' = "LOW_POWER_FLUSH" => sample = "low" ]_powerVars
=============================================================================
