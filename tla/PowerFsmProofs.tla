--------------------------- MODULE PowerFsmProofs ---------------------------
(***************************************************************************)
(* Proofs about the power cycle.  The handshake holds however late the     *)
(* audio task is; that the node sleeps with its rails off needs the task   *)
(* to answer START before the FSM looks at the battery again (PromptAudio),*)
(* and the proof shows that nothing else is needed.  Without PromptAudio   *)
(* one rail, of one late session, is the worst that sleep can meet.        *)
(***************************************************************************)
EXTENDS PowerFsm, TLAPS

(***************************************************************************)
(* What HandshakeSafe rests on: the FSM waits only for a session it has    *)
(* asked for, and the microphone's rail is on for a session that will cut  *)
(* it again.                                                               *)
(***************************************************************************)
Recording == audio \in {"settle", "record", "tail"}

Waiting ==
  /\ at = "wait" => state = "ACTIVE_RECORD" /\ triggered
  /\ "MIC" \in rails => Recording

(***************************************************************************)
(* What SleepsDark rests on: a START that is not yet answered finds the    *)
(* FSM in its wait, so none is left when the way to deep sleep begins.     *)
(* Once power_rails_all_off() is through, nobody touches another rail.     *)
(***************************************************************************)
StartAnswered ==
  /\ at \in {"off", "sleep", "asleep"} =>
       state = "DEEP_SLEEP" /\ hapticBlocked
  /\ PromptAudio /\ "START" \in bits => at = "wait"
  /\ at \in {"sleep", "asleep"} => rails \subseteq {"MIC"}
  /\ PromptAudio /\ at \in {"sleep", "asleep"} => rails = {}

PowerInv == PowerTypeOK /\ HandshakeSafe /\ Waiting /\ StartAnswered

\* The invariant holds when app_main() hands over to the FSM.
LEMMA PowerInvInit == PowerInit => PowerInv
  BY DEF PowerInit, PowerInv, PowerTypeOK, HandshakeSafe, Waiting, Recording,
         StartAnswered, State, Rail

\* Every step of the FSM, the audio task and the rest keeps the invariant.
LEMMA PowerInvStep == PowerInv /\ [PowerNext]_powerVars => PowerInv'
<1> SUFFICES ASSUME PowerInv, [PowerNext]_powerVars PROVE PowerInv'
  OBVIOUS
<1> USE DEF PowerInv, PowerTypeOK, HandshakeSafe, Waiting, Recording, StartAnswered, State, Rail,
            In, GoTo, Awake, AudioOnly, fsmVars, audioVars, otherVars, worldVars
<1>1. CASE CheckBattery
  BY <1>1 DEF CheckBattery
<1>2. CASE RunBoot
  BY <1>2 DEF RunBoot
<1>3. CASE StartRecording
  <2>1. PowerTypeOK'
    BY <1>3 DEF StartRecording
  <2>2. HandshakeSafe'
    BY <1>3 DEF StartRecording
  <2>3. Waiting'
    BY <1>3 DEF StartRecording
  <2>4. StartAnswered'
    BY <1>3 DEF StartRecording
  <2> QED
    BY <2>1, <2>2, <2>3, <2>4
<1>4. CASE RecordingDone
  \* DONE is alone in the event group, and the audio task is back at its wait.
  <2>1. bits = {"DONE"} /\ audio = "suspended" /\ "MIC" \notin rails
    BY <1>4 DEF RecordingDone
  <2> QED
    BY <1>4, <2>1 DEF RecordingDone
<1>5. CASE RecordingPoll
  BY <1>5 DEF RecordingPoll
<1>6. CASE SyncWait
  BY <1>6 DEF SyncWait
<1>7. CASE SyncEnd
  BY <1>7 DEF SyncEnd, SyncEndIf
<1>8. CASE RunLowPowerFlush
  <2>0. session' \in BOOLEAN
    BY <1>8 DEF RunLowPowerFlush, EmergencyFlush
  <2>1. PowerTypeOK'
    BY <1>8, <2>0 DEF RunLowPowerFlush, EmergencyFlush
  <2>2. HandshakeSafe'
    BY <1>8, <2>0 DEF RunLowPowerFlush, EmergencyFlush
  <2>3. Waiting'
    BY <1>8, <2>0 DEF RunLowPowerFlush, EmergencyFlush
  <2>4. StartAnswered'
    BY <1>8, <2>0 DEF RunLowPowerFlush, EmergencyFlush
  <2> QED
    BY <2>1, <2>2, <2>3, <2>4
<1>9. CASE SleepFlush
  <2>0. session' \in BOOLEAN
    BY <1>9 DEF SleepFlush, EmergencyFlush
  <2>1. PowerTypeOK'
    BY <1>9, <2>0 DEF SleepFlush, EmergencyFlush
  <2>2. HandshakeSafe'
    BY <1>9, <2>0 DEF SleepFlush, EmergencyFlush
  <2>3. Waiting'
    BY <1>9, <2>0 DEF SleepFlush, EmergencyFlush
  <2>4. StartAnswered'
    BY <1>9, <2>0 DEF SleepFlush, EmergencyFlush
  <2> QED
    BY <2>1, <2>2, <2>3, <2>4
<1>10. CASE SleepRailsOff
  BY <1>10 DEF SleepRailsOff, RailsCut
<1>12. CASE SleepStart
  BY <1>12 DEF SleepStart
<1>13. CASE AudioStart
  \* START is pending: the FSM is in ACTIVE_RECORD, or it left without a DONE.
  <2>1. bits = {"START"} /\ state \notin {"BOOT", "ACTIVE_SYNC"}
    BY <1>13 DEF AudioStart, StartSession
  <2>2. PromptAudio => at = "wait"
    BY <1>13 DEF AudioStart, StartSession
  <2> QED
    BY <1>13, <2>1, <2>2 DEF AudioStart, StartSession
<1>14. CASE AudioSettled
  <2>0. UNCHANGED <<fsmVars, hapticBlocked, worldVars, bits, session>>
    BY <1>14 DEF AudioSettled
  <2>1. PowerTypeOK'
    <3>1. audio' \in {"record", "signal"} /\ rails' \subseteq Rail
      BY <1>14 DEF AudioSettled
    <3> QED
      BY <2>0, <3>1
  <2>2. HandshakeSafe'
    BY <1>14 DEF AudioSettled
  <2>3. Waiting'
    BY <1>14 DEF AudioSettled
  <2>4. StartAnswered'
    BY <1>14 DEF AudioSettled
  <2> QED
    BY <2>1, <2>2, <2>3, <2>4
<1>15. CASE AudioDeadline
  BY <1>15 DEF AudioDeadline
<1>16. CASE AudioTailDone
  BY <1>16 DEF AudioTailDone, EndTail
<1>17. CASE AudioSignal
  BY <1>17 DEF AudioSignal
<1>18. CASE AudioChunk
  BY <1>18 DEF AudioChunk
<1>19. CASE PollGauge \/ BatteryChanges \/ NotifySyncDone
  <2>1. CASE PollGauge
    BY <2>1 DEF PollGauge
  <2>2. CASE BatteryChanges
    BY <2>2 DEF BatteryChanges
  <2>3. CASE NotifySyncDone
    BY <2>3 DEF NotifySyncDone
  <2> QED
    BY <1>19, <2>1, <2>2, <2>3
<1>20. CASE Wake
  BY <1>20 DEF Wake
<1>21. CASE UNCHANGED powerVars
  BY <1>21 DEF powerVars
<1> QED
  BY <1>1, <1>2, <1>3, <1>4, <1>5, <1>6, <1>7, <1>8, <1>9, <1>10, <1>12,
     <1>13, <1>14, <1>15, <1>16, <1>17, <1>18, <1>19, <1>20, <1>21
  DEF PowerNext, FsmStep, AudioAdvance

LEMMA PowerInvariant == PowerSpec => []PowerInv
  BY PowerInvInit, PowerInvStep, PTL DEF PowerSpec

\* The state of power_fsm.c and of the audio task keeps its type, on any
\* assumption about the audio task's latency.
THEOREM PowerTypeCorrect == PowerSpec => []PowerTypeOK
<1>1. PowerInv => PowerTypeOK
  BY DEF PowerInv
<1> QED
  BY <1>1, PowerInvariant, PTL

\* power_fsm.c:82-97 and task_audio.c:37-94 hand the session over without a
\* stale bit, also across low-battery aborts and resets: the sync window never
\* opens on a recording that is still running.
THEOREM HandshakeCorrect == PowerSpec => []HandshakeSafe
<1>1. PowerInv => HandshakeSafe
  BY DEF PowerInv
<1> QED
  BY <1>1, PowerInvariant, PTL

\* power_fsm.c:137-152: with an audio task that answers START in time, the node
\* goes to sleep with all four rails off and the motor blocked.
THEOREM SleepsDarkAlways ==
  ASSUME PromptAudio
  PROVE  PowerSpec => []SleepsDark
<1>1. PowerInv => SleepsDark
  BY PromptAudio DEF PowerInv, StartAnswered, SleepsDark
<1> QED
  BY <1>1, PowerInvariant, PTL

(***************************************************************************)
(* The most that deep sleep can find switched on, however late the audio   *)
(* task answers: the microphone's rail, for a session that began behind    *)
(* power_rails_all_off() and would still cut it.                           *)
(***************************************************************************)
SleepsDarkButForSession ==
  at \in {"sleep", "asleep"} =>
    /\ hapticBlocked
    /\ rails = {} \/ (rails = {"MIC"} /\ Recording)

\* power_fsm.c:137-152 against task_audio.c:37-46, on no assumption at all: the
\* motor is blocked, the card, the motor and the modem are dark, and the
\* microphone is unless a session has just taken the START that was left.
THEOREM SleepsDarkButForSessionAlways == PowerSpec => []SleepsDarkButForSession
<1>1. PowerInv => SleepsDarkButForSession
  BY DEF PowerInv, StartAnswered, Waiting, SleepsDarkButForSession
<1> QED
  BY <1>1, PowerInvariant, PTL
=============================================================================
