------------------------- MODULE SafetyGatesProofs -------------------------
(***************************************************************************)
(* Proofs about the gauge's cache and the haptic motor, for every set of   *)
(* percentages and every threshold.  The two drivers share no state: each  *)
(* step of the whole is a step of each or leaves it alone, and each keeps  *)
(* an invariant of its own.  LowBatteryStopsMotor is liveness: TLC only.   *)
(***************************************************************************)
EXTENDS SafetyGates, TLAPS

GaugeNext ==
  \/ ChipChanges \/ Poll
  \/ \E r \in Reader : Read(r) \/ ReadCall(r) \/ ReadDone(r)

HapticNext ==
  \/ TimerCb \/ PulseCall \/ PulseStep
  \/ \E t \in Disabler : DisableStep(t) \/ DisableCall(t)

\* What SampleWhole rests on: who copies holds the mutex, and only the polling
\* task leaves the cache mixed, while it holds it.
MutexKept ==
  /\ poll = "copy" <=> mutex = Poller
  /\ \A r \in Reader : rd[r] = "copy" <=> mutex = r
  /\ cache.soc = IF poll = "copy" THEN fresh ELSE cache.mv
  /\ \A r \in Reader : rd[r] = "copy" => got[r].soc = cache.soc

GaugeInv == FgTypeOK /\ MutexKept /\ SampleWhole

\* What PhaseInTable rests on: haptic_pulse() changes the pattern with the
\* timer stopped, and nobody else starts it.
PatternQuiet ==
  /\ pulse \in {"pattern", "index", "duty", "arm"} => ~timer
  /\ pulse \in {"duty", "arm"} => phase = 1

HapticInv == HapticTypeOK /\ MotorWatched /\ PhaseInTable /\ PatternQuiet

-----------------------------------------------------------------------------
\* A step of the whole is one of each driver, or leaves it alone.
LEMMA GatesSplit ==
  [GatesNext]_gatesVars => [GaugeNext]_gaugeVars /\ [HapticNext]_hapticVars
<1> SUFFICES ASSUME [GatesNext]_gatesVars
             PROVE  [GaugeNext]_gaugeVars /\ [HapticNext]_hapticVars
  OBVIOUS
<1>0. Telemetry \in Reader /\ Fsm \in Reader /\ Disabler = Reader
  BY TaskAssumption
<1>1. CASE GaugeStep
  BY <1>1 DEF GaugeStep, GaugeNext
<1>2. CASE HapticStep
  BY <1>2 DEF HapticStep, HapticNext
<1>3. CASE \E t \in Reader : StartRead(t)
  BY <1>3 DEF StartRead, GaugeNext
<1>4. CASE Watchdog
  BY <1>0, <1>4 DEF Watchdog, GaugeNext, HapticNext
<1>5. CASE FsmDecides
  BY <1>0, <1>5 DEF FsmDecides, GaugeNext, HapticNext
<1>6. CASE FsmFlush
  BY <1>0, <1>6 DEF FsmFlush, HapticNext
<1>7. CASE UNCHANGED gatesVars
  BY <1>7 DEF gatesVars
<1> QED
  BY <1>1, <1>2, <1>3, <1>4, <1>5, <1>6, <1>7 DEF GatesNext

-----------------------------------------------------------------------------
\* The cache is zeroed and nobody is in a call when the gauge is up.
LEMMA GaugeInit == GatesInit => GaugeInv
<1> SUFFICES ASSUME FgInit PROVE GaugeInv
  BY DEF GatesInit
<1>1. Zero \in Sample /\ Zero.soc = Zero.mv /\ 0 \in Soc
  BY SocAssumption DEF Zero, Sample
<1>2. FgTypeOK
  BY <1>1 DEF FgInit, FgTypeOK
<1> QED
  BY <1>1, <1>2, ReaderAssumption DEF FgInit, GaugeInv, MutexKept, SampleWhole

\* Every step of the gauge's task and of its readers keeps the invariant.
LEMMA GaugeKept == GaugeInv /\ [GaugeNext]_gaugeVars => GaugeInv'
<1> SUFFICES ASSUME GaugeInv, [GaugeNext]_gaugeVars PROVE GaugeInv'
  OBVIOUS
<1> USE ReaderAssumption
    DEF GaugeInv, FgTypeOK, MutexKept, SampleWhole, Sample
<1>1. CASE ChipChanges
  BY <1>1 DEF ChipChanges
<1>2. CASE PollRead
  BY <1>2 DEF PollRead
<1>3. CASE PollTake
  BY <1>3 DEF PollTake
<1>4. CASE PollTimeout
  BY <1>4, SocAssumption DEF PollTimeout
<1>5. CASE PollCopy
  BY <1>5, SocAssumption DEF PollCopy
<1>6. ASSUME NEW r \in Reader, ReadCall(r) PROVE GaugeInv'
  BY <1>6 DEF ReadCall
<1>7. ASSUME NEW r \in Reader, ReadTake(r) PROVE GaugeInv'
  BY <1>7 DEF ReadTake
<1>8. ASSUME NEW r \in Reader, ReadTimeout(r) PROVE GaugeInv'
  BY <1>8 DEF ReadTimeout
<1>9. ASSUME NEW r \in Reader, ReadCopy(r) PROVE GaugeInv'
  BY <1>9 DEF ReadCopy
<1>10. ASSUME NEW r \in Reader, ReadDone(r) PROVE GaugeInv'
  BY <1>10, SocAssumption DEF ReadDone, Zero
<1>11. CASE UNCHANGED gaugeVars
  BY <1>11 DEF gaugeVars
<1> QED
  BY <1>1, <1>2, <1>3, <1>4, <1>5, <1>6, <1>7, <1>8, <1>9, <1>10, <1>11
     DEF GaugeNext, Poll, Read

-----------------------------------------------------------------------------
\* The lengths of the two patterns.
LEMMA SeqLengths ==
  \A s \in DOMAIN SEQ : /\ s \in {"SHORT_PULSE", "DOUBLE_PULSE"}
                        /\ Len(SEQ[s]) \in 1 .. 3
<1>1. DOMAIN SEQ = {"SHORT_PULSE", "DOUBLE_PULSE"}
  BY DEF SEQ
<1>2. SEQ["SHORT_PULSE"] = <<TRUE>> /\ SEQ["DOUBLE_PULSE"] = <<TRUE, FALSE, TRUE>>
  BY DEF SEQ
<1>3. Len(<<TRUE>>) = 1 /\ Len(<<TRUE, FALSE, TRUE>>) = 3
  OBVIOUS
<1> QED
  BY <1>1, <1>2, <1>3

\* One phase further in a pattern of at most three.
LEMMA NextPhase ==
  \A n \in 1 .. 3 : /\ 1 \in 1 .. n
                     /\ \A p \in 1 .. n : /\ p + 1 \in 1 .. 4
                                           /\ p < n => p + 1 \in 1 .. n
OBVIOUS

\* The entries of a pattern are Booleans.
LEMMA SeqEntries ==
  \A s \in DOMAIN SEQ : \A i \in 1 .. Len(SEQ[s]) : SEQ[s][i] \in BOOLEAN
<1>1. DOMAIN SEQ = {"SHORT_PULSE", "DOUBLE_PULSE"}
  BY DEF SEQ
<1>2. SEQ["SHORT_PULSE"] = <<TRUE>> /\ SEQ["DOUBLE_PULSE"] = <<TRUE, FALSE, TRUE>>
  BY DEF SEQ
<1>3. \A i \in 1 .. 3 : i = 1 \/ i = 2 \/ i = 3
  OBVIOUS
<1>4. Len(<<TRUE>>) = 1 /\ Len(<<TRUE, FALSE, TRUE>>) = 3
  OBVIOUS
<1>5. /\ <<TRUE>>[1] = TRUE /\ <<TRUE, FALSE, TRUE>>[1] = TRUE
      /\ <<TRUE, FALSE, TRUE>>[2] = FALSE /\ <<TRUE, FALSE, TRUE>>[3] = TRUE
  OBVIOUS
<1>6. \A i \in 1 .. 1 : i = 1
  OBVIOUS
<1> QED
  BY <1>1, <1>2, <1>3, <1>4, <1>5, <1>6, Zenon

\* The motor is off and nothing is armed when haptic_init() is done.
LEMMA HapticFirst == GatesInit => HapticInv
<1> SUFFICES ASSUME HapticInit PROVE HapticInv
  BY DEF GatesInit
<1>1. "SHORT_PULSE" \in DOMAIN SEQ /\ 1 \in 1 .. 4
  BY DEF SEQ
<1> QED
  BY <1>1 DEF HapticInit, HapticInv, HapticTypeOK, MotorWatched, PhaseInTable,
              PatternQuiet

\* Every step of the timer, of haptic_pulse() and of haptic_disable() keeps
\* the invariant.
LEMMA HapticKept == HapticInv /\ [HapticNext]_hapticVars => HapticInv'
<1> SUFFICES ASSUME HapticInv, [HapticNext]_hapticVars PROVE HapticInv'
  OBVIOUS
<1> USE DEF HapticInv, HapticTypeOK, MotorWatched, PhaseInTable, PatternQuiet
<1>1. CASE TimerCb
  <2>1. phase \in 1 .. Len(SEQ[seq]) /\ Len(SEQ[seq]) \in 1 .. 3
    BY <1>1, SeqLengths DEF TimerCb, PhaseOver
  <2>2. pulse \notin {"pattern", "index", "duty", "arm"} /\ UNCHANGED <<blocked, seq, pulse, disable>>
    BY <1>1 DEF TimerCb, PhaseOver
  <2>3. CASE blocked
    BY <1>1, <2>2, <2>3 DEF TimerCb, PhaseOver
  <2>4. CASE ~blocked
    <3>1. /\ phase' = phase + 1
          /\ timer' = (phase < Len(SEQ[seq]))
          /\ motor' = (phase < Len(SEQ[seq]) /\ SEQ[seq][phase + 1])
      BY <1>1, <2>4 DEF TimerCb, PhaseOver
    <3>2. phase' \in 1 .. 4 /\ (timer' => phase' \in 1 .. Len(SEQ[seq]))
      <4>1. /\ phase + 1 \in 1 .. 4
            /\ phase < Len(SEQ[seq]) => phase + 1 \in 1 .. Len(SEQ[seq])
        <5>1. PICK n \in 1 .. 3 : n = Len(SEQ[seq])
          BY <2>1, Zenon
        <5>2. phase \in 1 .. n
          BY <2>1, <5>1, Zenon
        <5>3. phase + 1 \in 1 .. 4 /\ (phase < n => phase + 1 \in 1 .. n)
          BY <5>2
        <5> QED
          BY <5>1, <5>3, Zenon
      <4> QED
        BY <3>1, <4>1
    <3>3. timer' \in BOOLEAN /\ motor' \in BOOLEAN /\ (motor' => timer')
      <4>1. CASE phase < Len(SEQ[seq])
        <5>1. phase + 1 \in 1 .. Len(SEQ[seq])
          BY <2>1, <4>1
        <5>2. SEQ[seq][phase + 1] \in BOOLEAN
          BY <5>1, SeqEntries
        <5> QED
          BY <3>1, <4>1, <5>2, Zenon
      <4>2. CASE ~(phase < Len(SEQ[seq]))
        <5>1. (phase < Len(SEQ[seq])) = FALSE
          BY <4>2
        <5>2. (phase < Len(SEQ[seq]) /\ SEQ[seq][phase + 1]) = FALSE
          BY <4>2
        <5>3. timer' = FALSE /\ motor' = FALSE
          BY <3>1, <5>1, <5>2, Zenon
        <5> QED
          BY <5>3
      <4> QED
        BY <4>1, <4>2
    <3> QED
      BY <2>2, <3>2, <3>3
  <2> QED
    BY <2>3, <2>4
<1>2. CASE PulseCall
  BY <1>2 DEF PulseCall
<1>3. CASE PulseCancel
  BY <1>3 DEF PulseCancel
<1>4. CASE PulsePattern \/ PulseIndex
  BY <1>4 DEF PulsePattern, PulseIndex
<1>10. CASE PulseDuty
  <2>1. motor' \in BOOLEAN
    <3>1. seq \in DOMAIN SEQ /\ motor' = SEQ[seq][1]
      BY <1>10 DEF PulseDuty
    <3>2. 1 \in 1 .. Len(SEQ[seq])
      BY <3>1, SeqLengths
    <3> QED
      BY <3>1, <3>2, SeqEntries
  <2>2. pulse' = "arm" /\ UNCHANGED <<blocked, seq, phase, timer, disable>>
    BY <1>10 DEF PulseDuty
  <2> QED
    BY <1>10, <2>1, <2>2 DEF PulseDuty
<1>5. CASE PulseArm
  <2>1. 1 \in 1 .. Len(SEQ[seq])
    <3>1. Len(SEQ[seq]) \in 1 .. 3
      BY SeqLengths
    <3> QED
      BY <3>1, NextPhase, Zenon
  <2> QED
    BY <1>5, <2>1 DEF PulseArm
<1>6. ASSUME NEW t \in Disabler, DisableCall(t) PROVE HapticInv'
  BY <1>6 DEF DisableCall
<1>7. ASSUME NEW t \in Disabler, DisableStop(t) PROVE HapticInv'
  BY <1>7 DEF DisableStop, StopTimer
<1>8. ASSUME NEW t \in Disabler, DisableOff(t) PROVE HapticInv'
  BY <1>8 DEF DisableOff
<1>9. CASE UNCHANGED hapticVars
  BY <1>9 DEF hapticVars
<1> QED
  BY <1>1, <1>2, <1>3, <1>4, <1>10, <1>5, <1>6, <1>7, <1>8, <1>9
     DEF HapticNext, PulseStep, DisableStep

-----------------------------------------------------------------------------
\* The two invariants together.
LEMMA GatesAlways == GatesSpec => [](GaugeInv /\ HapticInv)
BY GaugeInit, HapticFirst, GatesSplit, GaugeKept, HapticKept, PTL DEF GatesSpec

\* The variables of both drivers keep their types.
THEOREM GatesTypeCorrect == GatesSpec => []GatesTypeOK
<1>1. GaugeInv /\ HapticInv => GatesTypeOK
  BY DEF GaugeInv, HapticInv, GatesTypeOK
<1> QED
  BY <1>1, GatesAlways, PTL

\* A reader gets one sample, never the mixture of two (fuel_gauge.c:92-93, :168).
THEOREM SamplesAreWhole == GatesSpec => []SampleWhole
<1>1. GaugeInv => SampleWhole
  BY DEF GaugeInv
<1> QED
  BY <1>1, GatesAlways, PTL

\* A running motor has somebody to stop it (haptic.c:137-165, :168-172).
THEOREM MotorAlwaysWatched == GatesSpec => []MotorWatched
<1>1. HapticInv => MotorWatched
  BY DEF HapticInv
<1> QED
  BY <1>1, GatesAlways, PTL

\* The callback reads inside the pattern (haptic.c:154-157, :73-76).
THEOREM PhaseAlwaysInTable == GatesSpec => []PhaseInTable
<1>1. HapticInv => PhaseInTable
  BY DEF HapticInv
<1> QED
  BY <1>1, GatesAlways, PTL

\* A motor that is disabled and has stopped stays so for the boot
\* (haptic.c:68-71, :137-140, :168-172): what is left armed finds s_blocked set.
THEOREM StoppedForGood == GatesSpec => StaysStopped
<1>1. ASSUME HapticNext, Stopped PROVE Stopped'
  <2> USE <1>1 DEF Stopped
  <2>1. CASE TimerCb
    BY <2>1 DEF TimerCb, PhaseOver
  <2>2. CASE PulseCall \/ PulseStep
    BY <2>2 DEF PulseCall, PulseStep, PulseCancel, PulsePattern,
                PulseIndex, PulseDuty, PulseArm
  <2>3. ASSUME NEW t \in Disabler, DisableStep(t) \/ DisableCall(t)
        PROVE  Stopped'
    <3>1. CASE DisableCall(t)
      BY <3>1 DEF DisableCall
    <3>2. CASE DisableStop(t)
      BY <3>2 DEF DisableStop, StopTimer
    <3>3. CASE DisableOff(t)
      BY <3>3 DEF DisableOff
    <3> QED
      BY <2>3, <3>1, <3>2, <3>3 DEF DisableStep
  <2> QED
    BY <2>1, <2>2, <2>3 DEF HapticNext
<1>2. [HapticNext]_hapticVars => [Stopped => Stopped']_hapticVars
  BY <1>1
<1> QED
  BY <1>2, GatesSplit, PTL DEF GatesSpec, StaysStopped
=============================================================================
