----------------------------- MODULE SafetyGates -----------------------------
(***************************************************************************)
(* From the gauge chip to the motor: core/safety.c with what it reads      *)
(* (FuelGauge) and what it switches (Haptic), and the tasks that ask: the  *)
(* watchdog at the end of every pass of tasks/task_telemetry.c, and the    *)
(* FSM, which disables the motor on its way to deep sleep.  One boot.      *)
(*                                                                         *)
(* The read for the telemetry sample is the same call as the watchdog's    *)
(* and decides nothing here.                                               *)
(***************************************************************************)
EXTENDS FuelGauge, Haptic

CONSTANTS
  Telemetry, Fsm,  \* the two tasks, readers and disablers both
  HapticMinSoc     \* SAFETY_HAPTIC_MIN_SOC

ASSUME TaskAssumption == {Telemetry, Fsm} = Reader /\ Disabler = Reader
ASSUME ThresholdAssumption == HapticMinSoc \in Nat \ {0}

gatesVars == <<gaugeVars, hapticVars>>

GatesTypeOK == FgTypeOK /\ HapticTypeOK

GatesInit == FgInit /\ HapticInit

\* safety_haptic_allowed(): a read that fails counts as 0 %.
HapticAllowed(r) == rd[r] = "ok" /\ got[r].soc >= HapticMinSoc

\* soc_below_threshold(): a read that fails counts as enough.
SocBelowThreshold(r) == rd[r] = "ok" /\ got[r].soc < HapticMinSoc

\* A task is in one call at a time.
InCall(t) == rd[t] # "idle" \/ disable[t] # "idle"

StartRead(t) == ~InCall(t) /\ ReadCall(t) /\ UNCHANGED hapticVars

\* Bug: a watchdog that lets the motor run when the gauge cannot be read.
MutWatchdog ==
  /\ ReadDone(Telemetry)
  /\ IF SocBelowThreshold(Telemetry) THEN DisableCall(Telemetry) ELSE UNCHANGED hapticVars

Watchdog ==
  /\ ReadDone(Telemetry)
  /\ IF HapticAllowed(Telemetry) THEN UNCHANGED hapticVars ELSE DisableCall(Telemetry)

FsmDecides ==
  /\ ReadDone(Fsm)
  /\ IF SocBelowThreshold(Fsm) THEN DisableCall(Fsm) ELSE UNCHANGED hapticVars

\* safety_emergency_flush() before deep sleep; the node may yet be awake long.
FsmFlush == ~InCall(Fsm) /\ DisableCall(Fsm) /\ UNCHANGED gaugeVars

GaugeStep == (ChipChanges \/ Poll \/ \E r \in Reader : Read(r)) /\ UNCHANGED hapticVars
HapticStep ==
  (TimerCb \/ PulseCall \/ PulseStep \/ \E t \in Disabler : DisableStep(t))
    /\ UNCHANGED gaugeVars

GatesNext ==
  \/ GaugeStep \/ HapticStep
  \/ \E t \in Reader : StartRead(t)
  \/ Watchdog \/ FsmDecides \/ FsmFlush

GatesSpec == GatesInit /\ [][GatesNext]_gatesVars

\* The tasks run.  The chip answers a poll now and again, and not every 10 ms
\* wait of the poll for a mutex that is held for a copy of a few bytes fails.
GatesFairSpec ==
  /\ GatesSpec
  /\ []<>(poll = "copy")
  /\ WF_gatesVars(PollCopy /\ UNCHANGED hapticVars)
  /\ WF_gatesVars(StartRead(Telemetry) \/ Watchdog)
  /\ \A r \in Reader : WF_gatesVars(Read(r) /\ UNCHANGED hapticVars)
  /\ \A t \in Disabler : WF_gatesVars(DisableStep(t) /\ UNCHANGED gaugeVars)
  /\ WF_gatesVars(TimerCb /\ UNCHANGED gaugeVars)
  /\ WF_gatesVars(PulseStep /\ UNCHANGED gaugeVars)

\* A battery that stays low stops the motor for good: through a poll that may
\* be dropped, reads that time out or see an old sample, and pulses that were
\* let in before (task_telemetry.c:92-94, safety.c:60-71).
LowBatteryStopsMotor == <>[](chip < HapticMinSoc) => <>[](~motor)
=============================================================================
