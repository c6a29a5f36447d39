------------------------------- MODULE Haptic -------------------------------
(***************************************************************************)
(* drivers/haptic.c: patterns played by a one-shot timer, and the call     *)
(* that disables the motor for the rest of the boot.                       *)
(*                                                                         *)
(* The callback runs in the timer task, above all callers on their core,   *)
(* and is one step.  haptic_pulse() and haptic_disable() can be preempted: *)
(* they are split at every access to what they share.  haptic_pulse()      *)
(* is an interface without a caller in src/; the model calls it from one   *)
(* task at a time.  Durations are left out, and with them LONG_BUZZ, a     *)
(* SHORT_PULSE that takes longer.                                          *)
(***************************************************************************)
EXTENDS Naturals, Sequences

CONSTANT Disabler  \* the tasks that call haptic_disable()

VARIABLES
  blocked,         \* s_blocked
  seq,             \* s_sequence
  phase,           \* s_phase_idx, counted from 1
  timer,           \* s_timer is running
  motor,           \* the LEDC duty is not zero
  pulse,           \* where haptic_pulse() is
  disable          \* where each haptic_disable() is

hapticVars == <<blocked, seq, phase, timer, motor, pulse, disable>>

\* The phases of each pattern, TRUE for HAPTIC_DUTY_ON, up to the {0, 0}.
SEQ == [SHORT_PULSE |-> <<TRUE>>, DOUBLE_PULSE |-> <<TRUE, FALSE, TRUE>>]

HapticTypeOK ==
  /\ blocked \in BOOLEAN
  /\ seq \in DOMAIN SEQ
  /\ phase \in 1 .. 4
  /\ timer \in BOOLEAN
  /\ motor \in BOOLEAN
  /\ pulse \in {"idle", "cancel", "pattern", "index", "duty", "arm"}
  /\ disable \in [Disabler -> {"idle", "stop", "off"}]

\* haptic_init() has succeeded.  No phase is read before a pattern is set.
HapticInit ==
  /\ blocked = FALSE /\ timer = FALSE /\ motor = FALSE
  /\ seq = "SHORT_PULSE" /\ phase = 1
  /\ pulse = "idle"
  /\ disable = [t \in Disabler |-> "idle"]

-----------------------------------------------------------------------------
(* haptic_timer_cb() *)

\* The next phase is played and timed if `next` says that there is one.
PhaseOver(next) ==
  /\ timer
  /\ IF blocked
     THEN timer' = FALSE /\ motor' = FALSE /\ UNCHANGED phase
     ELSE /\ phase' = phase + 1
          /\ timer' = next
          /\ motor' = (phase < Len(SEQ[seq]) /\ SEQ[seq][phase + 1])
  /\ UNCHANGED <<blocked, seq, pulse, disable>>

\* Bug: the terminator {0, 0} is played as a phase.
MutTimerCb == PhaseOver(phase <= Len(SEQ[seq]))

\* Bug: s_blocked is not tested, since haptic_disable() stops the timer.
MutTimerCbUntested ==
  /\ timer
  /\ phase' = phase + 1
  /\ timer' = (phase < Len(SEQ[seq]))
  /\ motor' = (phase < Len(SEQ[seq]) /\ SEQ[seq][phase + 1])
  /\ UNCHANGED <<blocked, seq, pulse, disable>>

TimerCb == PhaseOver(phase < Len(SEQ[seq]))

-----------------------------------------------------------------------------
(* haptic_pulse() *)

\* Bug: s_blocked is not tested.
MutPulseCall ==
  /\ pulse = "idle"
  /\ pulse' = "cancel"
  /\ UNCHANGED <<blocked, seq, phase, timer, motor, disable>>

PulseCall ==
  /\ pulse = "idle" /\ ~blocked
  /\ pulse' = "cancel"
  /\ UNCHANGED <<blocked, seq, phase, timer, motor, disable>>

\* Bug: the pattern in progress is not cancelled.
MutPulseCancel ==
  /\ pulse = "cancel"
  /\ pulse' = "pattern"
  /\ UNCHANGED <<blocked, seq, phase, timer, motor, disable>>

PulseCancel ==
  /\ pulse = "cancel"
  /\ timer' = FALSE
  /\ pulse' = "pattern"
  /\ UNCHANGED <<blocked, seq, phase, motor, disable>>

PulsePattern ==
  /\ pulse = "pattern"
  /\ seq' \in DOMAIN SEQ
  /\ pulse' = "index"
  /\ UNCHANGED <<blocked, phase, timer, motor, disable>>

PulseIndex ==
  /\ pulse = "index"
  /\ phase' = 1
  /\ pulse' = "duty"
  /\ UNCHANGED <<blocked, seq, timer, motor, disable>>

PulseDuty ==
  /\ pulse = "duty"
  /\ motor' = SEQ[seq][1]
  /\ pulse' = "arm"
  /\ UNCHANGED <<blocked, seq, phase, timer, disable>>

PulseArm ==
  /\ pulse = "arm"
  /\ timer' = TRUE
  /\ pulse' = "idle"
  /\ UNCHANGED <<blocked, seq, phase, motor, disable>>

-----------------------------------------------------------------------------
(* haptic_disable() *)

DisableCall(t) ==
  /\ disable[t] = "idle"
  /\ blocked' = TRUE
  /\ disable' = [disable EXCEPT ![t] = "stop"]
  /\ UNCHANGED <<seq, phase, timer, motor, pulse>>

StopTimer(t, next) ==
  /\ disable[t] = "stop"
  /\ timer' = FALSE
  /\ disable' = [disable EXCEPT ![t] = next]
  /\ UNCHANGED <<blocked, seq, phase, motor, pulse>>

\* Bug: the motor is left to the timer that has just been stopped.
MutDisableStop(t) == StopTimer(t, "idle")

DisableStop(t) == StopTimer(t, "off")

DisableOff(t) ==
  /\ disable[t] = "off"
  /\ motor' = FALSE
  /\ disable' = [disable EXCEPT ![t] = "idle"]
  /\ UNCHANGED <<blocked, seq, phase, timer, pulse>>

-----------------------------------------------------------------------------
PulseStep == PulseCancel \/ PulsePattern \/ PulseIndex \/ PulseDuty \/ PulseArm
DisableStep(t) == DisableStop(t) \/ DisableOff(t)

\* The motor never runs with nobody left to stop it: the timer will, or a call
\* in progress, however haptic_disable() cuts into haptic_pulse() or into
\* another haptic_disable() (haptic.c:137-165, :168-172).
MotorWatched ==
  motor => \/ timer
           \/ pulse \in {"pattern", "index", "duty", "arm"}
           \/ \E t \in Disabler : disable[t] = "off"

\* The callback reads no entry behind the end of the pattern: haptic_pulse()
\* stops the timer before it changes pattern and index, one after the other
\* (haptic.c:154-157, :73-76).
PhaseInTable == timer => phase \in 1 .. Len(SEQ[seq])

\* A disabled motor that has stopped never starts again in this boot, though
\* haptic_disable() may find it in the pause of a DOUBLE_PULSE, with the timer
\* armed for the next phase; only a pulse let in before may still start it
\* (haptic.c:68-71, :137-140, :168-172).
Stopped == blocked /\ pulse = "idle" /\ ~motor
StaysStopped == [][Stopped => Stopped']_hapticVars
=============================================================================
