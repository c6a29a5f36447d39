------------------------------ MODULE FuelGauge ------------------------------
(***************************************************************************)
(* drivers/fuel_gauge.c: a task polls the gauge chip and caches the sample *)
(* under a mutex; other tasks read the cache, with a wait of 5 or 10 ms.   *)
(*                                                                         *)
(* The polling task is not pinned to a core, so a structure copy can meet  *)
(* another in its middle: each copy is two steps, for soc and for the      *)
(* other fields (mv).  Both fields of a sample carry the SOC the chip had  *)
(* when it was polled, so that a mixed sample shows.                       *)
(***************************************************************************)
EXTENDS Naturals

CONSTANTS
  Soc,             \* the percentages the chip may report
  Reader,          \* the tasks that call fuel_gauge_get_state()
  Poller, Free     \* the polling task, and "nobody", as holders of the mutex

ASSUME SocAssumption == Soc \subseteq 0 .. 100 /\ 0 \in Soc
ASSUME ReaderAssumption == Poller \notin Reader /\ Free \notin Reader \cup {Poller}

VARIABLES
  chip,            \* what the chip would report
  cache,           \* s_state
  mutex,           \* holder of s_mutex
  poll,            \* where the polling task is
  fresh,           \* the sample it has read
  rd,              \* where each reader's call is
  got              \* *out

gaugeVars == <<chip, cache, mutex, poll, fresh, rd, got>>

Sample == [soc : Soc, mv : Soc]
Zero == [soc |-> 0, mv |-> 0]

FgTypeOK ==
  /\ chip \in Soc
  /\ cache \in Sample
  /\ mutex \in Reader \cup {Poller, Free}
  /\ poll \in {"delay", "take", "copy"}
  /\ fresh \in Soc
  /\ rd \in [Reader -> {"idle", "take", "copy", "ok", "failed"}]
  /\ got \in [Reader -> Sample]

FgInit ==
  /\ chip \in Soc
  /\ cache = Zero
  /\ mutex = Free
  /\ poll = "delay" /\ fresh = 0
  /\ rd = [r \in Reader |-> "idle"]
  /\ got = [r \in Reader |-> Zero]

ChipChanges ==
  /\ chip' \in Soc
  /\ UNCHANGED <<cache, mutex, poll, fresh, rd, got>>

-----------------------------------------------------------------------------
(* fuel_gauge_task() *)

\* Four registers are read; when a read fails the pass ends and nothing changes.
PollRead ==
  /\ poll = "delay"
  /\ fresh' = chip
  /\ poll' = "take"
  /\ UNCHANGED <<chip, cache, mutex, rd, got>>

\* Bug: the result of xSemaphoreTake is not looked at.
MutPollTake ==
  /\ poll = "take"
  /\ mutex' = Poller
  /\ cache' = [cache EXCEPT !.soc = fresh]
  /\ poll' = "copy"
  /\ UNCHANGED <<chip, fresh, rd, got>>

PollTake ==
  /\ poll = "take" /\ mutex = Free
  /\ mutex' = Poller
  /\ cache' = [cache EXCEPT !.soc = fresh]
  /\ poll' = "copy"
  /\ UNCHANGED <<chip, fresh, rd, got>>

\* "dropping sample"
PollTimeout ==
  /\ poll = "take" /\ mutex # Free
  /\ poll' = "delay" /\ fresh' = 0
  /\ UNCHANGED <<chip, cache, mutex, rd, got>>

PollCopy ==
  /\ poll = "copy"
  /\ cache' = [cache EXCEPT !.mv = fresh]
  /\ mutex' = Free
  /\ poll' = "delay" /\ fresh' = 0
  /\ UNCHANGED <<chip, rd, got>>

-----------------------------------------------------------------------------
(* fuel_gauge_get_state() *)

ReadCall(r) ==
  /\ rd[r] = "idle"
  /\ rd' = [rd EXCEPT ![r] = "take"]
  /\ UNCHANGED <<chip, cache, mutex, poll, fresh, got>>

ReadTake(r) ==
  /\ rd[r] = "take" /\ mutex = Free
  /\ mutex' = r
  /\ got' = [got EXCEPT ![r].soc = cache.soc]
  /\ rd' = [rd EXCEPT ![r] = "copy"]
  /\ UNCHANGED <<chip, cache, poll, fresh>>

ReadTimeout(r) ==
  /\ rd[r] = "take" /\ mutex # Free
  /\ rd' = [rd EXCEPT ![r] = "failed"]
  /\ UNCHANGED <<chip, cache, mutex, poll, fresh, got>>

ReadCopy(r) ==
  /\ rd[r] = "copy"
  /\ got' = [got EXCEPT ![r].mv = cache.mv]
  /\ mutex' = Free
  /\ rd' = [rd EXCEPT ![r] = "ok"]
  /\ UNCHANGED <<chip, cache, poll, fresh>>

\* The caller has used the result.
ReadDone(r) ==
  /\ rd[r] \in {"ok", "failed"}
  /\ rd' = [rd EXCEPT ![r] = "idle"]
  /\ got' = [got EXCEPT ![r] = Zero]
  /\ UNCHANGED <<chip, cache, mutex, poll, fresh>>

-----------------------------------------------------------------------------
Poll == PollRead \/ PollTake \/ PollTimeout \/ PollCopy
Read(r) == ReadTake(r) \/ ReadTimeout(r) \/ ReadCopy(r)

\* No reader is given the charge of one sample with the voltage of another, on
\* whichever core the polling task runs (fuel_gauge.c:92-93, :168).
SampleWhole == \A r \in Reader : rd[r] = "ok" => got[r].soc = got[r].mv
=============================================================================
