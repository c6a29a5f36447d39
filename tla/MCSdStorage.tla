---------------------------- MODULE MCSdStorage ----------------------------
(* SdStorage on a small instance; tasks and records are interchangeable. *)
EXTENDS SdStorage, TLC

Symmetry == Permutations(Task) \cup Permutations(Record)
=============================================================================
