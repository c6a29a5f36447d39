--------------------------- MODULE MCStoreForward ---------------------------
(* StoreForward on a small instance; records and burst identities are *)
(* interchangeable.                                                   *)
EXTENDS StoreForward, TLC

Symmetry == Permutations(Record) \cup Permutations(Burst)
=============================================================================
