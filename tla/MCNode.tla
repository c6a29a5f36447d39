------------------------------- MODULE MCNode -------------------------------
(* Node on a small instance; records are interchangeable. *)
EXTENDS Node, TLC

Symmetry == Permutations(Record)
=============================================================================
