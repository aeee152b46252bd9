---------------------------- MODULE MCWorkDeque ----------------------------
(* Instances of WorkDeque for TLC. *)
EXTENDS WorkDeque, TLC

Symmetry == Permutations(Thieves) \cup Permutations(Jobs)
=============================================================================
