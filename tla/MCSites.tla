------------------------------- MODULE MCSites -------------------------------
(* Instances of Sites for TLC. *)
EXTENDS Sites, TLC

Symmetry == Permutations(Procs)
=============================================================================
