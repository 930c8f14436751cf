------------------------------ MODULE MCPlugins ------------------------------
(* Instances of Plugins for TLC. *)
EXTENDS Plugins, TLC

Symmetry == Permutations(Procs) \cup Permutations(Texts)
=============================================================================
