---------------------------- MODULE MCSpidercheck ----------------------------
(* Instances of Spidercheck for TLC. *)
EXTENDS Spidercheck, TLC

ProcSymmetry == Permutations(Procs)

OtherUrls == Urls \ {Seed}
UrlSymmetry == Permutations(OtherUrls)

Symmetry == ProcSymmetry \cup UrlSymmetry
=============================================================================
