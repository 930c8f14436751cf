---------------------------- MODULE MCAlgorithms ----------------------------
(* The parts of the program that run alone, in one instance: the calendar    *)
(* and the texts of MCFunctions and the site of MCLinkExtraction. A behaviour*)
(* walks the calendar, or cuts up one text, or follows links, after the      *)
(* empty text. Every one is allowed by MCSpec and by Spec.                   *)
EXTENDS MCFunctions, MCLinkExtraction

AlgorithmsInit == MCInit /\ Init

NothingLeft == day = LastDay /\ job = "fragments" /\ input = <<>> /\ ended

AlgorithmsNext ==
    \/ MCNext /\ UNCHANGED vars
    \/ NothingLeft /\ Next /\ UNCHANGED <<day, seqVars>>

AlgorithmsSpec ==
    AlgorithmsInit /\ [][AlgorithmsNext]_<<day, seqVars, vars>> /\ WF_seqVars(Cutting)
=============================================================================
