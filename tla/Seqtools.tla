------------------------------- MODULE Seqtools -------------------------------
(***************************************************************************)
(* The generators of module seqtools that cut a sequence in pieces: batch, *)
(* and text_as_fragments, which cuts a text at a line break or a blank     *)
(* when there is one at the right distance. A step is what a generator     *)
(* does between two yields.                                                *)
(***************************************************************************)
EXTENDS Integers, Sequences, SequencesExt, FiniteSets, FiniteSetsExt

CONSTANTS Inputs,                    \* the texts that are cut
          mean_block_size, max_block_size,
          size                       \* of a batch

\* With mean_block_size = 0 a text that begins with a line break is never cut;
\* with size = 0 batch never ends. No caller passes them.
ASSUME SeqtoolsAssumption ==
    /\ mean_block_size \in Nat \ {0}
    /\ max_block_size \in Nat \ {0}
    /\ size \in Nat \ {0}
    /\ \A text \in Inputs : text \in Seq(Range(text))

VARIABLES job,                   \* "batch" or "fragments"
          input, rest, given,
          ended

seqVars == <<job, input, rest, given, ended>>

StartCutting ==
    /\ job \in {"batch", "fragments"}
    /\ input \in Inputs
    /\ rest = input
    /\ given = <<>>
    /\ ended = FALSE

Yields(n) ==
    /\ given' = Append(given, SubSeq(rest, 1, n))
    /\ rest' = SubSeq(rest, n + 1, Len(rest))
    /\ UNCHANGED <<job, input, ended>>

Stops ==
    /\ ~ ended /\ rest = <<>>
    /\ ended' = TRUE
    /\ UNCHANGED <<job, input, rest, given>>

\* Wrong variant: the rest of a batch is awaited.
NextBatch_WholeOnly == job = "batch" /\ Len(rest) >= size /\ Yields(size)

\* next(iterable) size times, or until StopIteration.
NextBatch == job = "batch" /\ rest # <<>> /\ Yields(Min({size, Len(rest)}))

\* text.find(c, mean_block_size), with the length of the text for -1: where it
\* is called both are past max_block_size.
Find(c) == Min({i \in mean_block_size..(Len(rest) - 1) : rest[i + 1] = c} \cup {Len(rest)})

\* Wrong variant: a line break is taken wherever it is.
Cut_AnyBreak ==
    IF Find("newline") < Len(rest) THEN Find("newline")
    ELSE Min({Find("blank"), max_block_size})

\* Where the next fragment ends.
Cut ==
    IF Find("newline") <= max_block_size THEN Find("newline")
    ELSE Min({Find("blank"), max_block_size})

NextFragment ==
    /\ job = "fragments" /\ rest # <<>>
    /\ Yields(IF Len(rest) <= max_block_size THEN Len(rest) ELSE Cut)

Cutting == NextBatch \/ NextFragment \/ Stops
=============================================================================
