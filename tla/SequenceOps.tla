----------------------------- MODULE SequenceOps -----------------------------
(* What filters a sequence: QuerySet.exclude for its rows, filter(None, ...)  *)
(* in urljoin for its segments; and the order of its elements.               *)
EXTENDS Integers, Sequences

\* The elements of s but those in S.
Without(s, S) ==
    LET rows[i \in 0 .. Len(s)] ==
            IF i = 0 THEN <<>>
            ELSE IF s[i] \in S THEN rows[i - 1] ELSE Append(rows[i - 1], s[i])
    IN  rows[Len(s)]

\* q stands in s before p.
Precedes(s, q, p) == \E i, j \in DOMAIN s : i < j /\ s[i] = q /\ s[j] = p
=============================================================================
