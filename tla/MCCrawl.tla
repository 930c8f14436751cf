------------------------------- MODULE MCCrawl -------------------------------
(* A small site for TLC: the seed links to a and b, a to c and back, b is an *)
(* end, and c links to itself.                                               *)
EXTENDS Crawl

CONSTANTS s, a, b, c

MCUrls == {s, a, b, c}

MCLinks == (s :> {a, b}) @@ (a :> {c, s}) @@ (b :> {}) @@ (c :> {c})
=============================================================================
