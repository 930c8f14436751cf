------------------------------ MODULE MCReaders ------------------------------
(* Three urls, two of which have a ScheduledPage, and listings of one row.    *)
EXTENDS Readers

CONSTANTS a, b, c

MCUrls == {a, b, c}
=============================================================================
