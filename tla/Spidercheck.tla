----------------------------- MODULE Spidercheck -----------------------------
(***************************************************************************)
(* One site of Spidercheck at work: any number of processes that check     *)
(* pages (CheckPage) and that toggle, delete, expunge and reset            *)
(* (SiteViews) on the same tables (Store), and that may die at any point.  *)
(***************************************************************************)
EXTENDS CheckPage, SiteViews

VARIABLE quiet   \* quiet[w] (history): no other process has written since w
                 \* read before_links

vars == <<storeVars, upd, doomed, quiet>>

Init ==
    /\ StoreInit
    /\ CheckInit
    /\ ViewsInit
    /\ quiet = [w \in Procs |-> FALSE]

\* The process is killed, or an exception nobody catches ends it: a malformed
\* Content-Length or a content type longer than its column before the save;
\* a GET that fails, whose four-tuple does not unpack into two names, a body
\* that is not utf-8, a robots.txt that cannot be fetched after it.
Abort(w) ==
    /\ pc[w] # "idle"
    /\ Finish(w)
    /\ doomed' = [doomed EXCEPT ![w] = {}]
    /\ UNCHANGED <<page, link, nextPk, clock>>

Step(w) ==
    \/ CheckStep(w) /\ UNCHANGED doomed
    \/ ViewsStep(w) /\ UNCHANGED upd
    \/ Abort(w)

\* What a step of w does to the history variable.
Observe(w) ==
    quiet' = [v \in Procs |->
                IF v = w
                THEN \/ pc[w] = "saved" /\ pc'[w] = "links"
                     \/ pc'[w] # "idle" /\ quiet[w]
                ELSE quiet[v] /\ page' = page /\ link' = link]

Next == \E w \in Procs : Step(w) /\ Observe(w)

Spec == Init /\ [][Next]_vars

-----------------------------------------------------------------------------
(* Properties *)

Labels == {"idle", "head", "saved", "links", "insert", "link",
           "unlink", "toggled", "expunge", "delete", "reseed", "reinsert"}

\* Types. The tables only hold keys that the sequence has handed out.
TypeOK ==
    /\ DOMAIN page \subseteq 1 .. (nextPk - 1)
    /\ \A p \in DOMAIN page : page[p] \in Row
    /\ link \subseteq Nat \X Nat
    /\ nextPk \in 1 .. (MaxPk + 1)
    /\ clock \in 0 .. MaxOps
    /\ pc \in [Procs -> Labels]
    /\ inst \in [Procs -> Instance]
    /\ upd \in [Procs -> Frame]
    /\ doomed \in [Procs -> SUBSET Nat]
    /\ quiet \in [Procs -> BOOLEAN]

\* No two pages of the site have the same address, whoever creates, saves,
\* deletes and resets at the same time ("nunca crear la misma pagina dos veces
\* en la base de datos", load_or_create). The constraint unique_full_path is
\* tested only by INSERTs here: that the UPDATE of a stale instance cannot
\* break it either is part of the claim.
UniquePages ==
    \A p, q \in DOMAIN page : page[p].url = page[q].url => p = q

\* Both ends of every link exist: deletions cascade, and a check whose page or
\* target was deleted under its feet adds nothing.
NoDanglingLinks ==
    \A l \in link : l[1] \in DOMAIN page /\ l[2] \in DOMAIN page

\* checked_at is EPOCH exactly when is_checked is false (the redundancy
\* database-schema.rst notes): the two columns are always written together,
\* also by the saves of stale instances.
CheckedAtAgrees ==
    \A p \in DOMAIN page : page[p].is_checked <=> page[p].checked_at # EPOCH

\* The two readings of "broken" agree on every page that can be stored:
\* pages_with_errors (status outside 200..300, both ends in) lists the checked
\* pages that is_ok (200 <= status < 300) rejects; and each of them has a
\* message for the errors command and view to show.
ErrorsExplained ==
    /\ PagesWithErrors = {p \in DOMAIN page : page[p].is_checked /\ ~ is_ok(page[p])}
    /\ \A p \in PagesWithErrors : page[p].error_message

\* _update_links leaves the links of the body it read: when it ends and no
\* other process has written meanwhile, every url of the body has a page and
\* the page's links go to exactly the linkable ones, whatever earlier checks,
\* finished or not, had left in the table.
LinksMatchBody ==
    [][\A w \in Procs : RemoveLinks(w) /\ quiet[w] =>
         LET from == inst[w].pk
             urls == upd[w].body
         IN  /\ \A u \in urls : \E q \in DOMAIN page' : page'[q].url = u
             /\ {l[2] : l \in {m \in link' : m[1] = from}}
                  = {q \in DOMAIN page' :
                       page'[q].url \in urls /\ page'[q].is_linkable}]_vars

\* A page whose is_linkable is false keeps no incoming link
\* (database-schema.rst, is_linkable).
LinkableRespected ==
    \A l \in link : l[2] \in DOMAIN page => page[l[2]].is_linkable

\* A page that goes, other than by reset_site, is linked from no other page
\* (can_be_deleted).
OnlyOrphansDeleted ==
    [][\A p \in DOMAIN page \ DOMAIN page' :
         (\E w \in Procs : ResetStart(w)) \/ IncomingLinks(p) \subseteq {p}]_vars

\* is_checked says whether the page has ever been tried: it does not go back.
StaysChecked ==
    [][\A p \in DOMAIN page \cap DOMAIN page' :
         page[p].is_checked => page'[p].is_checked]_vars

\* checked_at is the time of the last attempt: it does not go back.
CheckedAtAdvances ==
    [][\A p \in DOMAIN page \cap DOMAIN page' :
         page[p].checked_at <= page'[p].checked_at]_vars

\* A row that appears is new: deleted pages do not come back.
NoResurrection ==
    [][\A p \in DOMAIN page' \ DOMAIN page : p >= nextPk]_vars

-----------------------------------------------------------------------------
(* The specification this implements *)

PageState(row) == IF ~ row.is_checked THEN "queued"
                  ELSE IF is_ok(row) THEN "right" ELSE "broken"

\* What a row, and the two tables, say of the site.
PageOf(row) == [url |-> row.url, state |-> PageState(row), linkable |-> row.is_linkable]

Pages == {PageOf(page[p]) : p \in DOMAIN page}
Edges == {<<page[l[1]].url, page[l[2]].url>> : l \in link}

Abstract == INSTANCE SiteSpec WITH pages <- Pages, edges <- Edges

\* One operation at a time, cut short or not, every statement of check_page, of
\* the views and of reset_site does to the site one of the things SiteSpec
\* allows, or nothing: a page is found once and queued, tried and never queued
\* again, removed only while nothing links to it, and linked to only while it
\* wants links.
Implements == Abstract!SiteSpec
=============================================================================
