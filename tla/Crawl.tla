-------------------------------- MODULE Crawl --------------------------------
(***************************************************************************)
(* The crawl of one site: core.check_site and the check command, which     *)
(* cron runs again and again, draw pages from Site.next_page_to_check and  *)
(* check them one at a time.                                               *)
(*                                                                         *)
(* Times are kept as orders: created_at as the order of created,           *)
(* checked_at as the order of checked. A rotation is measured in checks.   *)
(* A check is one step here; CheckPage has its statements.                 *)
(***************************************************************************)
EXTENDS Integers, Sequences, SequencesExt, FiniteSets, FiniteSetsExt

CONSTANTS Urls, Seed,
          Links,        \* Links[u]: the valid links in the body of u
          Dead,         \* pages whose HEAD never succeeds
          Poison,       \* pages whose HEAD succeeds with headers that cannot
                        \* be stored (Content-Type over 32 characters,
                        \* Content-Length not a number)
          Schedulable,  \* pages an administrator may schedule
          Rotation,     \* least number of checks in ScheduledPage.rotation
          ValidResults  \* Success.value of is_valid(): see CheckPage

ASSUME CrawlAssumption ==
    /\ Seed \in Urls
    /\ Links \in [Urls -> SUBSET Urls]
    /\ \A u \in Urls : IsFiniteSet(Links[u])
    /\ Dead \subseteq Urls
    /\ Poison \subseteq Urls \ Dead
    /\ Schedulable \subseteq Urls
    /\ Rotation \in Nat \ {0}
    /\ ValidResults \subseteq {"True", "response"}

VARIABLES created,     \* the pages, oldest first
          checked,     \* those with is_checked, by checked_at, oldest first
          bad,         \* pages_with_errors
          scheduled,   \* table scheduled_page
          age,         \* age[u]: checks since that of u, counted up to Rotation
          due,         \* scheduled pages with watermark < Now()
          turn,        \* (history) flips with every check, also with one
                       \* that stores nothing
          last,        \* (history) the page checked last
          wait         \* wait[u] (history): checks saved while u was due; one
                       \* that raises is not counted

vars == <<created, checked, bad, scheduled, age, due, turn, last, wait>>

Live == Urls \ (Dead \cup Poison)
Known == Range(created)
Checked == Range(checked)

Init ==
    /\ created = <<Seed>>
    /\ checked = <<>>
    /\ bad = {}
    /\ scheduled = {}
    /\ age = [u \in Schedulable |-> 0]
    /\ due = {}
    /\ turn = FALSE
    /\ last = Seed
    /\ wait = [u \in Schedulable |-> 0]

-----------------------------------------------------------------------------
(* Queries *)

\* The first row of s that is in S.
First(s, S) == s[SelectInSeq(s, LAMBDA u : u \in S)]

\* The pages of S with the least checked_at: those never checked share EPOCH.
Oldest(S) == IF S \subseteq Checked THEN {First(checked, S)} ELSE S \ Checked

\* Wrong variant: the queue is read like all_pending_pages, newest first.
Frontier_Stack ==
    IF Known \subseteq Checked
    THEN Head(checked)
    ELSE First(Reverse(created), Urls \ Checked)

\* Wrong variant: the checked pages are taken newest first.
Frontier_Newest ==
    IF Known \subseteq Checked
    THEN checked[Len(checked)]
    ELSE First(created, Urls \ Checked)

\* all_queued_pages().first(): the pages not checked by created_at, or, when
\* there is none, the checked ones by checked_at.
Frontier ==
    IF Known \subseteq Checked
    THEN Head(checked)
    ELSE First(created, Urls \ Checked)

-----------------------------------------------------------------------------
(* check_page(p), by its outcomes *)

\* A check takes time: the pages grow older. If it was saved, p is the newest
\* of the checked pages.
Elapsed(p, saved) ==
    /\ turn' = ~ turn
    /\ last' = p
    /\ age' = [u \in Schedulable |-> IF saved /\ u = p THEN 0
                                     ELSE Min({age[u] + 1, Rotation})]
    /\ due' = IF saved THEN due \ {p} ELSE due
    /\ wait' = IF saved
               THEN [u \in Schedulable |-> IF u \in due \ {p} THEN wait[u] + 1 ELSE 0]
               ELSE wait
    /\ checked' = IF saved THEN Append(RemoveFirst(checked, p), p) ELSE checked
    /\ UNCHANGED scheduled

\* HEAD succeeds, the row is saved and the pages in found are added to the
\* queue, in the order of the body: all those the body links to, or fewer if
\* the page is not html, is redirected out or the process ends half-way.
Saves(p, found) ==
    /\ p \in Live
    /\ "response" \in ValidResults
    /\ Elapsed(p, TRUE)
    /\ bad' = bad \ {p}
    /\ \E s \in SetToSeqs(found) : created' = created \o s

Succeeds(p) == Saves(p, Links[p] \ Known)

\* Wrong variant: pages that are already known are added again.
Stops_Again(p) == \E found \in SUBSET Links[p] : Saves(p, found)

Stops(p) == \E found \in SUBSET (Links[p] \ Known) : Saves(p, found)

\* HEAD fails, or the body is not html after all (418).
Fails(p) ==
    /\ p \notin Poison
    /\ Elapsed(p, TRUE)
    /\ bad' = bad \cup {p}
    /\ UNCHANGED created

\* check_page raises after the HEAD and before page.save(): nothing is stored,
\* the command dies and cron starts another.
Raises(p) ==
    /\ p \notin Dead
    /\ Elapsed(p, FALSE)
    /\ UNCHANGED <<created, bad>>

Check(p) == Stops(p) \/ Fails(p) \/ Raises(p)

-----------------------------------------------------------------------------
(* next_page_to_check *)

FromScheduled(p) == due # {} /\ p \in Oldest(due)

\* Wrong variant: errors are drawn before the scheduled pages.
FromErrors_First(p) == bad # {} /\ p \in Oldest(bad)

\* pages_with_errors().last() is the one checked the longest ago.
FromErrors(p) == due = {} /\ bad # {} /\ p \in Oldest(bad)

\* Wrong variant: no coin is tossed, errors come first.
FromFrontier_AfterErrors(p) == due = {} /\ bad = {} /\ p = Frontier

\* No errors, or random() > 0.50.
FromFrontier(p) == due = {} /\ p = Frontier

Drawn(p) == FromScheduled(p) \/ FromErrors(p) \/ FromFrontier(p)

CheckScheduled == \E p \in Urls : FromScheduled(p) /\ Check(p)
CheckErrors    == \E p \in Urls : FromErrors(p) /\ Check(p)
CheckFrontier  == \E p \in Urls : FromFrontier(p) /\ Check(p)
CheckSucceeds(p) == Drawn(p) /\ Succeeds(p)

\* An administrator adds a ScheduledPage: a page that was never checked is due
\* at once.
Schedule(u) ==
    /\ u \in (Schedulable \cap Known) \ scheduled
    /\ scheduled' = scheduled \cup {u}
    /\ due' = IF u \in Checked THEN due ELSE due \cup {u}
    /\ UNCHANGED <<created, checked, bad, age, turn, last, wait>>

\* The rotation of u runs out.
Watermark(u) ==
    /\ u \in scheduled \ due
    /\ age[u] = Rotation
    /\ due' = due \cup {u}
    /\ UNCHANGED <<created, checked, bad, scheduled, age, turn, last, wait>>

Next ==
    \/ CheckScheduled
    \/ CheckErrors
    \/ CheckFrontier
    \/ \E u \in Schedulable : Schedule(u) \/ Watermark(u)

\* cron keeps running check; the coin of next_page_to_check falls on both
\* sides again and again; rotations run out; and a live page that is tried
\* again and again is some day read whole.
Fairness ==
    /\ WF_vars(CheckScheduled)
    /\ SF_vars(CheckErrors)
    /\ SF_vars(CheckFrontier)
    /\ \A u \in Schedulable : WF_vars(Watermark(u))
    /\ \A p \in Live : SF_vars(CheckSucceeds(p))

Spec == Init /\ [][Next]_vars /\ Fairness

-----------------------------------------------------------------------------
(* Properties *)

\* Types. No page is listed twice.
TypeOK ==
    /\ IsInjective(created) /\ Known \subseteq Urls
    /\ IsInjective(checked) /\ Checked \subseteq Known
    /\ bad \subseteq Checked
    /\ scheduled \subseteq Schedulable \cap Known
    /\ due \subseteq scheduled
    /\ age \in [Schedulable -> 0..Rotation]
    /\ turn \in BOOLEAN
    /\ last \in Known
    /\ wait \in [Schedulable -> Nat]

\* What a crawl from the seed can get to: the least set that has the seed and
\* the links of its live pages.
Reachable ==
    CHOOSE R \in SUBSET Urls :
        /\ Seed \in R
        /\ \A u \in R \cap Live : Links[u] \subseteq R
        /\ \A S \in SUBSET R :
             (Seed \in S /\ \A u \in S \cap Live : Links[u] \subseteq S) => S = R

\* The crawl finds and checks every page that can be reached from the seed,
\* though pages fail, are read in part, raise, or are pushed back by errors
\* that are retried and by scheduled pages (README.md, "La operacion normal").
Covered == <>[](Reachable = Checked)

\* No page that has been found is ever forgotten: each is checked again and
\* again, broken or not, scheduled or not.
Rechecked == \A u \in Urls : [](u \in Known => <>(last = u))

\* A scheduled page whose rotation has run out waits for other scheduled pages
\* only, and for each of them once, whatever the frontier holds, not counting
\* checks that raise and are drawn again
\* (ScheduledPage: "la proxima pagina a ser comprobada sera la de noticias").
ScheduledFirst ==
    \A u \in due : wait[u] < Cardinality(scheduled)

\* Pages are checked for the first time in the order they were found, but for
\* those an administrator puts first.
FirstFoundFirstChecked ==
    \A i, j \in DOMAIN created :
        i < j /\ created[j] \in Checked => created[i] \in Checked \/ created[j] \in scheduled

\* Every page that is found comes to be marked as checked (procesos.rst: "Marca
\* la pagina como que se ha intentado comprobar").
Tried == \A u \in Urls : u \in Known ~> u \in Checked
=============================================================================
