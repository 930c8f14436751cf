------------------------------- MODULE Readers -------------------------------
(***************************************************************************)
(* Those who read the tables while others write them: the draw of the next *)
(* page by check and recheck (Site.next_page_to_check is up to seven       *)
(* SELECTs), the counts and rows of errors, queue and status, and somebody *)
(* who turns the pages of the view site_last. Crawl draws in one step; here*)
(* a draw is its statements, and between any two of them the others may    *)
(* find, check, toggle and delete pages. Their saves come late: a check    *)
(* saves the time at which it began, and a toggle the row as it was read.  *)
(*                                                                         *)
(* One reader at a time; the others do what SiteSpec lets them.            *)
(***************************************************************************)
EXTENDS SequenceOps, SequencesExt, FiniteSets, FiniteSetsExt

CONSTANTS Urls,
          Schedulable,   \* pages that have a ScheduledPage
          MaxNum,        \* bound on check --num
          PAGE_SIZE,     \* rows of a page of a listing
          None

ASSUME ReadersAssumption ==
    /\ Schedulable \subseteq Urls
    /\ MaxNum \in Nat \ {0}
    /\ PAGE_SIZE \in Nat \ {0}
    /\ None \notin Urls

VARIABLES queue,    \* the pages with is_checked false, by created_at
          done,     \* those with is_checked, by checked_at, oldest first
          broken,   \* pages_with_errors
          me,       \* the reader
          calm,     \* (history) nobody wrote since the reader's draw or
                    \* listing began
          kept,     \* (history) while a report was read, no page left the
                    \* checked ones
          steady,   \* (history) nor, while site_last was read, did one sink
                    \* among them, or join them between a COUNT and its rows
          old       \* (history) the pages there were then, and to which
                    \* nothing has happened since

tables == <<queue, done, broken>>
vars == <<tables, me, calm, kept, steady, old>>

\* The reports.
Counted == {"errors", "queue", "status", "site_detail", "site_errors", "site_queue"}

Pending == Range(queue)
Known == Pending \cup Range(done)

\* me.via is the statement that drew me.page, me.due the scheduled pages it
\* found with their watermark passed.
Idle == [pc |-> "idle", cmd |-> "none", num |-> 0, list |-> "none",
         via |-> "none", due |-> {}, page |-> None, gone |-> FALSE,
         counts |-> <<>>, seen |-> {}]

Init ==
    /\ queue \in {<<u>> : u \in Urls}
    /\ done = <<>> /\ broken = {}
    /\ me = Idle
    /\ calm = TRUE /\ kept = TRUE /\ steady = TRUE /\ old = {}

-----------------------------------------------------------------------------
(* Queries *)

\* Wrong variant: without filter(is_checked=True); a page that was never
\* checked has status -1.
Errors_Unchecked == Without(Reverse(queue \o done), Known \ (broken \cup Pending))

\* pages_with_errors, newest check first.
Errors == Without(Reverse(done), Known \ broken)

\* all_queued_pages, once it is settled which of its two lists it is.
Queued(list) == IF list = "pending" THEN queue ELSE done

\* Wrong variant: oldest check first.
AllChecked_OldestFirst == done

\* all_checked_pages.
AllChecked == Reverse(done)

\* Any of the pages of S with the least checked_at: the pages never checked
\* have the EPOCH.
Oldest(S) == IF S \cap Pending # {} THEN S \cap Pending
             ELSE {Head(Without(done, Known \ S))}

FirstOf(s) == IF s = <<>> THEN None ELSE Head(s)

-----------------------------------------------------------------------------
(* Writes *)

\* Where a row may be put in s: checked_at and created_at are those of the
\* instance that is saved, not of the moment of the save.
Places(s, p) == 1 .. Len(RemoveFirst(s, p)) + 1
Place(s, p, i) == InsertAt(RemoveFirst(s, p), i, p)

\* Wrong variant: is_checked is not saved.
Attempt_Unmarked(p, i, fails) ==
    /\ done' = Place(done, p, i)
    /\ broken' = IF fails THEN broken \cup {p} ELSE broken \ {p}
    /\ UNCHANGED queue

\* check_page(p) saves the row with the time at which the check began: below
\* those that began later, even if they ended before. The row may have been
\* deleted meanwhile, and is inserted again.
Attempt(p, i, fails) ==
    /\ queue' = RemoveFirst(queue, p)
    /\ done' = Place(done, p, i)
    /\ broken' = IF fails THEN broken \cup {p} ELSE broken \ {p}

\* A row of site_last that is put at i moves down.
Sinks(p, i) == \E k \in DOMAIN done : done[k] = p /\ i < k

\* What happens to p, while the reader reads, is not to be old any more.
Touched(p) == old' = old \ {p}

OthersFind(u) ==
    /\ u \notin Known
    /\ queue' = Append(queue, u)
    /\ UNCHANGED <<done, broken, me, steady, old>>

OthersAttempt(p) ==
    /\ \E i \in Places(done, p), fails \in BOOLEAN :
          /\ Attempt(p, i, fails)
          /\ steady' = (me.cmd = "last" =>
                /\ steady /\ ~ Sinks(p, i)
                /\ me.pc = "rows" => p \in Range(done))
    /\ Touched(p)
    /\ UNCHANGED me

\* The toggle of is_linkable saves the whole row as it was read. One that was
\* read checked, with an older checked_at, ends like OthersAttempt; this is one
\* that was read before the page was checked. The created_at of a checked page
\* is not kept here: it may come back anywhere in the queue. A row that was
\* deleted is inserted as a new one.
OthersToggle(p) ==
    /\ \E i \in Places(queue, p) :
          /\ p \notin Known => i = Len(queue) + 1
          /\ queue' = Place(queue, p, i)
    /\ done' = RemoveFirst(done, p)
    /\ broken' = broken \ {p}
    /\ steady' = (me.cmd = "last" => steady /\ p \notin Range(done))
    /\ Touched(p)
    /\ UNCHANGED me

\* page_delete, expunge, or all of them: reset_site.
OthersDelete(S) ==
    /\ queue' = Without(queue, S)
    /\ done' = Without(done, S)
    /\ broken' = broken \ S
    /\ me' = [me EXCEPT !.gone = @ \/ (me.pc = "check" /\ me.page \in S)]
    /\ steady' = (me.cmd # "last")
    /\ old' = old \ S

Others ==
    /\ calm' = (me.pc = "idle")
    /\ \/ \E u \in Urls : OthersFind(u) \/ OthersAttempt(u) \/ OthersToggle(u)
       \/ \E S \in {{p} : p \in Known} \cup {Known} : OthersDelete(S)
    /\ kept' = (me.cmd \in Counted => kept /\ Range(done) \subseteq Range(done'))

-----------------------------------------------------------------------------
(* The reader: a command or a request begins, goes on, ends *)

Fresh(pages) == calm' = TRUE /\ kept' = TRUE /\ steady' = TRUE /\ old' = pages
Same == UNCHANGED <<calm, kept, steady, old>>

\* check --num n; recheck draws one page, whatever num.
StartDraw(cmd, n) ==
    /\ me.pc = "idle"
    /\ me' = [Idle EXCEPT !.pc = "scheduled", !.cmd = cmd, !.num = n]
    /\ Fresh(Known)
    /\ UNCHANGED tables

\* recheck --id p, and the view page_check: a page that is not there is told
\* so.
StartCheck(p) ==
    /\ me.pc = "idle"
    /\ p \in Known
    /\ me' = [Idle EXCEPT !.pc = "check", !.cmd = "id", !.page = p, !.num = 1]
    /\ Fresh({})
    /\ UNCHANGED tables

StartListing(cmd) ==
    /\ me.pc = "idle"
    /\ me' = [Idle EXCEPT !.pc = "count", !.cmd = cmd, !.num = 1]
    /\ Fresh(IF cmd = "last" THEN Range(done) ELSE {})
    /\ UNCHANGED tables

Goes(pc) == me.pc = pc /\ UNCHANGED tables /\ Same
To(pc) == me' = [me EXCEPT !.pc = pc]
Leaves == me' = Idle /\ Fresh({}) /\ UNCHANGED tables
Draws(p, due) == me' = [me EXCEPT !.pc = "check", !.page = p, !.via = me.pc,
                                  !.due = due, !.list = "none"]

\* first(scheduled with watermark < Now()), with its page. Which watermarks
\* have passed is up to the clock.
ReadScheduled ==
    /\ Goes("scheduled")
    /\ \E due \in SUBSET (Schedulable \cap Known) :
          IF due = {} THEN To("errors") ELSE \E p \in Oldest(due) : Draws(p, due)

\* errors.count() > 0 and random() <= 0.5
CountErrors ==
    /\ Goes("errors")
    /\ To("queued") \/ (Errors # <<>> /\ To("lastError"))

\* Wrong variant: pages_with_errors().first()
LastError_First == Goes("lastError") /\ Draws(FirstOf(Errors), {})

\* pages_with_errors().last(), which may have become None.
LastError == Goes("lastError") /\ Draws(FirstOf(Reverse(Errors)), {})

\* The COUNT inside all_queued_pages, which is called twice.
ChooseQueue ==
    /\ \E pc \in {<<"queued", "countQueued">>, <<"queuedAgain", "firstQueued">>} :
         Goes(pc[1]) /\ me' = [me EXCEPT !.pc = pc[2],
                                   !.list = IF queue # <<>> THEN "pending" ELSE "checked"]

CountQueued ==
    /\ Goes("countQueued")
    /\ me' = [me EXCEPT !.pc = IF Queued(me.list) # <<>> THEN "queuedAgain" ELSE "anyPage",
                        !.list = "none"]

FirstQueued == Goes("firstQueued") /\ Draws(FirstOf(Queued(me.list)), {})

\* pages.order_by('checked_at').first()
AnyPage ==
    /\ Goes("anyPage")
    /\ IF Known = {} THEN Draws(None, {}) ELSE \E p \in Oldest(Known) : Draws(p, {})

\* No page was drawn (check ends, recheck fails), or num pages were checked
\* and one more was drawn for nothing.
NothingToCheck ==
    /\ me.pc = "check"
    /\ me.page = None \/ me.num = 0
    /\ Leaves

\* Wrong variant: num is not counted down.
NextNum_Same == me.num

NextNum == me.num - 1

\* check_page(page): what it finds is among the pages the others find. A row
\* that was deleted meanwhile is inserted again, unless its address is taken.
\* check draws again; recheck ends.
CheckDrawn ==
    /\ me.pc = "check"
    /\ me.page # None /\ me.num > 0
    /\ me.gone => me.page \notin Known
    /\ \E i \in Places(done, me.page), fails \in BOOLEAN : Attempt(me.page, i, fails)
    /\ \/ /\ me.cmd = "check"
          /\ me' = [Idle EXCEPT !.pc = "scheduled", !.cmd = "check", !.num = NextNum]
          /\ Fresh(Known')
       \/ me.cmd # "check" /\ me' = Idle /\ Fresh({})

\* check_page raises: the row is inserted again and its address is taken, or
\* one of the causes CheckPage has.
CheckRaises ==
    /\ me.pc = "check"
    /\ me.page # None /\ me.num > 0
    /\ Leaves

-----------------------------------------------------------------------------
(* Listings: me.num counts the statements of a command, or the pages of     *)
(* site_last; me.counts keeps the numbers shown                             *)

\* What the statements of each count: a list, or which of two lists is the
\* queue. The first column of status, pages.count(), is left out: progress()
\* reads it again. Of site_detail only the counts of pages are here.
cmd_errors  == <<"errors", "errors">>
cmd_queue   == <<"choose", "queued", "choose", "queued">>
cmd_status  == <<"choose", "queued", "errors", "pages", "checked">>
site_detail == <<"pages", "errors", "choose", "queued", "checked">>
site_errors == <<"errors", "pages", "errors">>
site_queue  == <<"choose", "queued", "queued">>

Statements(cmd) == CASE cmd = "errors" -> cmd_errors
                     [] cmd = "queue"  -> cmd_queue
                     [] cmd = "status" -> cmd_status
                     [] cmd = "site_detail" -> site_detail
                     [] cmd = "site_errors" -> site_errors
                     [] cmd = "site_queue"  -> site_queue

Size(what) == CASE what = "errors"  -> Len(Errors)
                [] what = "queued"  -> Len(Queued(me.list))
                [] what = "pages"   -> Cardinality(Known)
                [] what = "checked" -> Len(done)

ReadStatement ==
    /\ Goes("count") /\ me.cmd # "last"
    /\ LET what == Statements(me.cmd)[me.num]
           last == me.num = Len(Statements(me.cmd))
           next == [me EXCEPT !.num = @ + 1, !.pc = IF last THEN "over" ELSE "count"]
       IN  me' = IF what = "choose"
                 THEN [next EXCEPT !.list = IF queue # <<>> THEN "pending" ELSE "checked"]
                 ELSE [next EXCEPT !.counts = Append(@, Size(what))]

NumPages(count) == Max({1, (count + PAGE_SIZE - 1) \div PAGE_SIZE})

\* Paginator.page(num): the COUNT, and EmptyPage past the end.
CountRows ==
    /\ Goes("count") /\ me.cmd = "last"
    /\ me' = [me EXCEPT !.counts = <<Len(done)>>,
                        !.pc = IF me.num > NumPages(Len(done)) THEN "over" ELSE "rows"]

\* The template reads the slice, cut at the count, and links to the next page
\* if the count says there is one.
ReadRows ==
    /\ Goes("rows")
    /\ LET count == me.counts[1]
           rows == SubSeq(AllChecked, (me.num - 1) * PAGE_SIZE + 1,
                          Min({me.num * PAGE_SIZE, count, Len(done)}))
       IN  me' = [me EXCEPT !.seen = @ \cup Range(rows),
                            !.num = @ + 1,
                            !.pc = IF me.num < NumPages(count) THEN "count" ELSE "over"]

Shown == me.pc = "over" /\ Leaves

\* The process is killed.
Dies == me.pc # "idle" /\ Leaves

Reads ==
    \/ ReadScheduled \/ CountErrors \/ LastError
    \/ ChooseQueue \/ CountQueued \/ FirstQueued \/ AnyPage
    \/ NothingToCheck \/ CheckDrawn \/ CheckRaises
    \/ ReadStatement \/ CountRows \/ ReadRows \/ Shown

Next ==
    \/ \E n \in 1..MaxNum : StartDraw("check", n)
    \/ StartDraw("recheck", 1)
    \/ \E p \in Urls : StartCheck(p)
    \/ \E cmd \in Counted \cup {"last"} : StartListing(cmd)
    \/ Reads
    \/ Dies
    \/ Others

\* A command that is not killed gets on: the database answers, and so do the
\* servers of the site. That they do is assumed of them: urlopen is called
\* without a timeout, and a server that never answers holds its command for
\* ever. Nothing is asked of the others.
Spec == Init /\ [][Next]_vars /\ WF_vars(Reads)

-----------------------------------------------------------------------------
(* Properties *)

\* Types. A page is in one place of one of the two lists.
TypeOK ==
    /\ IsInjective(queue \o done) /\ Known \subseteq Urls
    /\ broken \subseteq Range(done)
    /\ me.due \subseteq Schedulable
    /\ me.page \in Urls \cup {None}
    /\ me.num \in Nat
    /\ me.seen \subseteq Urls
    /\ old \subseteq Known
    /\ \A b \in {calm, kept, steady, me.gone} : b \in BOOLEAN

\* q has the older checked_at.
CheckedBefore(q, p) == (q \in Pending /\ p \notin Pending) \/ Precedes(done, q, p)

\* The up to seven SELECTs of next_page_to_check, with writes between any two
\* of them, draw what its documentation says among the pages that those writes
\* leave alone (old): a scheduled page that is due and none that is due has
\* waited longer than; else, when none was due, an error none has waited longer
\* than, or a page of the frontier with none of them ahead of it, and no page at
\* all only if none is left in the list that was read. And check --num n stops
\* before n pages only when the site is empty or somebody wrote.
DrawnInOrder ==
    me.pc = "check" /\ me.cmd # "id" =>
        /\ CASE me.via = "scheduled" ->
                  /\ me.page \in me.due
                  /\ me.page \in old =>
                        \A q \in old \cap me.due : ~ CheckedBefore(q, me.page)
             [] me.via = "lastError" ->
                  /\ me.due = {}
                  /\ me.page = None => old \cap broken = {}
                  /\ me.page \in old =>
                        /\ me.page \in broken
                        /\ \A q \in old \cap broken : ~ CheckedBefore(q, me.page)
             [] OTHER ->
                  /\ me.due = {}
                  /\ me.page = None => old \cap Pending = {}
                  /\ me.page \in old =>
                        \A q \in old : ~ Precedes(queue \o done, q, me.page)
        /\ calm /\ me.page = None => Known = {}

\* A line of status, the detail of a site, a list of errors and a queue are
\* read in several SELECTs. While the crawl goes on, and unless a checked page
\* is deleted or unchecked by a toggle, never are more errors than checked pages
\* shown; if nobody writes, title and rows agree, progress is at most 100 %, and
\* the queue holds what is not checked, or all pages when all are.
CountsAgree ==
    me.pc = "over" /\ me.cmd \in Counted =>
        LET shown == me.counts
            Shows(total, queued, errors, checked) ==
                /\ kept => errors <= checked
                /\ calm => /\ checked <= total
                           /\ queued = IF checked < total THEN total - checked ELSE total
        IN  CASE me.cmd = "status" -> Shows(shown[3], shown[1], shown[2], shown[4])
              [] me.cmd = "site_detail" -> Shows(shown[1], shown[3], shown[2], shown[4])
              [] OTHER -> calm => shown[1] = Last(shown)

\* Whoever turns the pages of site_last while the crawl goes on misses no page
\* that stays as it was, although every check moves a row up and those it
\* passes down. What makes a row slip by is a row above it that leaves (deleted,
\* or unchecked by a toggle) or sinks (saved with an older checked_at by a check
\* that began before another and ended after it, or by a toggle), or one that
\* joins between the count of a page and its rows (the count cuts off the row
\* that was pushed past it).
NothingMissed ==
    me.pc = "over" /\ me.cmd = "last" /\ steady => old \subseteq me.seen

\* check --num n, recheck and the listings end, whatever the others do.
Ends == me.pc # "idle" ~> me.pc = "idle"
=============================================================================
