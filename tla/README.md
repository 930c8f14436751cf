# Spidercheck in TLA+

Spidercheck is a Django application that crawls a web site: it keeps a table of
the pages of each site and of the links between them, draws one page after
another from a *frontier*, asks the server for it, and adds the pages its body
links to. This directory holds TLA+ models of that program, the TLC runs that
check them and proofs, checked by TLAPS, about the core of it.

Line numbers below are of `src/spidercheck/` unless a path says otherwise.

## 1. Inventory

| Part | State it keeps | Operations | Talks to |
|---|---|---|---|
| Page checking, `core.check_page`, `_update_links` | the row of a page, its outgoing links, new rows | one check: HEAD, save, GET, links, plug-ins | server, tables `page`, `link`, plug-ins |
| Tables, `models.Page`, `models.Link` | the two tables and their constraints | `save`, `delete`, `load_or_create`, queries | database |
| Views that write, `views.py` 191-259 | `is_linkable`, the existence of pages | toggle, delete, expunge, expunge all, check | the same tables |
| Crawl, `Site.next_page_to_check`, `core.check_site`, commands `check` and `recheck` | none of its own: the order is in the columns | draw a page, check it, again | page checking, scheduled pages |
| Scheduled pages, `models.ScheduledPage` | page, rotation | added in the admin; watermark | crawl |
| Sites, `models.Site`, `core.init_site`, `core.reset_site` | name, url, the seed page | init, reset | tables, commands |
| Plug-ins and values, `core._run_plugins`, `models.Value` | table `value` | run, delete what is gone, upsert | end of page checking |
| Link extraction, `src/parser.py`, `Page.get_all_valid_links`, `Site.is_local`, `Site.add_page` | none | from hrefs to `(subpath, params)` | robots.txt of the site |
| Reports: commands `errors`, `queue`, `status`, `site`, views that read | none | several SELECTs each, between which others write | the same tables |
| Dates and sequences, `fechas.py`, `seqtools.py` | none | pure functions and generators | everywhere |
| Results, `is_valid_html` | none | pure functions | everywhere |
| Templates, urls, links, search index | none | render, call an external adapter | all the above |

There is no lock, no queue and no transaction in the program: every ORM
statement commits by itself (Django's autocommit, with no `ATOMIC_REQUESTS`
anywhere in the repository). Several web requests and several `check` commands
(cron starts a new one whether or not the last has ended) work on one database.
What is hard in this code follows from that:

* **Stale instances.** `check_page` and the toggle load a whole row, wait (the
  HEAD may take a minute), and save *every* column back. If the row was deleted
  meanwhile, `save()` inserts it again under its old key.
* **Tests and writes in different statements.** `load_or_create`,
  `can_be_deleted`, `is_linkable`, the name of a site, `get_or_create`.
* **Death in the middle**, by a kill or by an exception nobody catches (a GET
  that fails, a body that is not utf-8, a robots.txt that cannot be read, a
  header that does not fit): some links added and none removed, a site without
  its page, a value left blank.
* **Order of alternatives**: a date is read by the first of eleven patterns
  that matches.
* **Liveness of the frontier**: errors are retried, scheduled pages jump the
  queue, and the queue turns into a cycle when it is empty.
* **Reports made of several SELECTs.** `next_page_to_check` runs up to seven
  statements; `status` reads its columns one after another; a paginator counts
  in one statement and reads its rows in a later one.
* **Urls**: a link is joined with the *relative* url of its page, cut into two
  columns and built again from the path of the site.

The full list, each at its line, is under `hazards` in `PROJECT.json`.

## 2. Modules

```
Store ──┬── CheckPage ──┐
        └── SiteViews ──┴── Spidercheck ──┬── MCSpidercheck
            SiteSpec ···(implemented by)··┤
                                          └── SpidercheckProofs

Sites ──┬── MCSites                Plugins ──┬── MCPlugins
        └── SitesProofs                      └── PluginsProofs

Crawl ──┬── MCCrawl                Readers ──┬── MCReaders
        └── CrawlProofs                      └── ReadersProofs

LinkExtraction ───┬── MCLinkExtraction ──┬── MCAlgorithms
                  └── LinkProofs         │
Fechas, Seqtools ──── MCFunctions ───────┘
                           └── FunctionsProofs

SequenceOps (in Readers, LinkExtraction)
SequenceFacts (lemmas, in CrawlProofs, ReadersProofs, LinkProofs, FunctionsProofs)
```

**Store** is tables `page` and `link` of one site as functions and sets, with
what the database and Django do with them: an INSERT that `unique_full_path`
(`models.py:302`) or a foreign key may refuse, `save()` as an UPDATE or, if the
row is gone, an INSERT with the old key, `delete()` with its cascade to links
(one transaction, as Django's collector does it). A process is a program counter
and the `Page` instance it holds. A `(subpath, params)` pair is a url; times are
a logical clock (`just_now`), 0 being EPOCH; of an error message only whether
there is one.

**CheckPage** is `check_page` and `_update_links`, one action per statement that
reads or writes a table: `CheckStart` (129-132), `HeadFailure` (135-140),
`HeadSuccess` (142-147), `NotHtml`, `NotLocal` (170), `InvalidHtml` (163-167),
`ReadBody`, `FindTarget` (97-98), `CreateTarget` (the INSERT of
`load_or_create`), `AddLink` (99-100) and `RemoveLinks` (102-110). What the
server answers, and which urls its body holds, is chosen with disjuncts and
`\E`.

`ValidResults` deserves a word. `Page.is_valid` returns `Success()`
(`models.py:450`), whose value is `True` (`results.py:48`), and `check_page`
reads `response.status_code` of it (`core.py:143`): as the code stands, a page
that answers its HEAD ends its check in an `AttributeError`. Everything after
line 143 would be out of reach, so the value is a constant: `{"True"}` is the
code as it is, `{"response"}` what its callers expect, and with both either may
happen. Runs that show a defect of the rest of the program use `{"True"}`
wherever they can.

**SiteViews** is the views that write and `reset_site`, statement by statement.
`Start` of every operation loads the instance (the path converters).

**Spidercheck** composes the two over one `Store`, adds `Abort` (a kill, or an
exception, at any point) and states the properties. `quiet` is a history
variable: nobody else has written since this process read `before_links`.

**SiteSpec** is what the tables promise to a reader, with no keys, times or
processes: a set of pages that are queued, right or broken and that want links or
not, and the links between them. A url is found and joins the queue; a page is
tried and never queued again; it goes only while nothing links to it; a link is
made only to a page that wants links. `Spidercheck!Implements` maps the tables to
it (`PageOf`, `Pages`, `Edges`): the state of a page is read off `is_checked` and
`is_ok`.

**Crawl** is the choice of pages: `next_page_to_check` with its three sources
(`FromScheduled`, `FromErrors`, `FromFrontier`), a check as one step with all
its outcomes, the watermark of scheduled pages. The columns that only order
pages (`created_at`, `checked_at`) are the orders themselves, so the model is
finite though it runs for ever.

**Readers** is the same choice statement by statement, and everything else that
only reads: up to seven SELECTs of a draw (`ReadScheduled`, `CountErrors`,
`LastError`, `ChooseQueue`, `CountQueued`, `FirstQueued`, `AnyPage`), the loop of
`check --num`, `recheck` with and without an id, the counts that `errors`,
`queue`, `status` and the views of a site show, and somebody who turns the pages
of `site_last`. Between any two statements others find, check, toggle and delete
pages, and a scheduled page may fall due (which ones are due is up to the clock at
the statement that asks). What the others save may be old: a check stores the time
at which it *began* (`core.py:130`), so its row may land under those of checks that
began later and have ended already (`Place`); the toggle saves the row as it was
when the request began, which may take a checked page back to the queue
(`OthersToggle`) or back to an older check, and inserts a deleted one again. The
columns `checked_at` and `created_at` are the places in the two lists `done` and
`queue`. A draw may thus come back with nothing although there are pages, or with a
page that is deleted before it is checked and inserted again by its `save()`.

**Sites** is `init_site` and `reset_site` against each other, with the
constraints of table `site`, deaths, and, between any two statements, the other
writers of the seed: a check or a toggle that saves the instance it holds, which
brings a deleted seed back (`SaveSeed`), and `page_delete` or an expunge, which
take it away, since nothing links to a fresh seed (`DeleteSeed`).

**Plugins** is `_run_plugins` and `Value.upsert` on the values of one page:
`get_or_create` is its SELECT, its INSERT of a blank value and, if that is
refused, its second SELECT; then the UPDATE. What plug-ins return is an input. The
page may be deleted meanwhile, and inserted again by another check's late save.

**LinkExtraction** is what happens between an attribute of a tag and a row: the
filter of `/api/` for the tag `a`, the test for a link to oneself, `is_local`,
robots.txt, `urljoin`, `add_page`, and how `get_full_url` puts the url together
again. `Resolved` is the loop of `urljoin` over the segments, `Without` (of
SequenceOps) its `filter(None, ...)`. A path is the sequence `path.split('/')` gives, so that the empty
segments that make a path rooted, or a directory, are there. The operators for
`urljoin` and `urlunparse` agree with Python 3.11 on all 11440 combinations of
four site paths, ten subpaths and eighteen reference paths, with and without
query, fragment and host.

**Fechas** is the calendar: `next_day`, `next_month`, and the eleven patterns by
which `parse_date` and `parse_datetime` read a text, in their order, with `dmy`
and `ymd`. A text is a sequence of tokens (a number with its digits, the name of a
month, a mark); a pattern is the set of the sequences it stands for.

**Seqtools** is `batch` and `text_as_fragments` as the generators they are: a
step is what happens between two yields.

Operators and actions keep the names of the functions they model where they can;
`map` in `PROJECT.json` gives the lines of each definition. A definition that
begins with a name and an underscore (`AddLink_OnlyNew`), under the comment
"Wrong variant", is not part of the model: it is a bug somebody could have
written there, and the property it is listed with in `mutants` fails when it
takes the place of the definition it follows.

## 3. Runs

`tlc -config X.cfg MCY` in this directory.

| Run | Module | Checks | Size |
|---|---|---|---|
| Interleaved | MCSpidercheck | two processes, all operations, deaths | 2.6 million states, 1-2 min |
| Sequential | MCSpidercheck | one process, all operations, deaths, and the refinement of SiteSpec | 80 000 states |
| Crawl | MCCrawl | four pages, one broken, two schedulable | 36 000 states, 30 s |
| Readers | MCReaders | one reader, statement by statement, and any others | 443 000 states, 2 min |
| Plugins | MCPlugins | two checks of one page, three runs | 720 000 states |
| Sites | MCSites | two processes, four commands, two names and urls | 650 000 states |
| Algorithms | MCAlgorithms | every day of fifteen months, every text of up to six signs, three pages of a site with seventeen references | 14 000 states |
| LateSave, CrawlAsIs, Robots, TwoPages, NextMonth | | one statement of the documentation each, found false | |

Algorithms puts what runs alone into one instance: a behaviour walks the calendar,
or cuts up one text, or follows links. `AlgorithmsSpec` allows no step that
`MCSpec` (of MCFunctions) and `Spec` (of LinkExtraction) do not, so the theorems
about those two hold of it.

### What holds

*Interleaved.* However two checks, toggles, deletions, expunges and resets of two
urls interleave and wherever they die: no two pages of one url (`UniquePages`),
no link without both ends (`NoDanglingLinks`), `is_checked` and `checked_at`
agree (`CheckedAtAgrees`), the two notions of a broken page in the code agree on
what can be stored and every broken page has a message (`ErrorsExplained`), and
an update of links that nobody disturbs leaves exactly the links of the body,
whatever cut-short checks had left before (`LinksMatchBody`).

*Sequential.* Five things that hold one operation at a time, deaths included, and
that interleavings break: a page that is not linkable has no incoming link
(`LinkableRespected`: a check reads `is_linkable` at `core.py:98`, the toggle
runs, the check adds the link at `:99`); only pages nobody links to are deleted
(`OnlyOrphansDeleted`: a link is added between `can_be_deleted` and `delete`,
`views.py:225`); a page stays checked (`StaysChecked`); `checked_at` does not go
back (`CheckedAtAdvances`: the older of two overlapping checks saves last); and
deleted pages stay deleted (`NoResurrection`). All of them are parts of one
promise: one operation at a time, every statement of the code does to the tables
one of the things SiteSpec allows, or nothing (`Implements`).

*Crawl.* Everything reachable from the seed is found and checked (`Covered`), no
page is ever forgotten (`Rechecked`), a scheduled page waits only for other
scheduled pages and for each of them once, not counting checks that raise and are
drawn again (`ScheduledFirst`), and first checks go
in the order of discovery (`FirstFoundFirstChecked`).

*Readers.* A draw takes what the documentation of `next_page_to_check` says
(`DrawnInOrder`), and says it of the pages that nobody wrote since the draw began
(`old`), whatever is written to the others between its statements: the scheduled
page that is due and was checked longest ago, else an error none of them was
checked before, else the first of the queue. Errors and queue are tried only when
no scheduled page was due; a draw comes back with nothing only when all such pages
are gone from the list it read, and on a site that nobody wrote to only when there
is no page.
While the crawl goes on, no report shows more errors than checked pages unless a
checked page is deleted, or unchecked by a toggle, between its statements; when
nobody writes, the numbers of a report agree with each other (`CountsAgree`).
Whoever turns the pages of `site_last` misses no page that stayed as it was,
although each check moves a row to the top and the rows it passes down
(`NothingMissed`): rows move towards the pages still to be read, so they may be
seen twice but not skipped. There are three exceptions, and the property names
them: a row above that leaves (a deletion, a toggle), a row above that sinks (the
late save of a check that began before another, or of a toggle), and one that joins
the list between the count of a page and its rows. A command ends, whatever others
do to the queue (`Ends`).

*Plugins.* One value of a name, and none while the page is deleted, though a run
may save an instance that another run deleted (`OneValue`); an undisturbed run leaves
exactly what the plug-ins returned (`ValuesMatchRun`); a blank value belongs to an
upsert that is going on or that was killed (`BlankExplained`).

*Sites.* One site of a name and of a url (`OneSite`); a site without a seed is
being worked on, or a command was killed on it, or somebody deleted the seed by
hand, and nobody has put it back since (`SeedAccounted`): resets and inits that
overlap, with late saves of the seed between their statements, do not take it away
between them; an undisturbed reset brings it back, not checked (`ResetRestores`).

*Algorithms, links.* For every ordinary reference, the page that is stored is the one a
browser would open (`LinksFollowed`), under one address (`OneAddress`); a page
links to itself only by a fragment (`SelfByFragment`); robots.txt is obeyed for
references from the root that have no `..` in them (`RobotsAtRoot`). *Ordinary*
leaves out references that climb over the root, `http://host` without a path (the
subject of `TwoPages`), and full addresses with `..` in them, which `urljoin`
returns as they are: such an address is stored with its `..`, so that
`http://host/s/../a` and `/a` are two pages of one url, and a page whose address
climbs over the root has a relative url without one, from which its own links are
joined wrong. The first version of `RobotsAtRoot` had no exception for `..`, and
the proof attempt showed that it needs one: `/s/b/../p` is allowed by a rule for
`/s/p`, since `can_fetch` is asked about the link as written.

*Algorithms, dates and pieces.* A date is read as it was written in each of the layouts the patterns
are for, whichever other patterns come first and whichever match as well
(`ReadAsWritten`); `next_month` follows the rule of its documentation (the same
day, or else the nearest), and never skips a month or turns the order of two days
round (`NextMonthNear`; the example beside the rule is the subject of `NextMonth`); batches and fragments join to what was cut, none
is empty, and all but the last have the sizes asked for (`PiecesFit`); cutting
ends (`CutUp`).

### What does not

| Run | Property | What the code does |
|---|---|---|
| CrawlAsIs | `Tried` | With `is_valid` as it is, a page that answers is never marked as tried; it stays at the head of the queue for ever. |
| LateSave | `NoResurrection` | The save of a check that began before `reset_site` brings a deleted page back (`core.py:139`, or 147). |
| Robots | `RobotsRespected` | `can_fetch` is asked about the link as it is written: relative links pass. |
| TwoPages | `NeverTwice` | `http://host` in the site `http://host/`, or `../a` in `/`, makes a second page of one url. |
| NextMonth | `NextMonthExample` | The documentation of `next_month` gives 27 or 28 February as its example; 31 January gives 28, or 29 in a leap year. |

Noted while modelling, and left without a run of their own:

* The toggle saves every column it loaded: a check that ended meanwhile is
  undone, and the page is not checked any more (what `StaysChecked` says of one
  operation at a time).
* `is_local` compares scheme and netloc, not the path of the seed. A full address
  with `..` in it is stored unresolved (see *Algorithms, links* above).
* The seed of a site can be deleted like any page that nothing links to; the site
  then has no frontier until it is reset.
* `urlopen` is called without a timeout (`models.py:448`, `core.py:29`): a server
  that never answers holds its `check` for ever.
* A death between the two saves of `init_site` leaves a site without a page that
  `init` refuses to repair; two inits of one name end in an `IntegrityError` that
  `cmd_init` does not catch. A reset gives the seed status 0, an init -1, and the
  documentation says 0.
* A page that links to itself (a fragment suffices) can never be deleted.
  `is_linkable` is `True` by default and the documentation says `False`.
  `;params` of a link are dropped by `add_page`.
* A Content-Type over 32 characters or a Content-Length that is not a number
  raises before the save, so that the page is retried for ever, as in CrawlAsIs.
* `next_page_to_check` counts before it takes the last: if the page goes in
  between, it draws nothing, `check` ends early and `recheck` calls
  `check_page(None)`.
* `cmd_last` and `cmd_queue` print a row more than asked for. A queue with
  nothing pending lists the checked pages. `progress` exceeds 100 % when pages are
  checked between its two counts. A row of a listing that is pushed over the
  count is cut off, one below a row that leaves or sinks is skipped, and a page number past the end is an uncaught `EmptyPage`.
* `cmd_delete` deletes nothing, and calls `self.success` with an argument it does
  not take; commands given an unknown site end in an `AttributeError`;
  `warning()` prints `{msg}` literally.
* An RFC 822 time without a zone loses the last digit of its seconds; the text
  that `str()` gives for a `datetime` with microseconds is refused; the offset of
  an ISO zone is ignored; `d/month-name/y` needs a year of four digits.
* With `mean_block_size` 0 or a batch size of 0 a generator never ends; no caller
  passes them.
* `index_site` adds a document under the relative url of a page; nothing removes
  it when the page is deleted or the site reset.

### Bounds, and why they are enough

*Interleaved*: `Procs` two, `Urls` two, `MaxOps` four operations, `MaxPk` four
keys. Every hazard listed is between two processes. Four operations let a pair
overlap after an earlier pair has left its traces (a cut-short check, a deleted
page), and four keys let both urls be created, lost and created again. A step
that needs a fifth key is not taken, so nothing wraps. *Sequential* takes five of
each. *Crawl*: every outcome of a check for every page, a cycle, a page that
links to itself, a leaf that is always broken, and two schedulable pages, so that
one can be late because of the other; `Rotation` is two checks, the least that
leaves room. *Plugins*: two names and two texts tell apart which run wrote what;
three runs, so that two may overlap on what a killed one left. *Sites*: four
commands, so that two overlap on a site that two earlier ones left in any state.
*Algorithms*: three pages are the seed and two more levels; a body is one reference,
or several at once, since references of one body do not influence each other
but through the pages they make. December 2023 to March 2025 has a leap February,
an ordinary one, and the turn of two years; six signs with blocks of 2 to 4 let a
text be cut early, late, and leave a short rest.

*Readers*: three urls, so that a listing of one row (`PAGE_SIZE`) has three pages
and a row can be pushed past the one being read; two of them scheduled, so that two
are due at once and the draw must choose; `--num` up to two, so that a draw follows a check and one is made for nothing. One reader is
enough, since readers do not see each other; the others are not bounded.

Symmetry is used over processes, over urls other than the seed, and over texts
(safety runs only). `CHECK_DEADLOCK FALSE` is used where the bounds on operations
or keys stop the system, and in Algorithms and NextMonth, which end; Crawl, Readers
and the two runs of MCLinkExtraction are checked for deadlock.

### Fairness

Crawl, Readers and Algorithms have some. In Readers a command that is not killed
goes on to its next statement (`WF_vars(Reads)`): the database answers, and so do
the servers of the site. The second is assumed of them and not given by the code,
which calls `urlopen` without a timeout (`models.py:448`, `core.py:29`). In
Algorithms the caller of a generator asks for the next
piece. In Crawl, cron keeps running `check`, and every check ends, one way or the
other (the same assumption): weak fairness of a check of a
scheduled page while one is due. The coin `random.random() <= 0.50`
(`models.py:190`) falls on both sides again and again: strong fairness of
`CheckErrors` and of `CheckFrontier`, each of which is enabled only while the
other source is, too. Rotations run out: weak fairness of `Watermark`. A live
page whose check is tried again and again is some day read to its end: strong
fairness of `CheckSucceeds`, which assumes of the server, and not of the code,
that it is not down at every single attempt. Nothing is assumed of dead pages, of
the administrator, or of the order of links in a body.

## 4. Proofs

`tlapm M.tla` for the eight modules that hold theorems: SequenceFacts and those
whose names end in `Proofs`. All theorems hold for every value of the constants
that satisfies the named assumptions, which the runs evaluate:

* Spidercheck: the seed is one of the urls, `MaxPk` is a positive number and
  `MaxOps` a natural one, `ValidResults` is no more than the two values;
* Sites and Plugins: there is a name (and a url) at all, the bounds are natural
  numbers, no plug-in returns the blank default;
* Crawl: `Links` is a function from urls to finite sets of them, a rotation lasts
  one check at least; nothing of the size of the site or what it links;
* Readers: the length of a page of a listing and the bound of `--num` are
  positive;
* LinkExtraction: references are what `urlparse` gives (a path, which is rooted or
  empty after a host), and so is the path of the site;
* Fechas: the first and the last day are dates, in that order, before year 9999;
* Seqtools: sizes are positive, and a text is a sequence.

| Module | Theorem | Statement |
|---|---|---|
| SpidercheckProofs | `TypeCorrect` | `Spec => []TypeOK` |
| | `PagesUnique` | `Spec => []UniquePages` |
| | `CheckedAtSound` | `Spec => []CheckedAtAgrees` |
| | `ErrorsSound` | `Spec => []ErrorsExplained` |
| | `LinksHaveEnds` | `Spec => []NoDanglingLinks` |
| | `LinksExact` | `Spec => LinksMatchBody` |
| | `LinkableAlone` | `Alone` and `Spec` imply `[]LinkableRespected` |
| | `OrphansAlone`, `CheckedAlone`, `TimesAlone`, `DeletedAlone` | the same for `OnlyOrphansDeleted`, `StaysChecked`, `CheckedAtAdvances`, `NoResurrection` |
| | `ImplementsAlone` | `Alone` and `Spec` imply `Implements` |
| SitesProofs | `TypeCorrect`, `SitesUnique`, `SeedsAccounted`, `ResetsRestore` | `TypeOK`, `OneSite`, `SeedAccounted`, `ResetRestores` |
| PluginsProofs | `TypeCorrect`, `ValuesUnique`, `BlanksExplained`, `ValuesExact` | `TypeOK`, `OneValue`, `BlankExplained`, `ValuesMatchRun` |
| CrawlProofs | `TypeCorrect`, `FirstChecksInOrder`, `WaitsForScheduledOnly` | `TypeOK`, `FirstFoundFirstChecked`, `ScheduledFirst` |
| ReadersProofs | `TypeCorrect`, `DrawsInOrder`, `ReportsAgree`, `MissesNothing` | `TypeOK`, `DrawnInOrder`, `CountsAgree`, `NothingMissed` |
| LinkProofs | `TypeCorrect`, `RobotsKeptAtRoot` | `TypeOK`, `RobotsAtRoot` |
| | `LinksAreFollowed`, `OneAddressEach`, `SelfOnlyByFragment` | if the site's address has a path without `..`: `LinksFollowed`, `OneAddress`, `SelfByFragment` |
| FunctionsProofs | `NextMonthIsDate`, `NextMonthInOrder` | for all dates, `next_month` is a date of the month that follows and keeps the order |
| | `NextMonthsNear` | `MCSpec => []NextMonthNear`, between any two dates |
| | `DatesReadAsWritten` | if the days are of the years 2000 to 2099: `MCSpec => []ReadAsWritten` |
| | `PiecesAlwaysFit` | if `mean_block_size <= max_block_size`: `MCSpec => []PiecesFit` |

### Spidercheck, any number of processes

None of the first four is inductive, for one reason: an instance a process holds
is a row the table may have later. Each invariant is therefore strengthened with
what it says of held instances.

* `TypeInv` adds `HeldKeys`: an instance that will be saved has a key that was
  handed out. Without it, a save could put a key beyond the sequence in the
  table.
* `KeyInv` is `UniquePages` and `OneUrl`: a key stands for one url in the table
  and in all held instances. That makes the save of a stale instance safe: an
  UPDATE cannot change the url of a row, and if the row is gone the save is an
  INSERT and subject to the constraint.
* `RowsInv` says of every row and of every instance that can still be saved that
  `is_checked` agrees with `checked_at` and that a broken, checked row has its
  message. An instance at `head` is the exception: it is marked and not yet
  answered, and the code never saves it so.

The step lemmas do not go through the actions again for each invariant:
`StepHasShape` shows once that every step moves the table in one of a few ways
(`PageMove`) and the held instances in one of a few (`HeldMove`), and the
invariants are shown for those. `LinksHaveEnds` is inductive as it stands and
goes through the actions directly.

`LinksExact` needs the invariant of a loop. `LoopInv` says what the table of
links holds while `_update_links` runs: the links of the page lead to `before`
and `after` together, `after` is the linkable pages among the urls the loop is
through with, and each of those urls has its page. It holds only while nobody
else writes, so the invariant is `quiet => LoopInv`, and a step of another process
either leaves the tables alone or ends `quiet`.

### One operation at a time

The second half of SpidercheckProofs assumes `Alone == \A v, w \in Procs : v = w` and nothing else: any
urls, keys, operations, any death. With one process an instance is never stale,
and `HeldAlone` says at each statement how the instance held relates to its row:
at `saved` it is the row, at `head` it is a newer attempt on it, at `delete` the
row has no incoming link. From `AloneInv` every step has one of nine effects on
the tables (`Effect`), and the four action properties and the refinement of
SiteSpec are proved of those nine, not action by action. What breaks these
theorems with two processes is exactly what is in Sequential and not in
Interleaved; the invariant is what a lock around an operation would restore.

### Sites and Plugins

`OneSite` needs that a new key is a new one; `SeedAccounted`, that a command that
works on a site has saved or loaded it (`OwnSaved`), and that an instance of a seed
that is saved late is of a site there is (`SeededOK`). `ResetRestores` follows from
`QuietInv`: between the deletion of the pages and the INSERT of the seed, nobody
but the reset itself brings the seed back, unless the reset was disturbed.

`OneValue` needs `KeyKnown`, of the same kind as `KeyInv`: whoever is about to save
by a key holds the name that goes with it in the table, and all holders of a key
hold one name. Without the last part, two runs could bring a deleted row back
under two names. `BlankExplained` needs `Wanted`: what is stored was returned, and
is therefore not blank. `ValuesExact` is a loop invariant again
(`StoredSoFar`): nothing is stored that was not returned, and what is not left to
store has its text.

### Sequences

The states of Crawl, Readers, LinkExtraction and Seqtools are sequences, and their
operators are defined by recursion or by `CHOOSE`. The induction theorems of the
library take a predicate, which the provers cannot instantiate; `NatInduct` in
SequenceFacts is induction over a *set* of naturals, and follows from `WFMin`. A
recursive function is a `CHOOSE` of a function that satisfies its equation, so that
there is one has to be shown first, by induction on the length (`FilterExists` for
`Without`, `JoinExists` for `FlattenSeq`, `ResolvedExists` for `Resolved`); the
equation then gives the values. The other lemmas say what a table of rows is after
a row was moved to its end, taken out, appended or turned round, and in which
order its rows then stand (`ToEndOrder`).

### Crawl

`TypeInv` is `TypeOK` with the tables as sequences without repetition.
`FirstFoundFirstChecked` is inductive over it: a first check of a page that is
drawn from the frontier is the first unchecked row. `ScheduledFirst` is not:
`wait[u]` counts the draws while `u` was due, and that it is bounded follows only
from *who* was drawn. `After(u)` is the scheduled pages that were checked after
`u`; `WaitInv` says that `wait[u]` is at most their number. Whoever is drawn while
`u` waits is scheduled, and was not in `After(u)` (of the due pages the one checked
longest ago is drawn, so `u` would have come first), and is in it afterwards.

### Readers

* `DrawInv` (`DrawnInOrder`) says what the SELECTs already run have established of
  the pages left alone: once the queue was found empty, or no longer the one to
  read, none of them is waiting in it. A page that is left alone keeps its place
  among the others that are, whatever rows are put in or taken out between them
  (`Precedes`, and the lemmas about it in SequenceFacts), so that the last SELECT,
  which takes the first row of all, takes none behind one of those. While nobody
  writes at all, it says more: at `lastError` there is an error, and the list that
  was chosen is the one that fits.
* `CountInv` (`CountsAgree`) treats each report as a list of statements. While
  nobody writes, each number shown is what it would be now. While no page leaves
  the checked ones (`kept`), the number of errors shown is at most the number of
  checked pages *now*, and so at most the number that a later statement shows: that
  is why the order of the statements matters.
* `RowsInv` (`NothingMissed`) says that the rows left alone and not yet seen are on
  the page that is read next or further down. It holds while no row leaves or sinks
  (`steady`): then a check takes a row from somewhere and puts it no lower, which
  moves others down and never up.

All three, and the invariants of Crawl, Fechas and Seqtools, were invariants of a
TLC run before they were proved.

### Links

`Spec` alone gives `LinkInv`: a link comes from a reference that
`get_all_valid_links` took, and leads to its `Target`. The rest is about the
operators. `Normal` leaves a path without `..` as it is (`NormalPlain`), leaves no
`..` (`NormalType`), and keeps the root of what does not climb over it
(`NormalRooted`, where `Climbs` says that at some segment nothing is left).
Therefore the target of an ordinary reference is rooted and has no `..`, its path
in the site is its own (`PathOfRooted`), and putting its url together gives back
what was stored (`FullOfRooted`): that is `OneAddress`, and, since the relative
and the full url of the page joined from are the same then, `LinksFollowed`. The
hypothesis on the path of the site is needed: with an empty one, the seed has a
relative url that `urljoin` takes as no base at all.

### Dates and pieces

`NextMonthNear` needs `DayInv`, that walking day by day stays on dates up to the
last day, and that the days before a month are the days before the one before it
and its length (`MonthAdds`: twelve cases, with the leap days of four, a hundred
and four hundred years over the turn of the year). `PiecesFit` needs that given and
rest are made of the signs of the text (`PiecesInv`), and that joining pieces is
associative with appending one (`FlattenAppend`). Its hypothesis is what the
docstring says of the defaults ("entre 3000 y 4000"); with a mean above the
maximum no fragment could be as long as the mean.

`ReadAsWritten` holds of some thirty layouts on each day, against eleven patterns
tried in order. The proof does not try each against each. `PatternsShaped` says,
for the patterns of each length, where the fields of each are and which element
of a text tells it from the others (`Shapes`); a text can only match patterns of
its own length. `FirstRead` then says that the first pattern that matches reads
what was written, provided one matches and all that match read the same, so that
a lemma for each layout (`ReadDayFirst` to `ReadRfcMoment`) has only to exclude,
by that element, the patterns that would read it otherwise. What a pattern reads
is then the values at the places of its fields (`DateRead`, `ClockRead`,
`TensRead`). The invariant is `CenturyInv`: `DayInv`, and the day is not before
the first one's year. The hypothesis is what the code decides: it takes a year
up to 100 as of this century, and no other can be read back from two digits.

### Only model-checked

Liveness under fairness (`Covered`, `Rechecked`, `Ends`, `CutUp`), which is out of
the prover's reach. The refinement of SiteSpec and the five properties of
Sequential are not proved for more than one process, where they do not hold.

## 5. Not modelled, and assumptions

* The database is trusted to keep its constraints and to run one statement at a
  time; `delete()` with its cascades is one transaction.
* `just_now` does not go back. It is local wall-clock time, and does so once a
  year; `checked_at` is then out of order for an hour.
* In Crawl, `Rotation` is at least the number of scheduled pages. With shorter
  rotations scheduled pages starve the queue, which is what the documentation
  promises for them.
* HTML tokens are those of `html.parser`; `;params`, `.` and `//` inside a path,
  and percent-encoding, are left out of LinkExtraction. The names in robots.txt
  are whole segments.
* `size_bytes`, `content_type`, `check_time` are not kept: nothing reads them
  back.
* What each plug-in extracts from a body is an input. `plugins/index_site` and
  `search.py` call an adapter that is not in the repository; its documents are
  not modelled.
* Readers draws and counts; the rest of what a report prints, templates, links
  between views, urls and path converters keep no state and are left out. So are
  `results.Success` and `results.Failure` (two constructors and their accessors;
  that `Success().value` is `True` is in CheckPage) and `is_valid_html`, whose
  outcome is a choice in CheckPage.
* Of `fechas`, the functions around the clock (`just_now`, `last_hours`,
  `this_year`), and those that only build a value (`num_days`, `num_seconds`,
  `new_date`, `from_timestamp`) are left out.
* A plug-in that returns an empty text for a name is not told apart from one that
  returns some text: `Blank` stands for the default only.
* Weekdays, blanks of more than one sign and case are not told apart in the
  tokens of Fechas.

## 6. Plan

Done: all modules of section 2, and theorems for every safety property the passing
runs check.

Next, in this order:

1. The documents of the search index beside the tables: what they owe to pages
   that are deleted or reset.
2. A clock that goes back in Crawl.
3. Deletions while crawling in Crawl, with the liveness that is left then.
4. Theorems of LinkExtraction for a site whose address has no path, where fewer
   links are ordinary.
