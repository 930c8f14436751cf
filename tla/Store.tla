-------------------------------- MODULE Store --------------------------------
(***************************************************************************)
(* The tables page and link of one site (models.py) and the Django         *)
(* processes that work on them: web requests and management commands.      *)
(*                                                                         *)
(* A process is a sequence of ORM statements, each committed on its own    *)
(* (Django's autocommit default), so one action is at most one write.      *)
(* Between two statements it holds Page instances that may be stale.       *)
(*                                                                         *)
(* Data kept: a url stands for the pair (subpath, params) that identifies  *)
(* a page in its site; checked_at is a logical time, 0 being EPOCH;        *)
(* status is one of the codes the code can store; error_message is only    *)
(* "present or not". size_bytes, content_type and check_time are           *)
(* left out: nothing reads them back.                                      *)
(***************************************************************************)
EXTENDS Integers, FiniteSets

CONSTANTS Procs,   \* requests and commands that may run at the same time
          Urls,    \* the (subpath, params) pairs of the site
          Seed,    \* the url of the site itself: Site.path, no params
          Ops,     \* the operations in use: check, toggle, delete,
                   \* expunge, reset
          MaxPk,   \* bound: primary keys that are ever handed out
          MaxOps   \* bound: operations (requests, commands) ever started

ASSUME StoreAssumption ==
    /\ Seed \in Urls
    /\ MaxPk \in Nat \ {0}
    /\ MaxOps \in Nat

VARIABLES page,     \* table page: primary key -> row
          link,     \* table link: set of <<from_page, to_page>>
          nextPk,   \* sequence behind Page.id_page
          clock,    \* number of operations started, used as the time
          pc,       \* pc[w]: the next statement of process w, or "idle"
          inst      \* inst[w]: the Page instance w has loaded

storeVars == <<page, link, nextPk, clock, pc, inst>>

-----------------------------------------------------------------------------
EPOCH == 0

\* 0: default; -1: init_site and a failed HEAD; 418: html that does not parse
Statuses == {-1, 0, 200, 418}

Row == [url : Urls, is_checked : BOOLEAN, checked_at : Nat,
        status : Statuses, error_message : BOOLEAN, is_linkable : BOOLEAN]

\* The field defaults of Page.
NewRow(u) == [url |-> u, is_checked |-> FALSE, checked_at |-> EPOCH,
              status |-> 0, error_message |-> FALSE, is_linkable |-> TRUE]

Instance == [pk : Nat, row : Row]
NoInstance == [pk |-> 0, row |-> NewRow(Seed)]

-----------------------------------------------------------------------------
(* Queries *)

is_ok(row) == 200 <= row.status /\ row.status < 300

\* Site.pages_with_errors: status__range includes both ends.
PagesWithErrors ==
    {p \in DOMAIN page :
        page[p].is_checked /\ ~ (200 <= page[p].status /\ page[p].status <= 300)}

\* The pages that answer "subpath = %s AND params = %s".
PagesAt(u) == {p \in DOMAIN page : page[p].url = u}

OutgoingLinks(p) == {q \in DOMAIN page : <<p, q>> \in link}
IncomingLinks(p) == {q \in DOMAIN page : <<q, p>> \in link}

can_be_deleted(p) == IncomingLinks(p) = {}

-----------------------------------------------------------------------------
(* Statements. page' is the table after the statement. *)

Put(k, row) == [p \in DOMAIN page \cup {k} |-> IF p = k THEN row ELSE page[p]]

Without(S) == [p \in DOMAIN page \ S |-> page[p]]

\* Wrong variant: the table has no unique constraint.
InsertFails_NoConstraint(u) == FALSE

\* unique_full_path: an INSERT whose (site, subpath, params) is taken raises
\* IntegrityError.
InsertFails(u) == PagesAt(u) # {}

\* Wrong variant: the fallback INSERT of save() is not constrained.
SaveFails_Never(k, row) == FALSE

\* Model.save() writes every column with an UPDATE; when no row has the key,
\* it falls back to an INSERT that keeps the key of the instance.
SaveFails(k, row) == k \notin DOMAIN page /\ InsertFails(row.url)

Save(k, row) ==
    page' = IF SaveFails(k, row) THEN page ELSE Put(k, row)

\* Wrong variant: the sequence does not advance.
Insert_SameKey(row) ==
    /\ nextPk <= MaxPk
    /\ page' = IF InsertFails(row.url) THEN page ELSE Put(nextPk, row)
    /\ nextPk' = nextPk

\* Page(...).save() of a new instance: the key comes from the sequence, which
\* advances even when the INSERT fails.
Insert(row) ==
    /\ nextPk <= MaxPk
    /\ page' = IF InsertFails(row.url) THEN page ELSE Put(nextPk, row)
    /\ nextPk' = nextPk + 1

\* Wrong variant: only the links that leave the page go with it.
Delete_OutgoingOnly(S) ==
    /\ page' = Without(S)
    /\ link' = {l \in link : l[1] \notin S}

\* page.delete() and pages.all().delete(): one transaction that removes the
\* rows and, by CASCADE, every link from or to them.
Delete(S) ==
    /\ page' = Without(S)
    /\ link' = {l \in link : l[1] \notin S /\ l[2] \notin S}

\* Link.objects.get_or_create: the foreign keys must exist.
LinkFails(p, q) == p \notin DOMAIN page \/ q \notin DOMAIN page

-----------------------------------------------------------------------------
(* Processes *)

\* An idle process starts an operation; the time moves on.
Start(w) ==
    /\ pc[w] = "idle"
    /\ clock < MaxOps
    /\ clock' = clock + 1

\* Go(w, l, i): w continues at statement l holding instance i.
Go(w, l, i) ==
    /\ pc' = [pc EXCEPT ![w] = l]
    /\ inst' = [inst EXCEPT ![w] = i]

\* The operation returns, or raises: its local state is gone.
Return(w) == Go(w, "idle", NoInstance)

\* init_site has just run: a Site and its only page, status -1.
StoreInit ==
    /\ page = [p \in {1} |-> [NewRow(Seed) EXCEPT !.status = -1]]
    /\ link = {}
    /\ nextPk = 2
    /\ clock = 0
    /\ pc = [w \in Procs |-> "idle"]
    /\ inst = [w \in Procs |-> NoInstance]
=============================================================================
