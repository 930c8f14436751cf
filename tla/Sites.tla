-------------------------------- MODULE Sites --------------------------------
(***************************************************************************)
(* The sites: core.init_site and core.reset_site, statement by statement,  *)
(* as run by the init and reset commands, several at a time, each of which *)
(* may die between two statements; and those who save and delete the seed  *)
(* of a site meanwhile.                                                    *)
(*                                                                         *)
(* A url stands for (scheme, netloc, path). Of the pages of a site only    *)
(* its seed is kept; CheckPage has the others.                             *)
(***************************************************************************)
EXTENDS Integers, FiniteSets, Functions

CONSTANTS Procs, Names, Urls,
          MaxOps    \* bound: commands ever started

ASSUME SitesAssumption == MaxOps \in Nat /\ Names # {} /\ Urls # {}

VARIABLES site,     \* table site: id_site -> [name, url]
          seed,     \* id_site -> the row of its seed page, where there is one
          nextPk,   \* sequence behind id_site
          ops,      \* number of commands started
          pc,       \* next statement of each process
          arg,      \* arg[w]: the name and url the command was given
          own,      \* own[w]: the site w has saved or loaded, 0 if none
          outcome,  \* outcome[w]: how the last command of w ended
          seeded,   \* (history) sites that have had a seed, which somebody
                    \* may still hold
          cut,      \* (history) sites without a seed because a command was
                    \* killed or because somebody deleted it
          quiet     \* (history) nobody else has written since w began

vars == <<site, seed, nextPk, ops, pc, arg, own, outcome, seeded, cut, quiet>>

SeedRow == [status : {-1, 0, 200}, is_checked : BOOLEAN]

\* The seed as init_site and as load_or_create make it.
InitialPage == [status |-> -1, is_checked |-> FALSE]
AddedPage   == [status |-> 0, is_checked |-> FALSE]

\* ... and as check_page does.
CheckedPage == [status |-> 200, is_checked |-> TRUE]

Command == [name : Names, url : Urls]
NoCommand == CHOOSE c \in Command : TRUE

Outcomes == {"none", "done", "ValueError", "IntegrityError", "killed"}

Init ==
    /\ site = [s \in {} |-> s]
    /\ seed = [s \in {} |-> s]
    /\ nextPk = 1
    /\ ops = 0
    /\ pc = [w \in Procs |-> "idle"]
    /\ arg = [w \in Procs |-> NoCommand]
    /\ own = [w \in Procs |-> 0]
    /\ outcome = [w \in Procs |-> "none"]
    /\ seeded = {}
    /\ cut = {}
    /\ quiet = [w \in Procs |-> FALSE]

-----------------------------------------------------------------------------
(* Statements *)

Named(n) == {s \in DOMAIN site : site[s].name = n}
Put(f, k, row) == [j \in DOMAIN f \cup {k} |-> IF j = k THEN row ELSE f[j]]

\* Wrong variant: site.name is not unique.
SiteInsertFails_UrlOnly(c) == \E s \in DOMAIN site : site[s].url = c.url

\* name is unique, and so is the url (unique_url).
SiteInsertFails(c) ==
    \E s \in DOMAIN site : site[s].name = c.name \/ site[s].url = c.url

Go(w, l) == pc' = [pc EXCEPT ![w] = l]

\* The command of w ends.
End(w, o) ==
    /\ Go(w, "idle")
    /\ outcome' = [outcome EXCEPT ![w] = o]
    /\ own' = [own EXCEPT ![w] = 0]

Start(w, c) ==
    /\ pc[w] = "idle"
    /\ ops < MaxOps
    /\ ops' = ops + 1
    /\ arg' = [arg EXCEPT ![w] = c]

-----------------------------------------------------------------------------
(* init_site *)

\* if Site.load_site_by_name(name): raise ValueError
InitTest(w, c) ==
    /\ Start(w, c)
    /\ IF Named(c.name) # {}
       THEN End(w, "ValueError")
       ELSE Go(w, "site") /\ UNCHANGED <<own, outcome>>
    /\ UNCHANGED <<site, seed, nextPk>>

\* Wrong variant: the page is left for later.
InitSite_NoPage(w) ==
    /\ pc[w] = "site"
    /\ nextPk' = nextPk + 1
    /\ IF SiteInsertFails(arg[w])
       THEN End(w, "IntegrityError") /\ UNCHANGED site
       ELSE End(w, "done") /\ site' = Put(site, nextPk, arg[w])
    /\ UNCHANGED <<seed, ops, arg>>

\* Wrong variant: the sequence does not advance.
InitSite_SameKey(w) ==
    /\ pc[w] = "site"
    /\ ~ SiteInsertFails(arg[w])
    /\ site' = Put(site, nextPk, arg[w])
    /\ own' = [own EXCEPT ![w] = nextPk]
    /\ Go(w, "page")
    /\ UNCHANGED <<seed, nextPk, ops, arg, outcome>>

\* site.save()
InitSite(w) ==
    /\ pc[w] = "site"
    /\ nextPk' = nextPk + 1
    /\ IF SiteInsertFails(arg[w])
       THEN End(w, "IntegrityError") /\ UNCHANGED site
       ELSE /\ site' = Put(site, nextPk, arg[w])
            /\ own' = [own EXCEPT ![w] = nextPk]
            /\ Go(w, "page")
            /\ UNCHANGED outcome
    /\ UNCHANGED <<seed, ops, arg>>

\* initial_page.save(): another process may have added the seed meanwhile.
InitPage(w) ==
    /\ pc[w] = "page"
    /\ IF own[w] \in DOMAIN seed
       THEN End(w, "IntegrityError") /\ UNCHANGED seed
       ELSE End(w, "done") /\ seed' = Put(seed, own[w], InitialPage)
    /\ UNCHANGED <<site, nextPk, ops, arg>>

-----------------------------------------------------------------------------
(* reset_site *)

\* site = Site.load_site_by_name(name); if not site: raise ValueError
ResetLoad(w, c) ==
    /\ Start(w, c)
    /\ \/ Named(c.name) = {} /\ End(w, "ValueError")
       \/ \E s \in Named(c.name) :
          /\ own' = [own EXCEPT ![w] = s]
          /\ Go(w, "delete")
          /\ UNCHANGED outcome
    /\ UNCHANGED <<site, seed, nextPk>>

\* site.pages.all().delete()
ResetDelete(w) ==
    /\ pc[w] = "delete"
    /\ seed' = Restrict(seed, DOMAIN seed \ {own[w]})
    /\ Go(w, "find")
    /\ UNCHANGED <<site, nextPk, ops, arg, own, outcome>>

\* load_or_create: the SELECT
ResetFind(w) ==
    /\ pc[w] = "find"
    /\ IF own[w] \in DOMAIN seed
       THEN End(w, "done")
       ELSE Go(w, "add") /\ UNCHANGED <<own, outcome>>
    /\ UNCHANGED <<site, seed, nextPk, ops, arg>>

\* Wrong variant: the seed comes back as it was before.
ResetAdd_Checked(w) ==
    /\ pc[w] = "add"
    /\ IF own[w] \in DOMAIN seed
       THEN End(w, "IntegrityError") /\ UNCHANGED seed
       ELSE /\ End(w, "done")
            /\ seed' = Put(seed, own[w], [AddedPage EXCEPT !.is_checked = TRUE])
    /\ UNCHANGED <<site, nextPk, ops, arg>>

\* ... and the INSERT
ResetAdd(w) ==
    /\ pc[w] = "add"
    /\ IF own[w] \in DOMAIN seed
       THEN End(w, "IntegrityError") /\ UNCHANGED seed
       ELSE End(w, "done") /\ seed' = Put(seed, own[w], AddedPage)
    /\ UNCHANGED <<site, nextPk, ops, arg>>

-----------------------------------------------------------------------------

\* The command is killed.
Abort(w) ==
    /\ pc[w] # "idle"
    /\ End(w, "killed")
    /\ UNCHANGED <<site, seed, nextPk, ops, arg>>

\* Those who save and delete seeds leave the commands as they are, and disturb
\* them all.
Others ==
    /\ UNCHANGED <<site, nextPk, ops, pc, arg, own, outcome>>
    /\ quiet' = [w \in Procs |-> FALSE]

\* A check or a toggle saves the seed as it has read it, or a check of another
\* page finds its url again: a row that was deleted meanwhile is there again.
SaveSeed(s) ==
    /\ s \in seeded
    /\ \E row \in {InitialPage, AddedPage, CheckedPage} : seed' = Put(seed, s, row)
    /\ cut' = cut \ {s}
    /\ UNCHANGED seeded
    /\ Others

\* page_delete, site_expunge and site_expunge_all: no page links to the seed.
DeleteSeed(s) ==
    /\ s \in DOMAIN seed
    /\ seed' = Restrict(seed, DOMAIN seed \ {s})
    /\ cut' = cut \cup {s}
    /\ UNCHANGED seeded
    /\ Others

Step(w) ==
    \/ \E c \in Command : InitTest(w, c) \/ ResetLoad(w, c)
    \/ InitSite(w)
    \/ InitPage(w)
    \/ ResetDelete(w)
    \/ ResetFind(w)
    \/ ResetAdd(w)
    \/ Abort(w)

\* What a step of w does to the history variables.
Observe(w) ==
    /\ quiet' = [v \in Procs |->
                   IF v = w THEN pc[w] = "idle" \/ quiet[w]
                   ELSE quiet[v] /\ site' = site /\ seed' = seed]
    /\ seeded' = seeded \cup DOMAIN seed'
    /\ cut' = (cut \cup IF pc[w] # "idle" /\ pc'[w] = "idle" /\ outcome'[w] = "killed"
                        THEN {own[w]} ELSE {}) \ DOMAIN seed'

Next ==
    \/ \E w \in Procs : Step(w) /\ Observe(w)
    \/ \E s \in 1 .. MaxOps : SaveSeed(s) \/ DeleteSeed(s)

Spec == Init /\ [][Next]_vars

-----------------------------------------------------------------------------
(* Properties *)

\* Types.
TypeOK ==
    /\ DOMAIN site \subseteq 1 .. (nextPk - 1)
    /\ \A s \in DOMAIN site : site[s] \in Command
    /\ \A s \in DOMAIN seed : seed[s] \in SeedRow
    /\ ops \in 0 .. MaxOps
    /\ pc \in [Procs -> {"idle", "site", "page", "delete", "find", "add"}]
    /\ arg \in [Procs -> Command]
    /\ own \in [Procs -> {0} \cup DOMAIN site]
    /\ outcome \in [Procs -> Outcomes]
    /\ DOMAIN seed \subseteq seeded /\ seeded \subseteq DOMAIN site
    /\ cut \subseteq Nat

\* No two sites have one name or one url, though the test of init_site and its
\* INSERT are two statements.
OneSite ==
    \A r, s \in DOMAIN site :
        site[r].name = site[s].name \/ site[r].url = site[s].url => r = s

\* A site without its seed is one that an init or a reset is working on, or one
\* that was left so when a command was killed or when somebody deleted the seed
\* by hand, and nobody has put it back since: inits and resets that overlap, with
\* late saves between their statements, never take it away between them.
SeedAccounted ==
    \A s \in DOMAIN site \ DOMAIN seed :
        s \in cut \/ \E w \in Procs : own[w] = s /\ pc[w] \in {"page", "delete", "find", "add"}

\* A reset that nobody disturbs leaves the seed, not checked, whatever was
\* there before.
ResetRestores ==
    [][\A w \in Procs :
         pc[w] \in {"find", "add"} /\ pc'[w] = "idle" /\ quiet[w] /\ outcome'[w] # "killed" =>
            /\ outcome'[w] = "done"
            /\ own[w] \in DOMAIN seed' /\ ~ seed'[own[w]].is_checked]_vars
=============================================================================
