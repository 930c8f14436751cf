----------------------------- MODULE SitesProofs -----------------------------
(***************************************************************************)
(* Theorems about Sites, for any number of processes, names, urls and      *)
(* commands. SeedAccounted is inductive once it is known that a command    *)
(* works on a site that has been saved; OneSite, once it is known that a   *)
(* new key is a new one.                                                   *)
(***************************************************************************)
EXTENDS Sites, TLAPS

Working == {"page", "delete", "find", "add"}

\* A command that works on a site has saved or loaded it.
OwnSaved == \A w \in Procs : pc[w] \in Working => own[w] \in DOMAIN site

TypeInv == TypeOK /\ OwnSaved /\ nextPk \in Nat \ {0}

-----------------------------------------------------------------------------
(* What a step does *)

\* The parts of TypeInv about the processes.
ProcOK ==
    /\ ops \in 0 .. MaxOps
    /\ pc \in [Procs -> {"idle"} \cup {"site"} \cup Working]
    /\ arg \in [Procs -> Command]
    /\ own \in [Procs -> {0} \cup DOMAIN site]
    /\ outcome \in [Procs -> Outcomes]

\* The parts about the tables.
TableOK ==
    /\ DOMAIN site \subseteq 1 .. (nextPk - 1)
    /\ \A s \in DOMAIN site : site[s] \in Command
    /\ DOMAIN seed \subseteq DOMAIN site
    /\ \A s \in DOMAIN seed : seed[s] \in SeedRow
    /\ nextPk \in Nat \ {0}

\* The parts about the history.
SeededOK == DOMAIN seed \subseteq seeded /\ seeded \subseteq DOMAIN site

LEMMA TypeParts == TypeInv <=> ProcOK /\ TableOK /\ SeededOK /\ OwnSaved /\ cut \subseteq Nat
BY DEF TypeInv, TypeOK, ProcOK, TableOK, SeededOK, Working

\* The rows the code makes are rows.
LEMMA RowsOK ==
    /\ NoCommand \in Command
    /\ InitialPage \in SeedRow /\ AddedPage \in SeedRow
    /\ CheckedPage \in SeedRow
<1>1. PICK n \in Names, u \in Urls : TRUE
  BY SitesAssumption
<1>2. [name |-> n, url |-> u] \in Command
  BY <1>1 DEF Command
<1>4. NoCommand \in Command
  BY <1>2 DEF NoCommand
<1>3. InitialPage \in SeedRow /\ AddedPage \in SeedRow /\ CheckedPage \in SeedRow
  BY DEF InitialPage, AddedPage, CheckedPage, SeedRow
<1> QED
  BY <1>4, <1>3

\* The table site: it grows by one row with a new key, or stays.
SiteStays == site' = site /\ nextPk' = nextPk
SiteGrows == \E c \in Command : /\ ~ SiteInsertFails(c)
                                /\ site' = Put(site, nextPk, c)
                                /\ nextPk' = nextPk + 1

\* The seeds: that of one saved site goes, comes, or is checked.
SeedStays == seed' = seed
SeedGoes(s) == seed' = Restrict(seed, DOMAIN seed \ {s})
SeedComes(s) == \E row \in SeedRow : seed' = Put(seed, s, row)

\* Every step of w, by what it does to the tables.
LEMMA TablesStep ==
    ASSUME TypeInv, NEW w \in Procs, Step(w)
    PROVE  /\ SiteStays \/ (nextPk' = nextPk + 1 /\ site' = site) \/ SiteGrows
           /\ SeedStays \/ \E s \in DOMAIN site : SeedGoes(s) \/ SeedComes(s)
<1> USE DEF SiteStays, SiteGrows, SeedStays, SeedGoes, SeedComes
<1>1. CASE \E c \in Command : InitTest(w, c) \/ ResetLoad(w, c)
  BY <1>1 DEF InitTest, ResetLoad
<1>2. CASE InitSite(w)
  <2>1. arg[w] \in Command
    BY DEF TypeInv, TypeOK
  <2> QED
    BY <1>2, <2>1 DEF InitSite
<1>3. CASE InitPage(w)
  <2>1. own[w] \in DOMAIN site
    BY <1>3 DEF InitPage, TypeInv, OwnSaved, Working
  <2> QED
    BY <1>3, <2>1, RowsOK DEF InitPage
<1>4. CASE ResetDelete(w)
  <2>1. own[w] \in DOMAIN site
    BY <1>4 DEF ResetDelete, TypeInv, OwnSaved, Working
  <2> QED
    BY <1>4, <2>1 DEF ResetDelete
<1>5. CASE ResetFind(w)
  BY <1>5 DEF ResetFind
<1>6. CASE ResetAdd(w)
  <2>1. own[w] \in DOMAIN site
    BY <1>6 DEF ResetAdd, TypeInv, OwnSaved, Working
  <2> QED
    BY <1>6, <2>1, RowsOK DEF ResetAdd
<1>7. CASE Abort(w)
  BY <1>7 DEF Abort
<1> QED
  BY <1>1, <1>2, <1>3, <1>4, <1>5, <1>6, <1>7 DEF Step

\* Rows of table site are never changed, and never go.
LEMMA SiteKept ==
    ASSUME TableOK, SiteStays \/ (nextPk' = nextPk + 1 /\ site' = site) \/ SiteGrows
    PROVE  /\ DOMAIN site \subseteq DOMAIN site'
           /\ \A s \in DOMAIN site : site'[s] = site[s]
           /\ \A s \in DOMAIN site' \ DOMAIN site : s = nextPk
           /\ DOMAIN site' \subseteq 1 .. (nextPk' - 1)
           /\ \A s \in DOMAIN site' : site'[s] \in Command
           /\ nextPk' \in Nat \ {0}
<1>1. CASE site' = site
  BY <1>1 DEF TableOK, SiteStays, SiteGrows
<1>2. CASE SiteGrows
  BY <1>2 DEF TableOK, SiteGrows, Put
<1> QED
  BY <1>1, <1>2 DEF SiteStays

LEMMA TablesOK ==
    ASSUME TableOK,
           SiteStays \/ (nextPk' = nextPk + 1 /\ site' = site) \/ SiteGrows,
           SeedStays \/ \E s \in DOMAIN site : SeedGoes(s) \/ SeedComes(s)
    PROVE  TableOK'
<1>1. DOMAIN seed' \subseteq DOMAIN site /\ \A s \in DOMAIN seed' : seed'[s] \in SeedRow
  <2>1. CASE SeedStays
    BY <2>1 DEF SeedStays, TableOK
  <2>2. ASSUME NEW s \in DOMAIN site, SeedGoes(s)
        PROVE  <1>1
    BY <2>2 DEF SeedGoes, TableOK, Restrict
  <2>3. ASSUME NEW s \in DOMAIN site, SeedComes(s)
        PROVE  <1>1
    BY <2>3 DEF SeedComes, TableOK, Put
  <2> QED
    BY <2>1, <2>2, <2>3
<1> QED
  BY <1>1, SiteKept DEF TableOK

-----------------------------------------------------------------------------
(* Types *)

\* A step of w changes what w is at, and nothing of the other processes.
LEMMA ProcStep ==
    ASSUME TypeInv, NEW w \in Procs, Step(w),
           DOMAIN site \subseteq DOMAIN site', DOMAIN site' \subseteq 1 .. (nextPk' - 1)
    PROVE  /\ ProcOK'
           /\ pc'[w] \in Working => own'[w] \in DOMAIN site'
           /\ \A v \in Procs \ {w} : pc'[v] = pc[v] /\ own'[v] = own[v]
<1> USE DEF ProcOK, Go, End, Outcomes, Working
<1>0. ProcOK /\ (pc[w] \in Working => own[w] \in DOMAIN site)
  BY TypeParts DEF OwnSaved
<1>1. ASSUME NEW c \in Command, InitTest(w, c)
      PROVE  /\ ProcOK' /\ (pc'[w] \in Working => own'[w] \in DOMAIN site')
             /\ \A v \in Procs \ {w} : pc'[v] = pc[v] /\ own'[v] = own[v]
  BY <1>0, <1>1, SitesAssumption DEF InitTest, Start
<1>2. ASSUME NEW c \in Command, ResetLoad(w, c)
      PROVE  /\ ProcOK' /\ (pc'[w] \in Working => own'[w] \in DOMAIN site')
             /\ \A v \in Procs \ {w} : pc'[v] = pc[v] /\ own'[v] = own[v]
  BY <1>0, <1>2, SitesAssumption DEF ResetLoad, Start, Named
<1>3. CASE InitSite(w)
  <2>1. CASE SiteInsertFails(arg[w])
    BY <1>0, <1>3, <2>1 DEF InitSite
  <2>2. CASE ~ SiteInsertFails(arg[w])
    <3>1. nextPk \in DOMAIN site'
      BY <1>3, <2>2 DEF InitSite, Put
    <3> QED
      BY <1>0, <1>3, <2>2, <3>1 DEF InitSite
  <2> QED
    BY <2>1, <2>2
<1>4. CASE InitPage(w)
  BY <1>0, <1>4 DEF InitPage
<1>5. CASE ResetDelete(w)
  BY <1>0, <1>5 DEF ResetDelete
<1>6. CASE ResetFind(w)
  BY <1>0, <1>6 DEF ResetFind
<1>7. CASE ResetAdd(w)
  BY <1>0, <1>7 DEF ResetAdd
<1>8. CASE Abort(w)
  BY <1>0, <1>8 DEF Abort
<1> QED
  BY <1>1, <1>2, <1>3, <1>4, <1>5, <1>6, <1>7, <1>8 DEF Step

\* Those who write the seed of a site meanwhile.
LEMMA OthersType ==
    ASSUME TypeInv, NEW s, SaveSeed(s) \/ DeleteSeed(s)
    PROVE  TypeInv'
<1>0. ProcOK /\ TableOK /\ SeededOK /\ OwnSaved /\ cut \subseteq Nat
  BY TypeParts
<1>1. /\ site' = site /\ nextPk' = nextPk /\ ops' = ops /\ pc' = pc /\ arg' = arg /\ own' = own
      /\ outcome' = outcome /\ seeded' = seeded /\ s \in seeded
  BY <1>0 DEF SaveSeed, DeleteSeed, Others, SeededOK
<1>2. SeedComes(s) \/ SeedGoes(s)
  BY RowsOK DEF SaveSeed, DeleteSeed, SeedComes, SeedGoes
<1>3. s \in DOMAIN site
  BY <1>0, <1>1 DEF SeededOK
<1>4. TableOK'
  BY <1>0, <1>1, <1>2, <1>3, TablesOK DEF SiteStays
<1>5. SeededOK'
  BY <1>0, <1>1, <1>2 DEF SeededOK, SeedComes, SeedGoes, Put, Restrict
<1>6. cut' \subseteq Nat
  <2>1. s \in Nat
    BY <1>0, <1>3 DEF TableOK
  <2>2. cut' \subseteq cut \cup {s}
    BY DEF SaveSeed, DeleteSeed
  <2> QED
    BY <1>0, <2>1, <2>2
<1>7. ProcOK' /\ OwnSaved'
  BY <1>0, <1>1 DEF ProcOK, OwnSaved
<1> QED
  BY <1>4, <1>5, <1>6, <1>7 DEF TypeInv, TypeOK, ProcOK, TableOK, SeededOK, Working

LEMMA TypeStep == TypeInv /\ [Next]_vars => TypeInv'
<1> SUFFICES ASSUME TypeInv, [Next]_vars PROVE TypeInv'
  OBVIOUS
<1>0. ProcOK /\ TableOK /\ SeededOK /\ OwnSaved /\ cut \subseteq Nat
  BY TypeParts
<1>1. ASSUME NEW w \in Procs, Step(w), Observe(w) PROVE TypeInv'
  <2>1. TableOK' /\ DOMAIN site \subseteq DOMAIN site' /\ DOMAIN site' \subseteq 1 .. (nextPk' - 1)
    BY <1>0, <1>1, TablesStep, TablesOK, SiteKept
  <2>2. ProcOK' /\ OwnSaved'
    BY <1>0, <1>1, <2>1, ProcStep DEF OwnSaved
  <2>3. cut' \subseteq Nat
    <3>1. own[w] \in {0} \cup DOMAIN site /\ DOMAIN site \subseteq Nat
      BY <1>0 DEF ProcOK, TableOK
    <3>2. own[w] \in Nat
      BY <3>1
    <3>3. cut' \subseteq cut \cup {own[w]}
      BY <1>1 DEF Observe
    <3> QED
      BY <1>0, <3>2, <3>3
  <2>4. SeededOK'
    BY <1>0, <1>1, <2>1 DEF Observe, SeededOK, TableOK
  <2> QED
    BY <2>1, <2>2, <2>3, <2>4 DEF TypeInv, TypeOK, ProcOK, TableOK, SeededOK, Working
<1>2. ASSUME NEW s \in 1 .. MaxOps, SaveSeed(s) \/ DeleteSeed(s) PROVE TypeInv'
  BY <1>2, OthersType
<1>3. CASE UNCHANGED vars
  BY <1>3 DEF vars, TypeInv, TypeOK, OwnSaved
<1> QED
  BY <1>1, <1>2, <1>3 DEF Next

LEMMA TypeInit == Init => TypeInv
BY RowsOK, SitesAssumption DEF Init, TypeInv, TypeOK, OwnSaved, Working, Outcomes

\* The tables and the locals of every command keep their types.
THEOREM TypeCorrect == Spec => []TypeOK
<1>1. TypeInv => TypeOK
  BY DEF TypeInv
<1> QED
  BY <1>1, TypeInit, TypeStep, PTL DEF Spec

-----------------------------------------------------------------------------
(* Sites are unique *)

LEMMA OneSiteStep == TypeInv /\ OneSite /\ [Next]_vars => OneSite'
<1> SUFFICES ASSUME TypeInv, OneSite, [Next]_vars PROVE OneSite'
  OBVIOUS
<1>1. site' = site \/ SiteGrows
  BY TablesStep DEF Next, SaveSeed, DeleteSeed, Others, vars, SiteStays
<1>2. CASE site' = site
  BY <1>2 DEF OneSite
<1>3. CASE SiteGrows
  BY <1>3 DEF SiteGrows, SiteInsertFails, Put, OneSite, TypeInv, TypeOK
<1> QED
  BY <1>1, <1>2, <1>3

\* No interleaving of inits makes two sites of one name or of one url, though
\* init_site tests the name in one statement and inserts in another.
THEOREM SitesUnique == Spec => []OneSite
<1>1. Init => OneSite
  BY DEF Init, OneSite
<1> QED
  BY <1>1, TypeInit, TypeStep, OneSiteStep, PTL DEF Spec

-----------------------------------------------------------------------------
(* No seed gets lost *)

\* What a step of w may do to a site s that was accounted for, or is new.
LEMMA SeedStep ==
    ASSUME TypeInv, SeedAccounted, NEW w \in Procs, Step(w), Observe(w)
    PROVE  SeedAccounted'
<1> DEFINE Accounted(s) == s \in cut \/ \E v \in Procs : own[v] = s /\ pc[v] \in Working
<1> SUFFICES ASSUME NEW s \in DOMAIN site' \ DOMAIN seed'
             PROVE  s \in cut' \/ \E v \in Procs : own'[v] = s /\ pc'[v] \in Working
  BY DEF SeedAccounted, Working
<1>0. /\ ProcOK /\ TableOK /\ OwnSaved
      /\ s \in DOMAIN site \ DOMAIN seed => Accounted(s)
  BY TypeParts DEF SeedAccounted, Working
<1>1. /\ \A v \in Procs \ {w} : pc'[v] = pc[v] /\ own'[v] = own[v]
      /\ DOMAIN site \subseteq DOMAIN site'
  BY <1>0, TablesStep, ProcStep, SiteKept
<1>2. /\ s \in cut => s \in cut'
      /\ pc[w] # "idle" /\ pc'[w] = "idle" /\ outcome'[w] = "killed" /\ own[w] = s => s \in cut'
  BY DEF Observe
<1> HIDE DEF Accounted
\* w did not touch the site: it was accounted for by cut or by another process,
\* or w goes on working on it.
<1>3. ASSUME s \in DOMAIN site \ DOMAIN seed,
             own[w] = s /\ pc[w] \in Working =>
               (own'[w] = s /\ pc'[w] \in Working) \/ s \in cut'
      PROVE  s \in cut' \/ \E v \in Procs : own'[v] = s /\ pc'[v] \in Working
  BY <1>0, <1>1, <1>2, <1>3 DEF Accounted
<1> USE DEF Go, End, ProcOK
<1>4. CASE \E c \in Command : InitTest(w, c) \/ ResetLoad(w, c)
  BY <1>0, <1>2, <1>3, <1>4 DEF InitTest, ResetLoad, Start, Working
<1>5. CASE InitSite(w)
  <2>1. CASE SiteInsertFails(arg[w])
    BY <1>0, <1>2, <1>3, <1>5, <2>1 DEF InitSite, Working
  <2>2. CASE ~ SiteInsertFails(arg[w])
    <3>1. pc'[w] = "page" /\ own'[w] = nextPk /\ seed' = seed
      BY <1>0, <1>5, <2>2 DEF InitSite
    <3>2. s \in DOMAIN site \/ s = nextPk
      BY <1>5, <2>2 DEF InitSite, Put
    <3> QED
      BY <1>0, <1>3, <1>5, <3>1, <3>2 DEF InitSite, Working
  <2> QED
    BY <2>1, <2>2
<1>6. CASE InitPage(w)
  <2>1. site' = site /\ pc'[w] = "idle" /\ pc[w] = "page" /\ outcome'[w] # "killed"
    BY <1>0, <1>6 DEF InitPage
  <2>2. s # own[w] /\ DOMAIN seed \subseteq DOMAIN seed'
    BY <1>6 DEF InitPage, Put
  <2> QED
    BY <1>2, <1>3, <2>1, <2>2
<1>7. CASE ResetDelete(w)
  <2>1. /\ site' = site /\ pc'[w] = "find" /\ own'[w] = own[w]
        /\ DOMAIN seed' = DOMAIN seed \ {own[w]}
    BY <1>0, <1>7 DEF ResetDelete, Restrict
  <2>2. CASE s = own[w]
    BY <2>1, <2>2 DEF Working
  <2>3. CASE s # own[w]
    BY <1>3, <2>1, <2>3
  <2> QED
    BY <2>2, <2>3
<1>8. CASE ResetFind(w)
  <2>1. site' = site /\ seed' = seed /\ pc[w] = "find"
    BY <1>8 DEF ResetFind
  <2>2. CASE own[w] \in DOMAIN seed
    BY <1>0, <1>2, <1>3, <1>8, <2>1, <2>2 DEF ResetFind
  <2>3. CASE own[w] \notin DOMAIN seed
    BY <1>0, <1>2, <1>3, <1>8, <2>1, <2>3 DEF ResetFind, Working
  <2> QED
    BY <2>2, <2>3
<1>9. CASE ResetAdd(w)
  <2>1. site' = site /\ pc'[w] = "idle" /\ pc[w] = "add" /\ outcome'[w] # "killed"
    BY <1>0, <1>9 DEF ResetAdd
  <2>2. s # own[w] /\ DOMAIN seed \subseteq DOMAIN seed'
    BY <1>9 DEF ResetAdd, Put
  <2> QED
    BY <1>2, <1>3, <2>1, <2>2
<1>10. CASE Abort(w)
  <2>1. /\ site' = site /\ seed' = seed /\ pc[w] # "idle" /\ pc'[w] = "idle"
        /\ outcome'[w] = "killed"
    BY <1>0, <1>10 DEF Abort
  <2> QED
    BY <1>2, <1>3, <2>1
<1> QED
  BY <1>4, <1>5, <1>6, <1>7, <1>8, <1>9, <1>10 DEF Step

\* Whatever inits and resets run at the same time, and whatever rows others save
\* between their statements, a site is without its seed only while a command
\* works on it, or after one was killed or somebody deleted the seed by hand.
THEOREM SeedsAccounted == Spec => []SeedAccounted
<1>1. Init => SeedAccounted
  BY DEF Init, SeedAccounted
<1>2. TypeInv /\ SeedAccounted /\ [Next]_vars => SeedAccounted'
  <2> SUFFICES ASSUME TypeInv, SeedAccounted, [Next]_vars PROVE SeedAccounted'
    OBVIOUS
  <2>1. ASSUME NEW s \in 1 .. MaxOps, SaveSeed(s) PROVE SeedAccounted'
    BY <2>1 DEF SaveSeed, Others, SeedAccounted, Put
  <2>3. ASSUME NEW s \in 1 .. MaxOps, DeleteSeed(s) PROVE SeedAccounted'
    BY <2>3 DEF DeleteSeed, Others, SeedAccounted, Restrict
  <2>2. CASE UNCHANGED vars
    BY <2>2 DEF vars, SeedAccounted
  <2> QED
    BY <2>1, <2>2, <2>3, SeedStep DEF Next
<1> QED
  BY <1>1, <1>2, TypeInit, TypeStep, PTL DEF Spec

-----------------------------------------------------------------------------
(* A reset that nobody disturbs *)

\* Once its pages are deleted, nobody but w brings the seed back.
QuietInv == \A w \in Procs :
    quiet[w] /\ pc[w] \in {"find", "add"} => own[w] \notin DOMAIN seed

LEMMA QuietStep ==
    ASSUME TypeInv, QuietInv, NEW w \in Procs, Step(w), Observe(w)
    PROVE  QuietInv'
<1>0. ProcOK /\ TableOK /\ OwnSaved
  BY TypeParts
<1>1. ASSUME NEW v \in Procs \ {w}, quiet'[v], pc'[v] \in {"find", "add"}
      PROVE  own'[v] \notin DOMAIN seed'
  <2>1. pc'[v] = pc[v] /\ own'[v] = own[v]
    BY <1>0, TablesStep, SiteKept, ProcStep
  <2> QED
    BY <1>1, <2>1 DEF Observe, QuietInv
<1>2. ASSUME quiet'[w], pc'[w] \in {"find", "add"}
      PROVE  own'[w] \notin DOMAIN seed'
  <2> USE DEF Go, End, ProcOK
  <2>1. ResetDelete(w) \/ ResetFind(w)
    BY <1>0, <1>2 DEF Step, InitTest, InitSite, InitPage, ResetLoad, ResetAdd, Abort
  <2>2. CASE ResetDelete(w)
    BY <2>2 DEF ResetDelete, Restrict
  <2>3. CASE ResetFind(w)
    BY <1>0, <1>2, <2>3 DEF ResetFind
  <2> QED
    BY <2>1, <2>2, <2>3
<1> QED
  BY <1>1, <1>2 DEF QuietInv

\* What ResetRestores says of one step.
Restored == \A w \in Procs :
    pc[w] \in {"find", "add"} /\ pc'[w] = "idle" /\ quiet[w] /\ outcome'[w] # "killed" =>
        /\ outcome'[w] = "done"
        /\ own[w] \in DOMAIN seed' /\ ~ seed'[own[w]].is_checked

LEMMA RestoredStep == TypeInv /\ QuietInv /\ [Next]_vars => [Restored]_vars
<1> SUFFICES ASSUME TypeInv, QuietInv, Next, NEW v \in Procs,
                    pc[v] \in {"find", "add"}, pc'[v] = "idle", quiet[v], outcome'[v] # "killed"
             PROVE  /\ outcome'[v] = "done"
                    /\ own[v] \in DOMAIN seed' /\ ~ seed'[own[v]].is_checked
  BY DEF Restored
<1>0. ProcOK /\ TableOK /\ OwnSaved /\ own[v] \notin DOMAIN seed
  BY TypeParts DEF QuietInv
<1>1. PICK w \in Procs : Step(w) /\ Observe(w)
  BY DEF Next, SaveSeed, DeleteSeed, Others
<1>2. v = w
  BY <1>0, <1>1, TablesStep, SiteKept, ProcStep
<1>3. ResetFind(v) \/ ResetAdd(v)
  BY <1>0, <1>1, <1>2
     DEF Step, InitTest, InitSite, InitPage, ResetLoad, ResetDelete, Abort, Start, End, Go, ProcOK
<1>4. CASE ResetFind(v)
  BY <1>0, <1>4 DEF ResetFind, Go, ProcOK
<1>5. CASE ResetAdd(v)
  BY <1>0, <1>5 DEF ResetAdd, End, Put, AddedPage, ProcOK
<1> QED
  BY <1>3, <1>4, <1>5

\* A reset that nobody disturbed and nobody killed ends well, and leaves the
\* seed, to be checked.
THEOREM ResetsRestore == Spec => ResetRestores
<1>1. TypeInv /\ QuietInv /\ [Next]_vars => QuietInv'
  <2> SUFFICES ASSUME TypeInv, QuietInv, [Next]_vars PROVE QuietInv'
    OBVIOUS
  <2>1. CASE \E s \in 1 .. MaxOps : SaveSeed(s) \/ DeleteSeed(s)
    BY <2>1 DEF SaveSeed, DeleteSeed, Others, QuietInv
  <2>2. CASE UNCHANGED vars
    BY <2>2 DEF vars, QuietInv
  <2> QED
    BY <2>1, <2>2, QuietStep DEF Next
<1>2. Init => QuietInv
  BY DEF Init, QuietInv
<1>3. TypeInv /\ QuietInv /\ [Next]_vars => [\A w \in Procs :
         pc[w] \in {"find", "add"} /\ pc'[w] = "idle" /\ quiet[w] /\ outcome'[w] # "killed" =>
            /\ outcome'[w] = "done"
            /\ own[w] \in DOMAIN seed' /\ ~ seed'[own[w]].is_checked]_vars
  BY RestoredStep DEF Restored
<1> QED
  BY <1>1, <1>2, <1>3, TypeInit, TypeStep, PTL DEF Spec, ResetRestores
=============================================================================
