----------------------------- MODULE CrawlProofs -----------------------------
(***************************************************************************)
(* The crawl of a site of any size, with any links: types, the order in    *)
(* which pages are checked for the first time, and how long a scheduled    *)
(* page can wait.                                                          *)
(***************************************************************************)
EXTENDS Crawl, SequenceFacts

\* The types, with what TypeOK leaves to the shape of the model.
TypeInv ==
    /\ TypeOK
    /\ created \in Seq(Urls)
    /\ checked \in Seq(Urls)
    /\ IsFiniteSet(scheduled)

-----------------------------------------------------------------------------
(* The draw *)

\* The first row of s that is in S, and nothing of S before it.
LEMMA FirstIs ==
    ASSUME NEW s \in Seq(Urls), NEW S, Range(s) \cap S # {}
    PROVE  \E k \in DOMAIN s : /\ s[k] = First(s, S)
                               /\ s[k] \in S
                               /\ \A i \in DOMAIN s : i < k => s[i] \notin S
BY FirstInSeq DEF First

LEMMA OldestIs ==
    ASSUME TypeInv, NEW S \in SUBSET Known, S # {}, NEW p \in Oldest(S)
    PROVE  /\ p \in S
           /\ p \in Checked => \E k \in DOMAIN checked :
                 checked[k] = p /\ \A i \in DOMAIN checked : i < k => checked[i] \notin S
<1>1. CASE S \subseteq Checked
  <2>1. Range(checked) \cap S # {} /\ checked \in Seq(Urls)
    BY <1>1 DEF Checked, TypeInv
  <2>2. PICK k \in DOMAIN checked :
           /\ checked[k] = First(checked, S) /\ checked[k] \in S
           /\ \A i \in DOMAIN checked : i < k => checked[i] \notin S
    BY <2>1, FirstIs
  <2>3. p = checked[k]
    BY <1>1, <2>2 DEF Oldest
  <2> QED
    BY <2>2, <2>3
<1>2. CASE ~ (S \subseteq Checked)
  BY <1>2 DEF Oldest
<1> QED
  BY <1>1, <1>2

\* The head of the frontier: nothing that stands before it is unchecked.
LEMMA FrontierIs ==
    ASSUME TypeInv
    PROVE  /\ Frontier \in Known
           /\ Frontier \notin Checked =>
                 \E k \in DOMAIN created :
                    /\ created[k] = Frontier
                    /\ \A i \in DOMAIN created : i < k => created[i] \in Checked
<1>1. /\ created \in Seq(Urls) /\ checked \in Seq(Urls)
      /\ Checked \subseteq Known /\ Known \subseteq Urls /\ last \in Known
  BY DEF TypeInv, TypeOK
<1>2. CASE Known \subseteq Checked
  <2>1. checked # <<>>
    BY <1>1, <1>2 DEF Checked, Range
  <2>2. Head(checked) \in Range(checked)
    <3>1. Len(checked) \in Nat /\ DOMAIN checked = 1 .. Len(checked) /\ Len(checked) # 0
      BY <1>1, <2>1, LenProperties, EmptySeq
    <3>2. Head(checked) = checked[1] /\ 1 \in DOMAIN checked
      BY <1>1, <2>1, <3>1, HeadTailProperties
    <3> QED
      BY <3>2 DEF Range
  <2> QED
    BY <1>1, <1>2, <2>2 DEF Frontier, Checked
<1>3. CASE ~ (Known \subseteq Checked)
  <2>1. Range(created) \cap (Urls \ Checked) # {}
    BY <1>1, <1>3 DEF Known
  <2>2. PICK k \in DOMAIN created :
           /\ created[k] = First(created, Urls \ Checked)
           /\ created[k] \in Urls \ Checked
           /\ \A i \in DOMAIN created : i < k => created[i] \notin Urls \ Checked
    BY <1>1, <2>1, FirstIs
  <2>3. \A i \in DOMAIN created : created[i] \in Known
    BY DEF Known, Range
  <2> QED
    BY <1>1, <1>3, <2>2, <2>3 DEF Frontier
<1> QED
  BY <1>2, <1>3

LEMMA DrawnKnown ==
    ASSUME TypeInv, NEW p, Drawn(p)
    PROVE  p \in Known
<1>1. due \subseteq Known /\ bad \subseteq Known
  BY DEF TypeInv, TypeOK
<1> QED
  BY <1>1, OldestIs, FrontierIs DEF Drawn, FromScheduled, FromErrors, FromFrontier

-----------------------------------------------------------------------------
(* Types *)

\* A row is saved: s are the pages that were found.
SavedWith(p, s) ==
    /\ s \in Seq(Urls) /\ IsInjective(s) /\ Range(s) \cap Known = {}
    /\ created' = created \o s
    /\ checked' = ToEnd(checked, p)
    /\ bad' \subseteq bad \cup {p}
    /\ Elapsed(p, TRUE)

\* check_page either saves p or writes nothing.
LEMMA CheckEffect ==
    ASSUME CrawlAssumption, TypeInv, NEW p \in Known, Check(p)
    PROVE  \/ \E s : SavedWith(p, s)
           \/ Elapsed(p, FALSE) /\ UNCHANGED <<created, checked, bad>>
<1>1. CASE Stops(p)
  <2>1. PICK found \in SUBSET (Links[p] \ Known) : Saves(p, found)
    BY <1>1 DEF Stops
  <2>2. PICK s \in SetToSeqs(found) : created' = created \o s
    BY <2>1 DEF Saves
  <2>3. p \in Urls /\ found \subseteq Urls /\ IsFiniteSet(found)
    <3>1. p \in Urls /\ Links[p] \subseteq Urls /\ IsFiniteSet(Links[p])
      BY DEF CrawlAssumption, TypeInv, TypeOK
    <3>2. found \in SUBSET Links[p]
      BY <2>1
    <3> QED
      BY <3>1, <3>2, FS_Subset
  <2>4. /\ s \in [1 .. Cardinality(found) -> found]
        /\ \A i, j \in 1 .. Cardinality(found) : i # j => s[i] # s[j]
        /\ Cardinality(found) \in Nat
    BY <2>2, <2>3, FS_CardinalityType DEF SetToSeqs
  <2>5. s \in Seq(Urls)
    BY <2>3, <2>4, SeqDef
  <2>6. IsInjective(s) /\ Range(s) \subseteq found
    BY <2>4 DEF IsInjective, Range
  <2>7. Range(s) \cap Known = {}
    BY <2>1, <2>6
  <2>8. checked' = ToEnd(checked, p) /\ bad' \subseteq bad \cup {p} /\ Elapsed(p, TRUE)
    BY <2>1 DEF Saves, Elapsed, ToEnd
  <2> QED
    BY <2>2, <2>5, <2>6, <2>7, <2>8 DEF SavedWith
<1>2. CASE Fails(p)
  <2>1. /\ checked' = ToEnd(checked, p) /\ bad' = bad \cup {p} /\ Elapsed(p, TRUE)
        /\ created' = created
    BY <1>2 DEF Fails, Elapsed, ToEnd
  <2>2. created \in Seq(Urls) /\ created \o <<>> = created
    BY ConcatEmptySeq DEF TypeInv
  <2>3. <<>> \in Seq(Urls) /\ IsInjective(<<>>) /\ Range(<<>>) = {}
    BY EmptySeq DEF IsInjective, Range
  <2> QED
    BY <2>1, <2>2, <2>3 DEF SavedWith
<1>3. CASE Raises(p)
  BY <1>3 DEF Raises, Elapsed
<1> QED
  BY <1>1, <1>2, <1>3 DEF Check

\* Nothing is forgotten: the tables after a save.
LEMMA SavedTables ==
    ASSUME TypeInv, NEW p \in Known, NEW s, SavedWith(p, s)
    PROVE  /\ created' \in Seq(Urls) /\ IsInjective(created')
           /\ Known' = Known \cup Range(s) /\ Known' \subseteq Urls
           /\ checked' \in Seq(Urls) /\ IsInjective(checked')
           /\ Checked' = Checked \cup {p}
<1>1. /\ created \in Seq(Urls) /\ IsInjective(created) /\ Known \subseteq Urls
      /\ checked \in Seq(Urls) /\ IsInjective(checked) /\ p \in Urls
  BY DEF TypeInv, TypeOK
<1>2. /\ s \in Seq(Urls) /\ IsInjective(s) /\ Range(created) \cap Range(s) = {}
      /\ created' = created \o s /\ checked' = ToEnd(checked, p)
  BY DEF SavedWith, Known
<1>3. /\ created' \in Seq(Urls) /\ IsInjective(created')
      /\ Range(created') = Range(created) \cup Range(s)
  BY <1>1, <1>2, JoinedRows
<1>4. Range(s) \subseteq Urls
  BY <1>2, RangeOfSeq
<1>5. /\ checked' \in Seq(Urls) /\ IsInjective(checked')
      /\ Range(checked') = Range(checked) \cup {p}
  BY <1>1, <1>2, ToEndType
<1> QED
  BY <1>1, <1>3, <1>4, <1>5 DEF Known, Checked

LEMMA ElapsedOK ==
    ASSUME CrawlAssumption, TypeInv, NEW p \in Known, NEW saved \in BOOLEAN, Elapsed(p, saved)
    PROVE  /\ age' \in [Schedulable -> 0 .. Rotation]
           /\ wait' \in [Schedulable -> Nat]
           /\ turn' \in BOOLEAN /\ last' = p /\ scheduled' = scheduled
           /\ due' \subseteq due
<1>1. /\ age \in [Schedulable -> 0 .. Rotation] /\ wait \in [Schedulable -> Nat]
      /\ turn \in BOOLEAN /\ Rotation \in Nat \ {0}
  BY DEF TypeInv, TypeOK, CrawlAssumption
<1>2. ASSUME NEW n \in 0 .. Rotation PROVE Min({n + 1, Rotation}) \in 0 .. Rotation
  BY <1>1, MinIs
<1>3. /\ turn' = ~ turn /\ last' = p /\ scheduled' = scheduled
      /\ age' = [u \in Schedulable |-> IF saved /\ u = p THEN 0 ELSE Min({age[u] + 1, Rotation})]
      /\ due' = IF saved THEN due \ {p} ELSE due
      /\ wait' = IF saved
                 THEN [u \in Schedulable |-> IF u \in due \ {p} THEN wait[u] + 1 ELSE 0]
                 ELSE wait
  BY DEF Elapsed
<1>4. age' \in [Schedulable -> 0 .. Rotation]
  BY <1>1, <1>2, <1>3
<1>5. wait' \in [Schedulable -> Nat]
  BY <1>1, <1>3
<1> QED
  BY <1>1, <1>3, <1>4, <1>5

LEMMA TypeInit == ASSUME CrawlAssumption PROVE Init => TypeInv
<1> SUFFICES ASSUME Init PROVE TypeInv
  OBVIOUS
<1>1. /\ created = <<Seed>> /\ checked = <<>> /\ Seed \in Urls /\ Rotation \in Nat
      /\ bad = {} /\ scheduled = {} /\ due = {} /\ turn = FALSE /\ last = Seed
      /\ age = [u \in Schedulable |-> 0] /\ wait = [u \in Schedulable |-> 0]
  BY DEF Init, CrawlAssumption
<1>2. created \in Seq(Urls) /\ checked \in Seq(Urls)
  BY <1>1, EmptySeq
<1>3. Known = {Seed} /\ Checked = {} /\ IsInjective(created) /\ IsInjective(checked)
  BY <1>1 DEF Known, Checked, Range, IsInjective
<1>4. IsFiniteSet(scheduled)
  BY <1>1, FS_EmptySet
<1>5. age \in [Schedulable -> 0 .. Rotation] /\ wait \in [Schedulable -> Nat]
  BY <1>1
<1> QED
  BY <1>1, <1>2, <1>3, <1>4, <1>5 DEF TypeInv, TypeOK

LEMMA TypeCheck ==
    ASSUME CrawlAssumption, TypeInv, NEW p \in Known, Check(p)
    PROVE  TypeInv'
<1>0. /\ scheduled \subseteq Schedulable \cap Known /\ due \subseteq scheduled
      /\ bad \subseteq Checked /\ Checked \subseteq Known /\ IsFiniteSet(scheduled)
  BY DEF TypeInv, TypeOK
<1>1. CASE \E s : SavedWith(p, s)
  <2>1. PICK s : SavedWith(p, s)
    BY <1>1
  <2>2. /\ created' \in Seq(Urls) /\ IsInjective(created')
        /\ Known' = Known \cup Range(s) /\ Known' \subseteq Urls
        /\ checked' \in Seq(Urls) /\ IsInjective(checked')
        /\ Checked' = Checked \cup {p}
    BY <2>1, SavedTables
  <2>3. /\ age' \in [Schedulable -> 0 .. Rotation]
        /\ wait' \in [Schedulable -> Nat]
        /\ turn' \in BOOLEAN /\ last' = p /\ scheduled' = scheduled
        /\ due' \subseteq due
    BY <2>1, ElapsedOK DEF SavedWith
  <2>4. bad' \subseteq bad \cup {p}
    BY <2>1 DEF SavedWith
  <2> QED
    BY <1>0, <2>2, <2>3, <2>4 DEF TypeInv, TypeOK
<1>2. CASE Elapsed(p, FALSE) /\ UNCHANGED <<created, checked, bad>>
  <2>1. /\ age' \in [Schedulable -> 0 .. Rotation]
        /\ wait' \in [Schedulable -> Nat]
        /\ turn' \in BOOLEAN /\ last' = p /\ scheduled' = scheduled
        /\ due' \subseteq due
    BY <1>2, ElapsedOK
  <2> QED
    BY <1>0, <1>2, <2>1 DEF TypeInv, TypeOK, Known, Checked
<1> QED
  BY <1>1, <1>2, CheckEffect

LEMMA TypeStep == ASSUME CrawlAssumption PROVE TypeInv /\ [Next]_vars => TypeInv'
<1> SUFFICES ASSUME TypeInv, [Next]_vars PROVE TypeInv'
  OBVIOUS
<1>1. CASE CheckScheduled
  BY <1>1, DrawnKnown, TypeCheck DEF CheckScheduled, Drawn
<1>2. CASE CheckErrors
  BY <1>2, DrawnKnown, TypeCheck DEF CheckErrors, Drawn
<1>3. CASE CheckFrontier
  BY <1>3, DrawnKnown, TypeCheck DEF CheckFrontier, Drawn
<1>4. ASSUME NEW u \in Schedulable, Schedule(u) PROVE TypeInv'
  <2>1. IsFiniteSet(scheduled')
    BY <1>4, FS_AddElement DEF Schedule, TypeInv
  <2> QED
    BY <1>4, <2>1 DEF Schedule, TypeInv, TypeOK, Known, Checked
<1>5. ASSUME NEW u \in Schedulable, Watermark(u) PROVE TypeInv'
  BY <1>5 DEF Watermark, TypeInv, TypeOK, Known, Checked
<1>6. CASE UNCHANGED vars
  BY <1>6 DEF vars, TypeInv, TypeOK, Known, Checked
<1> QED
  BY <1>1, <1>2, <1>3, <1>4, <1>5, <1>6 DEF Next

\* No page is listed twice, and every table speaks of pages that are there,
\* whatever the site and its links are.
THEOREM TypeCorrect == Spec => []TypeOK
<1>1. TypeInv => TypeOK
  BY DEF TypeInv
<1>2. Init => TypeInv
  BY CrawlAssumption, TypeInit
<1>3. TypeInv /\ [Next]_vars => TypeInv'
  BY CrawlAssumption, TypeStep
<1> QED
  BY <1>1, <1>2, <1>3, PTL DEF Spec

-----------------------------------------------------------------------------
(* The order of the first checks *)

\* A page that is checked for the first time was scheduled, or nothing before
\* it was unchecked.
LEMMA DrawnInTurn ==
    ASSUME TypeInv, NEW p, Drawn(p), p \notin Checked, p \notin scheduled
    PROVE  \E k \in DOMAIN created :
              created[k] = p /\ \A i \in DOMAIN created : i < k => created[i] \in Checked
<1>1. due \subseteq scheduled /\ due \subseteq Known /\ bad \subseteq Checked /\ bad \subseteq Known
  BY DEF TypeInv, TypeOK
<1>2. ~ FromScheduled(p)
  BY <1>1, OldestIs DEF FromScheduled
<1>3. ~ FromErrors(p)
  BY <1>1, OldestIs DEF FromErrors
<1>4. p = Frontier
  BY <1>2, <1>3 DEF Drawn, FromFrontier
<1> QED
  BY <1>4, FrontierIs

LEMMA OrderCheck ==
    ASSUME CrawlAssumption, TypeInv, FirstFoundFirstChecked, NEW p, Drawn(p), Check(p)
    PROVE  FirstFoundFirstChecked'
<1>0. p \in Known /\ scheduled' = scheduled /\ Checked \subseteq Known /\ created \in Seq(Urls)
  BY DrawnKnown, CheckEffect DEF Elapsed, SavedWith, TypeInv, TypeOK
<1>1. CASE \E s : SavedWith(p, s)
  <2>1. PICK s : SavedWith(p, s)
    BY <1>1
  <2>2. Checked' = Checked \cup {p} /\ IsInjective(created') /\ IsInjective(created)
    BY <1>0, <2>1, SavedTables DEF TypeInv, TypeOK
  <2>3. /\ created' = created \o s /\ s \in Seq(Urls) /\ Range(s) \cap Known = {}
        /\ IsInjective(s) /\ Range(created) \cap Range(s) = {}
    BY <2>1 DEF SavedWith, Known
  <2>4. /\ \A i \in DOMAIN created : i \in DOMAIN created' /\ created'[i] = created[i]
        /\ \A i \in DOMAIN created' :
              i \in DOMAIN created \/ (i > Len(created) /\ created'[i] \in Range(s))
    BY <1>0, <2>2, <2>3, JoinedRows
  <2>5. DOMAIN created = 1 .. Len(created) /\ Len(created) \in Nat
        /\ DOMAIN created' \subseteq Nat \ {0}
    <3>1. created' \in Seq(Urls)
      BY <1>0, <2>1, SavedTables
    <3> QED
      BY <1>0, <3>1, LenProperties
  <2> SUFFICES ASSUME NEW i \in DOMAIN created', NEW j \in DOMAIN created', i < j,
                      created'[j] \in Checked', created'[j] \notin scheduled
               PROVE  created'[i] \in Checked'
    BY <1>0 DEF FirstFoundFirstChecked
  <2>6. j \in DOMAIN created /\ created'[j] = created[j]
    BY <1>0, <2>2, <2>3, <2>4
  <2>7. i \in DOMAIN created /\ created'[i] = created[i]
    BY <2>4, <2>5, <2>6
  <2>8. CASE created[j] \in Checked
    BY <2>2, <2>6, <2>7, <2>8 DEF FirstFoundFirstChecked
  <2>9. CASE created[j] \notin Checked
    <3>1. created[j] = p
      BY <2>2, <2>6, <2>9
    <3>2. PICK k \in DOMAIN created :
             created[k] = p /\ \A n \in DOMAIN created : n < k => created[n] \in Checked
      BY <2>6, <2>9, <3>1, DrawnInTurn
    <3>3. k = j
      BY <2>2, <2>6, <3>1, <3>2 DEF IsInjective
    <3> QED
      BY <2>2, <2>7, <3>2, <3>3
  <2> QED
    BY <2>8, <2>9
<1>2. CASE Elapsed(p, FALSE) /\ UNCHANGED <<created, checked, bad>>
  BY <1>0, <1>2 DEF FirstFoundFirstChecked, Checked
<1> QED
  BY <1>0, <1>1, <1>2, CheckEffect

LEMMA OrderStep ==
    ASSUME CrawlAssumption
    PROVE  TypeInv /\ FirstFoundFirstChecked /\ [Next]_vars => FirstFoundFirstChecked'
<1> SUFFICES ASSUME TypeInv, FirstFoundFirstChecked, [Next]_vars PROVE FirstFoundFirstChecked'
  OBVIOUS
<1>1. CASE CheckScheduled
  BY <1>1, OrderCheck DEF CheckScheduled, Drawn
<1>2. CASE CheckErrors
  BY <1>2, OrderCheck DEF CheckErrors, Drawn
<1>3. CASE CheckFrontier
  BY <1>3, OrderCheck DEF CheckFrontier, Drawn
<1>4. ASSUME NEW u \in Schedulable, Schedule(u) PROVE FirstFoundFirstChecked'
  BY <1>4 DEF Schedule, FirstFoundFirstChecked, Checked
<1>5. ASSUME NEW u \in Schedulable, Watermark(u) PROVE FirstFoundFirstChecked'
  BY <1>5 DEF Watermark, FirstFoundFirstChecked, Checked
<1>6. CASE UNCHANGED vars
  BY <1>6 DEF vars, FirstFoundFirstChecked, Checked
<1> QED
  BY <1>1, <1>2, <1>3, <1>4, <1>5, <1>6 DEF Next

\* On any site the first checks follow the order of discovery, errors, retries
\* and raising checks notwithstanding: only what an administrator schedules
\* comes out of turn.
THEOREM FirstChecksInOrder == Spec => []FirstFoundFirstChecked
<1>1. Init => TypeInv
  BY CrawlAssumption, TypeInit
<1>2. Init => FirstFoundFirstChecked
  <2> SUFFICES ASSUME Init PROVE FirstFoundFirstChecked
    OBVIOUS
  <2>1. Checked = {}
    BY DEF Init, Checked, Range
  <2> QED
    BY <2>1 DEF FirstFoundFirstChecked
<1>3. TypeInv /\ FirstFoundFirstChecked /\ [Next]_vars => (TypeInv /\ FirstFoundFirstChecked)'
  BY CrawlAssumption, TypeStep, OrderStep
<1> QED
  BY <1>1, <1>2, <1>3, PTL DEF Spec

-----------------------------------------------------------------------------
(* How long a scheduled page waits *)

\* v was checked before w.
Before(v, w) == \E i, j \in DOMAIN checked : i < j /\ checked[i] = v /\ checked[j] = w

\* The other scheduled pages that were checked after u: they cannot be drawn
\* while u is due.
After(u) == {w \in scheduled \ {u} : w \in Checked /\ (u \in Checked => Before(u, w))}

\* Whoever is drawn while u waits joins After(u) and was not in it.
WaitInv ==
    \A u \in Schedulable :
        /\ u \notin due => wait[u] = 0
        /\ u \in due => wait[u] <= Cardinality(After(u))

\* A saved check puts p behind all others and leaves these in their order.
LEMMA OrderKept ==
    ASSUME TypeInv, NEW p \in Known, checked' = ToEnd(checked, p),
           NEW v \in Checked, v # p
    PROVE  /\ Before(v, p)'
           /\ \A w : w # p /\ Before(v, w) => Before(v, w)'
<1>1. checked \in Seq(Urls) /\ IsInjective(checked) /\ p \in Urls
  BY DEF TypeInv, TypeOK
<1>2. /\ DOMAIN checked' = 1 .. Len(checked') /\ checked'[Len(checked')] = p
      /\ checked' \in Seq(Urls)
  BY <1>1, ToEndType
<1>3. ASSUME NEW i \in DOMAIN checked, checked[i] = v
      PROVE  \E k \in DOMAIN checked' :
                /\ checked'[k] = v /\ k < Len(checked')
                /\ \A j \in DOMAIN checked : i < j /\ checked[j] # p =>
                      \E l \in DOMAIN checked' : k < l /\ checked'[l] = checked[j]
  BY <1>1, <1>3, ToEndOrder
<1>4. Before(v, p)'
  <2>1. PICK i \in DOMAIN checked : checked[i] = v
    BY DEF Checked, Range
  <2>2. PICK k \in DOMAIN checked' : checked'[k] = v /\ k < Len(checked')
    BY <1>3, <2>1
  <2>3. Len(checked') \in DOMAIN checked'
    BY <1>2, <2>2, LenProperties
  <2> QED
    BY <1>2, <2>2, <2>3 DEF Before
<1>5. ASSUME NEW w, w # p, Before(v, w) PROVE Before(v, w)'
  <2>1. PICK i \in DOMAIN checked, j \in DOMAIN checked :
           i < j /\ checked[i] = v /\ checked[j] = w
    BY <1>5 DEF Before
  <2>2. PICK k \in DOMAIN checked' :
           /\ checked'[k] = v
           /\ \A n \in DOMAIN checked : i < n /\ checked[n] # p =>
                 \E l \in DOMAIN checked' : k < l /\ checked'[l] = checked[n]
    BY <1>3, <2>1
  <2>3. PICK l \in DOMAIN checked' : k < l /\ checked'[l] = w
    BY <1>5, <2>1, <2>2
  <2> QED
    BY <2>2, <2>3 DEF Before
<1> QED
  BY <1>4, <1>5

\* A scheduled page that is drawn has not been checked after another one that
\* is due.
LEMMA DrawnNotAfter ==
    ASSUME TypeInv, NEW p, FromScheduled(p), NEW u \in due, u # p
    PROVE  p \in scheduled /\ p \notin After(u)
<1>1. due \in SUBSET Known /\ due # {} /\ p \in Oldest(due) /\ due \subseteq scheduled
  BY DEF TypeInv, TypeOK, FromScheduled
<1>2. p \in due
  BY <1>1, OldestIs
<1>3. CASE p \in Checked
  <2>1. PICK k \in DOMAIN checked :
           checked[k] = p /\ \A i \in DOMAIN checked : i < k => checked[i] \notin due
    BY <1>1, <1>3, OldestIs
  <2>2. due \subseteq Checked
    BY <1>1, <1>3 DEF Oldest
  <2>3. ~ Before(u, p)
    <3> SUFFICES ASSUME NEW i \in DOMAIN checked, NEW j \in DOMAIN checked,
                        i < j, checked[i] = u, checked[j] = p
                 PROVE  FALSE
      BY DEF Before
    <3>1. j = k
      BY <2>1 DEF TypeInv, TypeOK, IsInjective
    <3> QED
      BY <2>1, <3>1
  <2> QED
    BY <1>1, <1>2, <2>2, <2>3 DEF After
<1>4. CASE p \notin Checked
  BY <1>1, <1>2, <1>4 DEF After
<1> QED
  BY <1>3, <1>4

LEMMA AfterFinite ==
    ASSUME TypeInv, NEW u
    PROVE  IsFiniteSet(After(u)) /\ Cardinality(After(u)) \in Nat
BY FS_Subset, FS_CardinalityType DEF After, TypeInv

LEMMA WaitCheck ==
    ASSUME CrawlAssumption, TypeInv, TypeInv', WaitInv, NEW p, Drawn(p), Check(p)
    PROVE  WaitInv'
<1>0. /\ p \in Known /\ due \subseteq scheduled /\ scheduled \subseteq Schedulable
      /\ wait \in [Schedulable -> Nat]
  BY DrawnKnown DEF TypeInv, TypeOK
<1> SUFFICES ASSUME NEW u \in Schedulable
             PROVE  /\ u \notin due' => wait'[u] = 0
                    /\ u \in due' => wait'[u] <= Cardinality(After(u)')
  BY DEF WaitInv
<1>1. CASE \E s : SavedWith(p, s)
  <2>1. PICK s : SavedWith(p, s)
    BY <1>1
  <2>2. /\ scheduled' = scheduled /\ due' = due \ {p}
        /\ wait' = [v \in Schedulable |-> IF v \in due \ {p} THEN wait[v] + 1 ELSE 0]
        /\ checked' = ToEnd(checked, p) /\ Checked' = Checked \cup {p}
    BY <1>0, <2>1, SavedTables DEF SavedWith, Elapsed
  <2>3. CASE u \in due /\ u # p
    <3>1. FromScheduled(p)
      BY <2>3 DEF Drawn, FromErrors, FromFrontier
    <3>2. p \in scheduled /\ p \notin After(u)
      BY <2>3, <3>1, DrawnNotAfter
    <3>3. ASSUME NEW w \in After(u) PROVE w \in After(u)'
      <4>1. w \in scheduled /\ w # u /\ w \in Checked /\ (u \in Checked => Before(u, w)) /\ w # p
        BY <3>2, <3>3 DEF After
      <4>2. u \in Checked => Before(u, w)'
        BY <1>0, <2>2, <2>3, <4>1, OrderKept
      <4> QED
        BY <2>2, <2>3, <4>1, <4>2 DEF After
    <3>4. p \in After(u)'
      <4>1. u \in Checked => Before(u, p)'
        BY <1>0, <2>2, <2>3, OrderKept
      <4> QED
        BY <2>2, <2>3, <3>2, <4>1 DEF After
    <3>5. /\ Cardinality(After(u) \cup {p}) = Cardinality(After(u)) + 1
          /\ Cardinality(After(u)) \in Nat
      BY <3>2, AfterFinite, FS_AddElement
    <3>6. Cardinality(After(u) \cup {p}) <= Cardinality(After(u)')
      <4>1. After(u) \cup {p} \in SUBSET (After(u)')
        BY <3>3, <3>4
      <4>2. IsFiniteSet(After(u)')
        <5>1. IsFiniteSet(scheduled') /\ After(u)' \subseteq scheduled'
          BY DEF TypeInv, After
        <5> QED
          BY <5>1, FS_Subset
      <4> QED
        BY <4>1, <4>2, FS_Subset
    <3>7. IsFiniteSet(After(u)') /\ Cardinality(After(u)') \in Nat
      <4>1. IsFiniteSet(scheduled') /\ After(u)' \subseteq scheduled'
        BY DEF TypeInv, After
      <4> QED
        BY <4>1, FS_Subset, FS_CardinalityType
    <3>8. wait'[u] = wait[u] + 1 /\ wait[u] \in Nat /\ wait[u] <= Cardinality(After(u))
      BY <1>0, <2>2, <2>3 DEF WaitInv
    <3> QED
      BY <2>2, <2>3, <3>5, <3>6, <3>7, <3>8
  <2>4. CASE ~ (u \in due /\ u # p)
    BY <2>2, <2>4
  <2> QED
    BY <2>3, <2>4
<1>2. CASE Elapsed(p, FALSE) /\ UNCHANGED <<created, checked, bad>>
  <2>1. due' = due /\ wait' = wait /\ scheduled' = scheduled /\ checked' = checked
    BY <1>2 DEF Elapsed
  <2>2. After(u)' = After(u)
    BY <2>1 DEF After, Before, Checked
  <2> QED
    BY <2>1, <2>2 DEF WaitInv
<1> QED
  BY <1>0, <1>1, <1>2, CheckEffect

LEMMA WaitStep ==
    ASSUME CrawlAssumption, TypeInv, TypeInv', WaitInv, [Next]_vars
    PROVE  WaitInv'
<1>1. CASE CheckScheduled
  BY <1>1, WaitCheck DEF CheckScheduled, Drawn
<1>2. CASE CheckErrors
  BY <1>2, WaitCheck DEF CheckErrors, Drawn
<1>3. CASE CheckFrontier
  BY <1>3, WaitCheck DEF CheckFrontier, Drawn
<1>4. ASSUME NEW v \in Schedulable, Schedule(v) PROVE WaitInv'
  <2>1. /\ v \notin scheduled /\ scheduled' = scheduled \cup {v} /\ wait' = wait
        /\ checked' = checked /\ due' \subseteq due \cup {v} /\ due \subseteq due'
        /\ due \subseteq scheduled /\ wait \in [Schedulable -> Nat]
    BY <1>4 DEF Schedule, TypeInv, TypeOK
  <2> SUFFICES ASSUME NEW u \in Schedulable
               PROVE  /\ u \notin due' => wait'[u] = 0
                      /\ u \in due' => wait'[u] <= Cardinality(After(u)')
    BY DEF WaitInv
  <2>2. After(u) \in SUBSET (After(u)')
    BY <2>1 DEF After, Before, Checked
  <2>3. IsFiniteSet(After(u)') /\ Cardinality(After(u)') \in Nat
    <3>1. IsFiniteSet(scheduled') /\ After(u)' \subseteq scheduled'
      BY DEF TypeInv, After
    <3> QED
      BY <3>1, FS_Subset, FS_CardinalityType
  <2>4. Cardinality(After(u)) <= Cardinality(After(u)') /\ Cardinality(After(u)) \in Nat
    BY <2>2, <2>3, FS_Subset, FS_CardinalityType
  <2>5. u \notin due => wait[u] = 0
    BY DEF WaitInv
  <2>6. u \in due => wait[u] <= Cardinality(After(u))
    BY DEF WaitInv
  <2>7. wait[u] \in Nat
    BY <2>1
  <2> QED
    BY <2>1, <2>3, <2>4, <2>5, <2>6, <2>7
<1>5. ASSUME NEW v \in Schedulable, Watermark(v) PROVE WaitInv'
  <2>1. /\ v \notin due /\ due' = due \cup {v} /\ wait' = wait /\ scheduled' = scheduled
        /\ checked' = checked
    BY <1>5 DEF Watermark
  <2> SUFFICES ASSUME NEW u \in Schedulable
               PROVE  /\ u \notin due' => wait'[u] = 0
                      /\ u \in due' => wait'[u] <= Cardinality(After(u)')
    BY DEF WaitInv
  <2>2. After(u)' = After(u) /\ Cardinality(After(u)) \in Nat
    BY <2>1, AfterFinite DEF After, Before, Checked
  <2> QED
    BY <2>1, <2>2 DEF WaitInv
<1>6. CASE UNCHANGED vars
  BY <1>6 DEF vars, WaitInv, After, Before, Checked
<1> QED
  BY <1>1, <1>2, <1>3, <1>4, <1>5, <1>6 DEF Next

LEMMA WaitBounded == TypeInv /\ WaitInv => ScheduledFirst
<1> SUFFICES ASSUME TypeInv, WaitInv, NEW u \in due PROVE wait[u] < Cardinality(scheduled)
  BY DEF ScheduledFirst
<1>1. u \in Schedulable /\ u \in scheduled /\ IsFiniteSet(scheduled) /\ wait[u] \in Nat
  BY DEF TypeInv, TypeOK
<1>2. wait[u] <= Cardinality(After(u))
  BY <1>1 DEF WaitInv
<1>3. /\ IsFiniteSet(scheduled \ {u})
      /\ Cardinality(scheduled \ {u}) = Cardinality(scheduled) - 1
      /\ Cardinality(scheduled) \in Nat
  BY <1>1, FS_RemoveElement, FS_CardinalityType
<1>4. Cardinality(After(u)) <= Cardinality(scheduled \ {u}) /\ Cardinality(After(u)) \in Nat
  BY <1>3, AfterFinite, FS_Subset DEF After
<1> QED
  BY <1>1, <1>2, <1>3, <1>4

\* However many pages are scheduled and however large the frontier is, a
\* scheduled page that is due waits for each of the other scheduled pages at
\* most once, and for nothing else.
THEOREM WaitsForScheduledOnly == Spec => []ScheduledFirst
<1>1. Init => TypeInv
  BY CrawlAssumption, TypeInit
<1>2. Init => WaitInv
  BY DEF Init, WaitInv
<1>3. TypeInv /\ WaitInv /\ [Next]_vars => (TypeInv /\ WaitInv)'
  BY CrawlAssumption, TypeStep, WaitStep
<1>4. TypeInv /\ WaitInv => ScheduledFirst
  BY WaitBounded
<1> QED
  BY <1>1, <1>2, <1>3, <1>4, PTL DEF Spec
=============================================================================
