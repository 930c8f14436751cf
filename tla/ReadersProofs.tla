---------------------------- MODULE ReadersProofs ----------------------------
(***************************************************************************)
(* The readers, for any number of urls, any length of a page of a listing  *)
(* and any --num: types, what next_page_to_check draws while others write, *)
(* which of the numbers of a report agree, and what turning the pages of   *)
(* site_last may miss.                                                     *)
(***************************************************************************)
EXTENDS Readers, SequenceFacts

-----------------------------------------------------------------------------
(* Types *)

Points == {"idle", "scheduled", "errors", "lastError", "queued", "countQueued",
           "queuedAgain", "firstQueued", "anyPage", "check", "count", "rows", "over"}

Commands == Counted \cup {"none", "check", "recheck", "id", "last"}

Reader == [pc : Points, cmd : Commands, num : Nat, list : {"none", "pending", "checked"},
           via : Points \cup {"none"}, due : SUBSET Schedulable,
           page : Urls \cup {None}, gone : BOOLEAN, counts : Seq(Nat), seen : SUBSET Urls]

\* A page is in one of the two lists, once.
TablesOK ==
    /\ queue \in Seq(Urls) /\ IsInjective(queue)
    /\ done \in Seq(Urls) /\ IsInjective(done)
    /\ Range(queue) \cap Range(done) = {}
    /\ broken \subseteq Range(done)

HistoryOK == calm \in BOOLEAN /\ kept \in BOOLEAN /\ steady \in BOOLEAN /\ old \subseteq Known

\* A report that is being read has a next statement.
Counting ==
    me.pc = "count" /\ me.cmd # "last" =>
        me.cmd \in Counted /\ me.num \in 1 .. Len(Statements(me.cmd))

\* The pages of a listing are counted from 1.
Paging ==
    /\ me.pc = "rows" => me.cmd = "last" /\ Len(me.counts) = 1
    /\ me.pc \in {"count", "rows"} /\ me.cmd = "last" => me.num >= 1

TypeInv == TablesOK /\ me \in Reader /\ HistoryOK /\ Counting /\ Paging

LEMMA KnownUrls ==
    ASSUME TablesOK
    PROVE  Pending \subseteq Urls /\ Range(done) \subseteq Urls /\ Known \subseteq Urls
BY RangeOfSeq DEF TablesOK, Known, Pending

LEMMA ErrorsAre ==
    ASSUME TablesOK
    PROVE  /\ Errors \in Seq(Urls) /\ IsInjective(Errors) /\ Range(Errors) = broken
           /\ Len(Errors) <= Len(done)
           /\ Len(Errors) \in Nat /\ Len(done) \in Nat
<1> DEFINE r == Reverse(done)
<1>1. /\ r \in Seq(Urls) /\ IsInjective(r) /\ Range(r) = Range(done) /\ Len(r) = Len(done)
      /\ Len(done) \in Nat
  BY ReverseIs DEF TablesOK
<1> HIDE DEF r
<1>2. /\ Without(r, Known \ broken) \in Seq(Urls) /\ IsInjective(Without(r, Known \ broken))
      /\ Range(Without(r, Known \ broken)) = Range(r) \ (Known \ broken)
      /\ Len(Without(r, Known \ broken)) <= Len(r)
  BY <1>1, WithoutIs
<1>3. Errors = Without(r, Known \ broken)
  BY DEF Errors, r
<1>4. Range(done) \ (Known \ broken) = broken
  BY DEF TablesOK, Known
<1> QED
  BY <1>1, <1>2, <1>3, <1>4, LenProperties

LEMMA FirstOfIs ==
    ASSUME NEW s \in Seq(Urls)
    PROVE  /\ s = <<>> => FirstOf(s) = None
           /\ s # <<>> => FirstOf(s) = Head(s) /\ Head(s) \in Range(s) /\ Head(s) \in Urls
<1>1. ASSUME s # <<>> PROVE Head(s) \in Range(s) /\ Head(s) \in Urls
  <2>1. Len(s) \in Nat /\ DOMAIN s = 1 .. Len(s) /\ Len(s) # 0
    BY <1>1, LenProperties, EmptySeq
  <2>2. Head(s) = s[1] /\ 1 \in DOMAIN s
    BY <1>1, <2>1, HeadTailProperties
  <2> QED
    BY <2>1, <2>2, ElementOfSeq DEF Range
<1> QED
  BY <1>1 DEF FirstOf

\* The last of the errors is the one checked the longest ago.
LEMMA LastErrorIs ==
    ASSUME TablesOK
    PROVE  /\ broken = {} => Errors = <<>>
           /\ broken # {} => /\ Errors # <<>>
                             /\ FirstOf(Reverse(Errors)) = Last(Errors)
                             /\ Last(Errors) \in broken
                             /\ \A q \in broken : ~ CheckedBefore(q, Last(Errors))
           /\ FirstOf(Reverse(Errors)) \in Urls \cup {None}
<1>1. Errors \in Seq(Urls) /\ Range(Errors) = broken /\ IsInjective(Errors)
  BY ErrorsAre
<1>2. Len(Errors) \in Nat /\ DOMAIN Errors = 1 .. Len(Errors)
  BY <1>1, LenProperties
<1>3. Errors = <<>> <=> Len(Errors) = 0
  BY <1>1, EmptySeq
<1>4. Reverse(Errors) = [i \in 1 .. Len(Errors) |-> Errors[(Len(Errors) - i) + 1]]
  BY DEF Reverse
<1>5. CASE Len(Errors) = 0
  <2>1. Range(Errors) = {}
    BY <1>2, <1>5 DEF Range
  <2>2. Reverse(Errors) = <<>>
    BY <1>4, <1>5
  <2> QED
    BY <1>1, <1>3, <1>5, <2>1, <2>2, FirstOfIs, EmptySeq DEF FirstOf
<1>6. CASE Len(Errors) # 0
  <2>1. 1 \in 1 .. Len(Errors) /\ Len(Errors) \in 1 .. Len(Errors)
        /\ (Len(Errors) - 1) + 1 = Len(Errors)
    BY <1>2, <1>6
  <2>2. Errors[Len(Errors)] \in Range(Errors)
    BY <1>2, <2>1 DEF Range
  <2>3. \A i \in 1 .. Len(Errors) : Errors[(Len(Errors) - i) + 1] \in Urls
    BY <1>1, <1>2, ElementOfSeq
  <2>4. Reverse(Errors) \in Seq(Urls) /\ Len(Reverse(Errors)) = Len(Errors)
    BY <1>2, <1>4, <2>3, IsASeq
  <2>5. Reverse(Errors) # <<>>
    BY <1>6, <2>4, EmptySeq
  <2>6. Head(Reverse(Errors)) = Reverse(Errors)[1]
    BY <2>4, <2>5, HeadTailProperties
  <2>7. Reverse(Errors)[1] = Errors[Len(Errors)]
    BY <1>4, <2>1
  <2>8. Last(Errors) = Errors[Len(Errors)]
    BY DEF Last
  <2>9. broken \subseteq Urls
    BY KnownUrls DEF TablesOK
  <2>10. ASSUME NEW q \in broken PROVE ~ CheckedBefore(q, Last(Errors))
    <3>1. Last(Errors) \in broken /\ ~ Precedes(Errors, Last(Errors), q)
      BY <1>1, <1>3, <1>6, <2>2, <2>8, NoneBeforeHead
    <3>2. Precedes(done, q, Last(Errors)) => Precedes(Reverse(done), Last(Errors), q)
      BY ReversedPairs DEF TablesOK
    <3>3. q \notin Known \ broken /\ Last(Errors) \notin Known \ broken
      BY <2>10, <3>1
    <3>4. Reverse(done) \in Seq(Urls)
      BY ReverseIs DEF TablesOK
    <3>5. Precedes(Errors, Last(Errors), q) <=> Precedes(Reverse(done), Last(Errors), q)
      BY <3>3, <3>4, WithoutOrder DEF Errors
    <3>6. q \notin Pending
      BY <2>10 DEF TablesOK, Pending
    <3> QED
      BY <3>1, <3>2, <3>5, <3>6 DEF CheckedBefore
  <2> QED
    BY <1>1, <1>3, <1>6, <2>2, <2>5, <2>6, <2>7, <2>8, <2>9, <2>10 DEF FirstOf
<1> QED
  BY <1>5, <1>6

LEMMA OldestIs ==
    ASSUME TablesOK, NEW S \in SUBSET Known, S # {}, NEW p \in Oldest(S)
    PROVE  p \in S /\ \A q \in S : ~ CheckedBefore(q, p)
<1>1. CASE S \cap Pending # {}
  <2>1. p \in S /\ p \in Pending
    BY <1>1 DEF Oldest
  <2>2. ~ \E q : Precedes(done, q, p)
    BY <2>1 DEF Precedes, TablesOK, Pending, Range
  <2> QED
    BY <2>1, <2>2 DEF CheckedBefore
<1>2. CASE S \cap Pending = {}
  <2> DEFINE w == Without(done, Known \ S)
  <2>1. w \in Seq(Urls) /\ Range(w) = Range(done) \ (Known \ S)
    BY WithoutIs DEF TablesOK
  <2>2. Range(w) = S
    BY <1>2, <2>1 DEF Known
  <2> HIDE DEF w
  <2>3. w # <<>>
    <3>1. Range(<<>>) = {}
      BY DEF Range
    <3> QED
      BY <2>2, <3>1
  <2>4. Head(w) \in Range(w)
    BY <2>1, <2>3, FirstOfIs
  <2>5. p = Head(w)
    BY <1>2 DEF Oldest, w
  <2>6. ASSUME NEW q \in S PROVE ~ Precedes(done, q, p) /\ q \notin Pending
    <3>1. q \notin Known \ S /\ Without(done, Known \ S) # <<>>
      BY <2>3, <2>6 DEF w
    <3> QED
      BY <1>2, <2>5, <2>6, <3>1, FirstLeft DEF TablesOK, w
  <2> QED
    BY <2>2, <2>4, <2>5, <2>6 DEF CheckedBefore
<1> QED
  BY <1>1, <1>2

LEMMA KnownSize ==
    ASSUME TablesOK
    PROVE  IsFiniteSet(Known) /\ Cardinality(Known) = Len(queue) + Len(done)
           /\ Len(queue) \in Nat /\ Len(done) \in Nat
<1> DEFINE j == queue \o done
           n == Len(queue) + Len(done)
<1>1. /\ j \in Seq(Urls) /\ IsInjective(j) /\ Range(j) = Known /\ Len(j) = n
      /\ Len(queue) \in Nat /\ Len(done) \in Nat
  BY JoinedRows, LenProperties DEF TablesOK, Known, Pending
<1> HIDE DEF j
<1>2. DOMAIN j = 1 .. n /\ n \in Nat
  BY <1>1, LenProperties
<1> HIDE DEF n
<1>3. j \in [1 .. n -> Known]
  <2>1. \A i \in 1 .. n : j[i] \in Known
    BY <1>1, <1>2 DEF Range
  <2>2. j \in [DOMAIN j -> Urls]
    BY <1>1, LenProperties
  <2> QED
    BY <1>2, <2>1, <2>2
<1>4. j \in Bijection(1 .. n, Known)
  <2>1. \A u \in Known : \E i \in 1 .. n : j[i] = u
    BY <1>1, <1>2 DEF Range
  <2> QED
    BY <1>1, <1>2, <1>3, <2>1 DEF Bijection, Injection, Surjection, IsInjective
<1>5. ExistsBijection(1 .. n, Known)
  BY <1>4 DEF ExistsBijection
<1>6. IsFiniteSet(1 .. n) /\ Cardinality(1 .. n) = n
  BY <1>2, FS_Interval
<1> QED
  BY <1>1, <1>5, <1>6, FS_Bijection DEF n

Whats == {"choose", "errors", "queued", "pages", "checked"}

LEMMA StatementsAre ==
    ASSUME NEW cmd \in Counted
    PROVE  /\ Len(Statements(cmd)) \in Nat \ {0}
           /\ \A k \in 1 .. Len(Statements(cmd)) : Statements(cmd)[k] \in Whats
<1>1. CASE cmd = "errors"
  BY <1>1 DEF Statements, Whats, cmd_errors
<1>2. CASE cmd = "queue"
  BY <1>2 DEF Statements, Whats, cmd_queue
<1>3. CASE cmd = "status"
  BY <1>3 DEF Statements, Whats, cmd_status
<1>4. CASE cmd = "site_detail"
  BY <1>4 DEF Statements, Whats, site_detail
<1>5. CASE cmd = "site_errors"
  BY <1>5 DEF Statements, Whats, site_errors
<1>6. CASE cmd = "site_queue"
  BY <1>6 DEF Statements, Whats, site_queue
<1> QED
  BY <1>1, <1>2, <1>3, <1>4, <1>5, <1>6 DEF Counted

LEMMA SizeOK ==
    ASSUME TablesOK, NEW what \in Whats \ {"choose"}
    PROVE  Size(what) \in Nat
<1>1. Len(Errors) \in Nat /\ Len(Queued(me.list)) \in Nat /\ Len(done) \in Nat
      /\ Cardinality(Known) \in Nat
  BY ErrorsAre, KnownSize DEF Queued
<1> QED
  BY <1>1 DEF Size, Whats

-----------------------------------------------------------------------------
(* What a write does to the lists, and to the pages it is not about *)

\* The row of p is taken out.
LEMMA TakenOK ==
    ASSUME NEW s \in Seq(Urls), IsInjective(s), NEW p \in Urls
    PROVE  /\ RemoveFirst(s, p) \in Seq(Urls) /\ IsInjective(RemoveFirst(s, p))
           /\ Range(RemoveFirst(s, p)) = Range(s) \ {p}
           /\ \A q, r \in Urls \ {p} : Precedes(RemoveFirst(s, p), q, r) <=> Precedes(s, q, r)
<1>1. \A q, r \in Urls \ {p} : Precedes(RemoveFirst(s, p), q, r) <=> Precedes(s, q, r)
  BY RemovedOrder
<1> QED
  BY <1>1, RemovedRows

\* The row of p is put where it belongs; the others stay in order.
LEMMA PlacedOK ==
    ASSUME NEW s \in Seq(Urls), IsInjective(s), NEW p \in Urls, NEW i \in Places(s, p)
    PROVE  /\ Place(s, p, i) \in Seq(Urls) /\ IsInjective(Place(s, p, i))
           /\ Range(Place(s, p, i)) = Range(s) \cup {p}
           /\ p \in Range(s) => Len(Place(s, p, i)) = Len(s)
           /\ \A q, r \in Urls \ {p} : Precedes(Place(s, p, i), q, r) <=> Precedes(s, q, r)
<1> DEFINE rest == RemoveFirst(s, p)
<1>1. /\ rest \in Seq(Urls) /\ IsInjective(rest) /\ Range(rest) = Range(s) \ {p}
      /\ \A q, r \in Urls \ {p} : Precedes(rest, q, r) <=> Precedes(s, q, r)
  BY TakenOK
<1>2. p \in Range(s) => Len(rest) = Len(s) - 1 /\ Len(s) \in Nat
  BY RemovedAt, LenProperties
<1>3. i \in 1 .. Len(rest) + 1 /\ Place(s, p, i) = InsertAt(rest, i, p)
  BY DEF Places, Place
<1> HIDE DEF rest
<1>4. /\ InsertAt(rest, i, p) \in Seq(Urls) /\ IsInjective(InsertAt(rest, i, p))
      /\ Range(InsertAt(rest, i, p)) = Range(rest) \cup {p}
      /\ Len(InsertAt(rest, i, p)) = Len(rest) + 1
  BY <1>1, <1>3, InsertedRows
<1>5. \A q, r \in Urls \ {p} :
        Precedes(InsertAt(rest, i, p), q, r) <=> Precedes(rest, q, r)
  BY <1>1, <1>3, InsertedOrder
<1>6. Range(rest) \cup {p} = Range(s) \cup {p}
  BY <1>1
<1> QED
  BY <1>1, <1>2, <1>3, <1>4, <1>5, <1>6

\* A step leaves the pages of S alone: they are where they were, in the order
\* in which they were.
Alone(S) ==
    \A p \in S :
       /\ p \in Range(queue') <=> p \in Range(queue)
       /\ p \in Range(done') <=> p \in Range(done)
       /\ p \in broken' <=> p \in broken
       /\ \A q \in S : /\ Precedes(queue', q, p) <=> Precedes(queue, q, p)
                       /\ Precedes(done', q, p) <=> Precedes(done, q, p)

LEMMA FindOK ==
    ASSUME TablesOK, NEW u \in Urls, OthersFind(u)
    PROVE  TablesOK' /\ Alone(Known)
<1>1. /\ queue' = Append(queue, u) /\ done' = done /\ broken' = broken
      /\ u \notin Range(queue) /\ u \notin Range(done)
  BY DEF OthersFind, Known, Pending
<1>2. /\ queue' \in Seq(Urls) /\ IsInjective(queue') /\ Range(queue') = Range(queue) \cup {u}
  BY <1>1, AppendedRows DEF TablesOK
<1>3. \A q, p : p # u => (Precedes(queue', q, p) <=> Precedes(queue, q, p))
  BY <1>1, AppendedPairs DEF TablesOK
<1>4. \A p \in Known : p # u
  BY <1>1 DEF Known, Pending
<1>5. TablesOK'
  BY <1>1, <1>2 DEF TablesOK
<1> QED
  BY <1>1, <1>2, <1>3, <1>4, <1>5 DEF Alone

LEMMA AttemptOK ==
    ASSUME TablesOK, NEW p \in Urls, NEW i \in Places(done, p), NEW fails \in BOOLEAN,
           Attempt(p, i, fails)
    PROVE  TablesOK' /\ Range(done') = Range(done) \cup {p} /\ Alone(Urls \ {p})
<1>0. /\ queue \in Seq(Urls) /\ IsInjective(queue) /\ queue' = RemoveFirst(queue, p)
      /\ done \in Seq(Urls) /\ IsInjective(done) /\ done' = Place(done, p, i)
  BY DEF TablesOK, Attempt
<1>1. /\ queue' \in Seq(Urls) /\ IsInjective(queue') /\ Range(queue') = Range(queue) \ {p}
      /\ \A q, r \in Urls \ {p} : Precedes(queue', q, r) <=> Precedes(queue, q, r)
  BY <1>0, TakenOK
<1>2. /\ done' \in Seq(Urls) /\ IsInjective(done') /\ Range(done') = Range(done) \cup {p}
      /\ \A q, r \in Urls \ {p} : Precedes(done', q, r) <=> Precedes(done, q, r)
  BY <1>0, PlacedOK
<1>3. broken' = broken \cup {p} \/ broken' = broken \ {p}
  BY DEF Attempt
<1>4. TablesOK'
  BY <1>1, <1>2, <1>3 DEF TablesOK
<1> QED
  BY <1>1, <1>2, <1>3, <1>4 DEF Alone

LEMMA ToggleOK ==
    ASSUME TablesOK, NEW p \in Urls, OthersToggle(p)
    PROVE  TablesOK' /\ Alone(Urls \ {p})
<1>0. /\ queue \in Seq(Urls) /\ IsInjective(queue)
      /\ done \in Seq(Urls) /\ IsInjective(done) /\ done' = RemoveFirst(done, p)
  BY DEF TablesOK, OthersToggle
<1>1. PICK i \in Places(queue, p) : queue' = Place(queue, p, i)
  BY DEF OthersToggle
<1>2. /\ queue' \in Seq(Urls) /\ IsInjective(queue') /\ Range(queue') = Range(queue) \cup {p}
      /\ \A q, r \in Urls \ {p} : Precedes(queue', q, r) <=> Precedes(queue, q, r)
  BY <1>0, <1>1, PlacedOK
<1>3. /\ done' \in Seq(Urls) /\ IsInjective(done') /\ Range(done') = Range(done) \ {p}
      /\ \A q, r \in Urls \ {p} : Precedes(done', q, r) <=> Precedes(done, q, r)
  BY <1>0, TakenOK
<1>4. broken' = broken \ {p}
  BY DEF OthersToggle
<1>5. TablesOK'
  BY <1>2, <1>3, <1>4 DEF TablesOK
<1> QED
  BY <1>2, <1>3, <1>4, <1>5 DEF Alone

LEMMA DeleteOK ==
    ASSUME TablesOK, NEW S, OthersDelete(S)
    PROVE  TablesOK' /\ Alone(Urls \ S)
<1>1. /\ queue' = Without(queue, S) /\ done' = Without(done, S) /\ broken' = broken \ S
  BY DEF OthersDelete
<1>2. /\ queue' \in Seq(Urls) /\ IsInjective(queue') /\ Range(queue') = Range(queue) \ S
      /\ done' \in Seq(Urls) /\ IsInjective(done') /\ Range(done') = Range(done) \ S
  BY <1>1, WithoutIs DEF TablesOK
<1>3. \A q, p \in Urls \ S : /\ Precedes(queue', q, p) <=> Precedes(queue, q, p)
                             /\ Precedes(done', q, p) <=> Precedes(done, q, p)
  BY <1>1, WithoutOrder DEF TablesOK
<1>4. TablesOK'
  BY <1>1, <1>2 DEF TablesOK
<1> QED
  BY <1>1, <1>2, <1>3, <1>4 DEF Alone

\* The others write the tables, not what the reader holds, but for the mark
\* that its page is gone; and they leave alone what stays old.
LEMMA OthersEffect ==
    ASSUME TypeInv, Others
    PROVE  /\ TablesOK' /\ old' \subseteq old /\ Alone(old')
           /\ me' = [me EXCEPT !.gone = me'.gone] /\ me'.gone \in BOOLEAN
           /\ calm' = (me.pc = "idle") /\ kept' \in BOOLEAN /\ steady' \in BOOLEAN
           /\ me.cmd \in Counted /\ kept' => kept /\ Range(done) \subseteq Range(done')
<1>0. /\ me \in Reader /\ kept \in BOOLEAN /\ steady \in BOOLEAN /\ TablesOK
      /\ old \subseteq Known /\ Known \subseteq Urls
  BY KnownUrls DEF TypeInv, HistoryOK
<1>1. calm' = (me.pc = "idle")
      /\ kept' = (me.cmd \in Counted => kept /\ Range(done) \subseteq Range(done'))
  BY DEF Others
<1> DEFINE Fine == /\ TablesOK' /\ old' \subseteq old /\ Alone(old')
                   /\ me' = [me EXCEPT !.gone = me'.gone] /\ me'.gone \in BOOLEAN
                   /\ steady' \in BOOLEAN
<1>2. ASSUME NEW S, NEW T, S \subseteq T, Alone(T) PROVE Alone(S)
  BY <1>2 DEF Alone
<1>3. me = [me EXCEPT !.gone = me.gone] /\ me.gone \in BOOLEAN
  BY <1>0 DEF Reader
<1>4. ASSUME NEW u \in Urls, OthersFind(u) PROVE Fine
  <2>1. TablesOK' /\ Alone(Known)
    BY <1>0, <1>4, FindOK
  <2>2. me' = me /\ old' = old /\ steady' = steady
    BY <1>4 DEF OthersFind
  <2> QED
    BY <1>0, <1>2, <1>3, <2>1, <2>2
<1>5. ASSUME NEW u \in Urls, OthersAttempt(u) PROVE Fine
  <2>1. TablesOK' /\ Alone(Urls \ {u})
    BY <1>0, <1>5, AttemptOK DEF OthersAttempt
  <2>2. me' = me /\ old' = old \ {u} /\ steady' \in BOOLEAN
    BY <1>0, <1>5 DEF OthersAttempt, Touched
  <2>3. old' \subseteq Urls \ {u}
    BY <1>0, <2>2
  <2> QED
    BY <1>2, <1>3, <2>1, <2>2, <2>3
<1>6. ASSUME NEW u \in Urls, OthersToggle(u) PROVE Fine
  <2>1. TablesOK' /\ Alone(Urls \ {u})
    BY <1>0, <1>6, ToggleOK
  <2>2. me' = me /\ old' = old \ {u} /\ steady' \in BOOLEAN
    BY <1>0, <1>6 DEF OthersToggle, Touched
  <2>3. old' \subseteq Urls \ {u}
    BY <1>0, <2>2
  <2> QED
    BY <1>2, <1>3, <2>1, <2>2, <2>3
<1>7. ASSUME NEW S, OthersDelete(S) PROVE Fine
  <2>1. TablesOK' /\ Alone(Urls \ S)
    BY <1>0, <1>7, DeleteOK
  <2>2. /\ me' = [me EXCEPT !.gone = @ \/ (me.pc = "check" /\ me.page \in S)]
        /\ old' = old \ S /\ steady' \in BOOLEAN
    BY <1>7 DEF OthersDelete
  <2>3. me' = [me EXCEPT !.gone = me'.gone] /\ me'.gone \in BOOLEAN
    BY <1>0, <2>2 DEF Reader
  <2>4. old' \subseteq Urls \ S
    BY <1>0, <2>2
  <2> QED
    BY <1>2, <2>1, <2>2, <2>3, <2>4
<1>8. Fine
  BY <1>4, <1>5, <1>6, <1>7 DEF Others
<1> QED
  BY <1>0, <1>1, <1>8

\* A step of the reader that writes no table.
LEMMA ReadsOnly ==
    ASSUME TablesOK, UNCHANGED tables
    PROVE  TablesOK'
BY DEF tables, TablesOK, Known, Pending

\* Reads that keep the histories.
LEMMA SameOK == ASSUME HistoryOK, Same, UNCHANGED tables PROVE HistoryOK'
BY DEF HistoryOK, Same, tables, Known, Pending

LEMMA IdleOK == Idle \in Reader /\ Idle.pc = "idle"
<1>1. <<>> \in Seq(Nat)
  BY EmptySeq
<1> QED
  BY <1>1 DEF Idle, Reader, Points, Commands

LEMMA StartsType ==
    ASSUME ReadersAssumption, TypeInv,
           \/ \E n \in 1 .. MaxNum : StartDraw("check", n)
           \/ StartDraw("recheck", 1)
           \/ \E p \in Urls : StartCheck(p)
           \/ \E cmd \in Counted \cup {"last"} : StartListing(cmd)
    PROVE  TypeInv'
<1>1. ASSUME NEW cmd \in {"check", "recheck"}, NEW n \in Nat, StartDraw(cmd, n) PROVE TypeInv'
  <2>1. me' \in Reader /\ me'.pc = "scheduled"
    BY <1>1, IdleOK DEF StartDraw, Reader, Points, Commands
  <2>2. HistoryOK'
    BY <1>1 DEF StartDraw, Fresh, HistoryOK, tables, Known, Pending
  <2>3. TablesOK'
    BY <1>1, ReadsOnly DEF StartDraw, TypeInv
  <2> QED
    BY <2>1, <2>2, <2>3 DEF TypeInv, Counting, Paging
<1>2. ASSUME NEW p \in Urls, StartCheck(p) PROVE TypeInv'
  <2>1. me' \in Reader /\ me'.pc = "check"
    BY <1>2, IdleOK DEF StartCheck, Reader, Points, Commands
  <2>2. HistoryOK'
    BY <1>2 DEF StartCheck, Fresh, HistoryOK
  <2>3. TablesOK'
    BY <1>2, ReadsOnly DEF StartCheck, TypeInv
  <2> QED
    BY <2>1, <2>2, <2>3 DEF TypeInv, Counting, Paging
<1>3. ASSUME NEW cmd \in Counted \cup {"last"}, StartListing(cmd) PROVE TypeInv'
  <2>1. me' \in Reader /\ me'.cmd = cmd /\ me'.num = 1 /\ me'.pc = "count"
    BY <1>3, IdleOK DEF StartListing, Reader, Points, Commands
  <2>2. HistoryOK'
    BY <1>3 DEF StartListing, Fresh, HistoryOK, tables, Known, Pending
  <2>3. TablesOK'
    BY <1>3, ReadsOnly DEF StartListing, TypeInv
  <2>4. cmd # "last" => cmd \in Counted /\ 1 \in 1 .. Len(Statements(cmd))
    <3>1. cmd \in Counted => Len(Statements(cmd)) \in Nat \ {0}
      BY StatementsAre
    <3> QED
      BY <3>1
  <2> QED
    BY <2>1, <2>2, <2>3, <2>4 DEF TypeInv, Counting, Paging
<1> QED
  BY <1>1, <1>2, <1>3 DEF ReadersAssumption

\* The statements of next_page_to_check.
DrawStep == ReadScheduled \/ CountErrors \/ LastError \/ ChooseQueue \/ CountQueued
            \/ FirstQueued \/ AnyPage

LEMMA DrawType ==
    ASSUME TypeInv, DrawStep
    PROVE  /\ TypeInv' /\ UNCHANGED tables /\ Same /\ me'.pc \notin {"count", "rows", "over", "idle"}
           /\ me.pc \notin {"count", "rows", "over", "idle"} /\ me'.cmd = me.cmd
<1>0. me \in Reader /\ TablesOK /\ HistoryOK
  BY DEF TypeInv
<1>1. Known \subseteq Urls
  BY <1>0, KnownUrls DEF TablesOK
<1>2. ASSUME ReadScheduled
      PROVE  /\ Goes("scheduled") /\ me' \in Reader /\ me'.cmd = me.cmd
             /\ me'.pc \in {"errors", "check"}
  <2>1. PICK due \in SUBSET (Schedulable \cap Known) :
           IF due = {} THEN To("errors") ELSE \E p \in Oldest(due) : Draws(p, due)
    BY <1>2 DEF ReadScheduled
  <2>2. CASE due = {}
    BY <1>0, <1>2, <2>1, <2>2 DEF ReadScheduled, To, Reader, Points
  <2>3. CASE due # {}
    <3>1. PICK p \in Oldest(due) : Draws(p, due)
      BY <2>1, <2>3
    <3>2. p \in Urls
      BY <1>0, <1>1, <2>3, OldestIs
    <3> QED
      BY <1>0, <1>2, <3>1, <3>2 DEF ReadScheduled, Draws, Reader, Points
  <2> QED
    BY <2>2, <2>3
<1>3. ASSUME CountErrors
      PROVE  /\ Goes("errors") /\ me' \in Reader /\ me'.cmd = me.cmd
             /\ me'.pc \in {"queued", "lastError"}
  BY <1>0, <1>3 DEF CountErrors, To, Reader, Points
<1>4. ASSUME LastError
      PROVE  Goes("lastError") /\ me' \in Reader /\ me'.cmd = me.cmd /\ me'.pc = "check"
  BY <1>0, <1>4, LastErrorIs DEF LastError, Draws, Reader, Points
<1>5. ASSUME ChooseQueue
      PROVE  /\ Goes("queued") \/ Goes("queuedAgain")
             /\ me' \in Reader /\ me'.cmd = me.cmd /\ me'.pc \in {"countQueued", "firstQueued"}
  <2>1. PICK pc \in {<<"queued", "countQueued">>, <<"queuedAgain", "firstQueued">>} :
           /\ Goes(pc[1])
           /\ me' = [me EXCEPT !.pc = pc[2],
                               !.list = IF queue # <<>> THEN "pending" ELSE "checked"]
    BY <1>5 DEF ChooseQueue
  <2>2. /\ pc[1] \in {"queued", "queuedAgain"} /\ pc[2] \in {"countQueued", "firstQueued"}
    OBVIOUS
  <2> QED
    BY <1>0, <2>1, <2>2 DEF Reader, Points
<1>6. ASSUME CountQueued
      PROVE  /\ Goes("countQueued") /\ me' \in Reader /\ me'.cmd = me.cmd
             /\ me'.pc \in {"queuedAgain", "anyPage"}
  BY <1>0, <1>6 DEF CountQueued, Reader, Points
<1>7. ASSUME FirstQueued
      PROVE  Goes("firstQueued") /\ me' \in Reader /\ me'.cmd = me.cmd /\ me'.pc = "check"
  <2>1. FirstOf(Queued(me.list)) \in Urls \cup {None}
    BY <1>0, FirstOfIs DEF Queued, TablesOK
  <2> QED
    BY <1>0, <1>7, <2>1 DEF FirstQueued, Draws, Reader, Points
<1>8. ASSUME AnyPage
      PROVE  Goes("anyPage") /\ me' \in Reader /\ me'.cmd = me.cmd /\ me'.pc = "check"
  <2>1. \E p \in Urls \cup {None} : Draws(p, {})
    <3>1. CASE Known = {}
      BY <1>8, <3>1 DEF AnyPage
    <3>2. CASE Known # {}
      <4>1. PICK p \in Oldest(Known) : Draws(p, {})
        BY <1>8, <3>2 DEF AnyPage
      <4>2. p \in Urls
        BY <1>0, <1>1, <3>2, <4>1, OldestIs
      <4> QED
        BY <4>1, <4>2
    <3> QED
      BY <3>1, <3>2
  <2>2. PICK p \in Urls \cup {None} : Draws(p, {})
    BY <2>1
  <2>3. Goes("anyPage") /\ me' = [me EXCEPT !.pc = "check", !.page = p, !.via = me.pc,
                                            !.due = {}, !.list = "none"]
    BY <1>8, <2>2 DEF AnyPage, Draws
  <2>4. me.pc \in Points /\ {} \in SUBSET Schedulable
    BY <1>0 DEF Reader
  <2> QED
    BY <1>0, <2>2, <2>3, <2>4 DEF Reader, Points
<1>9. /\ me' \in Reader /\ me'.cmd = me.cmd /\ UNCHANGED tables /\ Same
      /\ me'.pc \notin {"count", "rows", "over", "idle"}
      /\ me.pc \notin {"count", "rows", "over", "idle"}
  BY <1>2, <1>3, <1>4, <1>5, <1>6, <1>7, <1>8 DEF DrawStep, Goes
<1> QED
  BY <1>0, <1>9, ReadsOnly, SameOK DEF TypeInv, Counting, Paging

\* The reader is done, or killed.
LEMMA LeavesType ==
    ASSUME TypeInv, Leaves
    PROVE  TypeInv' /\ me'.pc = "idle"
<1>1. me' \in Reader /\ me'.pc = "idle"
  BY IdleOK DEF Leaves
<1>2. HistoryOK'
  BY DEF Leaves, Fresh, HistoryOK
<1>3. TablesOK'
  BY ReadsOnly DEF Leaves, TypeInv
<1> QED
  BY <1>1, <1>2, <1>3 DEF TypeInv, Counting, Paging

LEMMA CheckDrawnType ==
    ASSUME TypeInv, CheckDrawn
    PROVE  TypeInv' /\ me'.pc \in {"scheduled", "idle"}
<1>0. me \in Reader /\ TablesOK
  BY DEF TypeInv
<1>1. me.page \in Urls /\ me.num > 0 /\ me.num \in Nat
  BY <1>0 DEF CheckDrawn, Reader
<1>2. TablesOK'
  <2>1. PICK i \in Places(done, me.page), fails \in BOOLEAN : Attempt(me.page, i, fails)
    BY DEF CheckDrawn
  <2> QED
    BY <1>0, <1>1, <2>1, AttemptOK
<1>3. HistoryOK'
  BY DEF CheckDrawn, Fresh, HistoryOK
<1>4. me' \in Reader /\ me'.pc \in {"scheduled", "idle"}
  <2>1. NextNum \in Nat
    BY <1>1 DEF NextNum
  <2> QED
    BY <2>1, IdleOK DEF CheckDrawn, Reader, Points, Commands
<1> QED
  BY <1>2, <1>3, <1>4 DEF TypeInv, Counting, Paging

\* One statement of a report: the next is asked for, or the report is over.
LEMMA StatementType ==
    ASSUME TypeInv, ReadStatement
    PROVE  /\ TypeInv' /\ UNCHANGED tables /\ Same
           /\ me.pc = "count" /\ me.cmd \in Counted /\ me.num \in 1 .. Len(Statements(me.cmd))
           /\ me'.cmd = me.cmd /\ me'.num = me.num + 1
           /\ me'.pc = IF me.num = Len(Statements(me.cmd)) THEN "over" ELSE "count"
           /\ Statements(me.cmd)[me.num] = "choose" =>
                 /\ me'.list = IF queue # <<>> THEN "pending" ELSE "checked"
                 /\ me'.counts = me.counts
           /\ Statements(me.cmd)[me.num] # "choose" =>
                 /\ me'.list = me.list
                 /\ me'.counts = Append(me.counts, Size(Statements(me.cmd)[me.num]))
<1>0. me \in Reader /\ TablesOK /\ HistoryOK
  BY DEF TypeInv
<1>1. /\ me.pc = "count" /\ me.cmd # "last" /\ UNCHANGED tables /\ Same
      /\ me.cmd \in Counted /\ me.num \in 1 .. Len(Statements(me.cmd))
  BY DEF ReadStatement, Goes, TypeInv, Counting
<1> DEFINE what == Statements(me.cmd)[me.num]
           n == Len(Statements(me.cmd))
           goes == IF me.num = n THEN "over" ELSE "count"
           next == [me EXCEPT !.num = @ + 1, !.pc = goes]
<1>2. what \in Whats /\ n \in Nat \ {0}
  BY <1>1, StatementsAre
<1>3. me' = IF what = "choose"
           THEN [next EXCEPT !.list = IF queue # <<>> THEN "pending" ELSE "checked"]
           ELSE [next EXCEPT !.counts = Append(@, Size(what))]
  BY DEF ReadStatement
<1>4. goes \in {"over", "count"}
  OBVIOUS
<1> HIDE DEF what, n, goes
<1>5. /\ next \in Reader /\ next.cmd = me.cmd /\ next.num = me.num + 1 /\ next.pc = goes
      /\ next.counts = me.counts /\ next.list = me.list
  <2>1. goes \in Points /\ me.num + 1 \in Nat
    BY <1>0, <1>4 DEF Reader, Points
  <2>2. next = [me EXCEPT !.num = me.num + 1, !.pc = goes]
    BY <1>0 DEF Reader
  <2> HIDE DEF next
  <2>3. next \in Reader
    BY <1>0, <2>1, <2>2 DEF Reader
  <2>4. /\ next.cmd = me.cmd /\ next.num = me.num + 1 /\ next.pc = goes
        /\ next.counts = me.counts /\ next.list = me.list
    BY <1>0, <2>2 DEF Reader
  <2> QED
    BY <2>3, <2>4
<1> HIDE DEF next
<1>6. CASE what = "choose"
  <2>1. /\ me' \in Reader /\ me'.cmd = me.cmd /\ me'.num = me.num + 1 /\ me'.counts = me.counts
        /\ me'.pc = goes
        /\ me'.list = IF queue # <<>> THEN "pending" ELSE "checked"
    BY <1>3, <1>6, <1>5 DEF Reader
  <2>2. Counting'
    BY <1>1, <1>2, <2>1 DEF Counting, n, goes
  <2> QED
    BY <1>0, <1>1, <1>6, <2>1, <2>2, ReadsOnly, SameOK DEF TypeInv, Paging, Counted, what, n, goes
<1>7. CASE what # "choose"
  <2>1. Append(me.counts, Size(what)) \in Seq(Nat)
    BY <1>0, <1>2, <1>7, SizeOK, AppendProperties DEF Reader
  <2>2. /\ me' \in Reader /\ me'.cmd = me.cmd /\ me'.num = me.num + 1 /\ me'.list = me.list
        /\ me'.pc = goes
        /\ me'.counts = Append(me.counts, Size(what))
    BY <1>3, <1>7, <1>5, <2>1 DEF Reader
  <2>3. Counting'
    BY <1>1, <1>2, <2>2 DEF Counting, n, goes
  <2> QED
    BY <1>0, <1>1, <1>7, <2>2, <2>3, ReadsOnly, SameOK DEF TypeInv, Paging, Counted, what, n, goes
<1> QED
  BY <1>6, <1>7

LEMMA CountRowsType ==
    ASSUME TypeInv, CountRows
    PROVE  /\ TypeInv' /\ UNCHANGED tables /\ Same
           /\ me.pc = "count" /\ me.cmd = "last"
           /\ me' = [me EXCEPT !.counts = <<Len(done)>>, !.pc = me'.pc]
           /\ me'.pc = IF me.num > NumPages(Len(done)) THEN "over" ELSE "rows"
<1>0. me \in Reader /\ TablesOK /\ HistoryOK
  BY DEF TypeInv
<1>1. <<Len(done)>> \in Seq(Nat)
  BY <1>0, ErrorsAre
<1> DEFINE goes == IF me.num > NumPages(Len(done)) THEN "over" ELSE "rows"
<1>2. goes \in Points
  BY DEF Points
<1>3. me' = [me EXCEPT !.counts = <<Len(done)>>, !.pc = goes]
  BY DEF CountRows
<1> HIDE DEF goes
<1>4. me' \in Reader /\ me'.cmd = me.cmd /\ me'.pc = goes /\ me'.num = me.num
      /\ me'.counts = <<Len(done)>>
  BY <1>0, <1>1, <1>2, <1>3 DEF Reader
<1>5. UNCHANGED tables /\ Same /\ me.pc = "count" /\ me.cmd = "last" /\ me.num >= 1
  BY DEF CountRows, Goes, TypeInv, Paging
<1>6. TypeInv'
  BY <1>0, <1>4, <1>5, ReadsOnly, SameOK DEF TypeInv, Counting, Paging
<1> QED
  BY <1>3, <1>4, <1>5, <1>6 DEF goes

-----------------------------------------------------------------------------
(* The pages of a listing *)

\* Before the page n of a listing there are Skipped(n) rows.
Skipped(n) == (n - 1) * PAGE_SIZE

LEMMA PagesCover ==
    ASSUME ReadersAssumption
    PROVE  /\ \A n \in Nat \ {0} : Skipped(n) \in Nat /\ n * PAGE_SIZE = Skipped(n) + PAGE_SIZE
                                   /\ Skipped(n + 1) = n * PAGE_SIZE
           /\ \A count \in Nat : /\ NumPages(count) \in Nat \ {0}
                                 /\ NumPages(count) * PAGE_SIZE >= count
           /\ \A n, count \in Nat : n >= NumPages(count) => n * PAGE_SIZE >= count
<1>1. PAGE_SIZE \in Nat \ {0}
  BY DEF ReadersAssumption
<1>2. ASSUME NEW n \in Nat \ {0}
      PROVE  Skipped(n) \in Nat /\ n * PAGE_SIZE = Skipped(n) + PAGE_SIZE
             /\ Skipped(n + 1) = n * PAGE_SIZE
  <2>1. n - 1 \in Nat /\ n = (n - 1) + 1 /\ (n + 1) - 1 = n
    OBVIOUS
  <2> QED
    BY <1>1, <2>1 DEF Skipped
<1>3. ASSUME NEW count \in Nat
      PROVE  /\ NumPages(count) \in Nat \ {0}
             /\ NumPages(count) * PAGE_SIZE >= count
  <2> DEFINE q == (count + PAGE_SIZE - 1) \div PAGE_SIZE
  <2>1. q \in Nat /\ q * PAGE_SIZE >= count
    BY <1>1
  <2> HIDE DEF q
  <2>2. {1, q} \subseteq Nat /\ {1, q} # {} /\ 1 \in {1, q} /\ q \in {1, q}
    BY <2>1
  <2>3. NumPages(count) = Max({1, q})
    BY DEF NumPages, q
  <2>4. Max({1, q}) \in {1, q} /\ Max({1, q}) >= 1 /\ Max({1, q}) >= q
    <3>1. \E m \in {1, q} : \A n \in {1, q} : m >= n
      BY <2>1
    <3> QED
      BY <3>1 DEF Max
  <2>5. NumPages(count) \in Nat \ {0} /\ NumPages(count) >= q
    BY <2>1, <2>3, <2>4
  <2>6. NumPages(count) * PAGE_SIZE >= q * PAGE_SIZE
    BY <1>1, <2>1, <2>5
  <2>7. NumPages(count) * PAGE_SIZE \in Nat /\ q * PAGE_SIZE \in Nat
    BY <1>1, <2>1, <2>5
  <2> QED
    BY <2>1, <2>5, <2>6, <2>7
<1>4. ASSUME NEW n \in Nat, NEW count \in Nat, n >= NumPages(count)
      PROVE  n * PAGE_SIZE >= count
  <2>1. NumPages(count) \in Nat /\ NumPages(count) * PAGE_SIZE >= count
    BY <1>3
  <2>2. n * PAGE_SIZE >= NumPages(count) * PAGE_SIZE
    BY <1>1, <1>4, <2>1
  <2>3. NumPages(count) * PAGE_SIZE \in Nat /\ n * PAGE_SIZE \in Nat
    BY <1>1, <2>1
  <2> QED
    BY <2>1, <2>2, <2>3
<1> QED
  BY <1>2, <1>3, <1>4

\* The last row of a page of the listing.
LastRow == Min({me.num * PAGE_SIZE, me.counts[1], Len(done)})

LEMMA ReadRowsType ==
    ASSUME ReadersAssumption, TypeInv, ReadRows
    PROVE  /\ TypeInv' /\ UNCHANGED tables /\ Same
           /\ me.pc = "rows" /\ me.cmd = "last" /\ me.num \in Nat \ {0} /\ me.counts[1] \in Nat
           /\ me'.cmd = "last" /\ me'.num = me.num + 1
           /\ me'.pc = IF me.num < NumPages(me.counts[1]) THEN "count" ELSE "over"
           /\ me'.seen = me.seen \cup {AllChecked[i] : i \in Skipped(me.num) + 1 .. LastRow}
           /\ LastRow \in {me.num * PAGE_SIZE, me.counts[1], Len(done)}
<1>0. me \in Reader /\ TablesOK /\ HistoryOK
  BY DEF TypeInv
<1>1. /\ me.pc = "rows" /\ me.cmd = "last" /\ me.num \in Nat \ {0} /\ UNCHANGED tables /\ Same
      /\ Len(me.counts) = 1
  BY <1>0 DEF ReadRows, Goes, TypeInv, Paging, Reader
<1>2. me.counts[1] \in Nat
  BY <1>0, <1>1, ElementOfSeq DEF Reader
<1>3. /\ AllChecked \in Seq(Urls) /\ DOMAIN AllChecked = 1 .. Len(done) /\ Len(done) \in Nat
      /\ Len(AllChecked) = Len(done)
  BY <1>0, ReverseIs DEF AllChecked, TablesOK
<1>4. Skipped(me.num) \in Nat /\ me.num * PAGE_SIZE \in Nat
  <2>1. Skipped(me.num) \in Nat
    BY <1>1, PagesCover
  <2>2. PAGE_SIZE \in Nat
    BY DEF ReadersAssumption
  <2> QED
    BY <1>1, <2>1, <2>2
<1>5. LastRow \in {me.num * PAGE_SIZE, me.counts[1], Len(done)} /\ LastRow \in Nat
      /\ LastRow <= Len(done)
  BY <1>2, <1>3, <1>4, MinIs DEF LastRow
<1> DEFINE rows == SubSeq(AllChecked, Skipped(me.num) + 1, LastRow)
           goes == IF me.num < NumPages(me.counts[1]) THEN "count" ELSE "over"
<1>6. me' = [me EXCEPT !.seen = @ \cup Range(rows), !.num = @ + 1, !.pc = goes]
  BY DEF ReadRows, Skipped, LastRow
<1>7. Range(rows) = {AllChecked[i] : i \in Skipped(me.num) + 1 .. LastRow} /\ Range(rows) \subseteq Urls
  <2> DEFINE lo == Skipped(me.num)
             hi == LastRow
             all == AllChecked
  <2>1. lo \in Nat /\ hi \in Nat /\ hi <= Len(done)
    BY <1>4, <1>5
  <2>2. all \in Seq(Urls) /\ \A i \in 1 .. Len(done) : all[i] \in Urls
    BY <1>3, ElementOfSeq
  <2> HIDE DEF lo, hi, all
  <2>3. \A i \in lo + 1 .. hi : all[i] \in Urls
    BY <1>3, <2>1, <2>2
  <2> DEFINE s == SubSeq(all, lo + 1, hi)
  <2>4. /\ s \in Seq(Urls)
        /\ Len(s) = IF lo + 1 <= hi THEN hi - (lo + 1) + 1 ELSE 0
        /\ \A i \in 1 .. hi - (lo + 1) + 1 : s[i] = all[(lo + 1) + i - 1]
    BY <2>1, <2>3, SubSeqProperties
  <2> HIDE DEF s
  <2>5. DOMAIN s = 1 .. Len(s)
    BY <2>4, LenProperties
  <2>6. ASSUME NEW i \in lo + 1 .. hi PROVE all[i] \in Range(s)
    <3>1. i - lo \in DOMAIN s /\ s[i - lo] = all[i]
      BY <2>1, <2>4, <2>5, <2>6
    <3> QED
      BY <3>1 DEF Range
  <2>7. ASSUME NEW k \in DOMAIN s PROVE \E i \in lo + 1 .. hi : s[k] = all[i]
    <3>1. lo + k \in lo + 1 .. hi /\ s[k] = all[lo + k]
      BY <2>1, <2>4, <2>5, <2>7
    <3> QED
      BY <3>1
  <2>8. Range(s) = {all[i] : i \in lo + 1 .. hi}
    BY <2>6, <2>7 DEF Range
  <2> QED
    BY <2>3, <2>8 DEF s, lo, hi, all
<1> HIDE DEF rows
<1>8. goes \in Points
  BY DEF Points
<1>9. goes \in {"count", "over"}
  OBVIOUS
<1> HIDE DEF goes
<1>10. /\ me' \in Reader /\ me'.cmd = "last" /\ me'.num = me.num + 1 /\ me'.pc = goes
       /\ me'.seen = me.seen \cup Range(rows)
  <2>1. me.num + 1 \in Nat /\ me.seen \cup Range(rows) \in SUBSET Urls
    BY <1>0, <1>7 DEF Reader
  <2> QED
    BY <1>0, <1>1, <1>6, <1>8, <2>1 DEF Reader
<1>11. TypeInv'
  BY <1>0, <1>1, <1>9, <1>10, ReadsOnly, SameOK DEF TypeInv, Counting, Paging
<1> QED
  BY <1>1, <1>2, <1>5, <1>7, <1>10, <1>11 DEF goes

-----------------------------------------------------------------------------
LEMMA TypeInit == Init => TypeInv
<1> SUFFICES ASSUME Init PROVE TypeInv
  OBVIOUS
<1>1. PICK u \in Urls : queue = <<u>>
  BY DEF Init
<1>2. queue \in Seq(Urls) /\ done \in Seq(Urls) /\ done = <<>>
  BY <1>1, EmptySeq DEF Init
<1>3. IsInjective(queue) /\ IsInjective(done) /\ Range(done) = {}
  BY <1>1, <1>2 DEF IsInjective, Range
<1>4. TablesOK
  BY <1>2, <1>3 DEF Init, TablesOK
<1> QED
  BY <1>4, IdleOK DEF Init, TypeInv, HistoryOK, Counting, Paging

LEMMA LeavesShape ==
    ASSUME NothingToCheck \/ CheckRaises \/ Shown \/ Dies
    PROVE  Leaves
BY DEF NothingToCheck, CheckRaises, Shown, Dies

LEMMA OthersType ==
    ASSUME TypeInv, Others
    PROVE  TypeInv'
<1>1. /\ me' = [me EXCEPT !.gone = me'.gone] /\ me'.gone \in BOOLEAN
      /\ calm' = (me.pc = "idle") /\ kept' \in BOOLEAN /\ steady' \in BOOLEAN
      /\ old' \subseteq old /\ Alone(old') /\ TablesOK'
  BY OthersEffect
<1>2. me \in Reader
  BY DEF TypeInv
<1>3. me' \in Reader /\ me'.pc = me.pc /\ me'.cmd = me.cmd /\ me'.num = me.num
      /\ me'.counts = me.counts
  BY <1>1, <1>2 DEF Reader
<1>4. old' \subseteq Known'
  BY <1>1 DEF TypeInv, HistoryOK, Alone, Known, Pending
<1> QED
  BY <1>1, <1>3, <1>4 DEF TypeInv, HistoryOK, Counting, Paging

\* What the actions come to: the reader starts, draws, reads a report or a
\* page of a listing, checks, or leaves; or the others write.
Starts ==
    \/ \E n \in 1 .. MaxNum : StartDraw("check", n)
    \/ StartDraw("recheck", 1)
    \/ \E p \in Urls : StartCheck(p)
    \/ \E cmd \in Counted \cup {"last"} : StartListing(cmd)

LEMMA NextSplits ==
    ASSUME [Next]_vars
    PROVE  Starts \/ DrawStep \/ CheckDrawn \/ ReadStatement \/ CountRows \/ ReadRows \/ Leaves
              \/ Others \/ UNCHANGED vars
BY LeavesShape DEF Next, Starts, DrawStep, Reads

LEMMA StutterType == ASSUME TypeInv, UNCHANGED vars PROVE TypeInv'
<1>1. UNCHANGED tables /\ UNCHANGED <<me, calm, kept, steady, old>>
  BY DEF vars
<1> QED
  BY <1>1, ReadsOnly DEF TypeInv, HistoryOK, Counting, Paging, tables, Known, Pending

LEMMA TypeStep ==
    ASSUME ReadersAssumption, TypeInv, [Next]_vars
    PROVE  TypeInv'
<1>1. CASE Starts
  BY <1>1, StartsType DEF Starts
<1>2. CASE DrawStep
  BY <1>2, DrawType
<1>3. CASE CheckDrawn
  BY <1>3, CheckDrawnType
<1>4. CASE ReadStatement
  BY <1>4, StatementType
<1>5. CASE CountRows
  BY <1>5, CountRowsType
<1>6. CASE ReadRows
  BY <1>6, ReadRowsType
<1>7. CASE Leaves
  BY <1>7, LeavesType
<1>8. CASE Others
  BY <1>8, OthersType
<1>9. CASE UNCHANGED vars
  BY <1>9, StutterType
<1> QED
  BY <1>1, <1>2, <1>3, <1>4, <1>5, <1>6, <1>7, <1>8, <1>9, NextSplits

LEMMA TypesOK == TypeInv => TypeOK
<1> SUFFICES ASSUME TypeInv PROVE TypeOK
  OBVIOUS
<1>1. IsInjective(queue \o done)
  BY JoinedRows DEF TypeInv, TablesOK
<1>2. Known \subseteq Urls
  BY KnownUrls DEF TypeInv
<1> QED
  BY <1>1, <1>2 DEF TypeInv, TablesOK, TypeOK, Reader, HistoryOK

\* A page stands once in one of the two lists, whoever finds, checks and
\* deletes pages while the reader draws or reads.
THEOREM TypeCorrect == Spec => []TypeOK
<1>1. TypeInv /\ [Next]_vars => TypeInv'
  BY ReadersAssumption, TypeStep
<1> QED
  BY TypeInit, TypesOK, <1>1, PTL DEF Spec

-----------------------------------------------------------------------------
(* What is drawn while others write *)

\* Which of the two lists is the queue.
Fit == IF queue # <<>> THEN "pending" ELSE "checked"

\* What the statements that have been run have found, of the pages that have
\* been left alone; and what is still so when nobody wrote.
DrawInv ==
    /\ \/ me.pc \in {"countQueued", "firstQueued"} /\ me.list # "pending"
       \/ me.pc = "anyPage"
       => old \cap Pending = {}
    /\ calm => /\ me.pc = "lastError" => broken # {}
               /\ me.pc = "firstQueued" => me.list = Fit
    /\ DrawnInOrder

LEMMA EmptyLists ==
    ASSUME TablesOK
    PROVE  /\ queue = <<>> <=> Pending = {}
           /\ done = <<>> <=> Range(done) = {}
           /\ Known = {} <=> queue = <<>> /\ done = <<>>
<1>1. ASSUME NEW s \in Seq(Urls) PROVE s = <<>> <=> Range(s) = {}
  <2>1. Range(<<>>) = {}
    BY DEF Range
  <2>2. s # <<>> => Range(s) # {}
    BY FirstOfIs
  <2> QED
    BY <2>1, <2>2
<1> QED
  BY <1>1 DEF TablesOK, Known, Pending

\* The order of the two lists one behind the other.
LEMMA QueueOrder ==
    ASSUME TablesOK, NEW q, NEW p
    PROVE  Precedes(queue \o done, q, p) <=>
              \/ Precedes(queue, q, p) \/ Precedes(done, q, p)
              \/ q \in Range(queue) /\ p \in Range(done)
BY JoinedPairs DEF TablesOK

\* A page that stands before another is in the list.
LEMMA PairsIn ==
    ASSUME NEW s, NEW q, NEW p, Precedes(s, q, p)
    PROVE  q \in Range(s) /\ p \in Range(s)
BY DEF Precedes, Range

LEMMA DrawSteps ==
    ASSUME ReadersAssumption, TypeInv, DrawInv, DrawStep
    PROVE  DrawInv'
<1>0. /\ me \in Reader /\ TablesOK /\ old \subseteq Known /\ Known \subseteq Urls
      /\ queue' = queue /\ done' = done /\ broken' = broken /\ calm' = calm /\ old' = old
  BY DrawType, KnownUrls DEF TypeInv, HistoryOK, tables, Same
<1>1. Known' = Known /\ Fit' = Fit /\ Pending' = Pending
      /\ \A q, p : CheckedBefore(q, p)' <=> CheckedBefore(q, p)
  BY <1>0 DEF Known, Pending, Fit, CheckedBefore
<1>2. None \notin Urls
  BY DEF ReadersAssumption
\* What has to be shown of a draw.
<1>3. ASSUME NEW p, NEW due \in SUBSET Schedulable, Draws(p, due),
             CASE me.pc = "scheduled" ->
                    p \in due /\ \A q \in due : ~ CheckedBefore(q, p)
               [] me.pc = "lastError" ->
                    /\ due = {}
                    /\ p = None => broken = {}
                    /\ p # None => p \in broken /\ \A q \in broken : ~ CheckedBefore(q, p)
               [] OTHER ->
                    /\ due = {}
                    /\ p = None => old \cap Pending = {}
                    /\ p \in old => \A q \in old : ~ Precedes(queue \o done, q, p),
             calm /\ p = None => Known = {}
      PROVE  DrawInv'
  <2>1. me'.pc = "check" /\ me'.page = p /\ me'.via = me.pc /\ me'.due = due
    BY <1>0, <1>3 DEF Draws, Reader
  <2>2. p \in old => p # None
    BY <1>0, <1>2
  <2>3. DrawnInOrder'
    <3>1. CASE me.pc = "scheduled"
      BY <1>0, <1>1, <1>3, <2>1, <3>1 DEF DrawnInOrder
    <3>2. CASE me.pc = "lastError"
      BY <1>0, <1>1, <1>3, <2>1, <2>2, <3>2 DEF DrawnInOrder
    <3>3. CASE me.pc \notin {"scheduled", "lastError"}
      BY <1>0, <1>1, <1>3, <2>1, <3>3 DEF DrawnInOrder
    <3> QED
      BY <3>1, <3>2, <3>3
  <2> QED
    BY <2>1, <2>3 DEF DrawInv
<1>4. CASE ReadScheduled
  <2>1. PICK due \in SUBSET (Schedulable \cap Known) :
           IF due = {} THEN To("errors") ELSE \E p \in Oldest(due) : Draws(p, due)
    BY <1>4 DEF ReadScheduled
  <2>2. CASE due = {}
    <3>1. me'.pc = "errors"
      BY <1>0, <2>1, <2>2 DEF To, Reader
    <3> QED
      BY <3>1 DEF DrawInv, DrawnInOrder
  <2>3. CASE due # {}
    <3>1. PICK p \in Oldest(due) : Draws(p, due)
      BY <2>1, <2>3
    <3>2. p \in due /\ \A q \in due : ~ CheckedBefore(q, p)
      BY <1>0, <2>3, OldestIs
    <3>3. p # None /\ me.pc = "scheduled" /\ due \in SUBSET Schedulable
      BY <1>0, <1>2, <1>4, <3>2 DEF ReadScheduled, Goes
    <3> QED
      BY <1>3, <3>1, <3>2, <3>3
  <2> QED
    BY <2>2, <2>3
<1>5. CASE CountErrors
  <2>1. \/ me'.pc = "queued"
        \/ me'.pc = "lastError" /\ Errors # <<>>
    BY <1>0, <1>5 DEF CountErrors, To, Reader
  <2>2. Errors # <<>> => broken # {}
    BY <1>0, LastErrorIs
  <2> QED
    BY <1>0, <2>1, <2>2 DEF DrawInv, DrawnInOrder
<1>6. CASE LastError
  <2> DEFINE p == FirstOf(Reverse(Errors))
  <2>1. me.pc = "lastError" /\ Draws(p, {}) /\ (calm => broken # {})
    BY <1>6 DEF LastError, Goes, DrawInv
  <2>2. CASE broken = {}
    <3>1. p = None
      <4>1. Errors = <<>>
        BY <1>0, <2>2, LastErrorIs
      <4> QED
        BY <4>1 DEF FirstOf, Reverse
    <3> HIDE DEF p
    <3> QED
      BY <1>3, <2>1, <2>2, <3>1
  <2>3. CASE broken # {}
    <3>1. p \in broken /\ \A q \in broken : ~ CheckedBefore(q, p)
      BY <1>0, <2>3, LastErrorIs
    <3>2. p # None
      BY <1>0, <1>2, <3>1 DEF TablesOK, Known
    <3> HIDE DEF p
    <3> QED
      BY <1>3, <2>1, <3>1, <3>2
  <2> QED
    BY <2>2, <2>3
<1>7. CASE ChooseQueue
  <2>1. PICK pc \in {<<"queued", "countQueued">>, <<"queuedAgain", "firstQueued">>} :
           /\ Goes(pc[1])
           /\ me' = [me EXCEPT !.pc = pc[2],
                               !.list = IF queue # <<>> THEN "pending" ELSE "checked"]
    BY <1>7 DEF ChooseQueue
  <2>2. me'.pc = pc[2] /\ me'.list = Fit
    BY <1>0, <2>1 DEF Goes, Fit, Reader
  <2>3. me'.pc \in {"countQueued", "firstQueued"}
    BY <2>2
  <2>4. me'.list # "pending" => Pending = {}
    BY <1>0, <2>2, EmptyLists DEF Fit
  <2> QED
    BY <1>0, <1>1, <2>2, <2>3, <2>4 DEF DrawInv, DrawnInOrder
<1>8. CASE CountQueued
  <2>1. me.pc = "countQueued"
        /\ me'.pc = IF Queued(me.list) # <<>> THEN "queuedAgain" ELSE "anyPage"
    BY <1>0, <1>8 DEF CountQueued, Goes, Reader
  <2>2. Queued(me.list) = <<>> => old \cap Pending = {}
    BY <1>0, <2>1, EmptyLists DEF DrawInv, Queued
  <2> QED
    BY <1>0, <1>1, <2>1, <2>2 DEF DrawInv, DrawnInOrder
<1>9. CASE FirstQueued
  <2> DEFINE p == FirstOf(Queued(me.list))
  <2>1. /\ me.pc = "firstQueued" /\ Draws(p, {}) /\ (calm => me.list = Fit)
        /\ me.list # "pending" => old \cap Pending = {}
    BY <1>9 DEF FirstQueued, Goes, DrawInv
  <2>2. calm /\ Queued(me.list) = <<>> => Known = {}
    BY <1>0, <2>1, EmptyLists DEF Queued, Fit
  <2>3. CASE Queued(me.list) = <<>>
    <3>1. p = None /\ old \cap Pending = {}
      BY <1>0, <2>1, <2>3, EmptyLists DEF FirstOf, Queued
    <3> HIDE DEF p
    <3> QED
      BY <1>0, <1>2, <1>3, <2>1, <2>2, <2>3, <3>1
  <2>4. CASE Queued(me.list) # <<>>
    <3>1. p = Head(Queued(me.list))
      BY <2>4 DEF FirstOf
    <3>2. p \in Range(Queued(me.list)) /\ \A q : ~ Precedes(Queued(me.list), q, p)
      BY <1>0, <2>4, <3>1, NoneBeforeHead DEF Queued, TablesOK
    <3>3. p # None
      BY <1>0, <1>2, <3>2 DEF Queued, Known, Pending
    <3>4. ASSUME NEW q \in old PROVE ~ Precedes(queue \o done, q, p)
      <4>1. CASE me.list = "pending"
        <5>1. p \in Range(queue) /\ p \notin Range(done) /\ ~ Precedes(queue, q, p)
          BY <1>0, <3>2, <4>1 DEF Queued, TablesOK
        <5> QED
          BY <1>0, <5>1, QueueOrder, PairsIn
      <4>2. CASE me.list # "pending"
        <5>1. p \notin Range(queue) /\ q \notin Range(queue) /\ ~ Precedes(done, q, p)
          BY <1>0, <2>1, <3>2, <3>4, <4>2 DEF Queued, TablesOK, Pending
        <5> QED
          BY <1>0, <5>1, QueueOrder, PairsIn
      <4> QED
        BY <4>1, <4>2
    <3> HIDE DEF p
    <3> QED
      BY <1>3, <2>1, <3>3, <3>4
  <2> QED
    BY <2>3, <2>4
<1>10. CASE AnyPage
  <2>1. me.pc = "anyPage" /\ old \cap Pending = {}
        /\ IF Known = {} THEN Draws(None, {}) ELSE \E p \in Oldest(Known) : Draws(p, {})
    BY <1>10 DEF AnyPage, Goes, DrawInv
  <2>2. CASE Known = {}
    <3>1. None \notin old
      BY <1>0, <1>2
    <3> QED
      BY <1>3, <2>1, <2>2, <3>1
  <2>3. CASE Known # {}
    <3>1. PICK p \in Oldest(Known) : Draws(p, {})
      BY <2>1, <2>3
    <3>2. p \in Known /\ \A q \in Known : ~ CheckedBefore(q, p)
      BY <1>0, <2>3, OldestIs
    <3>3. p # None
      BY <1>0, <1>2, <3>2
    <3>4. ASSUME p \in old, NEW q \in old PROVE ~ Precedes(queue \o done, q, p)
      <4>1. q \notin Range(queue) /\ p \notin Range(queue) /\ ~ Precedes(done, q, p)
        BY <1>0, <2>1, <3>2, <3>4 DEF CheckedBefore, Pending
      <4> QED
        BY <1>0, <4>1, QueueOrder, PairsIn
    <3> QED
      BY <1>3, <2>1, <3>1, <3>3, <3>4
  <2> QED
    BY <2>2, <2>3
<1> QED
  BY <1>4, <1>5, <1>6, <1>7, <1>8, <1>9, <1>10 DEF DrawStep

\* What has been found of the pages that are left alone stays true of them.
LEMMA DrawOthers ==
    ASSUME TypeInv, DrawInv, Others
    PROVE  DrawInv'
<1>0. me \in Reader /\ TablesOK /\ TablesOK' /\ old' \subseteq old /\ Alone(old')
      /\ me' = [me EXCEPT !.gone = me'.gone] /\ calm' = (me.pc = "idle")
  BY OthersEffect DEF TypeInv
<1>1. /\ me'.pc = me.pc /\ me'.cmd = me.cmd /\ me'.list = me.list /\ me'.via = me.via
      /\ me'.due = me.due /\ me'.page = me.page
  BY <1>0 DEF Reader
<1>2. old \cap Pending = {} => old' \cap Pending' = {}
  BY <1>0 DEF Alone, Pending
<1>3. old \cap broken = {} => old' \cap broken' = {}
  BY <1>0 DEF Alone
<1>4. ASSUME NEW q \in old', NEW p \in old'
      PROVE  /\ CheckedBefore(q, p)' <=> CheckedBefore(q, p)
             /\ p \in broken' <=> p \in broken
             /\ Precedes(queue' \o done', q, p) <=> Precedes(queue \o done, q, p)
  <2>1. /\ p \in Range(queue') <=> p \in Range(queue)
        /\ q \in Range(queue') <=> q \in Range(queue)
        /\ p \in Range(done') <=> p \in Range(done)
        /\ p \in broken' <=> p \in broken
        /\ Precedes(queue', q, p) <=> Precedes(queue, q, p)
        /\ Precedes(done', q, p) <=> Precedes(done, q, p)
    BY <1>0, <1>4 DEF Alone
  <2>2. Precedes(queue \o done, q, p) <=>
           \/ Precedes(queue, q, p) \/ Precedes(done, q, p)
           \/ q \in Range(queue) /\ p \in Range(done)
    BY <1>0, QueueOrder
  <2>3. Precedes(queue' \o done', q, p) <=>
           \/ Precedes(queue', q, p) \/ Precedes(done', q, p)
           \/ q \in Range(queue') /\ p \in Range(done')
    BY <1>0, JoinedPairs DEF TablesOK
  <2> QED
    BY <2>1, <2>2, <2>3 DEF CheckedBefore, Pending
<1>5. DrawnInOrder'
  <2> SUFFICES ASSUME me.pc = "check", me.cmd # "id" PROVE DrawnInOrder'
    BY <1>1 DEF DrawnInOrder
  <2>1. ~ calm'
    BY <1>0
  <2>2. CASE me.via = "scheduled"
    BY <1>0, <1>1, <1>4, <2>1, <2>2 DEF DrawInv, DrawnInOrder
  <2>3. CASE me.via = "lastError"
    BY <1>0, <1>1, <1>3, <1>4, <2>1, <2>3 DEF DrawInv, DrawnInOrder
  <2>4. CASE me.via \notin {"scheduled", "lastError"}
    BY <1>0, <1>1, <1>2, <1>4, <2>1, <2>4 DEF DrawInv, DrawnInOrder
  <2> QED
    BY <2>2, <2>3, <2>4
<1> QED
  BY <1>0, <1>1, <1>2, <1>5 DEF DrawInv

LEMMA DrawInvStep ==
    ASSUME ReadersAssumption, TypeInv, DrawInv, [Next]_vars
    PROVE  DrawInv'
<1>0. me \in Reader
  BY DEF TypeInv
<1> DEFINE Drawing == {"lastError", "countQueued", "firstQueued", "anyPage", "check"}
<1>a. ASSUME me'.pc \notin Drawing \/ (me'.pc = "check" /\ me'.cmd = "id")
      PROVE  DrawInv'
  BY <1>a DEF DrawInv, DrawnInOrder
<1>1. CASE Starts
  <2>1. me'.pc \in {"scheduled", "count"} \/ (me'.pc = "check" /\ me'.cmd = "id")
    BY <1>1, IdleOK DEF Starts, StartDraw, StartCheck, StartListing, Reader
  <2> QED
    BY <1>a, <2>1
<1>2. CASE DrawStep
  BY <1>2, DrawSteps
<1>3. CASE CheckDrawn
  BY <1>3, <1>a, CheckDrawnType
<1>4. CASE ReadStatement
  <2>1. me'.pc \in {"over", "count"}
    BY <1>4, StatementType
  <2> QED
    BY <1>a, <2>1
<1>5. CASE CountRows
  <2>1. me'.pc \in {"over", "rows"}
    BY <1>5, CountRowsType
  <2> QED
    BY <1>a, <2>1
<1>6. CASE ReadRows
  <2>1. me'.pc \in {"over", "count"}
    BY <1>6, ReadRowsType
  <2> QED
    BY <1>a, <2>1
<1>7. CASE Leaves
  BY <1>7, <1>a, LeavesType
<1>8. CASE Others
  BY <1>8, DrawOthers
<1>9. CASE UNCHANGED vars
  BY <1>9 DEF vars, tables, DrawInv, DrawnInOrder, Fit, Known, Pending, CheckedBefore
<1> QED
  BY <1>1, <1>2, <1>3, <1>4, <1>5, <1>6, <1>7, <1>8, <1>9, NextSplits

\* The up to seven SELECTs of next_page_to_check draw what its docstring says,
\* on a site of any size with any scheduled pages, of the pages that those who
\* write between them leave alone.
THEOREM DrawsInOrder == Spec => []DrawnInOrder
<1>1. Init => DrawInv
  BY IdleOK DEF Init, DrawInv, DrawnInOrder
<1>2. TypeInv /\ DrawInv /\ [Next]_vars => (TypeInv /\ DrawInv)'
  BY ReadersAssumption, TypeStep, DrawInvStep
<1>3. DrawInv => DrawnInOrder
  BY DEF DrawInv
<1> QED
  BY TypeInit, <1>1, <1>2, <1>3, PTL DEF Spec

-----------------------------------------------------------------------------
(* The numbers of a report *)

\* How many numbers are shown when statement k of a report has been run.
ShownBy(cmd) == CASE cmd = "errors" -> <<1, 2>>
                  [] cmd = "queue"  -> <<0, 1, 1, 2>>
                  [] cmd = "status" -> <<0, 1, 2, 3, 4>>
                  [] cmd = "site_detail" -> <<1, 2, 2, 3, 4>>
                  [] cmd = "site_errors" -> <<1, 2, 3>>
                  [] cmd = "site_queue"  -> <<0, 1, 2>>

ShownBefore(cmd, k) == IF k = 1 THEN 0 ELSE ShownBy(cmd)[k - 1]

\* What a statement would count now, the queue being the list that fits.
SizeNow(what) == CASE what = "errors"  -> Len(Errors)
                   [] what = "queued"  -> Len(Queued(Fit))
                   [] what = "pages"   -> Cardinality(Known)
                   [] what = "checked" -> Len(done)

\* Statement k was run and shows what it would show now.
Agrees(k) ==
    IF Statements(me.cmd)[k] = "choose" THEN me.list = Fit
    ELSE me.counts[ShownBy(me.cmd)[k]] = SizeNow(Statements(me.cmd)[k])

\* What statement k shows is no more than what n is.
AtMost(k, n) == Statements(me.cmd)[k] = "errors" => me.counts[ShownBy(me.cmd)[k]] <= n

CountInv ==
    me.cmd \in Counted /\ me.pc \in {"count", "over"} =>
        /\ me.num \in 1 .. Len(Statements(me.cmd)) + 1
        /\ me.pc = "over" => me.num = Len(Statements(me.cmd)) + 1
        /\ Len(me.counts) = ShownBefore(me.cmd, me.num)
        /\ calm => \A k \in 1 .. me.num - 1 : Agrees(k)
        /\ kept => \A k \in 1 .. me.num - 1 :
              /\ AtMost(k, Len(done))
              /\ Statements(me.cmd)[k] = "checked" =>
                    \A j \in 1 .. k - 1 : AtMost(j, me.counts[ShownBy(me.cmd)[k]])

\* What the proof needs of the six tables of statements.
LEMMA ShownIs ==
    ASSUME NEW cmd \in Counted
    PROVE  \A k \in 1 .. Len(Statements(cmd)) :
              /\ ShownBefore(cmd, k) \in Nat
              /\ ShownBy(cmd)[k] = ShownBefore(cmd, k)
                    + (IF Statements(cmd)[k] = "choose" THEN 0 ELSE 1)
              /\ ShownBefore(cmd, k + 1) = ShownBy(cmd)[k]
              /\ \A j \in 1 .. k - 1 : Statements(cmd)[j] # "choose" =>
                    ShownBy(cmd)[j] \in 1 .. ShownBefore(cmd, k)
              /\ Statements(cmd)[k] = "queued" =>
                    \E j \in 1 .. k - 1 : Statements(cmd)[j] = "choose"
<1> USE DEF ShownBefore, ShownBy, Statements
<1>1. CASE cmd = "errors"
  <2>1. Statements(cmd) = <<"errors", "errors">> /\ ShownBy(cmd) = <<1, 2>>
    BY <1>1 DEF cmd_errors
  <2> HIDE DEF Statements, ShownBy
  <2>2. /\ Len(Statements(cmd)) = 2 /\ Statements(cmd)[1] = "errors" /\ Statements(cmd)[2] = "errors"
        /\ ShownBy(cmd)[1] = 1 /\ ShownBy(cmd)[2] = 2
    BY <2>1
  <2> QED
    BY <2>2
<1>2. CASE cmd = "queue"
  BY <1>2 DEF cmd_queue
<1>3. CASE cmd = "status"
  BY <1>3 DEF cmd_status
<1>4. CASE cmd = "site_detail"
  BY <1>4 DEF site_detail
<1>5. CASE cmd = "site_errors"
  BY <1>5 DEF site_errors
<1>6. CASE cmd = "site_queue"
  BY <1>6 DEF site_queue
<1> QED
  BY <1>1, <1>2, <1>3, <1>4, <1>5, <1>6 DEF Counted

\* A statement shows what it counts, and what was shown stays.
LEMMA CountStatement ==
    ASSUME TypeInv, CountInv, ReadStatement
    PROVE  CountInv'
<1> DEFINE cmd == me.cmd
           n == me.num
           S == Statements(cmd)
           P == ShownBy(cmd)
           shown == me.counts
<1>0. me \in Reader /\ TablesOK
  BY DEF TypeInv
<1>1. /\ UNCHANGED tables /\ Same
      /\ me.pc = "count" /\ cmd \in Counted /\ n \in 1 .. Len(S)
      /\ me'.cmd = cmd /\ me'.num = n + 1
      /\ me'.pc = IF n = Len(S) THEN "over" ELSE "count"
      /\ S[n] = "choose" => me'.list = Fit /\ me'.counts = shown
      /\ S[n] # "choose" => me'.list = me.list /\ me'.counts = Append(shown, Size(S[n]))
  BY StatementType DEF Fit
<1>2. Len(S) \in Nat \ {0} /\ \A k \in 1 .. Len(S) : S[k] \in Whats
  BY <1>1, StatementsAre
<1>3. \A k \in 1 .. Len(S) :
        /\ ShownBefore(cmd, k) \in Nat
        /\ P[k] = ShownBefore(cmd, k) + (IF S[k] = "choose" THEN 0 ELSE 1)
        /\ ShownBefore(cmd, k + 1) = P[k]
        /\ \A j \in 1 .. k - 1 : S[j] # "choose" => P[j] \in 1 .. ShownBefore(cmd, k)
        /\ S[k] = "queued" => \E j \in 1 .. k - 1 : S[j] = "choose"
  BY <1>1, ShownIs
<1>4. /\ Len(shown) = ShownBefore(cmd, n)
      /\ calm => \A k \in 1 .. n - 1 : Agrees(k)
      /\ kept => \A k \in 1 .. n - 1 :
            /\ AtMost(k, Len(done))
            /\ S[k] = "checked" => \A j \in 1 .. k - 1 : AtMost(j, shown[P[k]])
  BY <1>1 DEF CountInv
<1>5. /\ done' = done /\ queue' = queue /\ broken' = broken /\ calm' = calm /\ kept' = kept
      /\ Fit' = Fit
  BY <1>1 DEF tables, Same, Fit
<1>6. \A what \in Whats : SizeNow(what)' = SizeNow(what)
  BY <1>5 DEF SizeNow, Errors, Queued, Known, Pending
<1>7. shown \in Seq(Nat)
  BY <1>0 DEF Reader
\* The numbers shown before, and the new one.
<1>8. /\ Len(me'.counts) = ShownBefore(cmd, n + 1)
      /\ \A j \in 1 .. n - 1 : S[j] # "choose" => me'.counts[P[j]] = shown[P[j]]
      /\ S[n] # "choose" => me'.counts[P[n]] = Size(S[n])
  <2>1. CASE S[n] = "choose"
    BY <1>1, <1>3, <1>4, <2>1
  <2>2. CASE S[n] # "choose"
    <3>1. Size(S[n]) \in Nat
      BY <1>0, <1>1, <1>2, <2>2, SizeOK
    <3>2. /\ Len(me'.counts) = Len(shown) + 1 /\ Len(shown) \in Nat
          /\ \A i \in 1 .. Len(shown) : me'.counts[i] = shown[i]
          /\ me'.counts[Len(shown) + 1] = Size(S[n])
      <4> DEFINE a == Append(shown, Size(S[n]))
      <4>1. /\ Len(a) = Len(shown) + 1
            /\ \A i \in 1 .. Len(shown) : a[i] = shown[i]
            /\ a[Len(shown) + 1] = Size(S[n])
        <5> HIDE DEF S
        <5>1. \A s \in Seq(Nat) : \A x \in Nat :
                /\ Len(Append(s, x)) = Len(s) + 1
                /\ \A i \in 1 .. Len(s) : Append(s, x)[i] = s[i]
                /\ Append(s, x)[Len(s) + 1] = x
          BY AppendProperties
        <5> QED
          BY <1>7, <3>1, <5>1, Zenon
      <4>2. Len(shown) \in Nat
        BY <1>7, LenProperties, Zenon
      <4>3. me'.counts = a
        BY <1>1, <2>2, Zenon
      <4> QED
        BY <4>1, <4>2, <4>3, Zenon
    <3> QED
      BY <1>1, <1>3, <1>4, <2>2, <3>2
  <2> QED
    BY <2>1, <2>2
<1>9. ASSUME calm, NEW k \in 1 .. n PROVE Agrees(k)'
  <2>1. k \in 1 .. Len(S) /\ S[k] \in Whats
    BY <1>1, <1>2, <1>9
  <2>2. Agrees(k)' <=> IF S[k] = "choose" THEN me'.list = Fit
                       ELSE me'.counts[P[k]] = SizeNow(S[k])
    BY <1>1, <1>5, <1>6, <2>1 DEF Agrees
  <2>3. ASSUME NEW j \in 1 .. n - 1, S[j] = "choose" PROVE me.list = Fit /\ me'.list = Fit
    <3>1. me.list = Fit
      BY <1>4, <1>9, <2>3 DEF Agrees
    <3> QED
      BY <1>1, <3>1
  <2>4. CASE k = n
    <3>1. CASE S[n] = "choose"
      BY <1>1, <2>2, <2>4, <3>1
    <3>2. CASE S[n] # "choose"
      <4>1. S[n] = "queued" => me.list = Fit
        BY <1>1, <1>3, <2>3
      <4>2. Size(S[n]) = SizeNow(S[n])
        BY <2>1, <2>4, <3>2, <4>1 DEF Size, SizeNow, Whats
      <4> QED
        BY <1>8, <2>2, <2>4, <3>2, <4>2
    <3> QED
      BY <3>1, <3>2
  <2>5. CASE k # n
    <3>1. k \in 1 .. n - 1
      BY <1>1, <2>5
    <3>2. Agrees(k)
      BY <1>4, <1>9, <3>1
    <3> QED
      BY <1>8, <2>2, <2>3, <3>1, <3>2 DEF Agrees
  <2> QED
    BY <2>4, <2>5
<1>10. ASSUME kept, NEW k \in 1 .. n
       PROVE  S[k] = "errors" => me'.counts[P[k]] <= Len(done)
  <2>1. CASE k = n
    <3>1. Size("errors") <= Len(done)
      BY <1>0, ErrorsAre DEF Size
    <3> QED
      BY <1>8, <2>1, <3>1
  <2>2. CASE k # n
    <3>1. k \in 1 .. n - 1
      BY <1>1, <2>2
    <3> QED
      BY <1>4, <1>8, <1>10, <3>1 DEF AtMost
  <2> QED
    BY <2>1, <2>2
<1>11. ASSUME kept, NEW k \in 1 .. n, S[k] = "checked", NEW j \in 1 .. k - 1, S[j] = "errors"
       PROVE  me'.counts[P[j]] <= me'.counts[P[k]]
  <2>1. j \in 1 .. n - 1 /\ j \in 1 .. n
    BY <1>1, <1>11
  <2>2. CASE k = n
    <3>1. me'.counts[P[k]] = Len(done)
      BY <1>8, <1>11, <2>2 DEF Size
    <3> QED
      BY <1>10, <1>11, <2>1, <3>1
  <2>3. CASE k # n
    <3>1. k \in 1 .. n - 1
      BY <1>1, <2>3
    <3> QED
      BY <1>4, <1>8, <1>11, <2>1, <3>1 DEF AtMost
  <2> QED
    BY <2>2, <2>3
<1> HIDE DEF cmd, n, S, P, shown
<1> QED
  <2>1. me'.num - 1 = n /\ me'.num \in 1 .. Len(S) + 1
        /\ (me'.pc = "over" => me'.num = Len(S) + 1)
    BY <1>1, <1>2
  <2>2. Statements(me'.cmd) = S /\ ShownBy(me'.cmd) = P
        /\ Len(me'.counts) = ShownBefore(me'.cmd, me'.num)
    BY <1>1, <1>8 DEF S, P
  <2>3. calm' => \A k \in 1 .. me'.num - 1 : Agrees(k)'
    BY <1>5, <1>9, <2>1
  <2>4. ASSUME kept', NEW k \in 1 .. me'.num - 1
        PROVE  /\ S[k] = "errors" => me'.counts[P[k]] <= Len(done')
               /\ S[k] = "checked" => \A j \in 1 .. k - 1 :
                     S[j] = "errors" => me'.counts[P[j]] <= me'.counts[P[k]]
    <3>1. kept /\ k \in 1 .. n /\ done' = done
      BY <1>5, <2>1, <2>4
    <3> QED
      BY <1>10, <1>11, <3>1
  <2> QED
    BY <2>1, <2>2, <2>3, <2>4 DEF CountInv, AtMost

\* As long as no page leaves the checked ones, there are no fewer of them.
LEMMA CountOthers ==
    ASSUME TypeInv, CountInv, Others
    PROVE  CountInv'
<1>0. me \in Reader /\ done \in Seq(Urls) /\ IsInjective(done)
  BY DEF TypeInv, TablesOK
<1>1. /\ me' = [me EXCEPT !.gone = me'.gone] /\ calm' = (me.pc = "idle") /\ TablesOK'
      /\ me.cmd \in Counted /\ kept' => kept /\ Range(done) \subseteq Range(done')
  BY OthersEffect
<1>2. /\ me'.pc = me.pc /\ me'.cmd = me.cmd /\ me'.num = me.num /\ me'.counts = me.counts
  BY <1>0, <1>1 DEF Reader
<1> SUFFICES ASSUME me.cmd \in Counted, me.pc \in {"count", "over"} PROVE CountInv'
  BY <1>2 DEF CountInv
<1>3. ~ calm' /\ me.pc # "idle"
  BY <1>1
<1>4. me.num \in 1 .. Len(Statements(me.cmd)) + 1 /\ Len(Statements(me.cmd)) \in Nat
  BY StatementsAre DEF CountInv
<1>5. ASSUME kept' PROVE kept /\ Len(done) \in Nat /\ Len(done') \in Nat /\ Len(done) <= Len(done')
  <2>1. kept /\ Range(done) \subseteq Range(done')
    BY <1>1, <1>5
  <2>2. done' \in Seq(Urls) /\ IsInjective(done')
    BY <1>1 DEF TablesOK
  <2> QED
    BY <1>0, <2>1, <2>2, NotLonger
<1>6. ASSUME kept', NEW k \in 1 .. me.num - 1, Statements(me.cmd)[k] = "errors"
      PROVE  me.counts[ShownBy(me.cmd)[k]] <= Len(done')
  <2> DEFINE i == ShownBy(me.cmd)[k]
  <2>1. me.counts[i] <= Len(done)
    BY <1>5, <1>6 DEF CountInv, AtMost
  <2>2. me.counts[i] \in Nat
    <3>1. k \in 1 .. Len(Statements(me.cmd)) /\ me.num - 1 \in 1 .. Len(Statements(me.cmd))
          /\ (me.num - 1) + 1 = me.num
      BY <1>4
    <3>2. i \in 1 .. ShownBefore(me.cmd, me.num)
      <4>1. CASE me.num <= Len(Statements(me.cmd))
        BY <1>4, <1>6, <4>1, ShownIs
      <4>2. CASE me.num = Len(Statements(me.cmd)) + 1
        <5> DEFINE l == me.num - 1
        <5>1. /\ ShownBefore(me.cmd, l) \in Nat /\ ShownBefore(me.cmd, l + 1) = ShownBy(me.cmd)[l]
              /\ ShownBy(me.cmd)[l] = ShownBefore(me.cmd, l)
                    + (IF Statements(me.cmd)[l] = "choose" THEN 0 ELSE 1)
          BY <3>1, ShownIs
        <5>2. CASE k = l
          BY <1>4, <1>6, <3>1, <5>1, <5>2
        <5>3. CASE k # l
          <6>1. k \in 1 .. l - 1
            BY <1>4, <5>3
          <6>2. i \in 1 .. ShownBefore(me.cmd, l)
            BY <1>6, <3>1, <6>1, ShownIs
          <6> QED
            BY <3>1, <5>1, <6>2
        <5> QED
          BY <5>2, <5>3
      <4> QED
        BY <1>4, <4>1, <4>2
    <3>3. Len(me.counts) = ShownBefore(me.cmd, me.num) /\ me.counts \in Seq(Nat)
      BY <1>0 DEF CountInv, Reader
    <3> QED
      BY <3>2, <3>3, ElementOfSeq
  <2> HIDE DEF i
  <2> QED
    BY <1>5, <1>6, <2>1, <2>2 DEF i
<1>7. kept' => \A k \in 1 .. me.num - 1 :
        Statements(me.cmd)[k] = "checked" =>
           \A j \in 1 .. k - 1 : AtMost(j, me.counts[ShownBy(me.cmd)[k]])
  BY <1>5 DEF CountInv
<1> QED
  BY <1>2, <1>3, <1>6, <1>7 DEF CountInv, AtMost

LEMMA CountStep ==
    ASSUME ReadersAssumption, TypeInv, CountInv, [Next]_vars
    PROVE  CountInv'
<1>a. ASSUME me'.pc \notin {"count", "over"} \/ me'.cmd \notin Counted PROVE CountInv'
  BY <1>a DEF CountInv
<1>1. CASE Starts
  <2>1. ASSUME NEW cmd, NEW n, StartDraw(cmd, n) PROVE me'.pc = "scheduled"
    BY <2>1, IdleOK DEF StartDraw, Reader
  <2>2. ASSUME NEW p, StartCheck(p) PROVE me'.pc = "check"
    BY <2>2, IdleOK DEF StartCheck, Reader
  <2>3. ASSUME NEW cmd \in Counted \cup {"last"}, StartListing(cmd) PROVE CountInv'
    <3>1. me'.cmd = cmd /\ me'.num = 1 /\ me'.pc = "count" /\ me'.counts = <<>>
      BY <2>3, IdleOK DEF StartListing, Reader, Idle
    <3>2. cmd \in Counted => Len(Statements(cmd)) \in Nat \ {0}
      BY StatementsAre
    <3>3. 1 .. 1 - 1 = {} /\ Len(<<>>) = 0
      OBVIOUS
    <3> QED
      BY <3>1, <3>2, <3>3 DEF CountInv, ShownBefore
  <2> QED
    BY <1>1, <1>a, <2>1, <2>2, <2>3 DEF Starts
<1>2. CASE DrawStep
  BY <1>2, <1>a, DrawType
<1>3. CASE CheckDrawn
  BY <1>3, <1>a, CheckDrawnType
<1>4. CASE ReadStatement
  BY <1>4, CountStatement
<1>5. CASE CountRows
  <2>1. PICK goes : me' = [me EXCEPT !.counts = <<Len(done)>>, !.pc = goes]
    BY <1>5, CountRowsType
  <2>2. me.cmd = "last" /\ me \in Reader
    BY <1>5, CountRowsType DEF TypeInv
  <2>3. me'.cmd = "last"
    BY <2>1, <2>2 DEF Reader
  <2> QED
    BY <1>a, <2>3 DEF Counted
<1>6. CASE ReadRows
  <2>1. me'.cmd = "last"
    BY <1>6, ReadRowsType
  <2> QED
    BY <1>a, <2>1 DEF Counted
<1>7. CASE Leaves
  BY <1>7, <1>a, LeavesType
<1>8. CASE Others
  BY <1>8, CountOthers
<1>9. CASE UNCHANGED vars
  BY <1>9 DEF vars, tables, CountInv, Agrees, AtMost, SizeNow, Fit, Errors, Queued, Known, Pending
<1> QED
  BY <1>1, <1>2, <1>3, <1>4, <1>5, <1>6, <1>7, <1>8, <1>9, NextSplits

\* The sizes that a site has, whichever list is its queue.
LEMMA SizesNow ==
    ASSUME TablesOK
    PROVE  LET total == SizeNow("pages")
               checked == SizeNow("checked")
               queued == SizeNow("queued")
           IN  checked <= total /\ queued = IF checked < total THEN total - checked ELSE total
<1>1. /\ Cardinality(Known) = Len(queue) + Len(done) /\ Len(queue) \in Nat /\ Len(done) \in Nat
  BY KnownSize
<1>2. queue = <<>> <=> Len(queue) = 0
  BY EmptySeq DEF TablesOK
<1>3. /\ SizeNow("pages") = Cardinality(Known) /\ SizeNow("checked") = Len(done)
      /\ SizeNow("queued") = Len(Queued(Fit))
  BY DEF SizeNow
<1>4. Queued(Fit) = IF queue # <<>> THEN queue ELSE done
  BY DEF Queued, Fit
<1> QED
  BY <1>1, <1>2, <1>3, <1>4

LEMMA CountsHold ==
    ASSUME TypeInv, CountInv
    PROVE  CountsAgree
<1> DEFINE shown == me.counts
           total == SizeNow("pages")
           checked == SizeNow("checked")
           queued == SizeNow("queued")
<1> SUFFICES ASSUME me.pc = "over", me.cmd \in Counted PROVE CountsAgree
  BY DEF CountsAgree
<1>1. /\ Len(shown) = ShownBefore(me.cmd, Len(Statements(me.cmd)) + 1)
      /\ calm => \A k \in 1 .. Len(Statements(me.cmd)) : Agrees(k)
      /\ kept => \A k \in 1 .. Len(Statements(me.cmd)) :
            Statements(me.cmd)[k] = "checked" =>
               \A j \in 1 .. k - 1 : AtMost(j, shown[ShownBy(me.cmd)[k]])
  <2>1. Len(Statements(me.cmd)) \in Nat \ {0} /\ me.num = Len(Statements(me.cmd)) + 1
    BY StatementsAre DEF CountInv
  <2>2. me.num - 1 = Len(Statements(me.cmd))
    BY <2>1
  <2> QED
    BY <2>1, <2>2 DEF CountInv
<1>2. checked <= total /\ queued = IF checked < total THEN total - checked ELSE total
  BY SizesNow DEF TypeInv
<1> HIDE DEF total, checked, queued, shown
<1>3. CASE me.cmd = "status"
  <2>1. /\ Statements(me.cmd) = <<"choose", "queued", "errors", "pages", "checked">>
        /\ ShownBy(me.cmd) = <<0, 1, 2, 3, 4>>
    BY <1>3 DEF Statements, cmd_status, ShownBy
  <2>2. kept => shown[2] <= shown[4]
    BY <1>1, <2>1 DEF AtMost, shown
  <2>3. calm => shown[1] = queued /\ shown[3] = total /\ shown[4] = checked
    BY <1>1, <2>1 DEF Agrees, shown, queued, total, checked
  <2> QED
    BY <1>2, <1>3, <2>2, <2>3 DEF CountsAgree, shown
<1>4. CASE me.cmd = "site_detail"
  <2>1. /\ Statements(me.cmd) = <<"pages", "errors", "choose", "queued", "checked">>
        /\ ShownBy(me.cmd) = <<1, 2, 2, 3, 4>>
    BY <1>4 DEF Statements, site_detail, ShownBy
  <2>2. kept => shown[2] <= shown[4]
    BY <1>1, <2>1 DEF AtMost, shown
  <2>3. calm => shown[3] = queued /\ shown[1] = total /\ shown[4] = checked
    BY <1>1, <2>1 DEF Agrees, shown, queued, total, checked
  <2> QED
    BY <1>2, <1>4, <2>2, <2>3 DEF CountsAgree, shown
\* The others show the same first and last.
<1>5. ASSUME NEW what, calm => shown[1] = SizeNow(what) /\ shown[Len(shown)] = SizeNow(what),
             me.cmd \notin {"status", "site_detail"}
      PROVE  CountsAgree
  BY <1>5 DEF CountsAgree, Last, shown
<1>6. CASE me.cmd = "errors"
  <2>1. Statements(me.cmd) = <<"errors", "errors">> /\ ShownBy(me.cmd) = <<1, 2>>
    BY <1>6 DEF Statements, cmd_errors, ShownBy
  <2>2. Len(shown) = 2
    BY <1>1, <2>1 DEF ShownBefore
  <2>3. calm => shown[1] = SizeNow("errors") /\ shown[2] = SizeNow("errors")
    BY <1>1, <2>1 DEF Agrees, shown
  <2> QED
    BY <1>5, <1>6, <2>2, <2>3
<1>7. CASE me.cmd = "queue"
  <2>1. /\ Statements(me.cmd) = <<"choose", "queued", "choose", "queued">>
        /\ ShownBy(me.cmd) = <<0, 1, 1, 2>>
    BY <1>7 DEF Statements, cmd_queue, ShownBy
  <2>2. Len(shown) = 2
    BY <1>1, <2>1 DEF ShownBefore
  <2>3. calm => shown[1] = SizeNow("queued") /\ shown[2] = SizeNow("queued")
    BY <1>1, <2>1 DEF Agrees, shown
  <2> QED
    BY <1>5, <1>7, <2>2, <2>3
<1>8. CASE me.cmd = "site_errors"
  <2>1. Statements(me.cmd) = <<"errors", "pages", "errors">> /\ ShownBy(me.cmd) = <<1, 2, 3>>
    BY <1>8 DEF Statements, site_errors, ShownBy
  <2>2. Len(shown) = 3
    BY <1>1, <2>1 DEF ShownBefore
  <2>3. calm => shown[1] = SizeNow("errors") /\ shown[3] = SizeNow("errors")
    BY <1>1, <2>1 DEF Agrees, shown
  <2> QED
    BY <1>5, <1>8, <2>2, <2>3
<1>9. CASE me.cmd = "site_queue"
  <2>1. Statements(me.cmd) = <<"choose", "queued", "queued">> /\ ShownBy(me.cmd) = <<0, 1, 2>>
    BY <1>9 DEF Statements, site_queue, ShownBy
  <2>2. Len(shown) = 2
    BY <1>1, <2>1 DEF ShownBefore
  <2>3. calm => shown[1] = SizeNow("queued") /\ shown[2] = SizeNow("queued")
    BY <1>1, <2>1 DEF Agrees, shown
  <2> QED
    BY <1>5, <1>9, <2>2, <2>3
<1> QED
  BY <1>3, <1>4, <1>6, <1>7, <1>8, <1>9 DEF Counted

\* On a site of any size: a report never shows more errors than checked pages
\* unless a checked page is deleted or unchecked while its SELECTs run, and its
\* numbers agree when nobody writes.
THEOREM ReportsAgree == Spec => []CountsAgree
<1>1. Init => CountInv
  BY IdleOK DEF Init, Idle, CountInv
<1>2. TypeInv /\ CountInv /\ [Next]_vars => (TypeInv /\ CountInv)'
  BY ReadersAssumption, TypeStep, CountStep
<1>3. TypeInv /\ CountInv => CountsAgree
  BY CountsHold
<1> QED
  BY TypeInit, <1>1, <1>2, <1>3, PTL DEF Spec

-----------------------------------------------------------------------------
(* Turning the pages of site_last *)

\* The rows that were there when the listing began, stayed as they were and
\* have not been seen are on the page that is read next, or further down.
RowsInv ==
    me.cmd = "last" /\ steady =>
        /\ me.pc \in {"count", "rows", "over"} => old \subseteq Range(done)
        /\ me.pc \in {"count", "rows"} =>
              \A i \in DOMAIN done : done[i] \in old \ me.seen => Len(done) - i >= Skipped(me.num)
        /\ me.pc = "rows" => me.counts[1] = Len(done) /\ me.num <= NumPages(Len(done))
        /\ me.pc = "over" => old \subseteq me.seen

LEMMA RowsStart ==
    ASSUME ReadersAssumption, TypeInv, Starts
    PROVE  RowsInv'
<1>0. PAGE_SIZE \in Nat
  BY DEF ReadersAssumption
<1>1. CASE \E n \in 1 .. MaxNum : StartDraw("check", n)
  <2>1. me'.cmd = "check"
    BY <1>1, IdleOK DEF StartDraw, Reader
  <2> QED
    BY <2>1 DEF RowsInv
<1>2. CASE StartDraw("recheck", 1)
  <2>1. me'.cmd = "recheck"
    BY <1>2, IdleOK DEF StartDraw, Reader
  <2> QED
    BY <2>1 DEF RowsInv
<1>3. CASE \E p \in Urls : StartCheck(p)
  <2>1. me'.cmd = "id"
    BY <1>3, IdleOK DEF StartCheck, Reader
  <2> QED
    BY <2>1 DEF RowsInv
<1>4. ASSUME NEW cmd \in Counted \cup {"last"}, StartListing(cmd) PROVE RowsInv'
  <2>1. me'.cmd = cmd /\ me'.num = 1 /\ me'.pc = "count" /\ done' = done
    BY <1>4, IdleOK DEF StartListing, Reader, tables
  <2>2. cmd = "last" => old' = Range(done)
    BY <1>4 DEF StartListing, Fresh
  <2>3. Skipped(1) = 0
    BY <1>0 DEF Skipped
  <2>4. Len(done) \in Nat /\ DOMAIN done = 1 .. Len(done)
    BY LenProperties DEF TypeInv, TablesOK
  <2> QED
    BY <2>1, <2>2, <2>3, <2>4 DEF RowsInv
<1> QED
  BY <1>1, <1>2, <1>3, <1>4 DEF Starts

\* A page past the end ends the listing: everything has been seen.
LEMMA RowsCount ==
    ASSUME ReadersAssumption, TypeInv, RowsInv, CountRows
    PROVE  RowsInv'
<1>0. me \in Reader /\ Len(done) \in Nat /\ DOMAIN done = 1 .. Len(done)
  BY LenProperties DEF TypeInv, TablesOK
<1>1. /\ done' = done /\ old' = old /\ steady' = steady
      /\ me.pc = "count" /\ me.cmd = "last"
      /\ me' = [me EXCEPT !.counts = <<Len(done)>>, !.pc = me'.pc]
      /\ me'.pc = IF me.num > NumPages(Len(done)) THEN "over" ELSE "rows"
  BY CountRowsType DEF tables, Same
<1>2. me'.num = me.num /\ me'.seen = me.seen /\ me'.counts[1] = Len(done) /\ me'.cmd = "last"
  <2>1. PICK goes : me' = [me EXCEPT !.counts = <<Len(done)>>, !.pc = goes]
    BY <1>1
  <2>2. /\ me'.num = me.num /\ me'.seen = me.seen /\ me'.counts = <<Len(done)>>
        /\ me'.cmd = me.cmd
    BY <1>0, <2>1 DEF Reader
  <2> QED
    BY <1>1, <2>2
<1>3. me.num \in Nat \ {0}
  BY <1>0, <1>1 DEF TypeInv, Paging, Reader
<1>4. NumPages(Len(done)) \in Nat \ {0} /\ Skipped(me.num) \in Nat
  BY <1>0, <1>3, PagesCover
<1> SUFFICES ASSUME steady PROVE RowsInv'
  BY <1>1 DEF RowsInv
<1>5. /\ old \subseteq Range(done)
      /\ \A i \in DOMAIN done : done[i] \in old \ me.seen => Len(done) - i >= Skipped(me.num)
  BY <1>1 DEF RowsInv
<1>6. CASE me.num > NumPages(Len(done))
  <2>1. me.num - 1 \in Nat /\ me.num - 1 >= NumPages(Len(done))
    BY <1>3, <1>4, <1>6
  <2>2. Skipped(me.num) >= Len(done)
    BY <1>0, <2>1, PagesCover DEF Skipped
  <2>3. old \subseteq me.seen
    BY <1>0, <1>4, <1>5, <2>2 DEF Range
  <2> QED
    BY <1>1, <1>2, <1>5, <1>6, <2>3 DEF RowsInv
<1>7. CASE ~ (me.num > NumPages(Len(done)))
  BY <1>1, <1>2, <1>3, <1>4, <1>5, <1>7 DEF RowsInv
<1> QED
  BY <1>6, <1>7

\* The rows of the page are seen; those not seen are further down.
LEMMA RowsRead ==
    ASSUME ReadersAssumption, TypeInv, RowsInv, ReadRows
    PROVE  RowsInv'
<1> DEFINE L == Len(done)
           n == me.num
<1>0. /\ L \in Nat /\ DOMAIN done = 1 .. L
      /\ \A i \in 1 .. L : (L - i) + 1 \in 1 .. L /\ AllChecked[(L - i) + 1] = done[i]
  BY ReverseIs DEF TypeInv, TablesOK, AllChecked
<1>1. /\ done' = done /\ old' = old /\ steady' = steady
      /\ me.pc = "rows" /\ me.cmd = "last" /\ n \in Nat \ {0}
      /\ me'.cmd = "last" /\ me'.num = n + 1
      /\ me'.pc = IF n < NumPages(me.counts[1]) THEN "count" ELSE "over"
      /\ me'.seen = me.seen \cup {AllChecked[i] : i \in Skipped(n) + 1 .. LastRow}
      /\ LastRow \in {n * PAGE_SIZE, me.counts[1], L}
  BY ReadRowsType DEF tables, Same
<1> SUFFICES ASSUME steady PROVE RowsInv'
  BY <1>1 DEF RowsInv
<1>2. /\ old \subseteq Range(done) /\ me.counts[1] = L
      /\ \A i \in 1 .. L : done[i] \in old \ me.seen => L - i >= Skipped(n)
  BY <1>0, <1>1 DEF RowsInv
<1>3. /\ Skipped(n) \in Nat /\ Skipped(n + 1) = n * PAGE_SIZE /\ n * PAGE_SIZE \in Nat
      /\ (n >= NumPages(L) => n * PAGE_SIZE >= L) /\ NumPages(L) \in Nat
  <2>1. Skipped(n) \in Nat /\ Skipped(n + 1) = n * PAGE_SIZE
    BY <1>1, PagesCover
  <2>2. n + 1 \in Nat \ {0}
    BY <1>1
  <2>3. Skipped(n + 1) \in Nat
    BY <2>2, PagesCover
  <2>4. NumPages(L) \in Nat /\ (n >= NumPages(L) => n * PAGE_SIZE >= L)
    BY <1>0, <1>1, PagesCover
  <2> QED
    BY <2>1, <2>3, <2>4
<1>4. LastRow \in {n * PAGE_SIZE, L}
  BY <1>1, <1>2
<1> HIDE DEF n, L
<1>5. ASSUME NEW i \in 1 .. L, done[i] \in old \ me'.seen
      PROVE  L - i >= n * PAGE_SIZE
  <2> DEFINE r == (L - i) + 1
  <2>1. r \in 1 .. L /\ AllChecked[r] = done[i]
    BY <1>0
  <2>2. r >= Skipped(n) + 1
    BY <1>0, <1>1, <1>2, <1>3, <1>5
  <2>3. r \notin Skipped(n) + 1 .. LastRow
    BY <1>1, <1>5, <2>1
  <2>4. ~ (r <= LastRow)
    BY <1>0, <1>3, <1>4, <2>1, <2>2, <2>3
  <2> QED
    BY <1>0, <1>3, <1>4, <2>1, <2>4
<1>6. CASE n < NumPages(L)
  <2>1. me'.pc = "count" /\ me'.cmd = "last" /\ me'.num = n + 1
    BY <1>1, <1>2, <1>6
  <2>2. Range(done') = Range(done) /\ DOMAIN done' = 1 .. L /\ Len(done') = L
    BY <1>0, <1>1 DEF L
  <2>3. \A i \in 1 .. L : done'[i] \in old' \ me'.seen => L - i >= Skipped(n + 1)
    BY <1>1, <1>3, <1>5
  <2> QED
    BY <1>1, <1>2, <2>1, <2>2, <2>3 DEF RowsInv
<1>7. CASE ~ (n < NumPages(L))
  <2>1. n * PAGE_SIZE >= L
    BY <1>1, <1>3, <1>7
  <2>2. old \subseteq me'.seen
    BY <1>0, <1>2, <1>3, <1>5, <2>1 DEF Range
  <2> QED
    BY <1>1, <1>2, <1>7, <2>2 DEF RowsInv
<1> QED
  BY <1>6, <1>7

\* What the others do to the list of checked pages while somebody turns its
\* pages and they stay in order: nothing, or a row is put elsewhere that does
\* not move down.
LEMMA OthersWhileSteady ==
    ASSUME TypeInv, Others, me.cmd = "last", steady'
    PROVE  /\ steady
           /\ \/ done' = done
              \/ \E p \in Urls : \E i \in Places(done, p) :
                    /\ done' = Place(done, p, i) /\ ~ Sinks(p, i) /\ old' = old \ {p}
                    /\ me.pc = "rows" => p \in Range(done)
<1>0. steady \in BOOLEAN
  BY DEF TypeInv, HistoryOK
<1> DEFINE Fine == /\ steady
                   /\ \/ done' = done
                      \/ \E p \in Urls : \E i \in Places(done, p) :
                            /\ done' = Place(done, p, i) /\ ~ Sinks(p, i) /\ old' = old \ {p}
                            /\ me.pc = "rows" => p \in Range(done)
<1>1. ASSUME NEW u \in Urls, OthersFind(u) PROVE Fine
  BY <1>1 DEF OthersFind
<1>2. ASSUME NEW u \in Urls, OthersAttempt(u) PROVE Fine
  <2>1. PICK i \in Places(done, u), fails \in BOOLEAN :
           /\ Attempt(u, i, fails)
           /\ steady' = (me.cmd = "last" =>
                 /\ steady /\ ~ Sinks(u, i)
                 /\ me.pc = "rows" => u \in Range(done))
    BY <1>2 DEF OthersAttempt
  <2>2. steady /\ ~ Sinks(u, i) /\ (me.pc = "rows" => u \in Range(done))
    BY <1>0, <2>1
  <2>3. done' = Place(done, u, i) /\ old' = old \ {u}
    BY <1>2, <2>1 DEF OthersAttempt, Attempt, Touched
  <2> QED
    BY <2>2, <2>3
<1>3. ASSUME NEW u \in Urls, OthersToggle(u) PROVE Fine
  <2>1. steady /\ u \notin Range(done) /\ done' = RemoveFirst(done, u)
    BY <1>0, <1>3 DEF OthersToggle
  <2> QED
    BY <2>1, NotIn DEF TypeInv, TablesOK
<1>4. ASSUME NEW S, OthersDelete(S) PROVE FALSE
  BY <1>4 DEF OthersDelete
<1>5. Fine
  BY <1>1, <1>2, <1>3, <1>4 DEF Others
<1> QED
  BY <1>5

\* A row that does not move down brings no other nearer to the top.
LEMMA RowsOthers ==
    ASSUME TypeInv, RowsInv, Others
    PROVE  RowsInv'
<1>0. me \in Reader /\ done \in Seq(Urls) /\ IsInjective(done)
  BY DEF TypeInv, TablesOK
<1>1. me' = [me EXCEPT !.gone = me'.gone] /\ old' \subseteq old
  BY OthersEffect
<1>2. /\ me'.pc = me.pc /\ me'.cmd = me.cmd /\ me'.num = me.num /\ me'.seen = me.seen
      /\ me'.counts = me.counts
  BY <1>0, <1>1 DEF Reader
<1> SUFFICES ASSUME me.cmd = "last", steady' PROVE RowsInv'
  BY <1>2 DEF RowsInv
<1>3. steady
  BY OthersWhileSteady
<1>4. CASE done' = done
  BY <1>1, <1>2, <1>3, <1>4 DEF RowsInv
<1>5. ASSUME NEW p \in Urls, NEW i \in Places(done, p), done' = Place(done, p, i),
             ~ Sinks(p, i), old' = old \ {p}, me.pc = "rows" => p \in Range(done)
      PROVE  RowsInv'
  <2>1. /\ done' \in Seq(Urls) /\ IsInjective(done') /\ Range(done') = Range(done) \cup {p}
        /\ p \in Range(done) => Len(done') = Len(done)
    BY <1>0, <1>5, PlacedOK
  <2>2. /\ DOMAIN done' = 1 .. Len(done') /\ DOMAIN done = 1 .. Len(done)
        /\ Len(done) \in Nat /\ Len(done') \in Nat
    BY <1>0, <2>1, LenProperties
  <2>3. me.pc \in {"count", "rows", "over"} => old \subseteq Range(done)
    BY <1>3 DEF RowsInv
  <2>4. ASSUME me.pc \in {"count", "rows"}, NEW k \in DOMAIN done', done'[k] \in old' \ me.seen
        PROVE  Len(done') - k >= Skipped(me.num)
    <3>1. PICK m \in DOMAIN done : done[m] = done'[k]
      BY <1>5, <2>3, <2>4 DEF Range
    <3>2. done[m] # p
      BY <1>5, <2>4, <3>1
    <3>3. Len(done') - k >= Len(done) - m
      <4>1. /\ i \in 1 .. Len(RemoveFirst(done, p)) + 1
            /\ done' = InsertAt(RemoveFirst(done, p), i, p)
            /\ ~ \E l \in DOMAIN done : done[l] = p /\ i < l
        BY <1>5 DEF Places, Place, Sinks
      <4> QED
        BY <1>0, <2>4, <3>1, <3>2, <4>1, PlacedRank
    <3>4. Len(done) - m >= Skipped(me.num)
      BY <1>3, <1>5, <2>4, <3>1 DEF RowsInv
    <3>5. Skipped(me.num) \in Int
      <4>1. me.num \in Nat \ {0}
        BY <1>0, <2>4 DEF TypeInv, Paging, Reader
      <4>2. Skipped(me.num) \in Nat
        BY <4>1, ReadersAssumption, PagesCover
      <4> QED
        BY <4>2
    <3> QED
      BY <2>2, <3>3, <3>4, <3>5
  <2>5. me.pc = "rows" => me.counts[1] = Len(done') /\ me.num <= NumPages(Len(done'))
    BY <1>3, <1>5, <2>1 DEF RowsInv
  <2>6. me.pc = "over" => old' \subseteq me.seen
    BY <1>1, <1>3 DEF RowsInv
  <2> QED
    BY <1>1, <1>2, <2>1, <2>3, <2>4, <2>5, <2>6 DEF RowsInv
<1> QED
  BY <1>4, <1>5, OthersWhileSteady

LEMMA RowsStep ==
    ASSUME ReadersAssumption, TypeInv, RowsInv, [Next]_vars
    PROVE  RowsInv'
<1>0. me \in Reader
  BY DEF TypeInv
<1>a. ASSUME me'.pc \notin {"count", "rows", "over"} \/ me'.cmd # "last" PROVE RowsInv'
  BY <1>a DEF RowsInv
<1>1. CASE Starts
  BY <1>1, RowsStart
<1>2. CASE DrawStep
  BY <1>2, <1>a, DrawType
<1>3. CASE CheckDrawn
  BY <1>3, <1>a, CheckDrawnType
<1>4. CASE ReadStatement
  <2>1. me'.cmd \in Counted
    BY <1>4, StatementType
  <2> QED
    BY <1>a, <2>1 DEF Counted
<1>5. CASE CountRows
  BY <1>5, RowsCount
<1>6. CASE ReadRows
  BY <1>6, RowsRead
<1>7. CASE Leaves
  BY <1>7, <1>a, LeavesType
<1>8. CASE Others
  BY <1>8, RowsOthers
<1>9. CASE UNCHANGED vars
  BY <1>9 DEF vars, tables, RowsInv
<1> QED
  BY <1>1, <1>2, <1>3, <1>4, <1>5, <1>6, <1>7, <1>8, <1>9, NextSplits

\* Whoever turns the pages of site_last, of any length, while any number of
\* pages are found and checked, misses no page that stayed as it was, unless a
\* row above it was deleted, unchecked or saved with an older time, or a page
\* joined the checked ones between a count and its rows.
THEOREM MissesNothing == Spec => []NothingMissed
<1>1. Init => RowsInv
  BY IdleOK DEF Init, Idle, RowsInv
<1>2. TypeInv /\ RowsInv /\ [Next]_vars => (TypeInv /\ RowsInv)'
  BY ReadersAssumption, TypeStep, RowsStep
<1>3. RowsInv => NothingMissed
  BY DEF RowsInv, NothingMissed
<1> QED
  BY TypeInit, <1>1, <1>2, <1>3, PTL DEF Spec
=============================================================================
