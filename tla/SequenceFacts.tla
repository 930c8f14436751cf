---------------------------- MODULE SequenceFacts ----------------------------
(***************************************************************************)
(* What the proofs need to know of the operators on sequences that the     *)
(* models of the crawl, its readers, the links and seqtools are built      *)
(* from.                                                                   *)
(*                                                                         *)
(* The induction theorems of the library take a predicate. Induction over  *)
(* a set of naturals needs none: it follows from the well-foundedness of < *)
(* by WFMin, which takes sets.                                             *)
(***************************************************************************)
EXTENDS SequenceOps, SequencesExt, Functions, FiniteSetsExt, SequenceTheorems,
        FiniteSetTheorems, WellFoundedInduction, TLAPS

\* A set of naturals that is not empty has a least member.
LEMMA NatMin ==
    ASSUME NEW T \in SUBSET Nat, T # {}
    PROVE  \E m \in T : \A n \in T : m <= n
<1>1. IsWellFoundedOn(OpToRel(<, Nat), Nat)
  BY NatLessThanWellFounded, Zenon
<1>2. \E x \in T : \A y \in T : ~ (<<y, x>> \in OpToRel(<, Nat))
  BY <1>1, WFMin, Zenon
<1>3. PICK m \in T : \A y \in T : ~ (<<y, m>> \in OpToRel(<, Nat))
  BY <1>2
<1>4. ASSUME NEW y \in T, y < m PROVE FALSE
  <2>1. <<y, m>> \in Nat \X Nat /\ <<y, m>>[1] < <<y, m>>[2]
    BY <1>4
  <2>2. <<y, m>> \in OpToRel(<, Nat)
    BY <2>1 DEF OpToRel
  <2> QED
    BY <2>2, <1>3
<1>5. \A y \in T : y \in Int /\ m \in Int
  OBVIOUS
<1> QED
  BY <1>4, <1>5

\* Induction: a set that holds 0, and n + 1 with every n, holds all naturals.
LEMMA NatInduct ==
    ASSUME NEW S, 0 \in S, \A n \in Nat : n \in S => n + 1 \in S
    PROVE  Nat \subseteq S
<1> SUFFICES ASSUME Nat \ S # {} PROVE FALSE
  OBVIOUS
<1>1. PICK m \in Nat \ S : \A n \in Nat \ S : m <= n
  BY NatMin
<1>2. m - 1 \in Nat /\ ~ (m <= m - 1)
  BY <1>1
<1>3. m - 1 \in S
  BY <1>1, <1>2
<1> QED
  BY <1>1, <1>2, <1>3

LEMMA MinIs ==
    ASSUME NEW T \in SUBSET Nat, T # {}
    PROVE  Min(T) \in T /\ \A n \in T : Min(T) <= n
BY NatMin DEF Min

-----------------------------------------------------------------------------
\* Where the first row of s that is in S stands.
LEMMA FirstInSeq ==
    ASSUME NEW T, NEW s \in Seq(T), NEW S, Range(s) \cap S # {}
    PROVE  \E k \in DOMAIN s : /\ SelectInSeq(s, LAMBDA u : u \in S) = k
                              /\ s[k] \in S
                              /\ \A i \in DOMAIN s : i < k => s[i] \notin S
<1> DEFINE I == {i \in 1 .. Len(s) : s[i] \in S}
<1>1. I \in SUBSET Nat /\ I # {} /\ DOMAIN s = 1 .. Len(s)
  BY DEF Range
<1>2. SelectInSeq(s, LAMBDA u : u \in S) = Min(I)
  BY <1>1 DEF SelectInSeq
<1>3. Min(I) \in I /\ \A n \in I : Min(I) <= n
  BY <1>1, MinIs
<1>4. Min(I) \in DOMAIN s /\ s[Min(I)] \in S
  BY <1>1, <1>3
<1>5. ASSUME NEW i \in DOMAIN s, i < Min(I) PROVE s[i] \notin S
  BY <1>1, <1>3, <1>5
<1> HIDE DEF I
<1> QED
  BY <1>2, <1>4, <1>5

\* The same for one row, of which RemoveFirst takes out the first.
LEMMA RemoveFirstIs ==
    ASSUME NEW T, NEW s \in Seq(T), NEW u \in Range(s), IsInjective(s)
    PROVE  \E k \in DOMAIN s :
              /\ s[k] = u
              /\ RemoveFirst(s, u) = SubSeq(s, 1, k - 1) \o SubSeq(s, k + 1, Len(s))
<1> DEFINE I == {i \in 1 .. Len(s) : s[i] = u}
<1>1. I \in SUBSET Nat /\ I # {} /\ DOMAIN s = 1 .. Len(s)
  BY DEF Range
<1>2. SelectInSeq(s, LAMBDA v : v = u) = Min(I)
  BY <1>1 DEF SelectInSeq
<1>3. Min(I) \in I
  BY <1>1, MinIs
<1>4. RemoveFirst(s, u) = RemoveAt(s, Min(I))
  BY <1>1, <1>2 DEF RemoveFirst
<1>5. Min(I) \in DOMAIN s /\ s[Min(I)] = u
  BY <1>1, <1>3
<1> HIDE DEF I
<1> QED
  BY <1>4, <1>5 DEF RemoveAt

\* The row k of s is taken out and u is put at the end.
Moved(s, k, u) == Append(SubSeq(s, 1, k - 1) \o SubSeq(s, k + 1, Len(s)), u)

LEMMA MovedRows ==
    ASSUME NEW T, NEW s \in Seq(T), NEW k \in DOMAIN s, NEW u \in T
    PROVE  /\ Moved(s, k, u) \in Seq(T)
           /\ Len(Moved(s, k, u)) = Len(s)
           /\ DOMAIN Moved(s, k, u) = 1 .. Len(s)
           /\ Moved(s, k, u)[Len(s)] = u
           /\ \A i \in 1 .. Len(s) - 1 :
                 Moved(s, k, u)[i] = IF i < k THEN s[i] ELSE s[i + 1]
<1> DEFINE front == SubSeq(s, 1, k - 1)
           back == SubSeq(s, k + 1, Len(s))
<1>1. /\ Len(s) \in Nat /\ k \in 1 .. Len(s)
      /\ \A i \in 1 .. Len(s) : s[i] \in T
  BY LenProperties, ElementOfSeq
<1>2. /\ front \in Seq(T) /\ Len(front) = k - 1
      /\ \A i \in 1 .. k - 1 : front[i] = s[i]
  BY <1>1, SubSeqProperties
<1>3. /\ back \in Seq(T) /\ Len(back) = Len(s) - k
      /\ \A i \in 1 .. Len(s) - k : back[i] = s[k + i]
  BY <1>1, SubSeqProperties
<1> HIDE DEF front, back
<1>4. /\ front \o back \in Seq(T)
      /\ Len(front \o back) = Len(s) - 1
      /\ \A i \in 1 .. Len(s) - 1 : (front \o back)[i] = IF i < k THEN s[i] ELSE s[i + 1]
  <2> DEFINE both == front \o back
  <2>1. /\ both \in Seq(T) /\ Len(both) = Len(front) + Len(back)
        /\ \A i \in 1 .. Len(front) + Len(back) :
              both[i] = IF i <= Len(front) THEN front[i] ELSE back[i - Len(front)]
    BY <1>2, <1>3, ConcatProperties
  <2> HIDE DEF both
  <2>2. Len(both) = Len(s) - 1
    BY <1>1, <1>2, <1>3, <2>1
  <2>3. ASSUME NEW i \in 1 .. Len(s) - 1
        PROVE  both[i] = IF i < k THEN s[i] ELSE s[i + 1]
    <3>1. both[i] = IF i <= k - 1 THEN front[i] ELSE back[i - (k - 1)]
      <4>1. Len(front) = k - 1 /\ i \in 1 .. Len(front) + Len(back)
        BY <1>1, <1>2, <1>3
      <4>2. both[i] = IF i <= Len(front) THEN front[i] ELSE back[i - Len(front)]
        BY <2>1, <4>1
      <4> QED
        BY <4>1, <4>2
    <3>2. CASE i < k
      BY <1>1, <1>2, <3>1, <3>2
    <3>3. CASE ~ (i < k)
      <4>1. PICK j \in 1 .. Len(s) - k : j = i - (k - 1) /\ k + j = i + 1
        BY <1>1, <3>3
      <4>2. both[i] = back[j]
        BY <1>1, <3>1, <3>3, <4>1
      <4>3. back[j] = s[k + j]
        BY <1>3
      <4> QED
        BY <3>3, <4>1, <4>2, <4>3
    <3> QED
      BY <3>2, <3>3
  <2> QED
    BY <2>1, <2>2, <2>3 DEF both
<1>5. Moved(s, k, u) = Append(front \o back, u)
  BY DEF Moved, front, back
<1>6. /\ Moved(s, k, u) \in Seq(T)
      /\ Len(Moved(s, k, u)) = Len(front \o back) + 1
      /\ \A i \in 1 .. Len(front \o back) : Moved(s, k, u)[i] = (front \o back)[i]
      /\ Moved(s, k, u)[Len(front \o back) + 1] = u
  BY <1>4, <1>5, AppendProperties
<1>7. Len(front \o back) + 1 = Len(s)
  BY <1>1, <1>4
<1>8. DOMAIN Moved(s, k, u) = 1 .. Len(s)
  BY <1>6, <1>7, LenProperties
<1>9. \A i \in 1 .. Len(s) - 1 : Moved(s, k, u)[i] = IF i < k THEN s[i] ELSE s[i + 1]
  BY <1>4, <1>6
<1> QED
  BY <1>6, <1>7, <1>8, <1>9

LEMMA MovedSet ==
    ASSUME NEW T, NEW s \in Seq(T), IsInjective(s), NEW k \in DOMAIN s
    PROVE  /\ IsInjective(Moved(s, k, s[k]))
           /\ Range(Moved(s, k, s[k])) = Range(s)
<1> DEFINE m == Moved(s, k, s[k])
<1>1. /\ Len(s) \in Nat /\ DOMAIN s = 1 .. Len(s) /\ k \in 1 .. Len(s)
      /\ s[k] \in T
  BY LenProperties, ElementOfSeq
<1>2. /\ DOMAIN m = 1 .. Len(s) /\ m[Len(s)] = s[k]
      /\ \A i \in 1 .. Len(s) - 1 : m[i] = IF i < k THEN s[i] ELSE s[i + 1]
  <2>1. \A u \in T : /\ DOMAIN Moved(s, k, u) = 1 .. Len(s) /\ Moved(s, k, u)[Len(s)] = u
                    /\ \A i \in 1 .. Len(s) - 1 :
                          Moved(s, k, u)[i] = IF i < k THEN s[i] ELSE s[i + 1]
    BY MovedRows
  <2> QED
    BY <1>1, <2>1
<1> HIDE DEF m
<1>3. ASSUME NEW i \in DOMAIN m PROVE m[i] \in Range(s)
  <2>1. CASE i = Len(s)
    BY <1>1, <1>2, <2>1 DEF Range
  <2>2. CASE i # Len(s)
    <3>1. i \in 1 .. Len(s) - 1 /\ i \in 1 .. Len(s) /\ i + 1 \in 1 .. Len(s)
      BY <1>1, <1>2, <2>2
    <3> QED
      BY <1>1, <1>2, <3>1 DEF Range
  <2> QED
    BY <2>1, <2>2
<1>4. ASSUME NEW i \in DOMAIN s PROVE s[i] \in Range(m)
  <2>1. CASE i = k
    BY <1>1, <1>2, <2>1 DEF Range
  <2>2. CASE i < k
    BY <1>1, <1>2, <2>2 DEF Range
  <2>3. CASE k < i
    <3>1. i - 1 \in 1 .. Len(s) - 1 /\ i - 1 \in DOMAIN m /\ m[i - 1] = s[i]
      BY <1>1, <1>2, <2>3
    <3> QED
      BY <3>1 DEF Range
  <2> QED
    BY <1>1, <2>1, <2>2, <2>3
<1>5. Range(m) = Range(s)
  BY <1>3, <1>4 DEF Range
<1>6. ASSUME NEW i \in DOMAIN m, NEW j \in DOMAIN m, m[i] = m[j] PROVE i = j
  <2> DEFINE at(n) == IF n = Len(s) THEN k ELSE IF n < k THEN n ELSE n + 1
  <2>1. \A n \in DOMAIN m : m[n] = s[at(n)] /\ at(n) \in DOMAIN s
    BY <1>1, <1>2
  <2>2. at(i) = at(j)
    BY <1>6, <2>1 DEF IsInjective
  <2> QED
    BY <1>1, <1>2, <2>2
<1>7. IsInjective(m)
  BY <1>6 DEF IsInjective
<1> QED
  BY <1>5, <1>7 DEF m

-----------------------------------------------------------------------------
(* A row goes to the end of a list in which no row is twice: what a saved    *)
(* check does to the pages by checked_at.                                    *)

ToEnd(s, u) == Append(RemoveFirst(s, u), u)

LEMMA NotIn ==
    ASSUME NEW T, NEW s \in Seq(T), NEW u, u \notin Range(s)
    PROVE  RemoveFirst(s, u) = s
BY DEF RemoveFirst, Range

LEMMA ToEndIsMoved ==
    ASSUME NEW T, NEW s \in Seq(T), IsInjective(s), NEW u \in Range(s)
    PROVE  \E k \in DOMAIN s : s[k] = u /\ ToEnd(s, u) = Moved(s, k, u)
BY RemoveFirstIs DEF ToEnd, Moved

LEMMA AppendedRows ==
    ASSUME NEW T, NEW s \in Seq(T), IsInjective(s), NEW u \in T, u \notin Range(s)
    PROVE  /\ Append(s, u) \in Seq(T)
           /\ IsInjective(Append(s, u))
           /\ Range(Append(s, u)) = Range(s) \cup {u}
           /\ Len(Append(s, u)) = Len(s) + 1
           /\ DOMAIN Append(s, u) = 1 .. Len(s) + 1
           /\ DOMAIN s = 1 .. Len(s)
           /\ Append(s, u)[Len(s) + 1] = u
           /\ \A i \in 1 .. Len(s) : Append(s, u)[i] = s[i]
<1> DEFINE a == Append(s, u)
<1>1. /\ a \in Seq(T) /\ Len(a) = Len(s) + 1 /\ a[Len(s) + 1] = u
      /\ \A i \in 1 .. Len(s) : a[i] = s[i]
  BY AppendProperties
<1>2. /\ Len(s) \in Nat /\ DOMAIN s = 1 .. Len(s) /\ DOMAIN a = 1 .. Len(s) + 1
  BY <1>1, LenProperties
<1> HIDE DEF a
<1>3. \A i \in DOMAIN a : i \in DOMAIN s \/ i = Len(s) + 1
  BY <1>2
<1>4. \A i \in DOMAIN s : i \in DOMAIN a
  BY <1>2
<1>5. Len(s) + 1 \in DOMAIN a
  BY <1>2
<1>6. Range(a) = Range(s) \cup {u}
  BY <1>1, <1>2, <1>3, <1>4, <1>5 DEF Range
<1>7. \A i \in DOMAIN s : a[i] # u
  BY <1>1, <1>2 DEF Range
<1>8. IsInjective(a)
  BY <1>1, <1>2, <1>3, <1>7 DEF IsInjective
<1> QED
  BY <1>1, <1>2, <1>6, <1>8 DEF a

\* The rows of the new list are those of the old and u, each once; u is last.
LEMMA ToEndType ==
    ASSUME NEW T, NEW s \in Seq(T), IsInjective(s), NEW u \in T
    PROVE  /\ ToEnd(s, u) \in Seq(T)
           /\ IsInjective(ToEnd(s, u))
           /\ Range(ToEnd(s, u)) = Range(s) \cup {u}
           /\ Len(ToEnd(s, u)) = IF u \in Range(s) THEN Len(s) ELSE Len(s) + 1
           /\ DOMAIN ToEnd(s, u) = 1 .. Len(ToEnd(s, u))
           /\ ToEnd(s, u)[Len(ToEnd(s, u))] = u
           /\ Len(s) \in Nat /\ DOMAIN s = 1 .. Len(s)
<1>0. Len(s) \in Nat /\ DOMAIN s = 1 .. Len(s)
  BY LenProperties
<1>1. CASE u \in Range(s)
  <2>1. PICK k \in DOMAIN s : s[k] = u /\ ToEnd(s, u) = Moved(s, k, u)
    BY <1>1, ToEndIsMoved
  <2>2. IsInjective(Moved(s, k, u)) /\ Range(Moved(s, k, u)) = Range(s)
    BY <2>1, MovedSet
  <2>3. /\ Moved(s, k, u) \in Seq(T) /\ Len(Moved(s, k, u)) = Len(s)
        /\ DOMAIN Moved(s, k, u) = 1 .. Len(s) /\ Moved(s, k, u)[Len(s)] = u
    BY <2>1, MovedRows
  <2> QED
    BY <1>0, <1>1, <2>1, <2>2, <2>3
<1>2. CASE u \notin Range(s)
  <2>1. ToEnd(s, u) = Append(s, u)
    BY <1>2, NotIn DEF ToEnd
  <2> QED
    BY <1>0, <1>2, <2>1, AppendedRows
<1> QED
  BY <1>1, <1>2

\* The other rows stay in their order, and none comes nearer to the end.
LEMMA ToEndOrder ==
    ASSUME NEW T, NEW s \in Seq(T), IsInjective(s), NEW u \in T,
           NEW i \in DOMAIN s, s[i] # u
    PROVE  \E k \in DOMAIN ToEnd(s, u) :
              /\ ToEnd(s, u)[k] = s[i]
              /\ Len(ToEnd(s, u)) - k >= Len(s) - i
              /\ k < Len(ToEnd(s, u))
              /\ \A j \in DOMAIN s : i < j /\ s[j] # u =>
                    \E l \in DOMAIN ToEnd(s, u) : k < l /\ ToEnd(s, u)[l] = s[j]
<1>0. Len(s) \in Nat /\ DOMAIN s = 1 .. Len(s)
  BY LenProperties
<1>1. CASE u \in Range(s)
  <2>1. PICK k \in DOMAIN s : s[k] = u /\ ToEnd(s, u) = Moved(s, k, u)
    BY <1>1, ToEndIsMoved
  <2> DEFINE m == Moved(s, k, u)
             at(n) == IF n < k THEN n ELSE n - 1
  <2>2. /\ Len(m) = Len(s) /\ DOMAIN m = 1 .. Len(s)
        /\ \A n \in 1 .. Len(s) - 1 : m[n] = IF n < k THEN s[n] ELSE s[n + 1]
    BY <2>1, MovedRows
  <2> HIDE DEF m
  <2>3. ASSUME NEW n \in DOMAIN s, s[n] # u
        PROVE  at(n) \in 1 .. Len(s) - 1 /\ m[at(n)] = s[n] /\ at(n) <= n /\ n # k
    <3>1. n # k /\ k \in 1 .. Len(s) /\ n \in 1 .. Len(s)
      BY <1>0, <2>1, <2>3
    <3>2. CASE n < k
      BY <1>0, <2>2, <3>1, <3>2
    <3>3. CASE n > k
      BY <1>0, <2>2, <3>1, <3>3
    <3> QED
      BY <3>1, <3>2, <3>3
  <2>4. at(i) \in DOMAIN m /\ m[at(i)] = s[i] /\ Len(m) - at(i) >= Len(s) - i
        /\ at(i) < Len(m)
    BY <1>0, <2>2, <2>3
  <2>5. ASSUME NEW j \in DOMAIN s, i < j, s[j] # u
        PROVE  at(j) \in DOMAIN m /\ m[at(j)] = s[j] /\ at(i) < at(j)
    <3>1. at(j) \in 1 .. Len(s) - 1 /\ m[at(j)] = s[j] /\ i # k /\ j # k
      BY <2>3, <2>5
    <3> QED
      BY <1>0, <2>1, <2>2, <2>5, <3>1
  <2> HIDE DEF at
  <2> QED
    BY <2>1, <2>4, <2>5 DEF m
<1>2. CASE u \notin Range(s)
  <2>1. ToEnd(s, u) = Append(s, u)
    BY <1>2, NotIn DEF ToEnd
  <2> DEFINE a == Append(s, u)
  <2>2. /\ Len(a) = Len(s) + 1 /\ DOMAIN a = 1 .. Len(s) + 1
        /\ \A n \in 1 .. Len(s) : a[n] = s[n]
    BY <1>2, AppendedRows
  <2> HIDE DEF a
  <2>3. i \in DOMAIN a /\ a[i] = s[i] /\ Len(a) - i >= Len(s) - i /\ i < Len(a)
    BY <1>0, <2>2
  <2>4. \A j \in DOMAIN s : j \in DOMAIN a /\ a[j] = s[j]
    BY <1>0, <2>2
  <2>5. \A j \in DOMAIN s : i < j /\ s[j] # u => \E l \in DOMAIN a : i < l /\ a[l] = s[j]
    BY <2>4
  <2>6. ToEnd(s, u) = a
    BY <2>1 DEF a
  <2> QED
    BY <2>3, <2>5, <2>6
<1> QED
  BY <1>1, <1>2

\* What RemoveFirst leaves.
LEMMA RemovedRows ==
    ASSUME NEW T, NEW s \in Seq(T), IsInjective(s), NEW u \in T
    PROVE  /\ RemoveFirst(s, u) \in Seq(T)
           /\ IsInjective(RemoveFirst(s, u))
           /\ Range(RemoveFirst(s, u)) = Range(s) \ {u}
<1> DEFINE r == RemoveFirst(s, u)
<1>1. r \in Seq(T)
  <2>1. CASE u \in Range(s)
    <3>1. PICK k \in DOMAIN s :
             r = SubSeq(s, 1, k - 1) \o SubSeq(s, k + 1, Len(s))
      BY <2>1, RemoveFirstIs
    <3>2. /\ Len(s) \in Nat /\ k \in 1 .. Len(s)
          /\ \A i \in 1 .. Len(s) : s[i] \in T
      BY LenProperties, ElementOfSeq
    <3>3. SubSeq(s, 1, k - 1) \in Seq(T) /\ SubSeq(s, k + 1, Len(s)) \in Seq(T)
      BY <3>2, SubSeqProperties
    <3> QED
      BY <3>1, <3>3, ConcatProperties
  <2>2. CASE u \notin Range(s)
    BY <2>2, NotIn
  <2> QED
    BY <2>1, <2>2
<1> HIDE DEF r
<1>2. /\ IsInjective(ToEnd(s, u)) /\ Range(ToEnd(s, u)) = Range(s) \cup {u}
      /\ ToEnd(s, u) = Append(r, u)
  BY ToEndType DEF ToEnd, r
<1> DEFINE a == Append(r, u)
<1>3. /\ a \in Seq(T) /\ Len(a) = Len(r) + 1 /\ a[Len(r) + 1] = u
      /\ \A i \in 1 .. Len(r) : a[i] = r[i]
  BY <1>1, AppendProperties
<1> HIDE DEF a
<1>4. /\ Len(r) \in Nat /\ DOMAIN r = 1 .. Len(r) /\ DOMAIN a = 1 .. Len(r) + 1
  BY <1>1, <1>3, LenProperties
<1>5. \A i \in DOMAIN r : i \in DOMAIN a /\ a[i] = r[i] /\ i # Len(r) + 1
  BY <1>3, <1>4
<1>6. Len(r) + 1 \in DOMAIN a /\ \A i \in DOMAIN a : i \in DOMAIN r \/ i = Len(r) + 1
  BY <1>4
<1>7. IsInjective(a) /\ Range(a) = Range(s) \cup {u}
  BY <1>2 DEF a
<1>8. IsInjective(r)
  BY <1>5, <1>7 DEF IsInjective
<1>9. u \notin Range(r)
  BY <1>3, <1>5, <1>6, <1>7 DEF IsInjective, Range
<1>10. Range(a) = Range(r) \cup {u}
  BY <1>3, <1>5, <1>6 DEF Range
<1>11. Range(r) = Range(s) \ {u}
  BY <1>7, <1>9, <1>10
<1> QED
  BY <1>1, <1>8, <1>11 DEF r

-----------------------------------------------------------------------------
\* Newest first.
LEMMA ReverseIs ==
    ASSUME NEW T, NEW s \in Seq(T), IsInjective(s)
    PROVE  /\ Reverse(s) \in Seq(T)
           /\ IsInjective(Reverse(s))
           /\ Range(Reverse(s)) = Range(s)
           /\ Len(Reverse(s)) = Len(s)
           /\ Len(s) \in Nat /\ DOMAIN s = 1 .. Len(s)
           /\ DOMAIN Reverse(s) = 1 .. Len(s)
           /\ \A i \in 1 .. Len(s) : /\ (Len(s) - i) + 1 \in 1 .. Len(s)
                                    /\ Reverse(s)[(Len(s) - i) + 1] = s[i]
<1> DEFINE r == Reverse(s)
<1>1. /\ Len(s) \in Nat /\ DOMAIN s = 1 .. Len(s)
      /\ \A i \in 1 .. Len(s) : s[i] \in T
  BY LenProperties, ElementOfSeq
<1>2. r = [i \in 1 .. Len(s) |-> s[(Len(s) - i) + 1]]
  BY DEF Reverse
<1> HIDE DEF r
<1>3. \A i \in 1 .. Len(s) : (Len(s) - i) + 1 \in 1 .. Len(s)
  BY <1>1
<1>4. r \in [1 .. Len(s) -> T]
  BY <1>1, <1>2, <1>3
<1>5. r \in Seq(T) /\ Len(r) = Len(s) /\ DOMAIN r = 1 .. Len(s)
  BY <1>1, <1>4, IsASeq, LenProperties
<1>6. IsInjective(r)
  <2> SUFFICES ASSUME NEW i \in 1 .. Len(s), NEW j \in 1 .. Len(s), r[i] = r[j]
               PROVE  i = j
    BY <1>5 DEF IsInjective
  <2>1. (Len(s) - i) + 1 = (Len(s) - j) + 1
    BY <1>1, <1>2, <1>3 DEF IsInjective
  <2> QED
    BY <1>1, <2>1
<1>7. ASSUME NEW i \in 1 .. Len(s)
      PROVE  r[(Len(s) - i) + 1] = s[i] /\ (Len(s) - i) + 1 \in DOMAIN r
  <2>1. (Len(s) - ((Len(s) - i) + 1)) + 1 = i
    BY <1>1
  <2> QED
    BY <1>2, <1>3, <1>5, <2>1
<1>8. Range(r) = Range(s)
  <2>1. \A u \in Range(r) : u \in Range(s)
    BY <1>1, <1>2, <1>3, <1>5 DEF Range
  <2>2. \A i \in 1 .. Len(s) : s[i] \in Range(r)
    BY <1>7 DEF Range
  <2>3. \A u \in Range(s) : u \in Range(r)
    BY <1>1, <2>2 DEF Range
  <2> QED
    BY <2>1, <2>3
<1> QED
  BY <1>1, <1>3, <1>5, <1>6, <1>7, <1>8 DEF r

-----------------------------------------------------------------------------
\* Two lists that share no row, one behind the other.
LEMMA JoinedRows ==
    ASSUME NEW T, NEW s \in Seq(T), NEW t \in Seq(T), IsInjective(s), IsInjective(t),
           Range(s) \cap Range(t) = {}
    PROVE  /\ s \o t \in Seq(T)
           /\ IsInjective(s \o t)
           /\ Range(s \o t) = Range(s) \cup Range(t)
           /\ Len(s \o t) = Len(s) + Len(t)
           /\ \A i \in DOMAIN s : i \in DOMAIN (s \o t) /\ (s \o t)[i] = s[i]
           /\ \A i \in DOMAIN (s \o t) :
                 i \in DOMAIN s \/ (i > Len(s) /\ (s \o t)[i] \in Range(t))
<1> DEFINE j == s \o t
<1>1. /\ j \in Seq(T) /\ Len(j) = Len(s) + Len(t)
      /\ \A i \in 1 .. Len(s) + Len(t) : j[i] = IF i <= Len(s) THEN s[i] ELSE t[i - Len(s)]
  BY ConcatProperties
<1>2. /\ Len(s) \in Nat /\ DOMAIN s = 1 .. Len(s)
      /\ Len(t) \in Nat /\ DOMAIN t = 1 .. Len(t)
      /\ DOMAIN j = 1 .. Len(s) + Len(t)
  BY <1>1, LenProperties
<1> HIDE DEF j
<1>3. \A i \in DOMAIN s : i \in DOMAIN j /\ j[i] = s[i]
  BY <1>1, <1>2
<1>4. \A i \in DOMAIN t : i + Len(s) \in DOMAIN j /\ j[i + Len(s)] = t[i]
  BY <1>1, <1>2
<1>5. \A i \in DOMAIN j :
         \/ i \in DOMAIN s /\ j[i] = s[i]
         \/ i > Len(s) /\ i - Len(s) \in DOMAIN t /\ j[i] = t[i - Len(s)]
  BY <1>1, <1>2
<1>6. Range(j) = Range(s) \cup Range(t)
  <2>1. Range(j) \subseteq Range(s) \cup Range(t)
    BY <1>5 DEF Range
  <2>2. Range(s) \subseteq Range(j)
    BY <1>3 DEF Range
  <2>3. Range(t) \subseteq Range(j)
    BY <1>4 DEF Range
  <2> QED
    BY <2>1, <2>2, <2>3
<1>7. IsInjective(j)
  <2> SUFFICES ASSUME NEW m \in DOMAIN j, NEW n \in DOMAIN j, j[m] = j[n] PROVE m = n
    BY DEF IsInjective
  <2>1. CASE m \in DOMAIN s /\ n \in DOMAIN s
    BY <1>3, <2>1 DEF IsInjective
  <2>2. CASE m \notin DOMAIN s /\ n \notin DOMAIN s
    <3>1. m - Len(s) \in DOMAIN t /\ n - Len(s) \in DOMAIN t
          /\ t[m - Len(s)] = t[n - Len(s)]
      BY <1>5, <2>2
    <3>2. m - Len(s) = n - Len(s)
      BY <3>1 DEF IsInjective
    <3> QED
      BY <1>2, <3>2
  <2>3. ASSUME NEW a \in DOMAIN s, NEW b \in DOMAIN j, b \notin DOMAIN s, j[a] = j[b]
        PROVE  FALSE
    <3>1. j[a] \in Range(s) /\ j[b] \in Range(t)
      BY <1>3, <1>5, <2>3 DEF Range
    <3> QED
      BY <2>3, <3>1
  <2> QED
    BY <2>1, <2>2, <2>3
<1>8. \A i \in DOMAIN j : i \in DOMAIN s \/ (i > Len(s) /\ j[i] \in Range(t))
  BY <1>5 DEF Range
<1> QED
  BY <1>1, <1>3, <1>6, <1>7, <1>8 DEF j

-----------------------------------------------------------------------------
(* The order in which the elements of a list stand, when others are put into *)
(* it or taken out.                                                          *)

\* Row i of t is row f[i] of s, in the same order, and the rows of s that hold
\* q or p are all in t.
LEMMA SameOrder ==
    ASSUME NEW s, NEW t, NEW q, NEW p, NEW f,
           DOMAIN s \subseteq Int, DOMAIN t \subseteq Int,
           \A i \in DOMAIN t : f[i] \in DOMAIN s /\ t[i] = s[f[i]],
           \A i, j \in DOMAIN t : i < j => f[i] < f[j],
           \A k \in DOMAIN s : s[k] \in {q, p} => \E i \in DOMAIN t : f[i] = k
    PROVE  Precedes(t, q, p) <=> Precedes(s, q, p)
<1>1. ASSUME NEW i \in DOMAIN t, NEW j \in DOMAIN t, i < j, t[i] = q, t[j] = p
      PROVE  f[i] < f[j] /\ s[f[i]] = q /\ s[f[j]] = p /\ f[i] \in DOMAIN s /\ f[j] \in DOMAIN s
  BY <1>1
<1>2. ASSUME NEW k \in DOMAIN s, NEW l \in DOMAIN s, k < l, s[k] = q, s[l] = p
      PROVE  Precedes(t, q, p)
  <2>1. PICK i \in DOMAIN t, j \in DOMAIN t : f[i] = k /\ f[j] = l
    BY <1>2
  <2>2. ~ (j < i) /\ i # j
    BY <1>2, <2>1
  <2>3. i < j
    BY <2>2
  <2> QED
    BY <1>2, <2>1, <2>3 DEF Precedes
<1> QED
  BY <1>1, <1>2 DEF Precedes

\* RemoveFirst takes out the row k, or none.
LEMMA RemovedAt ==
    ASSUME NEW T, NEW s \in Seq(T), IsInjective(s), NEW u \in T
    PROVE  \E k \in 1 .. Len(s) + 1 :
              /\ u \in Range(s) => k \in DOMAIN s /\ s[k] = u /\ Len(RemoveFirst(s, u)) = Len(s) - 1
              /\ u \notin Range(s) => k = Len(s) + 1 /\ RemoveFirst(s, u) = s
              /\ \A i \in DOMAIN RemoveFirst(s, u) :
                    RemoveFirst(s, u)[i] = IF i < k THEN s[i] ELSE s[i + 1]
<1> DEFINE r == RemoveFirst(s, u)
<1>0. Len(s) \in Nat /\ DOMAIN s = 1 .. Len(s)
  BY LenProperties
<1>1. CASE u \in Range(s)
  <2>1. PICK k \in DOMAIN s : s[k] = u /\ ToEnd(s, u) = Moved(s, k, u)
    BY <1>1, ToEndIsMoved
  <2> DEFINE m == Moved(s, k, u)
  <2>2. /\ m \in Seq(T) /\ Len(m) = Len(s)
        /\ \A i \in 1 .. Len(s) - 1 : m[i] = IF i < k THEN s[i] ELSE s[i + 1]
    BY MovedRows
  <2>3. r \in Seq(T) /\ m = Append(r, u)
    BY <2>1, RemovedRows DEF ToEnd
  <2> HIDE DEF m, r
  <2>4. Len(m) = Len(r) + 1 /\ \A i \in 1 .. Len(r) : m[i] = r[i]
    BY <2>3, AppendProperties
  <2>5. Len(r) \in Nat /\ DOMAIN r = 1 .. Len(r)
    BY <2>3, LenProperties
  <2>6. Len(r) = Len(s) - 1 /\ k \in 1 .. Len(s) + 1
    BY <1>0, <2>2, <2>4, <2>5
  <2>7. \A i \in DOMAIN r : r[i] = IF i < k THEN s[i] ELSE s[i + 1]
    BY <2>2, <2>4, <2>5, <2>6
  <2> QED
    BY <1>1, <2>1, <2>6, <2>7 DEF r
<1>2. CASE u \notin Range(s)
  <2>1. r = s
    BY <1>2, NotIn
  <2>2. Len(s) + 1 \in 1 .. Len(s) + 1 /\ \A i \in DOMAIN s : i < Len(s) + 1
    BY <1>0
  <2> QED
    BY <1>2, <2>1, <2>2
<1> QED
  BY <1>1, <1>2

LEMMA RemovedOrder ==
    ASSUME NEW T, NEW s \in Seq(T), IsInjective(s), NEW u \in T, NEW q, NEW p, q # u, p # u
    PROVE  Precedes(RemoveFirst(s, u), q, p) <=> Precedes(s, q, p)
<1> DEFINE r == RemoveFirst(s, u)
<1>0. /\ Len(s) \in Nat /\ DOMAIN s = 1 .. Len(s)
      /\ Len(r) \in Nat /\ DOMAIN r = 1 .. Len(r)
  BY LenProperties, RemovedRows
<1>1. CASE u \in Range(s)
  <2>1. PICK k \in DOMAIN s :
          /\ s[k] = u /\ Len(r) = Len(s) - 1
          /\ \A i \in DOMAIN r : r[i] = IF i < k THEN s[i] ELSE s[i + 1]
    BY <1>1, RemovedAt
  <2> HIDE DEF r
  <2> DEFINE f == [i \in DOMAIN r |-> IF i < k THEN i ELSE i + 1]
  <2>2. \A i \in DOMAIN r : f[i] \in DOMAIN s /\ r[i] = s[f[i]]
    BY <1>0, <2>1
  <2>3. \A i, j \in DOMAIN r : i < j => f[i] < f[j]
    BY <1>0, <2>1
  <2>4. ASSUME NEW n \in DOMAIN s, s[n] \in {q, p} PROVE \E i \in DOMAIN r : f[i] = n
    <3>1. n # k
      BY <2>1, <2>4
    <3>2. CASE n < k
      BY <1>0, <2>1, <3>2
    <3>3. CASE n > k
      <4>1. n - 1 \in DOMAIN r /\ f[n - 1] = n
        BY <1>0, <2>1, <3>3
      <4> QED
        BY <4>1
    <3> QED
      BY <1>0, <2>1, <3>1, <3>2, <3>3
  <2> HIDE DEF f
  <2>5. DOMAIN s \subseteq Int /\ DOMAIN r \subseteq Int
    BY <1>0
  <2>6. Precedes(r, q, p) <=> Precedes(s, q, p)
    BY <2>2, <2>3, <2>4, <2>5, SameOrder
  <2> QED
    BY <2>6 DEF r
<1>2. CASE u \notin Range(s)
  BY <1>2, NotIn
<1> QED
  BY <1>1, <1>2

\* u is put at i, between the others.
LEMMA InsertedRows ==
    ASSUME NEW T, NEW r \in Seq(T), IsInjective(r), NEW u \in T, u \notin Range(r),
           NEW i \in 1 .. Len(r) + 1
    PROVE  /\ InsertAt(r, i, u) \in Seq(T)
           /\ IsInjective(InsertAt(r, i, u))
           /\ Range(InsertAt(r, i, u)) = Range(r) \cup {u}
           /\ Len(InsertAt(r, i, u)) = Len(r) + 1
           /\ DOMAIN InsertAt(r, i, u) = 1 .. Len(r) + 1
           /\ InsertAt(r, i, u)[i] = u
           /\ \A j \in DOMAIN r : InsertAt(r, i, u)[IF j < i THEN j ELSE j + 1] = r[j]
           /\ Len(r) \in Nat /\ DOMAIN r = 1 .. Len(r)
<1> DEFINE front == SubSeq(r, 1, i - 1)
           back == SubSeq(r, i, Len(r))
           t == InsertAt(r, i, u)
<1>1. /\ Len(r) \in Nat /\ DOMAIN r = 1 .. Len(r)
      /\ \A j \in 1 .. Len(r) : r[j] \in T
  BY LenProperties, ElementOfSeq
<1>2. /\ front \in Seq(T) /\ Len(front) = i - 1
      /\ \A j \in 1 .. i - 1 : front[j] = r[j]
  BY <1>1, SubSeqProperties
<1>3. /\ back \in Seq(T) /\ Len(back) = Len(r) - (i - 1)
      /\ \A j \in 1 .. Len(r) - (i - 1) : back[j] = r[(i - 1) + j]
  BY <1>1, SubSeqProperties
<1>4. <<u>> \in Seq(T) /\ Len(<<u>>) = 1 /\ <<u>>[1] = u
  OBVIOUS
<1>5. t = front \o <<u>> \o back
  BY DEF InsertAt
<1> HIDE DEF front, back, t
<1>6. /\ front \o <<u>> \in Seq(T) /\ Len(front \o <<u>>) = i
      /\ \A j \in 1 .. i : (front \o <<u>>)[j] = IF j < i THEN r[j] ELSE u
  <2> DEFINE h == front \o <<u>>
  <2>1. /\ h \in Seq(T) /\ Len(h) = Len(front) + 1
        /\ \A j \in 1 .. Len(front) + 1 :
              h[j] = IF j <= Len(front) THEN front[j] ELSE <<u>>[j - Len(front)]
    BY <1>2, <1>4, ConcatProperties
  <2> HIDE DEF h
  <2>2. Len(h) = i
    BY <1>2, <2>1
  <2>3. ASSUME NEW j \in 1 .. i PROVE h[j] = IF j < i THEN r[j] ELSE u
    <3>1. CASE j < i
      BY <1>1, <1>2, <2>1, <3>1
    <3>2. CASE j = i
      BY <1>1, <1>2, <1>4, <2>1, <3>2
    <3> QED
      BY <3>1, <3>2
  <2> QED
    BY <2>1, <2>2, <2>3 DEF h
<1>7. /\ t \in Seq(T) /\ Len(t) = Len(r) + 1
      /\ \A j \in 1 .. Len(r) + 1 : t[j] = IF j < i THEN r[j] ELSE IF j = i THEN u ELSE r[j - 1]
  <2> DEFINE h == front \o <<u>>
  <2>1. h \in Seq(T) /\ Len(h) = i /\ \A j \in 1 .. i : h[j] = IF j < i THEN r[j] ELSE u
    BY <1>6
  <2>2. t = h \o back
    BY <1>5
  <2> HIDE DEF h
  <2>3. /\ t \in Seq(T) /\ Len(t) = Len(h) + Len(back)
        /\ \A j \in 1 .. Len(h) + Len(back) :
              t[j] = IF j <= Len(h) THEN h[j] ELSE back[j - Len(h)]
    BY <1>3, <2>1, <2>2, ConcatProperties
  <2>4. Len(t) = Len(r) + 1
    BY <1>1, <1>3, <2>1, <2>3
  <2>5. ASSUME NEW j \in 1 .. Len(r) + 1
        PROVE  t[j] = IF j < i THEN r[j] ELSE IF j = i THEN u ELSE r[j - 1]
    <3>1. CASE j <= i
      BY <1>1, <1>3, <2>1, <2>3, <3>1
    <3>2. CASE j > i
      <4>1. j - i \in 1 .. Len(r) - (i - 1) /\ (i - 1) + (j - i) = j - 1
        BY <1>1, <3>2
      <4>2. t[j] = back[j - i]
        BY <1>1, <1>3, <2>1, <2>3, <3>2
      <4>3. back[j - i] = r[j - 1]
        BY <1>3, <4>1
      <4> QED
        BY <3>2, <4>2, <4>3
    <3> QED
      BY <1>1, <3>1, <3>2
  <2> QED
    BY <2>3, <2>4, <2>5
<1>8. DOMAIN t = 1 .. Len(r) + 1 /\ t[i] = u
  BY <1>7, LenProperties
<1> DEFINE at(j) == IF j < i THEN j ELSE j + 1
<1>9. ASSUME NEW j \in DOMAIN r PROVE at(j) \in DOMAIN t /\ at(j) # i /\ t[at(j)] = r[j]
  BY <1>1, <1>7, <1>8
<1>10. ASSUME NEW j \in DOMAIN t, j # i PROVE \E n \in DOMAIN r : at(n) = j
  <2>1. CASE j < i
    BY <1>1, <1>8, <2>1
  <2>2. CASE j > i
    <3>1. j - 1 \in DOMAIN r /\ at(j - 1) = j
      BY <1>1, <1>8, <2>2
    <3> QED
      BY <3>1
  <2> QED
    BY <1>1, <1>8, <1>10, <2>1, <2>2
<1> HIDE DEF at
<1>11. Range(t) = Range(r) \cup {u}
  BY <1>8, <1>9, <1>10 DEF Range
<1>12. IsInjective(t)
  <2> SUFFICES ASSUME NEW j \in DOMAIN t, NEW k \in DOMAIN t, t[j] = t[k] PROVE j = k
    BY DEF IsInjective
  <2>1. CASE j = i \/ k = i
    BY <1>8, <1>9, <1>10, <2>1 DEF Range
  <2>2. CASE j # i /\ k # i
    <3>1. PICK m \in DOMAIN r, n \in DOMAIN r : at(m) = j /\ at(n) = k
      BY <1>10, <2>2
    <3>2. r[m] = r[n]
      BY <1>9, <3>1
    <3> QED
      BY <3>1, <3>2 DEF IsInjective
  <2> QED
    BY <2>1, <2>2
<1>13. \A j \in DOMAIN r : t[IF j < i THEN j ELSE j + 1] = r[j]
  BY <1>9 DEF at
<1> QED
  BY <1>1, <1>7, <1>8, <1>11, <1>12, <1>13 DEF t

LEMMA InsertedOrder ==
    ASSUME NEW T, NEW r \in Seq(T), IsInjective(r), NEW u \in T, u \notin Range(r),
           NEW i \in 1 .. Len(r) + 1, NEW q, NEW p, q # u, p # u
    PROVE  Precedes(InsertAt(r, i, u), q, p) <=> Precedes(r, q, p)
<1> DEFINE t == InsertAt(r, i, u)
<1>1. /\ DOMAIN t = 1 .. Len(r) + 1 /\ DOMAIN r = 1 .. Len(r) /\ Len(r) \in Nat
      /\ t[i] = u /\ \A j \in DOMAIN r : t[IF j < i THEN j ELSE j + 1] = r[j]
  BY InsertedRows
<1> HIDE DEF t
<1> DEFINE f == [j \in DOMAIN r |-> IF j < i THEN j ELSE j + 1]
<1>2. \A j \in DOMAIN r : f[j] \in DOMAIN t /\ r[j] = t[f[j]]
  BY <1>1
<1>3. \A j, k \in DOMAIN r : j < k => f[j] < f[k]
  BY <1>1
<1>4. ASSUME NEW k \in DOMAIN t, t[k] \in {q, p} PROVE \E j \in DOMAIN r : f[j] = k
  <2>1. k # i
    BY <1>1, <1>4
  <2>2. CASE k < i
    BY <1>1, <2>2
  <2>3. CASE k > i
    <3>1. k - 1 \in DOMAIN r /\ f[k - 1] = k
      BY <1>1, <2>3
    <3> QED
      BY <3>1
  <2> QED
    BY <1>1, <2>1, <2>2, <2>3
<1>5. DOMAIN t \subseteq Int /\ DOMAIN r \subseteq Int
  BY <1>1
<1> HIDE DEF f
<1>6. Precedes(r, q, p) <=> Precedes(t, q, p)
  BY <1>2, <1>3, <1>4, <1>5, SameOrder
<1> QED
  BY <1>6 DEF t

\* A row that is put elsewhere, but not further down, brings no other nearer to
\* the end.
LEMMA PlacedRank ==
    ASSUME NEW T, NEW s \in Seq(T), IsInjective(s), NEW u \in T,
           NEW i \in 1 .. Len(RemoveFirst(s, u)) + 1,
           ~ \E k \in DOMAIN s : s[k] = u /\ i < k,
           NEW m \in DOMAIN s, s[m] # u,
           NEW l \in DOMAIN InsertAt(RemoveFirst(s, u), i, u),
           InsertAt(RemoveFirst(s, u), i, u)[l] = s[m]
    PROVE  Len(InsertAt(RemoveFirst(s, u), i, u)) - l >= Len(s) - m
<1> DEFINE r == RemoveFirst(s, u)
           t == InsertAt(r, i, u)
<1>1. Len(s) \in Nat /\ DOMAIN s = 1 .. Len(s)
  BY LenProperties
<1>2. r \in Seq(T) /\ IsInjective(r) /\ u \notin Range(r)
  BY RemovedRows
<1>3. PICK k \in 1 .. Len(s) + 1 :
         /\ u \in Range(s) => k \in DOMAIN s /\ s[k] = u /\ Len(r) = Len(s) - 1
         /\ u \notin Range(s) => k = Len(s) + 1 /\ r = s
         /\ \A j \in DOMAIN r : r[j] = IF j < k THEN s[j] ELSE s[j + 1]
  BY RemovedAt
<1>4. i \in 1 .. Len(r) + 1 /\ l \in DOMAIN t /\ t[l] = s[m]
  OBVIOUS
<1>a. u \notin Range(s) => r = s /\ m < k
  <2> SUFFICES ASSUME u \notin Range(s) PROVE r = s /\ m < k
    OBVIOUS
  <2>1. k = Len(s) + 1 /\ r = s
    BY <1>3
  <2> HIDE DEF r
  <2>2. m < k
    BY <1>1, <2>1
  <2> QED
    BY <2>1, <2>2
<1> HIDE DEF r
<1>5. /\ IsInjective(t) /\ Len(t) = Len(r) + 1 /\ DOMAIN t = 1 .. Len(r) + 1 /\ t[i] = u
      /\ \A j \in DOMAIN r : t[IF j < i THEN j ELSE j + 1] = r[j]
      /\ Len(r) \in Nat /\ DOMAIN r = 1 .. Len(r)
  BY <1>2, <1>4, InsertedRows
<1> HIDE DEF t
<1> DEFINE n == IF m < k THEN m ELSE m - 1
<1>6. u \in Range(s) => m # k /\ k <= i
  BY <1>1, <1>3, <1>4
<1>7. n \in DOMAIN r /\ r[n] = s[m]
  <2>1. CASE u \in Range(s)
    <3>1. n \in DOMAIN r /\ (n < k <=> m < k) /\ (~ (m < k) => n + 1 = m)
      BY <1>1, <1>3, <1>5, <1>6, <2>1
    <3> QED
      BY <1>3, <3>1
  <2>2. CASE u \notin Range(s)
    <3>1. r = s /\ m < k
      BY <1>a, <2>2
    <3>2. n = m
      BY <3>1
    <3> QED
      BY <3>1, <3>2
  <2> QED
    BY <2>1, <2>2
<1>8. t[IF n < i THEN n ELSE n + 1] = t[l] /\ (IF n < i THEN n ELSE n + 1) \in DOMAIN t
  <2> HIDE DEF n
  <2>1. (IF n < i THEN n ELSE n + 1) \in DOMAIN t
    BY <1>4, <1>5, <1>7
  <2> QED
    BY <1>4, <1>5, <1>7, <2>1
<1>9. l = IF n < i THEN n ELSE n + 1
  BY <1>4, <1>5, <1>8 DEF IsInjective
<1>10. Len(t) - l >= Len(s) - m
  <2>1. CASE u \in Range(s)
    BY <1>1, <1>3, <1>4, <1>5, <1>6, <1>9, <2>1
  <2>2. CASE u \notin Range(s)
    <3>1. Len(r) = Len(s) /\ m < k
      BY <1>a, <2>2
    <3>2. n = m /\ (l = m \/ l = m + 1)
      BY <1>9, <3>1
    <3> QED
      BY <1>1, <1>5, <3>1, <3>2
  <2> QED
    BY <2>1, <2>2
<1> QED
  BY <1>10 DEF t, r

LEMMA AppendedPairs ==
    ASSUME NEW T, NEW s \in Seq(T), NEW u \in T, NEW q, NEW p
    PROVE  Precedes(Append(s, u), q, p) <=> Precedes(s, q, p) \/ (p = u /\ q \in Range(s))
<1> DEFINE a == Append(s, u)
<1>1. /\ a \in Seq(T) /\ Len(a) = Len(s) + 1 /\ a[Len(s) + 1] = u
      /\ \A i \in 1 .. Len(s) : a[i] = s[i]
  BY AppendProperties
<1>2. /\ Len(s) \in Nat /\ DOMAIN s = 1 .. Len(s) /\ DOMAIN a = 1 .. Len(s) + 1
  BY <1>1, LenProperties
<1> HIDE DEF a
<1>3. ASSUME NEW i \in DOMAIN a, NEW j \in DOMAIN a, i < j, a[i] = q, a[j] = p
      PROVE  Precedes(s, q, p) \/ (p = u /\ q \in Range(s))
  <2>1. i \in DOMAIN s /\ s[i] = q
    BY <1>1, <1>2, <1>3
  <2>2. CASE j \in DOMAIN s
    BY <1>1, <1>2, <1>3, <2>1, <2>2 DEF Precedes
  <2>3. CASE j \notin DOMAIN s
    <3>1. j = Len(s) + 1
      BY <1>2, <2>3
    <3> QED
      BY <1>1, <1>3, <2>1, <3>1 DEF Range
  <2> QED
    BY <2>2, <2>3
<1>4. ASSUME NEW i \in DOMAIN s, NEW j \in DOMAIN s, i < j, s[i] = q, s[j] = p
      PROVE  Precedes(a, q, p)
  <2>1. i \in DOMAIN a /\ j \in DOMAIN a /\ a[i] = q /\ a[j] = p
    BY <1>1, <1>2, <1>4
  <2> QED
    BY <1>4, <2>1 DEF Precedes
<1>5. ASSUME p = u, NEW i \in DOMAIN s, s[i] = q PROVE Precedes(a, q, p)
  <2>1. i \in DOMAIN a /\ Len(s) + 1 \in DOMAIN a /\ i < Len(s) + 1 /\ a[i] = q
    BY <1>1, <1>2, <1>5
  <2> QED
    BY <1>1, <1>5, <2>1 DEF Precedes
<1> QED
  BY <1>3, <1>4, <1>5 DEF Precedes, Range, a

LEMMA JoinedPairs ==
    ASSUME NEW T, NEW s \in Seq(T), NEW t \in Seq(T), NEW q, NEW p
    PROVE  Precedes(s \o t, q, p) <=>
              Precedes(s, q, p) \/ Precedes(t, q, p) \/ (q \in Range(s) /\ p \in Range(t))
<1> DEFINE j == s \o t
<1>1. /\ j \in Seq(T) /\ Len(j) = Len(s) + Len(t)
      /\ \A i \in 1 .. Len(s) + Len(t) : j[i] = IF i <= Len(s) THEN s[i] ELSE t[i - Len(s)]
  BY ConcatProperties
<1>2. /\ Len(s) \in Nat /\ DOMAIN s = 1 .. Len(s)
      /\ Len(t) \in Nat /\ DOMAIN t = 1 .. Len(t)
      /\ DOMAIN j = 1 .. Len(s) + Len(t)
  BY <1>1, LenProperties
<1> HIDE DEF j
<1>3. \A i \in DOMAIN s : i \in DOMAIN j /\ j[i] = s[i]
  BY <1>1, <1>2
<1>4. \A i \in DOMAIN t : Len(s) + i \in DOMAIN j /\ j[Len(s) + i] = t[i]
  <2> SUFFICES ASSUME NEW i \in DOMAIN t
               PROVE  Len(s) + i \in DOMAIN j /\ j[Len(s) + i] = t[i]
    OBVIOUS
  <2>1. Len(s) + i \in 1 .. Len(s) + Len(t) /\ ~ (Len(s) + i <= Len(s))
        /\ (Len(s) + i) - Len(s) = i
    BY <1>2
  <2> QED
    BY <1>1, <1>2, <2>1
<1>5. ASSUME NEW a \in DOMAIN j, NEW b \in DOMAIN j, a < b, j[a] = q, j[b] = p
      PROVE  Precedes(s, q, p) \/ Precedes(t, q, p) \/ (q \in Range(s) /\ p \in Range(t))
  <2>1. CASE a \in DOMAIN s /\ b \in DOMAIN s
    BY <1>3, <1>5, <2>1 DEF Precedes
  <2>2. CASE a \in DOMAIN s /\ b \notin DOMAIN s
    <3>1. b - Len(s) \in DOMAIN t /\ j[b] = t[b - Len(s)] /\ j[a] = s[a]
      BY <1>1, <1>2, <2>2
    <3> QED
      BY <1>5, <2>2, <3>1 DEF Range
  <2>3. CASE a \notin DOMAIN s
    <3>1. /\ a - Len(s) \in DOMAIN t /\ j[a] = t[a - Len(s)]
          /\ b - Len(s) \in DOMAIN t /\ j[b] = t[b - Len(s)]
          /\ a - Len(s) < b - Len(s)
      BY <1>1, <1>2, <1>5, <2>3
    <3> QED
      BY <1>5, <3>1 DEF Precedes
  <2> QED
    BY <2>1, <2>2, <2>3
<1>6. Precedes(s, q, p) => Precedes(j, q, p)
  BY <1>3 DEF Precedes
<1>7. Precedes(t, q, p) => Precedes(j, q, p)
  <2> SUFFICES ASSUME NEW a \in DOMAIN t, NEW b \in DOMAIN t, a < b, t[a] = q, t[b] = p
               PROVE  Precedes(j, q, p)
    BY DEF Precedes
  <2>1. Len(s) + a < Len(s) + b
    BY <1>2
  <2> QED
    BY <1>4, <2>1 DEF Precedes
<1>8. ASSUME q \in Range(s), p \in Range(t) PROVE Precedes(j, q, p)
  <2>1. PICK a \in DOMAIN s, b \in DOMAIN t : s[a] = q /\ t[b] = p
    BY <1>8 DEF Range
  <2>2. a < Len(s) + b
    BY <1>2
  <2> QED
    BY <1>3, <1>4, <2>1, <2>2 DEF Precedes
<1>9. Precedes(j, q, p) <=>
         Precedes(s, q, p) \/ Precedes(t, q, p) \/ (q \in Range(s) /\ p \in Range(t))
  BY <1>5, <1>6, <1>7, <1>8 DEF Precedes
<1> QED
  BY <1>9 DEF j

\* Nothing stands before the first row, or after the last.
LEMMA NoneBeforeHead ==
    ASSUME NEW T, NEW s \in Seq(T), IsInjective(s), s # <<>>, NEW q
    PROVE  /\ Head(s) \in Range(s) /\ ~ Precedes(s, q, Head(s))
           /\ Last(s) \in Range(s) /\ ~ Precedes(s, Last(s), q)
<1>1. Len(s) \in Nat /\ DOMAIN s = 1 .. Len(s) /\ Len(s) # 0
  BY LenProperties, EmptySeq
<1>2. 1 \in DOMAIN s /\ Head(s) = s[1] /\ Len(s) \in DOMAIN s /\ Last(s) = s[Len(s)]
  BY <1>1, HeadTailProperties DEF Last
<1>3. \A i \in DOMAIN s : ~ (i < 1) /\ ~ (Len(s) < i)
  BY <1>1
<1> QED
  BY <1>2, <1>3 DEF Precedes, IsInjective, Range

LEMMA ReversedPairs ==
    ASSUME NEW T, NEW s \in Seq(T), IsInjective(s), NEW q, NEW p, Precedes(s, q, p)
    PROVE  Precedes(Reverse(s), p, q)
<1>1. /\ Len(s) \in Nat /\ DOMAIN s = 1 .. Len(s) /\ DOMAIN Reverse(s) = 1 .. Len(s)
      /\ \A i \in 1 .. Len(s) : /\ (Len(s) - i) + 1 \in 1 .. Len(s)
                               /\ Reverse(s)[(Len(s) - i) + 1] = s[i]
  BY ReverseIs
<1>2. PICK i \in DOMAIN s, j \in DOMAIN s : i < j /\ s[i] = q /\ s[j] = p
  BY DEF Precedes
<1>3. (Len(s) - j) + 1 < (Len(s) - i) + 1
  BY <1>1, <1>2
<1>4. PICK a \in DOMAIN Reverse(s) : a = (Len(s) - j) + 1 /\ Reverse(s)[a] = p
  BY <1>1, <1>2
<1>5. PICK b \in DOMAIN Reverse(s) : b = (Len(s) - i) + 1 /\ Reverse(s)[b] = q
  BY <1>1, <1>2
<1>6. a < b
  BY <1>3, <1>4, <1>5
<1> QED
  BY <1>4, <1>5, <1>6 DEF Precedes

\* A list whose rows are all in another is not longer.
LEMMA NotLonger ==
    ASSUME NEW T, NEW s \in Seq(T), IsInjective(s), NEW t \in Seq(T), IsInjective(t),
           Range(s) \subseteq Range(t)
    PROVE  Len(s) \in Nat /\ Len(t) \in Nat /\ Len(s) <= Len(t)
<1>1. ASSUME NEW r \in Seq(T), IsInjective(r)
      PROVE  IsFiniteSet(Range(r)) /\ Cardinality(Range(r)) = Len(r) /\ Len(r) \in Nat
  <2>1. Len(r) \in Nat /\ DOMAIN r = 1 .. Len(r)
    BY LenProperties
  <2>2. r \in [1 .. Len(r) -> Range(r)]
    <3>1. r \in [DOMAIN r -> T] /\ \A i \in DOMAIN r : r[i] \in Range(r)
      BY LenProperties DEF Range
    <3> QED
      BY <2>1, <3>1
  <2>3. r \in Bijection(1 .. Len(r), Range(r))
    <3>1. \A x \in Range(r) : \E i \in 1 .. Len(r) : r[i] = x
      BY <2>1 DEF Range
    <3> QED
      BY <1>1, <2>1, <2>2, <3>1 DEF Bijection, Injection, Surjection, IsInjective
  <2>4. ExistsBijection(1 .. Len(r), Range(r))
    BY <2>3 DEF ExistsBijection
  <2>5. IsFiniteSet(1 .. Len(r)) /\ Cardinality(1 .. Len(r)) = Len(r)
    <3>1. \A n \in Nat : IsFiniteSet(1 .. n) /\ Cardinality(1 .. n) = n
      BY FS_Interval
    <3> QED
      BY <2>1, <3>1
  <2> QED
    BY <2>1, <2>4, <2>5, FS_Bijection
<1>2. Cardinality(Range(s)) <= Cardinality(Range(t))
  BY <1>1, FS_Subset
<1> QED
  BY <1>1, <1>2

-----------------------------------------------------------------------------
(* FlattenSeq is a recursive function: that there is one, and what it does   *)
(* to a longer list, is shown by induction.                                  *)

\* One piece more.
Longer(r, s, i) == r[i - 1] \o s[i]

\* r[i] is the first i pieces of s joined, for every i up to n.
Joins(r, s, n) == r = [i \in 1 .. n |-> IF i = 1 THEN s[i] ELSE Longer(r, s, i)]

LEMMA JoinedSoFar ==
    ASSUME NEW r, NEW s, NEW n, Joins(r, s, n), NEW i \in 1 .. n
    PROVE  r[i] = IF i = 1 THEN s[i] ELSE Longer(r, s, i)
<1> DEFINE f == [j \in 1 .. n |-> IF j = 1 THEN s[j] ELSE Longer(r, s, j)]
<1>1. r = f
  BY DEF Joins
<1>2. f[i] = IF i = 1 THEN s[i] ELSE Longer(r, s, i)
  OBVIOUS
<1> HIDE DEF f
<1> QED
  BY <1>1, <1>2

LEMMA JoinExists ==
    ASSUME NEW s
    PROVE  \A n \in Nat : \E r : Joins(r, s, n)
<1> DEFINE Good == {n \in Nat : \E r : Joins(r, s, n)}
<1>1. 0 \in Good
  <2> DEFINE r == [i \in 1 .. 0 |-> <<>>]
  <2>1. Joins(r, s, 0)
    BY DEF Joins
  <2> QED
    BY <2>1
<1>2. ASSUME NEW n \in Nat, n \in Good PROVE n + 1 \in Good
  <2>1. PICK r : Joins(r, s, n)
    BY <1>2
  <2> DEFINE q == [i \in 1 .. n + 1 |-> IF i = 1 THEN s[i] ELSE Longer(r, s, i)]
  <2>2. \A i \in 1 .. n : q[i] = r[i]
    BY <2>1, JoinedSoFar
  <2> HIDE DEF q
  <2>3. ASSUME NEW i \in 1 .. n + 1, i # 1 PROVE Longer(q, s, i) = Longer(r, s, i)
    <3>1. i - 1 \in 1 .. n
      BY <2>3
    <3> QED
      BY <2>2, <3>1 DEF Longer
  <2>4. Joins(q, s, n + 1)
    BY <2>3 DEF Joins, q
  <2> QED
    BY <2>4
<1>3. Nat \subseteq Good
  <2> HIDE DEF Good
  <2> QED
    BY <1>1, <1>2, NatInduct
<1> QED
  BY <1>3

LEMMA FlattenJoins ==
    ASSUME NEW T, NEW s \in Seq(T), s # <<>>
    PROVE  /\ Len(s) \in Nat \ {0}
           /\ \E r : Joins(r, s, Len(s)) /\ FlattenSeq(s) = r[Len(s)]
<1> DEFINE r == CHOOSE flatten : flatten = [i \in 1 .. Len(s) |->
                    IF i = 1 THEN s[i] ELSE flatten[i - 1] \o s[i]]
<1>1. Len(s) \in Nat \ {0}
  BY LenProperties, EmptySeq
<1>2. FlattenSeq(s) = r[Len(s)]
  <2>1. Len(s) # 0
    BY <1>1
  <2> QED
    BY <2>1, Zenon DEF FlattenSeq
<1>3. Joins(r, s, Len(s))
  <2>1. \E flatten : flatten = [i \in 1 .. Len(s) |->
            IF i = 1 THEN s[i] ELSE flatten[i - 1] \o s[i]]
    <3>1. PICK flatten : Joins(flatten, s, Len(s))
      BY <1>1, JoinExists
    <3> QED
      BY <3>1, Zenon DEF Joins, Longer
  <2>2. r = [i \in 1 .. Len(s) |-> IF i = 1 THEN s[i] ELSE r[i - 1] \o s[i]]
    BY <2>1, Zenon
  <2> QED
    BY <2>2, Zenon DEF Joins, Longer
<1> HIDE DEF r
<1> QED
  BY <1>1, <1>2, <1>3

\* Both lists are joined alike as far as they are the same.
Alike(s, t, n) == \A i \in 1 .. n : s[i] = t[i]

LEMMA JoinsAlike ==
    ASSUME NEW s, NEW t, NEW n \in Nat, NEW m \in Nat, n <= m, Alike(s, t, n),
           NEW r, Joins(r, s, n), NEW q, Joins(q, t, m)
    PROVE  Alike(r, q, n)
<1> DEFINE Good == {k \in Nat : k \in 1 .. n => r[k] = q[k]}
<1>1. 0 \in Good
  OBVIOUS
<1>2. ASSUME NEW k \in Nat, k \in Good PROVE k + 1 \in Good
  <2> SUFFICES ASSUME k + 1 \in 1 .. n PROVE r[k + 1] = q[k + 1]
    OBVIOUS
  <2>1. /\ r[k + 1] = IF k + 1 = 1 THEN s[k + 1] ELSE r[(k + 1) - 1] \o s[k + 1]
        /\ q[k + 1] = IF k + 1 = 1 THEN t[k + 1] ELSE q[(k + 1) - 1] \o t[k + 1]
    <3>1. k + 1 \in 1 .. n /\ k + 1 \in 1 .. m
      OBVIOUS
    <3>2. r[k + 1] = IF k + 1 = 1 THEN s[k + 1] ELSE Longer(r, s, k + 1)
      BY <3>1, JoinedSoFar
    <3>3. q[k + 1] = IF k + 1 = 1 THEN t[k + 1] ELSE Longer(q, t, k + 1)
      BY <3>1, JoinedSoFar
    <3> QED
      BY <3>2, <3>3 DEF Longer
  <2>2. (k + 1) - 1 = k /\ (k + 1 # 1 => k \in 1 .. n)
    OBVIOUS
  <2>3. k + 1 # 1 => r[k] = q[k]
    BY <1>2, <2>2
  <2>4. s[k + 1] = t[k + 1]
    BY DEF Alike
  <2> QED
    BY <2>1, <2>2, <2>3, <2>4
<1>3. Nat \subseteq Good
  <2> HIDE DEF Good
  <2> QED
    BY <1>1, <1>2, NatInduct
<1> QED
  BY <1>3 DEF Alike

\* One piece more is joined to the end.
LEMMA FlattenAppend ==
    ASSUME NEW T, NEW s \in Seq(Seq(T)), NEW x \in Seq(T)
    PROVE  FlattenSeq(Append(s, x)) = FlattenSeq(s) \o x
<1> DEFINE a == Append(s, x)
           n == Len(s)
<1>1. /\ a \in Seq(Seq(T)) /\ Len(a) = n + 1 /\ n \in Nat /\ a # <<>>
      /\ \A i \in 1 .. n : a[i] = s[i]
      /\ a[n + 1] = x
  BY AppendProperties, LenProperties
<1>2. PICK q : Joins(q, a, n + 1) /\ FlattenSeq(a) = q[n + 1]
  <2> HIDE DEF a
  <2> QED
    BY <1>1, FlattenJoins
<1> HIDE DEF a
<1>3. CASE s = <<>>
  <2>1. n = 0 /\ FlattenSeq(s) = <<>>
    BY <1>3, EmptySeq DEF FlattenSeq
  <2>2. q[n + 1] = x
    <3>1. n + 1 \in 1 .. n + 1 /\ n + 1 = 1
      BY <2>1
    <3> QED
      BY <1>1, <1>2, <3>1, JoinedSoFar
  <2> QED
    BY <1>2, <2>1, <2>2, ConcatEmptySeq DEF a
<1>4. CASE s # <<>>
  <2>1. PICK r : n \in Nat \ {0} /\ Joins(r, s, n) /\ FlattenSeq(s) = r[n]
    BY <1>4, FlattenJoins
  <2>2. r[n] = q[n]
    <3>1. PICK m \in Nat : m = n + 1
      BY <1>1
    <3>2. n \in Nat /\ n <= m /\ n \in 1 .. n
      BY <1>1, <2>1, <3>1
    <3>3. Alike(s, a, n)
      BY <1>1 DEF Alike
    <3>4. Joins(r, s, n) /\ Joins(q, a, m)
      BY <1>2, <2>1, <3>1
    <3> HIDE DEF n
    <3>5. Alike(r, q, n)
      BY <3>2, <3>3, <3>4, JoinsAlike
    <3> QED
      BY <3>2, <3>5 DEF Alike
  <2>3. q[n + 1] = q[(n + 1) - 1] \o a[n + 1]
    <3>1. n + 1 \in 1 .. n + 1 /\ n + 1 # 1
      BY <2>1
    <3>2. q[n + 1] = IF n + 1 = 1 THEN a[n + 1] ELSE Longer(q, a, n + 1)
      BY <1>2, <3>1, JoinedSoFar
    <3> QED
      BY <3>1, <3>2 DEF Longer
  <2>4. (n + 1) - 1 = n
    BY <1>1
  <2> QED
    BY <1>1, <1>2, <2>1, <2>2, <2>3, <2>4 DEF a
<1> QED
  BY <1>3, <1>4

LEMMA FlattenType ==
    ASSUME NEW T, NEW s \in Seq(Seq(T))
    PROVE  FlattenSeq(s) \in Seq(T)
<1>1. CASE s = <<>>
  BY <1>1, EmptySeq DEF FlattenSeq
<1>2. CASE s # <<>>
  <2>1. PICK r : /\ Len(s) \in Nat \ {0} /\ Joins(r, s, Len(s))
                 /\ FlattenSeq(s) = r[Len(s)]
    BY <1>2, FlattenJoins
  <2>2. \A i \in 1 .. Len(s) : s[i] \in Seq(T)
    BY ElementOfSeq
  <2> DEFINE Good == {k \in Nat : k \in 1 .. Len(s) => r[k] \in Seq(T)}
  <2>3. 0 \in Good
    OBVIOUS
  <2>4. ASSUME NEW k \in Nat, k \in Good PROVE k + 1 \in Good
    <3> SUFFICES ASSUME k + 1 \in 1 .. Len(s) PROVE r[k + 1] \in Seq(T)
      OBVIOUS
    <3>1. r[k + 1] = IF k + 1 = 1 THEN s[k + 1] ELSE r[(k + 1) - 1] \o s[k + 1]
      BY <2>1, JoinedSoFar DEF Longer
    <3>2. (k + 1) - 1 = k /\ (k + 1 # 1 => k \in 1 .. Len(s))
      BY <2>1
    <3> QED
      BY <2>2, <2>4, <3>1, <3>2, ConcatProperties
  <2>5. Nat \subseteq Good
    <3> HIDE DEF Good
    <3> QED
      BY <2>3, <2>4, NatInduct
  <2>6. Len(s) \in 1 .. Len(s)
    BY <2>1
  <2> QED
    BY <2>1, <2>5, <2>6
<1> QED
  BY <1>1, <1>2

\* a \o b as a term of its own, which the provers do not take apart.
Chain(a, b) == a \o b

LEMMA ChainRegroups ==
    ASSUME NEW T, NEW a \in Seq(T), NEW b \in Seq(T), NEW c \in Seq(T)
    PROVE  Chain(Chain(a, b), c) = Chain(a, Chain(b, c))
<1>1. (a \o b) \o c = a \o (b \o c)
  BY ConcatAssociative
<1> QED
  BY <1>1, Zenon DEF Chain

\* A piece moves from what is left to what is joined.
LEMMA FlattenMoves ==
    ASSUME NEW T, NEW s \in Seq(Seq(T)), NEW x \in Seq(T), NEW y \in Seq(T)
    PROVE  Chain(FlattenSeq(Append(s, x)), y) = Chain(FlattenSeq(s), Chain(x, y))
<1>1. FlattenSeq(Append(s, x)) = Chain(FlattenSeq(s), x)
  BY FlattenAppend, Zenon DEF Chain
<1>2. PICK f \in Seq(T) : f = FlattenSeq(s)
  BY FlattenType
<1>3. Chain(Chain(f, x), y) = Chain(f, Chain(x, y))
  BY ChainRegroups
<1> QED
  BY <1>1, <1>2, <1>3, Zenon

-----------------------------------------------------------------------------
(* The elements but those in S. Without is a recursive function: that there  *)
(* is one, and what its values are, is shown by induction.                   *)

\* One element more.
More(r, s, S, i) == IF s[i] \in S THEN r[i - 1] ELSE Append(r[i - 1], s[i])

\* r[i] is what is left of the first i elements of s, for every i up to n.
Filters(r, s, S, n) == r = [i \in 0 .. n |-> IF i = 0 THEN <<>> ELSE More(r, s, S, i)]

LEMMA FilterExists ==
    ASSUME NEW s, NEW S
    PROVE  \A n \in Nat : \E r : Filters(r, s, S, n)
<1> DEFINE Good == {n \in Nat : \E r : Filters(r, s, S, n)}
<1>1. 0 \in Good
  <2> DEFINE r == [i \in 0 .. 0 |-> <<>>]
  <2>1. Filters(r, s, S, 0)
    BY DEF Filters
  <2> QED
    BY <2>1
<1>2. ASSUME NEW n \in Nat, n \in Good PROVE n + 1 \in Good
  <2>1. PICK r : Filters(r, s, S, n)
    BY <1>2
  <2> DEFINE q == [i \in 0 .. n + 1 |-> IF i = 0 THEN <<>> ELSE More(r, s, S, i)]
  <2>2. \A i \in 0 .. n : q[i] = r[i]
    BY <2>1 DEF Filters
  <2> HIDE DEF q
  <2>3. ASSUME NEW i \in 0 .. n + 1, i # 0 PROVE More(q, s, S, i) = More(r, s, S, i)
    <3>1. i - 1 \in 0 .. n
      BY <2>3
    <3> QED
      BY <2>2, <3>1 DEF More
  <2>4. Filters(q, s, S, n + 1)
    BY <2>3 DEF Filters, q
  <2> QED
    BY <2>4
<1>3. Nat \subseteq Good
  <2> HIDE DEF Good
  <2> QED
    BY <1>1, <1>2, NatInduct
<1> QED
  BY <1>3

LEMMA WithoutFilters ==
    ASSUME NEW T, NEW s \in Seq(T), NEW S
    PROVE  \E r : Filters(r, s, S, Len(s)) /\ Without(s, S) = r[Len(s)]
<1> DEFINE r == CHOOSE rows : rows = [i \in 0 .. Len(s) |->
                    IF i = 0 THEN <<>>
                    ELSE IF s[i] \in S THEN rows[i - 1] ELSE Append(rows[i - 1], s[i])]
<1>1. Without(s, S) = r[Len(s)]
  BY Zenon DEF Without
<1>2. Len(s) \in Nat
  BY LenProperties
<1>3. Filters(r, s, S, Len(s))
  <2>1. \E rows : rows = [i \in 0 .. Len(s) |->
            IF i = 0 THEN <<>>
            ELSE IF s[i] \in S THEN rows[i - 1] ELSE Append(rows[i - 1], s[i])]
    <3>1. PICK rows : Filters(rows, s, S, Len(s))
      BY <1>2, FilterExists
    <3> QED
      BY <3>1, Zenon DEF Filters, More
  <2>2. r = [i \in 0 .. Len(s) |->
            IF i = 0 THEN <<>>
            ELSE IF s[i] \in S THEN r[i - 1] ELSE Append(r[i - 1], s[i])]
    BY <2>1, Zenon
  <2> QED
    BY <2>2, Zenon DEF Filters, More
<1> HIDE DEF r
<1> QED
  BY <1>1, <1>3

LEMMA WithoutIs ==
    ASSUME NEW T, NEW s \in Seq(T), IsInjective(s), NEW S
    PROVE  /\ Without(s, S) \in Seq(T)
           /\ IsInjective(Without(s, S))
           /\ Range(Without(s, S)) = Range(s) \ S
           /\ Len(Without(s, S)) <= Len(s)
<1>1. PICK r : Filters(r, s, S, Len(s)) /\ Without(s, S) = r[Len(s)]
  BY WithoutFilters
<1>2. /\ Len(s) \in Nat /\ DOMAIN s = 1 .. Len(s)
      /\ \A i \in 1 .. Len(s) : s[i] \in T
  BY LenProperties, ElementOfSeq
<1>3. r[0] = <<>> /\ \A i \in 1 .. Len(s) : r[i] = More(r, s, S, i)
  BY <1>1, <1>2 DEF Filters
<1> DEFINE First(n) == {s[i] : i \in 1 .. n}
           Fine(n) == /\ r[n] \in Seq(T) /\ IsInjective(r[n])
                      /\ Range(r[n]) = First(n) \ S
                      /\ Len(r[n]) <= n
           Good == {n \in Nat : n <= Len(s) => Fine(n)}
<1>4. 0 \in Good
  <2>1. /\ <<>> \in Seq(T) /\ Len(<<>>) = 0
        /\ IsInjective(<<>>) /\ Range(<<>>) = {} /\ First(0) = {}
    BY EmptySeq DEF IsInjective, Range
  <2> HIDE DEF First
  <2>2. Fine(0)
    BY <1>3, <2>1
  <2> HIDE DEF Fine
  <2> QED
    BY <2>2
<1>5. ASSUME NEW n \in Nat, n \in Good PROVE n + 1 \in Good
  <2> SUFFICES ASSUME n + 1 <= Len(s) PROVE Fine(n + 1)
    OBVIOUS
  <2>1. Fine(n) /\ n + 1 \in 1 .. Len(s)
    BY <1>2, <1>5
  <2>2. First(n + 1) = First(n) \cup {s[n + 1]}
    <3>1. 1 .. n + 1 = (1 .. n) \cup {n + 1}
      OBVIOUS
    <3> QED
      BY <3>1
  <2>3. s[n + 1] \notin First(n)
    <3> SUFFICES ASSUME NEW i \in 1 .. n, s[i] = s[n + 1] PROVE FALSE
      OBVIOUS
    <3>1. i \in DOMAIN s /\ n + 1 \in DOMAIN s /\ i # n + 1
      BY <1>2, <2>1
    <3> QED
      BY <3>1 DEF IsInjective
  <2>4. r[n + 1] = IF s[n + 1] \in S THEN r[n] ELSE Append(r[n], s[n + 1])
    BY <1>3, <2>1 DEF More
  <2> HIDE DEF First
  <2>5. CASE s[n + 1] \in S
    <3>1. Len(r[n]) \in Nat
      BY <2>1, LenProperties
    <3> QED
      BY <2>1, <2>2, <2>4, <2>5, <3>1
  <2>6. CASE s[n + 1] \notin S
    <3>1. s[n + 1] \in T /\ s[n + 1] \notin Range(r[n])
      BY <1>2, <2>1, <2>3
    <3>2. /\ r[n + 1] \in Seq(T) /\ IsInjective(r[n + 1])
          /\ Range(r[n + 1]) = Range(r[n]) \cup {s[n + 1]}
          /\ Len(r[n + 1]) = Len(r[n]) + 1
      BY <2>1, <2>4, <2>6, <3>1, AppendedRows
    <3>3. Len(r[n]) \in Nat
      BY <2>1, LenProperties
    <3> QED
      BY <2>1, <2>2, <2>6, <3>2, <3>3
  <2> QED
    BY <2>5, <2>6
<1>6. Fine(Len(s))
  <2> HIDE DEF Fine
  <2>1. Nat \subseteq Good
    <3> HIDE DEF Good
    <3> QED
      BY <1>4, <1>5, NatInduct
  <2> QED
    BY <1>2, <2>1
<1>7. First(Len(s)) = Range(s)
  BY <1>2 DEF Range
<1> QED
  BY <1>1, <1>6, <1>7

LEMMA WithoutType ==
    ASSUME NEW T, NEW s \in Seq(T), NEW S
    PROVE  Without(s, S) \in Seq(T)
<1>1. PICK r : Filters(r, s, S, Len(s)) /\ Without(s, S) = r[Len(s)]
  BY WithoutFilters
<1>2. Len(s) \in Nat /\ \A i \in 1 .. Len(s) : s[i] \in T
  BY LenProperties, ElementOfSeq
<1>3. r[0] = <<>> /\ \A i \in 1 .. Len(s) : r[i] = More(r, s, S, i)
  BY <1>1, <1>2 DEF Filters
<1> DEFINE Good == {n \in Nat : n <= Len(s) => r[n] \in Seq(T)}
<1>4. 0 \in Good
  BY <1>3, EmptySeq
<1>5. ASSUME NEW n \in Nat, n \in Good PROVE n + 1 \in Good
  <2> SUFFICES ASSUME n + 1 <= Len(s) PROVE r[n + 1] \in Seq(T)
    OBVIOUS
  <2>1. r[n] \in Seq(T) /\ n + 1 \in 1 .. Len(s)
    BY <1>2, <1>5
  <2>2. r[n + 1] = IF s[n + 1] \in S THEN r[n] ELSE Append(r[n], s[n + 1])
    BY <1>3, <2>1 DEF More
  <2> QED
    BY <1>2, <2>1, <2>2, AppendProperties
<1>6. Nat \subseteq Good
  <2> HIDE DEF Good
  <2> QED
    BY <1>4, <1>5, NatInduct
<1> QED
  BY <1>1, <1>2, <1>6

\* What is left of a list stands in the same order.
LEMMA WithoutOrder ==
    ASSUME NEW T, NEW s \in Seq(T), NEW S, NEW q, NEW p, q \notin S, p \notin S
    PROVE  Precedes(Without(s, S), q, p) <=> Precedes(s, q, p)
<1>1. PICK r : Filters(r, s, S, Len(s)) /\ Without(s, S) = r[Len(s)]
  BY WithoutFilters
<1>2. /\ Len(s) \in Nat /\ DOMAIN s = 1 .. Len(s)
      /\ \A i \in 1 .. Len(s) : s[i] \in T
  BY LenProperties, ElementOfSeq
<1>3. r[0] = <<>> /\ \A i \in 1 .. Len(s) : r[i] = More(r, s, S, i)
  BY <1>1, <1>2 DEF Filters
<1> DEFINE Pair(n) == \E i, j \in 1 .. n : i < j /\ s[i] = q /\ s[j] = p
           Has(n) == \E i \in 1 .. n : s[i] = q
           Fine(n) == /\ r[n] \in Seq(T)
                      /\ Precedes(r[n], q, p) <=> Pair(n)
                      /\ q \in Range(r[n]) <=> Has(n)
           Good == {n \in Nat : n <= Len(s) => Fine(n)}
<1>4. 0 \in Good
  <2>1. <<>> \in Seq(T) /\ ~ Precedes(<<>>, q, p) /\ q \notin Range(<<>>)
    BY EmptySeq DEF Precedes, Range
  <2>2. Fine(0)
    BY <1>3, <2>1
  <2> QED
    BY <2>2
<1>5. ASSUME NEW n \in Nat, n \in Good PROVE n + 1 \in Good
  <2> SUFFICES ASSUME n + 1 <= Len(s) PROVE Fine(n + 1)
    OBVIOUS
  <2>1. Fine(n) /\ n + 1 \in 1 .. Len(s)
    BY <1>2, <1>5
  <2>2. 1 .. n + 1 = (1 .. n) \cup {n + 1} /\ \A i \in 1 .. n : i < n + 1 /\ ~ (n + 1 < i)
    OBVIOUS
  <2>3. /\ Pair(n + 1) <=> Pair(n) \/ (Has(n) /\ s[n + 1] = p)
        /\ Has(n + 1) <=> Has(n) \/ s[n + 1] = q
    BY <2>2
  <2>4. r[n + 1] = IF s[n + 1] \in S THEN r[n] ELSE Append(r[n], s[n + 1])
    <3>1. (n + 1) - 1 = n
      OBVIOUS
    <3> QED
      BY <1>3, <2>1, <3>1 DEF More
  <2> HIDE DEF Pair, Has
  <2>5. CASE s[n + 1] \in S
    BY <2>1, <2>3, <2>4, <2>5
  <2>6. CASE s[n + 1] \notin S
    <3> DEFINE u == s[n + 1]
               t == r[n]
    <3>1. u \in T /\ t \in Seq(T)
      BY <1>2, <2>1
    <3> HIDE DEF u, t
    <3>2. Precedes(Append(t, u), q, p) <=> Precedes(t, q, p) \/ (p = u /\ q \in Range(t))
      BY <3>1, AppendedPairs
    <3>3. Append(t, u) \in Seq(T)
      BY <3>1, AppendProperties
    <3>4. q \in Range(Append(t, u)) <=> q \in Range(t) \/ q = u
      <4>1. /\ Len(Append(t, u)) = Len(t) + 1 /\ Append(t, u)[Len(t) + 1] = u
            /\ \A i \in 1 .. Len(t) : Append(t, u)[i] = t[i]
        BY <3>1, AppendProperties
      <4>2. /\ Len(t) \in Nat /\ DOMAIN t = 1 .. Len(t)
            /\ DOMAIN Append(t, u) = 1 .. Len(t) + 1
        BY <3>1, <3>3, <4>1, LenProperties
      <4>3. 1 .. Len(t) + 1 = (1 .. Len(t)) \cup {Len(t) + 1}
        BY <4>2
      <4> QED
        BY <4>1, <4>2, <4>3 DEF Range
    <3>5. r[n + 1] = Append(t, u)
      BY <2>4, <2>6 DEF t, u
    <3> QED
      BY <2>1, <2>3, <3>2, <3>3, <3>4, <3>5 DEF t, u
  <2> QED
    BY <2>5, <2>6
<1>6. Fine(Len(s))
  <2> HIDE DEF Fine
  <2>1. Nat \subseteq Good
    <3> HIDE DEF Good
    <3> QED
      BY <1>4, <1>5, NatInduct
  <2> QED
    BY <1>2, <2>1
<1>7. Pair(Len(s)) <=> Precedes(s, q, p)
  BY <1>2 DEF Precedes
<1> QED
  BY <1>1, <1>6, <1>7

\* The first row of what is left.
LEMMA FirstLeft ==
    ASSUME NEW T, NEW s \in Seq(T), IsInjective(s), NEW S, Without(s, S) # <<>>,
           NEW q, q \notin S
    PROVE  /\ Head(Without(s, S)) \in Range(s) \ S
           /\ ~ Precedes(s, q, Head(Without(s, S)))
<1> DEFINE w == Without(s, S)
<1>1. w \in Seq(T) /\ IsInjective(w) /\ Range(w) = Range(s) \ S
  BY WithoutIs
<1>2. w # <<>>
  OBVIOUS
<1>3. \A p : p \notin S => (Precedes(w, q, p) <=> Precedes(s, q, p))
  BY WithoutOrder
<1> HIDE DEF w
<1>4. Len(w) \in Nat /\ DOMAIN w = 1 .. Len(w) /\ Len(w) # 0
  BY <1>1, <1>2, LenProperties, EmptySeq
<1>5. 1 \in DOMAIN w /\ Head(w) = w[1]
  BY <1>1, <1>2, <1>4, HeadTailProperties
<1>6. Head(w) \in Range(w)
  BY <1>5 DEF Range
<1>7. ~ Precedes(w, q, Head(w))
  BY <1>1, <1>4, <1>5 DEF Precedes, IsInjective
<1>8. Head(w) \in Range(s) \ S /\ ~ Precedes(s, q, Head(w))
  BY <1>1, <1>3, <1>6, <1>7
<1> QED
  BY <1>8 DEF w
=============================================================================
