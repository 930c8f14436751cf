----------------------------- MODULE LinkProofs -----------------------------
(***************************************************************************)
(* Theorems about LinkExtraction, for any references in any bodies and any *)
(* robots.txt. First what Normal does to a path: Resolved is a recursive   *)
(* function, and what it comes to is shown by induction.                   *)
(***************************************************************************)
EXTENDS LinkExtraction, SequenceFacts

-----------------------------------------------------------------------------
(* Resolved, segment by segment *)

\* One segment more.
OneMore(r, s, i) == Resolve(r[i - 1], s[i])

\* r[i] is what the first i segments of s come to, for every i up to n.
Resolves(r, s, n) == r = [i \in 0 .. n |-> IF i = 0 THEN <<>> ELSE OneMore(r, s, i)]

LEMMA ResolvedExists ==
    ASSUME NEW s
    PROVE  \A n \in Nat : \E r : Resolves(r, s, n)
<1> DEFINE Good == {n \in Nat : \E r : Resolves(r, s, n)}
<1>1. 0 \in Good
  <2> DEFINE r == [i \in 0 .. 0 |-> <<>>]
  <2>1. Resolves(r, s, 0)
    BY DEF Resolves
  <2> QED
    BY <2>1
<1>2. ASSUME NEW n \in Nat, n \in Good PROVE n + 1 \in Good
  <2>1. PICK r : Resolves(r, s, n)
    BY <1>2
  <2> DEFINE q == [i \in 0 .. n + 1 |-> IF i = 0 THEN <<>> ELSE OneMore(r, s, i)]
  <2>2. \A i \in 0 .. n : q[i] = r[i]
    BY <2>1 DEF Resolves
  <2> HIDE DEF q
  <2>3. ASSUME NEW i \in 0 .. n + 1, i # 0 PROVE OneMore(q, s, i) = OneMore(r, s, i)
    <3>1. i - 1 \in 0 .. n
      BY <2>3
    <3> QED
      BY <2>2, <3>1 DEF OneMore
  <2>4. Resolves(q, s, n + 1)
    BY <2>3 DEF Resolves, q
  <2> QED
    BY <2>4
<1>3. Nat \subseteq Good
  <2> HIDE DEF Good
  <2> QED
    BY <1>1, <1>2, NatInduct
<1> QED
  BY <1>3

LEMMA ResolvedIs ==
    ASSUME NEW T, NEW s \in Seq(T)
    PROVE  /\ Resolved(s)[0] = <<>>
           /\ \A i \in 1 .. Len(s) : Resolved(s)[i] = Resolve(Resolved(s)[i - 1], s[i])
<1> DEFINE r == CHOOSE done : done = [i \in 0 .. Len(s) |->
                    IF i = 0 THEN <<>> ELSE Resolve(done[i - 1], s[i])]
<1>1. Resolved(s) = r
  BY Zenon DEF Resolved
<1>2. Len(s) \in Nat
  BY LenProperties
<1>3. Resolves(r, s, Len(s))
  <2>1. \E done : done = [i \in 0 .. Len(s) |->
            IF i = 0 THEN <<>> ELSE Resolve(done[i - 1], s[i])]
    <3>1. PICK done : Resolves(done, s, Len(s))
      BY <1>2, ResolvedExists
    <3> QED
      BY <3>1, Zenon DEF Resolves, OneMore
  <2>2. r = [i \in 0 .. Len(s) |-> IF i = 0 THEN <<>> ELSE Resolve(r[i - 1], s[i])]
    BY <2>1, Zenon
  <2> QED
    BY <2>2, Zenon DEF Resolves, OneMore
<1> HIDE DEF r
<1>4. r[0] = <<>> /\ \A i \in 1 .. Len(s) : r[i] = OneMore(r, s, i)
  BY <1>2, <1>3 DEF Resolves
<1> QED
  BY <1>1, <1>4 DEF OneMore

LEMMA FrontIs ==
    ASSUME NEW T, NEW s \in Seq(T), s # <<>>
    PROVE  /\ Len(s) \in Nat \ {0} /\ Front(s) \in Seq(T) /\ Len(Front(s)) = Len(s) - 1
           /\ \A i \in 1 .. Len(s) - 1 : Front(s)[i] = s[i]
           /\ Last(s) = s[Len(s)] /\ Last(s) \in T
<1>1. Len(s) \in Nat \ {0} /\ \A i \in 1 .. Len(s) : s[i] \in T
  BY LenProperties, EmptySeq, ElementOfSeq
<1>2. \A i \in 1 .. Len(s) - 1 : s[i] \in T
  BY <1>1
<1>3. Front(s) = SubSeq(s, 1, Len(s) - 1)
  BY DEF Front
<1>4. /\ Front(s) \in Seq(T) /\ Len(Front(s)) = Len(s) - 1
      /\ \A i \in 1 .. Len(s) - 1 : Front(s)[i] = s[i]
  <2>1. PICK n \in Nat : n = Len(s) - 1
    BY <1>1
  <2>2. /\ SubSeq(s, 1, n) \in Seq(T) /\ Len(SubSeq(s, 1, n)) = IF 1 <= n THEN (n - 1) + 1 ELSE 0
        /\ \A i \in 1 .. (n - 1) + 1 : SubSeq(s, 1, n)[i] = s[(1 + i) - 1]
    BY <1>2, <2>1, SubSeqProperties
  <2>3. Len(SubSeq(s, 1, n)) = n /\ \A i \in 1 .. n : SubSeq(s, 1, n)[i] = s[i]
    BY <2>1, <2>2
  <2> QED
    BY <1>3, <2>1, <2>2, <2>3
<1> QED
  BY <1>1, <1>4 DEF Last

\* What is left has no "..".
LEMMA ResolvedType ==
    ASSUME NEW T, NEW s \in Seq(T)
    PROVE  \A i \in 0 .. Len(s) : Resolved(s)[i] \in Seq(T \ {Up})
<1> DEFINE r == Resolved(s)
           Good == {n \in Nat : n <= Len(s) => r[n] \in Seq(T \ {Up})}
<1>1. r[0] = <<>> /\ \A i \in 1 .. Len(s) : r[i] = Resolve(r[i - 1], s[i])
  BY ResolvedIs
<1>2. Len(s) \in Nat /\ \A i \in 1 .. Len(s) : s[i] \in T
  BY LenProperties, ElementOfSeq
<1> HIDE DEF r
<1>3. 0 \in Good
  BY <1>1, EmptySeq
<1>4. ASSUME NEW n \in Nat, n \in Good PROVE n + 1 \in Good
  <2> SUFFICES ASSUME n + 1 <= Len(s) PROVE r[n + 1] \in Seq(T \ {Up})
    OBVIOUS
  <2>1. r[n] \in Seq(T \ {Up}) /\ n + 1 \in 1 .. Len(s)
    BY <1>2, <1>4
  <2>2. r[n + 1] = Resolve(r[n], s[n + 1])
    BY <1>1, <2>1
  <2>3. CASE s[n + 1] # Up
    BY <1>2, <2>1, <2>2, <2>3, AppendProperties DEF Resolve
  <2>4. CASE s[n + 1] = Up /\ r[n] # <<>>
    BY <2>1, <2>2, <2>4, FrontIs DEF Resolve
  <2>5. CASE s[n + 1] = Up /\ r[n] = <<>>
    BY <2>1, <2>2, <2>5 DEF Resolve
  <2> QED
    BY <2>3, <2>4, <2>5
<1>5. Nat \subseteq Good
  <2> HIDE DEF Good
  <2> QED
    BY <1>3, <1>4, NatInduct
<1> QED
  BY <1>2, <1>5 DEF r

\* Whoever never takes the first segment keeps it.
LEMMA ResolvedRoot ==
    ASSUME NEW T, NEW s \in Seq(T), \A i \in 1 .. Len(s) : Resolved(s)[i] # <<>>
    PROVE  \A i \in 1 .. Len(s) : Resolved(s)[i][1] = s[1]
<1> DEFINE r == Resolved(s)
           Good == {n \in Nat : n + 1 <= Len(s) => r[n + 1][1] = s[1]}
<1>1. r[0] = <<>> /\ \A i \in 1 .. Len(s) : r[i] = Resolve(r[i - 1], s[i])
  BY ResolvedIs
<1>2. Len(s) \in Nat /\ \A i \in 1 .. Len(s) : s[i] \in T
  BY LenProperties, ElementOfSeq
<1>3. \A i \in 0 .. Len(s) : r[i] \in Seq(T \ {Up})
  BY ResolvedType
<1>r. \A i \in 1 .. Len(s) : r[i] # <<>>
  OBVIOUS
<1> HIDE DEF r
<1>4. 0 \in Good
  <2> SUFFICES ASSUME 1 <= Len(s) PROVE r[1][1] = s[1]
    OBVIOUS
  <2>1. 1 \in 1 .. Len(s) /\ r[1] = Resolve(r[0], s[1])
    BY <1>1, <1>2
  <2>2. r[1] = Append(<<>>, s[1])
    BY <1>1, <1>r, <2>1 DEF Resolve
  <2> QED
    BY <2>2
<1>5. ASSUME NEW n \in Nat, n \in Good PROVE n + 1 \in Good
  <2> SUFFICES ASSUME n + 2 <= Len(s) PROVE r[n + 2][1] = s[1]
    OBVIOUS
  <2>1. /\ r[n + 1][1] = s[1] /\ r[n + 1] # <<>> /\ r[n + 2] # <<>>
        /\ r[n + 1] \in Seq(T \ {Up}) /\ s[n + 2] \in T /\ n + 2 \in 1 .. Len(s)
    BY <1>2, <1>3, <1>5, <1>r
  <2>2. r[n + 2] = Resolve(r[n + 1], s[n + 2])
    BY <1>1, <2>1
  <2>3. Len(r[n + 1]) \in Nat \ {0}
    BY <2>1, FrontIs
  <2>4. CASE s[n + 2] # Up
    <3>1. r[n + 2] = Append(r[n + 1], s[n + 2])
      BY <2>2, <2>4 DEF Resolve
    <3>2. 1 \in 1 .. Len(r[n + 1])
      BY <2>3
    <3>3. Append(r[n + 1], s[n + 2])[1] = r[n + 1][1]
      BY <2>1, <2>4, <3>2, AppendProperties
    <3> QED
      BY <2>1, <3>1, <3>3
  <2>5. CASE s[n + 2] = Up
    <3>1. r[n + 2] = Front(r[n + 1])
      BY <2>1, <2>2, <2>5 DEF Resolve
    <3>2. Front(r[n + 1]) \in Seq(T \ {Up}) /\ Front(r[n + 1]) # <<>>
      BY <2>1, <3>1, FrontIs
    <3>3. Len(Front(r[n + 1])) \in Nat \ {0}
      BY <3>2, FrontIs
    <3>4. 1 \in 1 .. Len(r[n + 1]) - 1
      BY <2>1, <2>3, <3>3, FrontIs
    <3>r. PICK R : R = T \ {Up}
      OBVIOUS
    <3>5. PICK a \in Seq(R) : a = r[n + 1] /\ a # <<>>
      BY <2>1, <3>r
    <3>6. \A i \in 1 .. Len(a) - 1 : Front(a)[i] = a[i]
      BY <3>5, FrontIs
    <3>7. Front(a)[1] = a[1]
      BY <3>4, <3>5, <3>6
    <3> QED
      BY <2>1, <3>1, <3>5, <3>7
  <2> QED
    BY <2>4, <2>5
<1>6. Nat \subseteq Good
  <2> HIDE DEF Good
  <2> QED
    BY <1>4, <1>5, NatInduct
<1>7. ASSUME NEW i \in 1 .. Len(s) PROVE r[i][1] = s[1]
  <2>1. i - 1 \in Nat /\ (i - 1) + 1 = i /\ i <= Len(s)
    BY <1>2
  <2> QED
    BY <1>6, <2>1
<1> QED
  BY <1>7 DEF r

\* Without ".." a path is taken as it is.
LEMMA ResolvedPlain ==
    ASSUME NEW T, NEW s \in Seq(T), ~ HasDots(s)
    PROVE  Resolved(s)[Len(s)] = s
<1> DEFINE r == Resolved(s)
           Good == {n \in Nat : n <= Len(s) => r[n] = SubSeq(s, 1, n)}
<1>1. r[0] = <<>> /\ \A i \in 1 .. Len(s) : r[i] = Resolve(r[i - 1], s[i])
  BY ResolvedIs
<1>2. /\ Len(s) \in Nat /\ DOMAIN s = 1 .. Len(s)
      /\ \A i \in 1 .. Len(s) : s[i] \in T /\ s[i] # Up
  BY LenProperties, ElementOfSeq DEF HasDots, Range
<1> HIDE DEF r
<1>3. 0 \in Good
  <2>1. SubSeq(s, 1, 0) = <<>>
    BY SubSeqEmpty
  <2> QED
    BY <1>1, <2>1
<1>4. ASSUME NEW n \in Nat, n \in Good PROVE n + 1 \in Good
  <2> SUFFICES ASSUME n + 1 <= Len(s) PROVE r[n + 1] = SubSeq(s, 1, n + 1)
    OBVIOUS
  <2>1. PICK m \in Nat : m = n + 1
    OBVIOUS
  <2>2. m \in 1 .. Len(s) /\ m - 1 = n /\ r[n] = SubSeq(s, 1, n)
    BY <1>2, <1>4, <2>1
  <2>3. r[m] = Append(r[n], s[m])
    BY <1>1, <1>2, <2>2 DEF Resolve
  <2>4. SubSeq(s, 1, n) \in Seq(T)
    <3>1. \A i \in 1 .. n : s[i] \in T
      BY <1>2, <2>1, <2>2
    <3> QED
      BY <3>1, SubSeqProperties
  <2>5. SubSeq(s, 1, m) = SubSeq(s, 1, n) \o <<s[m]>>
    <3>1. 1 \in 1 .. Len(s) /\ m \in 1 .. Len(s)
      BY <1>2, <2>2
    <3> QED
      BY <2>2, <3>1, SubSeqRecursiveSecond
  <2>6. Append(SubSeq(s, 1, n), s[m]) = SubSeq(s, 1, n) \o <<s[m]>>
    BY <1>2, <2>2, <2>4, AppendIsConcat
  <2> QED
    BY <2>1, <2>2, <2>3, <2>5, <2>6
<1>5. Nat \subseteq Good
  <2> HIDE DEF Good
  <2> QED
    BY <1>3, <1>4, NatInduct
<1>6. SubSeq(s, 1, Len(s)) = s
  BY SubSeqFull
<1> QED
  BY <1>2, <1>5, <1>6 DEF r

-----------------------------------------------------------------------------
(* Paths *)

Paths == Seq(Strings) \ {<<>>}

LEMMA Segment == Blank \in Strings /\ Up \in Strings /\ Blank # Up
<1>1. Blank # Up
  BY Zenon DEF Blank, Up
<1> QED
  BY <1>1, LinkExtractionAssumption DEF LinkExtractionAssumption

LEMMA SmallPaths ==
    /\ Empty \in Paths /\ Root \in Paths /\ Rooted(Root) /\ ~ Rooted(Empty)
    /\ ~ HasDots(Empty) /\ ~ HasDots(Root) /\ <<>> \in Seq(Strings) /\ ~ HasDots(<<>>)
<1>1. Empty \in Seq(Strings) /\ Root \in Seq(Strings) /\ <<>> \in Seq(Strings)
  BY Segment DEF Empty, Root
<1>2. Empty # <<>> /\ Root # <<>>
  BY DEF Empty, Root
<1>3. Rooted(Root) /\ ~ Rooted(Empty)
  BY DEF Empty, Root, Rooted
<1>4. ~ HasDots(Empty) /\ ~ HasDots(Root) /\ ~ HasDots(<<>>)
  <2>1. Range(Empty) = {Blank} /\ Range(Root) = {Blank} /\ Range(<<>>) = {}
    BY DEF Empty, Root, Range
  <2> QED
    BY <2>1, Segment DEF HasDots
<1> QED
  BY <1>1, <1>2, <1>3, <1>4 DEF Paths

LEMMA NoDots ==
    ASSUME NEW s
    PROVE  s \in Seq(Strings \ {Up}) <=> s \in Seq(Strings) /\ ~ HasDots(s)
<1>1. ASSUME s \in Seq(Strings \ {Up}) PROVE s \in Seq(Strings) /\ ~ HasDots(s)
  <2>1. Len(s) \in Nat /\ DOMAIN s = 1 .. Len(s) /\ \A i \in 1 .. Len(s) : s[i] \in Strings \ {Up}
    BY <1>1, LenProperties, ElementOfSeq
  <2> QED
    BY <1>1, <2>1 DEF HasDots, Range
<1>2. ASSUME s \in Seq(Strings), ~ HasDots(s) PROVE s \in Seq(Strings \ {Up})
  <2>1. Len(s) \in Nat /\ DOMAIN s = 1 .. Len(s) /\ \A i \in 1 .. Len(s) : s[i] \in Strings
    BY <1>2, LenProperties, ElementOfSeq
  <2>2. \A i \in 1 .. Len(s) : s[i] \in Strings \ {Up}
    BY <1>2, <2>1 DEF HasDots, Range
  <2> QED
    BY <1>2, <2>1, <2>2, SeqDef
<1> QED
  BY <1>1, <1>2

LEMMA NormalType ==
    ASSUME NEW s \in Paths
    PROVE  Normal(s) \in Paths /\ ~ HasDots(Normal(s))
<1> DEFINE done == Resolved(s)[Len(s)]
           path == IF Last(s) = Up THEN Append(done, Blank) ELSE done
<1>1. s \in Seq(Strings) /\ Len(s) \in Nat
  BY LenProperties DEF Paths
<1>2. done \in Seq(Strings \ {Up})
  BY <1>1, ResolvedType
<1>3. path \in Seq(Strings \ {Up})
  <2> HIDE DEF done
  <2>1. Blank \in Strings \ {Up}
    BY Segment
  <2> QED
    BY <1>2, <2>1, AppendProperties
<1>4. Normal(s) = IF path \in {<<>>, Empty} THEN Root ELSE path
  BY DEF Normal
<1> HIDE DEF path
<1>5. path \in Seq(Strings) /\ ~ HasDots(path)
  BY <1>3, NoDots
<1> QED
  BY <1>4, <1>5, SmallPaths DEF Paths

\* A path without ".." is normal.
LEMMA NormalPlain ==
    ASSUME NEW s \in Paths, ~ HasDots(s), s # Empty
    PROVE  Normal(s) = s
<1>1. s \in Seq(Strings) /\ s # <<>>
  BY DEF Paths
<1>2. Resolved(s)[Len(s)] = s
  BY <1>1, ResolvedPlain
<1>3. Last(s) # Up
  <2>1. Len(s) \in Nat \ {0} /\ DOMAIN s = 1 .. Len(s) /\ Last(s) = s[Len(s)]
    BY <1>1, FrontIs, LenProperties
  <2> QED
    BY <2>1 DEF HasDots, Range
<1> QED
  BY <1>1, <1>2, <1>3 DEF Normal

\* What does not climb over the root stays rooted.
LEMMA NormalRooted ==
    ASSUME NEW s \in Paths, s[1] = Blank, \A i \in DOMAIN s : Resolved(s)[i] # <<>>
    PROVE  Rooted(Normal(s))
<1> DEFINE done == Resolved(s)[Len(s)]
           path == IF Last(s) = Up THEN Append(done, Blank) ELSE done
<1>1. /\ s \in Seq(Strings) /\ Len(s) \in Nat \ {0} /\ DOMAIN s = 1 .. Len(s)
      /\ Len(s) \in 1 .. Len(s) /\ Len(s) \in 0 .. Len(s)
  BY FrontIs, LenProperties DEF Paths
<1>2. done \in Seq(Strings \ {Up}) /\ done # <<>> /\ done[1] = Blank
  BY <1>1, ResolvedType, ResolvedRoot
<1>3. Normal(s) = IF path \in {<<>>, Empty} THEN Root ELSE path
  BY DEF Normal
<1> HIDE DEF done
<1>4. Len(done) \in Nat \ {0}
  BY <1>2, FrontIs
<1>5. CASE Last(s) = Up
  <2>1. path = Append(done, Blank)
    BY <1>5
  <2>2. Blank \in Strings \ {Up} /\ 1 \in 1 .. Len(done)
    BY <1>4, Segment
  <2>3. Len(path) = Len(done) + 1 /\ path[1] = Blank
    BY <1>2, <2>1, <2>2, AppendProperties
  <2>4. Rooted(path)
    BY <1>4, <2>3 DEF Rooted
  <2>5. path # <<>> /\ path # Empty
    BY <1>4, <2>3 DEF Empty
  <2> QED
    BY <1>3, <2>4, <2>5
<1>6. CASE Last(s) # Up
  <2>1. path = done
    BY <1>6
  <2>2. CASE Len(done) = 1
    <3>1. done = Empty
      <4>1. done = [i \in 1 .. Len(done) |-> done[i]]
        BY <1>2
      <4>2. DOMAIN done = {1} /\ done = <<done[1]>>
        BY <1>2, <2>2
      <4> QED
        BY <1>2, <4>2 DEF Empty
    <3> QED
      BY <1>3, <2>1, <3>1, SmallPaths
  <2>3. CASE Len(done) > 1
    <3>1. Len(Empty) = 1 /\ ~ (1 > 1)
      BY DEF Empty
    <3>2. done # Empty
      BY <2>3, <3>1, Zenon
    <3>3. Rooted(done)
      BY <1>2, <2>3 DEF Rooted
    <3> QED
      BY <1>2, <1>3, <2>1, <3>2, <3>3
  <2>4. Len(done) = 1 \/ Len(done) > 1
    <3>1. PICK n \in Nat : n = Len(done) /\ n # 0
      BY <1>4
    <3>2. n = 1 \/ n > 1
      BY <3>1
    <3> QED
      BY <3>1, <3>2, Zenon
  <2> QED
    BY <2>2, <2>3, <2>4, Zenon
<1> QED
  BY <1>5, <1>6

LEMMA SegmentsType ==
    ASSUME NEW base \in Paths, NEW path \in Paths
    PROVE  /\ Segments(base, path) \in Paths
           /\ Rooted(path) => Segments(base, path) = path
           /\ Rooted(base) => Segments(base, path)[1] = Blank
<1> DEFINE dir == IF Last(base) = Blank THEN base ELSE Front(base)
           all == dir \o path
           mid == Without(Front(Tail(all)), {Blank})
<1>1. /\ base \in Seq(Strings) /\ base # <<>> /\ path \in Seq(Strings) /\ path # <<>>
      /\ Len(path) \in Nat \ {0} /\ Len(base) \in Nat \ {0}
  BY FrontIs DEF Paths
<1>2. dir \in Seq(Strings) /\ Len(dir) \in Nat
  BY <1>1, FrontIs, LenProperties
<1>3. Rooted(base) => Len(dir) # 0 /\ dir[1] = Blank
  <2>1. CASE dir = base
    BY <1>1, <2>1 DEF Rooted
  <2>2. CASE dir = Front(base)
    <3>1. /\ Len(dir) = Len(base) - 1 /\ \A i \in 1 .. Len(base) - 1 : dir[i] = base[i]
      BY <1>1, <2>2, FrontIs
    <3> QED
      BY <1>1, <3>1 DEF Rooted
  <2> QED
    BY <2>1, <2>2
<1> HIDE DEF dir
<1>4. /\ all \in Seq(Strings) /\ Len(all) = Len(dir) + Len(path)
      /\ \A i \in 1 .. Len(all) : all[i] = IF i <= Len(dir) THEN dir[i] ELSE path[i - Len(dir)]
  BY <1>1, <1>2, ConcatProperties
<1>5. Segments(base, path) = IF Rooted(path) \/ Len(all) = 1 THEN path
                             ELSE <<Head(all)>> \o mid \o <<Last(all)>>
  BY DEF Segments, dir
<1> HIDE DEF all
<1>6. CASE Rooted(path) \/ Len(all) = 1
  <2>1. Len(all) = 1 => Len(dir) = 0
    BY <1>1, <1>2, <1>4
  <2>2. Rooted(base) => path[1] = Blank
    BY <1>3, <1>6, <2>1 DEF Rooted
  <2> QED
    BY <1>5, <1>6, <2>2
<1>7. CASE ~ Rooted(path) /\ Len(all) # 1
  <2>1. Len(all) \in Nat /\ Len(all) > 1 /\ all # <<>>
    BY <1>1, <1>2, <1>4, <1>7, EmptySeq
  <2>2. Head(all) = all[1] /\ Head(all) \in Strings /\ Tail(all) \in Seq(Strings)
        /\ Len(Tail(all)) = Len(all) - 1
    BY <1>4, <2>1, HeadTailProperties
  <2>3. Tail(all) # <<>>
    <3>1. Len(Tail(all)) # 0
      BY <2>1, <2>2
    <3>2. Len(<<>>) = 0
      OBVIOUS
    <3> QED
      BY <3>1, <3>2, Zenon
  <2>4. mid \in Seq(Strings)
    BY <2>2, <2>3, FrontIs, WithoutType
  <2> HIDE DEF mid
  <2>5. Last(all) \in Strings
    BY <1>4, <2>1, FrontIs
  <2>6. /\ <<Head(all)>> \in Seq(Strings) /\ Len(<<Head(all)>>) = 1
        /\ <<Head(all)>>[1] = Head(all) /\ <<Last(all)>> \in Seq(Strings)
    BY <2>2, <2>5
  <2>7. PICK h \in Seq(Strings), l \in Seq(Strings) :
           h = <<Head(all)>> /\ l = <<Last(all)>> /\ Len(h) = 1 /\ h[1] = Head(all)
    BY <2>6
  <2>8. h \o mid \in Seq(Strings) /\ Len(h \o mid) = 1 + Len(mid) /\ Len(mid) \in Nat
        /\ (h \o mid)[1] = h[1]
    BY <2>4, <2>7, ConcatProperties, LenProperties
  <2>9. PICK q \in Seq(Strings) : q = h \o mid
    BY <2>8
  <2>10. /\ q \o l \in Seq(Strings) /\ Len(q \o l) = Len(q) + Len(l) /\ Len(l) \in Nat
         /\ (q \o l)[1] = q[1]
    BY <2>7, <2>8, <2>9, ConcatProperties, LenProperties
  <2>11. Segments(base, path) = q \o l
    BY <1>5, <1>7, <2>7, <2>9
  <2>12. q \o l # <<>>
    BY <2>8, <2>9, <2>10, EmptySeq
  <2>13. Rooted(base) => all[1] = Blank
    BY <1>2, <1>3, <1>4, <2>1
  <2> QED
    BY <1>7, <2>2, <2>7, <2>8, <2>9, <2>10, <2>11, <2>12, <2>13 DEF Paths
<1> QED
  BY <1>6, <1>7

-----------------------------------------------------------------------------
(* Urls *)

LEMMA SitePathType == SitePath \in Paths
BY LinkExtractionAssumption DEF LinkExtractionAssumption, Paths, Rooted, Empty

LEMMA PathOfType ==
    ASSUME NEW p \in Urls
    PROVE  /\ PathOf(p) \in Paths
           /\ SitePath # Empty /\ ~ HasDots(SitePath) => ~ HasDots(PathOf(p))
<1>1. SitePath \in Paths /\ p.subpath \in Paths
  BY SitePathType DEF Paths, Urls
<1>2. CASE SitePath = Empty
  BY <1>1, <1>2 DEF PathOf
<1>3. CASE SitePath # Empty /\ p.subpath = Empty
  BY <1>1, <1>3 DEF PathOf
<1>4. CASE SitePath # Empty /\ p.subpath # Empty
  <2>1. PathOf(p) = Normal(Segments(SitePath, p.subpath))
    BY <1>4 DEF PathOf
  <2>2. Segments(SitePath, p.subpath) \in Paths
    BY <1>1, SegmentsType
  <2> QED
    BY <2>1, <2>2, NormalType
<1> QED
  BY <1>2, <1>3, <1>4

LEMMA JoinType ==
    ASSUME NEW base \in Urls, NEW r, IsReference(r)
    PROVE  Join(base, r) \in Urls
<1>1. /\ r.path \in Paths /\ r.params \in Strings /\ base.subpath \in Paths
      /\ base.params \in Strings
  BY DEF IsReference, Urls, Paths
<1>2. CASE r.host # "none" \/ base = [subpath |-> Empty, params |-> Blank]
  <2>1. Join(base, r) = [subpath |-> r.path, params |-> r.params]
             \/ Join(base, r) = [base EXCEPT !.params = IF r.params = Blank THEN @ ELSE r.params]
    BY <1>2 DEF Join
  <2> QED
    BY <1>1, <2>1 DEF Urls, Paths
<1>3. CASE r.host = "none" /\ base # [subpath |-> Empty, params |-> Blank] /\ r.path = Empty
  <2>1. Join(base, r) = [base EXCEPT !.params = IF r.params = Blank THEN @ ELSE r.params]
    BY <1>3 DEF Join
  <2> QED
    BY <1>1, <2>1 DEF Urls, Paths
<1>4. CASE r.host = "none" /\ base # [subpath |-> Empty, params |-> Blank] /\ r.path # Empty
  <2>1. Join(base, r)
          = [subpath |-> Normal(Segments(base.subpath, r.path)), params |-> r.params]
    BY <1>4 DEF Join
  <2>2. Normal(Segments(base.subpath, r.path)) \in Paths
    BY <1>1, SegmentsType, NormalType
  <2> QED
    BY <1>1, <2>1, <2>2 DEF Urls, Paths
<1> QED
  BY <1>2, <1>3, <1>4

LEMMA TargetType ==
    ASSUME NEW p \in Urls, NEW r, IsReference(r)
    PROVE  get_relative_url(p) \in Urls /\ Target(p, r) \in Urls
<1>1. get_relative_url(p) \in Urls
  BY PathOfType DEF get_relative_url, Urls, Paths
<1> QED
  BY <1>1, JoinType DEF Target

\* A rooted path without ".." is the path of its page, whatever the site's.
LEMMA PathOfRooted ==
    ASSUME NEW p \in Urls, Rooted(p.subpath), ~ HasDots(p.subpath)
    PROVE  PathOf(p) = p.subpath
<1>1. SitePath \in Paths /\ p.subpath \in Paths /\ p.subpath # Empty
  <2>1. p.subpath # Empty
    BY SmallPaths, Zenon
  <2> QED
    BY <2>1, SitePathType DEF Paths, Urls
<1>2. CASE SitePath = Empty
  BY <1>1, <1>2 DEF PathOf
<1>3. CASE SitePath # Empty
  <2>1. PathOf(p) = Normal(Segments(SitePath, p.subpath))
    BY <1>1, <1>3 DEF PathOf
  <2>2. Segments(SitePath, p.subpath) = p.subpath
    BY <1>1, SegmentsType
  <2> QED
    BY <1>1, <2>1, <2>2, NormalPlain
<1> QED
  BY <1>2, <1>3

LEMMA FullOfRooted ==
    ASSUME NEW p \in Urls, Rooted(p.subpath), ~ HasDots(p.subpath)
    PROVE  get_relative_url(p) = p /\ get_full_url(p) = p
<1>1. PathOf(p) = p.subpath
  BY PathOfRooted
<1>2. get_relative_url(p) = p
  BY <1>1 DEF get_relative_url, Urls
<1> QED
  BY <1>2 DEF get_full_url, Slashed, Urls

\* A rooted reference without ".." leads to the page with its path.
LEMMA RootedTarget ==
    ASSUME NEW p \in Urls, NEW r, IsReference(r), Rooted(r.path), ~ HasDots(r.path)
    PROVE  Target(p, r) = [subpath |-> r.path, params |-> r.params]
<1> DEFINE base == get_relative_url(p)
<1>1. base \in Urls
  BY TargetType
<1> HIDE DEF base
<1>2. r.path \in Paths /\ base.subpath \in Paths /\ r.path # Empty
  BY <1>1, SmallPaths DEF IsReference, Urls, Paths
<1>3. CASE r.host # "none" \/ base = [subpath |-> Empty, params |-> Blank]
  BY <1>2, <1>3 DEF Target, Join, base
<1>4. CASE r.host = "none" /\ base # [subpath |-> Empty, params |-> Blank]
  <2>1. Join(base, r)
          = [subpath |-> Normal(Segments(base.subpath, r.path)), params |-> r.params]
    BY <1>2, <1>4 DEF Join
  <2>2. Segments(base.subpath, r.path) = r.path
    BY <1>2, SegmentsType
  <2> QED
    BY <1>2, <2>1, <2>2, NormalPlain DEF Target, base
<1> QED
  BY <1>3, <1>4

-----------------------------------------------------------------------------
(* The invariant: links come from references that get_all_valid_links took. *)

LinkInv ==
    \A l \in links :
      /\ l.from \in pages /\ l.to \in pages
      /\ IsReference(l.ref) /\ l.to = Target(l.from, l.ref)
      /\ ~ LinksToItself(l.from, l.ref) /\ is_local(l.ref) /\ CanFetch(l.ref.path)

LEMMA LinkInit == Init => TypeOK /\ LinkInv
<1> SUFFICES ASSUME Init PROVE TypeOK /\ LinkInv
  OBVIOUS
<1>1. Seed \in Urls
  BY LinkExtractionAssumption, Segment
  DEF LinkExtractionAssumption, Seed, Urls, Empty, Rooted
<1> QED
  BY <1>1 DEF Init, TypeOK, LinkInv

LEMMA LinkStep == TypeOK /\ LinkInv /\ [Next]_vars => TypeOK' /\ LinkInv'
<1> SUFFICES ASSUME TypeOK, LinkInv, [Next]_vars PROVE TypeOK' /\ LinkInv'
  OBVIOUS
<1>1. ASSUME NEW p \in pages, NEW body \in Bodies, UpdateLinks(p, body)
      PROVE  TypeOK' /\ LinkInv'
  <2> DEFINE new == {[from |-> p, ref |-> r, to |-> Target(p, r)] : r \in ValidLinks(p, body)}
  <2>1. pages' = pages \cup {l.to : l \in new} /\ links' = {l \in links : l.from # p} \cup new
    BY <1>1 DEF UpdateLinks
  <2>2. ASSUME NEW r \in ValidLinks(p, body)
        PROVE  /\ IsReference(r) /\ ~ LinksToItself(p, r) /\ is_local(r) /\ CanFetch(r.path)
               /\ Target(p, r) \in Urls
    <3>1. r \in body /\ ~ LinksToItself(p, r) /\ is_local(r) /\ CanFetch(r.path)
      BY DEF ValidLinks, AllLinks
    <3>2. IsReference(r)
      BY <1>1, <3>1, LinkExtractionAssumption DEF LinkExtractionAssumption
    <3> QED
      BY <3>1, <3>2, TargetType DEF TypeOK
  <2>3. \A l \in new : /\ l.from = p /\ l.to \in Urls /\ IsReference(l.ref)
                       /\ l.to = Target(l.from, l.ref)
                       /\ ~ LinksToItself(l.from, l.ref) /\ is_local(l.ref)
                       /\ CanFetch(l.ref.path)
    BY <2>2
  <2> HIDE DEF new
  <2>4. pages \subseteq pages' /\ pages' \subseteq Urls /\ \A l \in new : l.to \in pages'
    BY <2>1, <2>3 DEF TypeOK
  <2>5. TypeOK'
    BY <2>1, <2>3, <2>4 DEF TypeOK, LinkInv
  <2>6. LinkInv'
    BY <2>1, <2>3, <2>4 DEF LinkInv
  <2> QED
    BY <2>5, <2>6
<1>2. CASE UNCHANGED vars
  BY <1>2 DEF TypeOK, LinkInv, vars
<1> QED
  BY <1>1, <1>2 DEF Next

-----------------------------------------------------------------------------
(* Theorems *)

\* Whatever the bodies hold, every page has a path and parameters, and both ends
\* of a link are pages.
THEOREM TypeCorrect == Spec => []TypeOK
<1> QED
  BY LinkInit, LinkStep, PTL DEF Spec

LEMMA LinkInvHolds == Spec => [](TypeOK /\ LinkInv)
<1> QED
  BY LinkInit, LinkStep, PTL DEF Spec

LEMMA RobotsHere == TypeOK /\ LinkInv => RobotsAtRoot
<1> SUFFICES ASSUME TypeOK, LinkInv, NEW l \in links, Rooted(l.ref.path), ~ HasDots(l.ref.path)
             PROVE  CanFetch(PathOf(l.to))
  BY DEF RobotsAtRoot
<1>1. /\ l.from \in Urls /\ l.to \in Urls /\ IsReference(l.ref)
      /\ l.to = Target(l.from, l.ref) /\ CanFetch(l.ref.path)
  BY DEF TypeOK, LinkInv
<1>2. l.to = [subpath |-> l.ref.path, params |-> l.ref.params]
  BY <1>1, RootedTarget
<1>3. l.to.subpath = l.ref.path
  BY <1>2
<1>4. PathOf(l.to) = l.ref.path
  BY <1>1, <1>3, PathOfRooted
<1> QED
  BY <1>1, <1>4

\* What robots.txt excludes, no reference leads to that begins at the root and
\* has no ".." in it, on any site and for any rules.
THEOREM RobotsKeptAtRoot == Spec => []RobotsAtRoot
<1> QED
  BY LinkInvHolds, RobotsHere, PTL

\* The url of an ordinary link's page is what is stored of it.
LEMMA OrdinaryTarget ==
    ASSUME SitePath # Empty, ~ HasDots(SitePath), NEW p \in Urls, NEW r,
           IsReference(r), is_local(r), ~ Climbs(p, r), ~ Raw(r), Rooted(PathOf(p))
    PROVE  /\ Target(p, r) \in Urls
           /\ Rooted(Target(p, r).subpath) /\ ~ HasDots(Target(p, r).subpath)
           /\ get_full_url(p) = get_relative_url(p)
<1> DEFINE base == get_relative_url(p)
<1>1. /\ base \in Urls /\ base.subpath = PathOf(p) /\ ~ HasDots(PathOf(p))
      /\ Target(p, r) = Join(base, r) /\ Target(p, r) \in Urls
  <2>1. base.subpath = PathOf(p)
    BY DEF get_relative_url, Urls
  <2> QED
    BY <2>1, TargetType, PathOfType DEF Target
<1>2. get_full_url(p) = base
  <2>1. Slashed(base) = base
    BY <1>1 DEF Slashed, Urls
  <2> QED
    BY <2>1 DEF get_full_url
<1> HIDE DEF base
<1>3. /\ r.path \in Paths /\ r.params \in Strings /\ base.subpath \in Paths
      /\ base # [subpath |-> Empty, params |-> Blank]
  <2>1. base.subpath # Empty
    BY <1>1, SmallPaths, Zenon
  <2> QED
    BY <1>1, <2>1 DEF IsReference, Urls, Paths
<1>4. CASE r.host # "none"
  <2>1. Rooted(r.path) /\ ~ HasDots(r.path)
    BY <1>4 DEF IsReference, is_local, Raw
  <2>2. Target(p, r).subpath = r.path
    BY <1>4, <1>1 DEF Join
  <2> QED
    BY <1>1, <1>2, <2>1, <2>2 DEF base
<1>5. CASE r.host = "none" /\ r.path = Empty
  <2>1. Target(p, r) = [base EXCEPT !.params = IF r.params = Blank THEN @ ELSE r.params]
    BY <1>1, <1>3, <1>5 DEF Join
  <2>2. Target(p, r).subpath = base.subpath
    BY <1>1, <2>1 DEF Urls
  <2> QED
    BY <1>1, <1>2, <2>2 DEF base
<1>6. CASE r.host = "none" /\ r.path # Empty
  <2> DEFINE segs == Segments(base.subpath, r.path)
  <2>1. Target(p, r).subpath = Normal(segs)
    BY <1>1, <1>3, <1>6 DEF Join
  <2>2. segs \in Paths /\ segs[1] = Blank
    BY <1>1, <1>3, SegmentsType
  <2>3. \A i \in DOMAIN segs : Resolved(segs)[i] # <<>>
    BY <1>2 DEF Climbs
  <2> HIDE DEF segs
  <2>4. Rooted(Normal(segs)) /\ ~ HasDots(Normal(segs))
    BY <2>2, <2>3, NormalRooted, NormalType
  <2> QED
    BY <1>1, <1>2, <2>1, <2>4 DEF base
<1> QED
  BY <1>4, <1>5, <1>6

LEMMA OrdinaryLink ==
    ASSUME SitePath # Empty, ~ HasDots(SitePath), TypeOK, LinkInv,
           NEW l \in links, Ordinary(l)
    PROVE  /\ get_full_url(l.to) = l.to
           /\ FullUrlOf(l.from, l.ref) = l.to /\ Browsed(l.from, l.ref) = l.to
<1>1. /\ l.from \in Urls /\ IsReference(l.ref) /\ is_local(l.ref)
      /\ l.to = Target(l.from, l.ref)
  BY DEF TypeOK, LinkInv
<1>2. /\ l.to \in Urls /\ Rooted(l.to.subpath) /\ ~ HasDots(l.to.subpath)
      /\ get_full_url(l.from) = get_relative_url(l.from)
  BY <1>1, OrdinaryTarget DEF Ordinary
<1>3. get_full_url(l.to) = l.to
  BY <1>2, FullOfRooted
<1>4. FullUrlOf(l.from, l.ref) = l.to
  <2>1. FullUrlOf(l.from, l.ref) = Slashed(l.to)
    BY <1>1, <1>2 DEF FullUrlOf, Target
  <2>2. Slashed(l.to) = l.to
    BY <1>2 DEF Slashed, Urls
  <2> QED
    BY <2>1, <2>2
<1>5. l.to.subpath # Empty
  BY <1>2, SmallPaths, Zenon
<1> QED
  BY <1>3, <1>4, <1>5 DEF Browsed

LEMMA LinksHere ==
    ASSUME SitePath # Empty, ~ HasDots(SitePath)
    PROVE  TypeOK /\ LinkInv => LinksFollowed /\ OneAddress /\ SelfByFragment
<1> SUFFICES ASSUME TypeOK, LinkInv PROVE LinksFollowed /\ OneAddress /\ SelfByFragment
  OBVIOUS
<1>1. LinksFollowed
  <2>1. ASSUME NEW l \in links, Ordinary(l)
        PROVE  get_full_url(l.to) = Browsed(l.from, l.ref)
    BY <2>1, OrdinaryLink
  <2> QED
    BY <2>1 DEF LinksFollowed
<1>2. OneAddress
  <2>1. get_full_url(Seed) = Seed
    <3>1. Seed \in Urls /\ Seed.subpath = SitePath
      BY DEF TypeOK, Seed
    <3>2. Rooted(SitePath)
      BY LinkExtractionAssumption DEF LinkExtractionAssumption
    <3> QED
      BY <3>1, <3>2, FullOfRooted
  <2>2. ASSUME NEW l \in links, Ordinary(l) PROVE get_full_url(l.to) = l.to
    BY <2>2, OrdinaryLink
  <2>3. \A p \in {Seed} \cup {l.to : l \in {k \in links : Ordinary(k)}} : get_full_url(p) = p
    BY <2>1, <2>2
  <2> QED
    BY <2>3 DEF OneAddress
<1>3. SelfByFragment
  <2> SUFFICES ASSUME NEW l \in links, get_full_url(l.from) = get_full_url(l.to), Ordinary(l)
               PROVE  l.ref.fragment
    BY DEF SelfByFragment
  <2>1. FullUrlOf(l.from, l.ref) = get_full_url(l.from)
    BY OrdinaryLink
  <2>2. ~ LinksToItself(l.from, l.ref) /\ is_local(l.ref)
    BY DEF LinkInv
  <2> QED
    BY <2>1, <2>2 DEF LinksToItself
<1> QED
  BY <1>1, <1>2, <1>3

\* On a site whose address has a path, with no ".." in it, ordinary links lead
\* to the page whose url a browser would open, however long, deep or tangled
\* the references are and however often pages are checked.
THEOREM LinksAreFollowed ==
    SitePath # Empty /\ ~ HasDots(SitePath) => (Spec => []LinksFollowed)
<1> SUFFICES ASSUME SitePath # Empty, ~ HasDots(SitePath) PROVE Spec => []LinksFollowed
  OBVIOUS
<1>1. TypeOK /\ LinkInv => LinksFollowed
  BY LinksHere
<1> QED
  BY <1>1, LinkInvHolds, PTL

\* The same for addresses: two pages that ordinary links lead to have two urls.
THEOREM OneAddressEach ==
    SitePath # Empty /\ ~ HasDots(SitePath) => (Spec => []OneAddress)
<1> SUFFICES ASSUME SitePath # Empty, ~ HasDots(SitePath) PROVE Spec => []OneAddress
  OBVIOUS
<1>1. TypeOK /\ LinkInv => OneAddress
  BY LinksHere
<1> QED
  BY <1>1, LinkInvHolds, PTL

\* And no ordinary link without a fragment leads from a page to itself.
THEOREM SelfOnlyByFragment ==
    SitePath # Empty /\ ~ HasDots(SitePath) => (Spec => []SelfByFragment)
<1> SUFFICES ASSUME SitePath # Empty, ~ HasDots(SitePath) PROVE Spec => []SelfByFragment
  OBVIOUS
<1>1. TypeOK /\ LinkInv => SelfByFragment
  BY LinksHere
<1> QED
  BY <1>1, LinkInvHolds, PTL
=============================================================================
