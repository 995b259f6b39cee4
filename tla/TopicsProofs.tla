---------------------------- MODULE TopicsProofs ----------------------------
(***************************************************************************)
(* Proofs about the topic trees and the topic manager, for any filters,    *)
(* topics, subscribers, payloads and number of operations.                 *)
(***************************************************************************)
EXTENDS Topics, SequenceTheorems, WellFoundedInduction, TLAPS

Paths == Seq(Levels)

-----------------------------------------------------------------------------
(* Induction and recursion over numbers, stated about sets and functions   *)

\* A set of numbers that is not empty has a least element.
LEMMA LeastNumber ==
  ASSUME NEW S, S \subseteq Nat, S # {}
  PROVE  \E x \in S : \A y \in S : x <= y
<1> DEFINE R == {ss \in Nat \X Nat : ss[1] < ss[2]}
<1>1. IsWellFoundedOn(R, Nat)
  BY NatLessThanWellFounded DEF OpToRel
<1>2. \A x, y \in Nat : x < y => <<x, y>> \in R
  OBVIOUS
<1>3. \E x \in S : \A y \in S : ~ (<<y, x>> \in R)
  <2> HIDE DEF R
  <2> QED BY <1>1, WFMin
<1>4. PICK x \in S : \A y \in S : ~ (<<y, x>> \in R)
  BY <1>3
<1>5. \A y \in S : ~ (y < x)
  <2> HIDE DEF R
  <2> QED BY <1>2, <1>4
<1> QED BY <1>5

\* Min is that element.
LEMMA MinIsLeast ==
  ASSUME NEW S, S \subseteq Nat, S # {}
  PROVE  Min(S) \in S /\ \A y \in S : Min(S) <= y
BY LeastNumber DEF Min

\* What holds at the last of n numbers and is handed down holds at all.
LEMMA Downward ==
  ASSUME NEW n \in Nat, NEW G, n \in G, \A i \in 1 .. n - 1 : i + 1 \in G => i \in G
  PROVE  \A i \in 1 .. n : i \in G
<1> DEFINE Bad == {k \in Nat : k < n /\ n - k \notin G}
<1> SUFFICES ASSUME NEW i \in 1 .. n, i \notin G
             PROVE  FALSE
  OBVIOUS
<1>1. n - i \in Bad
  OBVIOUS
<1>2. PICK k \in Bad : \A j \in Bad : k <= j
  <2> HIDE DEF Bad
  <2> QED BY <1>1, LeastNumber, Bad \subseteq Nat DEF Bad
<1>3. k # 0
  BY <1>2
<1>4. k - 1 \notin Bad /\ k - 1 \in Nat /\ k - 1 < n
  BY <1>2, <1>3
<1>5. n - (k - 1) \in G
  BY <1>4
<1>6. n - k \in 1 .. n - 1 /\ (n - k) + 1 = n - (k - 1)
  BY <1>2, <1>3
<1> QED BY <1>2, <1>5, <1>6

\* A function that is defined from its last argument down exists.
LEMMA LayersExist ==
  ASSUME NEW n \in Nat \ {0}, NEW X, NEW top \in X, NEW step \in [1 .. n -> [X -> X]]
  PROVE  \E f \in [1 .. n -> X] :
           f[n] = top /\ \A i \in 1 .. n - 1 : f[i] = step[i][f[i + 1]]
<1> DEFINE G == {k \in 1 .. n : \E f \in [k .. n -> X] :
                   f[n] = top /\ \A i \in k .. n - 1 : f[i] = step[i][f[i + 1]]}
<1>1. n \in G
  <2>1. n \in n .. n /\ n .. n - 1 = {}
    OBVIOUS
  <2> DEFINE f == [i \in n .. n |-> top]
  <2>2. f \in [n .. n -> X] /\ f[n] = top
    BY <2>1
  <2> HIDE DEF f
  <2> QED BY <2>1, <2>2
<1>2. ASSUME NEW i \in 1 .. n - 1, i + 1 \in G
      PROVE  i \in G
  <2>1. PICK f \in [i + 1 .. n -> X] :
          f[n] = top /\ \A j \in i + 1 .. n - 1 : f[j] = step[j][f[j + 1]]
    BY <1>2
  <2> DEFINE g == [j \in i .. n |-> IF j = i THEN step[i][f[i + 1]] ELSE f[j]]
  <2>2. f[i + 1] \in X /\ step[i][f[i + 1]] \in X
    OBVIOUS
  <2>3. g \in [i .. n -> X]
    BY <2>2
  <2>4. g[n] = top
    BY <2>1
  <2>5. ASSUME NEW j \in i .. n - 1
        PROVE  g[j] = step[j][g[j + 1]]
    <3>1. g[j + 1] = f[j + 1]
      BY <2>5
    <3>2. CASE j = i
      BY <3>1, <3>2
    <3>3. CASE j # i
      <4>1. j \in i + 1 .. n - 1 /\ g[j] = f[j]
        BY <3>3
      <4> QED BY <4>1, <3>1, <2>1
    <3> QED BY <3>2, <3>3
  <2> HIDE DEF g
  <2> QED BY <2>3, <2>4, <2>5
<1>3. 1 \in G
  <2> HIDE DEF G
  <2> QED BY <1>1, <1>2, Downward
<1> QED BY <1>3

-----------------------------------------------------------------------------
(* Paths and their prefixes *)

\* Paths are equal when they agree at every level.
LEMMA SamePath ==
  ASSUME NEW s \in Paths, NEW t \in Paths, Len(s) = Len(t), \A i \in 1 .. Len(s) : s[i] = t[i]
  PROVE  s = t
BY SeqEqual DEF Paths

\* What SubSeq(s, 1, n) is.
LEMMA Cut ==
  ASSUME NEW s \in Paths, NEW n \in 0 .. Len(s)
  PROVE  /\ SubSeq(s, 1, n) \in Paths /\ Len(SubSeq(s, 1, n)) = n
         /\ \A i \in 1 .. n : SubSeq(s, 1, n)[i] = s[i]
<1>1. Len(s) \in Nat
  BY LenProperties DEF Paths
<1>2. \A i \in 1 .. n : i \in 1 .. Len(s)
  BY <1>1
<1> QED BY <1>1, <1>2, SubSeqProperties DEF Paths

\* A prefix agrees at each of its levels.
LEMMA PrefixAgrees ==
  ASSUME NEW s \in Paths, NEW t \in Paths
  PROVE  IsPrefix(s, t) <=> Len(s) <= Len(t) /\ \A i \in 1 .. Len(s) : s[i] = t[i]
<1>1. Len(s) \in Nat /\ Len(t) \in Nat
  BY LenProperties DEF Paths
<1>2. SubSeq(s, 1, Len(s)) = s
  BY SubSeqFull DEF Paths
<1>3. ASSUME Len(s) <= Len(t)
      PROVE  s = SubSeq(t, 1, Len(s)) <=> \A i \in 1 .. Len(s) : s[i] = t[i]
  <2>1. /\ SubSeq(t, 1, Len(s)) \in Paths /\ Len(SubSeq(t, 1, Len(s))) = Len(s)
        /\ \A i \in 1 .. Len(s) : SubSeq(t, 1, Len(s))[i] = t[i]
    BY <1>1, <1>3, Cut
  <2>2. ASSUME \A i \in 1 .. Len(s) : s[i] = t[i]
        PROVE  s = SubSeq(t, 1, Len(s))
    BY <2>1, <2>2, SamePath
  <2> QED BY <2>1, <2>2
<1> QED BY <1>2, <1>3 DEF IsPrefix

\* Prefixes lists the prefixes.
LEMMA PrefixesAre ==
  ASSUME NEW p \in Paths
  PROVE  \A q : q \in Prefixes(p) <=> q \in Paths /\ IsPrefix(q, p)
<1>1. Len(p) \in Nat
  BY LenProperties DEF Paths
<1>2. ASSUME NEW q \in Prefixes(p)
      PROVE  q \in Paths /\ IsPrefix(q, p)
  <2>1. PICK n \in 0 .. Len(p) : q = SubSeq(p, 1, n)
    BY DEF Prefixes
  <2>2. q \in Paths /\ Len(q) = n /\ \A i \in 1 .. n : q[i] = p[i]
    BY <2>1, Cut
  <2> QED BY <1>1, <2>2, PrefixAgrees
<1>3. ASSUME NEW q \in Paths, IsPrefix(q, p)
      PROVE  q \in Prefixes(p)
  <2>1. Len(q) \in Nat /\ Len(q) <= Len(p)
    BY <1>3, LenProperties DEF Paths, IsPrefix
  <2>2. q = SubSeq(p, 1, Len(q))
    BY <1>3, SubSeqFull DEF Paths, IsPrefix
  <2>3. Len(q) \in 0 .. Len(p)
    BY <1>1, <2>1
  <2> QED BY <2>2, <2>3, Zenon DEF Prefixes
<1> QED BY <1>2, <1>3

\* The root is a prefix of every path, a path of itself, a prefix of a prefix
\* of the path.
LEMMA PrefixOrder ==
  /\ <<>> \in Paths /\ Len(<<>>) = 0
  /\ \A p \in Paths : IsPrefix(<<>>, p) /\ IsPrefix(p, p)
  /\ \A p, q, r \in Paths : IsPrefix(p, q) /\ IsPrefix(q, r) => IsPrefix(p, r)
<1>1. <<>> \in Paths /\ Len(<<>>) = 0
  BY EmptySeq DEF Paths
<1>2. \A p \in Paths : Len(p) \in Nat
  BY LenProperties DEF Paths
<1>3. ASSUME NEW p \in Paths
      PROVE  IsPrefix(<<>>, p) /\ IsPrefix(p, p)
  BY <1>1, <1>2, PrefixAgrees
<1>4. ASSUME NEW p \in Paths, NEW q \in Paths, NEW r \in Paths, IsPrefix(p, q), IsPrefix(q, r)
      PROVE  IsPrefix(p, r)
  <2>1. Len(p) <= Len(q) /\ Len(q) <= Len(r)
    BY <1>4, PrefixAgrees
  <2>2. \A i \in 1 .. Len(p) : p[i] = q[i] /\ q[i] = r[i]
    BY <1>2, <1>4, <2>1, PrefixAgrees
  <2>3. Len(p) <= Len(r) /\ \A i \in 1 .. Len(p) : p[i] = r[i]
    BY <1>2, <2>1, <2>2
  <2> QED BY <2>3, PrefixAgrees
<1> QED BY <1>1, <1>3, <1>4

-----------------------------------------------------------------------------
(* Walks: where a filter or a topic leads *)

EndsEmpty(t) == t[Len(t)] = ""

\* The number of levels before the end of t, or before its last slash.
Depth(t) == IF EndsEmpty(t) THEN Len(t) - 1 ELSE Len(t)

BadAt(t, i) == (t[i] = MWC /\ i < Len(t)) \/ t[i] \in Malformed \cup Dollar
SpelledAt(t, i) == IF t[i] = "" THEN SWC ELSE t[i]
LevelAt(t, i) == IF BadAt(t, i) THEN Error ELSE SpelledAt(t, i)

\* The special levels.
LEMMA SpecialLevels ==
  /\ "" \in Levels /\ SWC \in Levels /\ MWC \in Levels /\ Error \notin Levels
  /\ "" # SWC /\ "" # MWC /\ SWC # MWC
  /\ "" \notin Dollar \cup Malformed /\ SWC \notin Dollar \cup Malformed
  /\ MWC \notin Dollar \cup Malformed
<1>1. "" # SWC /\ "" # MWC /\ SWC # MWC
  BY DEF SWC, MWC
<1> QED BY <1>1, LevelsAssumption

\* The type of a topic.
LEMMA TopicType ==
  ASSUME NEW t, IsTopic(t)
  PROVE  /\ t \in Paths /\ Len(t) \in Nat \ {0} /\ Depth(t) \in Nat /\ Depth(t) <= Len(t)
         /\ Depth(t) = Len(t) - 1 <=> EndsEmpty(t)
         /\ Depth(t) = Len(t) <=> ~ EndsEmpty(t)
         /\ \A i \in 1 .. Len(t) : t[i] \in Levels /\ t[i] # Error
<1>1. t \in Paths /\ t # <<>>
  BY DEF IsTopic, Paths
<1>2. Len(t) \in Nat \ {0} /\ t \in [1 .. Len(t) -> Levels]
  BY <1>1, LenProperties, EmptySeq DEF Paths
<1>3. \A i \in 1 .. Len(t) : t[i] \in Levels /\ t[i] # Error
  BY <1>2, SpecialLevels
<1>4. /\ Depth(t) \in Nat /\ Depth(t) <= Len(t)
      /\ Depth(t) = Len(t) - 1 <=> EndsEmpty(t)
      /\ Depth(t) = Len(t) <=> ~ EndsEmpty(t)
  <2>1. Len(t) \in Nat \ {0}
    BY <1>2
  <2> QED BY <2>1 DEF Depth
<1> QED BY <1>1, <1>2, <1>3, <1>4

\* What is left of a topic from a level on.
LEMMA RestLevels ==
  ASSUME NEW t, IsTopic(t), NEW i \in 1 .. Len(t)
  PROVE  /\ From(t, i) \in Paths /\ From(t, i) # <<>> /\ Len(From(t, i)) = Len(t) - i + 1
         /\ Head(From(t, i)) = t[i] /\ From(t, i)[1] = t[i]
<1>1. Len(t) \in Nat \ {0} /\ \A j \in i .. Len(t) : t[j] \in Levels
  <2>1. Len(t) \in Nat \ {0} /\ \A j \in 1 .. Len(t) : t[j] \in Levels
    BY TopicType
  <2> QED BY <2>1
<1>2. /\ From(t, i) \in Paths /\ Len(From(t, i)) = Len(t) - i + 1
      /\ \A j \in 1 .. Len(t) - i + 1 : From(t, i)[j] = t[i + j - 1]
  BY <1>1, SubSeqProperties DEF From, Paths
<1>3. From(t, i) # <<>>
  BY <1>1, <1>2, EmptySeq DEF Paths
<1>4. From(t, i)[1] = t[i]
  BY <1>1, <1>2
<1> QED BY <1>2, <1>3, <1>4 DEF Paths

\* A path of one level.
LEMMA OneLevel ==
  ASSUME NEW l \in Levels
  PROVE  <<l>> \in Paths /\ Len(<<l>>) = 1 /\ <<l>>[1] = l
BY DEF Paths

\* Where the code stops, and the level it takes otherwise.
LEMMA Rest ==
  ASSUME NEW t, IsTopic(t), NEW i \in 1 .. Len(t) + 1
  PROVE  /\ IsEmpty(From(t, i)) <=> i > Depth(t)
         /\ i <= Len(t) => /\ nextTopicLevel(From(t, i)) = LevelAt(t, i)
                           /\ LevelAt(t, i) = Error <=> BadAt(t, i)
                           /\ SpelledAt(t, i) \in Levels
<1>1. t \in Paths /\ Len(t) \in Nat \ {0} /\ Depth(t) \in Nat /\ Depth(t) <= Len(t)
  BY TopicType
<1>2. CASE i = Len(t) + 1
  <2>1. From(t, i) = <<>>
    BY <1>1, <1>2, SubSeqEmpty DEF From
  <2>2. IsEmpty(From(t, i))
    BY <2>1 DEF IsEmpty
  <2> QED BY <2>2, <1>1, <1>2
<1>3. CASE i <= Len(t)
  <2>1. i \in 1 .. Len(t)
    BY <1>1, <1>3
  <2>2. From(t, i) = <<"">> <=> i = Len(t) /\ t[i] = ""
    <3>1. <<"">> \in Paths /\ Len(<<"">>) = 1 /\ <<"">>[1] = ""
      BY SpecialLevels, OneLevel, Zenon
    <3> DEFINE e == <<"">>
               no == ""
    <3>2. e \in Paths /\ Len(e) = 1 /\ e[1] = no
      BY <3>1
    <3>3. /\ From(t, i) \in Paths /\ Len(From(t, i)) = Len(t) - i + 1
          /\ From(t, i)[1] = t[i]
      BY <2>1, RestLevels
    <3> HIDE DEF e, no
    <3>4. ASSUME i = Len(t), t[i] = no
          PROVE  From(t, i) = e
      <4>1. Len(From(t, i)) = Len(e)
        BY <1>1, <3>2, <3>3, <3>4
      <4>2. \A j \in 1 .. 1 : j = 1
        OBVIOUS
      <4>3. \A j \in 1 .. Len(From(t, i)) : From(t, i)[j] = e[j]
        BY <4>1, <4>2, <3>2, <3>3, <3>4, Zenon
      <4> QED BY <4>1, <4>3, <3>2, <3>3, SamePath
    <3>5. ASSUME From(t, i) = e
          PROVE  i = Len(t) /\ t[i] = no
      <4>1. Len(From(t, i)) = 1
        BY <3>2, <3>5
      <4>2. Len(t) - i + 1 = 1
        BY <4>1, <3>3, Zenon
      <4>3. i = Len(t)
        BY <1>1, <2>1, <4>2
      <4> QED BY <4>3, <3>2, <3>3, <3>5, Zenon
    <3> QED BY <3>4, <3>5, Zenon DEF e, no
  <2>3. i > Depth(t) <=> i = Len(t) /\ EndsEmpty(t)
    <3>1. Depth(t) = Len(t) - 1 <=> EndsEmpty(t)
      BY TopicType
    <3>2. Depth(t) = Len(t) <=> ~ EndsEmpty(t)
      BY TopicType
    <3> QED BY <1>1, <2>1, <3>1, <3>2
  <2>4. nextTopicLevel(From(t, i)) = LevelAt(t, i)
    <3>1. Len(From(t, i)) > 1 <=> i < Len(t)
      BY <1>1, <2>1, RestLevels
    <3> QED BY <2>1, <3>1, RestLevels DEF nextTopicLevel, LevelAt, BadAt, SpelledAt
  <2>5. t[i] \in Levels /\ SpelledAt(t, i) \in Levels
    BY <2>1, TopicType, SpecialLevels DEF SpelledAt
  <2>6. IsEmpty(From(t, i)) <=> From(t, i) = <<"">>
    BY <2>1, RestLevels DEF IsEmpty
  <2>7. i > Depth(t) <=> i = Len(t) /\ t[i] = ""
    BY <2>3, Zenon DEF EndsEmpty
  <2>8. LevelAt(t, i) = Error <=> BadAt(t, i)
    BY <2>5, SpecialLevels DEF LevelAt
  <2> QED BY <2>2, <2>4, <2>5, <2>6, <2>7, <2>8, Zenon
<1> QED BY <1>1, <1>2, <1>3

\* A filter is accepted when no level before its end is bad, and its path spells
\* those levels, or those before the first bad one.
LEMMA WalkFacts ==
  ASSUME NEW t, IsTopic(t)
  PROVE  /\ Accepted(t) <=> \A i \in 1 .. Depth(t) : ~ BadAt(t, i)
         /\ PathOf(t) \in Paths /\ Len(PathOf(t)) \in 0 .. Depth(t)
         /\ \A i \in 1 .. Len(PathOf(t)) : PathOf(t)[i] = SpelledAt(t, i)
         /\ Accepted(t) => Len(PathOf(t)) = Depth(t)
<1> DEFINE n == Depth(t)
           Bad == {i \in DOMAIN t : ~ IsEmpty(From(t, i)) /\ nextTopicLevel(From(t, i)) = Error}
           Over == {i \in 1 .. Len(t) + 1 : IsEmpty(From(t, i))}
           End == Min(Bad \cup Over)
           path == [i \in 1 .. End - 1 |-> nextTopicLevel(From(t, i))]
<1>1. t \in Paths /\ Len(t) \in Nat \ {0} /\ n \in Nat /\ n <= Len(t)
  BY TopicType
<1>2. DOMAIN t = 1 .. Len(t)
  BY <1>1, LenProperties DEF Paths
<1>3. PathOf(t) = path /\ (Accepted(t) <=> Bad = {})
  BY DEF PathOf, Accepted, Walk
<1> HIDE DEF n
<1>4. Bad = {i \in 1 .. n : BadAt(t, i)}
  <2>1. ASSUME NEW i \in 1 .. Len(t)
        PROVE  i \in Bad <=> i \in 1 .. n /\ BadAt(t, i)
    <3>1. i \in 1 .. Len(t) + 1 /\ i <= Len(t) /\ (~ (i > n) <=> i \in 1 .. n)
      BY <1>1, <2>1
    <3>2. IsEmpty(From(t, i)) <=> i > n
      BY <3>1, Rest DEF n
    <3>3. nextTopicLevel(From(t, i)) = Error <=> BadAt(t, i)
      BY <3>1, Rest
    <3> QED BY <1>2, <3>1, <3>2, <3>3, Zenon
  <2>2. \A i \in 1 .. n : i \in 1 .. Len(t)
    BY <1>1
  <2> QED BY <1>2, <2>1, <2>2, Zenon
<1>5. Over = {i \in 1 .. Len(t) + 1 : i > n}
  BY Rest, Zenon DEF n
<1>6. End \in 1 .. n + 1 /\ \A i \in Bad \cup Over : End <= i
  <2>1. Bad \cup Over \subseteq Nat \ {0} /\ n + 1 \in Bad \cup Over
    BY <1>1, <1>4, <1>5
  <2>2. End \in Bad \cup Over /\ \A i \in Bad \cup Over : End <= i
    <3> HIDE DEF Bad, Over
    <3> QED BY <2>1, MinIsLeast
  <2>3. End \in Nat \ {0} /\ End <= n + 1
    <3> HIDE DEF Bad, Over, End
    <3> QED BY <2>1, <2>2
  <2> HIDE DEF End
  <2> QED BY <1>1, <2>2, <2>3
<1> HIDE DEF End
<1>7. \A i \in 1 .. End - 1 : i \in 1 .. Len(t) + 1 /\ i <= Len(t) /\ i <= n /\ i < End
  BY <1>1, <1>6
<1>8. ASSUME NEW i \in 1 .. End - 1
      PROVE  path[i] = SpelledAt(t, i) /\ path[i] \in Levels
  <2>1. ~ BadAt(t, i)
    <3>1. i \notin Bad
      <4> HIDE DEF Bad, Over
      <4> QED BY <1>6, <1>7
    <3>2. i \in 1 .. n
      BY <1>1, <1>7
    <3> QED BY <1>4, <3>1, <3>2
  <2>2. nextTopicLevel(From(t, i)) = LevelAt(t, i) /\ SpelledAt(t, i) \in Levels
    BY <1>7, Rest
  <2>3. path[i] = nextTopicLevel(From(t, i))
    OBVIOUS
  <2> QED BY <2>1, <2>2, <2>3, Zenon DEF LevelAt
<1> HIDE DEF path
<1>9. path \in [1 .. End - 1 -> Levels]
  BY <1>8, Zenon DEF path
<1>10. End - 1 \in Nat /\ End - 1 \in 0 .. n
  BY <1>1, <1>6
<1>11. path \in Paths /\ Len(path) = End - 1
  BY <1>9, <1>10, SeqDef DEF Paths
<1>12. ASSUME Bad = {}
       PROVE  End = n + 1
  <2>1. End \in Over
    <3>1. End \in Bad \cup Over
      <4> HIDE DEF Bad, Over
      <4>1. Bad \cup Over \subseteq Nat /\ Bad \cup Over # {}
        <5>1. \A i \in 1 .. n : i \in Nat
          OBVIOUS
        <5>2. \A i \in 1 .. Len(t) + 1 : i \in Nat
          OBVIOUS
        <5>3. n + 1 \in 1 .. Len(t) + 1 /\ n + 1 > n
          BY <1>1
        <5>4. n + 1 \in Over
          BY <5>3, <1>5, Zenon
        <5>5. \A i \in Bad : i \in Nat
          BY <5>1, <1>4, Zenon
        <5>6. \A i \in Over : i \in Nat
          BY <5>2, <1>5, Zenon
        <5> QED BY <5>4, <5>5, <5>6
      <4> QED BY <4>1, MinIsLeast DEF End
    <3> QED BY <1>12, <3>1
  <2>2. End > n
    BY <1>5, <2>1
  <2> QED BY <1>1, <1>6, <2>2
<1>13. Bad = {} <=> \A i \in 1 .. n : ~ BadAt(t, i)
  BY <1>4, Zenon
<1>14. /\ path \in Paths /\ Len(path) \in 0 .. n
       /\ \A i \in 1 .. Len(path) : path[i] = SpelledAt(t, i)
       /\ Bad = {} => Len(path) = n
  BY <1>1, <1>8, <1>10, <1>11, <1>12
<1> QED BY <1>3, <1>13, <1>14 DEF n

-----------------------------------------------------------------------------
(* Trees: growing and pruning *)

PathTree(T) == DOMAIN T \subseteq Paths /\ IsTree(T)

\* A tree holds the way to each of its nodes.
LEMMA WayIn ==
  ASSUME NEW T, PathTree(T), NEW p \in DOMAIN T, NEW q \in Paths, IsPrefix(q, p)
  PROVE  q \in DOMAIN T
<1>1. p \in Paths /\ Prefixes(p) \subseteq DOMAIN T
  BY DEF PathTree, IsTree
<1>2. q \in Prefixes(p)
  BY <1>1, PrefixesAre
<1> QED BY <1>1, <1>2

\* Growing adds the missing nodes of the way, and leaves the rest alone.
LEMMA GrownTree ==
  ASSUME NEW T, PathTree(T), NEW p \in Paths, NEW new
  PROVE  /\ PathTree(Grown(T, p, new)) /\ p \in DOMAIN Grown(T, p, new)
         /\ DOMAIN Grown(T, p, new) = DOMAIN T \cup Prefixes(p)
         /\ \A q \in DOMAIN T : Grown(T, p, new)[q] = T[q]
         /\ \A q \in DOMAIN Grown(T, p, new) \ DOMAIN T : Grown(T, p, new)[q] = new
<1> DEFINE G == Grown(T, p, new)
<1>1. DOMAIN G = DOMAIN T \cup Prefixes(p)
  BY DEF Grown
<1>2. \A q \in DOMAIN T \cup Prefixes(p) : G[q] = IF q \in DOMAIN T THEN T[q] ELSE new
  BY DEF Grown
<1> HIDE DEF G
<1>3. DOMAIN T \subseteq Paths /\ <<>> \in DOMAIN T /\ \A q \in DOMAIN T : Prefixes(q) \subseteq DOMAIN T
  BY DEF PathTree, IsTree
<1>4. p \in Prefixes(p) /\ Prefixes(p) \subseteq Paths
  BY PrefixesAre, PrefixOrder
<1>5. ASSUME NEW q \in DOMAIN G
      PROVE  q \in Paths /\ Prefixes(q) \subseteq DOMAIN G
  <2>1. CASE q \in DOMAIN T
    BY <1>1, <1>3, <2>1
  <2>2. CASE q \in Prefixes(p)
    <3>1. q \in Paths /\ IsPrefix(q, p)
      BY <2>2, PrefixesAre
    <3>2. ASSUME NEW r \in Prefixes(q)
          PROVE  r \in Prefixes(p)
      <4>1. r \in Paths /\ IsPrefix(r, q)
        BY <3>1, PrefixesAre
      <4> QED BY <3>1, <4>1, PrefixOrder, PrefixesAre
    <3> QED BY <1>1, <3>1, <3>2
  <2> QED BY <1>1, <2>1, <2>2
<1>6. PathTree(G)
  BY <1>1, <1>3, <1>5, Zenon DEF PathTree, IsTree
<1> QED BY <1>1, <1>2, <1>4, <1>6 DEF G

\* Pruning deletes idle nodes of the way with everything below them, which is
\* on the way and idle too; a node of the way that stays has something below it
\* that is not.
LEMMA PrunedTree ==
  ASSUME NEW T, PathTree(T), NEW p \in DOMAIN T, NEW idle
  PROVE  /\ PathTree(Pruned(T, p, idle))
         /\ DOMAIN Pruned(T, p, idle) \subseteq DOMAIN T
         /\ \A q \in DOMAIN Pruned(T, p, idle) : Pruned(T, p, idle)[q] = T[q]
         /\ \A q \in DOMAIN T \ DOMAIN Pruned(T, p, idle) :
              q \in Paths /\ q # <<>> /\ q \in idle /\ IsPrefix(q, p)
         /\ \A q \in DOMAIN Pruned(T, p, idle) : q # <<>> /\ IsPrefix(q, p) =>
              \E r \in DOMAIN Pruned(T, p, idle) :
                IsPrefix(q, r) /\ (r \notin idle \/ ~ IsPrefix(r, p))
<1> DEFINE Gone == {q \in Prefixes(p) \ {<<>>} : Below(T, q) \subseteq Prefixes(p) \cap idle}
           P == Pruned(T, p, idle)
<1>1. P = [q \in DOMAIN T \ Gone |-> T[q]]
  BY DEF Pruned
<1>2. DOMAIN P = DOMAIN T \ Gone /\ \A q \in DOMAIN P : P[q] = T[q]
  BY <1>1
<1> HIDE DEF P
<1>3. DOMAIN T \subseteq Paths /\ <<>> \in DOMAIN T /\ \A q \in DOMAIN T : Prefixes(q) \subseteq DOMAIN T
  BY DEF PathTree, IsTree
<1>4. \A q : q \in Prefixes(p) <=> q \in Paths /\ IsPrefix(q, p)
  BY <1>3, PrefixesAre
<1>5. \A q \in DOMAIN T : q \in Below(T, q)
  BY <1>3, PrefixOrder DEF Below
<1>6. \A q \in Gone : \A r \in Below(T, q) : r \in idle /\ r \in Paths /\ IsPrefix(r, p)
  BY <1>4
<1>7. ASSUME NEW q \in DOMAIN T \ DOMAIN P
      PROVE  q \in Paths /\ q # <<>> /\ q \in idle /\ IsPrefix(q, p)
  <2>1. q \in Gone
    BY <1>2
  <2> QED BY <1>4, <1>5, <2>1
<1>8. ASSUME NEW q \in DOMAIN P, NEW g \in Paths, IsPrefix(g, q)
      PROVE  g \in DOMAIN P
  <2>1. g \in DOMAIN T
    BY <1>2, <1>8, WayIn
  <2>2. ASSUME g \in Gone
        PROVE  FALSE
    <3>1. q \in Below(T, g) /\ g # <<>>
      BY <1>2, <1>8, <2>2 DEF Below
    <3>2. q \in Prefixes(p)
      BY <1>4, <1>6, <2>2, <3>1
    <3>3. q # <<>>
      <4>1. g \in Paths /\ q \in Paths
        BY <1>2, <1>3
      <4>2. Len(g) \in Nat \ {0} /\ Len(g) <= Len(q)
        BY <1>8, <3>1, <4>1, EmptySeq, PrefixAgrees DEF Paths
      <4> QED BY <4>2, PrefixOrder
    <3>4. Below(T, q) \subseteq Below(T, g)
      <4>1. \A r \in DOMAIN T : IsPrefix(q, r) => IsPrefix(g, r)
        BY <1>2, <1>3, <1>8, PrefixOrder
      <4> QED BY <4>1 DEF Below
    <3>5. q \in Gone
      BY <2>2, <3>2, <3>3, <3>4
    <3> QED BY <1>2, <3>5
  <2> QED BY <1>2, <2>1, <2>2
<1>9. PathTree(P)
  <2>1. <<>> \in DOMAIN P
    BY <1>2, <1>3
  <2>2. ASSUME NEW q \in DOMAIN P
        PROVE  Prefixes(q) \subseteq DOMAIN P
    BY <1>2, <1>3, <1>8, PrefixesAre
  <2> QED BY <1>2, <1>3, <2>1, <2>2, Zenon DEF PathTree, IsTree
<1>10. ASSUME NEW q \in DOMAIN P, q # <<>>, IsPrefix(q, p)
       PROVE  \E r \in DOMAIN P : IsPrefix(q, r) /\ (r \notin idle \/ ~ IsPrefix(r, p))
  <2>1. q \in Prefixes(p) \ {<<>>} /\ q \notin Gone
    BY <1>2, <1>3, <1>4, <1>10
  <2>2. PICK r \in Below(T, q) : r \notin Prefixes(p) \cap idle
    BY <2>1
  <2>3. r \in DOMAIN T /\ IsPrefix(q, r)
    BY DEF Below
  <2>4. r \notin Gone
    BY <1>5, <2>2, <2>3
  <2> QED BY <1>2, <1>3, <1>4, <2>2, <2>3, <2>4
<1> QED BY <1>2, <1>7, <1>9, <1>10 DEF P

-----------------------------------------------------------------------------
(* What the operations of the trees do to what the trees hold *)

\* Node p of a tree of subscriptions holds subscriber s with QoS q.
Has(T, p, s, q) == p \in DOMAIN T /\ s \in DOMAIN T[p] /\ T[p][s] = q
NodesOK(T) ==
  \A p \in DOMAIN T : T[p] \in [DOMAIN T[p] -> 0 .. MaxQos] /\ DOMAIN T[p] \subseteq Subs
Busy(T) == {p \in DOMAIN T : ~ HasNobody(T[p])}

\* The node without a subscriber.
LEMMA EmptyNode == newSNode \in [{} -> 0 .. MaxQos] /\ DOMAIN newSNode = {}
BY DEF newSNode

\* An accepted insertion puts one subscriber in its place and nothing else.
LEMMA PlainInsert ==
  ASSUME NEW T, PathTree(T), NodesOK(T), NEW t, IsTopic(t), NEW s \in Subs, NEW q \in 0 .. MaxQos
  PROVE  /\ PathTree(sinsert(T, t, s, q)) /\ NodesOK(sinsert(T, t, s, q))
         /\ DOMAIN sinsert(T, t, s, q) = DOMAIN T \cup Prefixes(PathOf(t))
         /\ Accepted(t) => PathOf(t) \in Busy(sinsert(T, t, s, q))
         /\ \A p, r, x : Has(sinsert(T, t, s, q), p, r, x) <=>
              IF Accepted(t) /\ p = PathOf(t) /\ r = s THEN x = q ELSE Has(T, p, r, x)
<1> DEFINE p == PathOf(t)
           G == Grown(T, p, newSNode)
           U == sinsert(T, t, s, q)
<1>1. p \in Paths
  BY WalkFacts
<1>2. /\ PathTree(G) /\ p \in DOMAIN G /\ DOMAIN G = DOMAIN T \cup Prefixes(p)
      /\ \A n \in DOMAIN T : G[n] = T[n]
      /\ \A n \in DOMAIN G \ DOMAIN T : G[n] = newSNode
  <2> HIDE DEF p
  <2> QED BY <1>1, GrownTree
<1>3. U = IF Accepted(t)
          THEN [G EXCEPT ![p] = [n \in DOMAIN G[p] \cup {s} |-> IF n = s THEN q ELSE G[p][n]]]
          ELSE G
  BY DEF sinsert, equal
<1> HIDE DEF G, U, p
<1>4. NodesOK(G)
  BY <1>2, EmptyNode DEF NodesOK
<1>5. \A m, r, x : Has(G, m, r, x) <=> Has(T, m, r, x)
  BY <1>2, EmptyNode DEF Has
<1>6. CASE ~ Accepted(t)
  BY <1>2, <1>3, <1>4, <1>5, <1>6 DEF U, p
<1>7. CASE Accepted(t)
  <2> DEFINE node == [n \in DOMAIN G[p] \cup {s} |-> IF n = s THEN q ELSE G[p][n]]
  <2>1. DOMAIN U = DOMAIN G /\ U[p] = node /\ \A n \in DOMAIN G \ {p} : U[n] = G[n]
    BY <1>2, <1>3, <1>7
  <2>2. DOMAIN node = DOMAIN G[p] \cup {s} /\ node[s] = q /\ \A n \in DOMAIN G[p] \ {s} : node[n] = G[p][n]
    OBVIOUS
  <2>3. node \in [DOMAIN node -> 0 .. MaxQos] /\ DOMAIN node \subseteq Subs
    BY <1>2, <1>4 DEF NodesOK
  <2> HIDE DEF node
  <2>4. NodesOK(U)
    BY <1>4, <2>1, <2>3 DEF NodesOK
  <2>5. PathTree(U)
    BY <1>2, <2>1 DEF PathTree, IsTree
  <2>6. p \in Busy(U)
    BY <1>2, <2>1, <2>2 DEF Busy, HasNobody
  <2>7. ASSUME NEW m, NEW r, NEW x
        PROVE  Has(U, m, r, x) <=> IF m = p /\ r = s THEN x = q ELSE Has(G, m, r, x)
    BY <1>2, <2>1, <2>2 DEF Has
  <2> QED BY <1>2, <1>5, <1>7, <2>1, <2>4, <2>5, <2>6, <2>7 DEF U, p
<1> QED BY <1>6, <1>7

\* Every node but the root leads to a busy one, or is among the excepted.
Reached(T, busy, R) ==
  \A q \in DOMAIN T \ {<<>>} : (\E r \in busy : IsPrefix(q, r)) \/ q \in R

\* Growing keeps that when the new way leads to a busy node or is excepted.
LEMMA ReachedGrown ==
  ASSUME NEW T, NEW U, NEW busy, NEW more, NEW R, NEW p \in Paths,
         DOMAIN U = DOMAIN T \cup Prefixes(p), busy \subseteq more,
         p \in more \/ Prefixes(p) \subseteq R, Reached(T, busy, R)
  PROVE  Reached(U, more, R)
<1> SUFFICES ASSUME NEW q \in DOMAIN U \ {<<>>}
             PROVE  (\E r \in more : IsPrefix(q, r)) \/ q \in R
  BY DEF Reached
<1>1. CASE q \in DOMAIN T
  BY <1>1 DEF Reached
<1>2. CASE q \in Prefixes(p)
  <2>1. IsPrefix(q, p)
    BY <1>2, PrefixesAre
  <2> QED BY <1>2, <2>1
<1> QED BY <1>1, <1>2

\* A set of paths with what leads to each.
Closed(R) == R \subseteq Paths /\ \A r \in R : \A q \in Paths : IsPrefix(q, r) => q \in R

\* Pruning keeps it, and makes up for the busy node at the end of its way.
LEMMA ReachedPruned ==
  ASSUME NEW T, PathTree(T), NEW p \in DOMAIN T, NEW idle, NEW R, Closed(R),
         Reached(T, (DOMAIN T \ idle) \cup {p}, R)
  PROVE  Reached(Pruned(T, p, idle), DOMAIN Pruned(T, p, idle) \ idle, R)
<1> DEFINE P == Pruned(T, p, idle)
<1>1. /\ PathTree(P) /\ DOMAIN P \subseteq DOMAIN T
      /\ \A q \in DOMAIN T \ DOMAIN P : q \in idle
      /\ \A q \in DOMAIN P : q # <<>> /\ IsPrefix(q, p) =>
           \E r \in DOMAIN P : IsPrefix(q, r) /\ (r \notin idle \/ ~ IsPrefix(r, p))
  BY PrunedTree
<1> HIDE DEF P
<1>2. DOMAIN T \subseteq Paths
  BY DEF PathTree
<1>3. ASSUME NEW q \in DOMAIN P, q # <<>>, ~ IsPrefix(q, p)
      PROVE  (\E r \in DOMAIN P \ idle : IsPrefix(q, r)) \/ q \in R
  <2>1. CASE q \in R
    BY <2>1
  <2>2. CASE q \notin R
    <3>1. PICK r \in (DOMAIN T \ idle) \cup {p} : IsPrefix(q, r)
      BY <1>1, <1>3, <2>2 DEF Reached
    <3>2. r \in DOMAIN P \ idle
      BY <1>1, <1>3, <3>1
    <3> QED BY <3>1, <3>2
  <2> QED BY <2>1, <2>2
<1>4. ASSUME NEW q \in DOMAIN P, q # <<>>, IsPrefix(q, p)
      PROVE  (\E r \in DOMAIN P \ idle : IsPrefix(q, r)) \/ q \in R
  <2>1. PICK r \in DOMAIN P : IsPrefix(q, r) /\ (r \notin idle \/ ~ IsPrefix(r, p))
    BY <1>1, <1>4
  <2>2. CASE r \notin idle
    BY <2>1, <2>2
  <2>3. CASE ~ IsPrefix(r, p)
    <3>1. q \in Paths /\ r \in Paths
      BY <1>1, <1>2
    <3>2. r # <<>>
      BY <1>1, <1>2, <2>3, PrefixOrder
    <3>3. (\E m \in DOMAIN P \ idle : IsPrefix(r, m)) \/ r \in R
      BY <1>3, <2>3, <3>2
    <3>4. CASE r \in R
      BY <2>1, <3>1, <3>4 DEF Closed
    <3>5. CASE \E m \in DOMAIN P \ idle : IsPrefix(r, m)
      <4>1. PICK m \in DOMAIN P \ idle : IsPrefix(r, m)
        BY <3>5
      <4>2. IsPrefix(q, m)
        BY <1>1, <1>2, <2>1, <3>1, <4>1, PrefixOrder
      <4> QED BY <4>1, <4>2
    <3> QED BY <3>3, <3>4, <3>5
  <2> QED BY <2>1, <2>2, <2>3
<1> QED BY <1>3, <1>4 DEF Reached, P

\* The ends of refused filters, with what leads to them.
LEMMA RefusedClosed ==
  ASSUME NEW F, \A f \in F : IsTopic(f)
  PROVE  /\ Closed(RefusedPaths(F))
         /\ \A f \in F : ~ Accepted(f) => Prefixes(PathOf(f)) \subseteq RefusedPaths(F)
<1>1. \A f \in F : PathOf(f) \in Paths
  BY WalkFacts
<1>2. \A r : r \in RefusedPaths(F) <=>
        r \in Paths /\ \E f \in F : ~ Accepted(f) /\ IsPrefix(r, PathOf(f))
  <2>1. \A r : r \in RefusedPaths(F) <=> \E f \in F : ~ Accepted(f) /\ r \in Prefixes(PathOf(f))
    BY DEF RefusedPaths
  <2> QED BY <1>1, <2>1, PrefixesAre
<1>3. \A f \in F : ~ Accepted(f) => Prefixes(PathOf(f)) \subseteq RefusedPaths(F)
  BY DEF RefusedPaths
<1> QED BY <1>1, <1>2, <1>3, PrefixOrder DEF Closed

\* A removal takes one subscriber from its place and nothing else, and leaves
\* no node that leads nowhere.
LEMMA PlainRemove ==
  ASSUME NEW T, PathTree(T), NodesOK(T), NEW t, IsTopic(t), NEW s, NEW R, Closed(R), Reached(T, Busy(T), R)
  PROVE  /\ PathTree(sremove(T, t, s)) /\ NodesOK(sremove(T, t, s))
         /\ Reached(sremove(T, t, s), Busy(sremove(T, t, s)), R)
         /\ \A p, r, x : Has(sremove(T, t, s), p, r, x) <=>
              Has(T, p, r, x) /\ ~ (Accepted(t) /\ p = PathOf(t) /\ r = s)
<1> DEFINE p == PathOf(t)
           L == [T EXCEPT ![p] = Unsubscribed(T[p], s)]
           idle == {n \in DOMAIN L : HasNobody(L[n])}
           P == Pruned(L, p, idle)
           U == sremove(T, t, s)
<1>1. U = IF Accepted(t) /\ p \in DOMAIN T /\ s \in DOMAIN T[p] THEN P ELSE T
  BY DEF sremove
<1> HIDE DEF U
<1>2. CASE ~ (Accepted(t) /\ p \in DOMAIN T /\ s \in DOMAIN T[p])
  <2>1. U = T
    BY <1>1, <1>2
  <2> QED BY <2>1, <1>2 DEF Has, U
<1>3. CASE Accepted(t) /\ p \in DOMAIN T /\ s \in DOMAIN T[p]
  <2> DEFINE node == Unsubscribed(T[p], s)
  <2>1. DOMAIN L = DOMAIN T /\ L[p] = node /\ \A n \in DOMAIN T \ {p} : L[n] = T[n]
    BY <1>3
  <2>2. DOMAIN node = DOMAIN T[p] \ {s} /\ \A n \in DOMAIN node : node[n] = T[p][n]
    BY DEF Unsubscribed, equal
  <2>3. node \in [DOMAIN node -> 0 .. MaxQos] /\ DOMAIN node \subseteq Subs
    BY <1>3, <2>2 DEF NodesOK, Unsubscribed, equal
  <2> HIDE DEF node, L
  <2>4. NodesOK(L)
    BY <2>1, <2>3 DEF NodesOK
  <2>5. PathTree(L) /\ p \in DOMAIN L
    BY <1>3, <2>1 DEF PathTree, IsTree
  <2> HIDE DEF idle
  <2>6. /\ PathTree(P) /\ DOMAIN P \subseteq DOMAIN L
        /\ \A q \in DOMAIN P : P[q] = L[q]
        /\ \A q \in DOMAIN L \ DOMAIN P : q \in idle
    BY <2>5, PrunedTree
  <2> HIDE DEF P
  <2>7. NodesOK(P)
    BY <2>4, <2>6 DEF NodesOK
  <2>8. Reached(P, Busy(P), R)
    <3>1. Busy(T) \subseteq (DOMAIN L \ idle) \cup {p}
      BY <2>1 DEF Busy, idle
    <3>2. Reached(L, (DOMAIN L \ idle) \cup {p}, R)
      BY <2>1, <3>1 DEF Reached
    <3>3. Reached(P, DOMAIN P \ idle, R)
      BY <2>5, <3>2, ReachedPruned DEF P
    <3>4. DOMAIN P \ idle = Busy(P)
      BY <2>6 DEF Busy, idle
    <3> QED BY <3>3, <3>4
  <2>9. ASSUME NEW m, NEW r, NEW x
        PROVE  Has(P, m, r, x) <=> Has(T, m, r, x) /\ ~ (m = p /\ r = s)
    <3>1. Has(P, m, r, x) <=> Has(L, m, r, x)
      BY <2>6 DEF Has, idle, HasNobody
    <3>2. Has(L, m, r, x) <=> Has(T, m, r, x) /\ ~ (m = p /\ r = s)
      BY <1>3, <2>1, <2>2 DEF Has
    <3> QED BY <3>1, <3>2
  <2>10. U = P
    BY <1>1, <1>3 DEF P, idle, L
  <2> QED BY <2>10, <1>3, <2>6, <2>7, <2>8, <2>9 DEF U
<1> QED BY <1>2, <1>3

\* The same of the shared tree, whose nodes hold members of groups.
ShareHas(T, p, g, s, q) ==
  p \in DOMAIN T /\ g \in DOMAIN T[p] /\ s \in DOMAIN T[p][g] /\ T[p][g][s] = q
SharesOK(T) ==
  \A p \in DOMAIN T : \A g \in DOMAIN T[p] : \A s \in DOMAIN T[p][g] : T[p][g][s] \in 0 .. MaxQos
ShareBusy(T) == {p \in DOMAIN T : ~ Share!HasNobody(T[p])}

\* The three trees walk, grow and shrink the same way.
LEMMA SameWalks ==
  /\ \A t : Share!PathOf(t) = PathOf(t) /\ (Share!Accepted(t) <=> Accepted(t))
  /\ \A t : Walk(Sys!nextTopicLevel, t) = Walk(nextTopicLevel, t)
  /\ \A t : Walk(Sys!nextRTopicLevel, t) = Walk(nextTopicLevel, t)
  /\ \A t : Sys!Walk(Sys!nextTopicLevel, t) = Walk(nextTopicLevel, t)
  /\ \A t : Sys!Walk(Sys!nextRTopicLevel, t) = Walk(nextTopicLevel, t)
<1> USE DEF Share!SWC, SWC, Share!MWC, MWC, Share!Error, Error, Sys!SWC, Sys!MWC, Sys!Error
<1>1. \A t : Share!nextTopicLevel(t) = nextTopicLevel(t)
  BY DEF Share!nextTopicLevel, nextTopicLevel
<1>2. \A t : Sys!nextTopicLevel(t) = nextTopicLevel(t)
  BY DEF Sys!nextTopicLevel, nextTopicLevel
<1>3. \A t : Sys!nextRTopicLevel(t) = nextTopicLevel(t)
  BY DEF Sys!nextRTopicLevel, nextTopicLevel
<1>4. \A t : Share!IsEmpty(t) <=> IsEmpty(t)
  BY DEF Share!IsEmpty, IsEmpty
<1>5. \A t : Sys!IsEmpty(t) <=> IsEmpty(t)
  BY DEF Sys!IsEmpty, IsEmpty
<1>6. \A t, i : Share!From(t, i) = From(t, i)
  BY DEF Share!From, From
<1>7. \A t, i : Sys!From(t, i) = From(t, i)
  BY DEF Sys!From, From
<1>8. \A S : Share!Min(S) = Min(S)
  BY DEF Share!Min, Min
<1>9. \A S : Sys!Min(S) = Min(S)
  BY DEF Sys!Min, Min
<1>10. ASSUME NEW t
       PROVE  Share!PathOf(t) = PathOf(t) /\ (Share!Accepted(t) <=> Accepted(t))
  BY <1>1, <1>4, <1>6, <1>8 DEF Share!PathOf, PathOf, Share!Accepted, Accepted, Share!Walk, Walk
<1>11. ASSUME NEW t
       PROVE  /\ Walk(Sys!nextTopicLevel, t) = Walk(nextTopicLevel, t)
              /\ Walk(Sys!nextRTopicLevel, t) = Walk(nextTopicLevel, t)
  BY <1>2, <1>3 DEF Walk
<1>12. ASSUME NEW t
       PROVE  /\ Sys!Walk(Sys!nextTopicLevel, t) = Walk(nextTopicLevel, t)
              /\ Sys!Walk(Sys!nextRTopicLevel, t) = Walk(nextTopicLevel, t)
  BY <1>2, <1>3, <1>5, <1>7, <1>9 DEF Walk, Sys!Walk
<1> QED BY <1>10, <1>11, <1>12

\* The copies of the tree operations that the shared and the system tree carry
\* are the operations themselves.
LEMMA SameTrees ==
  /\ \A S : Share!Min(S) = Min(S)
  /\ \A T, p, new : Share!Grown(T, p, new) = Grown(T, p, new) /\ Sys!Grown(T, p, new) = Grown(T, p, new)
  /\ \A T, p, idle : Share!Pruned(T, p, idle) = Pruned(T, p, idle) /\ Sys!Pruned(T, p, idle) = Pruned(T, p, idle)
  /\ \A T, p, l : Share!Child(T, p, l) = Child(T, p, l) /\ Sys!Child(T, p, l) = Child(T, p, l)
<1>1. \A p : Share!Prefixes(p) = Prefixes(p) /\ Sys!Prefixes(p) = Prefixes(p)
  BY DEF Share!Prefixes, Prefixes, Sys!Prefixes
<1>2. \A p, q : /\ Share!IsPrefix(p, q) <=> IsPrefix(p, q)
                /\ Sys!IsPrefix(p, q) <=> IsPrefix(p, q)
  BY DEF Share!IsPrefix, IsPrefix, Sys!IsPrefix
<1>3. \A T, p : Share!Below(T, p) = Below(T, p) /\ Sys!Below(T, p) = Below(T, p)
  BY <1>2 DEF Share!Below, Below, Sys!Below
<1>4. \A S : Share!Min(S) = Min(S)
  BY DEF Share!Min, Min
<1>5. \A T, p, new : Share!Grown(T, p, new) = Grown(T, p, new) /\ Sys!Grown(T, p, new) = Grown(T, p, new)
  BY <1>1 DEF Share!Grown, Grown, Sys!Grown
<1>6. \A T, p, idle : Share!Pruned(T, p, idle) = Pruned(T, p, idle) /\ Sys!Pruned(T, p, idle) = Pruned(T, p, idle)
  BY <1>1, <1>3 DEF Share!Pruned, Pruned, Sys!Pruned
<1>7. \A T, p, l : Share!Child(T, p, l) = Child(T, p, l) /\ Sys!Child(T, p, l) = Child(T, p, l)
  BY DEF Share!Child, Child, Sys!Child
<1> QED BY <1>4, <1>5, <1>6, <1>7

\* The system tree is changed as the plain one is.
LEMMA SysAsPlain ==
  /\ \A T, t, s, q : Sys!sinsert(T, t, s, q) = sinsert(T, t, s, q)
  /\ \A T, t, s : Sys!sremove(T, t, s) = sremove(T, t, s)
  /\ \A n : Sys!HasNobody(n) <=> HasNobody(n)
<1>1. \A n : Sys!HasNobody(n) <=> HasNobody(n)
  BY DEF Sys!HasNobody, HasNobody
<1>2. ASSUME NEW T, NEW t, NEW s, NEW q
      PROVE  Sys!sinsert(T, t, s, q) = sinsert(T, t, s, q)
  BY SameWalks, SameTrees DEF Sys!sinsert, sinsert, Sys!newRSNode, newSNode, PathOf, Accepted, equal, Sys!equal
<1>3. ASSUME NEW T, NEW t, NEW s
      PROVE  Sys!sremove(T, t, s) = sremove(T, t, s)
  BY SameWalks, SameTrees, <1>1
  DEF Sys!sremove, sremove, PathOf, Accepted, Unsubscribed, equal, Sys!equal
<1> QED BY <1>1, <1>2, <1>3

\* A shared subscription makes its path, sets its own member of its group and
\* changes no other; a refused one only leaves the nodes of its way.
LEMMA ShareInsert ==
  ASSUME NEW T, PathTree(T), SharesOK(T), NEW g, NEW t, IsTopic(t), NEW s \in Subs, NEW q \in 0 .. MaxQos
  PROVE  /\ PathTree(Share!sinsert(T, g, t, s, q)) /\ SharesOK(Share!sinsert(T, g, t, s, q))
         /\ \A R : Reached(T, ShareBusy(T), R) /\ (Accepted(t) \/ Prefixes(PathOf(t)) \subseteq R) =>
              Reached(Share!sinsert(T, g, t, s, q), ShareBusy(Share!sinsert(T, g, t, s, q)), R)
         /\ \A p, h, r, x : ShareHas(Share!sinsert(T, g, t, s, q), p, h, r, x) <=>
              IF Accepted(t) /\ p = PathOf(t) /\ h = g /\ r = s THEN x = q ELSE ShareHas(T, p, h, r, x)
<1> DEFINE p == PathOf(t)
           G == Grown(T, p, Share!newSNode)
           U == Share!sinsert(T, g, t, s, q)
           was == Share!Members(G[p], g)
           group == [r \in DOMAIN was \cup {s} |-> IF r = s THEN q ELSE was[r]]
           node == [h \in DOMAIN G[p] \cup {g} |-> IF h = g THEN group ELSE G[p][h]]
<1>1. p \in Paths
  BY WalkFacts
<1>2. DOMAIN Share!newSNode = {}
  BY DEF Share!newSNode
<1>3. /\ PathTree(G) /\ p \in DOMAIN G /\ DOMAIN G = DOMAIN T \cup Prefixes(p)
      /\ \A n \in DOMAIN T : G[n] = T[n]
      /\ \A n \in DOMAIN G \ DOMAIN T : DOMAIN G[n] = {}
  <2> HIDE DEF p
  <2>1. /\ PathTree(G) /\ p \in DOMAIN G /\ DOMAIN G = DOMAIN T \cup Prefixes(p)
        /\ \A n \in DOMAIN T : G[n] = T[n]
        /\ \A n \in DOMAIN G \ DOMAIN T : G[n] = Share!newSNode
    BY <1>1, GrownTree
  <2> HIDE DEF G
  <2> QED BY <1>2, <2>1
<1>4. U = IF Accepted(t) THEN [G EXCEPT ![p] = node] ELSE G
  BY SameWalks, SameTrees DEF Share!sinsert, Share!equal, Share!SetMembers
<1> HIDE DEF G, U, p
<1>5. /\ DOMAIN node = DOMAIN G[p] \cup {g} /\ node[g] = group
      /\ \A h \in DOMAIN G[p] \ {g} : node[h] = G[p][h]
  <2> HIDE DEF group
  <2> QED OBVIOUS
<1>6. DOMAIN group = DOMAIN was \cup {s} /\ group[s] = q /\ \A r \in DOMAIN was \ {s} : group[r] = was[r]
  OBVIOUS
<1>7. /\ g \in DOMAIN G[p] => was = G[p][g]
      /\ g \notin DOMAIN G[p] => DOMAIN was = {}
  BY DEF Share!Members
<1> HIDE DEF node, group, was
<1>8. SharesOK(G)
  BY <1>3 DEF SharesOK
<1>9. \A m, h, r, x : ShareHas(G, m, h, r, x) <=> ShareHas(T, m, h, r, x)
  BY <1>3 DEF ShareHas
<1>10. \A m : m \in ShareBusy(G) <=> m \in ShareBusy(T)
  BY <1>3 DEF ShareBusy, Share!HasNobody
<1>11. CASE ~ Accepted(t)
  <2>1. \A R : Reached(T, ShareBusy(T), R) /\ Prefixes(p) \subseteq R => Reached(G, ShareBusy(G), R)
    BY <1>1, <1>3, <1>10, ReachedGrown
  <2> QED BY <1>3, <1>4, <1>8, <1>9, <1>11, <2>1 DEF U, p
<1>12. CASE Accepted(t)
  <2>1. DOMAIN U = DOMAIN G /\ U[p] = node /\ \A n \in DOMAIN G \ {p} : U[n] = G[n]
    BY <1>3, <1>4, <1>12
  <2>2. SharesOK(U)
    <3>1. \A h \in DOMAIN node : \A r \in DOMAIN node[h] : node[h][r] \in 0 .. MaxQos
      BY <1>3, <1>5, <1>6, <1>7, <1>8 DEF SharesOK
    <3> QED BY <1>8, <2>1, <3>1 DEF SharesOK
  <2>3. PathTree(U)
    BY <1>3, <2>1 DEF PathTree, IsTree
  <2>4. p \in ShareBusy(U)
    <3>1. p \in DOMAIN U /\ g \in DOMAIN U[p] /\ s \in DOMAIN U[p][g]
      BY <1>3, <1>5, <1>6, <2>1
    <3> QED BY <3>1 DEF ShareBusy, Share!HasNobody
  <2>5. ShareBusy(T) \subseteq ShareBusy(U)
    BY <1>3, <1>10, <2>1, <2>4 DEF ShareBusy
  <2>6. ASSUME NEW m, NEW h, NEW r, NEW x
        PROVE  ShareHas(U, m, h, r, x) <=> IF m = p /\ h = g /\ r = s THEN x = q ELSE ShareHas(G, m, h, r, x)
    BY <1>3, <1>5, <1>6, <1>7, <2>1 DEF ShareHas
  <2>7. \A R : Reached(T, ShareBusy(T), R) => Reached(U, ShareBusy(U), R)
    BY <1>1, <1>3, <2>1, <2>4, <2>5, ReachedGrown
  <2> QED BY <1>9, <1>12, <2>2, <2>3, <2>6, <2>7 DEF U, p
<1> QED BY <1>11, <1>12

\* Ending a shared subscription takes one member out, and the nodes that held
\* nobody else with it: what is left still leads somewhere.
LEMMA ShareRemove ==
  ASSUME NEW T, PathTree(T), SharesOK(T), NEW g, NEW t, IsTopic(t), NEW s, NEW R, Closed(R), Reached(T, ShareBusy(T), R)
  PROVE  /\ PathTree(Share!sremove(T, g, t, s)) /\ SharesOK(Share!sremove(T, g, t, s))
         /\ Reached(Share!sremove(T, g, t, s), ShareBusy(Share!sremove(T, g, t, s)), R)
         /\ \A p, h, r, x : ShareHas(Share!sremove(T, g, t, s), p, h, r, x) <=>
              ShareHas(T, p, h, r, x) /\ ~ (Accepted(t) /\ p = PathOf(t) /\ h = g /\ r = s)
<1> DEFINE p == PathOf(t)
           was == Share!Members(T[p], g)
           group == [r \in {m \in DOMAIN was : m # s} |-> was[r]]
           node == [h \in DOMAIN T[p] \cup {g} |-> IF h = g THEN group ELSE T[p][h]]
           L == [T EXCEPT ![p] = node]
           idle == {n \in DOMAIN L : Share!HasNobody(L[n])}
           P == Pruned(L, p, idle)
           U == Share!sremove(T, g, t, s)
<1>1. U = IF Accepted(t) /\ p \in DOMAIN T /\ s \in DOMAIN was THEN P ELSE T
  BY SameWalks, SameTrees DEF Share!sremove, Share!equal, Share!SetMembers
<1>2. /\ g \in DOMAIN T[p] => was = T[p][g]
      /\ g \notin DOMAIN T[p] => DOMAIN was = {}
  BY DEF Share!Members
<1>3. /\ DOMAIN node = DOMAIN T[p] \cup {g} /\ node[g] = group
      /\ \A h \in DOMAIN T[p] \ {g} : node[h] = T[p][h]
  <2> HIDE DEF group, p, was
  <2> QED OBVIOUS
<1>4. DOMAIN group = DOMAIN was \ {s} /\ \A r \in DOMAIN group : group[r] = was[r]
  <2> HIDE DEF p, was
  <2> QED OBVIOUS
<1> HIDE DEF U, was, group
<1>5. CASE ~ (Accepted(t) /\ p \in DOMAIN T /\ s \in DOMAIN was)
  <2>1. U = T
    BY <1>1, <1>5
  <2>2. \A m, h, r, x : ShareHas(T, m, h, r, x) => ~ (Accepted(t) /\ m = p /\ h = g /\ r = s)
    BY <1>2, <1>5 DEF ShareHas
  <2> QED BY <2>1, <2>2 DEF U
<1>6. CASE Accepted(t) /\ p \in DOMAIN T /\ s \in DOMAIN was
  <2>1. DOMAIN L = DOMAIN T /\ L[p] = node /\ \A n \in DOMAIN T \ {p} : L[n] = T[n]
    <3> HIDE DEF node, p
    <3> QED BY <1>6
  <2> HIDE DEF node, L
  <2>2. SharesOK(L)
    <3>1. \A h \in DOMAIN node : \A r \in DOMAIN node[h] : node[h][r] \in 0 .. MaxQos
      BY <1>2, <1>3, <1>4, <1>6 DEF SharesOK
    <3> QED BY <2>1, <3>1 DEF SharesOK
  <2>3. PathTree(L) /\ p \in DOMAIN L
    BY <1>6, <2>1 DEF PathTree, IsTree
  <2> HIDE DEF idle
  <2>4. /\ PathTree(P) /\ DOMAIN P \subseteq DOMAIN L
        /\ \A q \in DOMAIN P : P[q] = L[q]
        /\ \A q \in DOMAIN L \ DOMAIN P : q \in idle
    BY <2>3, PrunedTree
  <2> HIDE DEF P
  <2>5. SharesOK(P)
    BY <2>2, <2>4 DEF SharesOK
  <2>6. Reached(P, ShareBusy(P), R)
    <3>1. ShareBusy(T) \subseteq (DOMAIN L \ idle) \cup {p}
      BY <2>1 DEF ShareBusy, idle
    <3>2. Reached(L, (DOMAIN L \ idle) \cup {p}, R)
      BY <2>1, <3>1 DEF Reached
    <3>3. Reached(P, DOMAIN P \ idle, R)
      BY <2>3, <3>2, ReachedPruned DEF P
    <3>4. DOMAIN P \ idle = ShareBusy(P)
      BY <2>4 DEF ShareBusy, idle
    <3> QED BY <3>3, <3>4
  <2>7. ASSUME NEW m, NEW h, NEW r, NEW x
        PROVE  ShareHas(P, m, h, r, x) <=> ShareHas(T, m, h, r, x) /\ ~ (m = p /\ h = g /\ r = s)
    <3>1. ShareHas(P, m, h, r, x) <=> ShareHas(L, m, h, r, x)
      BY <2>4 DEF ShareHas, idle, Share!HasNobody
    <3>2. ShareHas(L, m, h, r, x) <=> ShareHas(T, m, h, r, x) /\ ~ (m = p /\ h = g /\ r = s)
      BY <1>2, <1>3, <1>4, <1>6, <2>1 DEF ShareHas
    <3> QED BY <3>1, <3>2
  <2>8. U = P
    BY <1>1, <1>6 DEF P, idle, L, node, group
  <2> QED BY <2>8, <1>6, <2>4, <2>5, <2>6, <2>7 DEF U
<1> QED BY <1>5, <1>6

-----------------------------------------------------------------------------
(* What the clients know of: the live subscriptions *)

LiveOK(e) ==
  /\ e = Entry(e.tree, e.share, e.filter, e.sub, e.qos)
  /\ e.tree \in {"plain", "sys", "share"} /\ (e.tree # "share" => e.share = "")
  /\ e.tree = "share" => e.filter # <<"">>
  /\ e.sub \in Subs /\ e.qos \in 0 .. MaxQos
  /\ IsTopic(e.filter) /\ Accepted(e.filter)

\* Entry e has this place.
At(e, T, g, p, s) == e.tree = T /\ e.share = g /\ e.path = p /\ e.sub = s

\* Someone lives in a place of a tree.
LiveAt(L, T, g, p, s, q) ==
  \E d \in L : At(d, T, g, p, s) /\ d.qos = q

\* The fields of an entry.
LEMMA EntryFields ==
  ASSUME NEW T, NEW g, NEW f, NEW s, NEW q
  PROVE  LET e == Entry(T, g, f, s, q)
         IN  /\ e.tree = T /\ e.share = g /\ e.filter = f /\ e.path = PathOf(f)
             /\ e.sub = s /\ e.qos = q
             /\ \A x : [e EXCEPT !.qos = x] = Entry(T, g, f, s, x)
BY DEF Entry

\* A live subscription is the entry of its own fields, at the path of its filter.
LEMMA LiveShape ==
  ASSUME NEW d, LiveOK(d), NEW x
  PROVE  /\ [d EXCEPT !.qos = x] = Entry(d.tree, d.share, d.filter, d.sub, x)
         /\ [d EXCEPT !.qos = d.qos] = d
         /\ d.path = PathOf(d.filter)
<1> DEFINE T == d.tree  g == d.share  f == d.filter  s == d.sub  q == d.qos
<1>1. d = Entry(T, g, f, s, q)
  BY DEF LiveOK
<1> HIDE DEF T, g, f, s, q
<1>2. [d EXCEPT !.qos = x] = Entry(T, g, f, s, x) /\ [d EXCEPT !.qos = q] = d /\ d.path = PathOf(f)
  BY <1>1 DEF Entry
<1> QED BY <1>2 DEF T, g, f, s, q

\* A live subscription stands at the path of its filter.
LEMMA LivePath ==
  ASSUME NEW d, LiveOK(d)
  PROVE  d.path = PathOf(d.filter)
BY LiveShape

\* Joining puts one entry in its place and nothing else.
LEMMA JoinsLive ==
  ASSUME \A d \in live : LiveOK(d), NEW e, LiveOK(e), Joins(e)
  PROVE  /\ \A d \in live' : LiveOK(d)
         /\ \A T, g, p, s, q : LiveAt(live', T, g, p, s, q) <=>
              IF At(e, T, g, p, s) THEN q = e.qos ELSE LiveAt(live, T, g, p, s, q)
<1> DEFINE Same == {[e EXCEPT !.qos = q] : q \in 0 .. 2}
           Put(d) == [d EXCEPT !.qos = IF SamePlace(d, e) THEN e.qos ELSE @]
<1>1. live' = {e} \cup {Put(d) : d \in live \ Same}
  BY DEF Joins, LiveOK
<1>2. \A d : SamePlace(d, e) <=> At(d, e.tree, e.share, e.path, e.sub)
  BY DEF SamePlace, At
<1>3. \A d \in Same : SamePlace(d, e)
  <2>1. \A x : [e EXCEPT !.qos = x] = Entry(e.tree, e.share, e.filter, e.sub, x) /\ e.path = PathOf(e.filter)
    BY LiveShape
  <2> QED BY <1>2, <2>1, EntryFields DEF At
<1>4. ASSUME NEW d \in live
      PROVE  /\ LiveOK(Put(d)) /\ \A T, g, p, s : At(Put(d), T, g, p, s) <=> At(d, T, g, p, s)
             /\ SamePlace(d, e) => Put(d).qos = e.qos
             /\ ~ SamePlace(d, e) => Put(d) = d
  <2> DEFINE x == IF SamePlace(d, e) THEN e.qos ELSE d.qos
  <2>0. LiveOK(d)
    OBVIOUS
  <2>1. Put(d) = Entry(d.tree, d.share, d.filter, d.sub, x) /\ d.path = PathOf(d.filter)
    <3>1. Put(d) = [d EXCEPT !.qos = x]
      OBVIOUS
    <3> HIDE DEF x, Put
    <3> QED BY <2>0, <3>1, LiveShape
  <2>2. x \in 0 .. MaxQos
    BY DEF LiveOK
  <2>3. ~ SamePlace(d, e) => Put(d) = d
    BY <2>0, LiveShape
  <2> HIDE DEF Put
  <2>4. /\ Put(d).tree = d.tree /\ Put(d).share = d.share /\ Put(d).filter = d.filter
        /\ Put(d).path = d.path /\ Put(d).sub = d.sub /\ Put(d).qos = x
    <3> HIDE DEF x
    <3> QED BY <2>1, EntryFields
  <2>5. LiveOK(Put(d))
    <3> HIDE DEF x
    <3> QED BY <2>1, <2>2, <2>4 DEF LiveOK
  <2> QED BY <2>3, <2>4, <2>5 DEF At
<1> HIDE DEF Put, Same
<1>5. \A d \in live' : LiveOK(d)
  BY <1>1, <1>4
<1>6. ASSUME NEW T, NEW g, NEW p, NEW s, At(e, T, g, p, s)
      PROVE  \A d : SamePlace(d, e) <=> At(d, T, g, p, s)
  BY <1>2, <1>6 DEF At
<1>7. ASSUME NEW T, NEW g, NEW p, NEW s, ~ At(e, T, g, p, s)
      PROVE  \A d : At(d, T, g, p, s) => ~ SamePlace(d, e)
  BY <1>2, <1>7 DEF At
<1>8. ASSUME NEW T, NEW g, NEW p, NEW s, NEW q, At(e, T, g, p, s)
      PROVE  LiveAt(live', T, g, p, s, q) <=> q = e.qos
  BY <1>1, <1>4, <1>6, <1>8 DEF LiveAt
<1>9. ASSUME NEW T, NEW g, NEW p, NEW s, NEW q, ~ At(e, T, g, p, s)
      PROVE  LiveAt(live', T, g, p, s, q) <=> LiveAt(live, T, g, p, s, q)
  <2>1. ASSUME LiveAt(live', T, g, p, s, q) PROVE LiveAt(live, T, g, p, s, q)
    <3>1. PICK d \in live' : At(d, T, g, p, s) /\ d.qos = q
      BY <2>1 DEF LiveAt
    <3>2. PICK b \in live : d = Put(b)
      BY <1>1, <1>9, <3>1
    <3>3. At(b, T, g, p, s) /\ d = b
      BY <1>4, <1>7, <1>9, <3>1, <3>2
    <3> QED BY <3>1, <3>3 DEF LiveAt
  <2>2. ASSUME LiveAt(live, T, g, p, s, q) PROVE LiveAt(live', T, g, p, s, q)
    <3>1. PICK d \in live : At(d, T, g, p, s) /\ d.qos = q
      BY <2>2 DEF LiveAt
    <3>2. d \in live'
      BY <1>1, <1>3, <1>4, <1>7, <1>9, <3>1
    <3> QED BY <3>1, <3>2 DEF LiveAt
  <2> QED BY <2>1, <2>2
<1> QED BY <1>5, <1>8, <1>9

\* Leaving takes the entries of one place.
LEMMA LeavesLive ==
  ASSUME \A d \in live : LiveOK(d), NEW e, Leaves(e)
  PROVE  /\ \A d \in live' : LiveOK(d)
         /\ \A T, g, p, s, q : LiveAt(live', T, g, p, s, q) <=>
              LiveAt(live, T, g, p, s, q) /\ ~ (Accepted(e.filter) /\ At(e, T, g, p, s))
<1>1. live' = {d \in live : ~ (Accepted(e.filter) /\ SamePlace(d, e))}
  BY DEF Leaves
<1>2. \A d, T, g, p, s : At(d, T, g, p, s) => (SamePlace(d, e) <=> At(e, T, g, p, s))
  BY DEF SamePlace, At
<1> QED BY <1>1, <1>2 DEF LiveAt

\* A tree holds what is live in it.
Mirrors(T, name) == \A p, s, q : Has(T, p, s, q) <=> LiveAt(live, name, "", p, s, q)
ShareMirrors == \A p, g, s, q : ShareHas(share, p, g, s, q) <=> LiveAt(live, "share", g, p, s, q)

SInv ==
  /\ work \in Workloads
  /\ PathTree(sroot) /\ PathTree(sys) /\ PathTree(share)
  /\ NodesOK(sroot) /\ NodesOK(sys) /\ SharesOK(share)
  /\ Reached(sroot, Busy(sroot), RefusedPaths(PlainAsked))
  /\ Reached(sys, Busy(sys), RefusedPaths(SysAsked))
  /\ Reached(share, ShareBusy(share), RefusedPaths(ShareAsked))
  /\ \A e \in live : LiveOK(e)
  /\ Mirrors(sroot, "plain") /\ Mirrors(sys, "sys") /\ ShareMirrors

\* The lower of two numbers.
LEMMA MinOfTwo ==
  ASSUME NEW a \in Nat, NEW b \in Nat
  PROVE  Min({a, b}) = IF a <= b THEN a ELSE b
<1>1. Min({a, b}) \in {a, b} /\ \A y \in {a, b} : Min({a, b}) <= y
  BY MinIsLeast
<1> QED BY <1>1

\* A granted QoS is one.
LEMMA GrantedOK ==
  ASSUME NEW q \in Qoses
  PROVE  Granted(q) \in 0 .. MaxQos
<1>1. q \in Nat /\ MaxQos \in Nat
  BY TopicsAssumption
<1>2. Granted(q) = IF q <= MaxQos THEN q ELSE MaxQos
  BY <1>1, MinOfTwo DEF Granted
<1> QED BY <1>1, <1>2

\* What clients ask for are topics, without the prefix for the tree too.
LEMMA AskedTopics ==
  ASSUME NEW w \in Workloads, NEW t \in w.filters
  PROVE  /\ IsTopic(t)
         /\ IsSysSub(t) => IsTopic(Tail(t))
         /\ IsShareSub(t) /\ ShareWellFormed(t) => IsTopic(From(t, 3)) /\ From(t, 3) # <<"">>
<1>1. IsTopic(t)
  BY TopicsAssumption
<1>2. t \in Seq(Levels) /\ t # <<>> /\ Len(t) \in Nat
  BY <1>1, LenProperties DEF IsTopic
<1>3. ASSUME Len(t) > 1
      PROVE  IsTopic(Tail(t))
  <2>1. Tail(t) \in Seq(Levels) /\ Len(Tail(t)) = Len(t) - 1
    BY <1>2, HeadTailProperties
  <2>2. Len(Tail(t)) > 0
    <3>1. Len(t) - 1 > 0
      BY <1>2, <1>3
    <3> QED BY <2>1, <3>1, Zenon
  <2>3. Tail(t) # <<>>
    BY <2>2, PrefixOrder
  <2> QED BY <2>1, <2>3 DEF IsTopic
<1>4. ASSUME Len(t) > 2
      PROVE  IsTopic(From(t, 3))
  <2>1. 3 \in 1 .. Len(t)
    BY <1>2, <1>4
  <2> QED BY <1>1, <2>1, RestLevels DEF IsTopic, Paths
<1> QED BY <1>1, <1>3, <1>4 DEF IsSysSub, IsShareSub, ShareWellFormed

\* What refused filters may leave behind is closed under prefixes.
LEMMA AskedClosed ==
  ASSUME work \in Workloads, NEW R \in {RefusedPaths(PlainAsked), RefusedPaths(SysAsked), RefusedPaths(ShareAsked)}
  PROVE  Closed(R)
<1>1. (\A f \in PlainAsked : IsTopic(f)) /\ (\A f \in SysAsked : IsTopic(f)) /\ (\A f \in ShareAsked : IsTopic(f))
  BY AskedTopics DEF PlainAsked, SysAsked, ShareAsked
<1> QED BY <1>1, RefusedClosed

\* The three empty trees mirror the empty set of live subscriptions.
LEMMA SubscriptionsStart == Init => SInv
<1> SUFFICES ASSUME Init PROVE SInv
  OBVIOUS
<1>1. work \in Workloads /\ live = {}
  BY DEF Init
<1>2. /\ DOMAIN sroot = {<<>>} /\ sroot[<<>>] = newSNode
      /\ DOMAIN share = {<<>>} /\ share[<<>>] = Share!newSNode
      /\ DOMAIN sys = {<<>>} /\ sys[<<>>] = Sys!newRSNode
  BY DEF Init, Root
<1>3. newSNode = <<>> /\ Share!newSNode = <<>> /\ Sys!newRSNode = <<>>
  BY DEF newSNode, Share!newSNode, Sys!newRSNode
<1>4. <<>> \in Paths /\ Prefixes(<<>>) \subseteq {<<>>}
  <2>1. ASSUME NEW q \in Paths, IsPrefix(q, <<>>)
        PROVE  q = <<>>
    <3>1. Len(q) <= 0
      BY <2>1, PrefixOrder, PrefixAgrees
    <3>2. q # <<>> => Len(q) \in Nat \ {0}
      BY EmptySeq DEF Paths
    <3> QED BY <3>1, <3>2
  <2> QED BY <2>1, PrefixOrder, PrefixesAre
<1>5. PathTree(sroot) /\ PathTree(sys) /\ PathTree(share)
  BY <1>2, <1>4 DEF PathTree, IsTree
<1>6. NodesOK(sroot) /\ NodesOK(sys) /\ SharesOK(share)
  BY <1>2, <1>3, EmptyNode DEF NodesOK, SharesOK
<1>7. /\ Reached(sroot, Busy(sroot), RefusedPaths(PlainAsked))
      /\ Reached(sys, Busy(sys), RefusedPaths(SysAsked))
      /\ Reached(share, ShareBusy(share), RefusedPaths(ShareAsked))
  BY <1>2 DEF Reached
<1>8. Mirrors(sroot, "plain") /\ Mirrors(sys, "sys") /\ ShareMirrors
  BY <1>1, <1>2, <1>3, EmptyNode DEF Mirrors, ShareMirrors, Has, ShareHas, LiveAt
<1> QED BY <1>1, <1>5, <1>6, <1>7, <1>8 DEF SInv

\* An insertion in the plain or the system tree, and what clients know of it.
LEMMA TreeJoins ==
  ASSUME \A d \in live : LiveOK(d), NEW name \in {"plain", "sys"},
         NEW T, PathTree(T), NodesOK(T), Mirrors(T, name), NEW R, Reached(T, Busy(T), R),
         NEW f, IsTopic(f), NEW s \in Subs, NEW q \in 0 .. MaxQos,
         ~ Accepted(f) => Prefixes(PathOf(f)) \subseteq R,
         Joins(Entry(name, "", f, s, q)), NEW U, U = sinsert(T, f, s, q)
  PROVE  /\ PathTree(U) /\ NodesOK(U) /\ Reached(U, Busy(U), R)
         /\ \A d \in live' : LiveOK(d)
         /\ \A p, r, x : Has(U, p, r, x) <=> LiveAt(live', name, "", p, r, x)
         /\ \A other, g, p, r, x : other # name =>
              (LiveAt(live', other, g, p, r, x) <=> LiveAt(live, other, g, p, r, x))
<1> DEFINE none == ""
           e == Entry(name, none, f, s, q)
<1>1. e.tree = name /\ e.share = none /\ e.filter = f /\ e.path = PathOf(f) /\ e.sub = s /\ e.qos = q
  BY DEF Entry
<1>2. Joins(e) /\ \A p, r, x : Has(T, p, r, x) <=> LiveAt(live, name, none, p, r, x)
  BY DEF Mirrors
<1>3. Accepted(f) => LiveOK(e)
  <2>1. e = Entry(e.tree, e.share, e.filter, e.sub, e.qos)
    BY <1>1
  <2>2. name # "share"
    OBVIOUS
  <2> HIDE DEF e
  <2>3. e.tree \in {"plain", "sys", "share"} /\ (e.tree # "share" => e.share = "") /\ e.tree # "share"
    BY <1>1, <2>2
  <2> QED BY <1>1, <2>1, <2>3 DEF LiveOK
<1> HIDE DEF e, none
<1>4. /\ PathTree(U) /\ NodesOK(U) /\ DOMAIN U = DOMAIN T \cup Prefixes(PathOf(f))
      /\ Accepted(f) => PathOf(f) \in Busy(U)
      /\ \A p, r, x : Has(U, p, r, x) <=>
           IF Accepted(f) /\ p = PathOf(f) /\ r = s THEN x = q ELSE Has(T, p, r, x)
  BY PlainInsert
<1>5. Reached(U, Busy(U), R)
  <2>1. ASSUME NEW p \in Busy(T)
        PROVE  p \in Busy(U)
    <3>1. PICK r : Has(T, p, r, T[p][r])
      BY DEF Busy, HasNobody, Has
    <3>2. \E x : Has(U, p, r, x)
      BY <1>4, <3>1
    <3> QED BY <3>2 DEF Has, Busy, HasNobody
  <2>2. PathOf(f) \in Paths
    BY WalkFacts
  <2> QED BY <1>4, <2>1, <2>2, ReachedGrown
<1>6. CASE ~ Accepted(f)
  <2>1. live' = live
    BY <1>1, <1>2, <1>6 DEF Joins
  <2> QED BY <1>2, <1>4, <1>5, <1>6, <2>1 DEF none
<1>7. CASE Accepted(f)
  <2>1. /\ \A d \in live' : LiveOK(d)
        /\ \A t, g, p, r, x : LiveAt(live', t, g, p, r, x) <=>
             IF At(e, t, g, p, r) THEN x = e.qos ELSE LiveAt(live, t, g, p, r, x)
    BY <1>2, <1>3, <1>7, JoinsLive
  <2>2. \A p, r : At(e, name, none, p, r) <=> p = PathOf(f) /\ r = s
    BY <1>1 DEF At
  <2>3. \A t, g, p, r : t # name => ~ At(e, t, g, p, r)
    BY <1>1 DEF At
  <2>4. \A p, r, x : Has(U, p, r, x) <=> LiveAt(live', name, none, p, r, x)
    BY <1>1, <1>2, <1>4, <1>7, <2>1, <2>2
  <2> QED BY <1>4, <1>5, <2>1, <2>3, <2>4 DEF none
<1> QED BY <1>6, <1>7

\* A removal from one of them.
LEMMA TreeLeaves ==
  ASSUME \A d \in live : LiveOK(d), NEW name \in {"plain", "sys"},
         NEW T, PathTree(T), NodesOK(T), Mirrors(T, name), NEW R, Reached(T, Busy(T), R),
         Closed(R),
         NEW f, IsTopic(f), NEW s \in Subs,
         Leaves(Entry(name, "", f, s, 0)), NEW U, U = sremove(T, f, s)
  PROVE  /\ PathTree(U) /\ NodesOK(U) /\ Reached(U, Busy(U), R)
         /\ \A d \in live' : LiveOK(d)
         /\ \A p, r, x : Has(U, p, r, x) <=> LiveAt(live', name, "", p, r, x)
         /\ \A other, g, p, r, x : other # name =>
              (LiveAt(live', other, g, p, r, x) <=> LiveAt(live, other, g, p, r, x))
<1> DEFINE none == ""
           e == Entry(name, none, f, s, 0)
<1>1. e.tree = name /\ e.share = none /\ e.filter = f /\ e.path = PathOf(f) /\ e.sub = s
  BY DEF Entry
<1>2. Leaves(e) /\ \A p, r, x : Has(T, p, r, x) <=> LiveAt(live, name, none, p, r, x)
  BY DEF Mirrors
<1> HIDE DEF e, none
<1>3. /\ PathTree(U) /\ NodesOK(U) /\ Reached(U, Busy(U), R)
      /\ \A p, r, x : Has(U, p, r, x) <=>
           Has(T, p, r, x) /\ ~ (Accepted(f) /\ p = PathOf(f) /\ r = s)
  <2> DEFINE V == sremove(T, f, s)
  <2>1. /\ PathTree(V) /\ NodesOK(V) /\ Reached(V, Busy(V), R)
        /\ \A p, r, x : Has(V, p, r, x) <=>
             Has(T, p, r, x) /\ ~ (Accepted(f) /\ p = PathOf(f) /\ r = s)
    BY PlainRemove
  <2> QED BY <2>1
<1>4. /\ \A d \in live' : LiveOK(d)
      /\ \A t, g, p, r, x : LiveAt(live', t, g, p, r, x) <=>
           LiveAt(live, t, g, p, r, x) /\ ~ (Accepted(e.filter) /\ At(e, t, g, p, r))
  BY <1>2, LeavesLive
<1>5. \A p, r : At(e, name, none, p, r) <=> p = PathOf(f) /\ r = s
  BY <1>1 DEF At
<1>6. \A t, g, p, r : t # name => ~ At(e, t, g, p, r)
  BY <1>1 DEF At
<1>7. ASSUME NEW p, NEW r, NEW x
      PROVE  Has(U, p, r, x) <=> LiveAt(live', name, none, p, r, x)
  <2>1. Has(U, p, r, x) <=> Has(T, p, r, x) /\ ~ (Accepted(f) /\ p = PathOf(f) /\ r = s)
    BY <1>3
  <2>2. LiveAt(live', name, none, p, r, x) <=>
          LiveAt(live, name, none, p, r, x) /\ ~ (Accepted(f) /\ At(e, name, none, p, r))
    BY <1>1, <1>4
  <2>3. Has(T, p, r, x) <=> LiveAt(live, name, none, p, r, x)
    BY <1>2
  <2>4. At(e, name, none, p, r) <=> p = PathOf(f) /\ r = s
    BY <1>5
  <2> QED BY <2>1, <2>2, <2>3, <2>4
<1> QED BY <1>3, <1>4, <1>6, <1>7 DEF none

\* The same of the shared tree.
LEMMA ShareJoins ==
  ASSUME \A d \in live : LiveOK(d), NEW g, NEW T, PathTree(T), SharesOK(T),
         \A p, h, r, x : ShareHas(T, p, h, r, x) <=> LiveAt(live, "share", h, p, r, x),
         NEW R, Reached(T, ShareBusy(T), R),
         NEW f, IsTopic(f), f # <<"">>, NEW s \in Subs, NEW q \in 0 .. MaxQos,
         ~ Accepted(f) => Prefixes(PathOf(f)) \subseteq R,
         Joins(Entry("share", g, f, s, q)), NEW U, U = Share!sinsert(T, g, f, s, q)
  PROVE  /\ PathTree(U) /\ SharesOK(U) /\ Reached(U, ShareBusy(U), R)
         /\ \A d \in live' : LiveOK(d)
         /\ \A p, h, r, x : ShareHas(U, p, h, r, x) <=> LiveAt(live', "share", h, p, r, x)
         /\ \A other, h, p, r, x : other # "share" =>
              (LiveAt(live', other, h, p, r, x) <=> LiveAt(live, other, h, p, r, x))
<1> DEFINE name == "share"
           e == Entry(name, g, f, s, q)
<1>1. e.tree = name /\ e.share = g /\ e.filter = f /\ e.path = PathOf(f) /\ e.sub = s /\ e.qos = q
  BY DEF Entry
<1>2. Joins(e) /\ \A p, h, r, x : ShareHas(T, p, h, r, x) <=> LiveAt(live, name, h, p, r, x)
  OBVIOUS
<1>3. Accepted(f) => LiveOK(e)
  <2>1. e = Entry(e.tree, e.share, e.filter, e.sub, e.qos)
    BY <1>1
  <2> HIDE DEF e
  <2>2. e.tree \in {"plain", "sys", "share"} /\ e.tree = "share"
    BY <1>1
  <2> QED BY <1>1, <2>1, <2>2 DEF LiveOK
<1> HIDE DEF e, name
<1>4. /\ PathTree(U) /\ SharesOK(U)
      /\ \A p, h, r, x : ShareHas(U, p, h, r, x) <=>
           IF Accepted(f) /\ p = PathOf(f) /\ h = g /\ r = s THEN x = q ELSE ShareHas(T, p, h, r, x)
  BY ShareInsert
<1>5. Reached(U, ShareBusy(U), R)
  BY ShareInsert
<1>6. CASE ~ Accepted(f)
  <2>1. live' = live
    BY <1>1, <1>2, <1>6 DEF Joins
  <2> QED BY <1>2, <1>4, <1>5, <1>6, <2>1 DEF name
<1>7. CASE Accepted(f)
  <2>1. /\ \A d \in live' : LiveOK(d)
        /\ \A t, h, p, r, x : LiveAt(live', t, h, p, r, x) <=>
             IF At(e, t, h, p, r) THEN x = e.qos ELSE LiveAt(live, t, h, p, r, x)
    BY <1>2, <1>3, <1>7, JoinsLive
  <2>2. \A h, p, r : At(e, name, h, p, r) <=> p = PathOf(f) /\ h = g /\ r = s
    BY <1>1 DEF At
  <2>3. \A t, h, p, r : t # name => ~ At(e, t, h, p, r)
    BY <1>1 DEF At
  <2>4. ASSUME NEW p, NEW h, NEW r, NEW x
        PROVE  ShareHas(U, p, h, r, x) <=> LiveAt(live', name, h, p, r, x)
    <3>1. ShareHas(T, p, h, r, x) <=> LiveAt(live, name, h, p, r, x)
      BY <1>2
    <3>2. At(e, name, h, p, r) <=> p = PathOf(f) /\ h = g /\ r = s
      BY <2>2
    <3>3. LiveAt(live', name, h, p, r, x) <=>
            IF At(e, name, h, p, r) THEN x = e.qos ELSE LiveAt(live, name, h, p, r, x)
      BY <2>1
    <3> QED BY <1>1, <1>4, <1>7, <3>1, <3>2, <3>3
  <2> QED BY <1>4, <1>5, <2>1, <2>3, <2>4 DEF name
<1> QED BY <1>6, <1>7

\* Ending a shared subscription in the tree and among the live ones keeps the two
\* equal.
LEMMA ShareLeaves ==
  ASSUME \A d \in live : LiveOK(d), NEW g, NEW T, PathTree(T), SharesOK(T),
         \A p, h, r, x : ShareHas(T, p, h, r, x) <=> LiveAt(live, "share", h, p, r, x),
         NEW R, Reached(T, ShareBusy(T), R), Closed(R),
         NEW f, IsTopic(f), NEW s \in Subs,
         Leaves(Entry("share", g, f, s, 0)), NEW U, U = Share!sremove(T, g, f, s)
  PROVE  /\ PathTree(U) /\ SharesOK(U) /\ Reached(U, ShareBusy(U), R)
         /\ \A d \in live' : LiveOK(d)
         /\ \A p, h, r, x : ShareHas(U, p, h, r, x) <=> LiveAt(live', "share", h, p, r, x)
         /\ \A other, h, p, r, x : other # "share" =>
              (LiveAt(live', other, h, p, r, x) <=> LiveAt(live, other, h, p, r, x))
<1> DEFINE name == "share"
           e == Entry(name, g, f, s, 0)
<1>1. e.tree = name /\ e.share = g /\ e.filter = f /\ e.path = PathOf(f) /\ e.sub = s
  BY DEF Entry
<1>2. Leaves(e) /\ \A p, h, r, x : ShareHas(T, p, h, r, x) <=> LiveAt(live, name, h, p, r, x)
  OBVIOUS
<1> HIDE DEF e, name
<1>3. /\ PathTree(U) /\ SharesOK(U) /\ Reached(U, ShareBusy(U), R)
      /\ \A p, h, r, x : ShareHas(U, p, h, r, x) <=>
           ShareHas(T, p, h, r, x) /\ ~ (Accepted(f) /\ p = PathOf(f) /\ h = g /\ r = s)
  <2> DEFINE V == Share!sremove(T, g, f, s)
  <2>1. /\ PathTree(V) /\ SharesOK(V) /\ Reached(V, ShareBusy(V), R)
        /\ \A p, h, r, x : ShareHas(V, p, h, r, x) <=>
             ShareHas(T, p, h, r, x) /\ ~ (Accepted(f) /\ p = PathOf(f) /\ h = g /\ r = s)
    BY ShareRemove
  <2> QED BY <2>1
<1>4. /\ \A d \in live' : LiveOK(d)
      /\ \A t, h, p, r, x : LiveAt(live', t, h, p, r, x) <=>
           LiveAt(live, t, h, p, r, x) /\ ~ (Accepted(e.filter) /\ At(e, t, h, p, r))
  BY <1>2, LeavesLive
<1>5. \A h, p, r : At(e, name, h, p, r) <=> p = PathOf(f) /\ h = g /\ r = s
  BY <1>1 DEF At
<1>6. \A t, h, p, r : t # name => ~ At(e, t, h, p, r)
  BY <1>1 DEF At
<1>7. ASSUME NEW p, NEW h, NEW r, NEW x
      PROVE  ShareHas(U, p, h, r, x) <=> LiveAt(live', name, h, p, r, x)
  <2>1. ShareHas(U, p, h, r, x) <=>
          ShareHas(T, p, h, r, x) /\ ~ (Accepted(f) /\ p = PathOf(f) /\ h = g /\ r = s)
    BY <1>3
  <2>2. LiveAt(live', name, h, p, r, x) <=>
          LiveAt(live, name, h, p, r, x) /\ ~ (Accepted(f) /\ At(e, name, h, p, r))
    BY <1>1, <1>4
  <2>3. ShareHas(T, p, h, r, x) <=> LiveAt(live, name, h, p, r, x)
    BY <1>2
  <2>4. At(e, name, h, p, r) <=> p = PathOf(f) /\ h = g /\ r = s
    BY <1>5
  <2> QED BY <2>1, <2>2, <2>3, <2>4
<1> QED BY <1>3, <1>4, <1>6, <1>7 DEF name

-----------------------------------------------------------------------------
(* The invariant of the subscriptions *)

\* Where the refused filters of the workload left nodes does not change.
LEMMA AskedStays ==
  ASSUME work' = work
  PROVE  /\ RefusedPaths(PlainAsked)' = RefusedPaths(PlainAsked)
         /\ RefusedPaths(SysAsked)' = RefusedPaths(SysAsked)
         /\ RefusedPaths(ShareAsked)' = RefusedPaths(ShareAsked)
BY DEF RefusedPaths, PlainAsked, SysAsked, ShareAsked

\* One step of one of the trees, and the others.
LEMMA PlainTreeStep ==
  ASSUME SInv, work' = work, share' = share, sys' = sys,
         PathTree(sroot'), NodesOK(sroot'), Reached(sroot', Busy(sroot'), RefusedPaths(PlainAsked)),
         \A d \in live' : LiveOK(d),
         \A p, r, x : Has(sroot', p, r, x) <=> LiveAt(live', "plain", "", p, r, x),
         \A other, g, p, r, x : other # "plain" =>
              (LiveAt(live', other, g, p, r, x) <=> LiveAt(live, other, g, p, r, x))
  PROVE  SInv'
<1>1. "sys" # "plain" /\ "share" # "plain"
  OBVIOUS
<1>2. Mirrors(sys, "sys")'
  BY <1>1 DEF SInv, Mirrors
<1>3. ShareMirrors'
  BY <1>1 DEF SInv, ShareMirrors
<1>4. Mirrors(sroot, "plain")'
  BY DEF Mirrors
<1>5. /\ Reached(sroot, Busy(sroot), RefusedPaths(PlainAsked))'
      /\ Reached(sys, Busy(sys), RefusedPaths(SysAsked))'
      /\ Reached(share, ShareBusy(share), RefusedPaths(ShareAsked))'
  BY AskedStays DEF SInv
<1>6. work' \in Workloads /\ PathTree(sys') /\ PathTree(share') /\ NodesOK(sys') /\ SharesOK(share')
  BY DEF SInv
<1> QED BY <1>2, <1>3, <1>4, <1>5, <1>6 DEF SInv

\* A step of the system tree alone keeps the invariant, if it keeps the tree's part.
LEMMA SysTreeStep ==
  ASSUME SInv, work' = work, share' = share, sroot' = sroot,
         PathTree(sys'), NodesOK(sys'), Reached(sys', Busy(sys'), RefusedPaths(SysAsked)),
         \A d \in live' : LiveOK(d),
         \A p, r, x : Has(sys', p, r, x) <=> LiveAt(live', "sys", "", p, r, x),
         \A other, g, p, r, x : other # "sys" =>
              (LiveAt(live', other, g, p, r, x) <=> LiveAt(live, other, g, p, r, x))
  PROVE  SInv'
<1>1. "plain" # "sys" /\ "share" # "sys"
  OBVIOUS
<1>2. Mirrors(sroot, "plain")'
  BY <1>1 DEF SInv, Mirrors
<1>3. ShareMirrors'
  BY <1>1 DEF SInv, ShareMirrors
<1>4. Mirrors(sys, "sys")'
  BY DEF Mirrors
<1>5. /\ Reached(sroot, Busy(sroot), RefusedPaths(PlainAsked))'
      /\ Reached(sys, Busy(sys), RefusedPaths(SysAsked))'
      /\ Reached(share, ShareBusy(share), RefusedPaths(ShareAsked))'
  BY AskedStays DEF SInv
<1>6. work' \in Workloads /\ PathTree(sroot') /\ PathTree(share') /\ NodesOK(sroot') /\ SharesOK(share')
  BY DEF SInv
<1> QED BY <1>2, <1>3, <1>4, <1>5, <1>6 DEF SInv

\* A step of the shared tree alone keeps the invariant, if it keeps the tree's part.
LEMMA ShareTreeStep ==
  ASSUME SInv, work' = work, sys' = sys, sroot' = sroot,
         PathTree(share'), SharesOK(share'), Reached(share', ShareBusy(share'), RefusedPaths(ShareAsked)),
         \A d \in live' : LiveOK(d),
         \A p, g, r, x : ShareHas(share', p, g, r, x) <=> LiveAt(live', "share", g, p, r, x),
         \A other, g, p, r, x : other # "share" =>
              (LiveAt(live', other, g, p, r, x) <=> LiveAt(live, other, g, p, r, x))
  PROVE  SInv'
<1>1. "plain" # "share" /\ "sys" # "share"
  OBVIOUS
<1>2. Mirrors(sroot, "plain")'
  BY <1>1 DEF SInv, Mirrors
<1>3. Mirrors(sys, "sys")'
  BY <1>1 DEF SInv, Mirrors
<1>4. ShareMirrors'
  BY DEF ShareMirrors
<1>5. /\ Reached(sroot, Busy(sroot), RefusedPaths(PlainAsked))'
      /\ Reached(sys, Busy(sys), RefusedPaths(SysAsked))'
      /\ Reached(share, ShareBusy(share), RefusedPaths(ShareAsked))'
  BY AskedStays DEF SInv
<1>6. work' \in Workloads /\ PathTree(sroot') /\ PathTree(sys') /\ NodesOK(sroot') /\ NodesOK(sys')
  BY DEF SInv
<1> QED BY <1>2, <1>3, <1>4, <1>5, <1>6 DEF SInv

\* Subscribe, into whichever of the trees, keeps the invariant.
LEMMA SubscribeStep ==
  ASSUME SInv, NEW t \in work.filters, NEW s \in Subs, NEW q \in Qoses, Subscribe(t, s, q)
  PROVE  SInv'
<1> DEFINE x == Granted(q)
<1>1. work' = work /\ work \in Workloads /\ \A d \in live : LiveOK(d)
  BY DEF Subscribe, NextOp, SInv
<1>2. x \in 0 .. MaxQos
  BY GrantedOK
<1>3. SubscribePlain(t, s, x) \/ SubscribeSys(t, s, x) \/ SubscribeShare(t, s, x)
  BY DEF Subscribe
<1> HIDE DEF x
<1>4. CASE SubscribePlain(t, s, x)
  <2>1. IsTopic(t) /\ t \in PlainAsked
    BY <1>1, <1>4, AskedTopics DEF SubscribePlain, PlainAsked
  <2>2. ~ Accepted(t) => Prefixes(PathOf(t)) \subseteq RefusedPaths(PlainAsked)
    BY <2>1 DEF RefusedPaths
  <2>3. /\ sroot' = sinsert(sroot, t, s, x) /\ share' = share /\ sys' = sys
        /\ Joins(Entry("plain", "", t, s, x))
    BY <1>4 DEF SubscribePlain
  <2>4. /\ PathTree(sroot) /\ NodesOK(sroot) /\ Mirrors(sroot, "plain")
        /\ Reached(sroot, Busy(sroot), RefusedPaths(PlainAsked))
    BY DEF SInv
  <2>5. "plain" \in {"plain", "sys"}
    OBVIOUS
  <2>6. /\ PathTree(sroot') /\ NodesOK(sroot') /\ Reached(sroot', Busy(sroot'), RefusedPaths(PlainAsked))
        /\ \A d \in live' : LiveOK(d)
        /\ \A p, r, y : Has(sroot', p, r, y) <=> LiveAt(live', "plain", "", p, r, y)
        /\ \A other, g, p, r, y : other # "plain" =>
              (LiveAt(live', other, g, p, r, y) <=> LiveAt(live, other, g, p, r, y))
    BY <1>1, <1>2, <2>1, <2>2, <2>3, <2>4, <2>5, TreeJoins
  <2> QED BY <1>1, <2>3, <2>6, PlainTreeStep
<1>5. CASE SubscribeSys(t, s, x)
  <2>1. IsTopic(Tail(t)) /\ Tail(t) \in SysAsked
    BY <1>1, <1>5, AskedTopics DEF SubscribeSys, SysAsked
  <2>2. ~ Accepted(Tail(t)) => Prefixes(PathOf(Tail(t))) \subseteq RefusedPaths(SysAsked)
    BY <2>1 DEF RefusedPaths
  <2>3. /\ sys' = sinsert(sys, Tail(t), s, x) /\ share' = share /\ sroot' = sroot
        /\ Joins(Entry("sys", "", Tail(t), s, x))
    BY <1>5, SysAsPlain DEF SubscribeSys
  <2>4. /\ PathTree(sys) /\ NodesOK(sys) /\ Mirrors(sys, "sys")
        /\ Reached(sys, Busy(sys), RefusedPaths(SysAsked))
    BY DEF SInv
  <2>5. "sys" \in {"plain", "sys"}
    OBVIOUS
  <2>6. /\ PathTree(sys') /\ NodesOK(sys') /\ Reached(sys', Busy(sys'), RefusedPaths(SysAsked))
        /\ \A d \in live' : LiveOK(d)
        /\ \A p, r, y : Has(sys', p, r, y) <=> LiveAt(live', "sys", "", p, r, y)
        /\ \A other, g, p, r, y : other # "sys" =>
              (LiveAt(live', other, g, p, r, y) <=> LiveAt(live, other, g, p, r, y))
    BY <1>1, <1>2, <2>1, <2>2, <2>3, <2>4, <2>5, TreeJoins
  <2> QED BY <1>1, <2>3, <2>6, SysTreeStep
<1>6. CASE SubscribeShare(t, s, x)
  <2> DEFINE f == From(t, 3)
  <2>1. IsTopic(f) /\ f # <<"">> /\ f \in ShareAsked
    BY <1>1, <1>6, AskedTopics DEF SubscribeShare, ShareAsked
  <2>2. /\ share' = Share!sinsert(share, t[2], f, s, x) /\ sys' = sys /\ sroot' = sroot
        /\ Joins(Entry("share", t[2], f, s, x))
    BY <1>6 DEF SubscribeShare
  <2> HIDE DEF f
  <2>3. ~ Accepted(f) => Prefixes(PathOf(f)) \subseteq RefusedPaths(ShareAsked)
    BY <2>1 DEF RefusedPaths
  <2>4. /\ PathTree(share) /\ SharesOK(share)
        /\ \A p, g, r, y : ShareHas(share, p, g, r, y) <=> LiveAt(live, "share", g, p, r, y)
        /\ Reached(share, ShareBusy(share), RefusedPaths(ShareAsked))
    BY DEF SInv, ShareMirrors
  <2>5. /\ PathTree(share') /\ SharesOK(share') /\ Reached(share', ShareBusy(share'), RefusedPaths(ShareAsked))
        /\ \A d \in live' : LiveOK(d)
        /\ \A p, g, r, y : ShareHas(share', p, g, r, y) <=> LiveAt(live', "share", g, p, r, y)
        /\ \A other, g, p, r, y : other # "share" =>
              (LiveAt(live', other, g, p, r, y) <=> LiveAt(live, other, g, p, r, y))
    BY <1>1, <1>2, <2>1, <2>2, <2>3, <2>4, ShareJoins
  <2> QED BY <1>1, <2>2, <2>5, ShareTreeStep
<1> QED BY <1>3, <1>4, <1>5, <1>6

\* Unsubscribe, from whichever of the trees, keeps the invariant.
LEMMA UnsubscribeStep ==
  ASSUME SInv, NEW t \in work.filters, NEW s \in Subs, Unsubscribe(t, s)
  PROVE  SInv'
<1>1. work' = work /\ work \in Workloads /\ \A d \in live : LiveOK(d)
  BY DEF Unsubscribe, NextOp, SInv
<1>2. UnsubscribePlain(t, s) \/ UnsubscribeSys(t, s) \/ UnsubscribeShare(t, s)
  BY DEF Unsubscribe
<1>3. Closed(RefusedPaths(PlainAsked)) /\ Closed(RefusedPaths(SysAsked)) /\ Closed(RefusedPaths(ShareAsked))
  BY <1>1, AskedClosed
<1>4. CASE UnsubscribePlain(t, s)
  <2>1. IsTopic(t)
    BY <1>1, AskedTopics
  <2>2. /\ sroot' = sremove(sroot, t, s) /\ share' = share /\ sys' = sys
        /\ Leaves(Entry("plain", "", t, s, 0))
    BY <1>4 DEF UnsubscribePlain
  <2>3. /\ PathTree(sroot) /\ NodesOK(sroot) /\ Mirrors(sroot, "plain")
        /\ Reached(sroot, Busy(sroot), RefusedPaths(PlainAsked))
    BY DEF SInv
  <2>5. "plain" \in {"plain", "sys"}
    OBVIOUS
  <2>4. /\ PathTree(sroot') /\ NodesOK(sroot') /\ Reached(sroot', Busy(sroot'), RefusedPaths(PlainAsked))
        /\ \A d \in live' : LiveOK(d)
        /\ \A p, r, y : Has(sroot', p, r, y) <=> LiveAt(live', "plain", "", p, r, y)
        /\ \A other, g, p, r, y : other # "plain" =>
              (LiveAt(live', other, g, p, r, y) <=> LiveAt(live, other, g, p, r, y))
    BY <1>1, <1>3, <2>1, <2>2, <2>3, <2>5, TreeLeaves
  <2> QED BY <1>1, <2>2, <2>4, PlainTreeStep
<1>5. CASE UnsubscribeSys(t, s)
  <2>1. IsTopic(Tail(t))
    BY <1>1, <1>5, AskedTopics DEF UnsubscribeSys
  <2>2. /\ sys' = sremove(sys, Tail(t), s) /\ share' = share /\ sroot' = sroot
        /\ Leaves(Entry("sys", "", Tail(t), s, 0))
    BY <1>5, SysAsPlain DEF UnsubscribeSys
  <2>3. /\ PathTree(sys) /\ NodesOK(sys) /\ Mirrors(sys, "sys")
        /\ Reached(sys, Busy(sys), RefusedPaths(SysAsked))
    BY DEF SInv
  <2>5. "sys" \in {"plain", "sys"}
    OBVIOUS
  <2>4. /\ PathTree(sys') /\ NodesOK(sys') /\ Reached(sys', Busy(sys'), RefusedPaths(SysAsked))
        /\ \A d \in live' : LiveOK(d)
        /\ \A p, r, y : Has(sys', p, r, y) <=> LiveAt(live', "sys", "", p, r, y)
        /\ \A other, g, p, r, y : other # "sys" =>
              (LiveAt(live', other, g, p, r, y) <=> LiveAt(live, other, g, p, r, y))
    BY <1>1, <1>3, <2>1, <2>2, <2>3, <2>5, TreeLeaves
  <2> QED BY <1>1, <2>2, <2>4, SysTreeStep
<1>6. CASE UnsubscribeShare(t, s)
  <2> DEFINE f == From(t, 3)
  <2>1. IsTopic(f)
    BY <1>1, <1>6, AskedTopics DEF UnsubscribeShare
  <2>2. /\ share' = Share!sremove(share, t[2], f, s) /\ sys' = sys /\ sroot' = sroot
        /\ Leaves(Entry("share", t[2], f, s, 0))
    BY <1>6 DEF UnsubscribeShare
  <2> HIDE DEF f
  <2>3. /\ PathTree(share) /\ SharesOK(share)
        /\ \A p, g, r, y : ShareHas(share, p, g, r, y) <=> LiveAt(live, "share", g, p, r, y)
        /\ Reached(share, ShareBusy(share), RefusedPaths(ShareAsked))
    BY DEF SInv, ShareMirrors
  <2>4. /\ PathTree(share') /\ SharesOK(share') /\ Reached(share', ShareBusy(share'), RefusedPaths(ShareAsked))
        /\ \A d \in live' : LiveOK(d)
        /\ \A p, g, r, y : ShareHas(share', p, g, r, y) <=> LiveAt(live', "share", g, p, r, y)
        /\ \A other, g, p, r, y : other # "share" =>
              (LiveAt(live', other, g, p, r, y) <=> LiveAt(live, other, g, p, r, y))
    BY <1>1, <1>3, <2>1, <2>2, <2>3, ShareLeaves
  <2> QED BY <1>1, <2>2, <2>4, ShareTreeStep
<1> QED BY <1>2, <1>4, <1>5, <1>6

\* The invariant looks at the subscription trees and the live subscriptions only.
LEMMA SubscriptionsStutter ==
  ASSUME SInv, UNCHANGED <<trees, live, work>>
  PROVE  SInv'
<1>1. sroot' = sroot /\ share' = share /\ sys' = sys /\ live' = live /\ work' = work
  BY DEF trees
<1>2. Mirrors(sroot, "plain")' /\ Mirrors(sys, "sys")' /\ ShareMirrors'
  BY <1>1 DEF SInv, Mirrors, ShareMirrors
<1>3. /\ Reached(sroot, Busy(sroot), RefusedPaths(PlainAsked))'
      /\ Reached(sys, Busy(sys), RefusedPaths(SysAsked))'
      /\ Reached(share, ShareBusy(share), RefusedPaths(ShareAsked))'
  BY <1>1, AskedStays DEF SInv
<1>4. /\ work' \in Workloads /\ PathTree(sroot') /\ PathTree(sys') /\ PathTree(share')
      /\ NodesOK(sroot') /\ NodesOK(sys') /\ SharesOK(share') /\ \A e \in live' : LiveOK(e)
  BY <1>1 DEF SInv
<1> QED BY <1>2, <1>3, <1>4 DEF SInv

\* Every step keeps the invariant of the subscriptions.
LEMMA SubscriptionsKept ==
  ASSUME SInv, [Next]_vars
  PROVE  SInv'
<1>1. ASSUME NEW t \in work.filters, NEW s \in Subs, NEW q \in Qoses, Subscribe(t, s, q)
      PROVE  SInv'
  BY <1>1, SubscribeStep
<1>2. ASSUME NEW t \in work.filters, NEW s \in Subs, Unsubscribe(t, s)
      PROVE  SInv'
  BY <1>2, UnsubscribeStep
<1>3. ASSUME NEW t \in work.topics, NEW m \in Payloads, Retain(t, m)
      PROVE  SInv'
  BY <1>3, SubscriptionsStutter DEF Retain, NextOp
<1>4. ASSUME NEW t \in work.topics, RetainClear(t)
      PROVE  SInv'
  BY <1>4, SubscriptionsStutter DEF RetainClear, NextOp
<1>5. CASE UNCHANGED vars
  BY <1>5, SubscriptionsStutter DEF vars
<1> QED BY <1>1, <1>2, <1>3, <1>4, <1>5 DEF Next

\* The trees of subscriptions are trees, their nodes hold what they should, every
\* node leads to a subscriber or to where a refused filter ended, and what they
\* hold is what the clients know of, whatever was subscribed, updated, removed or
\* refused before (sinsert and sremove of topic.go, mem_share_topic.go and
\* mem_sys_topic.go).
THEOREM SubscriptionsInvariant == Spec => []SInv
<1>1. Init => SInv
  BY SubscriptionsStart
<1>2. SInv /\ [Next]_vars => SInv'
  BY SubscriptionsKept
<1> QED BY <1>1, <1>2, PTL DEF Spec

\* Nodes that lead to a subscriber or were left by a refused filter are no dead
\* branches.
LEMMA NoDeadFromInv ==
  ASSUME SInv
  PROVE  NoDeadBranches
<1>1. /\ Reached(sroot, Busy(sroot), RefusedPaths(PlainAsked))
      /\ Reached(sys, Busy(sys), RefusedPaths(SysAsked))
      /\ Reached(share, ShareBusy(share), RefusedPaths(ShareAsked))
  BY DEF SInv
<1>2. \A p \in DOMAIN sroot \ {<<>>} :
        (\E q \in Below(sroot, p) : ~ HasNobody(sroot[q])) \/ p \in RefusedPaths(PlainAsked)
  BY <1>1 DEF Reached, Busy, Below
<1>3. \A p \in DOMAIN sys \ {<<>>} :
        (\E q \in Below(sys, p) : ~ Sys!HasNobody(sys[q])) \/ p \in RefusedPaths(SysAsked)
  BY <1>1, SysAsPlain DEF Reached, Busy, Below
<1>4. \A p \in DOMAIN share \ {<<>>} :
        (\E q \in Below(share, p) : ~ Share!HasNobody(share[q])) \/ p \in RefusedPaths(ShareAsked)
  BY <1>1 DEF Reached, ShareBusy, Below
<1> QED BY <1>2, <1>3, <1>4 DEF NoDeadBranches

\* No node is left behind: one without subscribers below it is on the way to a
\* filter that was refused half-way (sremove's deletion of empty nodes).
THEOREM NoNodeLeftBehind == Spec => []NoDeadBranches
<1>1. SInv => NoDeadBranches
  BY NoDeadFromInv
<1> QED BY <1>1, SubscriptionsInvariant, PTL

\* The filter of a shared subscription is not empty, and so its node not the root.
LEMMA ShareBelowRoot ==
  ASSUME NEW f, IsTopic(f), Accepted(f), ~ IsEmpty(f)
  PROVE  PathOf(f) # <<>>
<1>1. PathOf(f) \in Paths /\ Len(PathOf(f)) = Depth(f)
  BY WalkFacts
<1>2. 1 \in 1 .. Len(f) + 1 /\ f \in Paths /\ f # <<>>
  <2>1. Len(f) \in Nat \ {0}
    BY TopicType
  <2>2. 1 \in 1 .. Len(f) + 1
    BY <2>1
  <2> QED BY <2>2 DEF IsTopic, Paths
<1>3. From(f, 1) = f
  BY <1>2, SubSeqFull DEF From, Paths
<1>4. ~ IsEmpty(From(f, 1))
  BY <1>3
<1>5. ~ (1 > Depth(f))
  BY <1>2, <1>4, Rest
<1>6. Depth(f) \in Nat
  BY TopicType
<1>7. PathOf(f) = <<>> => Depth(f) = 0
  BY <1>1, PrefixOrder
<1>8. ~ (1 > 0) \/ Depth(f) # 0
  BY <1>5, <1>6
<1> QED BY <1>7, <1>8

\* The mirror of the shared tree gives the summary of groups.
LEMMA GroupsFromInv ==
  ASSUME SInv
  PROVE  GroupsReported
<1>1. \A e \in live : LiveOK(e)
  BY DEF SInv
<1>2. \A p, g, s, q : ShareHas(share, p, g, s, q) <=> LiveAt(live, "share", g, p, s, q)
  BY DEF SInv, ShareMirrors
<1>3. AllSubInfo = UNION {{[path |-> p, share |-> g] : g \in DOMAIN share[p]} : p \in DOMAIN share \ {<<>>}}
  BY DEF AllSubInfo, Share!matchAll
<1>4. \A p, g : [path |-> p, share |-> g].path = p /\ [path |-> p, share |-> g].share = g
  OBVIOUS
<1>5. ASSUME NEW e \in LiveIn("share")
      PROVE  [path |-> e.path, share |-> e.share] \in AllSubInfo
  <2>1. e \in live /\ e.tree = "share" /\ LiveOK(e)
    BY <1>1 DEF LiveIn
  <2>2. LiveAt(live, "share", e.share, e.path, e.sub, e.qos)
    BY <2>1 DEF LiveAt, At
  <2>3. e.path \in DOMAIN share /\ e.share \in DOMAIN share[e.path]
    BY <1>2, <2>2 DEF ShareHas
  <2>4. e.path # <<>>
    <3>1. ~ IsEmpty(e.filter) /\ IsTopic(e.filter) /\ Accepted(e.filter)
      BY <2>1, Zenon DEF LiveOK, IsTopic, IsEmpty
    <3>2. e.path = PathOf(e.filter)
      BY <2>1, LivePath
    <3> QED BY <3>1, <3>2, ShareBelowRoot
  <2> QED BY <1>3, <2>3, <2>4
<1>6. ASSUME NEW i \in AllSubInfo
      PROVE  \/ \E e \in LiveIn("share") : IsPrefix(i.path, e.path)
             \/ i.path \in RefusedPaths(ShareAsked)
  <2>1. PICK p \in DOMAIN share \ {<<>>} : \E g \in DOMAIN share[p] : i = [path |-> p, share |-> g]
    BY <1>3
  <2>2. i.path = p
    BY <2>1
  <2>3. (\E q \in ShareBusy(share) : IsPrefix(p, q)) \/ p \in RefusedPaths(ShareAsked)
    BY DEF SInv, Reached
  <2>4. ASSUME NEW q \in ShareBusy(share), IsPrefix(p, q)
        PROVE  \E e \in LiveIn("share") : IsPrefix(p, e.path)
    <3>1. \E h, s : ShareHas(share, q, h, s, share[q][h][s])
      BY DEF ShareBusy, Share!HasNobody, ShareHas
    <3>2. \E h, s, x : LiveAt(live, "share", h, q, s, x)
      BY <1>2, <3>1
    <3>3. PICK e \in live : \E h, s : At(e, "share", h, q, s)
      BY <3>2 DEF LiveAt
    <3>4. e \in LiveIn("share") /\ e.path = q
      BY <3>3 DEF At, LiveIn
    <3> QED BY <2>4, <3>4
  <2> QED BY <2>2, <2>3, <2>4
<1> QED BY <1>5, <1>6 DEF GroupsReported

\* The summary names every group with a member, and no other but those whose node
\* others, or a refused filter, keep (matchAll of mem_share_topic.go).
THEOREM SummaryOfGroups == Spec => []GroupsReported
<1>1. SInv => GroupsReported
  BY GroupsFromInv
<1> QED BY <1>1, SubscriptionsInvariant, PTL

-----------------------------------------------------------------------------
(* The invariant of the retained messages *)

\* A node without a message, or with the one its topic has in the store.
HoldsStored(p) ==
  rroot[p] # NoMsg => \E t \in DOMAIN retainTable :
    retainTable[t] = rroot[p] /\ rroot[p].topic = t /\ Accepted(t) /\ PathOf(t) = p

\* Nothing stands between a topic and its node: no other topic is spelled the
\* same, no longer one took it away.
Unhindered(t) ==
  /\ Accepted(t)
  /\ \A u \in work.topics : Accepted(u) /\ PathOf(u) = PathOf(t) => u = t
  /\ t \notin lost

RInv ==
  /\ work \in Workloads /\ PathTree(rroot)
  /\ DOMAIN retainTable \subseteq work.topics
  /\ \A t \in DOMAIN retainTable : \E m \in Payloads : retainTable[t] = Message(t, m)
  /\ \A p \in DOMAIN rroot : HoldsStored(p)
  /\ \A t \in DOMAIN retainTable : Unhindered(t) =>
       PathOf(t) \in DOMAIN rroot /\ rroot[PathOf(t)] = retainTable[t]

\* Messages are not confused with none, and say which topic they are for.
LEMMA Messages ==
  ASSUME NEW w \in Workloads, NEW t \in w.topics, NEW m \in Payloads
  PROVE  Message(t, m) # NoMsg /\ Message(t, m).topic = t /\ Message(t, m).payload = m /\ IsTopic(t)
<1>1. [topic |-> t, payload |-> m] # NoMsg /\ IsTopic(t)
  BY TopicsAssumption
<1> QED BY <1>1 DEF Message

\* Nothing is retained at first.
LEMMA RetainedStart == Init => RInv
<1> SUFFICES ASSUME Init PROVE RInv
  OBVIOUS
<1>1. work \in Workloads /\ DOMAIN retainTable = {}
  BY DEF Init
<1>2. DOMAIN rroot = {<<>>} /\ rroot[<<>>] = NoMsg
  BY DEF Init, Root, newRNode
<1>3. <<>> \in Paths /\ Prefixes(<<>>) \subseteq {<<>>}
  <2>1. ASSUME NEW q \in Paths, IsPrefix(q, <<>>)
        PROVE  q = <<>>
    <3>1. Len(q) <= 0
      BY <2>1, PrefixOrder, PrefixAgrees
    <3>2. q # <<>> => Len(q) \in Nat \ {0}
      BY EmptySeq DEF Paths
    <3> QED BY <3>1, <3>2
  <2> QED BY <2>1, PrefixOrder, PrefixesAre
<1>4. PathTree(rroot)
  BY <1>2, <1>3 DEF PathTree, IsTree
<1> QED BY <1>1, <1>2, <1>4 DEF RInv, HoldsStored

\* Retain puts the same message in the store and at the path of its topic.
LEMMA RetainStep ==
  ASSUME RInv, NEW t \in work.topics, NEW m \in Payloads, Retain(t, m)
  PROVE  RInv'
<1> DEFINE msg == Message(t, m)
           p == PathOf(t)
           G == Grown(rroot, p, newRNode)
<1>1. /\ work \in Workloads /\ PathTree(rroot) /\ DOMAIN retainTable \subseteq work.topics
      /\ \A u \in DOMAIN retainTable : \E x \in Payloads : retainTable[u] = Message(u, x)
      /\ \A q \in DOMAIN rroot : HoldsStored(q)
      /\ \A u \in DOMAIN retainTable : Unhindered(u) =>
           PathOf(u) \in DOMAIN rroot /\ rroot[PathOf(u)] = retainTable[u]
  BY DEF RInv
<1>2. /\ work' = work /\ lost' = lost \ {t}
      /\ retainTable' = [u \in DOMAIN retainTable \cup {t} |-> IF u = t THEN msg ELSE retainTable[u]]
      /\ rroot' = IF Accepted(t) THEN [G EXCEPT ![p] = msg] ELSE G
  BY DEF Retain, NextOp, StoreRetainMessage, rinsert
<1>3. msg # NoMsg /\ msg.topic = t /\ IsTopic(t) /\ \E x \in Payloads : msg = Message(t, x)
  BY <1>1, Messages
<1>4. p \in Paths
  BY <1>3, WalkFacts
<1>5. /\ PathTree(G) /\ p \in DOMAIN G
      /\ DOMAIN rroot \subseteq DOMAIN G /\ \A q \in DOMAIN rroot : G[q] = rroot[q]
      /\ \A q \in DOMAIN G \ DOMAIN rroot : G[q] = NoMsg
  <2> HIDE DEF p
  <2>1. /\ PathTree(G) /\ DOMAIN G = DOMAIN rroot \cup Prefixes(p) /\ p \in DOMAIN G
        /\ \A q \in DOMAIN rroot : G[q] = rroot[q]
        /\ \A q \in DOMAIN G \ DOMAIN rroot : G[q] = newRNode
    BY <1>1, <1>4, GrownTree
  <2> HIDE DEF G
  <2> QED BY <2>1 DEF newRNode
<1> HIDE DEF G, msg, p
<1>6. /\ DOMAIN retainTable' = DOMAIN retainTable \cup {t} /\ retainTable'[t] = msg
      /\ \A u \in DOMAIN retainTable \ {t} : retainTable'[u] = retainTable[u]
  BY <1>2
<1>7. /\ DOMAIN rroot' = DOMAIN G /\ (Accepted(t) => rroot'[p] = msg)
      /\ \A q \in DOMAIN G : (Accepted(t) => q # p) => rroot'[q] = G[q]
  BY <1>2, <1>5
<1>8. PathTree(rroot')
  BY <1>5, <1>7 DEF PathTree, IsTree
<1>9. ASSUME NEW q \in DOMAIN rroot'
      PROVE  HoldsStored(q)'
  <2>1. CASE Accepted(t) /\ q = p
    <3>1. t \in DOMAIN retainTable' /\ retainTable'[t] = rroot'[q] /\ rroot'[q].topic = t
      BY <1>3, <1>6, <1>7, <2>1
    <3> QED BY <2>1, <3>1 DEF HoldsStored, p
  <2>2. CASE ~ (Accepted(t) /\ q = p)
    <3>1. rroot'[q] = G[q]
      BY <1>7, <2>2
    <3>2. SUFFICES ASSUME G[q] # NoMsg
                   PROVE  HoldsStored(q)'
      BY <3>1 DEF HoldsStored
    <3>3. q \in DOMAIN rroot /\ G[q] = rroot[q]
      BY <1>5, <1>7, <3>2
    <3>4. PICK u \in DOMAIN retainTable :
            retainTable[u] = rroot[q] /\ rroot[q].topic = u /\ Accepted(u) /\ PathOf(u) = q
      BY <1>1, <3>2, <3>3 DEF HoldsStored
    <3>5. u # t
      BY <2>2, <3>4 DEF p
    <3> QED BY <1>6, <3>1, <3>3, <3>4, <3>5 DEF HoldsStored
  <2> QED BY <2>1, <2>2
<1>10. ASSUME NEW u \in DOMAIN retainTable', Unhindered(u)'
       PROVE  PathOf(u) \in DOMAIN rroot' /\ rroot'[PathOf(u)] = retainTable'[u]
  <2>1. Accepted(u) /\ (u # t => Unhindered(u))
    BY <1>2, <1>10 DEF Unhindered
  <2>2. CASE u = t
    BY <1>5, <1>6, <1>7, <2>1, <2>2 DEF p
  <2>3. CASE u # t
    <3>1. u \in DOMAIN retainTable /\ retainTable'[u] = retainTable[u]
      BY <1>6, <2>3
    <3>2. PathOf(u) \in DOMAIN rroot /\ rroot[PathOf(u)] = retainTable[u]
      BY <1>1, <2>1, <2>3, <3>1
    <3>3. Accepted(t) => PathOf(u) # p
      BY <2>1, <2>3 DEF Unhindered, p
    <3> QED BY <1>5, <1>7, <3>1, <3>2, <3>3
  <2> QED BY <2>2, <2>3
<1>11. \A u \in DOMAIN retainTable' : \E x \in Payloads : retainTable'[u] = Message(u, x)
  BY <1>1, <1>3, <1>6
<1>12. work' \in Workloads /\ DOMAIN retainTable' \subseteq work'.topics
  BY <1>1, <1>2, <1>6
<1> QED BY <1>8, <1>9, <1>10, <1>11, <1>12 DEF RInv

\* Clearing takes a message from the store and from the tree; the shorter topics
\* that it deletes on its way are those hindered from then on.
LEMMA RetainClearStep ==
  ASSUME RInv, NEW t \in work.topics, RetainClear(t)
  PROVE  RInv'
<1> DEFINE p == PathOf(t)
           L == [rroot EXCEPT ![p] = NoMsg]
           P == Pruned(L, p, DOMAIN rroot)
<1>1. /\ work \in Workloads /\ PathTree(rroot) /\ DOMAIN retainTable \subseteq work.topics
      /\ \A u \in DOMAIN retainTable : \E x \in Payloads : retainTable[u] = Message(u, x)
      /\ \A q \in DOMAIN rroot : HoldsStored(q)
      /\ \A u \in DOMAIN retainTable : Unhindered(u) =>
           PathOf(u) \in DOMAIN rroot /\ rroot[PathOf(u)] = retainTable[u]
  BY DEF RInv
<1>2. /\ work' = work
      /\ lost' = lost \cup {u \in DOMAIN retainTable : Accepted(t) /\ IsStrictPrefix(PathOf(u), p)}
      /\ DOMAIN retainTable' = DOMAIN retainTable \ {t}
      /\ \A u \in DOMAIN retainTable' : retainTable'[u] = retainTable[u]
      /\ rroot' = IF Accepted(t) /\ p \in DOMAIN rroot THEN P ELSE rroot
  BY DEF RetainClear, NextOp, ClearRetainMessage, rremove
<1>3. IsTopic(t)
  BY <1>1, TopicsAssumption
<1>4. p \in Paths
  BY <1>3, WalkFacts
<1>5. /\ PathTree(rroot') /\ DOMAIN rroot' \subseteq DOMAIN rroot
      /\ \A q \in DOMAIN rroot' : rroot'[q] = IF Accepted(t) /\ q = p THEN NoMsg ELSE rroot[q]
      /\ \A q \in DOMAIN rroot \ DOMAIN rroot' : Accepted(t) /\ q \in Paths /\ IsPrefix(q, p)
  <2>1. CASE ~ (Accepted(t) /\ p \in DOMAIN rroot)
    BY <1>1, <1>2, <2>1
  <2>2. CASE Accepted(t) /\ p \in DOMAIN rroot
    <3>1. DOMAIN L = DOMAIN rroot /\ L[p] = NoMsg /\ \A q \in DOMAIN rroot \ {p} : L[q] = rroot[q]
      <4> HIDE DEF p
      <4> QED BY <2>2
    <3>2. PathTree(L) /\ p \in DOMAIN L
      BY <1>1, <2>2, <3>1 DEF PathTree, IsTree
    <3> HIDE DEF L
    <3>3. /\ PathTree(P) /\ DOMAIN P \subseteq DOMAIN L
          /\ \A q \in DOMAIN P : P[q] = L[q]
          /\ \A q \in DOMAIN L \ DOMAIN P : q \in Paths /\ IsPrefix(q, p)
      BY <3>2, PrunedTree
    <3> HIDE DEF P
    <3> QED BY <1>2, <2>2, <3>1, <3>3
  <2> QED BY <2>1, <2>2
<1> HIDE DEF p, L, P
<1>6. ASSUME NEW q \in DOMAIN rroot'
      PROVE  HoldsStored(q)'
  <2>1. SUFFICES ASSUME rroot'[q] # NoMsg
                 PROVE  HoldsStored(q)'
    BY DEF HoldsStored
  <2>2. q \in DOMAIN rroot /\ rroot'[q] = rroot[q] /\ ~ (Accepted(t) /\ q = p)
    BY <1>5, <2>1
  <2>3. PICK u \in DOMAIN retainTable :
          retainTable[u] = rroot[q] /\ rroot[q].topic = u /\ Accepted(u) /\ PathOf(u) = q
    BY <1>1, <2>1, <2>2 DEF HoldsStored
  <2>4. u # t
    BY <2>2, <2>3 DEF p
  <2> QED BY <1>2, <2>2, <2>3, <2>4 DEF HoldsStored
<1>7. ASSUME NEW u \in DOMAIN retainTable', Unhindered(u)'
      PROVE  PathOf(u) \in DOMAIN rroot' /\ rroot'[PathOf(u)] = retainTable'[u]
  <2>2. u \in DOMAIN retainTable /\ u # t /\ retainTable'[u] = retainTable[u]
    BY <1>2
  <2>1. Unhindered(u) /\ ~ (Accepted(t) /\ IsStrictPrefix(PathOf(u), p))
    BY <1>2, <1>7, <2>2 DEF Unhindered
  <2>3. PathOf(u) \in DOMAIN rroot /\ rroot[PathOf(u)] = retainTable[u]
    BY <1>1, <2>1, <2>2
  <2>4. ~ (Accepted(t) /\ PathOf(u) = p)
    BY <2>1, <2>2 DEF Unhindered, p
  <2>5. PathOf(u) \in DOMAIN rroot'
    BY <1>5, <2>1, <2>3, <2>4 DEF IsStrictPrefix
  <2> QED BY <1>5, <2>2, <2>3, <2>4, <2>5
<1>8. \A u \in DOMAIN retainTable' : \E x \in Payloads : retainTable'[u] = Message(u, x)
  BY <1>1, <1>2
<1>9. work' \in Workloads /\ DOMAIN retainTable' \subseteq work'.topics
  BY <1>1, <1>2
<1> QED BY <1>5, <1>6, <1>7, <1>8, <1>9 DEF RInv

\* The invariant looks at the retained messages only.
LEMMA RetainedStutter ==
  ASSUME RInv, UNCHANGED <<retained, work>>
  PROVE  RInv'
<1>1. rroot' = rroot /\ retainTable' = retainTable /\ lost' = lost /\ work' = work
  BY DEF retained
<1> QED BY <1>1 DEF RInv, HoldsStored, Unhindered

\* Every step keeps the invariant of the retained messages.
LEMMA RetainedKept ==
  ASSUME RInv, [Next]_vars
  PROVE  RInv'
<1>1. ASSUME NEW t \in work.filters, NEW s \in Subs, NEW q \in Qoses, Subscribe(t, s, q)
      PROVE  RInv'
  BY <1>1, RetainedStutter DEF Subscribe, NextOp
<1>2. ASSUME NEW t \in work.filters, NEW s \in Subs, Unsubscribe(t, s)
      PROVE  RInv'
  BY <1>2, RetainedStutter DEF Unsubscribe, NextOp
<1>3. ASSUME NEW t \in work.topics, NEW m \in Payloads, Retain(t, m)
      PROVE  RInv'
  BY <1>3, RetainStep
<1>4. ASSUME NEW t \in work.topics, RetainClear(t)
      PROVE  RInv'
  BY <1>4, RetainClearStep
<1>5. CASE UNCHANGED vars
  BY <1>5, RetainedStutter DEF vars
<1> QED BY <1>1, <1>2, <1>3, <1>4, <1>5 DEF Next

\* What is in the retained tree is in the store, and what is in the store is in
\* the tree unless something hinders it (Retain of topic.go).
THEOREM RetainedInvariant == Spec => []RInv
<1>1. Init => RInv
  BY RetainedStart
<1>2. RInv /\ [Next]_vars => RInv'
  BY RetainedKept
<1> QED BY <1>1, <1>2, PTL DEF Spec

\* The tree's messages are the store's: a conjunct of the invariant.
LEMMA BackedFromInv ==
  ASSUME RInv
  PROVE  RetainedBacked
BY DEF RInv, HoldsStored, RetainedBacked

\* Trees are trees and their nodes hold what they should.
THEOREM TreesWellFormed == Spec => []TypeOK
<1>1. SInv /\ RInv => TypeOK
  <2> SUFFICES ASSUME SInv, RInv PROVE TypeOK
    OBVIOUS
  <2>1. \A T \in {sroot, share, sys, rroot} : IsTree(T)
    BY DEF SInv, RInv, PathTree
  <2>2. \A T \in {sroot, sys} : \A p \in DOMAIN T : T[p] \in [DOMAIN T[p] -> 0 .. MaxQos] /\ DOMAIN T[p] \subseteq Subs
    BY DEF SInv, NodesOK
  <2>3. \A p \in DOMAIN share : \A g \in DOMAIN share[p] : \A s \in DOMAIN share[p][g] : share[p][g][s] \in 0 .. MaxQos
    BY DEF SInv, SharesOK
  <2>4. \A p \in DOMAIN rroot : rroot[p] # NoMsg => rroot[p].payload \in Payloads
    BY Messages DEF RInv, HoldsStored
  <2> QED BY <2>1, <2>2, <2>3, <2>4 DEF TypeOK
<1> QED BY <1>1, SubscriptionsInvariant, RetainedInvariant, PTL

-----------------------------------------------------------------------------
(* Searches: which nodes a lookup finds *)

\* One layer of a search: what is found from each node for what is left of the
\* topic from level i on, given what is found from the next level on.
LayerOf(T, t, i, below) ==
  [p \in DOMAIN T |->
     IF IsEmpty(From(t, i)) THEN {p} \cup Child(T, p, MWC) \cup Child(T, p, SWC)
     ELSE LET l == nextTopicLevel(From(t, i))
          IN  IF l = Error THEN {<<Error>>}
              ELSE Child(T, p, MWC) \cup
                   UNION {IF i < Len(t) THEN below[n]
                          ELSE {n} \cup Child(T, n, MWC) :
                            n \in Child(T, p, SWC) \cup Child(T, p, l)}]
SysLayerOf(T, t, i, below) ==
  [p \in DOMAIN T |->
     IF IsEmpty(From(t, i)) THEN {p}
     ELSE LET l == nextTopicLevel(From(t, i))
          IN  IF l = Error THEN {<<Error>>}
              ELSE Child(T, p, MWC) \cup
                   UNION {below[n] : n \in Child(T, p, SWC) \cup Child(T, p, l)}]

\* A function defined layer by layer from its last one exists.
LEMMA SearchExists ==
  ASSUME NEW T, NEW t, IsTopic(t)
  PROVE  \E f : f = [i \in 1 .. Len(t) + 1 |-> LayerOf(T, t, i, f[i + 1])]
<1> DEFINE N == Len(t) + 1
           X == [DOMAIN T -> SUBSET (DOMAIN T \cup {<<Error>>})]
           top == LayerOf(T, t, N, <<>>)
           step == [i \in 1 .. N |-> [h \in X |-> LayerOf(T, t, i, h)]]
<1>1. Len(t) \in Nat \ {0} /\ N \in Nat \ {0} /\ N - 1 = Len(t)
  BY TopicType
<1>2. IsEmpty(From(t, N))
  BY <1>1, Rest, TopicType
<1>3. \A p, l : Child(T, p, l) \subseteq DOMAIN T
  BY DEF Child
<1>4. \A h : LayerOf(T, t, N, h) = top
  BY <1>2 DEF LayerOf
<1>5. top \in X
  BY <1>2, <1>3 DEF LayerOf
<1>6. ASSUME NEW i \in 1 .. N, NEW h \in X
      PROVE  LayerOf(T, t, i, h) \in X
  <2>1. \A n \in DOMAIN T : h[n] \subseteq DOMAIN T \cup {<<Error>>}
    OBVIOUS
  <2> QED BY <1>3, <2>1 DEF LayerOf
<1> HIDE DEF X, N, top
<1>7. step \in [1 .. N -> [X -> X]]
  BY <1>6
<1>8. \A i \in 1 .. N : \A h \in X : step[i][h] = LayerOf(T, t, i, h)
  OBVIOUS
<1> HIDE DEF step
<1>9. PICK f \in [1 .. N -> X] : f[N] = top /\ \A i \in 1 .. N - 1 : f[i] = step[i][f[i + 1]]
  BY <1>1, <1>5, <1>7, LayersExist
<1>10. ASSUME NEW i \in 1 .. N
       PROVE  f[i] = LayerOf(T, t, i, f[i + 1])
  <2>1. CASE i = N
    BY <1>4, <1>9, <2>1
  <2>2. CASE i # N
    <3>1. i \in 1 .. N - 1 /\ i + 1 \in 1 .. N
      BY <1>1, <2>2
    <3>2. f[i + 1] \in X
      BY <3>1
    <3> QED BY <1>8, <1>9, <3>1, <3>2
  <2> QED BY <2>1, <2>2
<1>11. f = [i \in 1 .. N |-> LayerOf(T, t, i, f[i + 1])]
  BY <1>10
<1> QED BY <1>11 DEF N

\* The search is the root's entry in the first of the layers it chooses.
LEMMA SearchIs ==
  ASSUME NEW T, NEW t
  PROVE  smatch(T, t) = (CHOOSE f : f = [i \in 1 .. Len(t) + 1 |-> LayerOf(T, t, i, f[i + 1])])[1][<<>>]
BY Zenon DEF smatch, LayerOf

\* Layers as the search of the system tree defines them exist.
LEMMA SysSearchExists ==
  ASSUME NEW T, NEW t, IsTopic(t)
  PROVE  \E f : f = [i \in 1 .. Len(t) + 1 |-> SysLayerOf(T, t, i, f[i + 1])]
<1> DEFINE N == Len(t) + 1
           X == [DOMAIN T -> SUBSET (DOMAIN T \cup {<<Error>>})]
           top == SysLayerOf(T, t, N, <<>>)
           step == [i \in 1 .. N |-> [h \in X |-> SysLayerOf(T, t, i, h)]]
<1>1. Len(t) \in Nat \ {0} /\ N \in Nat \ {0} /\ N - 1 = Len(t)
  BY TopicType
<1>2. IsEmpty(From(t, N))
  BY <1>1, Rest, TopicType
<1>3. \A p, l : Child(T, p, l) \subseteq DOMAIN T
  BY DEF Child
<1>4. \A h : SysLayerOf(T, t, N, h) = top
  BY <1>2 DEF SysLayerOf
<1>5. top \in X
  BY <1>2, <1>3 DEF SysLayerOf
<1>6. ASSUME NEW i \in 1 .. N, NEW h \in X
      PROVE  SysLayerOf(T, t, i, h) \in X
  <2>1. \A n \in DOMAIN T : h[n] \subseteq DOMAIN T \cup {<<Error>>}
    OBVIOUS
  <2> QED BY <1>3, <2>1 DEF SysLayerOf
<1> HIDE DEF X, N, top
<1>7. step \in [1 .. N -> [X -> X]]
  BY <1>6
<1>8. \A i \in 1 .. N : \A h \in X : step[i][h] = SysLayerOf(T, t, i, h)
  OBVIOUS
<1> HIDE DEF step
<1>9. PICK f \in [1 .. N -> X] : f[N] = top /\ \A i \in 1 .. N - 1 : f[i] = step[i][f[i + 1]]
  BY <1>1, <1>5, <1>7, LayersExist
<1>10. ASSUME NEW i \in 1 .. N
       PROVE  f[i] = SysLayerOf(T, t, i, f[i + 1])
  <2>1. CASE i = N
    BY <1>4, <1>9, <2>1
  <2>2. CASE i # N
    <3>1. i \in 1 .. N - 1 /\ i + 1 \in 1 .. N
      BY <1>1, <2>2
    <3>2. f[i + 1] \in X
      BY <3>1
    <3> QED BY <1>8, <1>9, <3>1, <3>2
  <2> QED BY <2>1, <2>2
<1>11. f = [i \in 1 .. N |-> SysLayerOf(T, t, i, f[i + 1])]
  BY <1>10
<1> QED BY <1>11 DEF N

\* The levels that may follow the last one of a topic.
Ends(t) == IF EndsEmpty(t) THEN {MWC, SWC} ELSE {MWC}

\* V says what is found from each node for what is left of topic t from each
\* level on: the end adds the children named in ends.
IsSearch(V, T, t, ends) ==
  /\ \A p \in DOMAIN T : V[Depth(t) + 1][p] = {p} \cup UNION {Child(T, p, l) : l \in ends}
  /\ \A i \in 1 .. Depth(t) : \A p \in DOMAIN T :
       V[i][p] = IF BadAt(t, i) THEN {<<Error>>}
                 ELSE Child(T, p, MWC) \cup
                      UNION {V[i + 1][n] : n \in Child(T, p, SWC) \cup Child(T, p, SpelledAt(t, i))}

\* The search of the plain tree, as layers of which each is got from the next.
LEMMA PlainSearch ==
  ASSUME NEW T, NEW t, IsTopic(t)
  PROVE  \E V : smatch(T, t) = V[1][<<>>] /\ IsSearch(V, T, t, Ends(t))
<1> DEFINE Layered(h) == h = [i \in 1 .. Len(t) + 1 |-> LayerOf(T, t, i, h[i + 1])]
           f == CHOOSE h : Layered(h)
           n == Depth(t)
           V == [i \in 1 .. n + 1 |-> IF i <= Len(t) THEN f[i]
                                      ELSE [p \in DOMAIN T |-> {p} \cup Child(T, p, MWC)]]
<1>1. f = [i \in 1 .. Len(t) + 1 |-> LayerOf(T, t, i, f[i + 1])]
  <2>1. \E h : Layered(h)
    BY SearchExists
  <2>2. Layered(f)
    <3> HIDE DEF Layered
    <3> QED BY <2>1
  <2> QED BY <2>2
<1>2. smatch(T, t) = f[1][<<>>]
  BY SearchIs
<1> HIDE DEF f
<1>3. /\ Len(t) \in Nat \ {0} /\ n \in Nat /\ n <= Len(t)
      /\ n = Len(t) - 1 <=> EndsEmpty(t)
      /\ n = Len(t) <=> ~ EndsEmpty(t)
  BY TopicType
<1> HIDE DEF n
<1>4. ASSUME NEW i \in 1 .. Len(t), NEW p \in DOMAIN T
      PROVE  f[i][p] =
               IF i > n THEN {p} \cup Child(T, p, MWC) \cup Child(T, p, SWC)
               ELSE IF BadAt(t, i) THEN {<<Error>>}
               ELSE Child(T, p, MWC) \cup
                    UNION {IF i < Len(t) THEN f[i + 1][c] ELSE {c} \cup Child(T, c, MWC) :
                             c \in Child(T, p, SWC) \cup Child(T, p, SpelledAt(t, i))}
  <2>1. i \in 1 .. Len(t) + 1 /\ i <= Len(t)
    BY <1>3
  <2>2. /\ IsEmpty(From(t, i)) <=> i > n
        /\ nextTopicLevel(From(t, i)) = LevelAt(t, i)
        /\ LevelAt(t, i) = Error <=> BadAt(t, i)
    BY <2>1, Rest DEF n
  <2>3. f[i] = LayerOf(T, t, i, f[i + 1])
    BY <1>1, <2>1
  <2>4. ~ BadAt(t, i) => LevelAt(t, i) = SpelledAt(t, i)
    BY DEF LevelAt
  <2> QED BY <2>2, <2>3, <2>4 DEF LayerOf
<1>5. 1 <= Len(t) /\ V[1][<<>>] = f[1][<<>>]
  BY <1>3
<1>6. ASSUME NEW p \in DOMAIN T
      PROVE  V[n + 1][p] = {p} \cup UNION {Child(T, p, l) : l \in Ends(t)}
  <2>1. CASE EndsEmpty(t)
    <3>1. n + 1 \in 1 .. Len(t) /\ n + 1 > n /\ n + 1 <= Len(t)
      BY <1>3, <2>1
    <3>2. n + 1 \in 1 .. n + 1 /\ V[n + 1] = f[n + 1]
      BY <1>3, <3>1
    <3> HIDE DEF V
    <3>3. V[n + 1][p] = {p} \cup Child(T, p, MWC) \cup Child(T, p, SWC)
      BY <1>4, <3>1, <3>2
    <3> QED BY <2>1, <3>3 DEF Ends
  <2>2. CASE ~ EndsEmpty(t)
    <3>1. ~ (n + 1 <= Len(t)) /\ n + 1 \in 1 .. n + 1
      BY <1>3, <2>2
    <3>2. V[n + 1][p] = {p} \cup Child(T, p, MWC)
      BY <3>1
    <3> HIDE DEF V
    <3> QED BY <2>2, <3>2 DEF Ends
  <2> QED BY <2>1, <2>2
<1>7. ASSUME NEW i \in 1 .. n, NEW p \in DOMAIN T
      PROVE  V[i][p] = IF BadAt(t, i) THEN {<<Error>>}
                 ELSE Child(T, p, MWC) \cup
                      UNION {V[i + 1][c] : c \in Child(T, p, SWC) \cup Child(T, p, SpelledAt(t, i))}
  <2>1. i \in 1 .. Len(t) /\ ~ (i > n) /\ i <= Len(t) /\ i \in 1 .. n + 1 /\ i + 1 \in 1 .. n + 1
    BY <1>3
  <2>2. V[i] = f[i]
    BY <2>1
  <2>3. \A c \in DOMAIN T : V[i + 1][c] = IF i < Len(t) THEN f[i + 1][c] ELSE {c} \cup Child(T, c, MWC)
    <3>1. i + 1 <= Len(t) <=> i < Len(t)
      BY <1>3, <2>1
    <3> QED BY <2>1, <3>1
  <2>4. \A l : Child(T, p, l) \subseteq DOMAIN T
    BY DEF Child
  <2> HIDE DEF V
  <2> DEFINE C == Child(T, p, SWC) \cup Child(T, p, SpelledAt(t, i))
  <2>5. f[i][p] = IF BadAt(t, i) THEN {<<Error>>}
                  ELSE Child(T, p, MWC) \cup
                       UNION {IF i < Len(t) THEN f[i + 1][c] ELSE {c} \cup Child(T, c, MWC) : c \in C}
    BY <1>4, <2>1
  <2>6. \A c \in C : V[i + 1][c] = IF i < Len(t) THEN f[i + 1][c] ELSE {c} \cup Child(T, c, MWC)
    BY <2>3, <2>4
  <2>7. UNION {IF i < Len(t) THEN f[i + 1][c] ELSE {c} \cup Child(T, c, MWC) : c \in C}
          = UNION {V[i + 1][c] : c \in C}
    <3> HIDE DEF C
    <3> QED BY <2>6
  <2> QED BY <2>2, <2>5, <2>7
<1> HIDE DEF V
<1>8. IsSearch(V, T, t, Ends(t))
  BY <1>6, <1>7 DEF IsSearch, n
<1> QED BY <1>2, <1>5, <1>8

\* The shared tree is searched as the plain one is.
LEMMA ShareSearchIs ==
  ASSUME NEW T, NEW t
  PROVE  Share!smatch(T, t) = smatch(T, t)
BY Zenon DEF Share!smatch, smatch, Share!SWC, SWC, Share!MWC, MWC, Share!Error, Error,
   Share!From, From, Share!IsEmpty, IsEmpty, Share!nextTopicLevel, nextTopicLevel, Share!Child, Child

\* The search of the system tree is the root's entry in the first of its layers.
LEMMA SysSearchIs ==
  ASSUME NEW T, NEW t
  PROVE  Sys!smatch(T, t) = (CHOOSE f : f = [i \in 1 .. Len(t) + 1 |-> SysLayerOf(T, t, i, f[i + 1])])[1][<<>>]
BY Zenon DEF Sys!smatch, SysLayerOf, Sys!SWC, SWC, Sys!MWC, MWC, Sys!Error, Error,
   Sys!From, From, Sys!IsEmpty, IsEmpty, Sys!nextTopicLevel, nextTopicLevel, Sys!Child, Child

\* The search of the system tree: the end adds nothing.
LEMMA SysSearch ==
  ASSUME NEW T, NEW t, IsTopic(t)
  PROVE  \E V : Sys!smatch(T, t) = V[1][<<>>] /\ IsSearch(V, T, t, {})
<1> DEFINE Layered(h) == h = [i \in 1 .. Len(t) + 1 |-> SysLayerOf(T, t, i, h[i + 1])]
           V == CHOOSE h : Layered(h)
           n == Depth(t)
<1>1. V = [i \in 1 .. Len(t) + 1 |-> SysLayerOf(T, t, i, V[i + 1])]
  <2>1. \E h : Layered(h)
    BY SysSearchExists
  <2>2. Layered(V)
    <3> HIDE DEF Layered
    <3> QED BY <2>1
  <2> QED BY <2>2
<1>2. Sys!smatch(T, t) = V[1][<<>>]
  BY SysSearchIs
<1> HIDE DEF V
<1>3. Len(t) \in Nat \ {0} /\ n \in Nat /\ n <= Len(t)
  BY TopicType
<1> HIDE DEF n
<1>4. ASSUME NEW i \in 1 .. n + 1, NEW p \in DOMAIN T
      PROVE  V[i][p] =
               IF i > n THEN {p}
               ELSE IF BadAt(t, i) THEN {<<Error>>}
               ELSE Child(T, p, MWC) \cup
                    UNION {V[i + 1][c] : c \in Child(T, p, SWC) \cup Child(T, p, SpelledAt(t, i))}
  <2>1. i \in 1 .. Len(t) + 1 /\ (~ (i > n) => i <= Len(t))
    BY <1>3
  <2>2. /\ IsEmpty(From(t, i)) <=> i > n
        /\ i <= Len(t) => /\ nextTopicLevel(From(t, i)) = LevelAt(t, i)
                          /\ LevelAt(t, i) = Error <=> BadAt(t, i)
    BY <2>1, Rest DEF n
  <2>3. V[i] = SysLayerOf(T, t, i, V[i + 1])
    BY <1>1, <2>1
  <2>4. ~ BadAt(t, i) => LevelAt(t, i) = SpelledAt(t, i)
    BY DEF LevelAt
  <2> QED BY <2>1, <2>2, <2>3, <2>4 DEF SysLayerOf
<1>5. ASSUME NEW p \in DOMAIN T
      PROVE  V[n + 1][p] = {p} \cup UNION {Child(T, p, l) : l \in {}}
  <2>1. n + 1 \in 1 .. n + 1 /\ n + 1 > n
    BY <1>3
  <2> QED BY <1>4, <2>1
<1>6. ASSUME NEW i \in 1 .. n, NEW p \in DOMAIN T
      PROVE  V[i][p] = IF BadAt(t, i) THEN {<<Error>>}
                 ELSE Child(T, p, MWC) \cup
                      UNION {V[i + 1][c] : c \in Child(T, p, SWC) \cup Child(T, p, SpelledAt(t, i))}
  <2>1. i \in 1 .. n + 1 /\ ~ (i > n)
    BY <1>3
  <2> QED BY <1>4, <2>1
<1>7. IsSearch(V, T, t, {})
  BY <1>5, <1>6 DEF IsSearch, n
<1> QED BY <1>2, <1>7

\* A step further down a path.
LEMMA OneFurther ==
  ASSUME NEW p \in Paths, NEW l \in Levels
  PROVE  /\ Append(p, l) \in Paths /\ Len(Append(p, l)) = Len(p) + 1 /\ Append(p, l)[Len(p) + 1] = l
         /\ \A q \in Paths : IsPrefix(Append(p, l), q) <=>
              IsPrefix(p, q) /\ Len(p) + 1 <= Len(q) /\ q[Len(p) + 1] = l
         /\ \A q \in Paths : IsPrefix(Append(p, l), q) /\ Len(q) <= Len(p) + 1 => q = Append(p, l)
<1> DEFINE c == Append(p, l)
<1>1. Len(p) \in Nat /\ \A q \in Paths : Len(q) \in Nat
  BY LenProperties DEF Paths
<1>2. c \in Paths /\ Len(c) = Len(p) + 1 /\ c[Len(p) + 1] = l /\ \A i \in 1 .. Len(p) : c[i] = p[i]
  BY AppendProperties DEF Paths
<1> HIDE DEF c
<1>3. ASSUME NEW q \in Paths
      PROVE  IsPrefix(c, q) <=> IsPrefix(p, q) /\ Len(p) + 1 <= Len(q) /\ q[Len(p) + 1] = l
  <2>1. IsPrefix(c, q) <=> Len(c) <= Len(q) /\ \A i \in 1 .. Len(c) : c[i] = q[i]
    BY <1>2, PrefixAgrees
  <2>2. IsPrefix(p, q) <=> Len(p) <= Len(q) /\ \A i \in 1 .. Len(p) : p[i] = q[i]
    BY PrefixAgrees
  <2>3. \A i \in 1 .. Len(c) : i \in 1 .. Len(p) \/ i = Len(p) + 1
    BY <1>1, <1>2
  <2>4. Len(p) + 1 \in 1 .. Len(c) /\ \A i \in 1 .. Len(p) : i \in 1 .. Len(c)
    BY <1>1, <1>2
  <2> QED BY <1>1, <1>2, <2>1, <2>2, <2>3, <2>4
<1>4. ASSUME NEW q \in Paths, IsPrefix(c, q), Len(q) <= Len(p) + 1
      PROVE  q = c
  <2>1. Len(c) <= Len(q) /\ \A i \in 1 .. Len(c) : c[i] = q[i]
    BY <1>2, <1>4, PrefixAgrees
  <2>2. Len(c) = Len(q)
    BY <1>1, <1>2, <1>4, <2>1
  <2> QED BY <1>2, <2>1, <2>2, SamePath
<1> QED BY <1>2, <1>3, <1>4 DEF c

\* Which nodes are children.
LEMMA ChildIs ==
  ASSUME NEW T, NEW p \in Paths, NEW l \in Levels, NEW q \in Paths
  PROVE  q \in Child(T, p, l) <=>
           q \in DOMAIN T /\ IsPrefix(p, q) /\ Len(q) = Len(p) + 1 /\ q[Len(p) + 1] = l
<1> DEFINE c == Append(p, l)
           i == Len(p) + 1
<1>1. /\ c \in Paths /\ Len(c) = i /\ c[i] = l
      /\ IsPrefix(c, q) <=> IsPrefix(p, q) /\ i <= Len(q) /\ q[i] = l
      /\ IsPrefix(c, q) /\ Len(q) <= i => q = c
  BY OneFurther
<1>2. IsPrefix(c, c)
  BY <1>1, PrefixOrder
<1>3. i <= i /\ Len(p) \in Nat
  BY LenProperties DEF Paths
<1>4. IsPrefix(p, c)
  BY <1>1, <1>2, <1>3, OneFurther
<1> HIDE DEF c, i
<1>5. q = c <=> IsPrefix(p, q) /\ Len(q) = i /\ q[i] = l
  BY <1>1, <1>3, <1>4, Zenon
<1> QED BY <1>5 DEF Child, c, i

\* Path q takes, at levels i to j, what topic t has there, or '+'.
Fits(q, t, i, j) == \A k \in i .. j : q[k] \in {SWC, SpelledAt(t, k)}

\* What a search finds that has come to level i of topic t: nodes with '#' there
\* or further on, nodes as deep as the topic, and their children named in ends.
Found(q, t, i, ends) ==
  \/ Len(q) \in i .. Depth(t) /\ q[Len(q)] = MWC /\ Fits(q, t, i, Len(q) - 1)
  \/ Len(q) = Depth(t) /\ Fits(q, t, i, Depth(t))
  \/ Len(q) = Depth(t) + 1 /\ q[Len(q)] \in ends /\ Fits(q, t, i, Depth(t))

\* What is found from level i on: a '#' here, or a step and what is found from the
\* next level on.
LEMMA FoundFurther ==
  ASSUME NEW t, IsTopic(t), NEW i \in 1 .. Depth(t), NEW q \in Paths, NEW ends
  PROVE  Found(q, t, i, ends) <=>
           \/ Len(q) = i /\ q[i] = MWC
           \/ i <= Len(q) /\ q[i] \in {SWC, SpelledAt(t, i)} /\ Found(q, t, i + 1, ends)
<1> DEFINE n == Depth(t)
           m == Len(q)
           ok(k) == q[k] \in {SWC, SpelledAt(t, k)}
           hash == q[m] = MWC
           end == q[m] \in ends
           fits(k, j) == Fits(q, t, k, j)
<1>1. n \in Nat /\ m \in Nat /\ i \in 1 .. n
  BY TopicType, LenProperties DEF Paths
<1>2. ASSUME NEW j \in Nat, i <= j
      PROVE  fits(i, j) <=> ok(i) /\ fits(i + 1, j)
  <2> HIDE DEF n, m
  <2>1. i \in i .. j /\ \A k \in i + 1 .. j : k \in i .. j
    BY <1>1, <1>2
  <2>2. \A k \in i .. j : k = i \/ k \in i + 1 .. j
    BY <1>1, <1>2
  <2> QED BY <2>1, <2>2 DEF Fits
<1>3. ASSUME NEW j \in Int, j < i
      PROVE  fits(i, j)
  <2> HIDE DEF n, m
  <2> QED BY <1>1, <1>3 DEF Fits
<1>4. \A k : Found(q, t, k, ends) <=>
        \/ m \in k .. n /\ hash /\ fits(k, m - 1)
        \/ m = n /\ fits(k, n)
        \/ m = n + 1 /\ end /\ fits(k, n)
  BY Zenon DEF Found
<1>5. q[i] = MWC /\ m = i => hash
  OBVIOUS
<1>6. hash /\ m = i => q[i] = MWC
  OBVIOUS
<1> DEFINE here == q[i] = MWC
<1> HIDE DEF n, m, ok, hash, end, fits, here
<1>7. ASSUME m \in i .. n, hash, fits(i, m - 1)
      PROVE  \/ m = i /\ here
             \/ i <= m /\ ok(i) /\ m \in i + 1 .. n /\ hash /\ fits(i + 1, m - 1)
  <2>1. CASE m = i
    BY <2>1, <1>6, <1>7 DEF here
  <2>2. CASE m # i
    <3>1. m - 1 \in Nat /\ i <= m - 1 /\ m \in i + 1 .. n /\ i <= m
      BY <1>1, <1>7, <2>2
    <3> QED BY <3>1, <1>2, <1>7
  <2> QED BY <2>1, <2>2
<1>8. ASSUME m = n \/ m = n + 1, fits(i, n)
      PROVE  i <= m /\ ok(i) /\ fits(i + 1, n)
  BY <1>1, <1>2, <1>8
<1>9. ASSUME m = i, here
      PROVE  m \in i .. n /\ hash /\ fits(i, m - 1)
  <2>1. m - 1 \in Int /\ m - 1 < i /\ m \in i .. n
    BY <1>1, <1>9
  <2> QED BY <2>1, <1>3, <1>5, <1>9 DEF here
<1>10. ASSUME i <= m, ok(i), m \in i + 1 .. n, hash, fits(i + 1, m - 1)
       PROVE  m \in i .. n /\ fits(i, m - 1)
  <2>1. m - 1 \in Nat /\ i <= m - 1 /\ m \in i .. n
    BY <1>1, <1>10
  <2> QED BY <2>1, <1>2, <1>10
<1>11. ASSUME ok(i), fits(i + 1, n)
       PROVE  fits(i, n)
  BY <1>1, <1>2, <1>11
<1>12. Found(q, t, i, ends) <=> (m = i /\ here) \/ (i <= m /\ ok(i) /\ Found(q, t, i + 1, ends))
  BY <1>4, <1>7, <1>8, <1>9, <1>10, <1>11, Zenon
<1> QED BY <1>12 DEF m, here, ok

\* Behind the last level: the node itself, and its children of the last levels.
LEMMA FoundAtEnd ==
  ASSUME NEW t, IsTopic(t), NEW ends, ends \subseteq Levels,
         NEW p \in Paths, Len(p) = Depth(t), NEW q \in Paths
  PROVE  IsPrefix(p, q) /\ Found(q, t, Depth(t) + 1, ends) <=> q = p \/ \E l \in ends : q = Append(p, l)
<1> DEFINE n == Depth(t)
<1>1. n \in Nat /\ Len(q) \in Nat /\ Len(p) = n
  BY TopicType, LenProperties DEF Paths
<1>2. \A j \in Nat : j <= n => Fits(q, t, n + 1, j)
  <2> HIDE DEF n
  <2> QED BY <1>1 DEF Fits
<1>3. IsPrefix(p, p)
  BY PrefixOrder
<1>4. ASSUME IsPrefix(p, q), Found(q, t, n + 1, ends)
      PROVE  q = p \/ \E l \in ends : q = Append(p, l)
  <2>1. CASE Len(q) = n
    <3>1. \A k \in 1 .. Len(p) : p[k] = q[k]
      BY <1>4, PrefixAgrees
    <3>2. Len(p) = Len(q)
      BY <1>1, <2>1
    <3> QED BY <3>1, <3>2, SamePath
  <2>2. CASE Len(q) = n + 1 /\ q[Len(q)] \in ends
    <3> DEFINE l == q[Len(q)]
    <3>1. l \in ends /\ l \in Levels /\ l = q[Len(p) + 1] /\ Len(p) + 1 <= Len(q) /\ Len(q) <= Len(p) + 1
      BY <1>1, <2>2
    <3> HIDE DEF l
    <3>2. IsPrefix(Append(p, l), q)
      BY <1>4, <3>1, OneFurther
    <3>3. q = Append(p, l)
      BY <3>1, <3>2, OneFurther
    <3> QED BY <3>1, <3>3
  <2>3. Len(q) \notin n + 1 .. n
    <3> HIDE DEF n
    <3> QED BY <1>1
  <2> QED BY <1>4, <2>1, <2>2, <2>3 DEF Found
<1>5. ASSUME q = p
      PROVE  IsPrefix(p, q) /\ Found(q, t, n + 1, ends)
  <2>1. Len(q) = n /\ Fits(q, t, n + 1, n)
    BY <1>1, <1>2, <1>5
  <2> QED BY <1>3, <1>5, <2>1 DEF Found
<1>6. ASSUME NEW l \in ends, q = Append(p, l)
      PROVE  IsPrefix(p, q) /\ Found(q, t, n + 1, ends)
  <2>1. IsPrefix(q, q)
    BY PrefixOrder
  <2>2. l \in Levels
    OBVIOUS
  <2>3. IsPrefix(p, q) /\ Len(q) = n + 1 /\ q[n + 1] = l
    BY <1>1, <1>6, <2>1, <2>2, OneFurther
  <2>4. Fits(q, t, n + 1, n)
    BY <1>1, <1>2
  <2> QED BY <2>3, <2>4 DEF Found
<1> QED BY <1>4, <1>5, <1>6

\* A search that meets no bad level finds exactly these nodes, and it meets one
\* only where the topic has one.
LEMMA SearchFinds ==
  ASSUME NEW T, PathTree(T), NEW t, IsTopic(t), NEW ends, ends \subseteq Levels,
         NEW V, IsSearch(V, T, t, ends)
  PROVE  /\ <<Error>> \notin V[1][<<>>] => V[1][<<>>] = {q \in DOMAIN T : Found(q, t, 1, ends)}
         /\ (\A i \in 1 .. Depth(t) : ~ BadAt(t, i)) => <<Error>> \notin V[1][<<>>]
<1> DEFINE n == Depth(t)
           Out(i, p) == {q \in DOMAIN T : IsPrefix(p, q) /\ Found(q, t, i, ends)}
           Good == \A i \in 1 .. Depth(t) : ~ BadAt(t, i)
           Fine(i, p) == /\ <<Error>> \notin V[i][p] => V[i][p] = Out(i, p)
                         /\ Good => <<Error>> \notin V[i][p]
           G == {i \in 1 .. n + 1 : \A p \in DOMAIN T : Len(p) = i - 1 => Fine(i, p)}
<1>1. n \in Nat /\ DOMAIN T \subseteq Paths /\ <<>> \in DOMAIN T /\ Len(<<>>) = 0
  BY TopicType, PrefixOrder DEF PathTree, IsTree
<1>2. <<Error>> \notin DOMAIN T
  <2>1. <<Error>>[1] = Error /\ Len(<<Error>>) = 1
    OBVIOUS
  <2>2. \A p \in Paths : \A i \in 1 .. Len(p) : p[i] # Error
    <3>1. \A p \in Paths : p \in [1 .. Len(p) -> Levels]
      BY LenProperties DEF Paths
    <3>2. ASSUME NEW p \in Paths, NEW i \in 1 .. Len(p)
          PROVE  p[i] # Error
      <4>1. p[i] \in Levels
        BY <3>1
      <4> QED BY <4>1, SpecialLevels
    <3> QED BY <3>2
  <2> DEFINE e == <<Error>>
  <2>3. e[1] = Error /\ 1 \in 1 .. Len(e)
    BY <2>1
  <2> HIDE DEF e
  <2>4. e \notin Paths
    BY <2>2, <2>3
  <2> QED BY <1>1, <2>4 DEF e
<1>3. n + 1 \in G
  <2>1. ASSUME NEW p \in DOMAIN T, Len(p) = n + 1 - 1
        PROVE  Fine(n + 1, p)
    <3>1. Len(p) = n /\ p \in Paths
      BY <1>1, <2>1
    <3>2. V[n + 1][p] = {p} \cup UNION {Child(T, p, l) : l \in ends}
      BY DEF IsSearch
    <3>3. \A q : q \in V[n + 1][p] <=> q \in DOMAIN T /\ (q = p \/ \E l \in ends : q = Append(p, l))
      BY <3>2 DEF Child
    <3>4. \A q \in DOMAIN T : IsPrefix(p, q) /\ Found(q, t, n + 1, ends) <=> q = p \/ \E l \in ends : q = Append(p, l)
      <4>1. ASSUME NEW q \in Paths
            PROVE  IsPrefix(p, q) /\ Found(q, t, n + 1, ends) <=> q = p \/ \E l \in ends : q = Append(p, l)
        BY <3>1, FoundAtEnd
      <4> QED BY <1>1, <4>1
    <3>5. \A q : q \in V[n + 1][p] <=> q \in Out(n + 1, p)
      BY <3>3, <3>4
    <3>6. V[n + 1][p] = Out(n + 1, p)
      <4> HIDE DEF Out
      <4> QED BY <3>2, <3>5
    <3> QED BY <1>2, <3>3, <3>6
  <2> HIDE DEF Fine
  <2> DEFINE N == n + 1
  <2>2. N \in 1 .. n + 1 /\ \A p \in DOMAIN T : Len(p) = N - 1 => Fine(N, p)
    BY <1>1, <2>1
  <2> HIDE DEF N
  <2>3. N \in G
    BY <2>2
  <2> QED BY <2>3 DEF N
<1>4. ASSUME NEW i \in 1 .. n, i + 1 \in G
      PROVE  i \in G
  <2>1. ASSUME NEW p \in DOMAIN T, Len(p) = i - 1
        PROVE  Fine(i, p)
    <3> DEFINE l == SpelledAt(t, i)
               C == Child(T, p, SWC) \cup Child(T, p, l)
    <3>1. V[i][p] = IF BadAt(t, i) THEN {<<Error>>} ELSE Child(T, p, MWC) \cup UNION {V[i + 1][c] : c \in C}
      BY DEF IsSearch
    <3>2. CASE BadAt(t, i)
      BY <3>1, <3>2
    <3>3. CASE ~ BadAt(t, i)
      <4>1. V[i][p] = Child(T, p, MWC) \cup UNION {V[i + 1][c] : c \in C}
        BY <3>1, <3>3
      <4>2. p \in Paths /\ l \in Levels /\ SWC \in Levels /\ MWC \in Levels /\ Len(p) + 1 = i
        <5>1. i \in 1 .. Len(t) + 1 /\ i <= Len(t)
          BY <1>1, TopicType
        <5>2. l \in Levels
          BY <5>1, Rest
        <5>3. Len(p) + 1 = i
          BY <2>1
        <5> QED BY <1>1, <5>2, <5>3, SpecialLevels
      <4> HIDE DEF l
      <4>3. \A x \in {SWC, l} : Append(p, x) \in Paths /\ Len(Append(p, x)) = i + 1 - 1
        <5>1. \A x \in {SWC, l} : Append(p, x) \in Paths /\ Len(Append(p, x)) = Len(p) + 1
          BY <4>2, OneFurther
        <5> QED BY <4>2, <5>1
      <4>4. C = {Append(p, x) : x \in {SWC, l}} \cap DOMAIN T
        BY DEF Child
      <4> HIDE DEF C
      <4>5. \A c \in C : Fine(i + 1, c)
        <5> HIDE DEF Fine
        <5>1. \A c \in C : c \in DOMAIN T /\ Len(c) = i + 1 - 1
          BY <4>3, <4>4
        <5> QED BY <1>4, <5>1
      <4>6. Good => <<Error>> \notin V[i][p]
        <5>1. ASSUME Good
              PROVE  <<Error>> \notin V[i][p]
          <6> HIDE DEF Good
          <6>1. <<Error>> \notin Child(T, p, MWC)
            BY <1>2 DEF Child
          <6>2. \A c \in C : <<Error>> \notin V[i + 1][c]
            BY <4>5, <5>1
          <6> QED BY <4>1, <6>1, <6>2
        <5> QED BY <5>1
      <4>7. ASSUME <<Error>> \notin V[i][p]
            PROVE  V[i][p] = Out(i, p)
        <5>1. \A c \in C : V[i + 1][c] = Out(i + 1, c)
          <6>1. \A c \in C : <<Error>> \notin V[i + 1][c]
            BY <4>1, <4>7
          <6> HIDE DEF Good, Out
          <6> QED BY <4>5, <6>1
        <5>2. ASSUME NEW q \in DOMAIN T
              PROVE  q \in Child(T, p, MWC) \/ (\E c \in C : q \in Out(i + 1, c)) <=> q \in Out(i, p)
          <6>0. q \in Paths
            BY <1>1
          <6>1. Found(q, t, i, ends) <=>
                  \/ Len(q) = i /\ q[i] = MWC
                  \/ i <= Len(q) /\ q[i] \in {SWC, l} /\ Found(q, t, i + 1, ends)
            BY <6>0, FoundFurther DEF l
          <6>2. q \in Child(T, p, MWC) <=> IsPrefix(p, q) /\ Len(q) = i /\ q[i] = MWC
            BY <4>2, <6>0, ChildIs
          <6>3. ASSUME NEW x \in {SWC, l}, IsPrefix(p, q), i <= Len(q), q[i] = x
                PROVE  Append(p, x) \in C /\ IsPrefix(Append(p, x), q)
            <7>1. Append(p, x) \in Paths /\ IsPrefix(Append(p, x), q)
              BY <4>2, <6>0, <6>3, OneFurther
            <7>2. Append(p, x) \in DOMAIN T
              BY <7>1, WayIn
            <7> QED BY <4>4, <7>1, <7>2
          <6>4. ASSUME NEW c \in C, IsPrefix(c, q)
                PROVE  IsPrefix(p, q) /\ i <= Len(q) /\ q[i] \in {SWC, l}
            <7>1. PICK x \in {SWC, l} : c = Append(p, x)
              BY <4>4
            <7> QED BY <4>2, <6>0, <6>4, <7>1, OneFurther
          <6>5. q \in Out(i, p) <=> IsPrefix(p, q) /\ Found(q, t, i, ends)
            OBVIOUS
          <6>6. \A c : q \in Out(i + 1, c) <=> IsPrefix(c, q) /\ Found(q, t, i + 1, ends)
            OBVIOUS
          <6> HIDE DEF Out
          <6> QED BY <6>1, <6>2, <6>3, <6>4, <6>5, <6>6
        <5>3. \A q : q \in V[i][p] <=> q \in DOMAIN T /\ (q \in Child(T, p, MWC) \/ \E c \in C : q \in Out(i + 1, c))
          <6>1. Child(T, p, MWC) \subseteq DOMAIN T /\ \A c : Out(i + 1, c) \subseteq DOMAIN T
            BY DEF Child
          <6> HIDE DEF Out
          <6> QED BY <4>1, <5>1, <6>1
        <5>4. Out(i, p) \subseteq DOMAIN T
          OBVIOUS
        <5>5. \A q : q \in V[i][p] <=> q \in Out(i, p)
          <6> HIDE DEF Out
          <6> QED BY <5>2, <5>3, <5>4
        <5> HIDE DEF Out
        <5> QED BY <4>1, <5>5
      <4> HIDE DEF Good, Out
      <4> QED BY <4>6, <4>7
    <3> QED BY <3>2, <3>3
  <2>2. i \in 1 .. n + 1
    BY <1>1
  <2> HIDE DEF Fine
  <2> QED BY <2>1, <2>2
<1>5. 1 \in G
  <2> HIDE DEF G
  <2> DEFINE N == n + 1
  <2>1. N \in Nat /\ N - 1 = n /\ 1 \in 1 .. N /\ N \in G
    BY <1>1, <1>3
  <2> HIDE DEF N
  <2>2. \A i \in 1 .. N - 1 : i + 1 \in G => i \in G
    BY <1>4, <2>1
  <2> QED BY <2>1, <2>2, Downward
<1>6. Fine(1, <<>>)
  <2> HIDE DEF Fine
  <2>1. Len(<<>>) = 1 - 1
    BY <1>1
  <2> QED BY <1>1, <1>5, <2>1
<1>7. \A q \in DOMAIN T : IsPrefix(<<>>, q)
  BY <1>1, PrefixOrder
<1>8. Out(1, <<>>) = {q \in DOMAIN T : Found(q, t, 1, ends)}
  BY <1>7
<1> QED BY <1>6, <1>8

\* A lookup in the plain tree that is not refused finds exactly the nodes whose path
\* fits the topic, and one without a bad level is not refused.
LEMMA PlainLookup ==
  ASSUME NEW T, PathTree(T), NEW t, IsTopic(t)
  PROVE  /\ <<Error>> \notin smatch(T, t) => smatch(T, t) = {q \in DOMAIN T : Found(q, t, 1, Ends(t))}
         /\ (\A i \in 1 .. Depth(t) : ~ BadAt(t, i)) => <<Error>> \notin smatch(T, t)
<1>1. PICK V : smatch(T, t) = V[1][<<>>] /\ IsSearch(V, T, t, Ends(t))
  BY PlainSearch
<1>2. Ends(t) \subseteq Levels
  BY SpecialLevels DEF Ends
<1> QED BY <1>1, <1>2, SearchFinds

\* The same of the system tree, whose search ends at the last level.
LEMMA SysLookup ==
  ASSUME NEW T, PathTree(T), NEW t, IsTopic(t)
  PROVE  /\ <<Error>> \notin Sys!smatch(T, t) => Sys!smatch(T, t) = {q \in DOMAIN T : Found(q, t, 1, {})}
         /\ (\A i \in 1 .. Depth(t) : ~ BadAt(t, i)) => <<Error>> \notin Sys!smatch(T, t)
<1>1. PICK V : Sys!smatch(T, t) = V[1][<<>>] /\ IsSearch(V, T, t, {})
  BY SysSearch
<1> DEFINE none == {}
<1>2. none \subseteq Levels /\ IsSearch(V, T, t, none)
  BY <1>1
<1> HIDE DEF none
<1>3. /\ <<Error>> \notin V[1][<<>>] => V[1][<<>>] = {q \in DOMAIN T : Found(q, t, 1, none)}
      /\ (\A i \in 1 .. Depth(t) : ~ BadAt(t, i)) => <<Error>> \notin V[1][<<>>]
  BY <1>2, SearchFinds
<1> QED BY <1>1, <1>3 DEF none

-----------------------------------------------------------------------------
(* What is found, measured against the rules of MQTT *)

\* A topic without an empty level is spelled as it is.
LEMMA NoEmptyLevel ==
  ASSUME NEW t, IsTopic(t), ~ HasEmpty(t)
  PROVE  ~ EndsEmpty(t) /\ \A i \in 1 .. Len(t) : SpelledAt(t, i) = t[i]
<1>1. Len(t) \in 1 .. Len(t) /\ DOMAIN t = 1 .. Len(t)
  <2>1. Len(t) \in Nat \ {0} /\ t \in Seq(Levels)
    BY TopicType DEF Paths
  <2>2. DOMAIN t = 1 .. Len(t)
    BY <2>1, LenProperties
  <2> QED BY <2>1, <2>2
<1>2. \A i \in 1 .. Len(t) : t[i] # ""
  BY <1>1, Zenon DEF HasEmpty, Range
<1> QED BY <1>1, <1>2, Zenon DEF EndsEmpty, SpelledAt

\* A topic to publish to has no wildcard; it is only bad for a '$'.
LEMMA PubLevels ==
  ASSUME NEW t \in PubTopics
  PROVE  /\ IsTopic(t) /\ \A i \in 1 .. Len(t) : t[i] # MWC
         /\ ~ HasDollar(t) => Head(t) \notin Dollar /\ \A i \in 1 .. Depth(t) : ~ BadAt(t, i)
<1>1. IsTopic(t) /\ Range(t) \cap ({SWC, MWC} \cup Malformed) = {}
  BY TopicsAssumption
<1>2. /\ Len(t) \in Nat \ {0} /\ DOMAIN t = 1 .. Len(t) /\ Head(t) = t[1]
      /\ Depth(t) \in Nat /\ Depth(t) <= Len(t)
  BY <1>1, TopicType, LenProperties DEF Paths
<1>3. 1 \in 1 .. Len(t) /\ \A i \in 1 .. Depth(t) : i \in 1 .. Len(t)
  BY <1>2
<1>4. \A i \in 1 .. Len(t) : t[i] \in Range(t)
  BY <1>2 DEF Range
<1>5. \A i \in 1 .. Len(t) : t[i] # MWC /\ t[i] \notin Malformed
  BY <1>1, <1>4
<1>6. ~ HasDollar(t) => \A i \in 1 .. Len(t) : t[i] \notin Dollar
  BY <1>4 DEF HasDollar
<1> QED BY <1>1, <1>2, <1>3, <1>5, <1>6 DEF BadAt

\* Levels that match are spelled so that they match.
LEMMA SpelledMatch ==
  ASSUME NEW f, NEW t, NEW i, f[i] \in {SWC, t[i]}
  PROVE  SpelledAt(f, i) \in {SWC, SpelledAt(t, i)}
BY Zenon DEF SpelledAt

\* A filter that matches leads to a node that is found.
LEMMA MatchIsFound ==
  ASSUME NEW t, IsTopic(t), NEW f, IsTopic(f), Accepted(f), MqttMatch(f, t)
  PROVE  /\ ~ BeyondEmpty(f, t) => Found(PathOf(f), t, 1, Ends(t))
         /\ ~ HasEmpty(t) /\ ~ (Last(f) = MWC /\ Len(f) = Len(t) + 1) => Found(PathOf(f), t, 1, {})
<1> DEFINE p == PathOf(f)
           n == Depth(t)
           lt == Len(t)
           lf == Len(f)
           lp == Len(p)
           hash == f[lf] = MWC
           et == EndsEmpty(t)
           ef == EndsEmpty(f)
<1>1. /\ lt \in Nat \ {0} /\ n \in Nat /\ (n = lt - 1 <=> et) /\ (n = lt <=> ~ et)
      /\ lf \in Nat \ {0} /\ Depth(f) \in Nat /\ (Depth(f) = lf - 1 <=> ef) /\ (Depth(f) = lf <=> ~ ef)
  BY TopicType
<1>2. lp = Depth(f) /\ \A i \in 1 .. lp : p[i] = SpelledAt(f, i)
  BY WalkFacts
<1>3. hash => ~ ef /\ SpelledAt(f, lf) = MWC
  BY SpecialLevels, Zenon DEF EndsEmpty, SpelledAt
<1>4. f[lf] = SWC => ~ ef /\ SpelledAt(f, lf) = SWC
  BY SpecialLevels, Zenon DEF EndsEmpty, SpelledAt
<1>5. f[lf] = t[lt] => (ef <=> et)
  BY Zenon DEF EndsEmpty
<1>6. IF hash THEN lf <= lt + 1 /\ \A i \in 1 .. lf - 1 : f[i] \in {SWC, t[i]}
      ELSE lf = lt /\ \A i \in 1 .. lf : f[i] \in {SWC, t[i]}
  BY DEF MqttMatch
<1>7. BeyondEmpty(f, t) <=> et /\ hash /\ lf = lt + 1
  BY Zenon DEF BeyondEmpty, Last, EndsEmpty
<1>8. MWC \in Ends(t) /\ (et => SWC \in Ends(t))
  BY DEF Ends
<1>9. ~ HasEmpty(t) => ~ et
  BY NoEmptyLevel
<1>10. Last(f) = MWC <=> hash
  BY DEF Last
<1> HIDE DEF n, lt, lf, lp, p, et, ef
<1>11. ASSUME NEW j \in Nat, j <= lp, \A i \in 1 .. j : f[i] \in {SWC, t[i]}
       PROVE  Fits(p, t, 1, j)
  <2>1. ASSUME NEW i \in 1 .. j
        PROVE  p[i] \in {SWC, SpelledAt(t, i)}
    <3>1. i \in 1 .. lp
      BY <1>1, <1>2, <1>11
    <3>2. SpelledAt(f, i) \in {SWC, SpelledAt(t, i)}
      BY <1>11, SpelledMatch
    <3> QED BY <1>2, <3>1, <3>2
  <2> QED BY <2>1, Zenon DEF Fits
<1>12. ASSUME hash
       PROVE  /\ lf <= n => Found(p, t, 1, Ends(t)) /\ Found(p, t, 1, {})
              /\ lf = n + 1 => Found(p, t, 1, Ends(t))
  <2>1. lp = lf /\ lf \in 1 .. lp /\ p[lp] = MWC
    <3>1. lp = lf /\ lf \in 1 .. lp
      BY <1>1, <1>2, <1>3, <1>12
    <3> QED BY <3>1, <1>2, <1>3, <1>12
  <2>2. Fits(p, t, 1, lp - 1)
    <3>1. lp - 1 \in Nat /\ lp - 1 <= lp
      BY <1>1, <2>1
    <3> QED BY <3>1, <1>6, <1>11, <1>12, <2>1
  <2>3. lf <= n => lp \in 1 .. n
    BY <1>1, <2>1
  <2>4. lf = n + 1 => lp = n + 1 /\ lp - 1 = n
    BY <1>1, <2>1
  <2> QED BY <1>8, <2>1, <2>2, <2>3, <2>4, Zenon DEF Found, n, lp
<1>13. ASSUME ~ hash
       PROVE  \/ lp = n /\ Fits(p, t, 1, n)
              \/ et /\ lp = n + 1 /\ p[lp] = SWC /\ Fits(p, t, 1, n)
  <2>1. lf = lt /\ \A i \in 1 .. lf : f[i] \in {SWC, t[i]}
    BY <1>6, <1>13
  <2>2. f[lf] \in {SWC, t[lf]}
    BY <1>1, <2>1
  <2>3. n <= lf /\ \A i \in 1 .. n : i \in 1 .. lf
    BY <1>1, <2>1
  <2>4. n <= lp => Fits(p, t, 1, n)
    BY <1>1, <1>11, <2>1, <2>3
  <2>5. CASE ef <=> et
    <3>1. lp = n
      BY <1>1, <1>2, <2>1, <2>5
    <3> QED BY <1>1, <3>1, <2>4
  <2>6. CASE ~ (ef <=> et)
    <3>1. f[lf] = SWC /\ ~ ef /\ et
      BY <1>4, <1>5, <2>1, <2>2, <2>6
    <3>2. lp = lf /\ lp = n + 1 /\ lp \in 1 .. lp /\ n <= lp
      BY <1>1, <1>2, <2>1, <3>1
    <3>3. p[lp] = SWC
      BY <1>2, <1>4, <3>1, <3>2
    <3> QED BY <2>4, <3>1, <3>2, <3>3
  <2> QED BY <2>5, <2>6
<1>14. ASSUME ~ hash
       PROVE  Found(p, t, 1, Ends(t)) /\ (~ et => Found(p, t, 1, {}))
  BY <1>8, <1>13, <1>14, Zenon DEF Found, n, lp
<1>15. ASSUME ~ BeyondEmpty(f, t)
       PROVE  Found(p, t, 1, Ends(t))
  <2>1. hash => lf <= n \/ lf = n + 1
    BY <1>1, <1>6, <1>7, <1>15
  <2> QED BY <1>12, <1>14, <2>1
<1>16. ASSUME ~ HasEmpty(t), ~ (hash /\ lf = lt + 1)
       PROVE  Found(p, t, 1, {})
  <2>1. hash => lf <= n
    BY <1>1, <1>6, <1>9, <1>16
  <2> QED BY <1>9, <1>12, <1>14, <1>16, <2>1
<1> QED BY <1>10, <1>15, <1>16 DEF p, lf, lt

\* Where no level is empty, a filter whose node is found matches.
LEMMA FoundIsMatch ==
  ASSUME NEW t \in PubTopics, NEW f, IsTopic(f), Accepted(f), ~ HasEmpty(t), ~ HasEmpty(f),
         NEW ends, ends \subseteq {MWC}, Found(PathOf(f), t, 1, ends)
  PROVE  MqttMatch(f, t)
<1> DEFINE p == PathOf(f)
           n == Depth(t)
           lt == Len(t)
           lf == Len(f)
           lp == Len(p)
           hash == f[lf] = MWC
<1>1. IsTopic(t) /\ \A i \in 1 .. lt : t[i] # MWC
  BY PubLevels
<1>2. /\ lt \in Nat \ {0} /\ n = lt /\ \A i \in 1 .. lt : SpelledAt(t, i) = t[i]
      /\ lf \in Nat \ {0} /\ Depth(f) = lf /\ \A i \in 1 .. lf : SpelledAt(f, i) = f[i]
  BY <1>1, TopicType, NoEmptyLevel
<1>3. lp = lf /\ \A i \in 1 .. lf : p[i] = f[i]
  BY <1>2, WalkFacts
<1>4. \/ lp \in 1 .. n /\ p[lp] = MWC /\ Fits(p, t, 1, lp - 1)
      \/ lp = n /\ Fits(p, t, 1, n)
      \/ lp = n + 1 /\ p[lp] = MWC /\ Fits(p, t, 1, n)
  BY DEF Found
<1>5. SWC # MWC
  BY SpecialLevels
<1> DEFINE hf == IF f[lf] = MWC
                 THEN lf <= lt + 1 /\ \A i \in 1 .. lf - 1 : f[i] \in {SWC, t[i]}
                 ELSE lf = lt /\ \A i \in 1 .. lf : f[i] \in {SWC, t[i]}
<1>6. MqttMatch(f, t) <=> hf
  BY DEF MqttMatch
<1> HIDE DEF n, lt, lf, lp, p
<1>7. ASSUME NEW j \in Nat, j <= lf, j <= lt, Fits(p, t, 1, j)
      PROVE  \A i \in 1 .. j : f[i] \in {SWC, t[i]}
  <2>1. ASSUME NEW i \in 1 .. j
        PROVE  f[i] \in {SWC, t[i]}
    <3>1. i \in 1 .. lf /\ i \in 1 .. lt
      BY <1>2, <1>7
    <3>2. p[i] \in {SWC, SpelledAt(t, i)}
      BY <1>7 DEF Fits
    <3> QED BY <1>2, <1>3, <3>1, <3>2
  <2> QED BY <2>1
<1>8. lf \in 1 .. lf /\ p[lp] = f[lf]
  BY <1>2, <1>3
<1>9. CASE lp \in 1 .. n /\ p[lp] = MWC /\ Fits(p, t, 1, lp - 1)
  <2>1. lf - 1 \in Nat /\ lf - 1 <= lf /\ lf - 1 <= lt /\ lf <= lt + 1 /\ f[lf] = MWC /\ Fits(p, t, 1, lf - 1)
    BY <1>2, <1>3, <1>8, <1>9
  <2>2. \A i \in 1 .. lf - 1 : f[i] \in {SWC, t[i]}
    BY <2>1, <1>7
  <2> QED BY <1>6, <2>1, <2>2
<1>10. CASE lp = n /\ Fits(p, t, 1, n)
  <2>1. lf = lt /\ lf \in Nat /\ lf <= lf /\ Fits(p, t, 1, lf) /\ lf \in 1 .. lt
    BY <1>2, <1>3, <1>10
  <2>2. \A i \in 1 .. lf : f[i] \in {SWC, t[i]}
    BY <2>1, <1>7
  <2>3. f[lf] # MWC
    BY <1>1, <1>5, <1>8, <2>1, <2>2
  <2> QED BY <1>6, <2>1, <2>2, <2>3
<1>11. CASE lp = n + 1 /\ p[lp] = MWC /\ Fits(p, t, 1, n)
  <2>1. lf - 1 = lt /\ lf - 1 \in Nat /\ lf - 1 <= lf /\ lf - 1 <= lt /\ lf <= lt + 1 /\ f[lf] = MWC /\ Fits(p, t, 1, lf - 1)
    BY <1>2, <1>3, <1>8, <1>11
  <2>2. \A i \in 1 .. lf - 1 : f[i] \in {SWC, t[i]}
    BY <2>1, <1>7
  <2> QED BY <1>6, <2>1, <2>2
<1> QED BY <1>4, <1>9, <1>10, <1>11

-----------------------------------------------------------------------------
(* Who is sent a message *)

\* What subscriber s of node p, granted x, is sent of a message with QoS q.
Copy(p, s, x, q) == [path |-> p, sub |-> s, qos |-> Min({q, x})]

\* What is sent when the nodes of a search are known.
LEMMA CopiesOfNodes ==
  ASSUME NEW T, NEW N, NEW q
  PROVE  /\ \A d : d \in matchQos(T, N, q) <=>
              \E p \in N : \E s : s \in DOMAIN T[p] /\ d = Copy(p, s, T[p][s], q)
         /\ matchQos(T, N, q) # Refused
<1>1. matchQos(T, N, q) = UNION {{Copy(p, s, T[p][s], q) : s \in DOMAIN T[p]} : p \in N}
  BY DEF matchQos, Copy
<1>2. \A d : d \in matchQos(T, N, q) <=>
         \E p \in N : \E s : s \in DOMAIN T[p] /\ d = Copy(p, s, T[p][s], q)
  BY <1>1
<1>3. \A p, s, x : Copy(p, s, x, q) # [error |-> Error]
  <2>1. \A p, s, x : "path" \in DOMAIN Copy(p, s, x, q)
    BY DEF Copy
  <2>2. "path" \notin DOMAIN [error |-> Error]
    OBVIOUS
  <2> QED BY <2>1, <2>2
<1>4. [error |-> Error] \notin matchQos(T, N, q)
  BY <1>2, <1>3
<1> QED BY <1>2, <1>4 DEF Refused

\* A lookup in plain tree T.
SentBy(T, t, q) ==
  IF Head(t) \in Dollar \/ <<Error>> \in smatch(T, t) THEN Refused ELSE matchQos(T, smatch(T, t), q)

\* A lookup in the plain tree that is not refused sends to who is in the nodes
\* that are found; it is refused only for a '$'.
LEMMA SentByTree ==
  ASSUME NEW T, PathTree(T), NEW t \in PubTopics, NEW q
  PROVE  /\ SentBy(T, t, q) # Refused => \A d : d \in SentBy(T, t, q) <=>
              \E p, s, x : Has(T, p, s, x) /\ Found(p, t, 1, Ends(t)) /\ d = Copy(p, s, x, q)
         /\ ~ HasDollar(t) => SentBy(T, t, q) # Refused
<1> DEFINE N == smatch(T, t)
           S == matchQos(T, N, q)
<1>1. IsTopic(t)
  BY PubLevels
<1>2. SentBy(T, t, q) = IF Head(t) \in Dollar \/ <<Error>> \in N THEN Refused ELSE S
  BY DEF SentBy
<1>3. /\ <<Error>> \notin N => N = {p \in DOMAIN T : Found(p, t, 1, Ends(t))}
      /\ ~ HasDollar(t) => <<Error>> \notin N /\ Head(t) \notin Dollar
  BY <1>1, PlainLookup, PubLevels
<1> HIDE DEF N
<1>4. /\ S # Refused
      /\ \A d : d \in S <=> \E p \in N : \E s : s \in DOMAIN T[p] /\ d = Copy(p, s, T[p][s], q)
  BY CopiesOfNodes
<1> HIDE DEF S
<1>5. ASSUME <<Error>> \notin N
      PROVE  \A d : d \in S <=>
               \E p, s, x : Has(T, p, s, x) /\ Found(p, t, 1, Ends(t)) /\ d = Copy(p, s, x, q)
  <2>1. \A p : p \in N <=> p \in DOMAIN T /\ Found(p, t, 1, Ends(t))
    BY <1>3, <1>5
  <2> QED BY <1>4, <2>1, Zenon DEF Has
<1> QED BY <1>2, <1>3, <1>4, <1>5

\* What a publish is answered is what the plain tree sends, before and after a step.
LEMMA PlainIs ==
  ASSUME NEW t, NEW q
  PROVE  Plain(t, q) = SentBy(sroot, t, q) /\ Plain(t, q)' = SentBy(sroot', t, q)
<1>1. \A T : Share!matchQos(T, {}, q, "") = {}
  BY DEF Share!matchQos
<1>2. ASSUME NEW T, NEW N, NEW R
      PROVE  /\ {} \cup N = N
             /\ Share!matchQos(T, {}, q, "") \cup R = R
  BY <1>1
<1> QED BY <1>2, Zenon DEF Plain, Subscribers, SentBy

\* What the members of group g of node p may be sent.
Slot(T, p, g, q) ==
  [path |-> p, share |-> g, from |-> {[sub |-> s, qos |-> Share!Min({q, T[p][g][s]})] : s \in DOMAIN T[p][g]}]

GroupsOf(T, N, q) == Share!matchQos(T, N, q, "")

\* The groups found are those of the nodes found that have a member.
LEMMA SlotsOfNodes ==
  ASSUME NEW T, NEW N, NEW q
  PROVE  /\ \A d : d \in GroupsOf(T, N, q) <=>
              \E p \in N : \E g : g \in DOMAIN T[p] /\ DOMAIN T[p][g] # {} /\ d = Slot(T, p, g, q)
         /\ GroupsOf(T, N, q) # Refused
<1> DEFINE all == UNION {{Slot(T, p, g, q) : g \in DOMAIN T[p]} : p \in N}
           S == GroupsOf(T, N, q)
<1>1. S = {d \in all : d.from # {} /\ "" \in {"", d.share}}
  BY Zenon DEF GroupsOf, Share!matchQos, Slot
<1>2. \A p, g : Slot(T, p, g, q).from # {} <=> DOMAIN T[p][g] # {}
  BY DEF Slot
<1>3. \A d : d \in S <=> \E p \in N : \E g : g \in DOMAIN T[p] /\ DOMAIN T[p][g] # {} /\ d = Slot(T, p, g, q)
  <2>1. \A d : d \in all <=> \E p \in N : \E g : g \in DOMAIN T[p] /\ d = Slot(T, p, g, q)
    OBVIOUS
  <2> HIDE DEF all, S
  <2>2. \A d : d \in S <=> d \in all /\ d.from # {}
    BY <1>1
  <2> QED BY <1>2, <2>1, <2>2
<1>4. \A p, g : Slot(T, p, g, q) # [error |-> Error]
  <2>1. \A p, g : "path" \in DOMAIN Slot(T, p, g, q)
    BY DEF Slot
  <2>2. "path" \notin DOMAIN [error |-> Error]
    OBVIOUS
  <2> QED BY <2>1, <2>2
<1> HIDE DEF S
<1>5. [error |-> Error] \notin S
  BY <1>3, <1>4
<1>6. S # Refused
  BY <1>5 DEF Refused
<1> QED BY <1>3, <1>6 DEF S

\* A lookup in the shared tree that is not refused finds the groups with members
\* of the nodes that are found.
LEMMA GroupsAre ==
  ASSUME PathTree(share), NEW t \in PubTopics, NEW q
  PROVE  /\ Groups(t, q) # Refused => \A d : d \in Groups(t, q) <=>
              \E p, g : /\ p \in DOMAIN share /\ g \in DOMAIN share[p] /\ DOMAIN share[p][g] # {}
                        /\ Found(p, t, 1, Ends(t)) /\ d = Slot(share, p, g, q)
         /\ ~ HasDollar(t) => Groups(t, q) # Refused
<1> DEFINE N == smatch(share, t)
           S == GroupsOf(share, N, q)
<1>1. IsTopic(t)
  BY PubLevels
<1>2. matchQos(sroot, {}, q) = {}
  BY DEF matchQos
<1>3. Groups(t, q) = IF Head(t) \in Dollar \/ <<Error>> \in N THEN Refused ELSE S
  <2>1. Groups(t, q) = IF Head(t) \in Dollar \/ <<Error>> \in Share!smatch(share, t) \cup {} THEN Refused
                       ELSE Share!matchQos(share, Share!smatch(share, t), q, "") \cup matchQos(sroot, {}, q)
    BY Zenon DEF Groups, Subscribers
  <2>2. Share!smatch(share, t) = N
    BY ShareSearchIs
  <2>3. Groups(t, q) = IF Head(t) \in Dollar \/ <<Error>> \in N \cup {} THEN Refused
                       ELSE S \cup matchQos(sroot, {}, q)
    BY <2>1, <2>2, Zenon DEF GroupsOf
  <2> HIDE DEF S, N
  <2> QED BY <1>2, <2>3
<1>4. /\ <<Error>> \notin N => N = {p \in DOMAIN share : Found(p, t, 1, Ends(t))}
      /\ ~ HasDollar(t) => <<Error>> \notin N /\ Head(t) \notin Dollar
  BY <1>1, PlainLookup, PubLevels
<1> HIDE DEF N
<1>5. /\ S # Refused
      /\ \A d : d \in S <=> \E p \in N : \E g : g \in DOMAIN share[p] /\ DOMAIN share[p][g] # {} /\ d = Slot(share, p, g, q)
  <2>1. \A d : d \in S <=> \E p \in N : \E g : g \in DOMAIN share[p] /\ DOMAIN share[p][g] # {} /\ d = Slot(share, p, g, q)
    BY SlotsOfNodes
  <2>2. S # Refused
    BY SlotsOfNodes
  <2> HIDE DEF S
  <2> QED BY <2>1, <2>2
<1> HIDE DEF S
<1>6. ASSUME <<Error>> \notin N
      PROVE  \A d : d \in S <=>
               \E p, g : /\ p \in DOMAIN share /\ g \in DOMAIN share[p] /\ DOMAIN share[p][g] # {}
                         /\ Found(p, t, 1, Ends(t)) /\ d = Slot(share, p, g, q)
  <2>1. \A p : p \in N <=> p \in DOMAIN share /\ Found(p, t, 1, Ends(t))
    BY <1>4, <1>6
  <2> QED BY <1>5, <2>1, Zenon
<1> QED BY <1>3, <1>4, <1>5, <1>6

\* A lookup in the system tree that is not refused sends to who is in the nodes
\* that are found, unless it was granted less.
LEMMA SystemIs ==
  ASSUME PathTree(sys), NEW t \in PubTopics, NEW q
  PROVE  /\ System(t, q) # Refused => \A d : d \in System(t, q) <=>
              \E p, s, x : /\ Has(sys, p, s, x) /\ Found(p, t, 1, {}) /\ q <= x
                           /\ d = [path |-> p, sub |-> s, qos |-> q]
         /\ ~ HasDollar(t) => System(t, q) # Refused
<1> DEFINE N == Sys!smatch(sys, t)
           S == Sys!matchQos(sys, N, q)
           rec(p, s) == [path |-> p, sub |-> s, qos |-> q]
           u == <<"$sys">> \o t
<1>1. IsTopic(t)
  BY PubLevels
<1>2. Tail(u) = t /\ IsSysSub(u)
  <2>1. t \in Seq(Levels) /\ Len(t) \in Nat \ {0}
    BY <1>1, TopicType DEF Paths
  <2> DEFINE x == "$sys"
  <2>2. Head(<<x>> \o t) = x /\ Len(<<x>> \o t) > 1 /\ Tail(<<x>> \o t) = t
    <3> HIDE DEF x
    <3> QED BY <2>1
  <2> QED BY <2>2 DEF IsSysSub
<1> HIDE DEF u
<1>3. System(t, q) = IF <<Error>> \in N THEN Refused ELSE S
  <2>1. System(t, q) = IF ~ IsSysSub(u) \/ <<Error>> \in Sys!smatch(sys, Tail(u)) THEN Refused
                       ELSE Sys!matchQos(sys, Sys!smatch(sys, Tail(u)), q)
    BY Zenon DEF System, Subscribers, u
  <2> QED BY <1>2, <2>1
<1>4. /\ <<Error>> \notin N => N = {p \in DOMAIN sys : Found(p, t, 1, {})}
      /\ ~ HasDollar(t) => <<Error>> \notin N
  BY <1>1, SysLookup, PubLevels
<1> HIDE DEF N
<1>5. S = UNION {{rec(p, s) : s \in {r \in DOMAIN sys[p] : q <= sys[p][r]}} : p \in N}
  BY DEF Sys!matchQos
<1>6. \A p, s : rec(p, s) # [error |-> Error]
  <2>1. \A p, s : "path" \in DOMAIN rec(p, s)
    OBVIOUS
  <2>2. "path" \notin DOMAIN [error |-> Error]
    OBVIOUS
  <2> HIDE DEF rec
  <2> QED BY <2>1, <2>2
<1> HIDE DEF S, rec
<1>7. \A d : d \in S <=> \E p \in N : \E s : s \in DOMAIN sys[p] /\ q <= sys[p][s] /\ d = rec(p, s)
  BY <1>5
<1>8. S # Refused
  BY <1>6, <1>7 DEF Refused
<1>9. ASSUME <<Error>> \notin N
      PROVE  \A d : d \in S <=> \E p, s, x : Has(sys, p, s, x) /\ Found(p, t, 1, {}) /\ q <= x /\ d = rec(p, s)
  <2>1. \A p : p \in N <=> p \in DOMAIN sys /\ Found(p, t, 1, {})
    BY <1>4, <1>9
  <2> QED BY <1>7, <2>1, Zenon DEF Has
<1> QED BY <1>3, <1>4, <1>8, <1>9 DEF rec

-----------------------------------------------------------------------------
(* Lookups are exact *)

\* A live subscription is in its node, and who is in a node has one.
LEMMA LiveIsHeld ==
  ASSUME SInv
  PROVE  /\ \A e \in live : /\ IsTopic(e.filter) /\ Accepted(e.filter) /\ e.path = PathOf(e.filter)
                            /\ e.tree = "plain" => Has(sroot, e.path, e.sub, e.qos)
                            /\ e.tree = "sys" => Has(sys, e.path, e.sub, e.qos)
                            /\ e.tree = "share" => ShareHas(share, e.path, e.share, e.sub, e.qos)
         /\ \A p, s, x : Has(sroot, p, s, x) =>
              \E e \in LiveIn("plain") : e.path = p /\ e.sub = s /\ e.qos = x
         /\ \A p, s, x : Has(sys, p, s, x) =>
              \E e \in LiveIn("sys") : e.path = p /\ e.sub = s /\ e.qos = x
         /\ \A p, g, s, x : ShareHas(share, p, g, s, x) =>
              \E e \in LiveIn("share") : e.path = p /\ e.sub = s /\ e.qos = x
<1>1. /\ \A e \in live : LiveOK(e)
      /\ Mirrors(sroot, "plain") /\ Mirrors(sys, "sys") /\ ShareMirrors
  BY DEF SInv
<1>2. ASSUME NEW e \in live
      PROVE  /\ IsTopic(e.filter) /\ Accepted(e.filter) /\ e.path = PathOf(e.filter)
             /\ e.tree = "plain" => Has(sroot, e.path, e.sub, e.qos)
             /\ e.tree = "sys" => Has(sys, e.path, e.sub, e.qos)
             /\ e.tree = "share" => ShareHas(share, e.path, e.share, e.sub, e.qos)
  <2>1. LiveOK(e)
    BY <1>1
  <2>2. e.path = PathOf(e.filter) /\ IsTopic(e.filter) /\ Accepted(e.filter)
    BY <2>1, LivePath DEF LiveOK
  <2>3. e.tree = "plain" \/ e.tree = "sys" => e.share = ""
    BY <2>1 DEF LiveOK
  <2>4. \A T, g : e.tree = T /\ e.share = g => LiveAt(live, T, g, e.path, e.sub, e.qos)
    BY DEF LiveAt, At
  <2> QED BY <1>1, <2>2, <2>3, <2>4 DEF Mirrors, ShareMirrors
<1>3. ASSUME NEW T, NEW g, NEW p, NEW s, NEW x, LiveAt(live, T, g, p, s, x)
      PROVE  \E e \in LiveIn(T) : e.path = p /\ e.sub = s /\ e.qos = x
  BY <1>3 DEF LiveAt, At, LiveIn
<1>4. /\ \A p, s, x : Has(sroot, p, s, x) => LiveAt(live, "plain", "", p, s, x)
      /\ \A p, s, x : Has(sys, p, s, x) => LiveAt(live, "sys", "", p, s, x)
  BY <1>1 DEF Mirrors
<1>5. \A p, g, s, x : ShareHas(share, p, g, s, x) => LiveAt(live, "share", g, p, s, x)
  BY <1>1 DEF ShareMirrors
<1> DEFINE none == ""
           plain == "plain"
           system == "sys"
<1>6. /\ \A p, s, x : Has(sroot, p, s, x) => LiveAt(live, plain, none, p, s, x)
      /\ \A p, s, x : Has(sys, p, s, x) => LiveAt(live, system, none, p, s, x)
  BY <1>4
<1> HIDE DEF none, plain, system
<1>7. /\ \A p, s, x : Has(sroot, p, s, x) =>
           \E e \in LiveIn(plain) : e.path = p /\ e.sub = s /\ e.qos = x
      /\ \A p, s, x : Has(sys, p, s, x) =>
           \E e \in LiveIn(system) : e.path = p /\ e.sub = s /\ e.qos = x
  BY <1>3, <1>6
<1>8. \A p, g, s, x : ShareHas(share, p, g, s, x) =>
        \E e \in LiveIn("share") : e.path = p /\ e.sub = s /\ e.qos = x
  BY <1>3, <1>5
<1> QED BY <1>2, <1>8, <1>7 DEF plain, system

\* A subscription that matches is live, so it is in the tree, so it is found.
LEMMA MissedFromInv ==
  ASSUME SInv
  PROVE  NobodyMissed
<1>1. SUFFICES ASSUME NEW t \in PubTopics, NEW q \in Qoses
      PROVE  /\ Plain(t, q) # Refused =>
                  \A e \in LiveIn("plain") : MqttMatch(e.filter, t) /\ ~ BeyondEmpty(e.filter, t) =>
                    [path |-> e.path, sub |-> e.sub, qos |-> Min({q, e.qos})] \in Plain(t, q)
             /\ Groups(t, q) # Refused =>
                  \A e \in LiveIn("share") : MqttMatch(e.filter, t) /\ ~ BeyondEmpty(e.filter, t) =>
                    \E slot \in Groups(t, q) :
                      /\ slot.path = e.path /\ slot.share = e.share
                      /\ [sub |-> e.sub, qos |-> Min({q, e.qos})] \in slot.from
             /\ System(t, q) # Refused =>
                  \A e \in LiveIn("sys") : MqttMatch(e.filter, t) /\ ~ BeyondEmpty(e.filter, t) =>
                    (q <= e.qos /\ ~ HasEmpty(t) /\ ~ (Last(e.filter) = MWC /\ Len(e.filter) = Len(t) + 1) =>
                       [path |-> e.path, sub |-> e.sub, qos |-> q] \in System(t, q))
  BY Zenon DEF NobodyMissed
<1>2. PathTree(sroot) /\ PathTree(share) /\ PathTree(sys) /\ IsTopic(t)
  BY PubLevels DEF SInv
<1>3. \A T : \A e \in LiveIn(T) : e \in live /\ e.tree = T
  BY DEF LiveIn
<1>4. ASSUME Plain(t, q) # Refused, NEW e \in LiveIn("plain"), MqttMatch(e.filter, t), ~ BeyondEmpty(e.filter, t)
      PROVE  [path |-> e.path, sub |-> e.sub, qos |-> Min({q, e.qos})] \in Plain(t, q)
  <2>1. Has(sroot, e.path, e.sub, e.qos) /\ IsTopic(e.filter) /\ Accepted(e.filter) /\ e.path = PathOf(e.filter)
    BY <1>3, LiveIsHeld
  <2>2. Found(e.path, t, 1, Ends(t))
    BY <1>2, <1>4, <2>1, MatchIsFound
  <2>3. Copy(e.path, e.sub, e.qos, q) \in Plain(t, q)
    BY <1>2, <1>4, <2>1, <2>2, PlainIs, SentByTree
  <2> QED BY <2>3 DEF Copy
<1>5. ASSUME Groups(t, q) # Refused, NEW e \in LiveIn("share"), MqttMatch(e.filter, t), ~ BeyondEmpty(e.filter, t)
      PROVE  \E slot \in Groups(t, q) :
               /\ slot.path = e.path /\ slot.share = e.share
               /\ [sub |-> e.sub, qos |-> Min({q, e.qos})] \in slot.from
  <2> DEFINE p == e.path
             g == e.share
             slot == Slot(share, p, g, q)
  <2>1. ShareHas(share, p, g, e.sub, e.qos) /\ IsTopic(e.filter) /\ Accepted(e.filter) /\ p = PathOf(e.filter)
    BY <1>3, LiveIsHeld
  <2>2. Found(p, t, 1, Ends(t))
    BY <1>2, <1>5, <2>1, MatchIsFound
  <2>3. slot \in Groups(t, q)
    <3>1. p \in DOMAIN share /\ g \in DOMAIN share[p] /\ DOMAIN share[p][g] # {}
      BY <2>1 DEF ShareHas
    <3> HIDE DEF p, g
    <3> QED BY <1>2, <1>5, <2>2, <3>1, GroupsAre
  <2>4. slot.path = p /\ slot.share = g /\ [sub |-> e.sub, qos |-> Min({q, e.qos})] \in slot.from
    <3>1. e.sub \in DOMAIN share[p][g] /\ share[p][g][e.sub] = e.qos
      BY <2>1 DEF ShareHas
    <3>2. Share!Min({q, e.qos}) = Min({q, e.qos})
      BY SameTrees
    <3> HIDE DEF p, g
    <3> QED BY <3>1, <3>2 DEF Slot
  <2> HIDE DEF slot
  <2> QED BY <2>3, <2>4
<1>6. ASSUME System(t, q) # Refused, NEW e \in LiveIn("sys"), MqttMatch(e.filter, t), ~ BeyondEmpty(e.filter, t),
             q <= e.qos, ~ HasEmpty(t), ~ (Last(e.filter) = MWC /\ Len(e.filter) = Len(t) + 1)
      PROVE  [path |-> e.path, sub |-> e.sub, qos |-> q] \in System(t, q)
  <2>1. Has(sys, e.path, e.sub, e.qos) /\ IsTopic(e.filter) /\ Accepted(e.filter) /\ e.path = PathOf(e.filter)
    BY <1>3, LiveIsHeld
  <2>2. Found(e.path, t, 1, {})
    BY <1>2, <1>6, <2>1, MatchIsFound
  <2> DEFINE d == [path |-> e.path, sub |-> e.sub, qos |-> q]
  <2>3. \A b : b \in System(t, q) <=>
          \E p, s, x : Has(sys, p, s, x) /\ Found(p, t, 1, {}) /\ q <= x /\ b = [path |-> p, sub |-> s, qos |-> q]
    BY <1>2, <1>6, SystemIs
  <2> QED BY <1>6, <2>1, <2>2, <2>3
<1> QED BY <1>4, <1>5, <1>6

\* Who is found is in the tree, so it is live, and its path fits the topic.
LEMMA ExtraFromInv ==
  ASSUME SInv
  PROVE  NobodyExtra
<1> DEFINE Asked(tree, d, p, t, q) ==
             \E e \in LiveIn(tree) :
               /\ e.sub = d.sub /\ e.path = p /\ d.qos = Min({q, e.qos})
               /\ MqttMatch(e.filter, t) \/ HasEmpty(e.filter) \/ HasEmpty(t)
<1>1. SUFFICES ASSUME NEW t \in PubTopics, NEW q \in Qoses
      PROVE  /\ Plain(t, q) # Refused => \A d \in Plain(t, q) : Asked("plain", d, d.path, t, q)
             /\ Groups(t, q) # Refused => \A slot \in Groups(t, q) : \A d \in slot.from : Asked("share", d, slot.path, t, q)
             /\ System(t, q) # Refused => \A d \in System(t, q) : Asked("sys", d, d.path, t, q)
  BY Zenon DEF NobodyExtra
<1>2. PathTree(sroot) /\ PathTree(share) /\ PathTree(sys) /\ IsTopic(t)
  BY PubLevels DEF SInv
<1>3. ASSUME NEW e \in live, NEW ends \in {{}, Ends(t)}, Found(e.path, t, 1, ends)
      PROVE  MqttMatch(e.filter, t) \/ HasEmpty(e.filter) \/ HasEmpty(t)
  <2>1. IsTopic(e.filter) /\ Accepted(e.filter) /\ e.path = PathOf(e.filter)
    BY LiveIsHeld
  <2>2. ~ HasEmpty(t) => ends \subseteq {MWC}
    BY <1>2, NoEmptyLevel DEF Ends
  <2> QED BY <1>3, <2>1, <2>2, FoundIsMatch
<1>4. \A T : \A e \in LiveIn(T) : e \in live
  BY DEF LiveIn
<1>5. ASSUME Plain(t, q) # Refused, NEW d \in Plain(t, q)
      PROVE  Asked("plain", d, d.path, t, q)
  <2>1. PICK p, s, x : Has(sroot, p, s, x) /\ Found(p, t, 1, Ends(t)) /\ d = Copy(p, s, x, q)
    BY <1>2, <1>5, PlainIs, SentByTree
  <2>2. PICK e \in LiveIn("plain") : e.path = p /\ e.sub = s /\ e.qos = x
    BY <2>1, LiveIsHeld
  <2>3. d.path = p /\ d.sub = s /\ d.qos = Min({q, x})
    BY <2>1 DEF Copy
  <2>4. MqttMatch(e.filter, t) \/ HasEmpty(e.filter) \/ HasEmpty(t)
    BY <1>3, <1>4, <2>1, <2>2
  <2> QED BY <2>2, <2>3, <2>4
<1>6. ASSUME Groups(t, q) # Refused, NEW slot \in Groups(t, q), NEW d \in slot.from
      PROVE  Asked("share", d, slot.path, t, q)
  <2>1. PICK p, g : /\ p \in DOMAIN share /\ g \in DOMAIN share[p] /\ Found(p, t, 1, Ends(t))
                    /\ slot = Slot(share, p, g, q)
    BY <1>2, <1>6, GroupsAre
  <2>2. slot.path = p /\ slot.from = {[sub |-> s, qos |-> Share!Min({q, share[p][g][s]})] : s \in DOMAIN share[p][g]}
    BY <2>1 DEF Slot
  <2>3. PICK s \in DOMAIN share[p][g] : d = [sub |-> s, qos |-> Share!Min({q, share[p][g][s]})]
    BY <2>2
  <2> DEFINE x == share[p][g][s]
  <2>4. ShareHas(share, p, g, s, x)
    BY <2>1 DEF ShareHas
  <2>5. d.sub = s /\ d.qos = Min({q, x})
    <3>1. Share!Min({q, x}) = Min({q, x})
      BY SameTrees
    <3> HIDE DEF x
    <3> QED BY <2>3, <3>1 DEF x
  <2> HIDE DEF x
  <2>6. PICK e \in LiveIn("share") : e.path = p /\ e.sub = s /\ e.qos = x
    BY <2>4, LiveIsHeld
  <2>7. MqttMatch(e.filter, t) \/ HasEmpty(e.filter) \/ HasEmpty(t)
    BY <1>3, <1>4, <2>1, <2>6
  <2> QED BY <2>2, <2>5, <2>6, <2>7
<1>7. ASSUME System(t, q) # Refused, NEW d \in System(t, q)
      PROVE  Asked("sys", d, d.path, t, q)
  <2>1. PICK p, s, x : /\ Has(sys, p, s, x) /\ Found(p, t, 1, {}) /\ q <= x
                       /\ d = [path |-> p, sub |-> s, qos |-> q]
    BY <1>2, <1>7, SystemIs
  <2>2. PICK e \in LiveIn("sys") : e.path = p /\ e.sub = s /\ e.qos = x
    BY <2>1, LiveIsHeld
  <2>3. q = Min({q, x})
    <3>1. q \in Nat /\ x \in Nat
      <4>1. q \in Nat /\ MaxQos \in Nat
        BY TopicsAssumption
      <4>2. x \in 0 .. MaxQos
        BY <2>1 DEF SInv, NodesOK, Has
      <4> QED BY <4>1, <4>2
    <3> QED BY <2>1, <3>1, MinOfTwo
  <2>4. d.path = p /\ d.sub = s /\ d.qos = q
    BY <2>1
  <2>5. MqttMatch(e.filter, t) \/ HasEmpty(e.filter) \/ HasEmpty(t)
    BY <1>3, <1>4, <2>1, <2>2
  <2> QED BY <2>2, <2>3, <2>4, <2>5
<1> QED BY <1>5, <1>6, <1>7

\* Whoever subscribed to a filter that matches is found and sent the lower QoS,
\* nobody else is, and only a topic with a '$' is refused, after any operations
\* (topic.go: Subscribers; smatch and matchQos of the three trees).
THEOREM LookupsAreExact == Spec => []LookupsExact
<1>1. SInv => NobodyMissed /\ NobodyExtra
  BY MissedFromInv, ExtraFromInv
<1>2. SInv => RefusedOnlyDollar
  <2> SUFFICES ASSUME SInv, NEW t \in PubTopics, ~ HasDollar(t)
               PROVE  Plain(t, 1) # Refused /\ Groups(t, 1) # Refused /\ System(t, 1) # Refused
    BY DEF RefusedOnlyDollar
  <2>1. PathTree(sroot) /\ PathTree(share) /\ PathTree(sys)
    BY DEF SInv
  <2> QED BY <2>1, PlainIs, SentByTree, GroupsAre, SystemIs
<1>3. SInv /\ TypeOK => LookupsExact
  BY <1>1, <1>2 DEF LookupsExact
<1> QED BY <1>3, SubscriptionsInvariant, TreesWellFormed, PTL

\* An operation of one client on the subscriptions leaves the others in the plain
\* tree where they are.
LEMMA OthersHeld ==
  ASSUME SInv, NEW t \in work.filters, NEW s \in Subs,
         Unsubscribe(t, s) \/ \E q \in Qoses : Subscribe(t, s, q)
  PROVE  \A p, r, x : r # s => (Has(sroot', p, r, x) <=> Has(sroot, p, r, x))
<1>1. IsTopic(t) /\ PathTree(sroot) /\ NodesOK(sroot)
  BY AskedTopics DEF SInv
<1>2. CASE sroot' = sroot
  BY <1>2
<1>3. ASSUME NEW q \in Qoses, sroot' = sinsert(sroot, t, s, Granted(q))
      PROVE  \A p, r, x : r # s => (Has(sroot', p, r, x) <=> Has(sroot, p, r, x))
  <2> DEFINE g == Granted(q)
             U == sinsert(sroot, t, s, g)
  <2>1. g \in 0 .. MaxQos
    BY GrantedOK
  <2> HIDE DEF g
  <2>2. \A p, r, x : Has(U, p, r, x) <=>
          IF Accepted(t) /\ p = PathOf(t) /\ r = s THEN x = g ELSE Has(sroot, p, r, x)
    BY <1>1, <2>1, PlainInsert
  <2>3. sroot' = U
    BY <1>3 DEF g
  <2> HIDE DEF U
  <2> QED BY <2>2, <2>3
<1>4. ASSUME sroot' = sremove(sroot, t, s)
      PROVE  \A p, r, x : r # s => (Has(sroot', p, r, x) <=> Has(sroot, p, r, x))
  <2> DEFINE U == sremove(sroot, t, s)
             R == RefusedPaths(PlainAsked)
  <2>1. Closed(R) /\ Reached(sroot, Busy(sroot), R)
    BY AskedClosed DEF SInv
  <2> HIDE DEF R
  <2>2. \A p, r, x : Has(U, p, r, x) <=> Has(sroot, p, r, x) /\ ~ (Accepted(t) /\ p = PathOf(t) /\ r = s)
    BY <1>1, <2>1, PlainRemove
  <2>3. sroot' = U
    BY <1>4
  <2> HIDE DEF U
  <2> QED BY <2>2, <2>3
<1>5. ASSUME NEW q \in Qoses, Subscribe(t, s, q)
      PROVE  sroot' = sroot \/ sroot' = sinsert(sroot, t, s, Granted(q))
  BY <1>5 DEF Subscribe, SubscribePlain, SubscribeSys, SubscribeShare
<1>6. ASSUME Unsubscribe(t, s)
      PROVE  sroot' = sroot \/ sroot' = sremove(sroot, t, s)
  BY <1>6 DEF Unsubscribe, UnsubscribePlain, UnsubscribeSys, UnsubscribeShare
<1> QED BY <1>2, <1>3, <1>4, <1>5, <1>6

\* Then they are sent what they were sent before.
LEMMA OthersServed ==
  ASSUME NEW T, PathTree(T), NEW U, PathTree(U), NEW t \in PubTopics, ~ HasDollar(t), NEW s,
         \A p, r, x : r # s => (Has(U, p, r, x) <=> Has(T, p, r, x))
  PROVE  Others(SentBy(U, t, 1), s) = Others(SentBy(T, t, 1), s)
<1>1. ASSUME NEW W \in {T, U}
      PROVE  \A d : d \in Others(SentBy(W, t, 1), s) <=>
               \E p, r, x : r # s /\ Has(W, p, r, x) /\ Found(p, t, 1, Ends(t)) /\ d = Copy(p, r, x, 1)
  <2>1. \A d : d \in SentBy(W, t, 1) <=>
          \E p, r, x : Has(W, p, r, x) /\ Found(p, t, 1, Ends(t)) /\ d = Copy(p, r, x, 1)
    BY SentByTree
  <2>2. \A p, r, x : Copy(p, r, x, 1).sub = r
    BY DEF Copy
  <2> QED BY <2>1, <2>2 DEF Others
<1>2. \A d : d \in Others(SentBy(U, t, 1), s) <=> d \in Others(SentBy(T, t, 1), s)
  BY <1>1
<1>3. \A S : Others(S, s) = {d \in S : d.sub # s}
  BY DEF Others
<1> QED BY <1>2, <1>3, Zenon

\* One client's subscription or its end changes nothing for the others (sinsert and
\* sremove of topic.go make and delete nodes that other filters go through).
THEOREM ClientsAreIsolated == Spec => Isolation
<1> DEFINE A == \A s \in Subs :
             (\E t \in work.filters : Unsubscribe(t, s) \/ \E q \in Qoses : Subscribe(t, s, q)) =>
               \A t \in PubTopics : ~ HasDollar(t) => Others(Plain(t, 1), s)' = Others(Plain(t, 1), s)
<1>1. SInv /\ SInv' => A
  <2> SUFFICES ASSUME SInv, SInv', NEW s \in Subs, NEW f \in work.filters,
                      Unsubscribe(f, s) \/ \E q \in Qoses : Subscribe(f, s, q),
                      NEW t \in PubTopics, ~ HasDollar(t)
               PROVE  Others(Plain(t, 1), s)' = Others(Plain(t, 1), s)
    OBVIOUS
  <2>1. PathTree(sroot) /\ PathTree(sroot')
    BY DEF SInv
  <2>2. \A p, r, x : r # s => (Has(sroot', p, r, x) <=> Has(sroot, p, r, x))
    BY OthersHeld
  <2>3. Others(SentBy(sroot', t, 1), s) = Others(SentBy(sroot, t, 1), s)
    BY <2>1, <2>2, OthersServed
  <2>4. Others(Plain(t, 1), s)' = Others(Plain(t, 1)', s)
    BY DEF Others
  <2> QED BY <2>3, <2>4, PlainIs
<1>2. SInv /\ SInv' /\ [Next]_vars => [A]_vars
  BY <1>1
<1> HIDE DEF A
<1>3. Spec => [][A]_vars
  BY <1>2, SubscriptionsInvariant, PTL DEF Spec
<1> QED BY <1>3 DEF Isolation, A

-----------------------------------------------------------------------------
(* Searches for retained messages *)

\* One layer of such a search.
RLayerOf(T, t, i, below) ==
  [p \in DOMAIN T |->
     IF IsEmpty(From(t, i)) THEN {T[p]} \ {NoMsg}
     ELSE LET l == nextTopicLevel(From(t, i))
          IN  CASE l = Error -> {NoMsg}
                [] l = MWC -> allRetained(T, p)
                [] l = SWC -> UNION {below[q] : q \in {r \in Below(T, p) : Len(r) = Len(p) + 1}}
                [] OTHER   -> UNION {below[q] : q \in Child(T, p, l)}]

\* The search for retained messages is the root's entry in the first of its layers.
LEMMA RSearchIs ==
  ASSUME NEW T, NEW t
  PROVE  rmatch(T, t) = (CHOOSE f : f = [i \in 1 .. Len(t) + 1 |-> RLayerOf(T, t, i, f[i + 1])])[1][<<>>]
BY Zenon DEF rmatch, RLayerOf

\* Layers as the search for retained messages defines them exist.
LEMMA RSearchExists ==
  ASSUME NEW T, NEW t, IsTopic(t)
  PROVE  \E f : f = [i \in 1 .. Len(t) + 1 |-> RLayerOf(T, t, i, f[i + 1])]
<1> DEFINE N == Len(t) + 1
           Held == {T[p] : p \in DOMAIN T} \cup {NoMsg}
           X == [DOMAIN T -> SUBSET Held]
           top == RLayerOf(T, t, N, <<>>)
           step == [i \in 1 .. N |-> [h \in X |-> RLayerOf(T, t, i, h)]]
<1>1. Len(t) \in Nat \ {0} /\ N \in Nat \ {0} /\ N - 1 = Len(t)
  BY TopicType
<1>2. IsEmpty(From(t, N))
  BY <1>1, Rest, TopicType
<1>3. /\ \A p, l : Child(T, p, l) \subseteq DOMAIN T
      /\ \A p : Below(T, p) \subseteq DOMAIN T
      /\ \A p : allRetained(T, p) \subseteq Held
      /\ \A p \in DOMAIN T : {T[p]} \ {NoMsg} \subseteq Held
  BY DEF Child, Below, allRetained
<1>4. \A h : RLayerOf(T, t, N, h) = top
  BY <1>2 DEF RLayerOf
<1>5. ASSUME NEW i \in 1 .. N, NEW h, \A n \in DOMAIN T : h[n] \subseteq Held, NEW p \in DOMAIN T
      PROVE  RLayerOf(T, t, i, h)[p] \subseteq Held
  <2> DEFINE l == nextTopicLevel(From(t, i))
  <2>1. /\ UNION {h[q] : q \in {r \in Below(T, p) : Len(r) = Len(p) + 1}} \subseteq Held
        /\ UNION {h[q] : q \in Child(T, p, l)} \subseteq Held
    <3> HIDE DEF Held, l
    <3> QED BY <1>3, <1>5
  <2>2. allRetained(T, p) \subseteq Held /\ {T[p]} \ {NoMsg} \subseteq Held /\ {NoMsg} \subseteq Held
    BY <1>3
  <2> HIDE DEF Held
  <2> QED BY <2>1, <2>2 DEF RLayerOf
<1>6. ASSUME NEW i \in 1 .. N, NEW h, \A n \in DOMAIN T : h[n] \subseteq Held
      PROVE  RLayerOf(T, t, i, h) \in X
  <2> HIDE DEF Held
  <2>1. \A p \in DOMAIN T : RLayerOf(T, t, i, h)[p] \in SUBSET Held
    BY <1>5, <1>6
  <2>2. RLayerOf(T, t, i, h) = [p \in DOMAIN T |-> RLayerOf(T, t, i, h)[p]]
    BY DEF RLayerOf
  <2> QED BY <2>1, <2>2
<1>7. top \in X
  <2> DEFINE h == [n \in DOMAIN T |-> {}]
  <2>1. \A n \in DOMAIN T : h[n] \subseteq Held
    OBVIOUS
  <2>2. N \in 1 .. N
    BY <1>1
  <2> HIDE DEF h, Held, X, top, N
  <2>3. RLayerOf(T, t, N, h) \in X
    BY <1>6, <2>1, <2>2
  <2> QED BY <1>4, <2>3
<1>8. \A i \in 1 .. N : \A h \in X : RLayerOf(T, t, i, h) \in X
  <2> HIDE DEF Held
  <2>1. \A h \in X : \A n \in DOMAIN T : h[n] \subseteq Held
    OBVIOUS
  <2> HIDE DEF X
  <2> QED BY <1>6, <2>1
<1> HIDE DEF X, N, top
<1>9. step \in [1 .. N -> [X -> X]]
  BY <1>8
<1>10. \A i \in 1 .. N : \A h \in X : step[i][h] = RLayerOf(T, t, i, h)
  OBVIOUS
<1> HIDE DEF step
<1>11. PICK f \in [1 .. N -> X] : f[N] = top /\ \A i \in 1 .. N - 1 : f[i] = step[i][f[i + 1]]
  BY <1>1, <1>7, <1>9, LayersExist
<1>12. ASSUME NEW i \in 1 .. N
       PROVE  f[i] = RLayerOf(T, t, i, f[i + 1])
  <2>1. CASE i = N
    BY <1>4, <1>11, <2>1
  <2>2. CASE i # N
    <3>1. i \in 1 .. N - 1 /\ i + 1 \in 1 .. N
      BY <1>1, <2>2
    <3>2. f[i + 1] \in X
      BY <3>1
    <3> QED BY <1>10, <1>11, <3>1, <3>2
  <2> QED BY <2>1, <2>2
<1>13. f = [i \in 1 .. N |-> RLayerOf(T, t, i, f[i + 1])]
  BY <1>12
<1> QED BY <1>13 DEF N

\* The filter ends with '#'; the last level before that.
Hash(t) == Depth(t) > 0 /\ SpelledAt(t, Depth(t)) = MWC
Upto(t) == IF Hash(t) THEN Depth(t) - 1 ELSE Depth(t)

\* The levels of filter t, from level i on, take those of path q.
Takes(t, q, i) ==
  /\ Upto(t) <= Len(q) /\ (~ Hash(t) => Len(q) <= Depth(t))
  /\ \A k \in i .. Upto(t) : SpelledAt(t, k) \in {SWC, q[k]}

IsRSearch(V, T, t) ==
  /\ \A p \in DOMAIN T : V[Depth(t) + 1][p] = {T[p]} \ {NoMsg}
  /\ \A i \in 1 .. Depth(t) : \A p \in DOMAIN T :
       V[i][p] = IF SpelledAt(t, i) = MWC THEN allRetained(T, p)
                 ELSE UNION {V[i + 1][q] : q \in
                   IF SpelledAt(t, i) = SWC THEN {r \in Below(T, p) : Len(r) = Len(p) + 1}
                   ELSE Child(T, p, SpelledAt(t, i))}

\* The search for retained messages, as layers of which each is got from the next.
LEMMA RSearch ==
  ASSUME NEW T, NEW t, IsTopic(t), Accepted(t)
  PROVE  \E V : rmatch(T, t) = V[1][<<>>] /\ IsRSearch(V, T, t)
<1> DEFINE Layered(h) == h = [i \in 1 .. Len(t) + 1 |-> RLayerOf(T, t, i, h[i + 1])]
           V == CHOOSE h : Layered(h)
           n == Depth(t)
<1>1. V = [i \in 1 .. Len(t) + 1 |-> RLayerOf(T, t, i, V[i + 1])]
  <2>1. \E h : Layered(h)
    BY RSearchExists
  <2>2. Layered(V)
    <3> HIDE DEF Layered
    <3> QED BY <2>1
  <2> QED BY <2>2
<1>2. rmatch(T, t) = V[1][<<>>]
  BY RSearchIs
<1> HIDE DEF V
<1>3. Len(t) \in Nat \ {0} /\ n \in Nat /\ n <= Len(t)
  BY TopicType
<1>4. \A i \in 1 .. n : ~ BadAt(t, i)
  BY WalkFacts
<1> HIDE DEF n
<1>5. ASSUME NEW i \in 1 .. n + 1
      PROVE  /\ IsEmpty(From(t, i)) <=> i > n
             /\ ~ (i > n) => /\ nextTopicLevel(From(t, i)) = SpelledAt(t, i)
                             /\ SpelledAt(t, i) # Error
             /\ V[i] = RLayerOf(T, t, i, V[i + 1])
  <2>1. i \in 1 .. Len(t) + 1 /\ (~ (i > n) => i <= Len(t) /\ i \in 1 .. n)
    BY <1>3
  <2>2. /\ IsEmpty(From(t, i)) <=> i > n
        /\ i <= Len(t) => /\ nextTopicLevel(From(t, i)) = LevelAt(t, i)
                          /\ SpelledAt(t, i) \in Levels
    BY <2>1, Rest DEF n
  <2>3. V[i] = RLayerOf(T, t, i, V[i + 1])
    BY <1>1, <2>1
  <2>4. i \in 1 .. n => LevelAt(t, i) = SpelledAt(t, i)
    BY <1>4 DEF LevelAt
  <2> QED BY <2>1, <2>2, <2>3, <2>4, SpecialLevels
<1>6. ASSUME NEW p \in DOMAIN T
      PROVE  V[n + 1][p] = {T[p]} \ {NoMsg}
  <2>1. n + 1 \in 1 .. n + 1 /\ n + 1 > n
    BY <1>3
  <2> QED BY <1>5, <2>1 DEF RLayerOf
<1>7. ASSUME NEW i \in 1 .. n, NEW p \in DOMAIN T
      PROVE  V[i][p] = IF SpelledAt(t, i) = MWC THEN allRetained(T, p)
                       ELSE UNION {V[i + 1][q] : q \in
                         IF SpelledAt(t, i) = SWC THEN {r \in Below(T, p) : Len(r) = Len(p) + 1}
                         ELSE Child(T, p, SpelledAt(t, i))}
  <2> DEFINE l == nextTopicLevel(From(t, i))
             W == V[i + 1]
  <2>1. i \in 1 .. n + 1 /\ ~ (i > n)
    BY <1>3
  <2>2. l = SpelledAt(t, i) /\ l # Error /\ V[i] = RLayerOf(T, t, i, W) /\ ~ IsEmpty(From(t, i))
    BY <1>5, <2>1
  <2>3. V[i][p] = CASE l = Error -> {NoMsg}
                    [] l = MWC -> allRetained(T, p)
                    [] l = SWC -> UNION {W[q] : q \in {r \in Below(T, p) : Len(r) = Len(p) + 1}}
                    [] OTHER   -> UNION {W[q] : q \in Child(T, p, l)}
    <3> HIDE DEF W
    <3> QED BY <2>2 DEF RLayerOf
  <2> HIDE DEF l, W
  <2>4. SWC # MWC
    BY SpecialLevels
  <2>5. V[i][p] = IF l = MWC THEN allRetained(T, p)
                  ELSE IF l = SWC THEN UNION {W[q] : q \in {r \in Below(T, p) : Len(r) = Len(p) + 1}}
                  ELSE UNION {W[q] : q \in Child(T, p, l)}
    BY <2>2, <2>3, <2>4
  <2> QED BY <2>2, <2>5 DEF W
<1>8. IsRSearch(V, T, t)
  BY <1>6, <1>7 DEF IsRSearch, n
<1> QED BY <1>2, <1>8

\* The next levels of a search for retained messages.
Nexts(T, t, i, p) ==
  {c \in DOMAIN T : IsPrefix(p, c) /\ Len(c) = i /\ SpelledAt(t, i) \in {SWC, c[i]}}

\* A search finds exactly the messages of the nodes that the filter takes.
LEMMA RSearchFinds ==
  ASSUME NEW T, PathTree(T), NEW t, IsTopic(t), Accepted(t)
  PROVE  rmatch(T, t) = {T[q] : q \in {r \in DOMAIN T : T[r] # NoMsg /\ Takes(t, r, 1)}}
<1>1. PICK V : rmatch(T, t) = V[1][<<>>] /\ IsRSearch(V, T, t)
  BY RSearch
<1> DEFINE n == Depth(t)
           m == Upto(t)
           hash == Hash(t)
           Goal(i, p) == \A x : x \in V[i][p] <=>
                           x # NoMsg /\ \E q \in Below(T, p) : Takes(t, q, i) /\ x = T[q]
           G == {i \in 1 .. m + 1 : \A p \in DOMAIN T : Len(p) = i - 1 => Goal(i, p)}
<1>2. n \in Nat /\ DOMAIN T \subseteq Paths /\ <<>> \in DOMAIN T /\ Len(<<>>) = 0
  BY TopicType, PrefixOrder DEF PathTree, IsTree
<1>3. /\ m \in Nat /\ (hash => m = n - 1 /\ SpelledAt(t, n) = MWC /\ n > 0) /\ (~ hash => m = n)
      /\ \A i \in 1 .. m : SpelledAt(t, i) # MWC /\ i <= n /\ SpelledAt(t, i) \in Levels
  <2>1. m \in Nat /\ (hash => m = n - 1 /\ SpelledAt(t, n) = MWC /\ n > 0) /\ (~ hash => m = n)
    <3> DEFINE y == SpelledAt(t, n) = MWC
    <3>1. (hash <=> n > 0 /\ y) /\ m = IF hash THEN n - 1 ELSE n
      BY DEF Hash, Upto
    <3> HIDE DEF y, n, m, hash
    <3>2. m \in Nat /\ (hash => m = n - 1 /\ y /\ n > 0) /\ (~ hash => m = n)
      BY <1>2, <3>1
    <3> QED BY <3>2 DEF y
  <2>2. ASSUME NEW i \in 1 .. m
        PROVE  SpelledAt(t, i) # MWC /\ i <= n /\ SpelledAt(t, i) \in Levels
    <3>1. i \in 1 .. n /\ (hash => i < n)
      <4> HIDE DEF n, m, hash
      <4> QED BY <1>2, <2>1
    <3>2. Len(t) \in Nat /\ n <= Len(t) /\ (n = Len(t) - 1 <=> EndsEmpty(t)) /\ (n = Len(t) <=> ~ EndsEmpty(t))
      BY TopicType
    <3>3. i \in 1 .. Len(t) + 1 /\ i <= Len(t)
      <4> HIDE DEF n
      <4> QED BY <1>2, <3>1, <3>2
    <3>4. SpelledAt(t, i) \in Levels
      BY <3>3, Rest
    <3>5. ASSUME SpelledAt(t, i) = MWC
          PROVE  FALSE
      <4>1. t[i] = MWC
        BY <3>5, SpecialLevels, Zenon DEF SpelledAt
      <4>2. ~ BadAt(t, i)
        BY <3>1, WalkFacts
      <4>3. ~ (i < Len(t))
        BY <4>1, <4>2 DEF BadAt
      <4>4. i = Len(t) /\ i = n
        <5> HIDE DEF n
        <5> QED BY <1>2, <3>1, <3>2, <3>3, <4>3
      <4>5. n > 0
        <5> HIDE DEF n
        <5> QED BY <3>1, <4>4
      <4>6. hash
        BY <3>5, <4>4, <4>5 DEF Hash
      <4> HIDE DEF n, hash
      <4> QED BY <1>2, <3>1, <4>4, <4>6
    <3> HIDE DEF n
    <3> QED BY <1>2, <3>1, <3>4, <3>5
  <2> HIDE DEF n, m, hash
  <2> QED BY <2>1, <2>2
<1>4. \A q : Takes(t, q, m + 1) <=> m <= Len(q) /\ (~ hash => Len(q) <= n)
  <2>1. \A k : k \notin m + 1 .. m
    <3> HIDE DEF m
    <3> QED BY <1>3
  <2> QED BY <2>1 DEF Takes
<1>5. ASSUME NEW i \in 1 .. m, NEW q \in Paths
      PROVE  Takes(t, q, i) <=> SpelledAt(t, i) \in {SWC, q[i]} /\ i <= Len(q) /\ Takes(t, q, i + 1)
  <2> DEFINE lq == Len(q)
             yes(k) == SpelledAt(t, k) \in {SWC, q[k]}
  <2>1. lq \in Nat
    BY LenProperties DEF Paths
  <2>2. \A j : Takes(t, q, j) <=> m <= lq /\ (~ hash => lq <= n) /\ \A k \in j .. m : yes(k)
    BY Zenon DEF Takes
  <2> HIDE DEF lq, yes, n, m, hash
  <2>3. (\A k \in i .. m : yes(k)) <=> yes(i) /\ \A k \in i + 1 .. m : yes(k)
    <3>1. i \in i .. m /\ (\A k \in i + 1 .. m : k \in i .. m) /\ \A k \in i .. m : k = i \/ k \in i + 1 .. m
      BY <1>3
    <3> QED BY <3>1, Zenon
  <2>4. m <= lq => i <= lq
    BY <1>3, <2>1
  <2>5. Takes(t, q, i) <=> yes(i) /\ i <= lq /\ Takes(t, q, i + 1)
    BY <2>2, <2>3, <2>4, Zenon
  <2> QED BY <2>5 DEF yes, lq
<1> HIDE DEF n, m, hash
<1>6. \A p, x : x \in allRetained(T, p) <=> x # NoMsg /\ \E q \in Below(T, p) : x = T[q]
  BY DEF allRetained
<1>7. m + 1 \in G
  <2>1. ASSUME NEW p \in DOMAIN T, Len(p) = m
        PROVE  Goal(m + 1, p)
    <3>0. p \in Paths /\ p \in Below(T, p) /\ \A q \in Below(T, p) : q \in Paths /\ IsPrefix(p, q)
      BY <1>2, PrefixOrder DEF Below
    <3>1. CASE hash
      <4>1. V[m + 1][p] = allRetained(T, p)
        <5>1. n \in 1 .. n /\ m + 1 = n /\ SpelledAt(t, n) = MWC
          BY <1>2, <1>3, <3>1
        <5>2. V[n][p] = allRetained(T, p)
          BY <1>1, <5>1, Zenon DEF IsRSearch, n
        <5> QED BY <5>1, <5>2
      <4>2. \A q \in Below(T, p) : Takes(t, q, m + 1)
        <5>1. \A q \in Below(T, p) : m <= Len(q)
          BY <2>1, <3>0, PrefixAgrees
        <5> QED BY <1>4, <3>1, <5>1
      <4> QED BY <1>6, <4>1, <4>2
    <3>2. CASE ~ hash
      <4>1. V[m + 1][p] = {T[p]} \ {NoMsg}
        <5>1. m = n
          BY <1>3, <3>2
        <5>2. V[n + 1][p] = {T[p]} \ {NoMsg}
          BY <1>1 DEF IsRSearch, n
        <5> QED BY <5>1, <5>2
      <4>2. ASSUME NEW q \in Below(T, p)
            PROVE  Takes(t, q, m + 1) <=> q = p
        <5>1. q \in Paths /\ IsPrefix(p, q)
          BY <3>0
        <5>2. Takes(t, q, m + 1) <=> m <= Len(q) /\ Len(q) <= m
          BY <1>3, <1>4, <3>2
        <5>3. ASSUME m <= Len(q), Len(q) <= m
              PROVE  q = p
          <6>1. Len(q) \in Nat /\ Len(p) \in Nat
            BY <3>0, <5>1, LenProperties DEF Paths
          <6>2. Len(p) = Len(q)
            BY <1>3, <2>1, <5>3, <6>1
          <6>3. \A i \in 1 .. Len(p) : p[i] = q[i]
            BY <3>0, <5>1, PrefixAgrees
          <6> QED BY <3>0, <5>1, <6>2, <6>3, SamePath
        <5>4. m <= m
          BY <1>3
        <5> QED BY <2>1, <5>2, <5>3, <5>4
      <4> QED BY <3>0, <4>1, <4>2
    <3> QED BY <3>1, <3>2
  <2> HIDE DEF Goal
  <2> DEFINE N == m + 1
  <2>2. N \in 1 .. m + 1 /\ \A p \in DOMAIN T : Len(p) = N - 1 => Goal(N, p)
    BY <1>3, <2>1
  <2> HIDE DEF N
  <2>3. N \in G
    BY <2>2
  <2> QED BY <2>3 DEF N
<1>8. ASSUME NEW i \in 1 .. m, i + 1 \in G
      PROVE  i \in G
  <2>1. ASSUME NEW p \in DOMAIN T, Len(p) = i - 1
        PROVE  Goal(i, p)
    <3> DEFINE C == Nexts(T, t, i, p)
               l == SpelledAt(t, i)
    <3>1. p \in Paths /\ Len(p) + 1 = i /\ l \in Levels /\ i \in 1 .. n
      BY <1>2, <1>3, <2>1
    <3>2. V[i][p] = UNION {V[i + 1][c] : c \in C}
      <4>1. V[i][p] = UNION {V[i + 1][q] : q \in
                               IF l = SWC THEN {r \in Below(T, p) : Len(r) = Len(p) + 1} ELSE Child(T, p, l)}
        BY <1>1, <1>3, <3>1 DEF IsRSearch, n
      <4>2. l = SWC => {r \in Below(T, p) : Len(r) = Len(p) + 1} = C
        BY <3>1 DEF Nexts, Below
      <4>3. ASSUME l # SWC
            PROVE  Child(T, p, l) = C
        <5>1. \A q \in DOMAIN T : q \in Child(T, p, l) <=> IsPrefix(p, q) /\ Len(q) = i /\ q[i] = l
          <6> HIDE DEF l
          <6>1. ASSUME NEW q \in DOMAIN T
                PROVE  q \in Child(T, p, l) <=> IsPrefix(p, q) /\ Len(q) = i /\ q[i] = l
            <7>1. q \in Child(T, p, l) <=>
                    q \in DOMAIN T /\ IsPrefix(p, q) /\ Len(q) = Len(p) + 1 /\ q[Len(p) + 1] = l
              BY <1>2, <3>1, ChildIs
            <7> QED BY <3>1, <7>1
          <6> QED BY <6>1
        <5>2. Child(T, p, l) \subseteq DOMAIN T
          BY DEF Child
        <5>3. \A q : q \in C <=> q \in DOMAIN T /\ IsPrefix(p, q) /\ Len(q) = i /\ q[i] = l
          BY <4>3 DEF Nexts
        <5>4. \A q : q \in Child(T, p, l) <=> q \in C
          <6> HIDE DEF C, l
          <6> QED BY <5>1, <5>2, <5>3
        <5>5. C \subseteq DOMAIN T
          BY DEF Nexts
        <5> HIDE DEF C, l
        <5> QED BY <5>4
      <4> HIDE DEF C, l
      <4> QED BY <4>1, <4>2, <4>3
    <3>3. \A c \in C : c \in DOMAIN T /\ c \in Paths /\ IsPrefix(p, c) /\ Len(c) = i /\ l \in {SWC, c[i]}
      BY <1>2 DEF Nexts
    <3>4. \A c \in C : Goal(i + 1, c)
      <4>1. \A c \in C : c \in DOMAIN T /\ Len(c) = i + 1 - 1
        BY <3>3
      <4> HIDE DEF Goal, C
      <4> QED BY <1>8, <4>1
    <3>5. ASSUME NEW q \in DOMAIN T
          PROVE  q \in Below(T, p) /\ Takes(t, q, i) <=> \E c \in C : q \in Below(T, c) /\ Takes(t, q, i + 1)
      <4>1. q \in Paths
        BY <1>2
      <4>2. \A r : q \in Below(T, r) <=> IsPrefix(r, q)
        BY DEF Below
      <4>3. Takes(t, q, i) <=> l \in {SWC, q[i]} /\ i <= Len(q) /\ Takes(t, q, i + 1)
        BY <1>5, <4>1
      <4>4. ASSUME IsPrefix(p, q), l \in {SWC, q[i]}, i <= Len(q)
            PROVE  \E c \in C : IsPrefix(c, q)
        <5> DEFINE x == q[i]
                   c == Append(p, x)
        <5>1. x \in Levels
          <6>1. q \in [1 .. Len(q) -> Levels] /\ Len(q) \in Nat
            BY <4>1, LenProperties DEF Paths
          <6>2. i \in 1 .. Len(q)
            BY <3>1, <4>4, <6>1
          <6> QED BY <6>1, <6>2
        <5>2. /\ c \in Paths /\ Len(c) = i /\ c[i] = x
              /\ IsPrefix(c, q) <=> IsPrefix(p, q) /\ i <= Len(q) /\ q[i] = x
          <6>1. /\ c \in Paths /\ Len(c) = Len(p) + 1 /\ c[Len(p) + 1] = x
                /\ IsPrefix(c, q) <=> IsPrefix(p, q) /\ Len(p) + 1 <= Len(q) /\ q[Len(p) + 1] = x
            <7> HIDE DEF x
            <7> QED BY <3>1, <4>1, <5>1, OneFurther
          <6> HIDE DEF c, x
          <6> QED BY <3>1, <6>1
        <5>3. IsPrefix(c, q)
          <6> HIDE DEF c
          <6> QED BY <4>4, <5>2
        <5>4. c \in DOMAIN T
          <6> HIDE DEF c
          <6> QED BY <5>2, <5>3, WayIn
        <5>5. c \in Child(T, p, x)
          BY <5>4 DEF Child
        <5>6. IsPrefix(p, c)
          <6> HIDE DEF c, x
          <6> QED BY <3>1, <5>1, <5>2, <5>5, ChildIs
        <5> HIDE DEF c
        <5>7. c \in C
          BY <4>4, <5>2, <5>4, <5>6 DEF Nexts
        <5> QED BY <5>3, <5>7
      <4>5. ASSUME NEW c \in C, IsPrefix(c, q)
            PROVE  IsPrefix(p, q) /\ l \in {SWC, q[i]} /\ i <= Len(q)
        <5>1. c \in Paths /\ IsPrefix(p, c) /\ Len(c) = i /\ l \in {SWC, c[i]}
          BY <3>3
        <5>2. i \in 1 .. Len(c)
          BY <3>1, <5>1
        <5>3. i <= Len(q) /\ c[i] = q[i]
          BY <4>1, <4>5, <5>1, <5>2, PrefixAgrees
        <5>4. IsPrefix(p, q)
          BY <3>1, <4>1, <4>5, <5>1, PrefixOrder
        <5> QED BY <5>1, <5>3, <5>4
      <4> HIDE DEF C, l
      <4> QED BY <4>2, <4>3, <4>4, <4>5
    <3> HIDE DEF C, l
    <3>6. ASSUME NEW x
          PROVE  x \in V[i][p] <=> x # NoMsg /\ \E q \in Below(T, p) : Takes(t, q, i) /\ x = T[q]
      <4>1. x \in V[i][p] <=> \E c \in C : x \in V[i + 1][c]
        BY <3>2
      <4>2. \A c \in C : x \in V[i + 1][c] <=>
              x # NoMsg /\ \E q \in Below(T, c) : Takes(t, q, i + 1) /\ x = T[q]
        BY <3>4
      <4>3. \A c : Below(T, c) \subseteq DOMAIN T
        BY DEF Below
      <4> QED BY <3>5, <4>1, <4>2, <4>3
    <3> QED BY <3>6
  <2>2. i \in 1 .. m + 1
    BY <1>3
  <2> HIDE DEF Goal
  <2> QED BY <2>1, <2>2
<1>9. 1 \in G
  <2> HIDE DEF G
  <2> DEFINE N == m + 1
  <2>1. N \in Nat /\ N - 1 = m /\ 1 \in 1 .. N /\ N \in G
    BY <1>3, <1>7
  <2> HIDE DEF N
  <2>2. \A i \in 1 .. N - 1 : i + 1 \in G => i \in G
    BY <1>8, <2>1
  <2> QED BY <2>1, <2>2, Downward
<1>10. Goal(1, <<>>)
  <2> HIDE DEF Goal
  <2>1. Len(<<>>) = 1 - 1
    BY <1>2
  <2> QED BY <1>2, <1>9, <2>1
<1>11. Below(T, <<>>) = DOMAIN T
  BY <1>2, PrefixOrder DEF Below
<1>12. \A x : x \in rmatch(T, t) <=> x \in {T[q] : q \in {r \in DOMAIN T : T[r] # NoMsg /\ Takes(t, r, 1)}}
  BY <1>1, <1>10, <1>11
<1> QED BY <1>12, Zenon

\* A topic takes its own node.
LEMMA TakesOwnNode ==
  ASSUME NEW t, IsTopic(t), Accepted(t)
  PROVE  Takes(t, PathOf(t), 1)
<1> DEFINE n == Depth(t)
           m == Upto(t)
           lp == Len(PathOf(t))
           y == SpelledAt(t, n) = MWC
<1>1. n \in Nat /\ lp = n /\ \A k \in 1 .. lp : PathOf(t)[k] = SpelledAt(t, k)
  BY TopicType, WalkFacts
<1>2. (Hash(t) <=> n > 0 /\ y) /\ m = IF Hash(t) THEN n - 1 ELSE n
  BY DEF Hash, Upto
<1> HIDE DEF n, m, lp, y
<1>3. m <= lp /\ lp <= n /\ \A k \in 1 .. m : k \in 1 .. lp
  BY <1>1, <1>2
<1> QED BY <1>1, <1>3 DEF Takes, n, m, lp

\* A filter takes the paths that it matches as the tree spells it.
LEMMA TakesIsMatch ==
  ASSUME NEW f, IsTopic(f), Accepted(f), NEW q \in Paths
  PROVE  Takes(f, q, 1) <=> Finds(PathOf(f), q)
<1> DEFINE p == PathOf(f)
           n == Depth(f)
           m == Upto(f)
           lp == Len(p)
           lq == Len(q)
           hash == p[lp] = MWC
           yes(k) == p[k] \in {SWC, q[k]}
<1>1. /\ n \in Nat /\ lp = n /\ lq \in Nat /\ p \in Paths
      /\ \A k \in 1 .. lp : SpelledAt(f, k) = p[k]
  BY TopicType, WalkFacts, LenProperties DEF Paths
<1>2. p = <<>> <=> lp = 0
  BY <1>1, EmptySeq DEF Paths
<1>3. q = <<>> <=> lq = 0
  BY EmptySeq DEF Paths
<1>4. lp > 0 => (Hash(f) <=> hash)
  <2>1. lp > 0 => lp \in 1 .. lp
    <3> HIDE DEF lp
    <3> QED BY <1>1
  <2> QED BY <1>1, <2>1 DEF Hash
<1>5. (lp = 0 => ~ Hash(f)) /\ m = IF Hash(f) THEN lp - 1 ELSE lp
  BY <1>1 DEF Hash, Upto
<1>6. m \in Nat /\ \A k \in 1 .. m : k \in 1 .. lp
  <2> DEFINE h == Hash(f)
  <2> HIDE DEF n, m, lp, h
  <2> QED BY <1>1, <1>5 DEF h
<1>7. Takes(f, q, 1) <=> m <= lq /\ (~ Hash(f) => lq <= lp) /\ \A k \in 1 .. m : yes(k)
  BY <1>1, <1>6, Zenon DEF Takes
<1>8. Finds(p, q) <=> IF p = <<>> THEN q = <<>>
                      ELSE IF hash THEN lp <= lq + 1 /\ \A i \in 1 .. lp - 1 : yes(i)
                      ELSE lp = lq /\ \A i \in 1 .. lp : yes(i)
  BY Zenon DEF Finds, MqttMatch
<1> DEFINE h == Hash(f)
<1> HIDE DEF p, n, m, lp, lq, hash, yes, h
<1>9. CASE lp = 0
  <2>1. ~ h /\ m = 0
    BY <1>5, <1>9 DEF h
  <2> QED BY <1>1, <1>2, <1>3, <1>7, <1>8, <1>9, <2>1 DEF h, p
<1>10. CASE lp # 0
  <2>1. (h <=> hash) /\ m = IF h THEN lp - 1 ELSE lp
    BY <1>1, <1>4, <1>5, <1>10 DEF h
  <2>2. Takes(f, q, 1) <=> m <= lq /\ (~ h => lq <= lp) /\ \A k \in 1 .. m : yes(k)
    BY <1>7 DEF h
  <2>3. p # <<>>
    BY <1>2, <1>10
  <2>4. CASE h
    BY <1>1, <1>8, <2>1, <2>2, <2>3, <2>4 DEF p
  <2>5. CASE ~ h
    BY <1>1, <1>8, <2>1, <2>2, <2>3, <2>5 DEF p
  <2> QED BY <2>4, <2>5
<1> QED BY <1>9, <1>10

\* The first level of a system topic is refused.
LEMMA SysSearchErrs ==
  ASSUME NEW f, IsTopic(f), IsSysSub(f)
  PROVE  ~ IsEmpty(f) /\ nextTopicLevel(f) = Error
<1>1. Head(f) \in Dollar
  BY TopicsAssumption DEF IsSysSub
<1>2. Len(f) > 1 /\ Len(f) \in Nat
  BY TopicType DEF IsSysSub
<1>3. Len(f) # 1
  <2>1. \A n \in Nat : n > 1 => n # 1
    OBVIOUS
  <2> QED BY <1>2, <2>1, Zenon
<1>4. Len(<<"">>) = 1
  OBVIOUS
<1>5. f # <<"">>
  BY <1>3, <1>4, Zenon
<1>6. f # <<>>
  BY DEF IsTopic
<1> QED BY <1>1, <1>5, <1>6 DEF IsEmpty, nextTopicLevel

\* A search for a system topic ends with an error at its first level.
LEMMA SysSearchFails ==
  ASSUME NEW T, <<>> \in DOMAIN T, NEW f, IsTopic(f), IsSysSub(f)
  PROVE  rmatch(T, f) = {NoMsg}
<1> DEFINE Layered(h) == h = [i \in 1 .. Len(f) + 1 |-> RLayerOf(T, f, i, h[i + 1])]
           V == CHOOSE h : Layered(h)
<1>1. V = [i \in 1 .. Len(f) + 1 |-> RLayerOf(T, f, i, V[i + 1])]
  <2>1. \E h : Layered(h)
    BY RSearchExists
  <2>2. Layered(V)
    <3> HIDE DEF Layered
    <3> QED BY <2>1
  <2> QED BY <2>2
<1>2. rmatch(T, f) = V[1][<<>>]
  BY RSearchIs
<1> HIDE DEF V
<1>3. Len(f) \in Nat \ {0}
  BY TopicType
<1>4. V[1] = RLayerOf(T, f, 1, V[2])
  <2>1. 1 \in 1 .. Len(f) + 1 /\ 1 + 1 = 2
    BY <1>3
  <2> QED BY <1>1, <2>1
<1>5. From(f, 1) = f
  BY DEF From, IsTopic
<1>6. ~ IsEmpty(f) /\ nextTopicLevel(f) = Error
  BY SysSearchErrs
<1>7. V[1][<<>>] = {NoMsg}
  <2> DEFINE l == nextTopicLevel(From(f, 1))
             Rest1(p) == CASE l = Error -> {NoMsg}
                           [] l = MWC -> allRetained(T, p)
                           [] l = SWC -> UNION {V[2][q] : q \in {r \in Below(T, p) : Len(r) = Len(p) + 1}}
                           [] OTHER   -> UNION {V[2][q] : q \in Child(T, p, l)}
  <2>1. V[1][<<>>] = IF IsEmpty(From(f, 1)) THEN {T[<<>>]} \ {NoMsg} ELSE Rest1(<<>>)
    BY <1>4 DEF RLayerOf
  <2>2. ~ IsEmpty(From(f, 1)) /\ l = Error
    BY <1>5, <1>6
  <2>3. Error # MWC /\ Error # SWC
    BY SpecialLevels
  <2> HIDE DEF l
  <2>4. Rest1(<<>>) = {NoMsg}
    BY <2>2, <2>3
  <2> HIDE DEF Rest1
  <2> QED BY <2>1, <2>2, <2>4
<1> QED BY <1>2, <1>7

\* A topic that nothing hinders is searched for and found.
LEMMA ServedFromInv ==
  ASSUME RInv
  PROVE  RetainedServed
<1> SUFFICES ASSUME NEW t \in DOMAIN retainTable, Unhindered(t)
             PROVE  retainTable[t] \in Retained(t)
  BY DEF RetainedServed, Unhindered
<1>1. /\ PathOf(t) \in DOMAIN rroot /\ rroot[PathOf(t)] = retainTable[t]
      /\ work \in Workloads /\ t \in work.topics /\ PathTree(rroot) /\ Accepted(t)
  BY DEF RInv, Unhindered
<1>2. retainTable[t] # NoMsg /\ IsTopic(t)
  BY <1>1, Messages DEF RInv
<1>3. rmatch(rroot, t) = {rroot[q] : q \in {r \in DOMAIN rroot : rroot[r] # NoMsg /\ Takes(t, r, 1)}}
  BY <1>1, <1>2, RSearchFinds
<1>4. Takes(t, PathOf(t), 1)
  BY <1>1, <1>2, TakesOwnNode
<1> QED BY <1>1, <1>2, <1>3, <1>4 DEF Retained

\* The search takes exactly the messages at the nodes that the filter matches.
LEMMA MatchFromInv ==
  ASSUME RInv
  PROVE  RetainedMatch
<1> DEFINE Meets(f) == {rroot[p] : p \in {q \in DOMAIN rroot : rroot[q] # NoMsg /\ Finds(PathOf(f), q)}}
<1>1. ASSUME NEW f \in Searches
      PROVE  Retained(f) = IF Accepted(f) THEN Meets(f) ELSE {NoMsg}
  <2>1. IsTopic(f) /\ (Accepted(f) \/ IsSysSub(f)) /\ PathTree(rroot)
    BY TopicsAssumption DEF RInv
  <2>2. CASE Accepted(f)
    <3>1. rmatch(rroot, f) = {rroot[q] : q \in {r \in DOMAIN rroot : rroot[r] # NoMsg /\ Takes(f, r, 1)}}
      BY <2>1, <2>2, RSearchFinds
    <3>2. \A q \in DOMAIN rroot : Takes(f, q, 1) <=> Finds(PathOf(f), q)
      BY <2>1, <2>2, TakesIsMatch DEF PathTree
    <3> QED BY <2>2, <3>1, <3>2 DEF Retained
  <2>3. CASE ~ Accepted(f)
    <3>1. <<>> \in DOMAIN rroot
      BY <2>1 DEF PathTree, IsTree
    <3>2. rmatch(rroot, f) = {NoMsg}
      BY <2>1, <2>3, <3>1, SysSearchFails
    <3> QED BY <2>3, <3>2 DEF Retained
  <2> QED BY <2>2, <2>3
<1> QED BY <1>1 DEF RetainedMatch

\* What is in the tree of retained messages is in the store, what is in the store
\* is served but for the three known exceptions, and a search finds what matches
\* (Retain and Retained of topic.go; rinsert, rremove and rmatch).
THEOREM RetainedIsExact == Spec => []RetainedExact
<1>1. RInv => RetainedExact
  BY BackedFromInv, ServedFromInv, MatchFromInv DEF RetainedExact
<1> QED BY <1>1, RetainedInvariant, PTL
=============================================================================
