----------------------------- MODULE CodecProofs -----------------------------
(***************************************************************************)
(* Proofs about Codec.                                                     *)
(***************************************************************************)
EXTENDS Codec, FiniteSetTheorems, WellFoundedInduction, NaturalsInduction, TLAPS

-----------------------------------------------------------------------------
(* Sums *)

\* What the folds of the codec add up.
Adds(g) == FoldFunction(LAMBDA n, sum : n + sum, 0, g)

\* The table of partial sums the fold is defined by.
Sums(D, g, it) ==
  it = [s \in SUBSET D |-> IF s = {} THEN 0
                           ELSE g[CHOOSE x \in s : TRUE] + it[s \ {CHOOSE x \in s : TRUE}]]

\* The fold is the last entry of the table.
LEMMA AddsIsLast ==
  ASSUME NEW g
  PROVE  Adds(g) = (CHOOSE it : Sums(DOMAIN g, g, it))[DOMAIN g]
BY Zenon DEF Adds, FoldFunction, FoldFunctionOnSet, MapThenFoldSet, Sums

\* A set of subsets of a finite set has a smallest one.
LEMMA SmallestSubset ==
  ASSUME NEW S, IsFiniteSet(S), NEW Bad, Bad \subseteq SUBSET S, Bad # {}
  PROVE  \E t \in Bad : \A u \in Bad : u \subseteq t => u = t
<1>1. IsWellFoundedOn(StrictSubsetOrdering(S), FiniteSubsetsOf(S))
  BY FS_StrictSubsetOrderingWellFounded
<1>2. Bad \subseteq FiniteSubsetsOf(S)
  BY FS_Subset DEF FiniteSubsetsOf
<1>3. PICK t \in Bad : \A u \in Bad : ~ (<<u, t>> \in StrictSubsetOrdering(S))
  BY <1>1, <1>2, WFMin
<1>4. ASSUME NEW u \in Bad, u \subseteq t, u # t
      PROVE  <<u, t>> \in StrictSubsetOrdering(S)
  BY <1>4 DEF StrictSubsetOrdering
<1>5. \A u \in Bad : u \subseteq t /\ u # t => <<u, t>> \in StrictSubsetOrdering(S)
  BY <1>4
<1>6. \A u \in Bad : u \subseteq t => u = t
  <2> TAKE u \in Bad
  <2> QED BY <1>3, <1>5
<1> QED BY <1>6

\* Two tables agree where their functions do.
LEMMA TablesAgree ==
  ASSUME NEW D, NEW g, NEW it, Sums(D, g, it), NEW E, NEW h, NEW jt, Sums(E, h, jt),
         NEW s, s \subseteq D, s \subseteq E, IsFiniteSet(s), \A x \in s : g[x] = h[x]
  PROVE  it[s] = jt[s]
<1> DEFINE Bad == {t \in SUBSET s : it[t] # jt[t]}
<1> SUFFICES ASSUME Bad # {}
             PROVE  FALSE
  OBVIOUS
<1>1. PICK t \in Bad : \A u \in Bad : u \subseteq t => u = t
  <2>1. Bad \subseteq SUBSET s
    OBVIOUS
  <2> HIDE DEF Bad
  <2> QED BY <2>1, SmallestSubset
<1> DEFINE c == CHOOSE x \in t : TRUE
<1>2. t \in SUBSET D /\ t \in SUBSET E
  OBVIOUS
<1>3. it[t] = IF t = {} THEN 0 ELSE g[c] + it[t \ {c}]
  BY <1>2, Zenon DEF Sums
<1>4. jt[t] = IF t = {} THEN 0 ELSE h[c] + jt[t \ {c}]
  BY <1>2, Zenon DEF Sums
<1>5. CASE t = {}
  BY <1>3, <1>4, <1>5
<1>6. CASE t # {}
  <2>1. c \in t
    BY <1>6
  <2> HIDE DEF c
  <2>2. t \ {c} \notin Bad
    BY <1>1, <2>1
  <2>3. it[t \ {c}] = jt[t \ {c}] /\ g[c] = h[c]
    BY <2>1, <2>2
  <2> QED BY <1>3, <1>4, <1>6, <2>3
<1> QED BY <1>5, <1>6

\* There is a table.
LEMMA TableExists ==
  ASSUME NEW D, IsFiniteSet(D), NEW g
  PROVE  \E it : Sums(D, g, it)
<1> DEFINE Bad == {t \in SUBSET D : ~ \E it : Sums(t, g, it)}
<1> SUFFICES ASSUME Bad # {}
             PROVE  FALSE
  OBVIOUS
<1>1. PICK t \in Bad : \A u \in Bad : u \subseteq t => u = t
  <2>1. Bad \subseteq SUBSET D
    OBVIOUS
  <2> HIDE DEF Bad
  <2> QED BY <2>1, SmallestSubset
<1> DEFINE IT(x) == CHOOSE it : Sums(t \ {x}, g, it)
           w(s) == CHOOSE x \in t : x \notin s
           c(s) == CHOOSE x \in s : TRUE
           it == [s \in SUBSET t |-> IF s = {} THEN 0 ELSE IF s = t THEN g[c(t)] + IT(c(t))[t \ {c(t)}] ELSE IT(w(s))[s]]
<1>2. ASSUME NEW x \in t
      PROVE  Sums(t \ {x}, g, IT(x))
  <2>1. t \ {x} \notin Bad /\ t \ {x} \in SUBSET D
    BY <1>1
  <2> QED BY <2>1
<1>3. \A u \in SUBSET t : IsFiniteSet(u)
  BY FS_Subset
<1>4. ASSUME NEW s \in SUBSET t, s # t, NEW x \in t, x \notin s
      PROVE  s # {} => it[s] = IT(x)[s]
  <2>1. w(s) \in t /\ w(s) \notin s
    BY <1>4
  <2>2. Sums(t \ {w(s)}, g, IT(w(s))) /\ Sums(t \ {x}, g, IT(x))
    BY <1>2, <2>1
  <2>3. IT(w(s))[s] = IT(x)[s]
    <3> HIDE DEF IT, w
    <3> QED BY <1>3, <1>4, <2>1, <2>2, TablesAgree
  <2> QED BY <1>4, <2>3
<1>5. ASSUME NEW s \in SUBSET t, NEW x \in t, x \notin s
      PROVE  it[s] = IT(x)[s]
  <2>1. CASE s = {}
    <3>1. Sums(t \ {x}, g, IT(x)) /\ s \in SUBSET (t \ {x})
      BY <1>2, <1>5
    <3>2. IT(x)[s] = 0
      <4> HIDE DEF IT
      <4> QED BY <2>1, <3>1, Zenon DEF Sums
    <3> QED BY <2>1, <3>2
  <2> QED BY <1>4, <1>5, <2>1
<1>6. ASSUME NEW s \in SUBSET t, s # {}
      PROVE  it[s] = g[c(s)] + it[s \ {c(s)}]
  <2>1. c(s) \in s
    BY <1>6
  <2>2. CASE s = t
    <3>1. it[s] = g[c(t)] + IT(c(t))[t \ {c(t)}]
      <4> HIDE DEF IT, c
      <4> QED BY <1>6, <2>2
    <3>2. it[t \ {c(t)}] = IT(c(t))[t \ {c(t)}]
      <4> HIDE DEF IT, c, it
      <4> QED BY <1>5, <2>1, <2>2
    <3> HIDE DEF it, IT, c
    <3> QED BY <2>2, <3>1, <3>2
  <2>3. CASE s # t
    <3>1. PICK x \in t : x \notin s
      BY <2>3
    <3>2. it[s] = IT(x)[s] /\ it[s \ {c(s)}] = IT(x)[s \ {c(s)}]
      <4> HIDE DEF it, IT, c
      <4> QED BY <1>5, <3>1
    <3>3. Sums(t \ {x}, g, IT(x)) /\ s \in SUBSET (t \ {x})
      BY <1>2, <3>1
    <3>4. IT(x)[s] = g[c(s)] + IT(x)[s \ {c(s)}]
      <4> HIDE DEF IT
      <4> QED BY <1>6, <3>3, Zenon DEF Sums
    <3> HIDE DEF it, IT, c
    <3> QED BY <3>2, <3>4
  <2> QED BY <2>2, <2>3
<1>7. it[{}] = 0
  OBVIOUS
<1>8. Sums(t, g, it)
  <2> DEFINE jt == [s \in SUBSET t |-> IF s = {} THEN 0 ELSE g[c(s)] + it[s \ {c(s)}]]
  <2>1. \A s \in SUBSET t : it[s] = jt[s]
    <3> HIDE DEF it, c
    <3> QED BY <1>6, <1>7
  <2>2. it = [s \in SUBSET t |-> it[s]]
    OBVIOUS
  <2>3. it = jt
    <3>1. it = [s \in SUBSET t |-> jt[s]]
      <4> HIDE DEF it, jt
      <4> QED BY <2>1, <2>2
    <3>2. jt = [s \in SUBSET t |-> jt[s]]
      <4> HIDE DEF it, c
      <4> QED OBVIOUS
    <3> HIDE DEF it, jt
    <3> QED BY <3>1, <3>2
  <2> HIDE DEF it
  <2> QED BY <2>3, Zenon DEF Sums
<1> HIDE DEF it
<1> QED BY <1>1, <1>8

\* What is added up may be taken in any order, and is a number.
LEMMA TableTake ==
  ASSUME NEW D, IsFiniteSet(D), NEW g, \A x \in D : g[x] \in Nat, NEW it, Sums(D, g, it)
  PROVE  \A s \in SUBSET D : it[s] \in Nat /\ \A x \in s : it[s] = g[x] + it[s \ {x}]
<1> DEFINE Bad == {s \in SUBSET D : ~ (it[s] \in Nat /\ \A x \in s : it[s] = g[x] + it[s \ {x}])}
<1> SUFFICES ASSUME Bad # {}
             PROVE  FALSE
  OBVIOUS
<1>1. PICK t \in Bad : \A u \in Bad : u \subseteq t => u = t
  <2>1. Bad \subseteq SUBSET D
    OBVIOUS
  <2> HIDE DEF Bad
  <2> QED BY <2>1, SmallestSubset
<1> DEFINE c(s) == CHOOSE x \in s : TRUE
<1>2. ASSUME NEW s \in SUBSET D
      PROVE  it[s] = IF s = {} THEN 0 ELSE g[c(s)] + it[s \ {c(s)}]
  BY Zenon DEF Sums
<1>3. t \in SUBSET D
  OBVIOUS
<1>4. CASE t = {}
  BY <1>1, <1>2, <1>4
<1>5. CASE t # {}
  <2>1. c(t) \in t
    BY <1>5
  <2>2. it[t] = g[c(t)] + it[t \ {c(t)}]
    <3> HIDE DEF c
    <3> QED BY <1>2, <1>3, <1>5
  <2>3. ASSUME NEW u \in SUBSET t, u # t
        PROVE  it[u] \in Nat /\ \A x \in u : it[u] = g[x] + it[u \ {x}]
    <3>1. u \in SUBSET D
      BY <1>3
    <3> QED BY <1>1, <2>3, <3>1
  <2> HIDE DEF c
  <2>4. it[t] \in Nat
    <3>1. it[t \ {c(t)}] \in Nat
      BY <2>1, <2>3
    <3> HIDE DEF Bad
    <3> QED BY <1>3, <2>1, <2>2, <3>1
  <2>5. ASSUME NEW x \in t
        PROVE  it[t] = g[x] + it[t \ {x}]
    <3>1. CASE x = c(t)
      BY <2>2, <3>1
    <3>2. CASE x # c(t)
      <4> DEFINE u == t \ {c(t)}
                 v == t \ {x}
      <4>1. it[u] = g[x] + it[u \ {x}]
        BY <2>1, <2>3, <3>2
      <4>2. it[v] = g[c(t)] + it[v \ {c(t)}]
        BY <2>1, <2>3, <3>2
      <4>3. it[v \ {c(t)}] \in Nat
        BY <2>1, <2>3
      <4>4. u \ {x} = v \ {c(t)}
        OBVIOUS
      <4>5. g[x] \in Nat /\ g[c(t)] \in Nat
        BY <1>3, <2>1
      <4> HIDE DEF u, v, Bad
      <4>6. it[t] = g[c(t)] + it[u]
        BY <2>2 DEF u
      <4>7. it[t] = g[x] + it[v]
        <5> DEFINE rest == it[v \ {c(t)}]
                   a == g[x]
                   b == g[c(t)]
        <5>1. rest \in Nat /\ a \in Nat /\ b \in Nat
          BY <4>3, <4>5
        <5>2. it[u] = a + rest /\ it[v] = b + rest /\ it[t] = b + it[u]
          BY <4>1, <4>2, <4>4, <4>6
        <5> HIDE DEF rest, a, b
        <5>3. it[t] = a + it[v]
          BY <5>1, <5>2
        <5> QED BY <5>3 DEF a
      <4> QED BY <4>7 DEF v
    <3> QED BY <3>1, <3>2
  <2> QED BY <1>1, <2>4, <2>5
<1> QED BY <1>4, <1>5

\* A sum of nothing.
LEMMA AddsNone ==
  ASSUME NEW g, DOMAIN g = {}
  PROVE  Adds(g) = 0
<1> DEFINE it == CHOOSE it : Sums(DOMAIN g, g, it)
<1>1. Sums(DOMAIN g, g, it)
  BY TableExists, FS_EmptySet
<1>2. {} \in SUBSET DOMAIN g
  OBVIOUS
<1> HIDE DEF it
<1>3. it[{}] = 0
  BY <1>1, <1>2, Zenon DEF Sums
<1> QED BY <1>3, AddsIsLast DEF it

\* A sum without one of its terms.
LEMMA AddsTake ==
  ASSUME NEW g, IsFiniteSet(DOMAIN g), \A x \in DOMAIN g : g[x] \in Nat
  PROVE  /\ Adds(g) \in Nat
         /\ \A x \in DOMAIN g : Adds(g) = g[x] + Adds([y \in DOMAIN g \ {x} |-> g[y]])
<1> DEFINE D == DOMAIN g
           it == CHOOSE it : Sums(D, g, it)
<1>1. Sums(D, g, it)
  BY TableExists
<1> HIDE DEF it
<1>2. Adds(g) = it[D]
  BY AddsIsLast DEF it
<1>3. \A s \in SUBSET D : it[s] \in Nat /\ \A x \in s : it[s] = g[x] + it[s \ {x}]
  BY <1>1, TableTake
<1>4. ASSUME NEW x \in D
      PROVE  Adds(g) = g[x] + Adds([y \in D \ {x} |-> g[y]])
  <2> DEFINE h == [y \in D \ {x} |-> g[y]]
             jt == CHOOSE jt : Sums(DOMAIN h, h, jt)
  <2>1. DOMAIN h = D \ {x} /\ \A y \in D \ {x} : h[y] = g[y]
    OBVIOUS
  <2>2. IsFiniteSet(DOMAIN h)
    BY <2>1, FS_Subset
  <2> HIDE DEF h
  <2>3. Sums(DOMAIN h, h, jt)
    BY <2>2, TableExists
  <2> HIDE DEF jt
  <2>4. Adds(h) = jt[DOMAIN h]
    BY AddsIsLast DEF jt
  <2>5. jt[DOMAIN h] = it[DOMAIN h]
    BY <1>1, <2>1, <2>2, <2>3, TablesAgree
  <2>6. Adds(g) = g[x] + Adds(h)
    <3>1. D \in SUBSET D
      OBVIOUS
    <3>2. it[D] = g[x] + it[D \ {x}]
      BY <1>3, <1>4, <3>1
    <3>3. Adds(h) = it[D \ {x}]
      BY <2>1, <2>4, <2>5
    <3> HIDE DEF D
    <3> QED BY <1>2, <3>2, <3>3
  <2> QED BY <2>6 DEF h
<1> QED BY <1>2, <1>3, <1>4

\* The total of no fields, ...
LEMMA TotalNone ==
  ASSUME NEW o
  PROVE  Total(o, {}) = 0
<1> DEFINE g == [f \in {} |-> Size(f, o[f])]
<1>1. Total(o, {}) = Adds(g)
  BY Zenon DEF Total, Adds
<1>2. DOMAIN g = {}
  OBVIOUS
<1> HIDE DEF g
<1> QED BY <1>1, <1>2, AddsNone

\* ... of some and one more, ...
LEMMA TotalMore ==
  ASSUME NEW o, NEW S, IsFiniteSet(S), \A f \in S : Size(f, o[f]) \in Nat,
         NEW x, x \notin S, Size(x, o[x]) \in Nat
  PROVE  /\ Total(o, S \cup {x}) = Size(x, o[x]) + Total(o, S)
         /\ Total(o, S) \in Nat
<1> DEFINE g == [f \in S \cup {x} |-> Size(f, o[f])]
           h == [f \in S |-> Size(f, o[f])]
<1>1. Total(o, S \cup {x}) = Adds(g) /\ Total(o, S) = Adds(h)
  BY Zenon DEF Total, Adds
<1>2. DOMAIN g = S \cup {x} /\ \A f \in S \cup {x} : g[f] = Size(f, o[f])
  OBVIOUS
<1>3. DOMAIN h = S /\ \A f \in S : h[f] = Size(f, o[f])
  OBVIOUS
<1>4. h = [f \in DOMAIN g \ {x} |-> g[f]]
  <2>1. (S \cup {x}) \ {x} = S
    OBVIOUS
  <2> QED BY <2>1, <1>2
<1>5. IsFiniteSet(S \cup {x})
  BY FS_AddElement
<1> HIDE DEF g, h
<1>6. Adds(h) \in Nat
  BY <1>3, AddsTake
<1>7. Adds(g) = g[x] + Adds(h)
  BY <1>2, <1>4, <1>5, AddsTake
<1> QED BY <1>1, <1>2, <1>6, <1>7

\* ... and of the fields of two messages that agree on them.
LEMMA TotalAgree ==
  ASSUME NEW o, NEW p, NEW S, \A f \in S : o[f] = p[f]
  PROVE  Total(o, S) = Total(p, S)
<1>1. [f \in S |-> Size(f, o[f])] = [f \in S |-> Size(f, p[f])]
  OBVIOUS
<1> QED BY <1>1, Zenon DEF Total

\* The totals of sets that have nothing in common are added.
LEMMA TotalUnion ==
  ASSUME NEW o, NEW S, NEW T, IsFiniteSet(S), IsFiniteSet(T), S \cap T = {},
         \A f \in S \cup T : Size(f, o[f]) \in Nat
  PROVE  /\ Total(o, S \cup T) = Total(o, S) + Total(o, T)
         /\ Total(o, S) \in Nat
         /\ Total(o, T) \in Nat
<1> DEFINE Good(s) == /\ Total(o, s \cup T) = Total(o, s) + Total(o, T)
                      /\ Total(o, s) \in Nat /\ Total(o, T) \in Nat
           Bad == {s \in SUBSET S : ~ Good(s)}
<1>1. Good({})
  <2>1. Total(o, T) \in Nat
    <3>1. CASE T = {}
      BY <3>1, TotalNone
    <3>2. CASE T # {}
      <4>1. PICK x \in T : TRUE
        BY <3>2
      <4>2. T = (T \ {x}) \cup {x} /\ x \notin T \ {x}
        BY <4>1
      <4>3. IsFiniteSet(T \ {x})
        BY FS_Subset
      <4>4. Total(o, (T \ {x}) \cup {x}) = Size(x, o[x]) + Total(o, T \ {x}) /\ Total(o, T \ {x}) \in Nat
        BY <4>1, <4>2, <4>3, TotalMore
      <4>5. Size(x, o[x]) \in Nat
        BY <4>1
      <4>6. Total(o, (T \ {x}) \cup {x}) \in Nat
        BY <4>4, <4>5
      <4> QED BY <4>2, <4>6
    <3> QED BY <3>1, <3>2
  <2>2. {} \cup T = T
    OBVIOUS
  <2> QED BY <2>1, <2>2, TotalNone
<1> SUFFICES ASSUME Bad # {}
             PROVE  FALSE
  OBVIOUS
<1>2. PICK t \in Bad : \A u \in Bad : u \subseteq t => u = t
  <2>1. Bad \subseteq SUBSET S
    OBVIOUS
  <2> HIDE DEF Bad
  <2> QED BY <2>1, SmallestSubset
<1>3. t \in SUBSET S /\ ~ Good(t)
  OBVIOUS
<1> HIDE DEF Good
<1>4. PICK x \in t : TRUE
  BY <1>1, <1>3
<1> DEFINE s == t \ {x}
<1>5. Good(s)
  BY <1>2, <1>4
<1>6. IsFiniteSet(s) /\ IsFiniteSet(s \cup T)
  BY <1>3, FS_Subset, FS_Union
<1>7. t = s \cup {x} /\ t \cup T = (s \cup T) \cup {x} /\ x \notin s /\ x \notin s \cup T
  BY <1>3, <1>4
<1>8. Size(x, o[x]) \in Nat /\ \A f \in s \cup T : Size(f, o[f]) \in Nat
  BY <1>3, <1>4
<1> HIDE DEF s
<1>9. Total(o, t) = Size(x, o[x]) + Total(o, s) /\ Total(o, s) \in Nat
  BY <1>6, <1>7, <1>8, TotalMore
<1>10. Total(o, t \cup T) = Size(x, o[x]) + Total(o, s \cup T)
  BY <1>6, <1>7, <1>8, TotalMore
<1>11. Good(t)
  <2> DEFINE a == Size(x, o[x])
             b == Total(o, s)
             c == Total(o, T)
             d == Total(o, s \cup T)
  <2>1. a \in Nat /\ b \in Nat /\ c \in Nat /\ d = b + c
    BY <1>5, <1>8 DEF Good
  <2>2. Total(o, t) = a + b /\ Total(o, t \cup T) = a + d
    BY <1>9, <1>10
  <2> HIDE DEF a, b, c, d
  <2>3. Total(o, t) \in Nat /\ Total(o, t \cup T) = Total(o, t) + c
    BY <2>1, <2>2
  <2> QED BY <2>1, <2>3 DEF Good, c
<1> QED BY <1>3, <1>11

-----------------------------------------------------------------------------
(* Fields *)

AllFields == Bits \cup OneByte \cup TwoBytes \cup FourBytes \cup Varints \cup Strings \cup Lists \cup {"payload"}

TopicRecord == [name : Nat, len : Nat \ {0}]
Subscription == [name : Nat, len : Nat \ {0}, qos : Nat, noLocal : Nat, retainAsPub : Nat, retainHandling : Nat]

\* A number of two bytes.
Word == {n \in Nat : n <= 65535}

\* What a field of a message holds.
FieldType(k, f) ==
  IF f = "receiveMaximum" THEN Word ELSE IF f \in UserProperties THEN Seq(Nat) ELSE IF f = "connectFlags" THEN SUBSET Flags
  ELSE IF f = "topics" THEN Seq(TopicRecord) ELSE IF f = "subscriptions" THEN Seq(Subscription)
  ELSE IF f = "reasonCodes" THEN Seq(IF k = "SUBACK" THEN ValidSubAckReasonCode ELSE Nat)
  ELSE Nat

\* A fold that adds is a sum.
LEMMA FoldsAreSums ==
  ASSUME NEW u
  PROVE  /\ FoldSeq(LAMBDA n, sum : n + sum, 0, u) = Adds(u)
         /\ FoldSeq(LAMBDA t, sum : 2 + t.len + sum, 0, u) = Adds([i \in DOMAIN u |-> 2 + u[i].len])
         /\ FoldSeq(LAMBDA t, sum : 2 + t.len + 1 + sum, 0, u) = Adds([i \in DOMAIN u |-> 2 + u[i].len + 1])
<1>1. FoldSeq(LAMBDA n, sum : n + sum, 0, u) = Adds(u)
  BY ZenonT(120) DEF Adds, FoldFunction, FoldFunctionOnSet, MapThenFoldSet, FoldSeq
<1>2. FoldSeq(LAMBDA t, sum : 2 + t.len + sum, 0, u) = Adds([i \in DOMAIN u |-> 2 + u[i].len])
  BY ZenonT(120) DEF Adds, FoldFunction, FoldFunctionOnSet, MapThenFoldSet, FoldSeq
<1>3. FoldSeq(LAMBDA t, sum : 2 + t.len + 1 + sum, 0, u) = Adds([i \in DOMAIN u |-> 2 + u[i].len + 1])
  BY ZenonT(120) DEF Adds, FoldFunction, FoldFunctionOnSet, MapThenFoldSet, FoldSeq
<1> QED BY <1>1, <1>2, <1>3, Zenon

\* The sizes of lists are numbers, ...
LEMMA ListSizes ==
  /\ \A u \in Seq(Nat) : Adds(u) \in Nat
  /\ \A u \in Seq(TopicRecord) : FoldSeq(LAMBDA t, sum : 2 + t.len + sum, 0, u) \in Nat
  /\ \A u \in Seq(Subscription) : FoldSeq(LAMBDA t, sum : 2 + t.len + 1 + sum, 0, u) \in Nat
<1>1. ASSUME NEW u \in Seq(Nat)
      PROVE  Adds(u) \in Nat
  <2>1. IsFiniteSet(DOMAIN u) /\ \A i \in DOMAIN u : u[i] \in Nat
    BY FS_Interval
  <2> QED BY <2>1, AddsTake
<1>2. ASSUME NEW u \in Seq(TopicRecord)
      PROVE  Adds([i \in DOMAIN u |-> 2 + u[i].len]) \in Nat
  <2> DEFINE g == [i \in DOMAIN u |-> 2 + u[i].len]
  <2>1. IsFiniteSet(DOMAIN u) /\ DOMAIN g = DOMAIN u /\ \A i \in DOMAIN u : u[i] \in TopicRecord
    BY FS_Interval
  <2>2. \A i \in DOMAIN g : g[i] \in Nat
    BY <2>1 DEF TopicRecord
  <2> HIDE DEF g
  <2>3. Adds(g) \in Nat
    BY <2>1, <2>2, AddsTake
  <2> QED BY <2>3 DEF g
<1>3. ASSUME NEW u \in Seq(Subscription)
      PROVE  Adds([i \in DOMAIN u |-> 2 + u[i].len + 1]) \in Nat
  <2> DEFINE g == [i \in DOMAIN u |-> 2 + u[i].len + 1]
  <2>1. IsFiniteSet(DOMAIN u) /\ DOMAIN g = DOMAIN u /\ \A i \in DOMAIN u : u[i] \in Subscription
    BY FS_Interval
  <2>2. \A i \in DOMAIN g : g[i] \in Nat
    <3>1. \A i \in DOMAIN u : u[i].len \in Nat
      BY <2>1 DEF Subscription
    <3> QED BY <2>1, <3>1
  <2> HIDE DEF g
  <2>3. Adds(g) \in Nat
    BY <2>1, <2>2, AddsTake
  <2> QED BY <2>3 DEF g
<1>4. \A u \in Seq(TopicRecord) : FoldSeq(LAMBDA t, sum : 2 + t.len + sum, 0, u) \in Nat
  <2> TAKE u \in Seq(TopicRecord)
  <2>1. FoldSeq(LAMBDA t, sum : 2 + t.len + sum, 0, u) = Adds([i \in DOMAIN u |-> 2 + u[i].len])
    BY FoldsAreSums, Zenon
  <2> QED BY <1>2, <2>1, Zenon
<1>5. \A u \in Seq(Subscription) : FoldSeq(LAMBDA t, sum : 2 + t.len + 1 + sum, 0, u) \in Nat
  <2> TAKE u \in Seq(Subscription)
  <2>1. FoldSeq(LAMBDA t, sum : 2 + t.len + 1 + sum, 0, u) = Adds([i \in DOMAIN u |-> 2 + u[i].len + 1])
    BY FoldsAreSums, Zenon
  <2> QED BY <1>3, <2>1, Zenon
<1> QED BY <1>1, <1>4, <1>5, Zenon

\* ... and an empty list of topics has no size.
LEMMA EmptyLists ==
  /\ FoldSeq(LAMBDA t, sum : 2 + t.len + sum, 0, <<>>) = 0
  /\ Adds(<<>>) = 0
<1>1. Adds(<<>>) = 0
  BY AddsNone
<1> DEFINE g == [i \in DOMAIN <<>> |-> 2 + <<>>[i].len]
<1>2. DOMAIN g = {}
  OBVIOUS
<1>3. FoldSeq(LAMBDA t, sum : 2 + t.len + sum, 0, <<>>) = Adds(g)
  BY FoldsAreSums, Zenon
<1> HIDE DEF g
<1>4. Adds(g) = 0
  BY <1>2, AddsNone
<1> QED BY <1>1, <1>3, <1>4, Zenon

\* A length of a user property list is a number, and not zero if there is one.
LEMMA UserPropertyLength ==
  ASSUME NEW u \in Seq(Nat)
  PROVE  buildUserPropertyLen(u) \in Nat /\ (u # <<>> <=> buildUserPropertyLen(u) # 0)
<1> DEFINE a == Adds(u)
           n == Len(u)
<1>1. a \in Nat
  BY ListSizes
<1>2. n \in Nat /\ (n = 0 <=> u = <<>>)
  OBVIOUS
<1>3. buildUserPropertyLen(u) = 5 * ((n + 1) \div 2) + a
  BY FoldsAreSums, Zenon DEF buildUserPropertyLen
<1>4. n = 0 => a = 0
  BY <1>2, EmptyLists
<1> HIDE DEF a, n
<1>5. (n + 1) \div 2 \in Nat /\ ((n + 1) \div 2 = 0 <=> n = 0)
  BY <1>2
<1> DEFINE m == (n + 1) \div 2
<1>6. m \in Nat /\ (m = 0 <=> n = 0) /\ buildUserPropertyLen(u) = 5 * m + a
  BY <1>3, <1>5
<1> HIDE DEF m
<1>7. 5 * m + a \in Nat /\ (5 * m + a # 0 <=> n # 0)
  BY <1>1, <1>4, <1>6
<1> QED BY <1>2, <1>6, <1>7

\* A variable byte integer takes one to four bytes.
LEMMA VarintSize == \A x : lbEncode(x) \in 1 .. 4
BY DEF lbEncode

\* The kinds of fields have nothing in common.
LEMMA Classes ==
  /\ \A f \in Bits : f \notin OneByte \cup TwoBytes \cup FourBytes \cup Varints \cup Strings \cup Lists \cup {"payload"}
  /\ \A f \in OneByte : f \notin TwoBytes \cup FourBytes \cup Varints \cup Strings \cup Lists \cup {"payload"}
  /\ \A f \in TwoBytes : f \notin FourBytes \cup Varints \cup Strings \cup Lists \cup {"payload"}
  /\ \A f \in FourBytes : f \notin Varints \cup Strings \cup Lists \cup {"payload"}
  /\ \A f \in Varints : f \notin Strings \cup Lists \cup {"payload"}
  /\ \A f \in Strings : f \notin Lists \cup {"payload"}
  /\ \A f \in Lists : f # "payload"
<1> USE DEF Bits, OneByte, TwoBytes, FourBytes, Varints, Strings, Lists, UserProperties
<1>1. \A f \in Bits : f \notin OneByte \cup TwoBytes \cup FourBytes \cup Varints \cup Strings \cup Lists \cup {"payload"}
  OBVIOUS
<1>2. \A f \in OneByte : f \notin TwoBytes \cup FourBytes \cup Varints \cup Strings \cup Lists \cup {"payload"}
  OBVIOUS
<1>3. \A f \in TwoBytes : f \notin FourBytes \cup Varints \cup Strings \cup Lists \cup {"payload"}
  OBVIOUS
<1>4. \A f \in FourBytes : f \notin Varints \cup Strings \cup Lists \cup {"payload"}
  OBVIOUS
<1>5. \A f \in Varints : f \notin Strings \cup Lists \cup {"payload"}
  OBVIOUS
<1>6. \A f \in Strings : f \notin Lists \cup {"payload"}
  OBVIOUS
<1>7. \A f \in Lists : f # "payload"
  OBVIOUS
<1> QED BY <1>1, <1>2, <1>3, <1>4, <1>5, <1>6, <1>7

\* The bytes of a field, by its kind.
LEMMA SizeByClass ==
  ASSUME NEW f, NEW v
  PROVE  LET id == IF f \in Identified THEN 1 ELSE 0
         IN  /\ f \in Bits => Size(f, v) = id + 0
             /\ f \in OneByte => Size(f, v) = id + 1
             /\ f \in TwoBytes => Size(f, v) = id + 2
             /\ f \in FourBytes => Size(f, v) = id + 4
             /\ f \in Varints => Size(f, v) = id + lbEncode(v)
             /\ f \in Strings => Size(f, v) = id + (2 + v)
             /\ f = "payload" => Size(f, v) = id + v
             /\ f \in UserProperties => Size(f, v) = id + buildUserPropertyLen(v)
             /\ f = "reasonCodes" => Size(f, v) = id + Len(v)
             /\ f = "topics" => Size(f, v) = id + FoldSeq(LAMBDA t, sum : 2 + t.len + sum, 0, v)
             /\ f = "subscriptions" => Size(f, v) = id + FoldSeq(LAMBDA s, sum : 2 + s.len + 1 + sum, 0, v)
<1> DEFINE A == FoldSeq(LAMBDA t, sum : 2 + t.len + sum, 0, v)
           B == FoldSeq(LAMBDA s, sum : 2 + s.len + 1 + sum, 0, v)
           L == lbEncode(v)
           U == buildUserPropertyLen(v)
           id == IF f \in Identified THEN 1 ELSE 0
           class == CASE f \in Bits -> 0 [] f \in OneByte -> 1 [] f \in TwoBytes -> 2 [] f \in FourBytes -> 4
                      [] f \in Varints -> L [] f \in Strings -> 2 + v [] f = "payload" -> v
                      [] f \in UserProperties -> U [] f = "reasonCodes" -> Len(v)
                      [] f = "topics" -> A [] f = "subscriptions" -> B
<1>1. Size(f, v) = id + class
  BY Zenon DEF Size
<1> HIDE DEF A, B, L, U, id
<1>2. /\ f \in Lists <=> f \in UserProperties \/ f = "topics" \/ f = "subscriptions" \/ f = "reasonCodes"
      /\ f \in UserProperties => f # "topics" /\ f # "subscriptions" /\ f # "reasonCodes"
  BY DEF Lists, UserProperties
<1>3. f \in Bits => class = 0
  BY <1>2, Classes
<1>4. f \in OneByte => class = 1
  BY <1>2, Classes
<1>5. f \in TwoBytes => class = 2
  BY <1>2, Classes
<1>6. f \in FourBytes => class = 4
  BY <1>2, Classes
<1>7. f \in Varints => class = L
  BY <1>2, Classes
<1>8. f \in Strings => class = 2 + v
  BY <1>2, Classes
<1>9. f = "payload" => class = v
  BY <1>2, Classes
<1>10. f \in UserProperties => class = U
  BY <1>2, Classes
<1>11. f = "reasonCodes" => class = Len(v)
  BY <1>2, Classes
<1>12. f = "topics" => class = A
  BY <1>2, Classes
<1>13. f = "subscriptions" => class = B
  BY <1>2, Classes
<1> HIDE DEF class
<1> QED BY <1>1, <1>3, <1>4, <1>5, <1>6, <1>7, <1>8, <1>9, <1>10, <1>11, <1>12, <1>13, Zenon DEF A, B, L, U, id

\* The size of a field is a number.
LEMMA SizeNat ==
  ASSUME NEW k, NEW f \in AllFields, NEW v \in FieldType(k, f)
  PROVE  Size(f, v) \in Nat
<1> DEFINE id == IF f \in Identified THEN 1 ELSE 0
<1>1. id \in Nat
  OBVIOUS
<1>2. CASE f \in Lists
  <2>1. CASE f \in UserProperties
    <3>1. buildUserPropertyLen(v) \in Nat
      BY <2>1, UserPropertyLength DEF FieldType, UserProperties
    <3>2. Size(f, v) = id + buildUserPropertyLen(v)
      BY <2>1, SizeByClass, Zenon
    <3> HIDE DEF id
    <3> QED BY <1>1, <3>1, <3>2
  <2>2. CASE f = "topics"
    <3> DEFINE A == FoldSeq(LAMBDA t, sum : 2 + t.len + sum, 0, v)
    <3>1. v \in Seq(TopicRecord)
      BY <2>2 DEF FieldType, UserProperties
    <3>2. A \in Nat
      BY <3>1, ListSizes, Zenon
    <3>3. Size(f, v) = id + A
      BY <2>2, SizeByClass, Zenon
    <3> HIDE DEF id, A
    <3> QED BY <1>1, <3>2, <3>3
  <2>3. CASE f = "subscriptions"
    <3> DEFINE A == FoldSeq(LAMBDA t, sum : 2 + t.len + 1 + sum, 0, v)
    <3>1. v \in Seq(Subscription)
      BY <2>3 DEF FieldType, UserProperties
    <3>2. A \in Nat
      BY <3>1, ListSizes, Zenon
    <3>3. Size(f, v) = id + A
      BY <2>3, SizeByClass, Zenon
    <3> HIDE DEF id, A
    <3> QED BY <1>1, <3>2, <3>3
  <2>4. CASE f = "reasonCodes"
    <3>1. PICK S : v \in Seq(S)
      BY <2>4 DEF FieldType, UserProperties
    <3> DEFINE n == Len(v)
    <3>2. n \in Nat
      BY <3>1
    <3>3. Size(f, v) = id + n
      BY <2>4, SizeByClass, Zenon
    <3> HIDE DEF id, n
    <3> QED BY <1>1, <3>2, <3>3
  <2> QED BY <1>2, <2>1, <2>2, <2>3, <2>4 DEF Lists
<1>3. CASE f \in Varints
  <2> DEFINE n == lbEncode(v)
  <2>1. Size(f, v) = id + n
    BY <1>3, SizeByClass, Zenon
  <2>2. n \in Nat
    BY VarintSize
  <2> HIDE DEF n, id
  <2> QED BY <1>1, <2>1, <2>2
<1>4. CASE f \in Bits
  <2>1. Size(f, v) = id + 0
    BY <1>4, SizeByClass, Zenon
  <2> HIDE DEF id
  <2> QED BY <1>1, <2>1
<1>5. CASE f \in OneByte
  <2>1. Size(f, v) = id + 1
    BY <1>5, SizeByClass, Zenon
  <2> HIDE DEF id
  <2> QED BY <1>1, <2>1
<1>6. CASE f \in TwoBytes
  <2>1. Size(f, v) = id + 2
    BY <1>6, SizeByClass, Zenon
  <2> HIDE DEF id
  <2> QED BY <1>1, <2>1
<1>7. CASE f \in FourBytes
  <2>1. Size(f, v) = id + 4
    BY <1>7, SizeByClass, Zenon
  <2> HIDE DEF id
  <2> QED BY <1>1, <2>1
<1>8. CASE f \in Strings \cup {"payload"}
  <2>1. v \in Nat
    BY <1>8 DEF FieldType, Strings, UserProperties
  <2>2. f \in Strings => Size(f, v) = id + (2 + v)
    BY SizeByClass, Zenon
  <2>3. ASSUME f = "payload"
        PROVE  Size(f, v) = id + v
    BY <2>3, SizeByClass, Zenon
  <2> HIDE DEF id
  <2>4. f \in Strings => Size(f, v) \in Nat
    BY <1>1, <2>1, <2>2
  <2>5. f = "payload" => Size(f, v) \in Nat
    BY <1>1, <2>1, <2>3
  <2> QED BY <1>8, <2>4, <2>5
<1> QED BY <1>2, <1>3, <1>4, <1>5, <1>6, <1>7, <1>8 DEF AllFields

\* The fields of the packet types.
LEMMA Domains ==
  /\ DOMAIN New("CONNECT") =
       {"remlen", "protoName", "version", "connectFlags", "willQos", "keepAlive", "propertiesLen",
        "sessionExpiryInterval", "receiveMaximum", "maxPacketSize", "topicAliasMax", "requestRespInfo",
        "requestProblemInfo", "userProperty", "authMethod", "authData", "clientId", "willPropertiesLen",
        "willDelayInterval", "payloadFormatIndicator", "willMsgExpiryInterval", "contentType",
        "responseTopic", "correlationData", "willUserProperty", "willTopic", "willMessage", "username",
        "password"}
  /\ DOMAIN New("CONNACK") =
       {"remlen", "sessionPresent", "reasonCode", "propertiesLen", "sessionExpiryInterval",
        "receiveMaximum", "maxQos", "retainAvailable", "maxPacketSize", "assignedIdentifier",
        "topicAliasMax", "reasonStr", "userProperty", "wildcardSubscriptionAvailable",
        "subscriptionIdentifierAvailable", "sharedSubscriptionAvailable", "serverKeepAlive",
        "responseInformation", "serverReference", "authMethod", "authData"}
  /\ DOMAIN New("PUBLISH") =
       {"remlen", "dup", "qos", "retain", "topic", "packetId", "propertiesLen", "payloadFormatIndicator",
        "messageExpiryInterval", "topicAlias", "responseTopic", "correlationData", "userProperty",
        "subscriptionIdentifier", "contentType", "payload"}
  /\ \A k \in Acks : DOMAIN New(k) =
       {"remlen", "packetId", "reasonCode", "propertiesLen", "reasonStr", "userProperty"}
  /\ DOMAIN New("SUBSCRIBE") =
       {"remlen", "packetId", "propertiesLen", "subscriptionIdentifier", "userProperty", "subscriptions"}
  /\ DOMAIN New("SUBACK") =
       {"remlen", "packetId", "propertiesLen", "reasonStr", "userProperty", "reasonCodes"}
  /\ DOMAIN New("UNSUBSCRIBE") = {"remlen", "packetId", "propertiesLen", "userProperty", "topics"}
  /\ DOMAIN New("UNSUBACK") =
       {"remlen", "packetId", "propertiesLen", "reasonStr", "userProperty", "reasonCodes"}
  /\ DOMAIN New("DISCONNECT") =
       {"remlen", "reasonCode", "propertiesLen", "sessionExpiryInterval", "reasonStr", "userProperty",
        "serverReference"}
  /\ DOMAIN New("AUTH") =
       {"remlen", "reasonCode", "propertiesLen", "authMethod", "authData", "reasonStr", "userProperty"}
<1>1. DOMAIN NewConnect =
       {"remlen", "protoName", "version", "connectFlags", "willQos", "keepAlive", "propertiesLen",
        "sessionExpiryInterval", "receiveMaximum", "maxPacketSize", "topicAliasMax", "requestRespInfo",
        "requestProblemInfo", "userProperty", "authMethod", "authData", "clientId", "willPropertiesLen",
        "willDelayInterval", "payloadFormatIndicator", "willMsgExpiryInterval", "contentType",
        "responseTopic", "correlationData", "willUserProperty", "willTopic", "willMessage", "username",
        "password"}
  BY DEF NewConnect
<1> QED BY <1>1 DEF New, NewConnect, NewConnack, NewPublish, NewPuback, NewSubscribe, NewSuback,
                NewUnsubscribe, NewUnsuback, NewDisconnect, NewAuth, Acks

\* A message of a kind: fields that hold what they should, and a supported
\* version comes with its name.
Message(k, o) ==
  /\ DOMAIN o = DOMAIN New(k)
  /\ \A f \in DOMAIN New(k) : o[f] \in FieldType(k, f)
  /\ k = "CONNECT" => (o.version = 5) = (o.protoName = 4)

AllKinds == Acks \cup {"CONNECT", "CONNACK", "PUBLISH", "SUBSCRIBE", "SUBACK", "UNSUBSCRIBE", "UNSUBACK",
                       "DISCONNECT", "AUTH"}

\* Every field but the remaining length has a size.
LEMMA FieldsKnown ==
  ASSUME NEW k \in AllKinds
  PROVE  DOMAIN New(k) \subseteq AllFields \cup {"remlen"} /\ "remlen" \in DOMAIN New(k)
                                                           /\ "propertiesLen" \in DOMAIN New(k)
<1> USE DEF AllFields, Bits, OneByte, TwoBytes, FourBytes, Varints, Strings, Lists, UserProperties
<1>1. CASE k \in Acks
  BY <1>1, Domains
<1>2. CASE k = "CONNECT"
  BY <1>2, Domains
<1>3. CASE k = "CONNACK"
  BY <1>3, Domains
<1>4. CASE k = "PUBLISH"
  BY <1>4, Domains
<1>5. CASE k = "SUBSCRIBE"
  BY <1>5, Domains
<1>6. CASE k = "SUBACK"
  BY <1>6, Domains
<1>7. CASE k = "UNSUBSCRIBE"
  BY <1>7, Domains
<1>8. CASE k = "UNSUBACK"
  BY <1>8, Domains
<1>9. CASE k = "DISCONNECT"
  BY <1>9, Domains
<1>10. CASE k = "AUTH"
  BY <1>10, Domains
<1> QED BY <1>1, <1>2, <1>3, <1>4, <1>5, <1>6, <1>7, <1>8, <1>9, <1>10 DEF AllKinds

\* A field is set to what it holds.
LEMMA SetOne ==
  ASSUME NEW k \in AllKinds, NEW o, Message(k, o), NEW f, NEW v,
         f \in DOMAIN New(k) => v \in FieldType(k, f),
         k # "CONNECT" \/ f \notin {"version", "protoName"}
  PROVE  Message(k, [o EXCEPT ![f] = v])
<1> DEFINE p == [o EXCEPT ![f] = v]
<1>1. DOMAIN p = DOMAIN New(k)
  BY DEF Message
<1>2. \A g \in DOMAIN New(k) : p[g] \in FieldType(k, g)
  BY DEF Message
<1>3. ASSUME k = "CONNECT"
      PROVE  (p.version = 5) = (p.protoName = 4)
  <2>1. p.version = o.version /\ p.protoName = o.protoName
    BY <1>3, Domains DEF Message
  <2> HIDE DEF p
  <2> QED BY <1>3, <2>1 DEF Message
<1> HIDE DEF p
<1> QED BY <1>1, <1>2, <1>3 DEF Message, p

\* A field that is a number.
LEMMA NumberFields ==
  ASSUME NEW k
  PROVE  /\ \A f \in {"remlen"} \cup (AllFields \ (Lists \cup {"connectFlags", "receiveMaximum"})) : FieldType(k, f) = Nat
         /\ \A f \in UserProperties : FieldType(k, f) = Seq(Nat)
         /\ FieldType(k, "receiveMaximum") = Word
         /\ FieldType(k, "connectFlags") = SUBSET Flags
         /\ FieldType(k, "topics") = Seq(TopicRecord)
         /\ FieldType(k, "subscriptions") = Seq(Subscription)
         /\ FieldType("SUBACK", "reasonCodes") = Seq(ValidSubAckReasonCode)
         /\ k # "SUBACK" => FieldType(k, "reasonCodes") = Seq(Nat)
<1>1. /\ FieldType(k, "receiveMaximum") = Word
      /\ FieldType(k, "connectFlags") = SUBSET Flags
      /\ FieldType(k, "topics") = Seq(TopicRecord)
      /\ FieldType(k, "subscriptions") = Seq(Subscription)
  BY DEF FieldType, UserProperties
<1>2. /\ FieldType("SUBACK", "reasonCodes") = Seq(ValidSubAckReasonCode)
      /\ k # "SUBACK" => FieldType(k, "reasonCodes") = Seq(Nat)
  BY DEF FieldType, UserProperties
<1>3. \A f \in UserProperties : FieldType(k, f) = Seq(Nat)
  BY DEF FieldType, UserProperties
<1>4. \A f \in {"remlen"} \cup (AllFields \ (Lists \cup {"connectFlags", "receiveMaximum"})) : FieldType(k, f) = Nat
  BY DEF FieldType, Lists, UserProperties
<1> QED BY <1>1, <1>2, <1>3, <1>4

-----------------------------------------------------------------------------
(* Calls of setters *)

\* The longest string and the longest packet have lengths.
LEMMA Limits == maxLPString \in Nat /\ maxRemainingLength \in Nat
BY DEF maxLPString, maxRemainingLength

\* The calls that are made: a field and what it holds, or what a packet type has
\* besides.
PlainCall(k, f, v) ==
  /\ f \in DOMAIN New(k) \ Derived
  /\ v \in FieldType(k, f) \/ (k = "SUBACK" /\ f = "reasonCodes" /\ v \in Seq(Nat))
SubscribeCall(f, v) ==
  \/ f = "AddTopic" /\ v.topic \in TopicRecord /\ v.qos \in Nat
  \/ f = "RemoveTopic"
  \/ f \in {"noLocal", "retainAsPub", "retainHandling"} /\ v.to \in Nat
UnsubscribeCall(f, v) ==
  \/ f = "AddTopic" /\ v.topic \in TopicRecord
  \/ f = "RemoveTopic"
GoodCall(k, c) ==
  \/ PlainCall(k, c[1], c[2])
  \/ k = "SUBSCRIBE" /\ SubscribeCall(c[1], c[2])
  \/ k = "UNSUBSCRIBE" /\ UnsubscribeCall(c[1], c[2])
  \/ k = "CONNECT" /\ c[1] \in Flags /\ c[2] \in {0, 1}
  \/ k = "PUBLISH" /\ c[1] = "SetNilTopicAndAlias" /\ c[2] = 1

\* The values that fields are set to.
LEMMA ValuesTyped ==
  ASSUME NEW k \in AllKinds, NEW f \in DOMAIN New(k) \ Derived, NEW v \in Values(k, f)
  PROVE  PlainCall(k, f, v)
<1> DEFINE Vals == Values(k, f)
<1>1. v \in Vals
  OBVIOUS
<1>2. f \in AllFields /\ f \notin Derived
  BY FieldsKnown DEF Derived
<1>3. f = "reasonCode" => k \in Acks \cup {"CONNACK", "DISCONNECT", "AUTH"}
  <2>1. CASE k \in {"CONNECT", "PUBLISH", "SUBSCRIBE"}
    BY <2>1, Domains
  <2>2. CASE k \in {"SUBACK", "UNSUBSCRIBE", "UNSUBACK"}
    BY <2>2, Domains
  <2> QED BY <2>1, <2>2 DEF AllKinds
<1>5. StringLengths \subseteq Nat /\ PayloadLengths \subseteq Nat /\ PropertyLists \subseteq Seq(Nat) /\ CodeLists \subseteq Seq(Nat)
  <2>1. StringLengths \subseteq Nat /\ PayloadLengths \subseteq Nat
    BY CodecAssumption, Limits DEF CodecAssumption
  <2>2. Seq(0 .. maxLPString) \subseteq Seq(Nat) /\ Seq({0, 1, 2, 17, 128}) \subseteq Seq(Nat)
    BY Limits
  <2> QED BY <2>1, <2>2, CodecAssumption DEF CodecAssumption
<1>6. CASE f \in UserProperties
  <2>1. Vals = PropertyLists
    BY <1>6 DEF Values, UserProperties, Flags, OneByte, TwoBytes, FourBytes, Strings
  <2> HIDE DEF Vals
  <2>2. v \in Seq(Nat) /\ FieldType(k, f) = Seq(Nat)
    BY <1>1, <1>5, <1>6, <2>1, NumberFields
  <2> QED BY <2>2 DEF PlainCall
<1>7. CASE f = "reasonCodes"
  <2>1. Vals = CodeLists
    BY <1>7 DEF Values, UserProperties, Flags, OneByte, TwoBytes, FourBytes, Strings
  <2> QED BY <1>1, <1>2, <1>5, <1>7, <2>1, NumberFields DEF PlainCall
<1>9. CASE f = "receiveMaximum"
  <2>1. v \in {0, 1, 65535}
    BY <1>1, <1>9 DEF Values, Flags, UserProperties, OneByte, TwoBytes, FourBytes, Strings
  <2>2. v \in Word
    BY <2>1 DEF Word
  <2> QED BY <1>9, <2>2, NumberFields DEF PlainCall
<1>8. CASE f \notin UserProperties /\ f # "reasonCodes" /\ f # "receiveMaximum"
  <2>1. f \notin Lists /\ f # "connectFlags"
    BY <1>2, <1>8 DEF Lists, Derived
  <2>2. FieldType(k, f) = Nat
    BY <1>2, <1>8, <2>1, NumberFields
  <2>3. f \in Bits \/ f \in OneByte \/ f \in TwoBytes \/ f \in FourBytes \/ f \in Strings \/ f = "payload"
          \/ f = "subscriptionIdentifier"
    BY <1>2, <2>1 DEF AllFields, Varints, Derived
  <2>4. v \in Nat
    <3>1. CASE f \in {"version", "dup", "retain", "qos", "willQos", "sessionPresent"}
      BY <1>1, <3>1 DEF Values, Flags, UserProperties, OneByte, TwoBytes, FourBytes, Strings
    <3>2. CASE f = "reasonCode"
      BY <1>1, <1>3, <3>2 DEF Values, Acks, Flags, UserProperties, OneByte, TwoBytes, FourBytes, Strings
    <3>3. CASE f \in OneByte \ {"version", "sessionPresent", "reasonCode"}
      BY <1>1, <3>3 DEF Values, Flags, UserProperties, OneByte, TwoBytes, FourBytes, Strings
    <3>4. CASE f \in TwoBytes \cup FourBytes
      BY <1>1, <3>4 DEF Values, Flags, UserProperties, OneByte, TwoBytes, FourBytes, Strings
    <3>5. CASE f \in Strings
      BY <1>1, <1>5, <3>5 DEF Values, Flags, UserProperties, OneByte, TwoBytes, FourBytes, Strings
    <3>6. CASE f \in {"payload", "subscriptionIdentifier"}
      BY <1>1, <1>5, <3>6 DEF Values, Flags, UserProperties, OneByte, TwoBytes, FourBytes, Strings
    <3> QED BY <2>3, <3>1, <3>2, <3>3, <3>4, <3>5, <3>6 DEF Bits
  <2> QED BY <1>2, <2>2, <2>4 DEF PlainCall
<1> QED BY <1>6, <1>7, <1>8, <1>9

\* Every call that is made is a good one.
LEMMA CallsGood ==
  ASSUME NEW k \in AllKinds, NEW c \in Calls(k)
  PROVE  GoodCall(k, c)
<1>1. CASE c \in UNION {{Call(f, v) : v \in Values(k, f)} : f \in DOMAIN New(k) \ Derived}
  <2>1. PICK f \in DOMAIN New(k) \ Derived : c \in {Call(f, v) : v \in Values(k, f)}
    BY <1>1
  <2>2. PICK v \in Values(k, f) : c = <<f, v>>
    BY <2>1 DEF Call
  <2> QED BY <2>2, ValuesTyped DEF GoodCall
<1>2. CASE c \in ListCalls(k)
  <2>0. TopicLengths \subseteq Nat \ {0}
    BY CodecAssumption, Limits DEF CodecAssumption
  <2>1. CASE k = "SUBSCRIBE"
    <3>1. ListCalls(k) =
           {Call("AddTopic", [topic |-> Topic(n, l), qos |-> q]) : n \in {1, 2}, l \in TopicLengths, q \in {0, 2}}
           \cup {Call("RemoveTopic", [topic |-> Topic(1, 1)])}
           \cup {Call(f, [topic |-> Topic(1, 1), to |-> 1]) : f \in {"noLocal", "retainAsPub"}}
           \cup {Call("retainHandling", [topic |-> Topic(1, 1), to |-> v]) : v \in {2, 3}}
      BY <2>1 DEF ListCalls
    <3>2. SubscribeCall(c[1], c[2])
      <4>1. CASE c \in {Call("AddTopic", [topic |-> Topic(n, l), qos |-> q]) : n \in {1, 2}, l \in TopicLengths, q \in {0, 2}}
        BY <4>1, <2>0 DEF Call, Topic, SubscribeCall, TopicRecord
      <4>2. CASE c \notin {Call("AddTopic", [topic |-> Topic(n, l), qos |-> q]) : n \in {1, 2}, l \in TopicLengths, q \in {0, 2}}
        BY <3>1, <4>2, <1>2 DEF Call, Topic, SubscribeCall
      <4> QED BY <4>1, <4>2
    <3> QED BY <2>1, <3>2 DEF GoodCall
  <2>2. CASE k = "UNSUBSCRIBE"
    <3>1. ListCalls(k) =
         {Call("AddTopic", [topic |-> Topic(n, l)]) : n \in {1, 5}, l \in TopicLengths}
           \cup {Call("RemoveTopic", [topic |-> Topic(1, 1)])}
      BY <2>2 DEF ListCalls
    <3>2. UnsubscribeCall(c[1], c[2])
      BY <3>1, <1>2, <2>0 DEF Call, Topic, UnsubscribeCall, TopicRecord
    <3> QED BY <2>2, <3>2 DEF GoodCall
  <2>3. CASE k = "CONNECT"
    <3>1. ListCalls(k) = {Call(f, v) : f \in Flags, v \in {0, 1}}
      BY <2>3 DEF ListCalls
    <3> QED BY <1>2, <2>3, <3>1 DEF Call, GoodCall
  <2>4. CASE k = "PUBLISH"
    <3>1. ListCalls(k) = {Call("SetNilTopicAndAlias", 1)}
      BY <2>4 DEF ListCalls
    <3> QED BY <1>2, <2>4, <3>1 DEF Call, GoodCall
  <2>5. CASE k \notin {"SUBSCRIBE", "UNSUBSCRIBE", "CONNECT", "PUBLISH"}
    BY <1>2, <2>5 DEF ListCalls
  <2> QED BY <2>1, <2>2, <2>3, <2>4, <2>5
<1> QED BY <1>1, <1>2 DEF Calls

\* What a message says for all that a packet sent from the cache must say: the
\* identifier, DUP and RETAIN, the QoS of topics, and codes of a SUBACK may differ.
Unchecked == {"packetId", "dup", "retain", "subscriptions", "reasonCodes"}
Subs(o) == [i \in DOMAIN o.subscriptions |-> [o.subscriptions[i] EXCEPT !.qos = 0]]
Fresh(k, o, old) ==
  /\ \A f \in DOMAIN o \ Unchecked : o[f] = old[f]
  /\ k = "SUBSCRIBE" => Subs(o) = Subs(old)
  /\ k = "UNSUBACK" => o.reasonCodes = old.reasonCodes

\* What a setter makes of a message: a message that has the remaining length it
\* had, and says the same if it is not marked dirty.
Setter(k, o, r) ==
  /\ Message(k, r.obj)
  /\ r.dirty \in BOOLEAN
  /\ r.obj.remlen = o.remlen
  /\ ~ r.dirty => Fresh(k, r.obj, o)

\* An identifier is a number.
LEMMA PidField == \A k : FieldType(k, "packetId") = Nat
BY NumberFields DEF AllFields, TwoBytes, Lists, UserProperties

\* A message says what it says, ...
LEMMA FreshSame == ASSUME NEW k, NEW o PROVE Fresh(k, o, o)
BY DEF Fresh

\* ... and hands on.
LEMMA FreshAgain ==
  ASSUME NEW k, NEW o, NEW p, NEW q, DOMAIN o = DOMAIN p, Fresh(k, o, p), Fresh(k, p, q)
  PROVE  Fresh(k, o, q)
BY DEF Fresh

\* A field that is set, ...
LEMMA Assigned ==
  ASSUME NEW k \in AllKinds, NEW o, Message(k, o), NEW f, f \notin Derived, NEW v,
         f \in DOMAIN New(k) => v \in FieldType(k, f), k # "CONNECT" \/ f # "version"
  PROVE  /\ Setter(k, o, [obj |-> [o EXCEPT ![f] = v], dirty |-> TRUE])
         /\ f \in {"packetId", "dup", "retain"} =>
              Setter(k, o, [obj |-> [o EXCEPT ![f] = v], dirty |-> FALSE])
         /\ Setter(k, o, [obj |-> o, dirty |-> FALSE])
         /\ Setter(k, o, [obj |-> o, dirty |-> TRUE])
<1> DEFINE p == [o EXCEPT ![f] = v]
<1>1. Message(k, p)
  BY SetOne DEF Derived
<1>2. p.remlen = o.remlen
  BY FieldsKnown DEF Derived, Message
<1>3. DOMAIN p = DOMAIN o /\ \A g \in DOMAIN o \ {f} : p[g] = o[g]
  BY DEF Message
<1> HIDE DEF p
<1>4. ASSUME f \in {"packetId", "dup", "retain"}
      PROVE  Fresh(k, p, o)
  <2>1. k = "SUBSCRIBE" => "subscriptions" \in DOMAIN o
    BY Domains DEF Message
  <2>2. k = "SUBSCRIBE" => p.subscriptions = o.subscriptions
    BY <1>3, <1>4, <2>1
  <2>3. k = "SUBSCRIBE" => Subs(p) = Subs(o)
    BY <2>2 DEF Subs
  <2>4. k = "UNSUBACK" => "reasonCodes" \in DOMAIN o
    BY Domains DEF Message
  <2>5. k = "UNSUBACK" => p.reasonCodes = o.reasonCodes
    BY <1>3, <1>4, <2>4
  <2>6. \A g \in DOMAIN p \ Unchecked : p[g] = o[g]
    BY <1>3, <1>4 DEF Unchecked
  <2> QED BY <2>3, <2>5, <2>6 DEF Fresh
<1>5. Setter(k, o, [obj |-> p, dirty |-> TRUE])
  BY <1>1, <1>2 DEF Setter
<1>6. f \in {"packetId", "dup", "retain"} => Setter(k, o, [obj |-> p, dirty |-> FALSE])
  BY <1>1, <1>2, <1>4 DEF Setter
<1>7. Setter(k, o, [obj |-> o, dirty |-> FALSE]) /\ Setter(k, o, [obj |-> o, dirty |-> TRUE])
  BY FreshSame DEF Setter
<1> QED BY <1>5, <1>6, <1>7 DEF p

\* ... user properties that are added, ...
LEMMA Extended ==
  ASSUME NEW k \in AllKinds, NEW o, Message(k, o), NEW f \in UserProperties, NEW v \in Seq(Nat)
  PROVE  Setter(k, o, [obj |-> [o EXCEPT ![f] = @ \o v], dirty |-> TRUE])
<1> DEFINE u == o[f] \o v
<1>1. FieldType(k, f) = Seq(Nat) /\ f \notin Derived /\ f # "version"
  BY NumberFields DEF UserProperties, Derived
<1>2. f \in DOMAIN New(k) => o[f] \in Seq(Nat)
  BY <1>1 DEF Message
<1>3. f \in DOMAIN New(k) => u \in FieldType(k, f)
  BY <1>1, <1>2
<1>4. [o EXCEPT ![f] = @ \o v] = [o EXCEPT ![f] = u]
  OBVIOUS
<1> HIDE DEF u
<1> QED BY <1>1, <1>3, <1>4, Assigned

\* ... and an identifier.
LEMMA Numbered ==
  ASSUME NEW k \in AllKinds, NEW o, Message(k, o), "packetId" \in DOMAIN New(k), NEW v \in Nat
  PROVE  Setter(k, o, SetPacketId(o, v))
<1>1. FieldType(k, "packetId") = Nat
  BY PidField
<1>2. /\ Setter(k, o, [obj |-> [o EXCEPT !.packetId = v], dirty |-> TRUE])
      /\ Setter(k, o, [obj |-> [o EXCEPT !.packetId = v], dirty |-> FALSE])
      /\ Setter(k, o, [obj |-> o, dirty |-> FALSE])
  <2>1. "packetId" \notin Derived /\ v \in FieldType(k, "packetId") /\ "packetId" # "version"
    BY <1>1 DEF Derived
  <2>2. "packetId" \in {"packetId", "dup", "retain"}
    OBVIOUS
  <2> QED BY <2>1, <2>2, Assigned
<1> DEFINE p == [o EXCEPT !.packetId = v]
<1>3. SetPacketId(o, v) \in {[obj |-> p, dirty |-> TRUE], [obj |-> p, dirty |-> FALSE], [obj |-> o, dirty |-> FALSE]}
  <2>1. SetPacketId(o, v) = [obj |-> IF v = 0 THEN o ELSE p, dirty |-> v # 0 /\ o.packetId = 0]
    BY DEF SetPacketId
  <2> HIDE DEF p
  <2>2. CASE v = 0
    BY <2>1, <2>2
  <2>3. CASE v # 0 /\ o.packetId = 0
    BY <2>1, <2>3
  <2>4. CASE v # 0 /\ o.packetId # 0
    BY <2>1, <2>4
  <2> QED BY <2>2, <2>3, <2>4
<1> QED BY <1>2, <1>3

\* The setters of PUBLISH, ...
LEMMA PublishSetters ==
  ASSUME NEW o, Message("PUBLISH", o), NEW c, GoodCall("PUBLISH", c)
  PROVE  Setter("PUBLISH", o, SetField("PUBLISH", o, c[1], c[2]))
<1> DEFINE f == c[1]
           v == c[2]
<1>0. "PUBLISH" \in AllKinds
  BY DEF AllKinds
<1>1. CASE f = "SetNilTopicAndAlias" /\ v = 1
  <2>1. SetField("PUBLISH", o, f, v) = SetNilTopicAndAlias(o, v)
    BY <1>1 DEF SetField, Acks
  <2> DEFINE p == [o EXCEPT !["topicAlias"] = v]
             q == [p EXCEPT !["topic"] = 0]
  <2>2. FieldType("PUBLISH", "topic") = Nat /\ FieldType("PUBLISH", "topicAlias") = Nat
    BY NumberFields DEF AllFields, TwoBytes, Strings, Lists, UserProperties
  <2>3. Setter("PUBLISH", o, [obj |-> p, dirty |-> TRUE])
    BY <1>0, <1>1, <2>2, Assigned DEF Derived
  <2>4. Message("PUBLISH", p) /\ p.remlen = o.remlen
    BY <2>3 DEF Setter
  <2> HIDE DEF p
  <2>5. Setter("PUBLISH", p, [obj |-> q, dirty |-> TRUE])
    BY <1>0, <2>2, <2>4, Assigned DEF Derived
  <2>6. SetNilTopicAndAlias(o, v) = [obj |-> q, dirty |-> TRUE]
    BY DEF p, SetNilTopicAndAlias
  <2> HIDE DEF q
  <2> QED BY <2>1, <2>4, <2>5, <2>6 DEF Setter
<1>2. CASE PlainCall("PUBLISH", f, v)
  <2>1. f \in DOMAIN New("PUBLISH") \ Derived /\ v \in FieldType("PUBLISH", f)
    BY <1>2 DEF PlainCall
  <2>2. SetField("PUBLISH", o, f, v) = PublishSet(o, f, v)
    BY <2>1, Domains DEF SetField, Acks
  <2>3. CASE f = "packetId"
    <3>1. v \in Nat
      BY <2>1, <2>3, PidField
    <3>2. PublishSet(o, f, v) = SetPacketId(o, v)
      BY <2>3 DEF PublishSet
    <3> QED BY <1>0, <2>1, <2>2, <2>3, <3>1, <3>2, Numbered
  <2>4. CASE f = "userProperty"
    <3>1. v \in Seq(Nat) /\ f \in UserProperties
      BY <2>1, <2>4, NumberFields DEF UserProperties
    <3>2. PublishSet(o, f, v) = [obj |-> [o EXCEPT ![f] = @ \o v], dirty |-> TRUE]
      BY <2>4 DEF PublishSet
    <3> QED BY <1>0, <2>2, <3>1, <3>2, Extended
  <2>5. CASE f \notin {"packetId", "userProperty"}
    <3> DEFINE p == [o EXCEPT ![f] = v]
    <3>1. \/ f \in {"dup", "retain"} /\ PublishSet(o, f, v) = [obj |-> p, dirty |-> FALSE]
          \/ PublishSet(o, f, v) = [obj |-> o, dirty |-> FALSE]
          \/ PublishSet(o, f, v) = [obj |-> p, dirty |-> TRUE]
      <4>1. CASE f \in {"dup", "retain"}
        BY <4>1 DEF PublishSet
      <4>2. CASE f = "topic" /\ v = 0
        BY <4>2 DEF PublishSet
      <4>3. CASE ~ (f \in {"dup", "retain"}) /\ ~ (f = "topic" /\ v = 0)
        BY <2>5, <4>3 DEF PublishSet
      <4> QED BY <4>1, <4>2, <4>3
    <3>2. /\ Setter("PUBLISH", o, [obj |-> p, dirty |-> TRUE])
          /\ f \in {"packetId", "dup", "retain"} => Setter("PUBLISH", o, [obj |-> p, dirty |-> FALSE])
          /\ Setter("PUBLISH", o, [obj |-> o, dirty |-> FALSE])
      BY <1>0, <2>1, Assigned
    <3> HIDE DEF p
    <3> QED BY <2>2, <3>1, <3>2
  <2> QED BY <2>3, <2>4, <2>5
<1>3. GoodCall("PUBLISH", c) => (f = "SetNilTopicAndAlias" /\ v = 1) \/ PlainCall("PUBLISH", f, v)
  BY DEF GoodCall
<1> QED BY <1>1, <1>2, <1>3

\* ... of its acknowledgements, ...
LEMMA PubackSetters ==
  ASSUME NEW k \in Acks, NEW o, Message(k, o), NEW c, GoodCall(k, c)
  PROVE  Setter(k, o, SetField(k, o, c[1], c[2]))
<1> DEFINE f == c[1]
           v == c[2]
<1>0. k \in AllKinds /\ k \notin {"SUBACK", "CONNECT"}
  BY DEF AllKinds, Acks
<1>1. f \in DOMAIN New(k) \ Derived /\ v \in FieldType(k, f)
  BY DEF GoodCall, PlainCall, Acks
<1>2. SetField(k, o, f, v) = PubackSet(o, f, v)
  BY DEF SetField, Acks
<1>3. CASE f = "packetId"
  <2>1. v \in Nat
    BY <1>1, <1>3, PidField
  <2>2. PubackSet(o, f, v) = SetPacketId(o, v)
    BY <1>3 DEF PubackSet
  <2> QED BY <1>0, <1>1, <1>2, <1>3, <2>1, <2>2, Numbered
<1>4. CASE f = "userProperty"
  <2>1. v \in Seq(Nat) /\ f \in UserProperties
    BY <1>1, <1>4, NumberFields DEF UserProperties
  <2>2. PubackSet(o, f, v) = [obj |-> [o EXCEPT ![f] = @ \o v], dirty |-> TRUE]
    BY <1>4 DEF PubackSet
  <2> QED BY <1>0, <1>2, <2>1, <2>2, Extended
<1>5. CASE f \notin {"packetId", "userProperty"}
  <2>1. PubackSet(o, f, v) = [obj |-> [o EXCEPT ![f] = v], dirty |-> TRUE]
    BY <1>5 DEF PubackSet
  <2> HIDE DEF f, v
  <2>2. k # "CONNECT" /\ f \notin Derived
    BY <1>0, <1>1
  <2>3. Setter(k, o, [obj |-> [o EXCEPT ![f] = v], dirty |-> TRUE])
    BY <1>0, <1>1, <2>2, Assigned
  <2> QED BY <1>2, <2>1, <2>3 DEF f, v
<1> QED BY <1>3, <1>4, <1>5

\* ... of DISCONNECT and AUTH, ...
LEMMA DisconnectSetters ==
  ASSUME NEW k \in {"DISCONNECT", "AUTH", "CONNACK"}, NEW o, Message(k, o), NEW c, GoodCall(k, c)
  PROVE  Setter(k, o, SetField(k, o, c[1], c[2]))
<1> DEFINE f == c[1]
           v == c[2]
<1>0. k \in AllKinds /\ k \notin {"SUBACK", "CONNECT"}
  BY DEF AllKinds, Acks
<1>1. f \in DOMAIN New(k) \ Derived /\ v \in FieldType(k, f)
  BY DEF GoodCall, PlainCall, Acks
<1>2. SetField(k, o, f, v) = CASE k = "DISCONNECT" -> DisconnectSet(o, f, v) [] k = "AUTH" -> AuthSet(o, f, v)
                               [] k = "CONNACK" -> ConnackSet(o, f, v)
  BY DEF SetField, Acks
<1>3. f # "willUserProperty"
  <2>1. CASE k = "DISCONNECT"
    BY <1>1, <2>1, Domains
  <2>2. CASE k = "AUTH"
    BY <1>1, <2>2, Domains
  <2>3. CASE k = "CONNACK"
    BY <1>1, <2>3, Domains
  <2> QED BY <2>1, <2>2, <2>3
<1>4. CASE f = "userProperty"
  <2>1. v \in Seq(Nat) /\ f \in UserProperties
    BY <1>1, <1>4, NumberFields DEF UserProperties
  <2>2. SetField(k, o, f, v) = [obj |-> [o EXCEPT ![f] = @ \o v], dirty |-> TRUE]
    BY <1>2, <1>4 DEF DisconnectSet, AuthSet, ConnackSet, UserProperties
  <2> QED BY <1>0, <2>1, <2>2, Extended
<1>5. CASE f # "userProperty"
  <2>1. SetField(k, o, f, v) = [obj |-> [o EXCEPT ![f] = v], dirty |-> TRUE]
    BY <1>2, <1>3, <1>5 DEF DisconnectSet, AuthSet, ConnackSet, UserProperties
  <2> HIDE DEF f, v
  <2>2. k # "CONNECT" /\ f \notin Derived
    BY <1>0, <1>1
  <2>3. Setter(k, o, [obj |-> [o EXCEPT ![f] = v], dirty |-> TRUE])
    BY <1>0, <1>1, <2>2, Assigned
  <2> QED BY <1>2, <2>1, <2>3 DEF f, v
<1> QED BY <1>4, <1>5

\* A set of numbers has a least one, ...
LEMMA LeastNumber ==
  ASSUME NEW S, S \subseteq Nat, S # {}
  PROVE  \E x \in S : \A y \in S : x <= y
<1> DEFINE R == {ss \in Nat \X Nat : ss[1] < ss[2]}
<1>1. IsWellFoundedOn(R, Nat)
  BY NatLessThanWellFounded DEF OpToRel
<1>2. \A x, y \in Nat : x < y => <<x, y>> \in R
  OBVIOUS
<1>3. \E x \in S : \A y \in S : ~ (<<y, x>> \in R)
  <2> HIDE DEF R
  <2> QED BY <1>1, WFMin
<1>4. PICK x \in S : \A y \in S : ~ (<<y, x>> \in R)
  BY <1>3
<1>5. \A y \in S : ~ (y < x)
  <2> HIDE DEF R
  <2> QED BY <1>2, <1>4
<1> QED BY <1>5

\* ... which is what Min is.
LEMMA MinIsLeast ==
  ASSUME NEW S, S \subseteq Nat, S # {}
  PROVE  Min(S) \in S /\ \A y \in S : Min(S) <= y
BY LeastNumber DEF Min

\* The index of a topic is in the list, or zero.
LEMMA IndexInList ==
  ASSUME NEW S, NEW list \in Seq(S), NEW topic
  PROVE  IndexOf(list, topic) \in 0 .. Len(list)
<1> DEFINE I == {i \in 1 .. Len(list) : list[i].name = topic.name}
<1>1. IndexOf(list, topic) = IF I # {} THEN Min(I) ELSE 0
  BY DEF IndexOf, SelectInSeq
<1>2. I # {} => Min(I) \in I
  <2>1. I \subseteq Nat
    OBVIOUS
  <2> HIDE DEF I
  <2> QED BY <2>1, MinIsLeast
<1>3. I \subseteq 1 .. Len(list)
  OBVIOUS
<1> HIDE DEF I
<1> DEFINE n == Len(list)
           m == Min(I)
<1>4. n \in Nat
  OBVIOUS
<1>5. IndexOf(list, topic) = m \/ IndexOf(list, topic) = 0
  BY <1>1
<1>6. IndexOf(list, topic) = m => m \in 1 .. n \/ IndexOf(list, topic) = 0
  BY <1>1, <1>2, <1>3
<1> HIDE DEF n, m
<1>7. IndexOf(list, topic) \in 0 .. n
  BY <1>4, <1>5, <1>6
<1> QED BY <1>7 DEF n

\* A list without one of its elements.
LEMMA Removed ==
  ASSUME NEW S, NEW list \in Seq(S), NEW i \in 1 .. Len(list)
  PROVE  RemoveAt(list, i) \in Seq(S)
<1>1. SubSeq(list, 1, i - 1) \in Seq(S) /\ SubSeq(list, i + 1, Len(list)) \in Seq(S)
  OBVIOUS
<1> QED BY <1>1 DEF RemoveAt

\* ... of SUBACK and UNSUBACK, ...
LEMMA SubackSetters ==
  ASSUME NEW k \in {"SUBACK", "UNSUBACK"}, NEW o, Message(k, o), NEW c, GoodCall(k, c)
  PROVE  Setter(k, o, SetField(k, o, c[1], c[2]))
<1> DEFINE f == c[1]
           v == c[2]
<1>0. k \in AllKinds /\ k # "CONNECT"
  BY DEF AllKinds, Acks
<1>1. PlainCall(k, f, v)
  BY DEF GoodCall
<1>2. SetField(k, o, f, v) = IF k = "SUBACK" THEN SubackSet(o, f, v) ELSE UnsubackSet(o, f, v)
  BY DEF SetField, Acks
<1> HIDE DEF f, v
<1>3. f \in DOMAIN New(k) \ Derived /\ (f = "reasonCodes" \/ v \in FieldType(k, f))
  BY <1>1 DEF PlainCall
<1>4. CASE f = "packetId"
  <2>1. v \in Nat
    BY <1>3, <1>4, PidField
  <2>2. SetField(k, o, f, v) = SetPacketId(o, v)
    BY <1>2, <1>4 DEF SubackSet, UnsubackSet
  <2>3. Setter(k, o, SetPacketId(o, v))
    BY <1>0, <1>3, <1>4, <2>1, Numbered
  <2> QED BY <2>2, <2>3 DEF f, v
<1>5. CASE f = "userProperty"
  <2>1. v \in Seq(Nat) /\ f \in UserProperties
    BY <1>3, <1>5, NumberFields DEF UserProperties
  <2>2. SetField(k, o, f, v) = [obj |-> [o EXCEPT ![f] = @ \o v], dirty |-> TRUE]
    BY <1>2, <1>5 DEF SubackSet, UnsubackSet
  <2>3. Setter(k, o, [obj |-> [o EXCEPT ![f] = @ \o v], dirty |-> TRUE])
    BY <1>0, <2>1, Extended
  <2> QED BY <2>2, <2>3 DEF f, v
<1>6. CASE f \notin {"packetId", "userProperty", "reasonCodes"}
  <2>1. SetField(k, o, f, v) = [obj |-> [o EXCEPT ![f] = v], dirty |-> TRUE]
    BY <1>2, <1>6 DEF SubackSet, UnsubackSet
  <2>2. Setter(k, o, [obj |-> [o EXCEPT ![f] = v], dirty |-> TRUE])
    BY <1>0, <1>3, <1>6, Assigned
  <2> QED BY <2>1, <2>2 DEF f, v
<1>7. CASE f = "reasonCodes" /\ k = "UNSUBACK"
  <2> DEFINE u == o.reasonCodes \o v
  <2>1. v \in Seq(Nat) /\ FieldType(k, "reasonCodes") = Seq(Nat) /\ o.reasonCodes \in FieldType(k, "reasonCodes")
    BY <1>1, <1>3, <1>7, NumberFields DEF PlainCall, Message
  <2>2. u \in FieldType(k, "reasonCodes")
    <3>1. v \in Seq(Nat) /\ o.reasonCodes \in Seq(Nat)
      BY <2>1
    <3>2. u \in Seq(Nat)
      BY <3>1
    <3> HIDE DEF u
    <3> QED BY <2>1, <3>2
  <2>3. SetField(k, o, f, v) = [obj |-> [o EXCEPT !["reasonCodes"] = u], dirty |-> TRUE]
    BY <1>2, <1>7 DEF UnsubackSet
  <2> HIDE DEF u
  <2>4. Setter(k, o, [obj |-> [o EXCEPT !["reasonCodes"] = u], dirty |-> TRUE])
    BY <1>0, <2>2, Assigned DEF Derived
  <2> QED BY <2>3, <2>4 DEF f, v
<1>8. CASE f = "reasonCodes" /\ k = "SUBACK"
  <2> DEFINE bad == {i \in DOMAIN v : v[i] \notin {0, 1, 2, 128}}
             n == IF bad = {} THEN Len(v) ELSE Min(bad) - 1
             t == SubSeq(v, 1, n)
             u == o.reasonCodes \o t
  <2>1. FieldType(k, "reasonCodes") = Seq(ValidSubAckReasonCode) /\ o.reasonCodes \in FieldType(k, "reasonCodes")
    BY <1>3, <1>8, NumberFields DEF Message
  <2>2. v \in Seq(Nat)
    <3>1. Seq(ValidSubAckReasonCode) \subseteq Seq(Nat)
      BY DEF ValidSubAckReasonCode
    <3> QED BY <1>1, <1>8, <2>1, <3>1 DEF PlainCall
  <2>3. n \in 0 .. Len(v) /\ \A i \in 1 .. n : v[i] \in ValidSubAckReasonCode
    <3>1. CASE bad = {}
      BY <2>2, <3>1 DEF ValidSubAckReasonCode
    <3>2. CASE bad # {}
      <4> DEFINE m == Min(bad)
      <4>0. bad \subseteq 1 .. Len(v) /\ Len(v) \in Nat
        BY <2>2
      <4>1. m \in bad /\ \A y \in bad : m <= y
        <5>1. bad \subseteq Nat
          <6> HIDE DEF bad
          <6> QED BY <4>0
        <5> HIDE DEF bad
        <5> QED BY <3>2, <5>1, MinIsLeast
      <4> HIDE DEF m
      <4>2. n = m - 1
        BY <3>2 DEF m
      <4>3. m \in 1 .. Len(v)
        BY <4>0, <4>1
      <4>4. \A i \in 1 .. m - 1 : i \notin bad /\ i \in DOMAIN v
        BY <2>2, <4>1, <4>3
      <4>5. \A i \in 1 .. m - 1 : v[i] \in {0, 1, 2, 128}
        BY <4>4
      <4>6. m - 1 \in 0 .. Len(v)
        BY <4>0, <4>3
      <4> HIDE DEF n, bad
      <4> QED BY <4>2, <4>5, <4>6 DEF ValidSubAckReasonCode
    <3> QED BY <3>1, <3>2
  <2>4. SetField(k, o, f, v) = [obj |-> [o EXCEPT !["reasonCodes"] = u], dirty |-> bad = {}]
    BY <1>2, <1>8 DEF SubackSet, AddReasonCodes
  <2> HIDE DEF n
  <2>5. t \in Seq(ValidSubAckReasonCode)
    <3>1. t = [i \in 1 .. n |-> v[i]] /\ n \in Nat
      BY <2>2, <2>3
    <3> QED BY <2>3, <3>1
  <2> HIDE DEF t
  <2>6. u \in FieldType(k, "reasonCodes")
    <3>1. o.reasonCodes \in Seq(ValidSubAckReasonCode)
      BY <2>1
    <3>2. u \in Seq(ValidSubAckReasonCode)
      BY <2>5, <3>1
    <3> HIDE DEF u
    <3> QED BY <2>1, <3>2
  <2> HIDE DEF u
  <2> DEFINE p == [o EXCEPT !["reasonCodes"] = u]
  <2>7. Setter(k, o, [obj |-> p, dirty |-> TRUE])
    BY <1>0, <2>6, Assigned DEF Derived
  <2>8. DOMAIN p = DOMAIN o /\ \A g \in DOMAIN o \ {"reasonCodes"} : p[g] = o[g]
    BY DEF Message
  <2> HIDE DEF p
  <2>9. Fresh(k, p, o)
    BY <1>8, <2>8 DEF Fresh, Unchecked
  <2>10. Setter(k, o, [obj |-> p, dirty |-> bad = {}])
    BY <2>7, <2>9 DEF Setter
  <2> QED BY <2>4, <2>10 DEF f, v, p
<1> QED BY <1>3, <1>4, <1>5, <1>6, <1>7, <1>8

\* The lists of topics, and the options of a topic.
Listed(k, list) ==
  \/ k = "SUBSCRIBE" /\ list = "subscriptions"
  \/ k = "UNSUBSCRIBE" /\ list = "topics"
Options == {"qos", "noLocal", "retainAsPub", "retainHandling"}

\* A list that a topic is taken from.
LEMMA RemoveSetter ==
  ASSUME NEW k \in AllKinds, NEW o, Message(k, o), NEW list, NEW topic, Listed(k, list)
  PROVE  Setter(k, o, RemoveTopic(o, list, topic))
<1> DEFINE S == IF k = "SUBSCRIBE" THEN Subscription ELSE TopicRecord
<1>1. FieldType(k, list) = Seq(S) /\ list \in DOMAIN New(k)
  BY NumberFields, Domains DEF Listed
<1>2. o[list] \in Seq(S)
  BY <1>1 DEF Message
<1> DEFINE i == IndexOf(o[list], topic)
           u == RemoveAt(o[list], i)
           p == [o EXCEPT ![list] = u]
<1>3. i \in 0 .. Len(o[list])
  BY <1>2, IndexInList
<1>4. i # 0 => u \in Seq(S)
  <2>1. i # 0 => i \in 1 .. Len(o[list])
    <3> DEFINE n == Len(o[list])
    <3>1. n \in Nat /\ i \in 0 .. n
      BY <1>2, <1>3
    <3> HIDE DEF n, i
    <3>2. i # 0 => i \in 1 .. n
      BY <3>1
    <3> QED BY <3>2 DEF n
  <2> HIDE DEF i
  <2> QED BY <1>2, <2>1, Removed
<1>5. RemoveTopic(o, list, topic) = [obj |-> IF i # 0 THEN p ELSE o, dirty |-> TRUE]
  BY DEF RemoveTopic, TopicExists
<1> HIDE DEF i, u
<1>6. i # 0 => Message(k, p) /\ p.remlen = o.remlen
  <2>1. "remlen" \in DOMAIN o /\ list # "remlen" /\ list \notin {"version", "protoName"}
    BY FieldsKnown DEF Message, Listed
  <2>2. p.remlen = o.remlen
    BY <2>1
  <2> HIDE DEF S
  <2>3. i # 0 => u \in FieldType(k, list)
    BY <1>1, <1>4
  <2>4. i # 0 => Message(k, p)
    BY <2>1, <2>3, SetOne
  <2> QED BY <2>2, <2>4
<1> HIDE DEF p
<1>7. Setter(k, o, [obj |-> o, dirty |-> TRUE])
  BY DEF Setter
<1>8. i # 0 => Setter(k, o, [obj |-> p, dirty |-> TRUE])
  BY <1>6 DEF Setter
<1> QED BY <1>5, <1>7, <1>8

\* A list with another element in the place of one of its own.
LEMMA Replaced ==
  ASSUME NEW S, NEW s \in Seq(S), NEW i, NEW r, i \in DOMAIN s => r \in S
  PROVE  [s EXCEPT ![i] = r] \in Seq(S)
<1>1. [s EXCEPT ![i] = r] = [j \in 1 .. Len(s) |-> IF j = i THEN r ELSE s[j]]
  OBVIOUS
<1>2. \A j \in 1 .. Len(s) : (IF j = i THEN r ELSE s[j]) \in S
  OBVIOUS
<1> DEFINE n == Len(s)
           g == [j \in 1 .. n |-> IF j = i THEN r ELSE s[j]]
<1>3. n \in Nat
  OBVIOUS
<1>4. g \in [1 .. n -> S]
  BY <1>2
<1> HIDE DEF n, g
<1>5. g \in Seq(S)
  BY <1>3, <1>4
<1> QED BY <1>1, <1>5 DEF g, n

\* An option of a topic that is set.
LEMMA OptionSetter ==
  ASSUME NEW o, Message("SUBSCRIBE", o), NEW i \in Nat, NEW v \in Nat,
         NEW f \in Options
  PROVE  LET p == [o EXCEPT !.subscriptions[i][f] = v]
         IN  Message("SUBSCRIBE", p) /\ p.remlen = o.remlen /\ (f = "qos" => Fresh("SUBSCRIBE", p, o))
<1> DEFINE p == [o EXCEPT !.subscriptions[i][f] = v]
           old == o.subscriptions
           new == [old EXCEPT ![i] = [@ EXCEPT ![f] = v]]
<1>1. old \in Seq(Subscription) /\ FieldType("SUBSCRIBE", "subscriptions") = Seq(Subscription)
  BY NumberFields, Domains DEF Message
<1>2. p = [o EXCEPT !["subscriptions"] = new]
  OBVIOUS
<1>3. new \in Seq(Subscription)
  <2>1. \A r \in Subscription : [r EXCEPT ![f] = v] \in Subscription
    BY DEF Subscription, Options
  <2>2. i \in DOMAIN old => [old[i] EXCEPT ![f] = v] \in Subscription
    BY <1>1, <2>1
  <2> DEFINE r == [old[i] EXCEPT ![f] = v]
  <2>3. new = [old EXCEPT ![i] = r]
    OBVIOUS
  <2> HIDE DEF r, old
  <2>4. [old EXCEPT ![i] = r] \in Seq(Subscription)
    <3>1. i \in DOMAIN old => r \in Subscription
      BY <2>2 DEF r
    <3> QED BY <1>1, <3>1, Replaced
  <2> QED BY <2>3, <2>4
<1>4. \A j \in DOMAIN old : [new[j] EXCEPT !["qos"] = 0] = [IF j = i THEN [old[i] EXCEPT ![f] = v] ELSE old[j] EXCEPT !["qos"] = 0]
  OBVIOUS
<1>5. DOMAIN new = DOMAIN old
  OBVIOUS
<1>6. ASSUME f = "qos"
      PROVE  [j \in DOMAIN new |-> [new[j] EXCEPT !.qos = 0]] = [j \in DOMAIN old |-> [old[j] EXCEPT !.qos = 0]]
  <2>1. \A r \in Subscription : [[r EXCEPT ![f] = v] EXCEPT !.qos = 0] = [r EXCEPT !.qos = 0]
    BY <1>6 DEF Subscription
  <2>2. \A j \in DOMAIN old : old[j] \in Subscription
    BY <1>1
  <2>3. \A j \in DOMAIN old : [new[j] EXCEPT !.qos = 0] = [old[j] EXCEPT !.qos = 0]
    <3> TAKE j \in DOMAIN old
    <3>1. CASE j = i
      <4>1. new[j] = [old[j] EXCEPT ![f] = v]
        BY <3>1
      <4> HIDE DEF new, old
      <4> QED BY <2>1, <2>2, <4>1
    <3>2. CASE j # i
      <4>1. new[j] = old[j]
        BY <3>2
      <4> HIDE DEF new, old
      <4> QED BY <4>1
    <3> QED BY <3>1, <3>2
  <2> HIDE DEF new, old
  <2> QED BY <1>5, <2>3
<1> HIDE DEF new
<1>7. Message("SUBSCRIBE", p)
  BY <1>1, <1>2, <1>3, SetOne DEF AllKinds
<1>8. DOMAIN p = DOMAIN o /\ p.subscriptions = new /\ \A g \in DOMAIN o \ {"subscriptions"} : p[g] = o[g]
  BY <1>2, Domains DEF Message
<1>9. p.remlen = o.remlen
  BY <1>8, Domains DEF Message
<1> HIDE DEF p
<1>10. f = "qos" => Subs(p) = Subs(o)
  BY <1>6, <1>8 DEF Subs
<1>11. f = "qos" => Fresh("SUBSCRIBE", p, o)
  BY <1>8, <1>10 DEF Fresh, Unchecked
<1> QED BY <1>7, <1>9, <1>11 DEF p

\* ... of SUBSCRIBE, ...
LEMMA SubscribeSetters ==
  ASSUME NEW o, Message("SUBSCRIBE", o), NEW c, GoodCall("SUBSCRIBE", c)
  PROVE  Setter("SUBSCRIBE", o, SetField("SUBSCRIBE", o, c[1], c[2]))
<1> DEFINE k == "SUBSCRIBE"
           f == c[1]
           v == c[2]
<1>0. k \in AllKinds
  BY DEF AllKinds
<1>1. SetField(k, o, f, v) = SubscribeSet(o, f, v)
  BY DEF SetField, Acks
<1>2. PlainCall(k, f, v) \/ SubscribeCall(f, v)
  BY DEF GoodCall
<1> HIDE DEF f, v
<1>3. o.subscriptions \in Seq(Subscription) /\ FieldType(k, "subscriptions") = Seq(Subscription)
  BY NumberFields, Domains DEF Message
<1>4. CASE SubscribeCall(f, v) /\ f = "AddTopic"
  <2> DEFINE i == IndexOf(o.subscriptions, v.topic)
             t == [name |-> v.topic.name, len |-> v.topic.len, qos |-> v.qos, noLocal |-> 0,
                   retainAsPub |-> 0, retainHandling |-> 0]
             u == Append(o.subscriptions, t)
             p == [o EXCEPT !.subscriptions[i]["qos"] = v.qos]
             q == [o EXCEPT !["subscriptions"] = u]
  <2>1. v.topic \in TopicRecord /\ v.qos \in Nat
    BY <1>4 DEF SubscribeCall
  <2>2. i \in Nat
    <3>1. i \in 0 .. Len(o.subscriptions)
      BY <1>3, IndexInList
    <3> HIDE DEF i
    <3> QED BY <3>1
  <2>3. t \in Subscription
    BY <2>1 DEF Subscription, TopicRecord
  <2>4. SetField(k, o, f, v) = IF i # 0 THEN [obj |-> p, dirty |-> FALSE] ELSE [obj |-> q, dirty |-> TRUE]
    BY <1>1, <1>4 DEF SubscribeSet, AddTopic, TopicExists
  <2> HIDE DEF i, t
  <2>5. u \in Seq(Subscription)
    BY <1>3, <2>3
  <2> HIDE DEF u
  <2>6. Setter(k, o, [obj |-> q, dirty |-> TRUE])
    <3>1. Message(k, q)
      BY <1>0, <1>3, <2>5, SetOne
    <3>2. q.remlen = o.remlen
      BY Domains DEF Message
    <3> HIDE DEF q
    <3> QED BY <3>1, <3>2 DEF Setter
  <2>7. Message(k, p) /\ p.remlen = o.remlen /\ Fresh(k, p, o)
    <3>1. "qos" \in Options
      BY DEF Options
    <3> DEFINE to == v.qos
    <3>2. to \in Nat
      BY <2>1
    <3> HIDE DEF to
    <3>3. LET r == [o EXCEPT !.subscriptions[i]["qos"] = to]
          IN  Message("SUBSCRIBE", r) /\ r.remlen = o.remlen /\ Fresh("SUBSCRIBE", r, o)
      BY <2>2, <3>1, <3>2, OptionSetter
    <3> QED BY <3>3 DEF to
  <2> HIDE DEF p, q
  <2>8. Setter(k, o, [obj |-> p, dirty |-> FALSE])
    BY <2>7 DEF Setter
  <2> QED BY <2>4, <2>6, <2>8 DEF f, v
<1>5. CASE SubscribeCall(f, v) /\ f = "RemoveTopic"
  <2>1. SetField(k, o, f, v) = RemoveTopic(o, "subscriptions", v.topic)
    BY <1>1, <1>5 DEF SubscribeSet
  <2> DEFINE t == v.topic
  <2> HIDE DEF t
  <2>2. Setter("SUBSCRIBE", o, RemoveTopic(o, "subscriptions", t))
    <3>1. Listed(k, "subscriptions")
      BY DEF Listed
    <3> QED BY <1>0, <3>1, RemoveSetter
  <2> QED BY <2>1, <2>2 DEF f, v, t
<1>6. CASE SubscribeCall(f, v) /\ f \in {"noLocal", "retainAsPub", "retainHandling"}
  <2> DEFINE i == IndexOf(o.subscriptions, v.topic)
             p == [o EXCEPT !.subscriptions[i][f] = v.to]
  <2>1. v.to \in Nat
    BY <1>6 DEF SubscribeCall
  <2>2. i \in Nat
    <3>1. i \in 0 .. Len(o.subscriptions)
      BY <1>3, IndexInList
    <3> HIDE DEF i
    <3> QED BY <3>1
  <2>3. SetField(k, o, f, v) = IF i # 0 THEN [obj |-> p, dirty |-> TRUE] ELSE [obj |-> o, dirty |-> FALSE]
    BY <1>1, <1>6 DEF SubscribeSet, SetOption, TopicExists
  <2>4. Message(k, p) /\ p.remlen = o.remlen
    <3>1. f \in Options
      BY <1>6 DEF Options
    <3> DEFINE to == v.to
    <3>2. to \in Nat
      BY <2>1
    <3> HIDE DEF i, to
    <3>3. LET q == [o EXCEPT !.subscriptions[i][f] = to] IN Message("SUBSCRIBE", q) /\ q.remlen = o.remlen
      BY <2>2, <3>1, <3>2, OptionSetter
    <3> QED BY <3>3 DEF to
  <2> HIDE DEF p
  <2>5. Setter(k, o, [obj |-> p, dirty |-> TRUE]) /\ Setter(k, o, [obj |-> o, dirty |-> FALSE])
    BY <2>4, FreshSame DEF Setter
  <2> QED BY <2>3, <2>5 DEF f, v
<1>7. CASE PlainCall(k, f, v)
  <2>1. f \in DOMAIN New(k) \ Derived /\ v \in FieldType(k, f)
    BY <1>7 DEF PlainCall
  <2>2. f \notin {"AddTopic", "RemoveTopic", "noLocal", "retainAsPub", "retainHandling"}
    BY <2>1, Domains
  <2>3. CASE f = "packetId"
    <3>1. v \in Nat
      BY <2>1, <2>3, PidField
    <3>2. SetField(k, o, f, v) = SetPacketId(o, v)
      BY <1>1, <2>3 DEF SubscribeSet
    <3>3. Setter(k, o, SetPacketId(o, v))
      BY <1>0, <2>1, <2>3, <3>1, Numbered
    <3> QED BY <3>2, <3>3 DEF f, v
  <2>4. CASE f = "userProperty"
    <3>1. v \in Seq(Nat) /\ f \in UserProperties
      BY <2>1, <2>4, NumberFields DEF UserProperties
    <3>2. SetField(k, o, f, v) = [obj |-> [o EXCEPT ![f] = @ \o v], dirty |-> TRUE]
      BY <1>1, <2>4 DEF SubscribeSet
    <3>3. Setter(k, o, [obj |-> [o EXCEPT ![f] = @ \o v], dirty |-> TRUE])
      BY <1>0, <3>1, Extended
    <3> QED BY <3>2, <3>3 DEF f, v
  <2>5. CASE f \notin {"packetId", "userProperty"}
    <3>1. SetField(k, o, f, v) = [obj |-> [o EXCEPT ![f] = v], dirty |-> TRUE]
      BY <1>1, <2>2, <2>5 DEF SubscribeSet
    <3>2. Setter(k, o, [obj |-> [o EXCEPT ![f] = v], dirty |-> TRUE])
      BY <1>0, <2>1, Assigned
    <3> QED BY <3>1, <3>2 DEF f, v
  <2> QED BY <2>3, <2>4, <2>5
<1> QED BY <1>2, <1>4, <1>5, <1>6, <1>7 DEF SubscribeCall

\* ... of UNSUBSCRIBE, ...
LEMMA UnsubscribeSetters ==
  ASSUME NEW o, Message("UNSUBSCRIBE", o), NEW c, GoodCall("UNSUBSCRIBE", c)
  PROVE  Setter("UNSUBSCRIBE", o, SetField("UNSUBSCRIBE", o, c[1], c[2]))
<1> DEFINE k == "UNSUBSCRIBE"
           f == c[1]
           v == c[2]
<1>0. k \in AllKinds
  BY DEF AllKinds
<1>1. SetField(k, o, f, v) = UnsubscribeSet(o, f, v)
  BY DEF SetField, Acks
<1>2. PlainCall(k, f, v) \/ UnsubscribeCall(f, v)
  BY DEF GoodCall
<1> HIDE DEF f, v
<1>3. o.topics \in Seq(TopicRecord) /\ FieldType(k, "topics") = Seq(TopicRecord)
  BY NumberFields, Domains DEF Message
<1>4. CASE UnsubscribeCall(f, v) /\ f = "AddTopic"
  <2> DEFINE u == Append(o.topics, v.topic)
             q == [o EXCEPT !["topics"] = u]
  <2>1. v.topic \in TopicRecord
    BY <1>4 DEF UnsubscribeCall
  <2>2. u \in Seq(TopicRecord)
    BY <1>3, <2>1
  <2>3. SetField(k, o, f, v) = [obj |-> o, dirty |-> FALSE] \/ SetField(k, o, f, v) = [obj |-> q, dirty |-> TRUE]
    <3>1. CASE TopicExists(o.topics, v.topic)
      BY <1>1, <1>4, <3>1 DEF UnsubscribeSet
    <3>2. CASE ~ TopicExists(o.topics, v.topic)
      BY <1>1, <1>4, <3>2 DEF UnsubscribeSet
    <3> QED BY <3>1, <3>2
  <2> HIDE DEF u
  <2>4. Setter(k, o, [obj |-> q, dirty |-> TRUE])
    <3>1. Message(k, q)
      BY <1>0, <1>3, <2>2, SetOne
    <3>2. q.remlen = o.remlen
      BY Domains DEF Message
    <3> HIDE DEF q
    <3> QED BY <3>1, <3>2 DEF Setter
  <2> HIDE DEF q
  <2>5. Setter(k, o, [obj |-> o, dirty |-> FALSE])
    BY FreshSame DEF Setter
  <2> QED BY <2>3, <2>4, <2>5 DEF f, v
<1>5. CASE UnsubscribeCall(f, v) /\ f = "RemoveTopic"
  <2>1. SetField(k, o, f, v) = RemoveTopic(o, "topics", v.topic)
    BY <1>1, <1>5 DEF UnsubscribeSet
  <2>2. Setter(k, o, RemoveTopic(o, "topics", v.topic))
    <3>1. Listed(k, "topics")
      BY DEF Listed
    <3> QED BY <1>0, <3>1, RemoveSetter
  <2> QED BY <2>1, <2>2 DEF f, v
<1>6. CASE PlainCall(k, f, v)
  <2>1. f \in DOMAIN New(k) \ Derived /\ v \in FieldType(k, f)
    BY <1>6 DEF PlainCall
  <2>2. f \in {"packetId", "userProperty"}
    BY <2>1, Domains DEF Derived
  <2>3. CASE f = "packetId"
    <3>1. v \in Nat
      BY <2>1, <2>3, PidField
    <3>2. SetField(k, o, f, v) = SetPacketId(o, v)
      BY <1>1, <2>3 DEF UnsubscribeSet
    <3>3. Setter(k, o, SetPacketId(o, v))
      BY <1>0, <2>1, <2>3, <3>1, Numbered
    <3> QED BY <3>2, <3>3 DEF f, v
  <2>4. CASE f = "userProperty"
    <3>1. v \in Seq(Nat) /\ f \in UserProperties
      BY <2>1, <2>4, NumberFields DEF UserProperties
    <3>2. SetField(k, o, f, v) = [obj |-> [o EXCEPT ![f] = @ \o v], dirty |-> TRUE]
      BY <1>1, <2>4 DEF UnsubscribeSet
    <3>3. Setter(k, o, [obj |-> [o EXCEPT ![f] = @ \o v], dirty |-> TRUE])
      BY <1>0, <3>1, Extended
    <3> QED BY <3>2, <3>3 DEF f, v
  <2> QED BY <2>2, <2>3, <2>4
<1> QED BY <1>2, <1>4, <1>5, <1>6 DEF UnsubscribeCall

\* A flag that is set or cleared.
LEMMA Flagged ==
  ASSUME NEW o, Message("CONNECT", o), NEW flag \in Flags, NEW on
  PROVE  Message("CONNECT", Flag(o, flag, on)) /\ Flag(o, flag, on).remlen = o.remlen
<1> DEFINE s == IF on THEN o.connectFlags \cup {flag} ELSE o.connectFlags \ {flag}
           p == [o EXCEPT !["connectFlags"] = s]
<1>1. FieldType("CONNECT", "connectFlags") = SUBSET Flags /\ o.connectFlags \in SUBSET Flags
  BY NumberFields, Domains DEF Message
<1>2. s \in FieldType("CONNECT", "connectFlags")
  <2>1. s \in SUBSET Flags
    BY <1>1
  <2> HIDE DEF s
  <2> QED BY <1>1, <2>1
<1>3. Flag(o, flag, on) = p
  BY DEF Flag
<1> HIDE DEF s
<1>4. Message("CONNECT", p)
  BY <1>2, SetOne DEF AllKinds
<1>5. p.remlen = o.remlen
  BY Domains DEF Message
<1> HIDE DEF p
<1> QED BY <1>3, <1>4, <1>5

\* ... and of CONNECT.
LEMMA ConnectSetters ==
  ASSUME NEW o, Message("CONNECT", o), NEW c, GoodCall("CONNECT", c)
  PROVE  Setter("CONNECT", o, SetField("CONNECT", o, c[1], c[2]))
<1> DEFINE k == "CONNECT"
           f == c[1]
           v == c[2]
           p == [o EXCEPT ![f] = v]
<1>0. k \in AllKinds
  BY DEF AllKinds
<1>1. SetField(k, o, f, v) = ConnectSet(o, f, v)
  BY DEF SetField, Acks
<1>2. PlainCall(k, f, v) \/ f \in Flags
  BY DEF GoodCall
<1> HIDE DEF f, v
<1> SUFFICES Setter(k, o, ConnectSet(o, f, v))
  BY <1>1 DEF f, v
<1>3. /\ ConnectSet(o, f, v).dirty = Supported(f, v)
      /\ ConnectSet(o, f, v).obj = IF f \in Flags \cup {"version", "willQos"} THEN SetFlags(o, f, v)
           ELSE IF f \in {"keepAlive", "clientId", "willTopic", "willMessage", "username", "password"}
           THEN SetPayload(o, f, v) ELSE SetProperty(o, f, v)
      /\ Supported(f, v) \in BOOLEAN
  BY DEF ConnectSet, Supported
<1> DEFINE r == ConnectSet(o, f, v)
<1> HIDE DEF r
<1>4. CASE f \in Flags
  <2>1. r.obj = Flag(o, f, v = 1)
    BY <1>3, <1>4 DEF r, SetFlags, Flags
  <2>2. Supported(f, v) = TRUE
    BY <1>4 DEF Flags, Supported
  <2> DEFINE on == v = 1
  <2> HIDE DEF on
  <2>3. Message(k, Flag(o, f, on)) /\ Flag(o, f, on).remlen = o.remlen
    BY <1>4, Flagged
  <2> QED BY <1>3, <2>1, <2>2, <2>3 DEF r, on, Setter
<1>5. CASE PlainCall(k, f, v) /\ f \notin Flags
  <2>1. f \in DOMAIN New(k) \ Derived /\ v \in FieldType(k, f)
    BY <1>5 DEF PlainCall
  <2>2. CASE f = "version"
    <3>1. CASE v = 5
      <4> DEFINE q == [o EXCEPT !.version = v, !.protoName = 4]
      <4>1. r.obj = q /\ r.dirty = TRUE
        BY <1>3, <2>2, <3>1 DEF r, SetFlags, Supported
      <4>2. FieldType(k, "version") = Nat /\ FieldType(k, "protoName") = Nat
        BY NumberFields DEF AllFields, OneByte, Strings, Lists, UserProperties
      <4>3. DOMAIN o = DOMAIN New(k) /\ {"version", "protoName", "remlen"} \subseteq DOMAIN o
        BY Domains DEF Message
      <4>4. q.version = 5 /\ q.protoName = 4 /\ q.remlen = o.remlen /\ DOMAIN q = DOMAIN New(k)
        BY <3>1, <4>3
      <4>5. \A g \in DOMAIN New(k) : q[g] \in FieldType(k, g)
        BY <3>1, <4>2, <4>3 DEF Message
      <4> HIDE DEF q
      <4>6. Message(k, q)
        BY <4>4, <4>5 DEF Message
      <4> QED BY <4>1, <4>4, <4>6 DEF r, Setter
    <3>2. CASE v # 5
      <4>1. r.obj = o /\ r.dirty = FALSE
        BY <1>3, <2>2, <3>2 DEF r, SetFlags, Supported
      <4> QED BY <4>1, FreshSame DEF r, Setter
    <3> QED BY <3>1, <3>2
  <2>3. CASE f # "version"
    <3>1. r.dirty = TRUE
      BY <1>3, <2>3 DEF r, Supported
    <3> SUFFICES Message(k, r.obj) /\ r.obj.remlen = o.remlen
      BY <3>1 DEF r, Setter
    <3>2. Setter(k, o, [obj |-> p, dirty |-> TRUE])
      BY <1>0, <2>1, <2>3, Assigned
    <3>3. Message(k, p) /\ p.remlen = o.remlen
      BY <3>2 DEF Setter
    <3>4. CASE f \in {"willTopic", "willMessage", "username", "password", "keepAlive", "clientId"}
      <4>1. r.obj = SetPayload(o, f, v)
        BY <1>3, <3>4 DEF r, Flags
      <4> HIDE DEF p
      <4> DEFINE on == v > 0
      <4>2. \/ r.obj = p
            \/ \E flag \in Flags : r.obj = Flag(p, flag, on)
        <5>1. CASE f = "willTopic"
          BY <4>1, <5>1 DEF SetPayload, p, Flags
        <5>2. CASE f = "willMessage"
          BY <4>1, <5>2 DEF SetPayload, p, Flags
        <5>3. CASE f = "username"
          BY <4>1, <5>3 DEF SetPayload, p, Flags
        <5>4. CASE f = "password"
          BY <4>1, <5>4 DEF SetPayload, p, Flags
        <5>5. CASE f \in {"keepAlive", "clientId"}
          BY <4>1, <5>5 DEF SetPayload, p, Flags
        <5> QED BY <3>4, <5>1, <5>2, <5>3, <5>4, <5>5
      <4> HIDE DEF on
      <4> QED BY <3>3, <4>2, Flagged
    <3>5. CASE f = "willQos"
      <4>1. r.obj = p
        BY <1>3, <3>5 DEF r, SetFlags
      <4> QED BY <3>3, <4>1
    <3>6. CASE f \in UserProperties
      <4>1. v \in Seq(Nat)
        BY <2>1, <3>6, NumberFields
      <4>2. Setter(k, o, [obj |-> [o EXCEPT ![f] = @ \o v], dirty |-> TRUE])
        BY <1>0, <3>6, <4>1, Extended
      <4>3. r.obj = [o EXCEPT ![f] = @ \o v]
        BY <1>3, <1>5, <3>6 DEF r, SetProperty, UserProperties
      <4> QED BY <4>2, <4>3 DEF Setter
    <3>7. CASE f \notin {"willTopic", "willMessage", "username", "password", "keepAlive", "clientId", "willQos"} \cup UserProperties
      <4>1. r.obj = p
        BY <1>3, <1>5, <2>3, <3>7 DEF r, SetProperty
      <4> QED BY <3>3, <4>1
    <3> QED BY <3>4, <3>5, <3>6, <3>7
  <2> QED BY <2>2, <2>3
<1> QED BY <1>2, <1>4, <1>5

\* A setter leaves a message a message.
LEMMA Setters ==
  ASSUME NEW k \in AllKinds, NEW o, Message(k, o), NEW c, GoodCall(k, c)
  PROVE  Setter(k, o, SetField(k, o, c[1], c[2]))
<1>1. CASE k = "CONNECT"
  BY <1>1, ConnectSetters
<1>2. CASE k \in {"DISCONNECT", "AUTH", "CONNACK"}
  BY <1>2, DisconnectSetters
<1>3. CASE k = "PUBLISH"
  BY <1>3, PublishSetters
<1>4. CASE k \in Acks
  BY <1>4, PubackSetters
<1>5. CASE k = "SUBSCRIBE"
  BY <1>5, SubscribeSetters
<1>6. CASE k \in {"SUBACK", "UNSUBACK"}
  BY <1>6, SubackSetters
<1>7. CASE k = "UNSUBSCRIBE"
  BY <1>7, UnsubscribeSetters
<1> QED BY <1>1, <1>2, <1>3, <1>4, <1>5, <1>6, <1>7 DEF AllKinds

-----------------------------------------------------------------------------
(* Messages to begin with *)

\* What the fields of a new message hold: a number, an empty list or no flags.
NewValue(o) ==
  \A f \in DOMAIN o : IF f \in Lists THEN o[f] = <<>> ELSE IF f = "connectFlags" THEN o[f] = {}
                      ELSE o[f] \in {0, 1, 1024}

\* The constructors make such messages.
LEMMA NewValues ==
  ASSUME NEW k \in AllKinds
  PROVE  NewValue(New(k)) /\ New(k).remlen = 0
<1>1. CASE k = "CONNECT"
  <2>1. New(k) = NewConnect
    BY <1>1 DEF New, Acks
  <2>2. NewValue(NewConnect) /\ NewConnect.remlen = 0
    BY DEF NewValue, NewConnect, Lists, UserProperties
  <2> QED BY <2>1, <2>2
<1>2. CASE k = "CONNACK"
  <2>1. New(k) = NewConnack
    BY <1>2 DEF New, Acks
  <2>2. NewValue(NewConnack) /\ NewConnack.remlen = 0
    BY DEF NewValue, NewConnack, Lists, UserProperties
  <2> QED BY <2>1, <2>2
<1>3. CASE k = "PUBLISH"
  <2>1. New(k) = NewPublish
    BY <1>3 DEF New, Acks
  <2>2. NewValue(NewPublish) /\ NewPublish.remlen = 0
    BY DEF NewValue, NewPublish, Lists, UserProperties
  <2> QED BY <2>1, <2>2
<1>4. CASE k \in Acks
  <2>1. New(k) = NewPuback
    BY <1>4 DEF New, Acks
  <2>2. NewValue(NewPuback) /\ NewPuback.remlen = 0
    BY DEF NewValue, NewPuback, Lists, UserProperties
  <2> QED BY <2>1, <2>2
<1>5. CASE k = "SUBSCRIBE"
  <2>1. New(k) = NewSubscribe
    BY <1>5 DEF New, Acks
  <2>2. NewValue(NewSubscribe) /\ NewSubscribe.remlen = 0
    BY DEF NewValue, NewSubscribe, Lists, UserProperties
  <2> QED BY <2>1, <2>2
<1>6. CASE k = "SUBACK"
  <2>1. New(k) = NewSuback
    BY <1>6 DEF New, Acks
  <2>2. NewValue(NewSuback) /\ NewSuback.remlen = 0
    BY DEF NewValue, NewSuback, Lists, UserProperties
  <2> QED BY <2>1, <2>2
<1>7. CASE k = "UNSUBSCRIBE"
  <2>1. New(k) = NewUnsubscribe
    BY <1>7 DEF New, Acks
  <2>2. NewValue(NewUnsubscribe) /\ NewUnsubscribe.remlen = 0
    BY DEF NewValue, NewUnsubscribe, Lists, UserProperties
  <2> QED BY <2>1, <2>2
<1>8. CASE k = "UNSUBACK"
  <2>1. New(k) = NewUnsuback
    BY <1>8 DEF New, Acks
  <2>2. NewValue(NewUnsuback) /\ NewUnsuback.remlen = 0
    BY DEF NewValue, NewUnsuback, NewSuback, Lists, UserProperties
  <2> QED BY <2>1, <2>2
<1>9. CASE k = "DISCONNECT"
  <2>1. New(k) = NewDisconnect
    BY <1>9 DEF New, Acks
  <2>2. NewValue(NewDisconnect) /\ NewDisconnect.remlen = 0
    BY DEF NewValue, NewDisconnect, Lists, UserProperties
  <2> QED BY <2>1, <2>2
<1>10. CASE k = "AUTH"
  <2>1. New(k) = NewAuth
    BY <1>10 DEF New, Acks
  <2>2. NewValue(NewAuth) /\ NewAuth.remlen = 0
    BY DEF NewValue, NewAuth, Lists, UserProperties
  <2> QED BY <2>1, <2>2
<1> QED BY <1>1, <1>2, <1>3, <1>4, <1>5, <1>6, <1>7, <1>8, <1>9, <1>10 DEF AllKinds

\* A new message is one.
LEMMA NewMessage ==
  ASSUME NEW k \in AllKinds
  PROVE  Message(k, New(k)) /\ New(k).remlen = 0
<1>1. NewValue(New(k)) /\ New(k).remlen = 0
  BY NewValues
<1>2. ASSUME NEW f \in DOMAIN New(k)
      PROVE  New(k)[f] \in FieldType(k, f)
  <2>1. CASE f \in Lists
    <3>1. \A S : <<>> \in Seq(S)
      OBVIOUS
    <3>2. New(k)[f] = <<>>
      BY <1>1, <2>1 DEF NewValue
    <3>3. PICK S : FieldType(k, f) = Seq(S)
      BY <2>1, Zenon DEF FieldType, Lists, UserProperties
    <3> QED BY <3>1, <3>2, <3>3
  <2>2. CASE f = "connectFlags"
    <3>1. New(k)[f] = {}
      BY <1>1, <2>2 DEF NewValue, Lists, UserProperties
    <3> QED BY <2>2, <3>1, NumberFields
  <2>4. CASE f = "receiveMaximum"
    <3>1. New(k)[f] \in Word
      BY <1>1, <2>4 DEF NewValue, Word, Lists, UserProperties
    <3> QED BY <2>4, <3>1, NumberFields
  <2>3. CASE f \notin Lists \cup {"connectFlags", "receiveMaximum"}
    <3>1. New(k)[f] \in {0, 1, 1024}
      BY <1>1, <2>3 DEF NewValue
    <3>2. f \in {"remlen"} \cup (AllFields \ (Lists \cup {"connectFlags", "receiveMaximum"}))
      BY <2>3, FieldsKnown
    <3>3. FieldType(k, f) = Nat
      BY <3>2, NumberFields
    <3> QED BY <3>1, <3>3
  <2> QED BY <2>1, <2>2, <2>3, <2>4
<1>3. k = "CONNECT" => New(k).version = 0 /\ New(k).protoName = 0
  BY DEF New, NewConnect, Acks
<1>4. k = "CONNECT" => ((New(k).version = 5) = (New(k).protoName = 4))
  <2> DEFINE a == New(k).version
             b == New(k).protoName
  <2>1. k = "CONNECT" => a = 0 /\ b = 0
    BY <1>3
  <2> HIDE DEF a, b
  <2>2. k = "CONNECT" => (a = 5) = (b = 4)
    BY <2>1
  <2> QED BY <2>2 DEF a, b
<1> QED BY <1>1, <1>2, <1>4 DEF Message

\* The messages that calls make one after the other.
Making(k, calls, n, made) ==
  made = [i \in 0 .. n |->
            IF i = 0 THEN New(k) ELSE SetField(k, made[i - 1], calls[i][1], calls[i][2]).obj]

\* There are such messages.
LEMMA MakingExists ==
  ASSUME NEW k, NEW calls, NEW n \in Nat
  PROVE  \E made : Making(k, calls, n, made)
<1> DEFINE Bad == {m \in Nat : ~ \E made : Making(k, calls, m, made)}
<1> SUFFICES ASSUME Bad # {}
             PROVE  FALSE
  OBVIOUS
<1>1. PICK m \in Bad : \A y \in Bad : m <= y
  <2>1. Bad \subseteq Nat
    OBVIOUS
  <2> HIDE DEF Bad
  <2> QED BY <2>1, LeastNumber
<1>2. m # 0
  <2> DEFINE one == [i \in 0 .. 0 |-> New(k)]
  <2>1. one = [i \in 0 .. 0 |-> IF i = 0 THEN New(k) ELSE SetField(k, one[i - 1], calls[i][1], calls[i][2]).obj]
    OBVIOUS
  <2> HIDE DEF one
  <2>2. Making(k, calls, 0, one)
    BY <2>1 DEF Making
  <2> QED BY <2>2
<1>3. m - 1 \in Nat /\ m - 1 \notin Bad
  BY <1>1, <1>2
<1>4. PICK made : Making(k, calls, m - 1, made)
  BY <1>3
<1> DEFINE step(o, i) == SetField(k, o, calls[i][1], calls[i][2]).obj
           more == [i \in 0 .. m |-> IF i = m THEN step(made[m - 1], m) ELSE made[i]]
<1> HIDE DEF step
<1>5. made = [i \in 0 .. m - 1 |-> IF i = 0 THEN New(k) ELSE step(made[i - 1], i)]
  BY <1>4, Zenon DEF Making, step
<1>6. \A i \in 0 .. m - 1 : made[i] = IF i = 0 THEN New(k) ELSE step(made[i - 1], i)
  BY <1>5
<1>7. \A i \in 0 .. m : more[i] = IF i = 0 THEN New(k) ELSE step(more[i - 1], i)
  <2> TAKE i \in 0 .. m
  <2>1. CASE i = m
    <3>1. more[m] = step(made[m - 1], m) /\ more[m - 1] = made[m - 1]
      BY <1>2, <1>3
    <3> HIDE DEF more
    <3> QED BY <1>2, <2>1, <3>1
  <2>2. CASE i # m /\ i # 0
    <3>1. i \in 0 .. m - 1 /\ i - 1 \in 0 .. m - 1 /\ i - 1 # m /\ i - 1 \in 0 .. m
      BY <2>2
    <3>2. more[i] = made[i] /\ more[i - 1] = made[i - 1]
      BY <2>2, <3>1
    <3> HIDE DEF more
    <3> QED BY <1>6, <2>2, <3>1, <3>2
  <2>3. CASE i = 0
    <3>1. more[i] = made[i] /\ i \in 0 .. m - 1
      BY <1>2, <1>3, <2>3
    <3> HIDE DEF more
    <3> QED BY <1>6, <2>3, <3>1
  <2> QED BY <2>1, <2>2, <2>3
<1>8. more = [i \in 0 .. m |-> more[i]]
  OBVIOUS
<1> HIDE DEF more
<1>9. more = [i \in 0 .. m |-> IF i = 0 THEN New(k) ELSE step(more[i - 1], i)]
  BY <1>7, <1>8
<1>10. Making(k, calls, m, more)
  BY <1>9, Zenon DEF Making, step
<1> QED BY <1>1, <1>10

\* What good calls make of a new message.
LEMMA MadeMessage ==
  ASSUME NEW k \in AllKinds, NEW calls, NEW S, calls \in Seq(S),
         \A i \in DOMAIN calls : GoodCall(k, calls[i])
  PROVE  Message(k, Made(k, calls)) /\ Made(k, calls).remlen = 0
<1> DEFINE n == Len(calls)
           made == CHOOSE made : Making(k, calls, n, made)
<1>1. n \in Nat /\ DOMAIN calls = 1 .. n
  OBVIOUS
<1>2. Made(k, calls) = made[n]
  BY Zenon DEF Made, Making
<1> HIDE DEF n, made
<1>3. Making(k, calls, n, made)
  BY <1>1, MakingExists DEF made
<1> DEFINE Good(o) == Message(k, o) /\ o.remlen = 0
           Bad == {i \in 0 .. n : ~ Good(made[i])}
<1>4. ASSUME Bad # {}
      PROVE  FALSE
  <2>1. PICK m \in Bad : \A y \in Bad : m <= y
    <3>1. Bad \subseteq Nat
      OBVIOUS
    <3> HIDE DEF Bad
    <3> QED BY <1>4, <3>1, LeastNumber
  <2>2. m \in 0 .. n /\ ~ Good(made[m])
    OBVIOUS
  <2>3. made[m] = IF m = 0 THEN New(k) ELSE SetField(k, made[m - 1], calls[m][1], calls[m][2]).obj
    <3> HIDE DEF Bad, Good
    <3> QED BY <1>3, <2>2 DEF Making
  <2>4. m # 0
    BY <2>2, <2>3, NewMessage
  <2>5. m - 1 \in 0 .. n /\ m - 1 \notin Bad /\ m \in DOMAIN calls
    BY <1>1, <2>1, <2>2, <2>4
  <2>6. Message(k, made[m - 1]) /\ made[m - 1].remlen = 0
    BY <2>5
  <2>7. Setter(k, made[m - 1], SetField(k, made[m - 1], calls[m][1], calls[m][2]))
    BY <2>5, <2>6, Setters
  <2>8. Good(made[m])
    BY <2>3, <2>4, <2>6, <2>7 DEF Setter
  <2> QED BY <2>2, <2>8
<1>5. n \in 0 .. n
  BY <1>1
<1> QED BY <1>2, <1>4, <1>5

\* A call that sets a number.
LEMMA NumberCall ==
  ASSUME NEW k \in AllKinds, NEW f, f \in DOMAIN New(k) \ Derived, f \notin Lists \cup {"receiveMaximum"}, NEW v \in Nat
  PROVE  GoodCall(k, Call(f, v))
<1>1. f \in AllFields \ (Lists \cup {"connectFlags", "receiveMaximum"})
  BY FieldsKnown DEF Derived
<1>2. v \in FieldType(k, f)
  BY <1>1, NumberFields
<1>3. Call(f, v)[1] = f /\ Call(f, v)[2] = v
  BY DEF Call
<1>4. PlainCall(k, Call(f, v)[1], Call(f, v)[2])
  BY <1>2, <1>3 DEF PlainCall
<1> QED BY <1>4 DEF GoodCall

\* A sequence of good calls.
GoodCalls(k, calls) == \E S : calls \in Seq(S) /\ \A c \in S : GoodCall(k, c)

\* A sequence over a set of good calls is one.
LEMMA GoodFrom ==
  ASSUME NEW k, NEW S, NEW s \in Seq(S), \A c \in S : GoodCall(k, c)
  PROVE  GoodCalls(k, s)
BY DEF GoodCalls

\* Tuples of good calls are such sequences.
LEMMA GoodTuples ==
  ASSUME NEW k
  PROVE  /\ GoodCalls(k, <<>>)
         /\ \A a : GoodCall(k, a) => GoodCalls(k, <<a>>)
         /\ \A a, b : GoodCall(k, a) /\ GoodCall(k, b) => GoodCalls(k, <<a, b>>)
         /\ \A a, b, c : GoodCall(k, a) /\ GoodCall(k, b) /\ GoodCall(k, c) => GoodCalls(k, <<a, b, c>>)
<1>1. GoodCalls(k, <<>>)
  <2> DEFINE s == <<>>
             S == {}
  <2>1. s \in Seq(S) /\ \A c \in S : GoodCall(k, c)
    OBVIOUS
  <2> HIDE DEF s, S
  <2>2. GoodCalls(k, s)
    BY <2>1, GoodFrom
  <2> QED BY <2>2 DEF s
<1>2. \A a : GoodCall(k, a) => GoodCalls(k, <<a>>)
  <2> SUFFICES ASSUME NEW a, GoodCall(k, a)
               PROVE  GoodCalls(k, <<a>>)
    OBVIOUS
  <2> DEFINE s == <<a>>
             S == {a}
  <2>1. s \in Seq(S) /\ \A c \in S : GoodCall(k, c)
    OBVIOUS
  <2> HIDE DEF s, S
  <2>2. GoodCalls(k, s)
    BY <2>1, GoodFrom
  <2> QED BY <2>2 DEF s
<1>3. \A a, b : GoodCall(k, a) /\ GoodCall(k, b) => GoodCalls(k, <<a, b>>)
  <2> SUFFICES ASSUME NEW a, NEW b, GoodCall(k, a), GoodCall(k, b)
               PROVE  GoodCalls(k, <<a, b>>)
    OBVIOUS
  <2> DEFINE s == <<a, b>>
             S == {a, b}
  <2>1. s \in Seq(S) /\ \A c \in S : GoodCall(k, c)
    OBVIOUS
  <2> HIDE DEF s, S
  <2>2. GoodCalls(k, s)
    BY <2>1, GoodFrom
  <2> QED BY <2>2 DEF s
<1>4. \A a, b, c : GoodCall(k, a) /\ GoodCall(k, b) /\ GoodCall(k, c) => GoodCalls(k, <<a, b, c>>)
  <2> SUFFICES ASSUME NEW a, NEW b, NEW c, GoodCall(k, a), GoodCall(k, b), GoodCall(k, c)
               PROVE  GoodCalls(k, <<a, b, c>>)
    OBVIOUS
  <2> DEFINE s == <<a, b, c>>
             S == {a, b, c}
  <2>1. s \in Seq(S) /\ \A d \in S : GoodCall(k, d)
    OBVIOUS
  <2> HIDE DEF s, S
  <2>2. GoodCalls(k, s)
    BY <2>1, GoodFrom
  <2> QED BY <2>2 DEF s
<1> QED BY <1>1, <1>2, <1>3, <1>4

\* Good calls that follow good calls.
LEMMA GoodAfterGood ==
  ASSUME NEW k, NEW s, GoodCalls(k, s), NEW t, GoodCalls(k, t)
  PROVE  GoodCalls(k, s \o t)
<1>1. PICK S : s \in Seq(S) /\ \A c \in S : GoodCall(k, c)
  BY DEF GoodCalls
<1>2. PICK T : t \in Seq(T) /\ \A c \in T : GoodCall(k, c)
  BY DEF GoodCalls
<1>3. s \in Seq(S \cup T) /\ t \in Seq(S \cup T)
  BY <1>1, <1>2
<1>4. s \o t \in Seq(S \cup T) /\ \A c \in S \cup T : GoodCall(k, c)
  BY <1>1, <1>2, <1>3
<1> QED BY <1>4 DEF GoodCalls

\* The calls that make the messages to begin with are good ones.
LEMMA TemplatesGood ==
  ASSUME NEW k \in AllKinds, NEW calls \in Templates(k)
  PROVE  GoodCalls(k, calls)
<1>1. CASE k = "CONNECT"
  <2> DEFINE plain == <<Call("version", 5), Call("clientId", 1), Call("cleanSession", 1)>>
             one == <<Call("willTopic", 1), Call("willMessage", 1), Call("username", 1)>>
             two == <<Call("password", 125), Call("authMethod", 1), Call("authData", 1)>>
             six == <<Call("willTopic", 1), Call("willMessage", 1), Call("username", 1),
                      Call("password", 125), Call("authMethod", 1), Call("authData", 1)>>
  <2>1. {"version", "clientId", "willTopic", "willMessage", "username", "password", "authMethod", "authData"}
          \subseteq DOMAIN New(k) \ (Derived \cup Lists \cup {"receiveMaximum"})
    BY <1>1, Domains DEF Derived, Lists, UserProperties
  <2>2. /\ GoodCall(k, Call("version", 5)) /\ GoodCall(k, Call("clientId", 1))
        /\ GoodCall(k, Call("willTopic", 1)) /\ GoodCall(k, Call("willMessage", 1))
        /\ GoodCall(k, Call("username", 1)) /\ GoodCall(k, Call("password", 125))
        /\ GoodCall(k, Call("authMethod", 1)) /\ GoodCall(k, Call("authData", 1))
    BY <2>1, NumberCall
  <2>3. GoodCall(k, Call("cleanSession", 1))
    BY <1>1 DEF GoodCall, Call, Flags
  <2>4. GoodCalls(k, plain) /\ GoodCalls(k, one) /\ GoodCalls(k, two)
    BY <2>2, <2>3, GoodTuples
  <2>5. calls \in {plain, plain \o six}
    BY <1>1 DEF Templates, Acks
  <2>6. six = one \o two
    OBVIOUS
  <2> HIDE DEF plain, one, two, six
  <2> QED BY <2>4, <2>5, <2>6, GoodAfterGood
<1>2. CASE k = "CONNACK"
  <2>1. calls \in {<<>>, <<Call("serverKeepAlive", 1), Call("authMethod", 1)>>}
    BY <1>2 DEF Templates, Acks
  <2>2. GoodCall(k, Call("serverKeepAlive", 1)) /\ GoodCall(k, Call("authMethod", 1))
    <3>1. {"serverKeepAlive", "authMethod"} \subseteq DOMAIN New(k) \ (Derived \cup Lists \cup {"receiveMaximum"})
      BY <1>2, Domains DEF Derived, Lists, UserProperties
    <3> QED BY <3>1, NumberCall
  <2> QED BY <2>1, <2>2, GoodTuples
<1>3. CASE k = "PUBLISH"
  <2> DEFINE one == <<Call("topic", 125), Call("qos", 1)>>
             two == <<Call("packetId", 1), Call("payload", 1)>>
             four == <<Call("topic", 125), Call("qos", 1), Call("packetId", 1), Call("payload", 1)>>
  <2>1. {"topic", "payload", "qos", "packetId"} \subseteq DOMAIN New(k) \ (Derived \cup Lists \cup {"receiveMaximum"})
    BY <1>3, Domains DEF Derived, Lists, UserProperties
  <2>2. /\ GoodCall(k, Call("topic", 125)) /\ GoodCall(k, Call("qos", 1)) /\ GoodCall(k, Call("packetId", 1))
        /\ GoodCall(k, Call("payload", 1)) /\ GoodCall(k, Call("topic", 1))
    BY <2>1, NumberCall
  <2>3. calls \in {<<Call("topic", 1), Call("payload", 1)>>, four}
    BY <1>3 DEF Templates, Acks
  <2>4. four = one \o two
    OBVIOUS
  <2>5. GoodCalls(k, one) /\ GoodCalls(k, two) /\ GoodCalls(k, <<Call("topic", 1), Call("payload", 1)>>)
    BY <2>2, GoodTuples
  <2> HIDE DEF one, two, four
  <2> QED BY <2>3, <2>4, <2>5, GoodAfterGood
<1>4. CASE k \in Acks
  <2>1. {"packetId"} \subseteq DOMAIN New(k) \ (Derived \cup Lists \cup {"receiveMaximum"}) /\ "userProperty" \in DOMAIN New(k) \ Derived
    BY <1>4, Domains DEF Derived, Lists, UserProperties
  <2>2. GoodCall(k, Call("packetId", 1))
    BY <2>1, NumberCall
  <2>3. GoodCall(k, Call("userProperty", <<1, 2>>))
    <3>1. <<1, 2>> \in FieldType(k, "userProperty")
      <4>1. <<1, 2>> \in Seq(Nat)
        OBVIOUS
      <4> QED BY <4>1, NumberFields DEF UserProperties
    <3> QED BY <2>1, <3>1 DEF GoodCall, PlainCall, Call
  <2>4. calls \in {<<Call("packetId", 1)>>, <<Call("packetId", 1), Call("userProperty", <<1, 2>>)>>}
    BY <1>4 DEF Templates, Acks
  <2> QED BY <2>2, <2>3, <2>4, GoodTuples
<1>5. CASE k = "SUBSCRIBE"
  <2> DEFINE add == Call("AddTopic", [topic |-> Topic(1, 1), qos |-> 1])
  <2>1. GoodCall(k, Call("packetId", 1))
    <3>1. {"packetId"} \subseteq DOMAIN New(k) \ (Derived \cup Lists \cup {"receiveMaximum"})
      BY <1>5, Domains DEF Derived, Lists, UserProperties
    <3> QED BY <3>1, NumberCall
  <2>2. GoodCall(k, add)
    BY <1>5 DEF GoodCall, SubscribeCall, Call, Topic, TopicRecord
  <2>3. calls \in {<<>>, <<Call("packetId", 1), add>>}
    BY <1>5 DEF Templates, Acks
  <2> HIDE DEF add
  <2> QED BY <2>1, <2>2, <2>3, GoodTuples
<1>6. CASE k \in {"SUBACK", "UNSUBACK"}
  <2>1. GoodCall(k, Call("packetId", 1))
    <3>1. {"packetId"} \subseteq DOMAIN New(k) \ (Derived \cup Lists \cup {"receiveMaximum"})
      BY <1>6, Domains DEF Derived, Lists, UserProperties
    <3> QED BY <3>1, NumberCall
  <2>2. GoodCall(k, Call("reasonCodes", <<0>>))
    <3>1. "reasonCodes" \in DOMAIN New(k) \ Derived
      BY <1>6, Domains DEF Derived
    <3>2. <<0>> \in Seq(Nat)
      OBVIOUS
    <3>3. k = "SUBACK" \/ <<0>> \in FieldType(k, "reasonCodes")
      BY <3>2, NumberFields
    <3> QED BY <3>1, <3>2, <3>3 DEF GoodCall, PlainCall, Call
  <2>3. calls \in {<<Call("packetId", 1)>>, <<Call("packetId", 1), Call("reasonCodes", <<0>>)>>}
    BY <1>6 DEF Templates, Acks
  <2> QED BY <2>1, <2>2, <2>3, GoodTuples
<1>7. CASE k = "UNSUBSCRIBE"
  <2> DEFINE add(n) == Call("AddTopic", [topic |-> Topic(n, 1)])
  <2>1. \A n \in Nat : GoodCall(k, add(n))
    BY <1>7 DEF GoodCall, UnsubscribeCall, Call, Topic, TopicRecord
  <2>2. calls \in {<<>>, [n \in 1 .. 3 |-> add(n)], [n \in 1 .. 4 |-> add(n)]}
    BY <1>7 DEF Templates, Acks
  <2> HIDE DEF add
  <2>3. ASSUME NEW m \in Nat
        PROVE  GoodCalls(k, [n \in 1 .. m |-> add(n)])
    <3> DEFINE S == {add(n) : n \in 1 .. m}
    <3>1. [n \in 1 .. m |-> add(n)] \in Seq(S)
      OBVIOUS
    <3>2. \A c \in S : GoodCall(k, c)
      BY <2>1
    <3> QED BY <3>1, <3>2 DEF GoodCalls
  <2> QED BY <2>2, <2>3, GoodTuples
<1>8. CASE k \in {"DISCONNECT", "AUTH"}
  <2>1. calls = <<>>
    BY <1>8 DEF Templates, Acks
  <2> QED BY <2>1, GoodTuples
<1> QED BY <1>1, <1>2, <1>3, <1>4, <1>5, <1>6, <1>7, <1>8 DEF AllKinds

\* The first message is one, and has no remaining length.
LEMMA FirstMessage ==
  ASSUME NEW k \in AllKinds, NEW calls \in Templates(k)
  PROVE  Message(k, Made(k, calls)) /\ Made(k, calls).remlen = 0
<1>1. PICK S : calls \in Seq(S) /\ \A c \in S : GoodCall(k, c)
  BY TemplatesGood DEF GoodCalls
<1>2. \A i \in DOMAIN calls : GoodCall(k, calls[i])
  BY <1>1
<1> QED BY <1>1, <1>2, MadeMessage

-----------------------------------------------------------------------------
(* Lengths *)

\* Six things, or fewer, make a finite set.
LEMMA SixIsFinite ==
  ASSUME NEW a, NEW b, NEW c, NEW d, NEW e, NEW f
  PROVE  IsFiniteSet({a, b, c, d, e, f})
<1>1. IsFiniteSet({a}) /\ IsFiniteSet({b}) /\ IsFiniteSet({c}) /\ IsFiniteSet({d}) /\ IsFiniteSet({e}) /\ IsFiniteSet({f})
  BY FS_Singleton
<1>2. IsFiniteSet({a} \cup {b}) /\ IsFiniteSet({c} \cup {d}) /\ IsFiniteSet({e} \cup {f})
  BY <1>1, FS_Union
<1>3. IsFiniteSet(({a} \cup {b}) \cup ({c} \cup {d}))
  BY <1>2, FS_Union
<1>4. IsFiniteSet((({a} \cup {b}) \cup ({c} \cup {d})) \cup ({e} \cup {f}))
  BY <1>2, <1>3, FS_Union
<1>5. (({a} \cup {b}) \cup ({c} \cup {d})) \cup ({e} \cup {f}) = {a, b, c, d, e, f}
  OBVIOUS
<1> QED BY <1>4, <1>5

\* There are finitely many fields.
LEMMA FieldsFinite ==
  /\ IsFiniteSet(AllFields)
  /\ \A S \in SUBSET AllFields : IsFiniteSet(S)
<1>1. IsFiniteSet(Bits \cup {"payload"})
  <2> DEFINE A == {"dup", "qos", "retain", "willQos", "payload", "payload"}
  <2>1. Bits \cup {"payload"} = A
    BY DEF Bits
  <2>2. IsFiniteSet(A)
    BY SixIsFinite
  <2> HIDE DEF A
  <2> QED BY <2>1, <2>2
<1>2. IsFiniteSet(OneByte)
  <2> DEFINE A == {"version", "connectFlags", "sessionPresent", "reasonCode", "payloadFormatIndicator", "requestRespInfo"}
             B == {"requestProblemInfo", "maxQos", "retainAvailable", "wildcardSubscriptionAvailable",
                   "subscriptionIdentifierAvailable", "sharedSubscriptionAvailable"}
  <2>1. OneByte = A \cup B
    BY DEF OneByte
  <2>2. IsFiniteSet(A) /\ IsFiniteSet(B)
    BY SixIsFinite
  <2> HIDE DEF A, B
  <2> QED BY <2>1, <2>2, FS_Union
<1>3. IsFiniteSet(TwoBytes)
  BY SixIsFinite DEF TwoBytes
<1>4. IsFiniteSet(FourBytes)
  <2>1. FourBytes = {"messageExpiryInterval", "sessionExpiryInterval", "maxPacketSize", "willDelayInterval",
                     "willMsgExpiryInterval", "willMsgExpiryInterval"}
    BY DEF FourBytes
  <2> QED BY <2>1, SixIsFinite
<1>5. IsFiniteSet(Varints)
  <2>1. Varints = {"propertiesLen", "willPropertiesLen", "subscriptionIdentifier", "subscriptionIdentifier",
                   "subscriptionIdentifier", "subscriptionIdentifier"}
    BY DEF Varints
  <2> QED BY <2>1, SixIsFinite
<1>6. IsFiniteSet(Strings)
  <2> DEFINE A == {"protoName", "topic", "clientId", "willTopic", "willMessage", "username"}
             B == {"password", "responseTopic", "correlationData", "contentType", "authMethod", "authData"}
             C == {"reasonStr", "assignedIdentifier", "responseInformation", "serverReference",
                   "serverReference", "serverReference"}
  <2>1. Strings = (A \cup B) \cup C
    BY DEF Strings
  <2>2. IsFiniteSet(A) /\ IsFiniteSet(B) /\ IsFiniteSet(C)
    BY SixIsFinite
  <2> HIDE DEF A, B, C
  <2>3. IsFiniteSet(A \cup B)
    BY <2>2, FS_Union
  <2> QED BY <2>1, <2>2, <2>3, FS_Union
<1>7. IsFiniteSet(Lists)
  <2>1. Lists = {"topics", "subscriptions", "reasonCodes", "userProperty", "willUserProperty", "willUserProperty"}
    BY DEF Lists, UserProperties
  <2> QED BY <2>1, SixIsFinite
<1>8. IsFiniteSet(OneByte \cup TwoBytes)
  BY <1>2, <1>3, FS_Union
<1>9. IsFiniteSet(FourBytes \cup Varints)
  BY <1>4, <1>5, FS_Union
<1>10. IsFiniteSet(Strings \cup Lists)
  BY <1>6, <1>7, FS_Union
<1>11. IsFiniteSet((OneByte \cup TwoBytes) \cup (FourBytes \cup Varints))
  BY <1>8, <1>9, FS_Union
<1>12. IsFiniteSet((Strings \cup Lists) \cup (Bits \cup {"payload"}))
  BY <1>1, <1>10, FS_Union
<1>13. IsFiniteSet(((OneByte \cup TwoBytes) \cup (FourBytes \cup Varints)) \cup ((Strings \cup Lists) \cup (Bits \cup {"payload"})))
  BY <1>11, <1>12, FS_Union
<1>14. AllFields = ((OneByte \cup TwoBytes) \cup (FourBytes \cup Varints)) \cup ((Strings \cup Lists) \cup (Bits \cup {"payload"}))
  BY DEF AllFields
<1>15. IsFiniteSet(AllFields)
  BY <1>13, <1>14
<1> QED BY <1>15, FS_Subset

\* Sets of fields of a message.
LEMMA Measured ==
  ASSUME NEW k \in AllKinds, NEW o, Message(k, o), NEW S, S \subseteq DOMAIN New(k) \ {"remlen"}
  PROVE  IsFiniteSet(S) /\ (\A f \in S : Size(f, o[f]) \in Nat) /\ Total(o, S) \in Nat
<1>1. S \subseteq AllFields
  BY FieldsKnown
<1>2. IsFiniteSet(S)
  BY <1>1, FieldsFinite
<1>3. \A f \in S : Size(f, o[f]) \in Nat
  <2> TAKE f \in S
  <2>1. f \in AllFields /\ o[f] \in FieldType(k, f)
    BY <1>1 DEF Message
  <2> QED BY <2>1, SizeNat
<1>4. Total(o, S) \in Nat
  <2>1. {} \cap S = {} /\ \A f \in {} \cup S : Size(f, o[f]) \in Nat
    BY <1>3
  <2>2. IsFiniteSet({})
    BY FS_EmptySet
  <2> DEFINE none == {}
  <2> HIDE DEF none
  <2>3. none \cap S = {} /\ (\A f \in none \cup S : Size(f, o[f]) \in Nat) /\ IsFiniteSet(none)
    BY <2>1, <2>2 DEF none
  <2> QED BY <1>2, <2>3, TotalUnion
<1> QED BY <1>2, <1>3, <1>4

\* The total of one field, of two sets, and of one more field.
LEMMA TotalOf ==
  ASSUME NEW k \in AllKinds, NEW o, Message(k, o), NEW S, NEW T,
         S \subseteq DOMAIN New(k) \ {"remlen"}, T \subseteq DOMAIN New(k) \ {"remlen"}, S \cap T = {}
  PROVE  Total(o, S \cup T) = Total(o, S) + Total(o, T) /\ Total(o, S) \in Nat /\ Total(o, T) \in Nat
BY Measured, TotalUnion

\* One field adds its size.
LEMMA TotalOne ==
  ASSUME NEW k \in AllKinds, NEW o, Message(k, o), NEW f \in DOMAIN New(k) \ {"remlen"}
  PROVE  Total(o, {f}) = Size(f, o[f])
<1>1. Size(f, o[f]) \in Nat
  BY Measured
<1>2. Total(o, {} \cup {f}) = Size(f, o[f]) + Total(o, {})
  BY <1>1, FS_EmptySet, TotalMore
<1>3. {} \cup {f} = {f}
  OBVIOUS
<1> QED BY <1>1, <1>2, <1>3, TotalNone

\* What build leaves: the lengths, if the packet is not too long.
LEMMA LengthsSet ==
  ASSUME NEW k \in AllKinds, NEW o, Message(k, o), NEW plen \in Nat, NEW n \in Nat
  PROVE  LET b == SetRemainingLength([o EXCEPT !.propertiesLen = plen], n)
         IN  /\ Message(k, b) /\ b.propertiesLen = plen
             /\ b.remlen = IF n <= maxRemainingLength THEN n ELSE o.remlen
             /\ \A f \in DOMAIN New(k) \ {"remlen", "propertiesLen"} : b[f] = o[f]
<1> DEFINE p == [o EXCEPT !["propertiesLen"] = plen]
           v == IF n <= maxRemainingLength THEN n ELSE o.remlen
           b == [p EXCEPT !["remlen"] = v]
<1>1. {"propertiesLen", "remlen"} \subseteq DOMAIN New(k) /\ DOMAIN o = DOMAIN New(k)
  BY FieldsKnown DEF Message
<1>2. FieldType(k, "propertiesLen") = Nat /\ FieldType(k, "remlen") = Nat
  BY NumberFields DEF AllFields, Varints, Lists, UserProperties
<1>3. v \in Nat
  BY <1>1, <1>2 DEF Message
<1> HIDE DEF v
<1>4. Message(k, p)
  BY <1>2, SetOne
<1>5. p.remlen = o.remlen /\ p.propertiesLen = plen /\ DOMAIN p = DOMAIN o
        /\ \A f \in DOMAIN New(k) \ {"remlen", "propertiesLen"} : p[f] = o[f]
  BY <1>1
<1>6. SetRemainingLength([o EXCEPT !.propertiesLen = plen], n) = b
  BY <1>5 DEF SetRemainingLength, v
<1> HIDE DEF p
<1>7. Message(k, b)
  BY <1>2, <1>3, <1>4, SetOne
<1>8. b.remlen = v /\ b.propertiesLen = plen /\ \A f \in DOMAIN New(k) \ {"remlen", "propertiesLen"} : b[f] = o[f]
  BY <1>1, <1>5
<1> HIDE DEF b
<1> QED BY <1>6, <1>7, <1>8 DEF v

\* A message that gets an identifier if it has none.
LEMMA Identifies ==
  ASSUME NEW k \in AllKinds, NEW o, Message(k, o), "packetId" \in DOMAIN New(k)
  PROVE  /\ Message(k, WithPacketId(o)) /\ WithPacketId(o).packetId # 0
         /\ \A f \in DOMAIN New(k) \ {"packetId"} : WithPacketId(o)[f] = o[f]
<1> DEFINE p == [o EXCEPT !["packetId"] = 9]
<1>1. WithPacketId(o) = IF o.packetId = 0 THEN p ELSE o
  BY DEF WithPacketId, Generated
<1>2. Message(k, p)
  BY PidField, SetOne
<1>3. DOMAIN p = DOMAIN New(k) /\ p.packetId = 9 /\ \A f \in DOMAIN New(k) \ {"packetId"} : p[f] = o[f]
  BY DEF Message
<1> HIDE DEF p
<1> QED BY <1>1, <1>2, <1>3

\* The fields of a message are numbers, but for lists and flags.
LEMMA NatFields ==
  ASSUME NEW k \in AllKinds, NEW m, Message(k, m)
  PROVE  \A f \in DOMAIN New(k) : f \notin Lists \cup {"connectFlags"} => m[f] \in Nat
<1> TAKE f \in DOMAIN New(k)
<1> SUFFICES ASSUME f \notin Lists \cup {"connectFlags"}
             PROVE  m[f] \in Nat
  OBVIOUS
<1>1. m[f] \in FieldType(k, f)
  BY DEF Message
<1>2. CASE f = "receiveMaximum"
  BY <1>1, <1>2, NumberFields DEF Word
<1>3. CASE f # "receiveMaximum"
  <2>1. f \in {"remlen"} \cup (AllFields \ (Lists \cup {"connectFlags", "receiveMaximum"}))
    BY <1>3, FieldsKnown
  <2>2. FieldType(k, f) = Nat
    BY <2>1, NumberFields
  <2> QED BY <1>1, <2>2
<1> QED BY <1>2, <1>3

-----------------------------------------------------------------------------
(* Reading back *)

\* The packet of a message in which some fields are put, and what a new message
\* becomes when it is read: the fields that were put, and what is new in the rest.
Back(k, m, put, w, o) ==
  /\ w.rem = m.remlen /\ w.twice = "" /\ w.again = "" /\ w.bytes = Total(m, put) /\ DOMAIN w.vals = put
  /\ \A f \in put \ UserProperties : w.vals[f] = m[f]
  /\ DOMAIN o = DOMAIN New(k) /\ o.remlen = m.remlen
  /\ \A f \in put \ UserProperties : o[f] = m[f]
  /\ \A f \in put \cap UserProperties : (o[f] = <<>> <=> m[f] = <<>>) /\ (Len(m[f]) % 2 # 1 => o[f] = m[f])
  /\ \A f \in DOMAIN New(k) \ (put \cup {"remlen"}) : o[f] = New(k)[f]
  /\ \A f \in DOMAIN New(k) : o[f] \in FieldType(k, f)

\* A list of user properties is written with a value for every key.
LEMMA WrittenList ==
  ASSUME NEW u \in Seq(Nat)
  PROVE  /\ writeUserProperty(u) \in Seq(Nat)
         /\ writeUserProperty(u) = <<>> <=> u = <<>>
         /\ Len(u) % 2 # 1 => writeUserProperty(u) = u
<1>1. Append(u, 0) \in Seq(Nat) /\ Append(u, 0) # <<>>
  <2>1. 0 \in Nat
    OBVIOUS
  <2>2. Append(u, 0) \in Seq(Nat) /\ Len(Append(u, 0)) = Len(u) + 1 /\ Len(u) \in Nat
    BY <2>1
  <2>3. Append(u, 0) # <<>>
    <3> DEFINE p == Append(u, 0)
    <3>1. Len(p) # 0
      BY <2>2
    <3> HIDE DEF p
    <3>2. p # <<>>
      BY <3>1
    <3> QED BY <3>2 DEF p
  <2> QED BY <2>2, <2>3
<1>2. CASE Len(u) % 2 = 1
  <2>1. u # <<>>
    <3>1. SUFFICES ASSUME u = <<>>
                   PROVE  FALSE
      OBVIOUS
    <3>2. Len(u) = 0
      BY <3>1
    <3> QED BY <1>2, <3>2
  <2>2. writeUserProperty(u) = Append(u, 0)
    BY <1>2 DEF writeUserProperty
  <2> QED BY <1>1, <1>2, <2>1, <2>2
<1>3. CASE Len(u) % 2 # 1
  <2>1. writeUserProperty(u) = u
    BY <1>3 DEF writeUserProperty
  <2> QED BY <1>3, <2>1
<1> QED BY <1>2, <1>3

\* What is read back from the packet of a message.
LEMMA ReadBack ==
  ASSUME NEW k \in AllKinds, NEW m, Message(k, m), NEW put, put \subseteq DOMAIN New(k) \ {"remlen"}
  PROVE  Back(k, m, put, Packet(Out(m, put)), Read(Packet(Out(m, put)), New(k)))
<1> DEFINE w == Packet(Out(m, put))
           o == Read(w, New(k))
<1>1. w.rem = m.remlen /\ w.twice = "" /\ w.again = "" /\ w.bytes = Total(m, put) /\ DOMAIN w.vals = put
  BY DEF Packet, Out
<1>2. \A f \in put : w.vals[f] = IF f \in UserProperties THEN writeUserProperty(m[f]) ELSE m[f]
  BY DEF Packet, Out
<1> HIDE DEF w
<1>3. /\ DOMAIN o = DOMAIN New(k)
      /\ \A f \in DOMAIN New(k) :
           o[f] = IF f = "remlen" THEN w.rem ELSE IF f \in DOMAIN w.vals THEN w.vals[f] ELSE New(k)[f]
  BY DEF Read
<1> HIDE DEF o
<1>4. "remlen" \in DOMAIN New(k) /\ "remlen" \notin UserProperties
  BY FieldsKnown DEF UserProperties
<1>5. o.remlen = m.remlen
  BY <1>1, <1>3, <1>4
<1>6. \A f \in put : o[f] = w.vals[f]
  BY <1>1, <1>3
<1>7. \A f \in DOMAIN New(k) \ (put \cup {"remlen"}) : o[f] = New(k)[f]
  BY <1>1, <1>3
<1>8. \A f \in put \cap UserProperties : m[f] \in Seq(Nat) /\ o[f] = writeUserProperty(m[f])
  <2> TAKE f \in put \cap UserProperties
  <2>1. m[f] \in FieldType(k, f) /\ f \in UserProperties
    BY DEF Message
  <2>2. FieldType(k, f) = Seq(Nat)
    BY <2>1, NumberFields
  <2> QED BY <1>2, <1>6, <2>1, <2>2
<1>9. \A f \in put \cap UserProperties :
        o[f] \in Seq(Nat) /\ (o[f] = <<>> <=> m[f] = <<>>) /\ (Len(m[f]) % 2 # 1 => o[f] = m[f])
  <2> TAKE f \in put \cap UserProperties
  <2> QED BY <1>8, WrittenList
<1>10. \A f \in DOMAIN New(k) : o[f] \in FieldType(k, f)
  <2> TAKE f \in DOMAIN New(k)
  <2>1. CASE f \in put \cap UserProperties
    BY <1>9, <2>1, NumberFields
  <2>2. CASE f \in put \ UserProperties
    BY <1>2, <1>6, <2>2 DEF Message
  <2>3. CASE f = "remlen"
    BY <1>5, <2>3 DEF Message
  <2>4. CASE f \notin put \cup {"remlen"}
    BY <1>7, <2>4, NewMessage DEF Message
  <2> QED BY <2>1, <2>2, <2>3, <2>4
<1>11. Back(k, m, put, w, o)
  BY <1>1, <1>2, <1>3, <1>5, <1>6, <1>7, <1>9, <1>10 DEF Back
<1> QED BY <1>11 DEF w, o

-----------------------------------------------------------------------------
(* Encoders *)

\* What the lengths of a message are to be when some of its fields are written.
Measures(k, m, put) ==
  LET props == {f \in put : f \in Identified \cup UserProperties}
      will == IF k = "CONNECT" THEN props \cap WillProperties ELSE {}
  IN  (~Miscounted(k, m) /\ Total(m, put) <= maxRemainingLength) =>
        /\ m.remlen = Total(m, put)
        /\ "propertiesLen" \in put => m.propertiesLen = Total(m, props \ will)
        /\ "propertiesLen" \notin put => props = {}
        /\ "willPropertiesLen" \in put => m.willPropertiesLen = Total(m, will)

\* What an encoder makes of a message.
Encoded(k, r) ==
  /\ r = Out(r.obj, r.put)
  /\ Message(k, r.obj)
  /\ r.put \subseteq DOMAIN New(k) \ {"remlen"}
  /\ Measures(k, r.obj, r.put)

\* The sizes of fields without an identifier, ...
LEMMA BareSizes ==
  ASSUME NEW f, f \notin Identified, NEW v
  PROVE  /\ f \in Bits => Size(f, v) = 0
         /\ f \in OneByte => Size(f, v) = 1
         /\ f \in TwoBytes => Size(f, v) = 2
         /\ f \in Varints => Size(f, v) = lbEncode(v)
         /\ f \in Strings /\ v \in Nat => Size(f, v) = 2 + v
         /\ f = "payload" /\ v \in Nat => Size(f, v) = v
         /\ f = "reasonCodes" /\ Len(v) \in Nat => Size(f, v) = Len(v)
<1> DEFINE id == IF f \in Identified THEN 1 ELSE 0
           n == Size(f, v)
           b == lbEncode(v)
           c == Len(v)
<1>1. id = 0
  OBVIOUS
<1>2. b \in Nat
  BY VarintSize
<1> HIDE DEF id
<1>3. f \in Bits => n = id + 0
  BY SizeByClass, Zenon DEF id
<1>4. f \in OneByte => n = id + 1
  BY SizeByClass, Zenon DEF id
<1>5. f \in TwoBytes => n = id + 2
  BY SizeByClass, Zenon DEF id
<1>6. f \in Varints => n = id + b
  BY SizeByClass, Zenon DEF id
<1>7. f \in Strings => n = id + (2 + v)
  BY SizeByClass, Zenon DEF id
<1>8. f = "payload" => n = id + v
  BY SizeByClass, Zenon DEF id
<1>9. f = "reasonCodes" => n = id + c
  <2> SUFFICES ASSUME f = "reasonCodes"
               PROVE  Size(f, v) = id + c
    OBVIOUS
  <2> USE DEF id
  <2> QED BY SizeByClass, Zenon
<1> HIDE DEF n, b, c
<1>10. /\ f \in Bits => n = 0
       /\ f \in OneByte => n = 1
       /\ f \in TwoBytes => n = 2
       /\ f \in Varints => n = b
       /\ f \in Strings /\ v \in Nat => n = 2 + v
       /\ f = "payload" /\ v \in Nat => n = v
       /\ f = "reasonCodes" /\ c \in Nat => n = c
  BY <1>1, <1>2, <1>3, <1>4, <1>5, <1>6, <1>7, <1>8, <1>9
<1> QED BY <1>10 DEF n, b, c

\* ... one by one.
LEMMA FixedSizes ==
  /\ \A v : Size("packetId", v) = 2 /\ Size("keepAlive", v) = 2
  /\ \A v : Size("reasonCode", v) = 1 /\ Size("sessionPresent", v) = 1 /\ Size("version", v) = 1
              /\ Size("connectFlags", v) = 1
  /\ \A v : Size("dup", v) = 0 /\ Size("qos", v) = 0 /\ Size("retain", v) = 0 /\ Size("willQos", v) = 0
  /\ \A v : Size("propertiesLen", v) = lbEncode(v) /\ Size("willPropertiesLen", v) = lbEncode(v)
  /\ \A v \in Nat : Size("topic", v) = 2 + v /\ Size("payload", v) = v
  /\ \A v : Len(v) \in Nat => Size("reasonCodes", v) = Len(v)
<1>1. {"packetId", "keepAlive", "reasonCode", "sessionPresent", "version", "connectFlags", "dup", "qos", "retain",
       "willQos", "propertiesLen", "willPropertiesLen", "topic", "payload", "reasonCodes"} \cap Identified = {}
  BY DEF Identified, OneByte, TwoBytes, FourBytes, Strings
<1>2. {"packetId", "keepAlive"} \subseteq TwoBytes
  BY DEF TwoBytes
<1>3. {"reasonCode", "sessionPresent", "version", "connectFlags"} \subseteq OneByte
  BY DEF OneByte
<1>4. {"dup", "qos", "retain", "willQos"} \subseteq Bits
  BY DEF Bits
<1>5. {"propertiesLen", "willPropertiesLen"} \subseteq Varints
  BY DEF Varints
<1>6. "topic" \in Strings
  BY DEF Strings
<1>7. \A v : Size("packetId", v) = 2 /\ Size("keepAlive", v) = 2
  BY <1>1, <1>2, BareSizes
<1>8. \A v : /\ Size("reasonCode", v) = 1 /\ Size("sessionPresent", v) = 1 /\ Size("version", v) = 1
             /\ Size("connectFlags", v) = 1
  BY <1>1, <1>3, BareSizes
<1>9. \A v : Size("dup", v) = 0 /\ Size("qos", v) = 0 /\ Size("retain", v) = 0 /\ Size("willQos", v) = 0
  BY <1>1, <1>4, BareSizes
<1>10. \A v : Size("propertiesLen", v) = lbEncode(v) /\ Size("willPropertiesLen", v) = lbEncode(v)
  BY <1>1, <1>5, BareSizes
<1>11. \A v \in Nat : Size("topic", v) = 2 + v /\ Size("payload", v) = v
  BY <1>1, <1>6, BareSizes
<1>12. \A v : Len(v) \in Nat => Size("reasonCodes", v) = Len(v)
  BY <1>1, BareSizes
<1> QED BY <1>7, <1>8, <1>9, <1>10, <1>11, <1>12

\* A field more.
LEMMA TotalField ==
  ASSUME NEW k \in AllKinds, NEW o, Message(k, o), NEW S, S \subseteq DOMAIN New(k) \ {"remlen"},
         NEW f \in DOMAIN New(k) \ {"remlen"}, f \notin S
  PROVE  Total(o, S \cup {f}) = Total(o, S) + Size(f, o[f])
<1>1. Size(f, o[f]) \in Nat /\ (\A g \in S : Size(g, o[g]) \in Nat) /\ IsFiniteSet(S)
  BY Measured
<1>2. Total(o, S \cup {f}) = Size(f, o[f]) + Total(o, S) /\ Total(o, S) \in Nat
  BY <1>1, TotalMore
<1> QED BY <1>1, <1>2

\* The lengths of a packet: its properties, their length, and the rest.
LEMMA PlainLengths ==
  ASSUME NEW k \in AllKinds, k # "CONNECT", NEW m, Message(k, m), NEW P, NEW X,
         P \subseteq DOMAIN New(k) \ {"remlen", "propertiesLen"},
         X \subseteq DOMAIN New(k) \ {"remlen", "propertiesLen"},
         P \subseteq Identified \cup UserProperties, X \cap (Identified \cup UserProperties) = {},
         m.propertiesLen = Total(m, P),
         NEW n \in Nat, n = Total(m, P) + lbEncode(Total(m, P)) + Total(m, X),
         n <= maxRemainingLength => m.remlen = n
  PROVE  Measures(k, m, P \cup {"propertiesLen"} \cup X) /\ Total(m, P \cup {"propertiesLen"} \cup X) = n
<1> DEFINE put == P \cup {"propertiesLen"} \cup X
           a == Total(m, P)
           b == lbEncode(a)
           c == Total(m, X)
           t == Total(m, put)
<1>1. P \cap X = {} /\ "propertiesLen" \in DOMAIN New(k) /\ "propertiesLen" \notin Identified \cup UserProperties
  BY FieldsKnown DEF Identified, OneByte, TwoBytes, FourBytes, Strings, UserProperties
<1>2. Total(m, P \cup X) = a + c /\ a \in Nat /\ c \in Nat
  BY <1>1, TotalOf
<1>3. put = (P \cup X) \cup {"propertiesLen"} /\ P \cup X \subseteq DOMAIN New(k) \ {"remlen", "propertiesLen"}
  OBVIOUS
<1>4. Total(m, (P \cup X) \cup {"propertiesLen"}) = Total(m, P \cup X) + Size("propertiesLen", m["propertiesLen"])
  <2> DEFINE S == P \cup X
             f == "propertiesLen"
  <2>1. S \subseteq DOMAIN New(k) \ {"remlen"} /\ f \in DOMAIN New(k) \ {"remlen"} /\ f \notin S
    BY <1>1, <1>3
  <2> HIDE DEF S, f
  <2>2. Total(m, S \cup {f}) = Total(m, S) + Size(f, m[f])
    BY <2>1, TotalField
  <2> QED BY <2>2 DEF S, f
<1>5. Size("propertiesLen", m["propertiesLen"]) = b
  BY FixedSizes
<1>6. b \in Nat
  BY VarintSize
<1>7. {f \in put : f \in Identified \cup UserProperties} = P
  BY <1>1
<1>8. n = a + b + c
  OBVIOUS
<1>9. t = (a + c) + b
  BY <1>2, <1>3, <1>4, <1>5
<1>10. "propertiesLen" \in put
  OBVIOUS
<1>11. "willPropertiesLen" \notin put
  <2>1. "willPropertiesLen" \notin DOMAIN New(k)
    BY Domains DEF AllKinds
  <2> QED BY <1>1, <2>1
<1> HIDE DEF put, a, b, c, t
<1>12. t = n
  BY <1>2, <1>6, <1>8, <1>9
<1>13. m.remlen = t \/ ~ (t <= maxRemainingLength)
  BY <1>12
<1>14. Measures(k, m, put)
  <2>1. P \ {} = P
    OBVIOUS
  <2> QED BY <1>7, <1>10, <1>11, <1>13, <2>1 DEF Measures, a, t
<1> QED BY <1>12, <1>14 DEF put, t

\* What build leaves of a message whose properties are P, ...
Builds(k, o, P, n, b) ==
  /\ Message(k, b) /\ b.propertiesLen = Total(o, P) /\ Total(b, P) = Total(o, P) /\ Total(o, P) \in Nat
  /\ b.remlen = IF n <= maxRemainingLength THEN n ELSE o.remlen
  /\ \A f \in DOMAIN New(k) \ {"remlen", "propertiesLen"} : b[f] = o[f]

\* ... of any message.
LEMMA Built ==
  ASSUME NEW k \in AllKinds, NEW o, Message(k, o), NEW P,
         P \subseteq DOMAIN New(k) \ {"remlen", "propertiesLen"}, NEW n \in Nat
  PROVE  Builds(k, o, P, n, SetRemainingLength([o EXCEPT !.propertiesLen = Total(o, P)], n))
<1> DEFINE plen == Total(o, P)
           b == SetRemainingLength([o EXCEPT !.propertiesLen = plen], n)
<1>1. plen \in Nat
  BY Measured
<1> HIDE DEF plen
<1>2. /\ Message(k, b) /\ b.propertiesLen = plen
      /\ b.remlen = IF n <= maxRemainingLength THEN n ELSE o.remlen
      /\ \A f \in DOMAIN New(k) \ {"remlen", "propertiesLen"} : b[f] = o[f]
  BY <1>1, LengthsSet
<1> HIDE DEF b
<1>3. Total(b, P) = Total(o, P)
  <2>1. \A f \in P : b[f] = o[f]
    BY <1>2
  <2> QED BY <2>1, TotalAgree
<1>4. Builds(k, o, P, n, b)
  BY <1>1, <1>2, <1>3 DEF Builds, plen
<1> QED BY <1>4 DEF b, plen

\* ... and what is encoded then: the properties, their length, and the rest.
LEMMA Shaped ==
  ASSUME NEW k \in AllKinds, k # "CONNECT", NEW o, NEW P, NEW X, "packetId" \notin P,
         P \subseteq DOMAIN New(k) \ {"remlen", "propertiesLen"},
         X \subseteq DOMAIN New(k) \ {"remlen", "propertiesLen"},
         P \subseteq Identified \cup UserProperties, X \cap (Identified \cup UserProperties) = {},
         NEW x \in Nat, NEW n \in Nat, n = Total(o, P) + lbEncode(Total(o, P)) + x,
         NEW b, Builds(k, o, P, n, b),
         NEW m, Message(k, m), \A f \in DOMAIN New(k) \ {"packetId"} : m[f] = b[f], Total(m, X) = x
  PROVE  Encoded(k, Out(m, P \cup {"propertiesLen"} \cup X))
<1> DEFINE put == P \cup {"propertiesLen"} \cup X
           r == Out(m, put)
<1>1. "propertiesLen" \in DOMAIN New(k) /\ "remlen" \in DOMAIN New(k)
  BY FieldsKnown
<1>2. m.propertiesLen = Total(o, P) /\ (n <= maxRemainingLength => m.remlen = n) /\ Total(m, P) = Total(o, P)
  <2>1. \A f \in P : m[f] = b[f]
    OBVIOUS
  <2>2. Total(m, P) = Total(b, P)
    BY <2>1, TotalAgree
  <2> QED BY <1>1, <2>2 DEF Builds
<1>3. n = Total(m, P) + lbEncode(Total(m, P)) + Total(m, X)
  BY <1>2
<1>4. Measures(k, m, put)
  BY <1>2, <1>3, PlainLengths
<1>5. r = Out(r.obj, r.put) /\ r.obj = m /\ r.put = put
  BY DEF Out
<1>6. put \subseteq DOMAIN New(k) \ {"remlen"}
  BY <1>1
<1> HIDE DEF r, put
<1>7. Encoded(k, r)
  BY <1>4, <1>5, <1>6 DEF Encoded
<1> QED BY <1>7 DEF r, put

-----------------------------------------------------------------------------
(* SUBSCRIBE *)

SubscribePut(m) == {"packetId", "propertiesLen", "userProperty", "subscriptions"} \cup Written(m)

\* The encoders of SUBSCRIBE.
LEMMA SubscribeEncoded ==
  ASSUME NEW o, Message("SUBSCRIBE", o)
  PROVE  LET r == Encode("SUBSCRIBE", o)
         IN  Encoded("SUBSCRIBE", r) /\ r.put = SubscribePut(r.obj) /\ EncodeToBuf("SUBSCRIBE", o) = r
<1> DEFINE k == "SUBSCRIBE"
           P == {"userProperty"} \cup Written(o)
           X == {"subscriptions"} \cup {"packetId"}
           plen == Total(o, P)
           L == lbEncode(plen)
           s == Total(o, {"subscriptions"})
           n == 2 + plen + L + s
           b == SubscribeBuild(o)
           m == WithPacketId(b)
           put == SubscribePut(m)
           r == Encode("SUBSCRIBE", o)
<1>0. k \in AllKinds /\ k # "CONNECT" /\ k # "CONNACK"
  BY DEF AllKinds
<1>1. /\ P \subseteq DOMAIN New(k) \ {"remlen", "propertiesLen"} /\ X \subseteq DOMAIN New(k) \ {"remlen", "propertiesLen"}
      /\ "packetId" \in DOMAIN New(k) /\ "packetId" \notin P
      /\ {"subscriptions"} \subseteq DOMAIN New(k) \ {"remlen"} /\ "packetId" \notin {"subscriptions"}
      /\ "subscriptionIdentifier" \in DOMAIN New(k)
  BY Domains DEF Written
<1>2. /\ P \subseteq Identified \cup UserProperties /\ X \cap (Identified \cup UserProperties) = {}
  BY DEF Written, Identified, OneByte, TwoBytes, FourBytes, Strings, UserProperties
<1>3. plen \in Nat /\ s \in Nat /\ L \in Nat
  BY <1>0, <1>1, Measured, VarintSize
<1>4. n \in Nat
  <2> HIDE DEF plen, s, L
  <2> QED BY <1>3
<1>5. b = SetRemainingLength([o EXCEPT !.propertiesLen = Total(o, P)], n)
  BY DEF SubscribeBuild
<1> HIDE DEF k, P, X, plen, s, n, b, L
<1>6. Builds(k, o, P, n, b)
  BY <1>0, <1>1, <1>4, <1>5, Built DEF k
<1>7. Message(k, m) /\ \A f \in DOMAIN New(k) \ {"packetId"} : m[f] = b[f]
  BY <1>0, <1>1, <1>6, Identifies DEF Builds
<1> HIDE DEF m
<1>8. "propertiesLen" \in DOMAIN New(k) /\ "remlen" \in DOMAIN New(k)
  BY <1>0, FieldsKnown
<1>10. Total(m, X) = s + 2
  <2>1. \A f \in {"subscriptions"} : m[f] = o[f]
    BY <1>1, <1>6, <1>7 DEF Builds
  <2>2. Total(m, {"subscriptions"}) = s
    BY <2>1, TotalAgree DEF s
  <2>3. Total(m, {"subscriptions"} \cup {"packetId"}) = Total(m, {"subscriptions"}) + Size("packetId", m["packetId"])
    BY <1>0, <1>1, <1>7, TotalField
  <2>4. Size("packetId", m["packetId"]) = 2
    BY FixedSizes
  <2> QED BY <2>2, <2>3, <2>4 DEF X
<1>11. n = plen + L + (s + 2) /\ s + 2 \in Nat
  BY <1>3 DEF n
<1>12. Encoded(k, Out(m, P \cup {"propertiesLen"} \cup X))
  BY <1>0, <1>1, <1>2, <1>4, <1>6, <1>7, <1>10, <1>11, Shaped DEF plen, L
<1>13. Written(b) = Written(o) /\ Written(m) = Written(o)
  BY <1>1, <1>6, <1>7 DEF Builds, Written
<1>14. put = P \cup {"propertiesLen"} \cup X
  BY <1>13 DEF P, X, SubscribePut
<1>15. r = Out(m, put)
  <2>1. r = SubscribeEncode(b)
    BY DEF Encode, Acks, b
  <2>2. put = {"packetId", "propertiesLen", "userProperty", "subscriptions"} \cup Written(b)
    BY <1>13 DEF SubscribePut
  <2> HIDE DEF r, put
  <2> QED BY <2>1, <2>2 DEF SubscribeEncode, m
<1>16. EncodeToBuf("SUBSCRIBE", o) = Out(m, put)
  <2>1. EncodeToBuf("SUBSCRIBE", o) = SubscribeEncodeToBuf(b)
    BY DEF EncodeToBuf, Acks, b
  <2>2. put = DOMAIN b \ ({"remlen"} \cup ({"subscriptionIdentifier"} \ Written(b)))
    <3>1. DOMAIN b = {"remlen", "packetId", "propertiesLen", "subscriptionIdentifier", "userProperty", "subscriptions"}
      BY <1>6, Domains DEF Builds, Message, k
    <3>2. Written(b) \subseteq {"subscriptionIdentifier"}
      BY DEF Written
    <3> QED BY <1>13, <3>1, <3>2 DEF SubscribePut
  <2> HIDE DEF put
  <2> QED BY <2>1, <2>2 DEF SubscribeEncodeToBuf, m
<1> HIDE DEF r, put
<1>17. r.obj = m /\ r.put = put
  BY <1>15 DEF Out
<1>18. Encoded(k, r)
  BY <1>12, <1>14, <1>15
<1> QED BY <1>15, <1>16, <1>17, <1>18 DEF r, k, put

-----------------------------------------------------------------------------
(* SUBACK and UNSUBACK *)

\* The codes of a SUBACK are those it allows.
LEMMA SubackCodes ==
  ASSUME NEW o, Message("SUBACK", o)
  PROVE  /\ Range(o.reasonCodes) \subseteq ValidSubAckReasonCode
         /\ ~ \E i \in DOMAIN o.reasonCodes : o.reasonCodes[i] \notin ValidSubAckReasonCode
<1>1. o.reasonCodes \in Seq(ValidSubAckReasonCode)
  BY NumberFields, Domains DEF Message
<1>2. \A i \in DOMAIN o.reasonCodes : o.reasonCodes[i] \in ValidSubAckReasonCode
  BY <1>1
<1> QED BY <1>2 DEF Range

\* The encoders of SUBACK and UNSUBACK.
LEMMA SubackEncoded ==
  ASSUME NEW k \in {"SUBACK", "UNSUBACK"}, NEW o, Message(k, o)
  PROVE  LET r == Encode(k, o)
         IN  Encoded(k, r) /\ r.put = AckFields(r.obj) /\ EncodeToBuf(k, o) = r
<1> DEFINE P == {"userProperty"} \cup NonZero(o, {"reasonStr"})
           X == {"reasonCodes"} \cup {"packetId"}
           plen == Total(o, P)
           L == lbEncode(plen)
           s == Len(o.reasonCodes)
           n == 2 + plen + L + s
           b == IF k = "SUBACK" THEN SubackBuild(o) ELSE UnsubackBuild(o)
           put == AckFields(b)
           r == Encode(k, o)
<1>0. k \in AllKinds /\ k # "CONNECT"
  BY DEF AllKinds
<1>1. /\ P \subseteq DOMAIN New(k) \ {"remlen", "propertiesLen"} /\ X \subseteq DOMAIN New(k) \ {"remlen", "propertiesLen"}
      /\ "packetId" \in DOMAIN New(k) /\ "packetId" \notin P
      /\ {"reasonCodes"} \subseteq DOMAIN New(k) \ {"remlen"} /\ "packetId" \notin {"reasonCodes"}
      /\ "reasonStr" \in DOMAIN New(k) /\ "reasonCodes" \in DOMAIN New(k)
  BY Domains DEF NonZero
<1>2. /\ P \subseteq Identified \cup UserProperties /\ X \cap (Identified \cup UserProperties) = {}
  BY DEF NonZero, Identified, OneByte, TwoBytes, FourBytes, Strings, UserProperties
<1>3. plen \in Nat /\ s \in Nat /\ L \in Nat
  <2>1. plen \in Nat /\ L \in Nat
    BY <1>0, <1>1, Measured, VarintSize
  <2>2. s \in Nat
    <3>1. PICK S : FieldType(k, "reasonCodes") = Seq(S)
      BY NumberFields
    <3>2. o.reasonCodes \in Seq(S)
      BY <1>1, <3>1 DEF Message
    <3> QED BY <3>2
  <2> QED BY <2>1, <2>2
<1>4. n \in Nat
  <2> HIDE DEF plen, s, L
  <2> QED BY <1>3
<1>5. b = SetRemainingLength([o EXCEPT !.propertiesLen = Total(o, P)], n)
  <2>1. P = {"userProperty", "reasonStr"} \ (IF o.reasonStr = 0 THEN {"reasonStr"} ELSE {})
    BY DEF NonZero
  <2>2. CASE k = "SUBACK"
    BY <2>2 DEF SubackBuild
  <2>3. CASE k # "SUBACK"
    <3> DEFINE Q == {"userProperty", "reasonStr"} \ (IF o.reasonStr = 0 THEN {"reasonStr"} ELSE {})
               c == UnsubackBuild(o)
    <3>1. c = SetRemainingLength([o EXCEPT !.propertiesLen = Total(o, Q)], 2 + Total(o, Q) + lbEncode(Total(o, Q)) + s)
      BY DEF UnsubackBuild
    <3>2. P = Q
      BY <2>1
    <3>3. b = c
      BY <2>3
    <3> HIDE DEF P, Q, b, c
    <3> QED BY <3>1, <3>2, <3>3
  <2> QED BY <2>2, <2>3
<1> HIDE DEF P, X, plen, s, n, b, L
<1>6. Builds(k, o, P, n, b)
  BY <1>0, <1>1, <1>4, <1>5, Built
<1>7. b.reasonCodes = o.reasonCodes /\ b.reasonStr = o.reasonStr /\ Message(k, b)
  BY <1>1, <1>6 DEF Builds
<1>10. Total(b, X) = s + 2
  <2>1. \A f \in {"reasonCodes"} : b[f] = o[f]
    BY <1>7
  <2>2. Total(b, {"reasonCodes"}) = s
    <3>1. Total(b, {"reasonCodes"}) = Size("reasonCodes", b["reasonCodes"])
      BY <1>0, <1>1, <1>7, TotalOne
    <3>2. Len(b.reasonCodes) = s
      BY <1>7 DEF s
    <3> QED BY <1>3, <3>1, <3>2, FixedSizes
  <2>3. Total(b, {"reasonCodes"} \cup {"packetId"}) = Total(b, {"reasonCodes"}) + Size("packetId", b["packetId"])
    BY <1>0, <1>1, <1>7, TotalField
  <2>4. Size("packetId", b["packetId"]) = 2
    BY FixedSizes
  <2> QED BY <2>2, <2>3, <2>4 DEF X
<1>11. n = plen + L + (s + 2) /\ s + 2 \in Nat
  BY <1>3 DEF n
<1>12. Encoded(k, Out(b, P \cup {"propertiesLen"} \cup X))
  BY <1>0, <1>1, <1>2, <1>4, <1>6, <1>7, <1>10, <1>11, Shaped DEF plen, L
<1>14. put = P \cup {"propertiesLen"} \cup X
  BY <1>7 DEF P, X, AckFields, NonZero
<1>15. r = Out(b, put) /\ EncodeToBuf(k, o) = Out(b, put)
  <2>1. CASE k = "SUBACK"
    <3>1. r = SubackEncode(b) /\ EncodeToBuf(k, o) = SubackEncodeToBuf(b)
      BY <2>1 DEF Encode, EncodeToBuf, Acks, b
    <3>2. /\ Range(b.reasonCodes) \subseteq ValidSubAckReasonCode
          /\ ~ \E i \in DOMAIN b.reasonCodes : b.reasonCodes[i] \notin ValidSubAckReasonCode
      BY <1>7, <2>1, SubackCodes
    <3> HIDE DEF r
    <3> QED BY <3>1, <3>2 DEF SubackEncode, SubackEncodeToBuf
  <2>2. CASE k = "UNSUBACK"
    <3>1. r = UnsubackEncode(b) /\ EncodeToBuf(k, o) = UnsubackEncodeToBuf(b)
      BY <2>2 DEF Encode, EncodeToBuf, Acks, b
    <3> HIDE DEF r
    <3> QED BY <3>1 DEF UnsubackEncode, UnsubackEncodeToBuf
  <2> QED BY <2>1, <2>2
<1> HIDE DEF r, put
<1>17. r.obj = b /\ r.put = put
  BY <1>15 DEF Out
<1>18. Encoded(k, r)
  BY <1>12, <1>14, <1>15
<1> QED BY <1>15, <1>17, <1>18 DEF r, put

-----------------------------------------------------------------------------
(* UNSUBSCRIBE *)

UnsubscribePut == {"packetId", "propertiesLen", "userProperty", "topics"}

\* The encoders of UNSUBSCRIBE.
LEMMA UnsubscribeEncoded ==
  ASSUME NEW o, Message("UNSUBSCRIBE", o)
  PROVE  LET r == Encode("UNSUBSCRIBE", o)
         IN  Encoded("UNSUBSCRIBE", r) /\ r.put = UnsubscribePut /\ EncodeToBuf("UNSUBSCRIBE", o) = r
<1> DEFINE k == "UNSUBSCRIBE"
           P == {"userProperty"}
           X == {"topics"} \cup {"packetId"}
           plen == Total(o, P)
           L == lbEncode(plen)
           s == Total(o, {"topics"})
           n == plen + 2 + s + L
           b == UnsubscribeBuild(o)
           m == WithPacketId(b)
           put == UnsubscribePut
           r == Encode("UNSUBSCRIBE", o)
<1>0. k \in AllKinds /\ k # "CONNECT"
  BY DEF AllKinds
<1>1. /\ P \subseteq DOMAIN New(k) \ {"remlen", "propertiesLen"} /\ X \subseteq DOMAIN New(k) \ {"remlen", "propertiesLen"}
      /\ "packetId" \in DOMAIN New(k) /\ "packetId" \notin P
      /\ {"topics"} \subseteq DOMAIN New(k) \ {"remlen"} /\ "packetId" \notin {"topics"}
  BY Domains
<1>2. /\ P \subseteq Identified \cup UserProperties /\ X \cap (Identified \cup UserProperties) = {}
  BY DEF Identified, OneByte, TwoBytes, FourBytes, Strings, UserProperties
<1>3. plen \in Nat /\ s \in Nat /\ L \in Nat
  BY <1>0, <1>1, Measured, VarintSize
<1>4. n \in Nat
  <2> HIDE DEF plen, s, L
  <2> QED BY <1>3
<1>5. b = SetRemainingLength([o EXCEPT !.propertiesLen = Total(o, P)], n)
  BY DEF UnsubscribeBuild
<1> HIDE DEF k, P, X, plen, s, n, b, L
<1>6. Builds(k, o, P, n, b)
  BY <1>0, <1>1, <1>4, <1>5, Built DEF k
<1>7. Message(k, m) /\ \A f \in DOMAIN New(k) \ {"packetId"} : m[f] = b[f]
  BY <1>0, <1>1, <1>6, Identifies DEF Builds
<1> HIDE DEF m
<1>10. Total(m, X) = s + 2
  <2>1. \A f \in {"topics"} : m[f] = o[f]
    BY <1>1, <1>6, <1>7 DEF Builds, X
  <2>2. Total(m, {"topics"}) = s
    BY <2>1, TotalAgree DEF s
  <2>3. Total(m, {"topics"} \cup {"packetId"}) = Total(m, {"topics"}) + Size("packetId", m["packetId"])
    BY <1>0, <1>1, <1>7, TotalField
  <2>4. Size("packetId", m["packetId"]) = 2
    BY FixedSizes
  <2> QED BY <2>2, <2>3, <2>4 DEF X
<1>11. n = plen + L + (s + 2) /\ s + 2 \in Nat
  BY <1>3 DEF n
<1>12. Encoded(k, Out(m, P \cup {"propertiesLen"} \cup X))
  BY <1>0, <1>1, <1>2, <1>4, <1>6, <1>7, <1>10, <1>11, Shaped DEF plen, L
<1>14. put = P \cup {"propertiesLen"} \cup X
  BY DEF P, X, UnsubscribePut
<1>15. r = Out(m, put)
  <2>1. r = UnsubscribeEncode(b)
    BY DEF Encode, Acks, b
  <2> HIDE DEF r
  <2> QED BY <2>1 DEF UnsubscribeEncode, m, UnsubscribePut
<1>16. EncodeToBuf("UNSUBSCRIBE", o) = Out(m, put)
  <2>1. EncodeToBuf("UNSUBSCRIBE", o) = UnsubscribeEncodeToBuf(b)
    BY DEF EncodeToBuf, Acks, b
  <2>2. put = DOMAIN m \ {"remlen"}
    <3>1. DOMAIN m = {"remlen", "packetId", "propertiesLen", "userProperty", "topics"}
      BY <1>7, Domains DEF Message, k
    <3> QED BY <3>1 DEF UnsubscribePut
  <2> HIDE DEF put
  <2> QED BY <2>1, <2>2 DEF UnsubscribeEncodeToBuf, m
<1> HIDE DEF r, put
<1>17. r.obj = m /\ r.put = put
  BY <1>15 DEF Out
<1>18. Encoded(k, r)
  BY <1>12, <1>14, <1>15
<1> QED BY <1>15, <1>16, <1>17, <1>18 DEF r, k, put

-----------------------------------------------------------------------------
(* PUBACK, PUBREC, PUBREL and PUBCOMP *)

\* Fields that take no bytes together take none each.
LEMMA TotalZero ==
  ASSUME NEW k \in AllKinds, NEW o, Message(k, o), NEW S, S \subseteq DOMAIN New(k) \ {"remlen"},
         Total(o, S) = 0, NEW f \in S
  PROVE  Size(f, o[f]) = 0
<1> DEFINE T == S \ {f}
<1>1. T \subseteq DOMAIN New(k) \ {"remlen"} /\ f \notin T /\ S = T \cup {f}
  OBVIOUS
<1>2. Size(f, o[f]) \in Nat /\ Total(o, T) \in Nat
  BY Measured
<1> HIDE DEF T
<1>3. Total(o, T \cup {f}) = Total(o, T) + Size(f, o[f])
  BY <1>1, TotalField
<1>4. Total(o, T \cup {f}) = 0
  BY <1>1
<1> QED BY <1>2, <1>3, <1>4

\* A string that is a property takes bytes, and so does a list of user properties
\* that is not empty.
LEMMA PropertySizes ==
  ASSUME NEW f \in Identified \cup UserProperties, NEW v
  PROVE  /\ f \in Strings /\ v \in Nat => Size(f, v) # 0
         /\ f \in UserProperties /\ v \in Seq(Nat) => (Size(f, v) = 0 <=> v = <<>>)
<1>1. ASSUME f \in Strings, v \in Nat
      PROVE  Size(f, v) # 0
  <2> DEFINE id == IF f \in Identified THEN 1 ELSE 0
  <2>1. Size(f, v) = id + (2 + v)
    BY <1>1, SizeByClass, Zenon DEF id
  <2>2. id \in Nat
    OBVIOUS
  <2> HIDE DEF id
  <2> QED BY <1>1, <2>1, <2>2
<1>2. ASSUME f \in UserProperties, v \in Seq(Nat)
      PROVE  Size(f, v) = 0 <=> v = <<>>
  <2> DEFINE id == IF f \in Identified THEN 1 ELSE 0
             u == buildUserPropertyLen(v)
  <2>1. Size(f, v) = id + u
    BY <1>2, SizeByClass, Zenon DEF id
  <2>2. id = 0
    BY <1>2 DEF UserProperties, Identified, OneByte, TwoBytes, FourBytes, Strings
  <2>3. u \in Nat /\ (v # <<>> <=> u # 0)
    BY <1>2, UserPropertyLength
  <2> HIDE DEF id, u
  <2>4. Size(f, v) = u
    BY <2>1, <2>2, <2>3
  <2> QED BY <2>3, <2>4
<1> QED BY <1>1, <1>2

\* A message whose properties take no bytes has none.
LEMMA PropertiesGone ==
  ASSUME NEW k \in {"PUBACK", "PUBREC", "PUBREL", "PUBCOMP", "AUTH"}, NEW m, Message(k, m), NEW S,
         S \subseteq {"reasonStr", "authMethod", "authData"},
         S \cup {"userProperty"} \subseteq DOMAIN New(k),
         Total(m, {"userProperty"} \cup NonZero(m, S)) = 0
  PROVE  m.userProperty = <<>> /\ \A f \in S : m[f] = 0
<1> DEFINE P == {"userProperty"} \cup NonZero(m, S)
<1>0. k \in AllKinds
  BY DEF AllKinds, Acks
<1>1. P \subseteq DOMAIN New(k) \ {"remlen"} /\ P \subseteq Identified \cup UserProperties
  BY DEF NonZero, Identified, Strings, UserProperties
<1>2. \A f \in P : Size(f, m[f]) = 0
  BY <1>0, <1>1, TotalZero
<1>3. m.userProperty = <<>>
  <2>1. m.userProperty \in Seq(Nat) /\ "userProperty" \in UserProperties
    BY NumberFields DEF Message, UserProperties
  <2>2. Size("userProperty", m["userProperty"]) = 0
    BY <1>2
  <2> QED BY <2>1, <2>2, PropertySizes
<1>4. ASSUME NEW f \in S, m[f] # 0
      PROVE  FALSE
  <2>1. f \in P /\ f \in Strings /\ f \in AllFields \ (Lists \cup {"connectFlags", "receiveMaximum"})
    BY <1>4 DEF NonZero, Strings, AllFields, Lists, UserProperties
  <2>2. m[f] \in Nat
    <3>1. FieldType(k, f) = Nat
      BY <2>1, NumberFields
    <3>2. f \in DOMAIN New(k)
      OBVIOUS
    <3> QED BY <3>1, <3>2 DEF Message
  <2>3. Size(f, m[f]) # 0
    BY <1>1, <2>1, <2>2, PropertySizes
  <2> QED BY <1>2, <2>1, <2>3
<1> QED BY <1>3, <1>4

PubackPut(m) ==
  {"packetId"} \cup
    (IF m.remlen = 2 /\ m.reasonCode = 0 THEN {} ELSE {"reasonCode"} \cup
      (IF m.propertiesLen = 0 THEN {} ELSE {"propertiesLen", "userProperty"} \cup NonZero(m, {"reasonStr"})))

\* The encoders of the acknowledgements.
LEMMA PubackEncoded ==
  ASSUME NEW k \in Acks, NEW o, Message(k, o)
  PROVE  LET r == Encode(k, o)
         IN  /\ Encoded(k, r) /\ r.put = PubackPut(r.obj) /\ EncodeToBuf(k, o) = r
             /\ r.obj.propertiesLen = 0 => r.obj.userProperty = <<>> /\ r.obj.reasonStr = 0
             /\ o.remlen = 0 /\ r.obj.remlen = 2 => r.obj.reasonCode = 0 /\ r.obj.propertiesLen = 0
<1> DEFINE P == {"userProperty"} \cup NonZero(o, {"reasonStr"})
           X == {"packetId"} \cup {"reasonCode"}
           plen == Total(o, P)
           L == lbEncode(plen)
           n == IF plen > 0 THEN 2 + 1 + plen + L ELSE IF o.reasonCode = 0 THEN 2 ELSE 2 + 1
           b == PubackBuild(o)
           put == PubackPut(b)
           r == Encode(k, o)
<1>0. k \in AllKinds /\ k # "CONNECT" /\ k # "CONNACK" /\ k \in {"PUBACK", "PUBREC", "PUBREL", "PUBCOMP", "AUTH"}
  BY DEF AllKinds, Acks
<1>1. /\ P \subseteq DOMAIN New(k) \ {"remlen", "propertiesLen"} /\ X \subseteq DOMAIN New(k) \ {"remlen", "propertiesLen"}
      /\ "packetId" \in DOMAIN New(k) /\ "packetId" \notin P /\ "reasonCode" \in DOMAIN New(k)
      /\ {"reasonStr"} \cup {"userProperty"} \subseteq DOMAIN New(k) /\ "remlen" \in DOMAIN New(k)
  BY Domains DEF NonZero
<1>2. /\ P \subseteq Identified \cup UserProperties /\ X \cap (Identified \cup UserProperties) = {}
  BY DEF NonZero, Identified, OneByte, TwoBytes, FourBytes, Strings, UserProperties
<1>3. plen \in Nat /\ L \in Nat
  BY <1>0, <1>1, Measured, VarintSize
<1>4. n \in Nat
  <2> HIDE DEF plen, L
  <2> QED BY <1>3
<1>5. b = SetRemainingLength([o EXCEPT !.propertiesLen = Total(o, P)], n)
  BY DEF PubackBuild
<1> HIDE DEF P, plen, n, b, L
<1>6. Builds(k, o, P, n, b)
  BY <1>0, <1>1, <1>4, <1>5, Built
<1>7. /\ Message(k, b) /\ b.reasonCode = o.reasonCode /\ b.reasonStr = o.reasonStr /\ b.propertiesLen = plen
      /\ b.remlen = IF n <= maxRemainingLength THEN n ELSE o.remlen
  BY <1>1, <1>6 DEF Builds, plen
<1>8. b.reasonCode \in Nat
  BY <1>1, <1>7, NumberFields DEF Message, AllFields, OneByte, Lists, UserProperties
<1>9. Total(b, X) = 3 /\ Total(b, {"packetId"}) = 2
  <2>1. "packetId" \in DOMAIN New(k) \ {"remlen"} /\ "reasonCode" \in DOMAIN New(k) \ {"remlen"}
        /\ {"packetId"} \subseteq DOMAIN New(k) \ {"remlen"} /\ "reasonCode" \notin {"packetId"}
    BY <1>1
  <2>2. Total(b, {"packetId"}) = 2
    <3>1. Total(b, {"packetId"}) = Size("packetId", b["packetId"])
      BY <1>0, <1>7, <2>1, TotalOne
    <3> QED BY <3>1, FixedSizes
  <2>3. Total(b, {"packetId"} \cup {"reasonCode"}) = Total(b, {"packetId"}) + Size("reasonCode", b["reasonCode"])
    BY <1>0, <1>7, <2>1, TotalField
  <2>4. Size("reasonCode", b["reasonCode"]) = 1
    BY FixedSizes
  <2> QED BY <2>2, <2>3, <2>4
<1>10. 2 <= maxRemainingLength /\ 3 <= maxRemainingLength
  BY DEF maxRemainingLength
<1>11. NonZero(b, {"reasonStr"}) = NonZero(o, {"reasonStr"})
  BY <1>7 DEF NonZero
<1>12. b.propertiesLen = 0 => b.userProperty = <<>> /\ b.reasonStr = 0
  <2> SUFFICES ASSUME b.propertiesLen = 0
               PROVE  b.userProperty = <<>> /\ b.reasonStr = 0
    OBVIOUS
  <2>1. Total(b, {"userProperty"} \cup NonZero(b, {"reasonStr"})) = 0
    BY <1>6, <1>11 DEF Builds, P
  <2> DEFINE S == {"reasonStr"}
  <2>2. S \subseteq {"reasonStr", "authMethod", "authData"} /\ S \cup {"userProperty"} \subseteq DOMAIN New(k)
    BY <1>1
  <2>3. Total(b, {"userProperty"} \cup NonZero(b, S)) = 0
    BY <2>1
  <2>4. "reasonStr" \in S
    OBVIOUS
  <2> HIDE DEF S
  <2>5. Message(k, b)
    BY <1>7
  <2>6. k \in {"PUBACK", "PUBREC", "PUBREL", "PUBCOMP", "AUTH"}
    BY <1>0
  <2>7. b.userProperty = <<>> /\ \A f \in S : b[f] = 0
    BY <2>2, <2>3, <2>5, <2>6, PropertiesGone
  <2>8. b["reasonStr"] = 0
    BY <2>4, <2>7
  <2> QED BY <2>7, <2>8
<1>13. o.remlen = 0 /\ b.remlen = 2 => b.reasonCode = 0 /\ b.propertiesLen = 0
  <2> SUFFICES ASSUME o.remlen = 0, b.remlen = 2
               PROVE  b.reasonCode = 0 /\ b.propertiesLen = 0
    OBVIOUS
  <2>1. n = 2
    <3>1. b.remlen = IF n <= maxRemainingLength THEN n ELSE o.remlen
      BY <1>7
    <3> QED BY <3>1
  <2>2. ~ (plen > 0)
    <3>1. plen > 0 => n = 2 + 1 + plen + L
      BY DEF n
    <3> QED BY <1>3, <2>1, <3>1
  <2>3. o.reasonCode = 0
    <3>1. ~ (plen > 0) /\ o.reasonCode # 0 => n = 2 + 1
      BY DEF n
    <3> QED BY <2>1, <2>2, <3>1
  <2>4. b.reasonCode = o.reasonCode /\ b.propertiesLen = plen
    BY <1>7
  <2> QED BY <1>3, <2>2, <2>3, <2>4
<1>14. r = Out(b, put) /\ EncodeToBuf(k, o) = Out(b, put)
  <2>1. r = PubackEncode(b) /\ EncodeToBuf(k, o) = PubackEncodeToBuf(b)
    <3>1. k \notin {"CONNECT", "CONNACK", "PUBLISH", "SUBSCRIBE", "SUBACK", "UNSUBSCRIBE", "UNSUBACK",
                    "DISCONNECT", "AUTH"}
      BY DEF Acks
    <3> QED BY <3>1 DEF Encode, EncodeToBuf, b
  <2>2. PubackEncode(b) = Out(b, put)
    BY DEF PubackEncode, PubackPut
  <2>3. PubackEncodeToBuf(b) = Out(b, put)
    <3> DEFINE code == IF b.remlen = 2 /\ b.reasonCode = 0 THEN {} ELSE {"reasonCode"}
               rest == IF code = {} \/ b.propertiesLen = 0 THEN {} ELSE {"propertiesLen", "userProperty", "reasonStr"}
               all == {"packetId"} \cup code \cup (rest \ (IF b.reasonStr = 0 THEN {"reasonStr"} ELSE {}))
    <3>1. PubackEncodeToBuf(b) = Out(b, all)
      BY DEF PubackEncodeToBuf
    <3>2. code = {} <=> b.remlen = 2 /\ b.reasonCode = 0
      OBVIOUS
    <3>3. all = put
      BY DEF PubackPut, NonZero
    <3> HIDE DEF all, put
    <3> QED BY <3>1, <3>3
  <2> QED BY <2>1, <2>2, <2>3
<1>15. Encoded(k, Out(b, put))
  <2>1. CASE b.remlen = 2 /\ b.reasonCode = 0
    <3>1. put = {"packetId"}
      BY <2>1 DEF PubackPut
    <3>2. Measures(k, b, put)
      <4>1. {f \in put : f \in Identified \cup UserProperties} = {}
        BY <3>1 DEF Identified, OneByte, TwoBytes, FourBytes, Strings, UserProperties
      <4>2. "propertiesLen" \notin put /\ "willPropertiesLen" \notin put
        BY <3>1
      <4>3. b.remlen = Total(b, put)
        BY <1>9, <2>1, <3>1
      <4> HIDE DEF put
      <4> QED BY <4>1, <4>2, <4>3 DEF Measures
    <3>3. put \subseteq DOMAIN New(k) \ {"remlen"}
      BY <1>1, <3>1
    <3> HIDE DEF put
    <3> QED BY <1>7, <3>2, <3>3 DEF Encoded, Out
  <2>2. CASE ~ (b.remlen = 2 /\ b.reasonCode = 0) /\ plen = 0
    <3>1. put = X
      BY <1>7, <2>2 DEF PubackPut
    <3>2. Measures(k, b, put)
      <4>1. {f \in put : f \in Identified \cup UserProperties} = {}
        BY <3>1 DEF Identified, OneByte, TwoBytes, FourBytes, Strings, UserProperties
      <4>2. "propertiesLen" \notin put /\ "willPropertiesLen" \notin put
        BY <3>1
      <4>3. b.remlen = 3
        BY <1>7, <1>8, <1>10, <2>2 DEF n
      <4> HIDE DEF put, X
      <4> QED BY <1>9, <3>1, <4>1, <4>2, <4>3 DEF Measures
    <3>3. put \subseteq DOMAIN New(k) \ {"remlen"}
      BY <1>1, <3>1
    <3> HIDE DEF put
    <3> QED BY <1>7, <3>2, <3>3 DEF Encoded, Out
  <2>3. CASE ~ (b.remlen = 2 /\ b.reasonCode = 0) /\ plen # 0
    <3>1. put = P \cup {"propertiesLen"} \cup X
      BY <1>7, <1>11, <2>3 DEF PubackPut, P
    <3>2. n = Total(o, P) + lbEncode(Total(o, P)) + 3
      <4>1. n = plen + L + 3
        BY <1>3, <2>3 DEF n
      <4> QED BY <4>1 DEF plen, L
    <3> HIDE DEF put, X
    <3> QED BY <1>0, <1>1, <1>2, <1>4, <1>6, <1>7, <1>9, <3>1, <3>2, Shaped
  <2> QED BY <2>1, <2>2, <2>3
<1> HIDE DEF r, put
<1>17. r.obj = b /\ r.put = put
  BY <1>14 DEF Out
<1> QED BY <1>12, <1>13, <1>14, <1>15, <1>17 DEF r, put

-----------------------------------------------------------------------------
(* DISCONNECT and AUTH *)

DisconnectStrings == {"sessionExpiryInterval", "reasonStr", "serverReference"}
DisconnectPut(m) ==
  IF m.reasonCode = 0 /\ m.remlen = 0 THEN {}
  ELSE {"reasonCode", "propertiesLen", "userProperty"} \cup NonZero(m, DisconnectStrings)

\* The encoders of DISCONNECT.
LEMMA DisconnectEncoded ==
  ASSUME NEW o, Message("DISCONNECT", o)
  PROVE  LET r == Encode("DISCONNECT", o)
         IN  Encoded("DISCONNECT", r) /\ r.put = DisconnectPut(r.obj) /\ EncodeToBuf("DISCONNECT", o) = r
<1> DEFINE k == "DISCONNECT"
           P == {"userProperty"} \cup NonZero(o, DisconnectStrings)
           X == {"reasonCode"}
           plen == Total(o, P)
           L == lbEncode(plen)
           n == IF o.reasonCode = 0 /\ plen = 0 THEN 0 ELSE 1 + plen + L
           b == DisconnectBuild(o)
           put == DisconnectPut(b)
           r == Encode("DISCONNECT", o)
<1>0. k \in AllKinds /\ k # "CONNECT"
  BY DEF AllKinds
<1>1. /\ P \subseteq DOMAIN New(k) \ {"remlen", "propertiesLen"} /\ X \subseteq DOMAIN New(k) \ {"remlen", "propertiesLen"}
      /\ "packetId" \notin P /\ "reasonCode" \in DOMAIN New(k) \ {"remlen"}
      /\ DisconnectStrings \subseteq DOMAIN New(k) \ {"remlen", "propertiesLen"}
  BY Domains DEF NonZero, DisconnectStrings
<1>2. /\ P \subseteq Identified \cup UserProperties /\ X \cap (Identified \cup UserProperties) = {}
  BY DEF NonZero, Identified, OneByte, TwoBytes, FourBytes, Strings, UserProperties, DisconnectStrings
<1>3. plen \in Nat /\ L \in Nat
  BY <1>0, <1>1, Measured, VarintSize
<1>4. n \in Nat
  <2> HIDE DEF plen, L
  <2> QED BY <1>3
<1>5. b = SetRemainingLength([o EXCEPT !.propertiesLen = Total(o, P)], n)
  BY DEF DisconnectBuild, DisconnectStrings
<1> HIDE DEF k, P, plen, n, b, L
<1>6. Builds(k, o, P, n, b)
  BY <1>0, <1>1, <1>4, <1>5, Built DEF k
<1>7. /\ Message(k, b) /\ b.reasonCode = o.reasonCode /\ b.propertiesLen = plen
      /\ b.remlen = IF n <= maxRemainingLength THEN n ELSE o.remlen
      /\ \A f \in DisconnectStrings : b[f] = o[f]
  BY <1>1, <1>6 DEF Builds, plen
<1>9. Total(b, X) = 1
  <2>1. Total(b, {"reasonCode"}) = Size("reasonCode", b["reasonCode"])
    BY <1>0, <1>1, <1>7, TotalOne
  <2>2. Size("reasonCode", b["reasonCode"]) = 1
    BY FixedSizes
  <2> QED BY <2>1, <2>2
<1>10. 0 <= maxRemainingLength
  BY DEF maxRemainingLength
<1>11. NonZero(b, DisconnectStrings) = NonZero(o, DisconnectStrings)
  BY <1>7 DEF NonZero
<1>14. r = Out(b, put) /\ EncodeToBuf("DISCONNECT", o) = Out(b, put)
  <2>1. r = DisconnectEncode(b) /\ EncodeToBuf("DISCONNECT", o) = DisconnectEncodeToBuf(b)
    BY DEF Encode, EncodeToBuf, Acks, b
  <2>2. DisconnectEncode(b) = Out(b, put)
    BY DEF DisconnectEncode, DisconnectPut, DisconnectStrings
  <2>3. DisconnectEncodeToBuf(b) = Out(b, put)
    <3> DEFINE all == {f \in DOMAIN b \ {"remlen"} :
                         /\ b.remlen # 0 \/ b.reasonCode # 0
                         /\ f \in {"sessionExpiryInterval", "reasonStr", "serverReference"} => b[f] # 0}
    <3>1. DisconnectEncodeToBuf(b) = Out(b, all)
      BY DEF DisconnectEncodeToBuf
    <3>2. DOMAIN b = {"remlen", "reasonCode", "propertiesLen", "sessionExpiryInterval", "reasonStr",
                      "userProperty", "serverReference"}
      BY <1>7, Domains DEF Message, k
    <3>3. all = put
      BY <3>2 DEF DisconnectPut, NonZero, DisconnectStrings
    <3> HIDE DEF all, put
    <3> QED BY <3>1, <3>3
  <2> QED BY <2>1, <2>2, <2>3
<1>15. Encoded(k, Out(b, put))
  <2>1. CASE b.remlen = 0 /\ b.reasonCode = 0
    <3>1. put = {}
      BY <2>1 DEF DisconnectPut
    <3>2. Measures(k, b, put)
      <4>1. {f \in put : f \in Identified \cup UserProperties} = {}
        BY <3>1
      <4>2. "propertiesLen" \notin put /\ "willPropertiesLen" \notin put
        BY <3>1
      <4>3. b.remlen = Total(b, put)
        BY <2>1, <3>1, TotalNone
      <4> HIDE DEF put
      <4> QED BY <4>1, <4>2, <4>3 DEF Measures
    <3> HIDE DEF put
    <3> QED BY <1>7, <3>1, <3>2 DEF Encoded, Out
  <2>2. CASE ~ (b.remlen = 0 /\ b.reasonCode = 0)
    <3>1. put = P \cup {"propertiesLen"} \cup X
      BY <1>7, <1>11, <2>2 DEF DisconnectPut, P
    <3>2. n = Total(o, P) + lbEncode(Total(o, P)) + 1
      <4>1. n = plen + L + 1
        BY <1>3, <1>7, <1>10, <2>2 DEF n
      <4> QED BY <4>1 DEF plen, L
    <3> HIDE DEF put, X
    <3> QED BY <1>0, <1>1, <1>2, <1>4, <1>6, <1>7, <1>9, <3>1, <3>2, Shaped
  <2> QED BY <2>1, <2>2
<1> HIDE DEF r, put
<1>17. r.obj = b /\ r.put = put
  BY <1>14 DEF Out
<1> QED BY <1>14, <1>15, <1>17 DEF r, put, k

AuthStrings == {"authMethod", "authData", "reasonStr"}
AuthPut(m) ==
  IF m.reasonCode = 0 /\ m.userProperty = <<>> /\ NonZero(m, AuthStrings) = {} THEN {}
  ELSE {"reasonCode", "propertiesLen", "userProperty"} \cup NonZero(m, AuthStrings)

\* The encoders of AUTH.
LEMMA AuthEncoded ==
  ASSUME NEW o, Message("AUTH", o)
  PROVE  LET r == Encode("AUTH", o)
         IN  /\ Encoded("AUTH", r) /\ r.put = AuthPut(r.obj) /\ EncodeToBuf("AUTH", o) = r
             /\ r.put = {} => r.obj.propertiesLen = 0
<1> DEFINE k == "AUTH"
           P == {"userProperty"} \cup NonZero(o, AuthStrings)
           X == {"reasonCode"}
           plen == Total(o, P)
           L == lbEncode(plen)
           n == IF plen = 0 /\ o.reasonCode = 0 THEN 0 ELSE 1 + plen + L
           b == AuthBuild(o)
           put == AuthPut(b)
           r == Encode("AUTH", o)
<1>0. k \in AllKinds /\ k # "CONNECT" /\ k \in {"PUBACK", "PUBREC", "PUBREL", "PUBCOMP", "AUTH"}
  BY DEF AllKinds
<1>1. /\ P \subseteq DOMAIN New(k) \ {"remlen", "propertiesLen"} /\ X \subseteq DOMAIN New(k) \ {"remlen", "propertiesLen"}
      /\ "packetId" \notin P /\ "reasonCode" \in DOMAIN New(k) \ {"remlen"}
      /\ AuthStrings \subseteq DOMAIN New(k) \ {"remlen", "propertiesLen"}
      /\ "userProperty" \in DOMAIN New(k) \ {"remlen", "propertiesLen"}
  BY Domains DEF NonZero, AuthStrings
<1>2. /\ P \subseteq Identified \cup UserProperties /\ X \cap (Identified \cup UserProperties) = {}
  BY DEF NonZero, Identified, OneByte, TwoBytes, FourBytes, Strings, UserProperties, AuthStrings
<1>3. plen \in Nat /\ L \in Nat
  BY <1>0, <1>1, Measured, VarintSize
<1>4. n \in Nat
  <2> HIDE DEF plen, L
  <2> QED BY <1>3
<1>5. b = SetRemainingLength([o EXCEPT !.propertiesLen = Total(o, P)], n)
  BY DEF AuthBuild, AuthStrings
<1> HIDE DEF k, P, plen, n, b, L
<1>6. Builds(k, o, P, n, b)
  BY <1>0, <1>1, <1>4, <1>5, Built DEF k
<1>7. /\ Message(k, b) /\ b.reasonCode = o.reasonCode /\ b.propertiesLen = plen
      /\ b.remlen = IF n <= maxRemainingLength THEN n ELSE o.remlen
      /\ b.userProperty = o.userProperty
      /\ \A f \in AuthStrings : b[f] = o[f]
  BY <1>1, <1>6 DEF Builds, plen
<1>9. Total(b, X) = 1
  <2>1. Total(b, {"reasonCode"}) = Size("reasonCode", b["reasonCode"])
    BY <1>0, <1>1, <1>7, TotalOne
  <2>2. Size("reasonCode", b["reasonCode"]) = 1
    BY FixedSizes
  <2> QED BY <2>1, <2>2
<1>10. 0 <= maxRemainingLength
  BY DEF maxRemainingLength
<1>11. NonZero(b, AuthStrings) = NonZero(o, AuthStrings)
  BY <1>7 DEF NonZero
<1>12. ASSUME put = {}
       PROVE  plen = 0 /\ b.reasonCode = 0
  <2>1. b.reasonCode = 0 /\ b.userProperty = <<>> /\ NonZero(b, AuthStrings) = {}
    BY <1>12 DEF AuthPut
  <2>2. P = {"userProperty"}
    BY <1>11, <2>1 DEF P
  <2>3. Total(o, {"userProperty"}) = Size("userProperty", o["userProperty"])
    BY <1>0, <1>1, TotalOne DEF k
  <2>4. o["userProperty"] \in Seq(Nat) /\ "userProperty" \in UserProperties /\ o["userProperty"] = <<>>
    <3>1. FieldType(k, "userProperty") = Seq(Nat)
      BY NumberFields DEF UserProperties
    <3> QED BY <1>1, <1>7, <2>1, <3>1 DEF Message, UserProperties, k
  <2>5. Size("userProperty", o["userProperty"]) = 0
    BY <2>4, PropertySizes
  <2> QED BY <2>1, <2>2, <2>3, <2>5 DEF plen
<1>13. ASSUME plen = 0, b.reasonCode = 0
       PROVE  put = {}
  <2>1. Total(b, {"userProperty"} \cup NonZero(b, AuthStrings)) = 0
    BY <1>6, <1>11, <1>13 DEF Builds, P, plen
  <2>2. AuthStrings \subseteq {"reasonStr", "authMethod", "authData"} /\ AuthStrings \cup {"userProperty"} \subseteq DOMAIN New(k)
    BY <1>1 DEF AuthStrings
  <2>3. b.userProperty = <<>> /\ \A f \in AuthStrings : b[f] = 0
    <3> DEFINE S == AuthStrings
    <3>1. Total(b, {"userProperty"} \cup NonZero(b, S)) = 0
      BY <2>1
    <3>2. S \subseteq {"reasonStr", "authMethod", "authData"} /\ S \cup {"userProperty"} \subseteq DOMAIN New(k)
      BY <2>2
    <3> HIDE DEF S
    <3>3. b.userProperty = <<>> /\ \A f \in S : b[f] = 0
      <4>1. Message(k, b) /\ k \in {"PUBACK", "PUBREC", "PUBREL", "PUBCOMP", "AUTH"}
        BY <1>0, <1>7
      <4>2. b.userProperty = <<>>
        BY <3>1, <3>2, <4>1, PropertiesGone
      <4>3. \A f \in S : b[f] = 0
        BY <3>1, <3>2, <4>1, PropertiesGone
      <4> QED BY <4>2, <4>3
    <3> QED BY <3>3 DEF S
  <2> QED BY <1>13, <2>3 DEF AuthPut, NonZero
<1>14. r = Out(b, put) /\ EncodeToBuf("AUTH", o) = Out(b, put)
  <2>1. r = AuthEncode(b) /\ EncodeToBuf("AUTH", o) = AuthEncodeToBuf(b)
    BY DEF Encode, EncodeToBuf, Acks, b
  <2>2. AuthEncode(b) = Out(b, put)
    BY DEF AuthEncode, AuthPut, AuthStrings
  <2>3. AuthEncodeToBuf(b) = Out(b, put)
    <3> DEFINE none == \A f \in {"reasonCode", "authMethod", "authData", "reasonStr"} : b[f] = 0 /\ b.userProperty = <<>>
               some == {f \in DOMAIN b \ {"remlen"} : f \in {"authMethod", "authData", "reasonStr"} => b[f] # 0}
               all == IF none THEN {} ELSE some
    <3>1. AuthEncodeToBuf(b) = Out(b, all)
      BY DEF AuthEncodeToBuf
    <3>2. DOMAIN b = {"remlen", "reasonCode", "propertiesLen", "authMethod", "authData", "reasonStr", "userProperty"}
      BY <1>7, Domains DEF Message, k
    <3>3. none <=> b.reasonCode = 0 /\ b.userProperty = <<>> /\ NonZero(b, AuthStrings) = {}
      BY DEF NonZero, AuthStrings
    <3>4. some = {"reasonCode", "propertiesLen", "userProperty"} \cup NonZero(b, AuthStrings)
      BY <3>2 DEF NonZero, AuthStrings
    <3> HIDE DEF none, some
    <3>5. all = put
      BY <3>3, <3>4 DEF AuthPut
    <3> HIDE DEF all, put
    <3> QED BY <3>1, <3>5
  <2> QED BY <2>1, <2>2, <2>3
<1>15. Encoded(k, Out(b, put))
  <2>1. CASE put = {}
    <3>2. Measures(k, b, put)
      <4>1. {f \in put : f \in Identified \cup UserProperties} = {}
        BY <2>1
      <4>2. "propertiesLen" \notin put /\ "willPropertiesLen" \notin put
        BY <2>1
      <4>3. b.remlen = Total(b, put)
        <5>1. n = 0
          BY <1>7, <1>12, <2>1 DEF n
        <5> HIDE DEF put
        <5> QED BY <1>7, <1>10, <2>1, <5>1, TotalNone
      <4> HIDE DEF put
      <4> QED BY <4>1, <4>2, <4>3 DEF Measures
    <3> HIDE DEF put
    <3> QED BY <1>7, <2>1, <3>2 DEF Encoded, Out
  <2>2. CASE put # {}
    <3>1. put = P \cup {"propertiesLen"} \cup X
      BY <1>7, <1>11, <2>2 DEF AuthPut, P
    <3>2. n = Total(o, P) + lbEncode(Total(o, P)) + 1
      <4>1. n = plen + L + 1
        BY <1>3, <1>7, <1>13, <2>2 DEF n
      <4> QED BY <4>1 DEF plen, L
    <3> HIDE DEF put, X
    <3> QED BY <1>0, <1>1, <1>2, <1>4, <1>6, <1>7, <1>9, <3>1, <3>2, Shaped
  <2> QED BY <2>1, <2>2
<1>16. put = {} => b.propertiesLen = 0
  BY <1>7, <1>12
<1> HIDE DEF r, put
<1>17. r.obj = b /\ r.put = put
  BY <1>14 DEF Out
<1> QED BY <1>14, <1>15, <1>16, <1>17 DEF r, put, k

-----------------------------------------------------------------------------
(* PUBLISH *)

PublishProps == {"payloadFormatIndicator", "messageExpiryInterval", "topicAlias", "responseTopic",
                 "correlationData", "contentType"}
PublishPut(m) ==
  {"dup", "qos", "retain", "topic", "propertiesLen", "userProperty", "payload"}
    \cup {f \in {"packetId"} : m.qos # 0} \cup Identifier(m) \cup NonZero(m, PublishProps)

\* The bytes of a PUBLISH that are no properties.
LEMMA PublishRest ==
  ASSUME NEW m, Message("PUBLISH", m)
  PROVE  LET X == {"dup", "qos", "retain", "topic", "payload"} \cup {f \in {"packetId"} : m.qos # 0}
         IN  Total(m, X) = 2 + m.topic + m.payload + (IF m.qos # 0 THEN 2 ELSE 0)
<1> DEFINE k == "PUBLISH"
           A == {"dup"} \cup {"qos"}
           B == A \cup {"retain"}
           C == B \cup {"topic"}
           D == C \cup {"payload"}
           E == D \cup {"packetId"}
           X == {"dup", "qos", "retain", "topic", "payload"} \cup {f \in {"packetId"} : m.qos # 0}
<1>0. k \in AllKinds
  BY DEF AllKinds
<1>1. /\ E \subseteq DOMAIN New(k) \ {"remlen"}
      /\ D \subseteq DOMAIN New(k) \ {"remlen"}
      /\ C \subseteq DOMAIN New(k) \ {"remlen"}
      /\ B \subseteq DOMAIN New(k) \ {"remlen"}
      /\ A \subseteq DOMAIN New(k) \ {"remlen"}
      /\ {"dup"} \subseteq DOMAIN New(k) \ {"remlen"}
  BY Domains
<1>2. "qos" \notin {"dup"} /\ "retain" \notin A /\ "topic" \notin B /\ "payload" \notin C /\ "packetId" \notin D
  OBVIOUS
<1>3. /\ "dup" \in DOMAIN New(k) \ {"remlen"} /\ "qos" \in DOMAIN New(k) \ {"remlen"}
      /\ "retain" \in DOMAIN New(k) \ {"remlen"} /\ "topic" \in DOMAIN New(k) \ {"remlen"}
      /\ "payload" \in DOMAIN New(k) \ {"remlen"} /\ "packetId" \in DOMAIN New(k) \ {"remlen"}
  BY Domains
<1>4. m.topic \in Nat /\ m.payload \in Nat
  <2>1. "topic" \notin Lists \cup {"connectFlags"} /\ "payload" \notin Lists \cup {"connectFlags"}
    BY DEF Lists, UserProperties
  <2>2. "topic" \in DOMAIN New(k) /\ "payload" \in DOMAIN New(k)
    BY <1>3
  <2> QED BY <1>0, <2>1, <2>2, NatFields
<1>5. Total(m, A) = Total(m, {"dup"}) + Size("qos", m["qos"])
  BY <1>0, <1>1, <1>2, <1>3, TotalField
<1>6. Total(m, {"dup"}) = Size("dup", m["dup"])
  BY <1>0, <1>3, TotalOne
<1>7. Size("dup", m["dup"]) = 0 /\ Size("qos", m["qos"]) = 0 /\ Size("retain", m["retain"]) = 0
        /\ Size("topic", m["topic"]) = 2 + m.topic /\ Size("payload", m["payload"]) = m.payload
        /\ Size("packetId", m["packetId"]) = 2
  BY <1>4, FixedSizes
<1>8. X = IF m.qos # 0 THEN E ELSE D
  OBVIOUS
<1> HIDE DEF k, A, X
<1>9. Total(m, B) = Total(m, A) + Size("retain", m["retain"])
  BY <1>0, <1>1, <1>2, <1>3, TotalField DEF k
<1> HIDE DEF B
<1>10. Total(m, C) = Total(m, B) + Size("topic", m["topic"])
  BY <1>0, <1>1, <1>2, <1>3, TotalField DEF k
<1> HIDE DEF C
<1>11. Total(m, D) = Total(m, C) + Size("payload", m["payload"])
  BY <1>0, <1>1, <1>2, <1>3, TotalField DEF k
<1> HIDE DEF D
<1>12. Total(m, E) = Total(m, D) + Size("packetId", m["packetId"])
  BY <1>0, <1>1, <1>2, <1>3, TotalField DEF k
<1> HIDE DEF E
<1>13. Total(m, X) = 2 + m.topic + m.payload + (IF m.qos # 0 THEN 2 ELSE 0)
  <2>1. Total(m, D) = 2 + m.topic + m.payload
    BY <1>4, <1>5, <1>6, <1>7, <1>9, <1>10, <1>11
  <2>2. Total(m, E) = 2 + m.topic + m.payload + 2
    BY <1>4, <1>7, <1>12, <2>1
  <2>3. CASE m.qos # 0
    BY <1>8, <2>2, <2>3
  <2>4. CASE m.qos = 0
    BY <1>4, <1>8, <2>1, <2>4
  <2> QED BY <2>3, <2>4
<1> QED BY <1>13 DEF X

\* The encoders of PUBLISH.
LEMMA PublishEncoded ==
  ASSUME NEW o, Message("PUBLISH", o)
  PROVE  LET r == Encode("PUBLISH", o)
         IN  /\ EncodeToBuf("PUBLISH", o) = r
             /\ r # Refused => /\ Encoded("PUBLISH", r) /\ r.put = PublishPut(r.obj)
                               /\ r.obj.topic # 0 \/ r.obj.topicAlias # 0
<1> DEFINE k == "PUBLISH"
           P == {"userProperty"} \cup Identifier(o) \cup NonZero(o, PublishProps)
           plen == Total(o, P)
           L == lbEncode(plen)
           n == 2 + o.topic + (IF o.qos # 0 THEN 2 ELSE 0) + plen + L + o.payload
           b == PublishBuild(o)
           m == IF b.qos # 0 THEN WithPacketId(b) ELSE b
           X == {"dup", "qos", "retain", "topic", "payload"} \cup {f \in {"packetId"} : m.qos # 0}
           x == 2 + m.topic + m.payload + (IF m.qos # 0 THEN 2 ELSE 0)
           put == PublishPut(m)
           r == Encode("PUBLISH", o)
           no == (b.topic = 0 /\ b.topicAlias = 0) \/ b.payload = 0
<1>0. k \in AllKinds /\ k # "CONNECT"
  BY DEF AllKinds
<1>1. /\ P \subseteq DOMAIN New(k) \ {"remlen", "propertiesLen"} /\ X \subseteq DOMAIN New(k) \ {"remlen", "propertiesLen"}
      /\ "packetId" \in DOMAIN New(k) /\ "packetId" \notin P
      /\ {"dup", "qos", "retain", "topic", "payload", "subscriptionIdentifier"} \cup PublishProps
            \subseteq DOMAIN New(k) \ {"remlen", "propertiesLen", "packetId"}
  BY Domains DEF NonZero, Identifier, PublishProps
<1>2. /\ P \subseteq Identified \cup UserProperties /\ X \cap (Identified \cup UserProperties) = {}
  BY DEF NonZero, Identified, OneByte, TwoBytes, FourBytes, Strings, UserProperties, PublishProps, Identifier
<1>3. plen \in Nat /\ L \in Nat /\ o.topic \in Nat /\ o.payload \in Nat
  <2>1. plen \in Nat /\ L \in Nat
    BY <1>0, <1>1, Measured, VarintSize
  <2>2. o.topic \in Nat /\ o.payload \in Nat
    <3>1. "topic" \notin Lists \cup {"connectFlags"} /\ "payload" \notin Lists \cup {"connectFlags"}
      BY DEF Lists, UserProperties
    <3>2. "topic" \in DOMAIN New(k) /\ "payload" \in DOMAIN New(k)
      BY <1>1
    <3> QED BY <1>0, <3>1, <3>2, NatFields
  <2> QED BY <2>1, <2>2
<1>4. n \in Nat
  <2> HIDE DEF plen, L
  <2> QED BY <1>3
<1>5. b = SetRemainingLength([o EXCEPT !.propertiesLen = Total(o, P)], n)
  BY DEF PublishBuild, PublishProps
<1> HIDE DEF k, P, plen, n, b, L
<1>6. Builds(k, o, P, n, b)
  BY <1>0, <1>1, <1>4, <1>5, Built DEF k
<1>7. Message(k, m) /\ \A f \in DOMAIN New(k) \ {"packetId"} : m[f] = b[f]
  BY <1>0, <1>1, <1>6, Identifies DEF Builds
<1>8. /\ m.qos = b.qos /\ m.topic = b.topic /\ m.payload = b.payload /\ m.topicAlias = b.topicAlias
      /\ b.qos = o.qos /\ b.topic = o.topic /\ b.payload = o.payload
      /\ m.subscriptionIdentifier = b.subscriptionIdentifier /\ b.subscriptionIdentifier = o.subscriptionIdentifier
      /\ \A f \in PublishProps : m[f] = b[f] /\ b[f] = o[f]
  BY <1>1, <1>6, <1>7 DEF Builds, PublishProps
<1>9. /\ Identifier(m) = Identifier(b) /\ Identifier(b) = Identifier(o)
      /\ NonZero(m, PublishProps) = NonZero(b, PublishProps) /\ NonZero(b, PublishProps) = NonZero(o, PublishProps)
  <2>1. Identifier(m) = Identifier(b) /\ Identifier(b) = Identifier(o)
    BY <1>8 DEF Identifier
  <2>2. NonZero(m, PublishProps) = NonZero(b, PublishProps) /\ NonZero(b, PublishProps) = NonZero(o, PublishProps)
    BY <1>8 DEF NonZero
  <2> QED BY <2>1, <2>2
<1>10. Total(m, X) = x
  <2> HIDE DEF m
  <2> QED BY <1>7, PublishRest DEF k
<1>11. n = plen + L + x /\ x \in Nat
  <2> HIDE DEF m
  <2> QED BY <1>3, <1>8 DEF n
<1>12. Encoded(k, Out(m, P \cup {"propertiesLen"} \cup X))
  <2> HIDE DEF m, X, x
  <2> QED BY <1>0, <1>1, <1>2, <1>4, <1>6, <1>7, <1>10, <1>11, Shaped DEF plen, L
<1>14. put = P \cup {"propertiesLen"} \cup X
  <2> HIDE DEF m
  <2> QED BY <1>9 DEF P, PublishPut
<1>15. r = IF no THEN Refused ELSE Out(m, put)
  <2>1. r = PublishEncode(b)
    BY DEF Encode, Acks, b
  <2>2. put = {"dup", "qos", "retain", "topic", "propertiesLen", "userProperty", "payload"}
                \cup {f \in {"packetId"} : b.qos # 0} \cup Identifier(b) \cup NonZero(b, PublishProps)
    <3> HIDE DEF m
    <3> QED BY <1>8, <1>9 DEF PublishPut
  <2> HIDE DEF r, put
  <2> QED BY <2>1, <2>2 DEF PublishEncode, PublishProps
<1>16. EncodeToBuf("PUBLISH", o) = IF no THEN Refused ELSE Out(m, put)
  <2>1. EncodeToBuf("PUBLISH", o) = PublishEncodeToBuf(b)
    BY DEF EncodeToBuf, Acks, b
  <2> DEFINE all == {"dup", "qos", "retain", "topic"} \cup {f \in {"packetId"} : m.qos # 0}
                      \cup {"propertiesLen", "userProperty", "payload"} \cup Identifier(m) \cup NonZero(m, PublishProps)
  <2>2. PublishEncodeToBuf(b) = IF no THEN Refused ELSE Out(m, all)
    BY DEF PublishEncodeToBuf, PublishProps
  <2>3. all = put
    <3> HIDE DEF m
    <3> QED BY DEF PublishPut
  <2> HIDE DEF all, put, m, no
  <2> QED BY <2>1, <2>2, <2>3
<1>17. ASSUME r # Refused
       PROVE  r.obj = m /\ r.put = put /\ ~no /\ r = Out(m, put)
  <2> HIDE DEF put, m, no
  <2>1. r = Out(m, put) /\ ~no
    BY <1>15, <1>17
  <2> QED BY <2>1 DEF Out
<1> HIDE DEF r, put, m
<1>18. r # Refused => Encoded(k, r)
  BY <1>12, <1>14, <1>17
<1>19. r # Refused => r.obj.topic # 0 \/ r.obj.topicAlias # 0
  BY <1>8, <1>17
<1> HIDE DEF no
<1> QED BY <1>15, <1>16, <1>17, <1>18, <1>19 DEF r, k, put

-----------------------------------------------------------------------------
(* CONNACK *)

ConnackProps == {"sessionExpiryInterval", "maxQos", "assignedIdentifier", "topicAliasMax", "reasonStr",
                 "serverKeepAlive", "responseInformation", "serverReference", "authMethod", "authData"}
ConnackPut(m) ==
  {"sessionPresent", "reasonCode", "propertiesLen", "userProperty"} \cup LimitedReceive(m)
    \cup NotOne(m, Availability \cup {"maxPacketSize"}) \cup NonZero(m, ConnackProps)

\* The fields of a CONNACK.
LEMMA ConnackFields ==
  /\ DOMAIN New("CONNACK") = {"remlen", "sessionPresent", "reasonCode", "propertiesLen", "userProperty",
                              "receiveMaximum", "maxPacketSize"} \cup Availability \cup ConnackProps
  /\ {"remlen", "sessionPresent", "reasonCode", "propertiesLen", "userProperty", "receiveMaximum",
      "maxPacketSize"} \cap (Availability \cup ConnackProps) = {}
  /\ Availability \cap ConnackProps = {}
BY Domains DEF Availability, ConnackProps

\* The encoders of CONNACK.
LEMMA ConnackEncoded ==
  ASSUME NEW o, Message("CONNACK", o)
  PROVE  LET r == Encode("CONNACK", o)
         IN  /\ EncodeToBuf("CONNACK", o) = r
             /\ r # Refused => /\ Encoded("CONNACK", r) /\ r.put = ConnackPut(r.obj)
                               /\ LimitedReceive(r.obj) = {} => r.obj.receiveMaximum = 65535
<1> DEFINE k == "CONNACK"
           v == IF LimitedReceive(o) = {} THEN 65535 ELSE o.receiveMaximum
           p == [o EXCEPT !["receiveMaximum"] = v]
           P == {"userProperty"} \cup LimitedReceive(o) \cup NotOne(o, Availability)
                  \cup NonZero(o, ConnackProps \cup {"maxPacketSize"})
           X == {"sessionPresent"} \cup {"reasonCode"}
           plen == Total(o, P)
           L == lbEncode(plen)
           n == 1 + 1 + plen + L
           b == ConnackBuild(o)
           put == ConnackPut(b)
           r == Encode("CONNACK", o)
<1>0. k \in AllKinds /\ k # "CONNECT"
  BY DEF AllKinds
<1>1. /\ P \subseteq DOMAIN New(k) \ {"remlen", "propertiesLen"} /\ X \subseteq DOMAIN New(k) \ {"remlen", "propertiesLen"}
      /\ "packetId" \notin P /\ "packetId" \notin DOMAIN New(k)
      /\ "sessionPresent" \in DOMAIN New(k) \ {"remlen"} /\ "reasonCode" \in DOMAIN New(k) \ {"remlen"}
      /\ "receiveMaximum" \in DOMAIN New(k) \ {"remlen", "propertiesLen"}
  <2>1. LimitedReceive(o) \subseteq {"receiveMaximum"} /\ NotOne(o, Availability) \subseteq Availability
          /\ NonZero(o, ConnackProps \cup {"maxPacketSize"}) \subseteq ConnackProps \cup {"maxPacketSize"}
    BY DEF LimitedReceive, NotOne, NonZero
  <2>2. "packetId" \notin Availability \cup ConnackProps
    BY DEF Availability, ConnackProps
  <2> HIDE DEF P, X
  <2> QED BY <2>1, <2>2, ConnackFields DEF P, X
<1>2. /\ P \subseteq Identified \cup UserProperties /\ X \cap (Identified \cup UserProperties) = {}
  <2>1. LimitedReceive(o) \subseteq {"receiveMaximum"} /\ NotOne(o, Availability) \subseteq Availability
          /\ NonZero(o, ConnackProps \cup {"maxPacketSize"}) \subseteq ConnackProps \cup {"maxPacketSize"}
    BY DEF LimitedReceive, NotOne, NonZero
  <2>2. Availability \cup ConnackProps \cup {"maxPacketSize", "receiveMaximum"} \subseteq Identified
    BY DEF Availability, ConnackProps, Identified, OneByte, TwoBytes, FourBytes, Strings
  <2>3. X \cap (Identified \cup UserProperties) = {}
    BY DEF Identified, OneByte, TwoBytes, FourBytes, Strings, UserProperties
  <2>4. "userProperty" \in UserProperties
    BY DEF UserProperties
  <2> HIDE DEF P, X
  <2> QED BY <2>1, <2>2, <2>3, <2>4 DEF P
<1>3. plen \in Nat /\ L \in Nat
  <2> HIDE DEF P
  <2> QED BY <1>0, <1>1, Measured, VarintSize
<1>4. n \in Nat
  <2> HIDE DEF plen, L
  <2> QED BY <1>3
<1>5. Message(k, p) /\ p.receiveMaximum = v /\ p.remlen = o.remlen
        /\ \A f \in DOMAIN New(k) \ {"receiveMaximum"} : p[f] = o[f]
  <2>1. v \in Word
    <3>1. o.receiveMaximum \in Word
      BY <1>1, NumberFields DEF Message
    <3> QED BY <3>1 DEF Word
  <2> HIDE DEF v
  <2>2. FieldType(k, "receiveMaximum") = Word
    BY NumberFields
  <2>3. Message(k, p)
    BY <1>0, <2>1, <2>2, SetOne
  <2>4. DOMAIN o = DOMAIN New(k)
    BY DEF Message
  <2> QED BY <1>1, <2>3, <2>4, ConnackFields
<1>6. Total(p, P) = Total(o, P)
  <2>1. ASSUME NEW f \in P
        PROVE  p[f] = o[f]
    <3>1. CASE f = "receiveMaximum"
      <4>1. "receiveMaximum" \in LimitedReceive(o)
        <5>1. "receiveMaximum" \notin Availability \cup ConnackProps
          BY ConnackFields
        <5> QED BY <3>1, <5>1 DEF NotOne, NonZero
      <4>2. v = o.receiveMaximum
        BY <4>1
      <4> HIDE DEF p, v
      <4> QED BY <1>5, <3>1, <4>2
    <3>2. CASE f # "receiveMaximum"
      <4> HIDE DEF p, P, v
      <4> QED BY <1>1, <1>5, <3>2
    <3> QED BY <3>1, <3>2
  <2> HIDE DEF p, P
  <2> QED BY <2>1, TotalAgree
<1>7. b = SetRemainingLength([p EXCEPT !.propertiesLen = Total(p, P)], n)
  <2>1. b = SetRemainingLength([o EXCEPT !.receiveMaximum = IF LimitedReceive(o) = {} THEN 65535 ELSE @,
                                         !.propertiesLen = plen], n)
    <3>1. P = {"userProperty"} \cup LimitedReceive(o) \cup NotOne(o, Availability)
                \cup NonZero(o, {"sessionExpiryInterval", "maxQos", "maxPacketSize", "assignedIdentifier",
                                 "topicAliasMax", "reasonStr", "serverKeepAlive", "responseInformation",
                                 "serverReference", "authMethod", "authData"})
      BY DEF NonZero, ConnackProps
    <3> HIDE DEF P
    <3> QED BY <3>1 DEF ConnackBuild
  <2>2. [o EXCEPT !.receiveMaximum = IF LimitedReceive(o) = {} THEN 65535 ELSE @, !.propertiesLen = plen]
          = [p EXCEPT !.propertiesLen = Total(p, P)]
    <3> DEFINE t == Total(p, P)
    <3>1. t = plen
      BY <1>6
    <3>2. p = [o EXCEPT !.receiveMaximum = v]
      OBVIOUS
    <3>3. v = IF LimitedReceive(o) = {} THEN 65535 ELSE o.receiveMaximum
      OBVIOUS
    <3> HIDE DEF p, v, t, P, plen
    <3>4. [o EXCEPT !.receiveMaximum = IF LimitedReceive(o) = {} THEN 65535 ELSE @, !.propertiesLen = plen]
            = [o EXCEPT !.receiveMaximum = v, !.propertiesLen = plen]
      BY <3>3
    <3>5. [o EXCEPT !.receiveMaximum = v, !.propertiesLen = plen] = [p EXCEPT !.propertiesLen = t]
      BY <3>1, <3>2
    <3>6. [o EXCEPT !.receiveMaximum = IF LimitedReceive(o) = {} THEN 65535 ELSE @, !.propertiesLen = plen]
            = [p EXCEPT !.propertiesLen = t]
      BY <3>4, <3>5
    <3> QED BY <3>6 DEF t
  <2> HIDE DEF b, p, plen, n
  <2> QED BY <2>1, <2>2
<1> HIDE DEF k, P, plen, n, b, L, p, v
<1>8. Builds(k, p, P, n, b)
  BY <1>0, <1>1, <1>4, <1>5, <1>7, Built
<1>9. /\ Message(k, b) /\ b.receiveMaximum = v
      /\ \A f \in DOMAIN New(k) \ {"remlen", "propertiesLen", "receiveMaximum"} : b[f] = o[f]
  BY <1>1, <1>5, <1>8 DEF Builds
<1>10. /\ LimitedReceive(b) = LimitedReceive(o) /\ (LimitedReceive(b) = {} => b.receiveMaximum = 65535)
       /\ NotOne(b, Availability \cup {"maxPacketSize"}) = NotOne(o, Availability \cup {"maxPacketSize"})
       /\ NonZero(b, ConnackProps) = NonZero(o, ConnackProps)
       /\ b.maxPacketSize = o.maxPacketSize
  <2>1. LimitedReceive(b) = LimitedReceive(o)
    BY <1>9 DEF LimitedReceive, v
  <2>2. \A f \in Availability \cup ConnackProps \cup {"maxPacketSize"} : b[f] = o[f]
    BY <1>9, ConnackFields DEF k
  <2>3. NotOne(b, Availability \cup {"maxPacketSize"}) = NotOne(o, Availability \cup {"maxPacketSize"})
    BY <2>2 DEF NotOne
  <2>4. NonZero(b, ConnackProps) = NonZero(o, ConnackProps)
    BY <2>2 DEF NonZero
  <2> QED BY <1>9, <2>1, <2>2, <2>3, <2>4 DEF v
<1>11. Total(b, X) = 2
  <2>1. Total(b, {"sessionPresent"} \cup {"reasonCode"}) = Total(b, {"sessionPresent"}) + Size("reasonCode", b["reasonCode"])
    <3>1. {"sessionPresent"} \subseteq DOMAIN New(k) \ {"remlen"} /\ "reasonCode" \notin {"sessionPresent"}
      BY <1>1
    <3> QED BY <1>0, <1>1, <1>9, <3>1, TotalField
  <2>2. Total(b, {"sessionPresent"}) = Size("sessionPresent", b["sessionPresent"])
    BY <1>0, <1>1, <1>9, TotalOne
  <2>3. Size("reasonCode", b["reasonCode"]) = 1 /\ Size("sessionPresent", b["sessionPresent"]) = 1
    BY FixedSizes
  <2> QED BY <2>1, <2>2, <2>3
<1>12. n = Total(p, P) + lbEncode(Total(p, P)) + 2
  <2>1. n = plen + L + 2
    BY <1>3 DEF n
  <2> QED BY <1>6, <2>1 DEF plen, L
<1>13. Encoded(k, Out(b, P \cup {"propertiesLen"} \cup X))
  <2> HIDE DEF X
  <2> QED BY <1>0, <1>1, <1>2, <1>4, <1>8, <1>9, <1>11, <1>12, Shaped
<1>14. put \subseteq DOMAIN New(k) \ {"remlen"}
  <2>1. LimitedReceive(b) \subseteq {"receiveMaximum"}
          /\ NotOne(b, Availability \cup {"maxPacketSize"}) \subseteq Availability \cup {"maxPacketSize"}
          /\ NonZero(b, ConnackProps) \subseteq ConnackProps
    BY DEF LimitedReceive, NotOne, NonZero
  <2> QED BY <2>1, ConnackFields DEF ConnackPut, k
<1>15. ~ Miscounted(k, b) => put = P \cup {"propertiesLen"} \cup X
  <2> SUFFICES ASSUME ~ Miscounted(k, b)
               PROVE  put = P \cup {"propertiesLen"} \cup X
    OBVIOUS
  <2>1. o.maxPacketSize # 0 /\ o.maxPacketSize # 1
    BY <1>10 DEF Miscounted, k
  <2>2. NotOne(o, Availability \cup {"maxPacketSize"}) = NotOne(o, Availability) \cup {"maxPacketSize"}
    BY <2>1 DEF NotOne
  <2>3. NonZero(o, ConnackProps \cup {"maxPacketSize"}) = NonZero(o, ConnackProps) \cup {"maxPacketSize"}
    BY <2>1 DEF NonZero
  <2>4. put = {"sessionPresent", "reasonCode", "propertiesLen", "userProperty"} \cup LimitedReceive(o)
                \cup (NotOne(o, Availability) \cup {"maxPacketSize"}) \cup NonZero(o, ConnackProps)
    <3>1. put = {"sessionPresent", "reasonCode", "propertiesLen", "userProperty"} \cup LimitedReceive(b)
                  \cup NotOne(b, Availability \cup {"maxPacketSize"}) \cup NonZero(b, ConnackProps)
      BY DEF ConnackPut
    <3> DEFINE A == Availability \cup {"maxPacketSize"}
               base == {"sessionPresent", "reasonCode", "propertiesLen", "userProperty"}
    <3>2. NotOne(b, A) = NotOne(o, A) /\ LimitedReceive(b) = LimitedReceive(o) /\ NonZero(b, ConnackProps) = NonZero(o, ConnackProps)
      BY <1>10
    <3>3. NotOne(o, A) = NotOne(o, Availability) \cup {"maxPacketSize"}
      BY <2>2
    <3>4. put = base \cup LimitedReceive(b) \cup NotOne(b, A) \cup NonZero(b, ConnackProps)
      BY <3>1
    <3> HIDE DEF A, base, put
    <3>5. put = base \cup LimitedReceive(o) \cup (NotOne(o, Availability) \cup {"maxPacketSize"}) \cup NonZero(o, ConnackProps)
      BY <3>2, <3>3, <3>4
    <3> QED BY <3>5 DEF base
  <2>5. P = {"userProperty"} \cup LimitedReceive(o) \cup NotOne(o, Availability)
              \cup (NonZero(o, ConnackProps) \cup {"maxPacketSize"})
    BY <2>3 DEF P
  <2> DEFINE l == LimitedReceive(o)
             a == NotOne(o, Availability)
             c == NonZero(o, ConnackProps)
  <2> HIDE DEF put, l, a, c
  <2>6. put = {"sessionPresent", "reasonCode", "propertiesLen", "userProperty"} \cup l \cup (a \cup {"maxPacketSize"}) \cup c
    BY <2>4 DEF l, a, c
  <2>7. P = {"userProperty"} \cup l \cup a \cup (c \cup {"maxPacketSize"})
    BY <2>5 DEF l, a, c
  <2> QED BY <2>6, <2>7
<1>16. Encoded(k, Out(b, put))
  <2>1. CASE Miscounted(k, b)
    <3>1. Measures(k, b, put)
      BY <2>1 DEF Measures
    <3> HIDE DEF put
    <3> QED BY <1>9, <1>14, <3>1 DEF Encoded, Out
  <2>2. CASE ~ Miscounted(k, b)
    BY <1>13, <1>15, <2>2
  <2> QED BY <2>1, <2>2
<1>17. r = IF b.reasonCode > 162 THEN Refused ELSE Out(b, put)
  <2>1. r = ConnackEncode(b)
    BY DEF Encode, Acks, b
  <2> HIDE DEF r
  <2> QED BY <2>1 DEF ConnackEncode, ConnackPut, ConnackProps
<1>18. EncodeToBuf("CONNACK", o) = IF b.reasonCode > 162 THEN Refused ELSE Out(b, put)
  <2>1. EncodeToBuf("CONNACK", o) = ConnackEncodeToBuf(b)
    BY DEF EncodeToBuf, Acks, b
  <2> DEFINE absent == {f \in Availability \cup {"maxPacketSize"} : b[f] = 1}
               \cup ({"receiveMaximum"} \ LimitedReceive(b)) \cup {f \in ConnackProps : b[f] = 0}
             all == DOMAIN b \ ({"remlen"} \cup absent)
  <2>2. ConnackEncodeToBuf(b) = IF b.reasonCode > 162 THEN Refused ELSE Out(b, all)
    BY DEF ConnackEncodeToBuf, ConnackProps
  <2>3. all = put
    <3>1. DOMAIN b = {"remlen", "sessionPresent", "reasonCode", "propertiesLen", "userProperty", "receiveMaximum",
                      "maxPacketSize"} \cup Availability \cup ConnackProps
      BY <1>9, ConnackFields DEF Message, k
    <3>2. LimitedReceive(b) \subseteq {"receiveMaximum"}
      BY DEF LimitedReceive
    <3>3. \A f : f \in all <=> f \in put
      <4> TAKE f
      <4>1. CASE f \in Availability \cup {"maxPacketSize"}
        BY <3>1, <3>2, <4>1, ConnackFields DEF ConnackPut, NotOne, NonZero
      <4>2. CASE f \in ConnackProps
        BY <3>1, <3>2, <4>2, ConnackFields DEF ConnackPut, NotOne, NonZero
      <4>3. CASE f \notin Availability \cup {"maxPacketSize"} \cup ConnackProps
        BY <3>1, <3>2, <4>3, ConnackFields DEF ConnackPut, NotOne, NonZero
      <4> QED BY <4>1, <4>2, <4>3
    <3> HIDE DEF all, put
    <3>4. all \subseteq DOMAIN b
      BY DEF all
    <3> QED BY <3>3
  <2> HIDE DEF all, put
  <2> QED BY <2>1, <2>2, <2>3
<1>19. r # Refused => r.obj = b /\ r.put = put
  <2> HIDE DEF put
  <2> QED BY <1>17 DEF Out
<1> HIDE DEF r, put
<1>20. r # Refused => Encoded(k, r)
  BY <1>16, <1>17
<1>21. EncodeToBuf("CONNACK", o) = r
  BY <1>17, <1>18
<1>22. r # Refused => r.put = ConnackPut(r.obj) /\ (LimitedReceive(r.obj) = {} => r.obj.receiveMaximum = 65535)
  <2> SUFFICES ASSUME r # Refused
               PROVE  r.put = ConnackPut(r.obj) /\ (LimitedReceive(r.obj) = {} => r.obj.receiveMaximum = 65535)
    OBVIOUS
  <2>1. r.obj = b /\ r.put = put
    BY <1>19
  <2> QED BY <1>10, <2>1 DEF put
<1> QED BY <1>20, <1>21, <1>22 DEF r, k

-----------------------------------------------------------------------------
(* CONNECT *)

\* The fields of a CONNECT: in its properties, in those of the will, elsewhere.
PlainFields == {"protoName", "version", "connectFlags", "keepAlive", "clientId", "willTopic", "willMessage",
                "username", "password"}
OptionalProps == {"sessionExpiryInterval", "topicAliasMax", "requestRespInfo", "authMethod", "authData"}
OptionalWill == {"willDelayInterval", "willMsgExpiryInterval", "contentType", "responseTopic", "correlationData"}
ConnectProps == {"userProperty", "receiveMaximum", "requestProblemInfo", "maxPacketSize"} \cup OptionalProps
WillProps == {"payloadFormatIndicator"} \cup OptionalWill

\* They are apart, and make up the message.
LEMMA ConnectClasses ==
  /\ PlainFields \cap ConnectProps = {} /\ PlainFields \cap WillProps = {} /\ ConnectProps \cap WillProps = {}
  /\ {"remlen", "propertiesLen", "willPropertiesLen", "willQos", "willUserProperty"}
       \cap (PlainFields \cup ConnectProps \cup WillProps) = {}
  /\ DOMAIN New("CONNECT") = PlainFields \cup ConnectProps \cup WillProps
       \cup {"remlen", "propertiesLen", "willPropertiesLen", "willQos", "willUserProperty"}
  /\ ConnectProps \cup WillProps \cup {"willUserProperty"} \subseteq Identified \cup UserProperties
  /\ (PlainFields \cup {"propertiesLen", "willPropertiesLen", "willQos"}) \cap (Identified \cup UserProperties) = {}
  /\ ConnectProps \cap WillProperties = {} /\ WillProps \cup {"willUserProperty"} \subseteq WillProperties
<1> USE DEF PlainFields, OptionalProps, OptionalWill, ConnectProps, WillProps
<1>1. PlainFields \cap ConnectProps = {} /\ PlainFields \cap WillProps = {} /\ ConnectProps \cap WillProps = {}
  OBVIOUS
<1>2. {"remlen", "propertiesLen", "willPropertiesLen", "willQos", "willUserProperty"}
        \cap (PlainFields \cup ConnectProps \cup WillProps) = {}
  OBVIOUS
<1>3. DOMAIN New("CONNECT") = PlainFields \cup ConnectProps \cup WillProps
        \cup {"remlen", "propertiesLen", "willPropertiesLen", "willQos", "willUserProperty"}
  BY Domains
<1>4. ConnectProps \cup WillProps \cup {"willUserProperty"} \subseteq Identified \cup UserProperties
  BY DEF Identified, OneByte, TwoBytes, FourBytes, Strings, UserProperties
<1>5. (PlainFields \cup {"propertiesLen", "willPropertiesLen", "willQos"}) \cap (Identified \cup UserProperties) = {}
  BY DEF Identified, OneByte, TwoBytes, FourBytes, Strings, UserProperties
<1>6. ConnectProps \cap WillProperties = {} /\ WillProps \cup {"willUserProperty"} \subseteq WillProperties
  BY DEF WillProperties
<1> QED BY <1>1, <1>2, <1>3, <1>4, <1>5, <1>6

\* What build leaves of a CONNECT.
Lengthened(o, plen, wlen, n) == SetRemainingLength([o EXCEPT !.propertiesLen = plen, !.willPropertiesLen = wlen], n)

ConnectBuilds(o, plen, wlen, n, c) ==
  /\ Message("CONNECT", c) /\ c.propertiesLen = plen /\ c.willPropertiesLen = wlen
  /\ c.remlen = IF n <= maxRemainingLength THEN n ELSE o.remlen
  /\ \A f \in PlainFields \cup ConnectProps \cup WillProps \cup {"willQos", "willUserProperty"} : c[f] = o[f]

\* ... whatever the lengths.
LEMMA ConnectBuilt ==
  ASSUME NEW o, Message("CONNECT", o), NEW plen \in Nat, NEW wlen \in Nat, NEW n \in Nat,
         NEW c, c = Lengthened(o, plen, wlen, n)
  PROVE  ConnectBuilds(o, plen, wlen, n, c)
<1> DEFINE k == "CONNECT"
           q == [o EXCEPT !["willPropertiesLen"] = wlen]
           b == SetRemainingLength([q EXCEPT !.propertiesLen = plen], n)
<1>0. k \in AllKinds
  BY DEF AllKinds
<1>1. FieldType(k, "willPropertiesLen") = Nat /\ "willPropertiesLen" \in DOMAIN New(k) /\ "remlen" \in DOMAIN New(k)
        /\ DOMAIN o = DOMAIN New(k)
  <2>1. "willPropertiesLen" \in AllFields \ (Lists \cup {"connectFlags", "receiveMaximum"})
    BY DEF AllFields, Varints, Lists, UserProperties
  <2>2. FieldType(k, "willPropertiesLen") = Nat
    BY <2>1, NumberFields
  <2> QED BY <2>2, ConnectClasses DEF Message
<1>2. Message(k, q)
  BY <1>0, <1>1, SetOne
<1>3. q.willPropertiesLen = wlen /\ q.remlen = o.remlen /\ \A f \in DOMAIN New(k) \ {"willPropertiesLen"} : q[f] = o[f]
  BY <1>1
<1>4. [o EXCEPT !.propertiesLen = plen, !.willPropertiesLen = wlen] = [q EXCEPT !.propertiesLen = plen]
  OBVIOUS
<1> HIDE DEF q
<1>5. /\ Message(k, b) /\ b.propertiesLen = plen
      /\ b.remlen = IF n <= maxRemainingLength THEN n ELSE q.remlen
      /\ \A f \in DOMAIN New(k) \ {"remlen", "propertiesLen"} : b[f] = q[f]
  BY <1>0, <1>2, LengthsSet
<1>6. c = b
  BY <1>4 DEF Lengthened
<1> HIDE DEF b
<1>7. b.willPropertiesLen = wlen
  BY <1>1, <1>3, <1>5
<1>8. \A f \in PlainFields \cup ConnectProps \cup WillProps \cup {"willQos", "willUserProperty"} : b[f] = o[f]
  BY <1>3, <1>5, ConnectClasses
<1>9. /\ Message(k, b) /\ b.propertiesLen = plen /\ b.willPropertiesLen = wlen
      /\ b.remlen = IF n <= maxRemainingLength THEN n ELSE o.remlen
      /\ \A f \in PlainFields \cup ConnectProps \cup WillProps \cup {"willQos", "willUserProperty"} : b[f] = o[f]
  BY <1>3, <1>5, <1>7, <1>8
<1> QED BY <1>6, <1>9 DEF k, ConnectBuilds

\* The lengths of a CONNECT without a will, ...
LEMMA ConnectPlain ==
  ASSUME NEW m, Message("CONNECT", m), NEW P, NEW Y, P \subseteq ConnectProps, Y \subseteq PlainFields,
         m.propertiesLen = Total(m, P)
  PROVE  LET put == (P \cup Y \cup {"willQos"}) \cup {"propertiesLen"}
             n == Total(m, Y) + Total(m, P) + lbEncode(Total(m, P))
         IN  /\ Total(m, put) = n /\ n \in Nat
             /\ (n <= maxRemainingLength => m.remlen = n) => Measures("CONNECT", m, put)
<1> DEFINE k == "CONNECT"
           a == Total(m, P)
           b == lbEncode(a)
           c == Total(m, Y)
           q == Size("willQos", m["willQos"])
           l == Size("propertiesLen", m["propertiesLen"])
           PY == P \cup Y
           Z == PY \cup {"willQos"}
           put == Z \cup {"propertiesLen"}
           t == Total(m, put)
           n == c + a + b
<1>0. k \in AllKinds
  BY DEF AllKinds
<1>1. Total(m, PY) = a + c /\ a \in Nat /\ c \in Nat
  <2>1. P \subseteq DOMAIN New(k) \ {"remlen"} /\ Y \subseteq DOMAIN New(k) \ {"remlen"} /\ P \cap Y = {}
    BY ConnectClasses
  <2> QED BY <1>0, <2>1, TotalOf
<1>2. q = 0 /\ l = b /\ b \in Nat
  <2>1. q = 0 /\ l = lbEncode(m.propertiesLen)
    BY FixedSizes
  <2> QED BY <2>1, VarintSize
<1>3. Total(m, Z) = Total(m, PY) + q
  <2> DEFINE g == "willQos"
  <2>1. PY \subseteq DOMAIN New(k) \ {"remlen"} /\ g \in DOMAIN New(k) \ {"remlen"} /\ g \notin PY
    BY ConnectClasses
  <2> HIDE DEF PY, g, k
  <2>2. Total(m, PY \cup {g}) = Total(m, PY) + Size(g, m[g])
    BY <1>0, <2>1, TotalField DEF k
  <2> QED BY <2>2 DEF g
<1>4. t = Total(m, Z) + l
  <2> DEFINE g == "propertiesLen"
  <2>1. Z \subseteq DOMAIN New(k) \ {"remlen"} /\ g \in DOMAIN New(k) \ {"remlen"} /\ g \notin Z
    BY ConnectClasses
  <2> HIDE DEF Z, g, k
  <2>2. Total(m, Z \cup {g}) = Total(m, Z) + Size(g, m[g])
    BY <1>0, <2>1, TotalField DEF k
  <2> QED BY <2>2 DEF g
<1>5. {f \in put : f \in Identified \cup UserProperties} = P /\ P \cap WillProperties = {} /\ P \ {} = P
        /\ "willPropertiesLen" \notin put /\ "propertiesLen" \in put
  BY ConnectClasses
<1> HIDE DEF a, b, c, q, l, PY, Z, t, put, n
<1>6. t = n /\ n \in Nat
  BY <1>1, <1>2, <1>3, <1>4 DEF n
<1>7. ASSUME n <= maxRemainingLength => m.remlen = n
      PROVE  Measures(k, m, put)
  <2>1. Total(m, put) <= maxRemainingLength => m.remlen = Total(m, put)
    BY <1>6, <1>7 DEF t
  <2>2. m.propertiesLen = Total(m, P)
    OBVIOUS
  <2> HIDE DEF k
  <2> QED BY <1>5, <2>1, <2>2 DEF Measures
<1> QED BY <1>6, <1>7 DEF t, n, put, Z, PY, k, a, b, c

\* ... and with one.
LEMMA ConnectWill ==
  ASSUME NEW m, Message("CONNECT", m), NEW P, NEW Y, NEW W, P \subseteq ConnectProps, Y \subseteq PlainFields,
         W \subseteq WillProps, m.propertiesLen = Total(m, P), m.willPropertiesLen = Total(m, W),
         m.willUserProperty = <<>>
  PROVE  LET put == ((P \cup Y \cup {"willQos"}) \cup {"propertiesLen"})
                       \cup ((W \cup {"willUserProperty"}) \cup {"willPropertiesLen"})
             n == Total(m, Y) + Total(m, P) + lbEncode(Total(m, P)) + Total(m, W) + lbEncode(Total(m, W))
         IN  /\ n \in Nat
             /\ (n <= maxRemainingLength => m.remlen = n) => Measures("CONNECT", m, put)
<1> DEFINE k == "CONNECT"
           a == Total(m, P)
           b == lbEncode(a)
           c == Total(m, Y)
           d == Total(m, W)
           e == lbEncode(d)
           u == Size("willUserProperty", m["willUserProperty"])
           l == Size("willPropertiesLen", m["willPropertiesLen"])
           A == (P \cup Y \cup {"willQos"}) \cup {"propertiesLen"}
           V == W \cup {"willUserProperty"}
           B == V \cup {"willPropertiesLen"}
           put == A \cup B
           n == c + a + b + d + e
<1>0. k \in AllKinds
  BY DEF AllKinds
<1>1. Total(m, A) = c + a + b
  BY ConnectPlain
<1>2. u = 0
  <2>1. "willUserProperty" \in UserProperties /\ "willUserProperty" \notin Identified
    BY DEF UserProperties, Identified, OneByte, TwoBytes, FourBytes, Strings
  <2>2. <<>> \in Seq(Nat)
    OBVIOUS
  <2>3. buildUserPropertyLen(<<>>) = 0
    BY <2>2, UserPropertyLength
  <2> DEFINE id == IF "willUserProperty" \in Identified THEN 1 ELSE 0
             x == buildUserPropertyLen(m.willUserProperty)
  <2>4. u = id + x
    <3> USE DEF id
    <3> QED BY <2>1, SizeByClass, Zenon
  <2>5. id = 0 /\ x = 0
    BY <2>1, <2>3
  <2> HIDE DEF id, x, u
  <2> QED BY <2>4, <2>5
<1>3. l = e /\ e \in Nat /\ b \in Nat
  <2>1. l = lbEncode(m.willPropertiesLen)
    BY FixedSizes
  <2> QED BY <2>1, VarintSize
<1>4. /\ A \subseteq DOMAIN New(k) \ {"remlen"} /\ B \subseteq DOMAIN New(k) \ {"remlen"} /\ A \cap B = {}
      /\ P \subseteq DOMAIN New(k) \ {"remlen"} /\ Y \subseteq DOMAIN New(k) \ {"remlen"}
      /\ W \subseteq DOMAIN New(k) \ {"remlen"} /\ V \subseteq DOMAIN New(k) \ {"remlen"}
      /\ "willUserProperty" \in DOMAIN New(k) \ {"remlen"} /\ "willUserProperty" \notin W
      /\ "willPropertiesLen" \in DOMAIN New(k) \ {"remlen"} /\ "willPropertiesLen" \notin V
  BY ConnectClasses
<1>5. {f \in put : f \in Identified \cup UserProperties} = P \cup V /\ (P \cup V) \cap WillProperties = V
        /\ (P \cup V) \ V = P /\ "willPropertiesLen" \in put /\ "propertiesLen" \in put
  BY ConnectClasses
<1> HIDE DEF a, b, c, d, e, u, l, A, B, V, put, n, k
<1>6. a \in Nat /\ c \in Nat /\ d \in Nat
  BY <1>0, <1>4, Measured DEF a, c, d, k
<1>7. Total(m, V) = d + u
  <2> DEFINE g == "willUserProperty"
  <2>1. g \in DOMAIN New(k) \ {"remlen"} /\ g \notin W
    BY <1>4
  <2> HIDE DEF g
  <2>2. Total(m, W \cup {g}) = Total(m, W) + Size(g, m[g])
    BY <1>0, <1>4, <2>1, TotalField DEF k
  <2> QED BY <2>2 DEF g, V, d, u
<1>8. Total(m, B) = Total(m, V) + l
  <2> DEFINE g == "willPropertiesLen"
  <2>1. g \in DOMAIN New(k) \ {"remlen"} /\ g \notin V
    BY <1>4
  <2> HIDE DEF g
  <2>2. Total(m, V \cup {g}) = Total(m, V) + Size(g, m[g])
    BY <1>0, <1>4, <2>1, TotalField DEF k
  <2> QED BY <2>2 DEF g, B, l
<1>9. Total(m, put) = Total(m, A) + Total(m, B)
  BY <1>0, <1>4, TotalOf DEF k, put
<1>10. Total(m, V) = d
  BY <1>2, <1>6, <1>7
<1>11. Total(m, put) = n /\ n \in Nat
  BY <1>1, <1>3, <1>6, <1>8, <1>9, <1>10 DEF n
<1>12. ASSUME n <= maxRemainingLength => m.remlen = n
       PROVE  Measures(k, m, put)
  <2>1. Total(m, put) <= maxRemainingLength => m.remlen = Total(m, put)
    BY <1>11, <1>12
  <2>2. m.propertiesLen = Total(m, P) /\ m.willPropertiesLen = Total(m, V)
    BY <1>10 DEF d
  <2>3. (IF k = "CONNECT" THEN (P \cup V) \cap WillProperties ELSE {}) = V
    BY <1>5 DEF k
  <2> QED BY <1>5, <2>1, <2>2, <2>3 DEF Measures
<1> QED BY <1>11, <1>12 DEF n, put, A, B, V, k, a, b, c, d, e

\* What the encoders of CONNECT write.
ConnectPut(m) == encodeMessage(m)

\* They write the same.
LEMMA ConnectSame ==
  ASSUME NEW b, Message("CONNECT", b)
  PROVE  encodeMessageToBuf(b) = encodeMessage(b) /\ encodeMessage(b) \subseteq DOMAIN New("CONNECT") \ {"remlen"}
<1> DEFINE all == encodeMessageToBuf(b)
           put == encodeMessage(b)
           WF == WillFields(b)
           has == "willFlag" \in b.connectFlags
           LR == LimitedReceive(b)
           U == Optional(b, "username", "usernameFlag")
           W == Optional(b, "password", "passwordFlag")
           Names == PlainFields \cup ConnectProps \cup WillProps
                      \cup {"propertiesLen", "willPropertiesLen", "willQos", "willUserProperty"}
<1>1. DOMAIN b = Names \cup {"remlen"} /\ "remlen" \notin Names
  <2>1. DOMAIN b = DOMAIN New("CONNECT")
    BY DEF Message
  <2> QED BY <2>1, ConnectClasses
<1>2. WF \subseteq WillProps \cup {"willPropertiesLen", "willUserProperty", "willTopic", "willMessage"}
        /\ LR \subseteq {"receiveMaximum"} /\ U \subseteq {"username"} /\ W \subseteq {"password"}
  BY DEF WillFields, NonZero, LimitedReceive, Optional, WillProps, OptionalWill
<1>3. \A f : f \in put <=>
        \/ f \in {"protoName", "version", "connectFlags", "willQos", "keepAlive", "propertiesLen", "maxPacketSize",
                  "userProperty", "clientId"}
        \/ f \in LR
        \/ f = "requestProblemInfo" /\ b[f] # 1
        \/ f \in OptionalProps /\ b[f] # 0
        \/ has /\ f \in WF
        \/ f \in U
        \/ f \in W
  <2> HIDE DEF WF, LR, U, W, has
  <2> QED BY DEF encodeMessage, NotOne, NonZero, OptionalProps, WF, LR, U, W, has
<1>4. put \subseteq Names
  <2> HIDE DEF put, WF, LR, U, W, has
  <2>1. WF \subseteq Names /\ LR \subseteq Names /\ U \subseteq Names /\ W \subseteq Names /\ OptionalProps \subseteq Names
    BY <1>2 DEF PlainFields, ConnectProps
  <2>2. {"protoName", "version", "connectFlags", "willQos", "keepAlive", "propertiesLen", "maxPacketSize",
         "userProperty", "clientId", "requestProblemInfo"} \subseteq Names
    BY DEF PlainFields, ConnectProps
  <2> QED BY <1>3, <2>1, <2>2
<1>5. \A f : f \in all <=>
        \/ /\ f \in Names
           /\ f \notin WillProps \cup {"willPropertiesLen", "willUserProperty", "willTopic", "willMessage"}
           /\ ~ (f \in OptionalProps /\ b[f] = 0)
           /\ ~ (f = "receiveMaximum" /\ f \notin LR)
           /\ ~ (f = "requestProblemInfo" /\ b[f] = 1)
           /\ ~ (f = "username" /\ f \notin U)
           /\ ~ (f = "password" /\ f \notin W)
        \/ has /\ f \in WF
  <2> DEFINE fields == DOMAIN b \ {"remlen"}
             absent == {f \in OptionalProps : b[f] = 0} \cup ({"receiveMaximum"} \ LR)
                         \cup {f \in {"requestProblemInfo"} : b[f] = 1} \cup ({"username"} \ U) \cup ({"password"} \ W)
             will == {f \in fields : f \in {"willPropertiesLen", "willDelayInterval", "payloadFormatIndicator",
                       "willMsgExpiryInterval", "contentType", "responseTopic", "correlationData",
                       "willUserProperty", "willTopic", "willMessage"}}
             rest == IF has THEN WF ELSE {}
  <2>1. all = (fields \ (absent \cup will)) \cup rest
    BY DEF encodeMessageToBuf, OptionalProps
  <2>2. fields = Names
    BY <1>1
  <2>3. \A f : f \in will <=>
          f \in Names /\ f \in WillProps \cup {"willPropertiesLen", "willUserProperty", "willTopic", "willMessage"}
    BY <2>2 DEF WillProps, OptionalWill
  <2>4. \A f : f \in rest <=> has /\ f \in WF
    OBVIOUS
  <2> HIDE DEF all, fields, will, rest, LR, U, W, has, WF, Names
  <2> QED BY <2>1, <2>2, <2>3, <2>4
<1>6. \A f : f \in all <=> f \in put
  <2> TAKE f
  <2>1. ~ (f \in Names) => (f \in all <=> f \in put)
    <3> HIDE DEF put, all
    <3>1. WF \subseteq Names
      <4> HIDE DEF WF
      <4> QED BY <1>2 DEF PlainFields
    <3> HIDE DEF Names, WF, has
    <3> QED BY <1>4, <1>5, <3>1
  <2>2. CASE f \in PlainFields
    <3> HIDE DEF put, all, WF, LR, U, W, has
    <3> USE DEF PlainFields, ConnectProps, WillProps, OptionalProps, OptionalWill
    <3> QED BY <1>2, <1>3, <1>5, <2>2
  <2>3. CASE f \in ConnectProps
    <3> HIDE DEF put, all, WF, LR, U, W, has
    <3> USE DEF PlainFields, ConnectProps, WillProps, OptionalProps, OptionalWill
    <3> QED BY <1>2, <1>3, <1>5, <2>3
  <2>4. CASE f \in WillProps \cup {"propertiesLen", "willPropertiesLen", "willQos", "willUserProperty"}
    <3> HIDE DEF put, all, WF, LR, U, W, has
    <3> USE DEF PlainFields, ConnectProps, WillProps, OptionalProps, OptionalWill
    <3> QED BY <1>2, <1>3, <1>5, <2>4
  <2> QED BY <2>1, <2>2, <2>3, <2>4
<1>7. all = put
  <2>1. \A f : f \in all => f \in DOMAIN b \cup WF
    BY <1>1, <1>5
  <2> HIDE DEF all, put
  <2> QED BY <1>6
<1> HIDE DEF all, put
<1>8. put \subseteq DOMAIN New("CONNECT") \ {"remlen"}
  BY <1>1, <1>4 DEF Message
<1> QED BY <1>7, <1>8 DEF all, put

\* The encoders of CONNECT.
LEMMA ConnectEncoded ==
  ASSUME NEW o, Message("CONNECT", o)
  PROVE  LET r == Encode("CONNECT", o)
         IN  /\ EncodeToBuf("CONNECT", o) = r
             /\ r # Refused => /\ Encoded("CONNECT", r) /\ r.put = ConnectPut(r.obj) /\ r.obj.version = 5
<1> DEFINE k == "CONNECT"
           Y(m) == {"protoName", "version", "connectFlags", "keepAlive", "clientId"}
                     \cup Optional(m, "willTopic", "willFlag") \cup Optional(m, "willMessage", "willFlag")
                     \cup {f \in {"username"} : "usernameFlag" \in m.connectFlags}
                     \cup {f \in {"password"} : "passwordFlag" \in m.connectFlags}
           P(m) == {"userProperty"} \cup LimitedReceive(m) \cup NotOne(m, {"requestProblemInfo"})
                     \cup NonZero(m, {"sessionExpiryInterval", "maxPacketSize", "topicAliasMax",
                                      "requestRespInfo", "authMethod", "authData"})
           W(m) == {f \in {"payloadFormatIndicator"} : m[f] = 1}
                     \cup NonZero(m, {"willDelayInterval", "willMsgExpiryInterval", "contentType",
                                      "responseTopic", "correlationData"})
           c == Total(o, Y(o))
           a == Total(o, P(o))
           d == Total(o, W(o))
           u == Total(o, {"willUserProperty"})
           has == "willFlag" \in o.connectFlags
           v == IF has THEN d + lbEncode(d) ELSE 0
           n == c + a + u + lbEncode(a) + v
           b == ConnectBuild(o)
           put == ConnectPut(b)
           r == Encode("CONNECT", o)
<1>0. k \in AllKinds
  BY DEF AllKinds
<1>1. ASSUME NEW m
      PROVE  Y(m) \subseteq PlainFields /\ P(m) \subseteq ConnectProps /\ W(m) \subseteq WillProps
  BY DEF PlainFields, ConnectProps, WillProps, OptionalProps, OptionalWill, Optional, LimitedReceive, NotOne, NonZero
<1>2. b = SetRemainingLength([o EXCEPT !.propertiesLen = a, !.willPropertiesLen = d], n)
  BY DEF ConnectBuild
<1>3. ASSUME NEW m, \A f \in PlainFields \cup ConnectProps \cup WillProps \cup {"willQos", "willUserProperty"} : m[f] = o[f]
      PROVE  Y(m) = Y(o) /\ P(m) = P(o) /\ W(m) = W(o)
  <2>1. m["connectFlags"] = o["connectFlags"] /\ m["willTopic"] = o["willTopic"] /\ m["willMessage"] = o["willMessage"]
    BY <1>3 DEF PlainFields
  <2>2. Y(m) = Y(o)
    BY <2>1 DEF Optional
  <2>3. LimitedReceive(m) = LimitedReceive(o)
    <3>1. m["receiveMaximum"] = o["receiveMaximum"]
      BY <1>3 DEF ConnectProps
    <3> QED BY <3>1 DEF LimitedReceive
  <2>4. NotOne(m, {"requestProblemInfo"}) = NotOne(o, {"requestProblemInfo"})
    <3>1. m["requestProblemInfo"] = o["requestProblemInfo"]
      BY <1>3 DEF ConnectProps
    <3> QED BY <3>1 DEF NotOne
  <2> DEFINE S == {"sessionExpiryInterval", "maxPacketSize", "topicAliasMax", "requestRespInfo", "authMethod", "authData"}
             T == {"willDelayInterval", "willMsgExpiryInterval", "contentType", "responseTopic", "correlationData"}
  <2>5. NonZero(m, S) = NonZero(o, S)
    <3>1. S \subseteq ConnectProps
      BY DEF ConnectProps, OptionalProps
    <3> HIDE DEF S
    <3> QED BY <1>3, <3>1 DEF NonZero
  <2>6. NonZero(m, T) = NonZero(o, T)
    <3>1. T \subseteq WillProps
      BY DEF WillProps, OptionalWill
    <3> HIDE DEF T
    <3> QED BY <1>3, <3>1 DEF NonZero
  <2>7. m["payloadFormatIndicator"] = o["payloadFormatIndicator"]
    BY <1>3 DEF WillProps
  <2>8. P(m) = P(o)
    BY <2>3, <2>4, <2>5
  <2>9. W(m) = W(o)
    BY <2>6, <2>7
  <2> QED BY <2>2, <2>8, <2>9
<1>4. a \in Nat /\ d \in Nat /\ c \in Nat /\ u \in Nat
  <2>1. Y(o) \subseteq DOMAIN New(k) \ {"remlen"} /\ P(o) \subseteq DOMAIN New(k) \ {"remlen"}
          /\ W(o) \subseteq DOMAIN New(k) \ {"remlen"} /\ {"willUserProperty"} \subseteq DOMAIN New(k) \ {"remlen"}
    <3>1. Y(o) \subseteq PlainFields /\ P(o) \subseteq ConnectProps /\ W(o) \subseteq WillProps
      BY <1>1
    <3> HIDE DEF Y, P, W
    <3> QED BY <3>1, ConnectClasses
  <2> HIDE DEF Y, P, W, k
  <2> QED BY <1>0, <2>1, Measured DEF k
<1> HIDE DEF a, d, c, u, Y, P, W
<1>5. n \in Nat
  <2>1. lbEncode(a) \in Nat /\ lbEncode(d) \in Nat
    BY VarintSize
  <2>2. v \in Nat
    BY <1>4, <2>1
  <2> HIDE DEF v
  <2> QED BY <1>4, <2>1, <2>2
<1> HIDE DEF n, b
<1>6. /\ Message("CONNECT", b) /\ b.propertiesLen = a /\ b.willPropertiesLen = d
      /\ b.remlen = IF n <= maxRemainingLength THEN n ELSE o.remlen
      /\ \A f \in PlainFields \cup ConnectProps \cup WillProps \cup {"willQos", "willUserProperty"} : b[f] = o[f]
  <2>1. b = Lengthened(o, a, d, n)
    BY <1>2 DEF Lengthened
  <2>2. ConnectBuilds(o, a, d, n, b)
    BY <1>4, <1>5, <2>1, ConnectBuilt
  <2> QED BY <2>2 DEF ConnectBuilds
<1>7. Y(b) = Y(o) /\ P(b) = P(o) /\ W(b) = W(o)
  BY <1>3, <1>6
<1>8. Total(b, Y(b)) = c /\ Total(b, P(b)) = a /\ Total(b, W(b)) = d /\ Total(b, {"willUserProperty"}) = u
  <2>1. \A f \in Y(o) \cup P(o) \cup W(o) \cup {"willUserProperty"} : b[f] = o[f]
    BY <1>1, <1>6
  <2>2. Total(b, Y(o)) = c /\ Total(b, P(o)) = a /\ Total(b, W(o)) = d
    BY <2>1, TotalAgree DEF c, a, d
  <2>3. Total(b, {"willUserProperty"}) = u
    <3> DEFINE S == {"willUserProperty"}
    <3>1. \A f \in S : b[f] = o[f]
      BY <2>1
    <3> HIDE DEF S
    <3>2. Total(b, S) = Total(o, S)
      BY <3>1, TotalAgree
    <3> QED BY <3>2 DEF S, u
  <2> QED BY <1>7, <2>2, <2>3
<1>9. ("willFlag" \in b.connectFlags) = has
  BY <1>6 DEF PlainFields
<1>10. Y(b) \subseteq PlainFields /\ P(b) \subseteq ConnectProps /\ W(b) \subseteq WillProps
  BY <1>1
<1>11. ASSUME ~ Miscounted(k, b)
       PROVE  Measures(k, b, put)
  <2>1. /\ b.maxPacketSize # 0 /\ b.willUserProperty = <<>>
        /\ "usernameFlag" \in b.connectFlags => b.username # 0
        /\ "passwordFlag" \in b.connectFlags => b.password # 0
        /\ "willFlag" \in b.connectFlags => b.willTopic # 0 /\ b.willMessage # 0 /\ b.payloadFormatIndicator <= 1
    <3>1. b.payloadFormatIndicator \in Nat
      <4>1. "payloadFormatIndicator" \notin Lists \cup {"connectFlags"} /\ "payloadFormatIndicator" \in DOMAIN New(k)
        BY Domains DEF Lists, UserProperties
      <4> QED BY <1>0, <1>6, <4>1, NatFields
    <3> QED BY <1>11, <3>1 DEF Miscounted
  <2>2. /\ b.username \in Nat /\ b.password \in Nat /\ b.willTopic \in Nat /\ b.willMessage \in Nat
        /\ b.payloadFormatIndicator \in Nat
    <3>1. {"username", "password", "willTopic", "willMessage", "payloadFormatIndicator"} \cap (Lists \cup {"connectFlags"}) = {}
      BY DEF Lists, UserProperties
    <3>2. {"username", "password", "willTopic", "willMessage", "payloadFormatIndicator"} \subseteq DOMAIN New(k)
      BY Domains
    <3> QED BY <1>0, <1>6, <3>1, <3>2, NatFields
  <2>3. u = 0
    <3>1. Total(b, {"willUserProperty"}) = Size("willUserProperty", b["willUserProperty"])
      <4> DEFINE g == "willUserProperty"
      <4>1. g \in DOMAIN New(k) \ {"remlen"}
        BY Domains
      <4> HIDE DEF g
      <4>2. Total(b, {g}) = Size(g, b[g])
        BY <1>0, <1>6, <4>1, TotalOne
      <4> QED BY <4>2 DEF g
    <3>2. "willUserProperty" \in UserProperties /\ "willUserProperty" \notin Identified
      BY DEF UserProperties, Identified, OneByte, TwoBytes, FourBytes, Strings
    <3>3. <<>> \in Seq(Nat)
      OBVIOUS
    <3>4. buildUserPropertyLen(<<>>) = 0
      BY <3>3, UserPropertyLength
    <3> DEFINE id == IF "willUserProperty" \in Identified THEN 1 ELSE 0
               x == buildUserPropertyLen(b["willUserProperty"])
               y == Size("willUserProperty", b["willUserProperty"])
    <3>5. y = id + x
      <4> USE DEF id
      <4> QED BY <3>2, SizeByClass, Zenon
    <3>6. id = 0 /\ x = 0
      BY <2>1, <3>2, <3>4
    <3> HIDE DEF id, x, y
    <3>7. y = 0
      BY <3>5, <3>6
    <3> QED BY <1>8, <3>1, <3>7 DEF y
  <2>4. lbEncode(a) \in Nat /\ lbEncode(d) \in Nat
    BY VarintSize
  <2>5. n <= maxRemainingLength => b.remlen = n
    BY <1>6
  <2> DEFINE base == {"protoName", "version", "connectFlags", "willQos", "keepAlive", "propertiesLen", "maxPacketSize",
                      "userProperty", "clientId"}
             LR == LimitedReceive(b)
             NO == NotOne(b, {"requestProblemInfo"})
             NZ == NonZero(b, {"sessionExpiryInterval", "topicAliasMax", "requestRespInfo", "authMethod", "authData"})
             us == {f \in {"username"} : "usernameFlag" \in b.connectFlags}
             pa == {f \in {"password"} : "passwordFlag" \in b.connectFlags}
  <2>6. Optional(b, "username", "usernameFlag") = us /\ Optional(b, "password", "passwordFlag") = pa
    BY <2>1, <2>2 DEF Optional
  <2>7. P(b) = {"userProperty", "maxPacketSize"} \cup LR \cup NO \cup NZ
    <3>1. NonZero(b, {"sessionExpiryInterval", "maxPacketSize", "topicAliasMax", "requestRespInfo", "authMethod", "authData"})
            = NZ \cup {"maxPacketSize"}
      BY <2>1 DEF NonZero
    <3> HIDE DEF LR, NO, NZ
    <3> QED BY <3>1 DEF P, LR, NO
  <2>8. put = base \cup LR \cup NO \cup NZ \cup (IF has THEN WillFields(b) ELSE {}) \cup us \cup pa
    BY <1>9, <2>6 DEF ConnectPut, encodeMessage
  <2>9. CASE ~ has
    <3>1. Y(b) = {"protoName", "version", "connectFlags", "keepAlive", "clientId"} \cup us \cup pa
      BY <1>9, <2>9 DEF Y, Optional
    <3>2. put = (P(b) \cup Y(b) \cup {"willQos"}) \cup {"propertiesLen"}
      <4> HIDE DEF put, LR, NO, NZ, us, pa, has
      <4> QED BY <2>7, <2>8, <2>9, <3>1
    <3>3. n = Total(b, Y(b)) + Total(b, P(b)) + lbEncode(Total(b, P(b)))
      <4>1. v = 0
        BY <2>9
      <4> HIDE DEF v
      <4>2. n = c + a + lbEncode(a)
        BY <1>4, <2>3, <2>4, <4>1 DEF n
      <4> QED BY <1>8, <4>2
    <3> DEFINE Pb == P(b)
               Yb == Y(b)
    <3>4. Pb \subseteq ConnectProps /\ Yb \subseteq PlainFields /\ b.propertiesLen = Total(b, Pb)
      BY <1>6, <1>8, <1>10
    <3> HIDE DEF Pb, Yb, put
    <3>5. Measures("CONNECT", b, (Pb \cup Yb \cup {"willQos"}) \cup {"propertiesLen"})
      <4>1. n = Total(b, Yb) + Total(b, Pb) + lbEncode(Total(b, Pb))
        BY <3>3 DEF Pb, Yb
      <4> QED BY <1>6, <2>5, <3>4, <4>1, ConnectPlain
    <3> QED BY <3>2, <3>5 DEF Pb, Yb
  <2>10. CASE has
    <3> DEFINE five == {"willDelayInterval", "willMsgExpiryInterval", "contentType", "responseTopic", "correlationData"}
               pf == {f \in {"payloadFormatIndicator"} : b[f] = 1}
               NF == NonZero(b, five)
    <3>1. Y(b) = {"protoName", "version", "connectFlags", "keepAlive", "clientId", "willTopic", "willMessage"} \cup us \cup pa
      <4>1. Optional(b, "willTopic", "willFlag") = {"willTopic"} /\ Optional(b, "willMessage", "willFlag") = {"willMessage"}
        BY <1>9, <2>1, <2>2, <2>10 DEF Optional
      <4> HIDE DEF us, pa
      <4> QED BY <4>1 DEF Y, us, pa
    <3>2. WillFields(b) = {"willPropertiesLen", "willUserProperty", "willTopic", "willMessage"} \cup W(b)
      <4>1. NonZero(b, {"willDelayInterval", "payloadFormatIndicator", "willMsgExpiryInterval", "contentType",
                        "responseTopic", "correlationData"}) = pf \cup NF
        <5>1. b.payloadFormatIndicator # 0 <=> b.payloadFormatIndicator = 1
          BY <1>9, <2>1, <2>2, <2>10
        <5> QED BY <5>1 DEF NonZero
      <4>2. W(b) = pf \cup NF
        BY DEF W
      <4> HIDE DEF pf, NF
      <4> QED BY <4>1, <4>2 DEF WillFields
    <3>3. put = ((P(b) \cup Y(b) \cup {"willQos"}) \cup {"propertiesLen"})
                  \cup ((W(b) \cup {"willUserProperty"}) \cup {"willPropertiesLen"})
      <4> DEFINE Wb == W(b)
      <4> HIDE DEF put, LR, NO, NZ, us, pa, has, Wb
      <4>1. put = base \cup LR \cup NO \cup NZ
                    \cup ({"willPropertiesLen", "willUserProperty", "willTopic", "willMessage"} \cup Wb) \cup us \cup pa
        BY <2>8, <2>10, <3>2 DEF Wb
      <4> QED BY <2>7, <3>1, <4>1 DEF Wb
    <3>4. n = Total(b, Y(b)) + Total(b, P(b)) + lbEncode(Total(b, P(b))) + Total(b, W(b)) + lbEncode(Total(b, W(b)))
      <4>1. v = d + lbEncode(d)
        BY <2>10
      <4> HIDE DEF v
      <4>2. n = c + a + lbEncode(a) + d + lbEncode(d)
        BY <1>4, <2>3, <2>4, <4>1 DEF n
      <4> QED BY <1>8, <4>2
    <3> DEFINE Pb == P(b)
               Yb == Y(b)
               Wb == W(b)
    <3>5. /\ Pb \subseteq ConnectProps /\ Yb \subseteq PlainFields /\ Wb \subseteq WillProps
          /\ b.propertiesLen = Total(b, Pb) /\ b.willPropertiesLen = Total(b, Wb)
      BY <1>6, <1>8, <1>10
    <3> HIDE DEF Pb, Yb, Wb, put
    <3>6. Measures("CONNECT", b, ((Pb \cup Yb \cup {"willQos"}) \cup {"propertiesLen"})
                                   \cup ((Wb \cup {"willUserProperty"}) \cup {"willPropertiesLen"}))
      <4>1. n = Total(b, Yb) + Total(b, Pb) + lbEncode(Total(b, Pb)) + Total(b, Wb) + lbEncode(Total(b, Wb))
        BY <3>4 DEF Pb, Yb, Wb
      <4> QED BY <1>6, <2>1, <2>5, <3>5, <4>1, ConnectWill
    <3> QED BY <3>3, <3>6 DEF Pb, Yb, Wb
  <2> QED BY <2>9, <2>10
<1>12. put \subseteq DOMAIN New(k) \ {"remlen"} /\ encodeMessageToBuf(b) = put
  BY <1>6, ConnectSame DEF ConnectPut
<1> HIDE DEF put
<1>13. Measures(k, b, put)
  <2>1. CASE Miscounted(k, b)
    BY <2>1 DEF Measures
  <2> QED BY <1>11, <2>1
<1>14. Encoded(k, Out(b, put))
  BY <1>6, <1>12, <1>13 DEF Encoded, Out
<1>15. r = IF b.version # 5 THEN Refused ELSE Out(b, put)
  <2>1. r = ConnectEncode(b)
    BY DEF Encode, Acks, b
  <2> HIDE DEF r
  <2> QED BY <2>1 DEF ConnectEncode, put, ConnectPut
<1>16. EncodeToBuf("CONNECT", o) = r
  <2>1. EncodeToBuf("CONNECT", o) = ConnectEncodeToBuf(b)
    BY DEF EncodeToBuf, Acks, b
  <2> HIDE DEF r
  <2> QED BY <1>12, <1>15, <2>1 DEF ConnectEncodeToBuf
<1> HIDE DEF r
<1>17. ASSUME r # Refused
       PROVE  Encoded(k, r) /\ r.put = ConnectPut(r.obj) /\ r.obj.version = 5
  <2>1. r = Out(b, put) /\ b.version = 5
    BY <1>15, <1>17
  <2>2. r.obj = b /\ r.put = put
    BY <2>1 DEF Out
  <2> QED BY <1>14, <2>1, <2>2 DEF put
<1> QED BY <1>16, <1>17 DEF r, k

\* The two encoders of every type write the same, with the lengths they should.
LEMMA Encoders ==
  ASSUME NEW k \in AllKinds, NEW o, Message(k, o)
  PROVE  LET r == Encode(k, o)
         IN  EncodeToBuf(k, o) = r /\ (r # Refused => Encoded(k, r))
<1> DEFINE r == Encode(k, o)
<1>1. CASE k = "CONNECT"
  BY <1>1, ConnectEncoded
<1>2. CASE k = "CONNACK"
  BY <1>2, ConnackEncoded
<1>3. CASE k = "PUBLISH"
  BY <1>3, PublishEncoded
<1>4. CASE k \in Acks
  BY <1>4, PubackEncoded
<1>5. CASE k = "SUBSCRIBE"
  BY <1>5, SubscribeEncoded
<1>6. CASE k \in {"SUBACK", "UNSUBACK"}
  BY <1>6, SubackEncoded
<1>7. CASE k = "UNSUBSCRIBE"
  BY <1>7, UnsubscribeEncoded
<1>8. CASE k = "DISCONNECT"
  BY <1>8, DisconnectEncoded
<1>9. CASE k = "AUTH"
  BY <1>9, AuthEncoded
<1> QED BY <1>1, <1>2, <1>3, <1>4, <1>5, <1>6, <1>7, <1>8, <1>9 DEF AllKinds

-----------------------------------------------------------------------------
(* Decoders *)

\* What a decoder makes of the packet of a message.
Reads(k, m, d) ==
  /\ d.how \in {"ok", "error", "panic", "misread"}
  /\ d.how \in {"error", "panic"} => Unreadable(k, m)
  /\ d.how = "misread" => Mistakable(k, m)
  /\ d.how = "ok" => /\ Message(k, d.obj) /\ d.dirty \in BOOLEAN /\ ~Unreadable(k, m)
                     /\ \A f \in DOMAIN New(k) \ Lossy(k, m) : d.obj[f] = m[f]

\* A list in which a key has no value comes back with an empty one.
LEMMA LossyLists ==
  ASSUME NEW k, NEW m, NEW f \in UserProperties, f \in DOMAIN m, Len(m[f]) % 2 = 1
  PROVE  f \in Lossy(k, m)
BY DEF Lossy, UserProperties

\* What is not written is as in a new message, and all that is written comes back.
LEMMA ReadsSame ==
  ASSUME NEW k, NEW m, NEW put, NEW w, NEW o, Back(k, m, put, w, o), DOMAIN m = DOMAIN New(k),
         \A f \in DOMAIN New(k) \ (put \cup {"remlen"} \cup Lossy(k, m)) : m[f] = New(k)[f]
  PROVE  \A f \in DOMAIN New(k) \ Lossy(k, m) : o[f] = m[f]
<1> TAKE f \in DOMAIN New(k) \ Lossy(k, m)
<1>1. CASE f = "remlen"
  BY <1>1 DEF Back
<1>2. CASE f \in put \cap UserProperties
  BY <1>2, LossyLists DEF Back
<1>3. CASE f \in put \ UserProperties
  BY <1>3 DEF Back
<1>4. CASE f \notin put \cup {"remlen"}
  BY <1>4 DEF Back
<1> QED BY <1>1, <1>2, <1>3, <1>4

\* What is read is a message.
LEMMA BackMessage ==
  ASSUME NEW k, k # "CONNECT", NEW m, NEW put, NEW w, NEW o, Back(k, m, put, w, o)
  PROVE  Message(k, o)
BY DEF Back, Message

\* What decoders look at.
LEMMA BackParts ==
  ASSUME NEW k, NEW m, NEW put, NEW w, NEW o, Back(k, m, put, w, o)
  PROVE  w.rem = m.remlen /\ w.twice = "" /\ w.again = "" /\ \A f : Has(w, f) <=> f \in put
BY DEF Back, Has

\* A zero, ...
LEMMA BackZero ==
  ASSUME NEW k, NEW m, NEW put, NEW w, NEW o, Back(k, m, put, w, o), NEW S, S \cap UserProperties = {}
  PROVE  Zero(w, S) <=> \E f \in S \cap put : m[f] = 0
BY DEF Back, Has, Zero

\* ... or a number above a bound, is in the packet when it is in the message.
LEMMA BackAbove ==
  ASSUME NEW k, NEW m, NEW put, NEW w, NEW o, Back(k, m, put, w, o), NEW S, S \cap UserProperties = {}, NEW n
  PROVE  Above(w, S, n) <=> \E f \in S \cap put : m[f] > n
BY DEF Back, Has, Above

\* The packet of an encoded message is read back.
LEMMA PacketBack ==
  ASSUME NEW k \in AllKinds, NEW r, Encoded(k, r)
  PROVE  Back(k, r.obj, r.put, Packet(r), Read(Packet(r), New(k)))
<1> DEFINE m == r.obj
           put == r.put
<1>1. r = Out(m, put) /\ Message(k, m) /\ put \subseteq DOMAIN New(k) \ {"remlen"}
  BY DEF Encoded
<1> HIDE DEF m, put
<1>2. Back(k, m, put, Packet(Out(m, put)), Read(Packet(Out(m, put)), New(k)))
  BY <1>1, ReadBack
<1>3. Back(k, m, put, Packet(r), Read(Packet(r), New(k)))
  BY <1>1, <1>2
<1> QED BY <1>3 DEF m, put

\* What is mistaken for a property begins with the identifier of one.
LEMMA MistakenLike ==
  ASSUME NEW w, NEW order, NEW len, Mistaken(w, order, len)
  PROVE  HighByte(len) \in {Id[f] : f \in Range(order)}
<1>1. PICK i \in DOMAIN order : HighByte(len) = Id[order[i]]
  BY DEF Mistaken, Sought
<1>2. order[i] \in Range(order)
  BY DEF Range
<1> QED BY <1>1, <1>2

\* A decoder refuses the packets of messages that cannot be read, may lose its place
\* in those that can be mistaken, and reads the others.
LEMMA Judged ==
  ASSUME NEW k, NEW m, NEW o, NEW d, NEW dirt \in BOOLEAN,
         \/ (d = Panicked \/ d = Failed) /\ Unreadable(k, m)
         \/ d = Misread /\ Mistakable(k, m)
         \/ d = Got(o, dirt) /\ ~Unreadable(k, m) /\ Message(k, o) /\ \A f \in DOMAIN New(k) \ Lossy(k, m) : o[f] = m[f]
  PROVE  Reads(k, m, d)
<1>1. CASE d = Panicked /\ Unreadable(k, m)
  <2>1. d.how = "panic"
    BY <1>1 DEF Panicked
  <2> QED BY <1>1, <2>1 DEF Reads
<1>2. CASE d = Failed /\ Unreadable(k, m)
  <2>1. d.how = "error"
    BY <1>2 DEF Failed
  <2> QED BY <1>2, <2>1 DEF Reads
<1>3. CASE d = Got(o, dirt) /\ ~Unreadable(k, m) /\ Message(k, o) /\ \A f \in DOMAIN New(k) \ Lossy(k, m) : o[f] = m[f]
  <2>1. d.how = "ok" /\ d.obj = o /\ d.dirty = dirt
    BY <1>3 DEF Got
  <2> QED BY <1>3, <2>1 DEF Reads
<1>4. CASE d = Misread /\ Mistakable(k, m)
  <2>1. d.how = "misread"
    BY <1>4 DEF Misread
  <2> QED BY <1>4, <2>1 DEF Reads
<1> QED BY <1>1, <1>2, <1>3, <1>4

\* The decoder of SUBSCRIBE.
LEMMA SubscribeReads ==
  ASSUME NEW m, Message("SUBSCRIBE", m), NEW w, NEW o, o = Read(w, New("SUBSCRIBE")),
         Back("SUBSCRIBE", m, SubscribePut(m), w, o)
  PROVE  Reads("SUBSCRIBE", m, SubscribeDecode(w))
<1> DEFINE k == "SUBSCRIBE"
           put == SubscribePut(m)
           d == SubscribeDecode(w)
           S == {"subscriptionIdentifier"}
           lost == m.subscriptions # <<>> /\ Mistaken(w, SubscribeOrder, m.subscriptions[1].len)
           bad == m.subscriptions = <<>> \/ \E i \in DOMAIN m.subscriptions : m.subscriptions[i].retainHandling > 2
<1>1. o = Read(w, NewSubscribe)
  BY DEF New, Acks
<1>2. o.subscriptions = m.subscriptions /\ w.twice = "" /\ w.again = "" /\ ~ Zero(w, S)
  <2>1. "subscriptions" \in put \ UserProperties
    BY DEF SubscribePut, UserProperties
  <2>2. S \cap UserProperties = {}
    BY DEF UserProperties
  <2>3. \A f \in S \cap put : m[f] # 0
    <3>1. S \cap put \subseteq Written(m)
      BY DEF SubscribePut
    <3> HIDE DEF put, S
    <3> QED BY <3>1 DEF Written
  <2>4. o.subscriptions = m.subscriptions
    BY <2>1 DEF Back
  <2> HIDE DEF put, S
  <2>5. w.twice = "" /\ w.again = ""
    BY BackParts
  <2>6. Zero(w, S) <=> \E f \in S \cap put : m[f] = 0
    BY <2>2, BackZero DEF put
  <2> QED BY <2>3, <2>4, <2>5, <2>6
<1>3. Unreadable(k, m) <=> bad
  BY DEF Unreadable, Acks
<1>4. ((d = Panicked \/ d = Failed) /\ bad) \/ (d = Misread /\ Mistakable(k, m)) \/ (d = Got(o, FALSE) /\ ~bad)
  <2>1. CASE bad /\ ~lost
    <3>1. d = Panicked \/ d = Failed
      BY <1>1, <1>2, <2>1 DEF SubscribeDecode
    <3> QED BY <2>1, <3>1
  <2>2. CASE ~bad /\ ~lost
    <3>1. d = Got(o, FALSE)
      BY <1>1, <1>2, <2>2 DEF SubscribeDecode
    <3> QED BY <2>2, <3>1
  <2>3. CASE lost
    <3>1. d = Misread
      BY <1>1, <1>2, <2>3 DEF SubscribeDecode
    <3>2. HighByte(m.subscriptions[1].len) \in {Id[f] : f \in Range(SubscribeOrder)}
      BY <2>3, MistakenLike
    <3>3. Mistakable(k, m)
      BY <2>3, <3>2 DEF Mistakable
    <3> QED BY <3>1, <3>3
  <2> QED BY <2>1, <2>2, <2>3
<1>5. Message(k, o)
  BY BackMessage
<1>6. \A f \in DOMAIN New(k) \ Lossy(k, m) : o[f] = m[f]
  <2>1. DOMAIN New(k) = put \cup {"remlen", "subscriptionIdentifier"}
    BY Domains DEF SubscribePut, Written
  <2>2. ASSUME "subscriptionIdentifier" \notin put, "subscriptionIdentifier" \notin Lossy(k, m)
        PROVE  m.subscriptionIdentifier = New(k).subscriptionIdentifier
    <3>1. New(k).subscriptionIdentifier = 0
      BY DEF New, Acks, NewSubscribe
    <3>2. m.subscriptionIdentifier \in Nat
      <4>1. "subscriptionIdentifier" \notin Lists \cup {"connectFlags"} /\ "subscriptionIdentifier" \in DOMAIN New(k)
        BY Domains DEF Lists, UserProperties
      <4> QED BY <4>1, NatFields DEF AllKinds
    <3>3. ~ (m.subscriptionIdentifier > 268435455)
      BY <2>2 DEF Lossy, Acks
    <3>4. "subscriptionIdentifier" \notin Written(m)
      BY <2>2 DEF SubscribePut
    <3> QED BY <3>1, <3>2, <3>3, <3>4 DEF Written
  <2>3. DOMAIN m = DOMAIN New(k)
    BY DEF Message
  <2> HIDE DEF put, k
  <2>4. \A f \in DOMAIN New(k) \ (put \cup {"remlen"} \cup Lossy(k, m)) : m[f] = New(k)[f]
    BY <2>1, <2>2
  <2>5. Back(k, m, put, w, o)
    BY DEF k, put
  <2> QED BY <2>3, <2>4, <2>5, ReadsSame
<1> HIDE DEF d, bad, k
<1>7. Reads(k, m, d)
  BY <1>3, <1>4, <1>5, <1>6, Judged
<1> QED BY <1>7 DEF k, d

\* The fields of a new message are zero or empty, but for some of CONNECT and CONNACK.
LEMMA NewZero ==
  ASSUME NEW k \in AllKinds \ {"CONNECT", "CONNACK"}, NEW f \in DOMAIN New(k)
  PROVE  New(k)[f] = IF f \in Lists THEN <<>> ELSE 0
<1> USE DEF Lists, UserProperties, Acks
<1>1. CASE k = "PUBLISH"
  BY <1>1 DEF New, NewPublish
<1>2. CASE k \in Acks
  BY <1>2 DEF New, NewPuback
<1>3. CASE k = "SUBSCRIBE"
  BY <1>3 DEF New, NewSubscribe
<1>4. CASE k = "SUBACK"
  BY <1>4 DEF New, NewSuback
<1>5. CASE k = "UNSUBACK"
  BY <1>5 DEF New, NewUnsuback, NewSuback
<1>6. CASE k = "UNSUBSCRIBE"
  BY <1>6 DEF New, NewUnsubscribe
<1>7. CASE k = "DISCONNECT"
  BY <1>7 DEF New, NewDisconnect
<1>8. CASE k = "AUTH"
  BY <1>8 DEF New, NewAuth
<1> QED BY <1>1, <1>2, <1>3, <1>4, <1>5, <1>6, <1>7, <1>8 DEF AllKinds

\* The decoders of SUBACK and UNSUBACK.
LEMMA SubackReads ==
  ASSUME NEW k \in {"SUBACK", "UNSUBACK"}, NEW m, Message(k, m), NEW w, NEW o, o = Read(w, New(k)),
         Back(k, m, AckFields(m), w, o)
  PROVE  Reads(k, m, Decode(k, w))
<1> DEFINE put == AckFields(m)
           codes == m.reasonCodes
           known == Range(codes) \subseteq ValidUnSubAckReasonCode
           bad == codes = <<>> \/ (k = "UNSUBACK" /\ ~known)
           d == Decode(k, w)
<1>0. k \in AllKinds \ {"CONNECT", "CONNACK"}
  BY DEF AllKinds
<1>1. o = Read(w, NewSuback) /\ NewUnsuback = NewSuback
  BY DEF New, Acks, NewUnsuback
<1>2. o.reasonCodes = codes /\ w.twice = "" /\ w.again = ""
  <2>1. "reasonCodes" \in put \ UserProperties
    BY DEF AckFields, UserProperties
  <2> QED BY <2>1 DEF Back
<1>3. Unreadable(k, m) <=> bad
  BY DEF Unreadable, Acks
<1>4. (\A i \in DOMAIN codes : codes[i] \in ValidUnSubAckReasonCode) <=> known
  BY DEF Range
<1>5. k = "SUBACK" => Range(codes) \subseteq ValidSubAckReasonCode
  BY SubackCodes
<1>6. d = IF k = "SUBACK" THEN SubackDecode(w) ELSE UnsubackDecode(w)
  BY DEF Decode
<1> HIDE DEF d, known
<1>7. ((d = Panicked \/ d = Failed) /\ bad) \/ (d = Got(o, FALSE) /\ ~bad)
  <2>1. CASE k = "SUBACK"
    <3>1. d = SubackDecode(w)
      BY <1>6, <2>1
    <3>2. ~bad => d = Got(o, FALSE)
      BY <1>1, <1>2, <1>5, <2>1, <3>1 DEF SubackDecode
    <3>3. bad => d = Panicked \/ d = Failed
      BY <1>1, <1>2, <1>5, <2>1, <3>1 DEF SubackDecode
    <3> QED BY <3>2, <3>3
  <2>2. CASE k = "UNSUBACK"
    <3>1. d = UnsubackDecode(w)
      BY <1>6, <2>2
    <3>2. ~bad => d = Got(o, FALSE)
      BY <1>1, <1>2, <1>4, <2>2, <3>1 DEF UnsubackDecode
    <3>3. bad => d = Panicked \/ d = Failed
      BY <1>1, <1>2, <1>4, <2>2, <3>1 DEF UnsubackDecode
    <3> QED BY <3>2, <3>3
  <2> QED BY <2>1, <2>2
<1>8. Message(k, o)
  BY BackMessage
<1>9. \A f \in DOMAIN New(k) \ Lossy(k, m) : o[f] = m[f]
  <2>1. DOMAIN New(k) = put \cup {"remlen", "reasonStr"}
    BY Domains DEF AckFields, NonZero
  <2>2. ASSUME "reasonStr" \notin put
        PROVE  m.reasonStr = New(k).reasonStr
    <3>1. New(k)["reasonStr"] = 0
      BY <1>0, <2>1, NewZero DEF Lists, UserProperties
    <3>2. "reasonStr" \notin NonZero(m, {"reasonStr"})
      BY <2>2 DEF AckFields
    <3> QED BY <3>1, <3>2 DEF NonZero
  <2>3. DOMAIN m = DOMAIN New(k)
    BY DEF Message
  <2> HIDE DEF put
  <2>4. \A f \in DOMAIN New(k) \ (put \cup {"remlen"} \cup Lossy(k, m)) : m[f] = New(k)[f]
    BY <2>1, <2>2
  <2>5. Back(k, m, put, w, o)
    BY DEF put
  <2> QED BY <2>3, <2>4, <2>5, ReadsSame
<1> HIDE DEF bad
<1>10. Reads(k, m, d)
  BY <1>3, <1>7, <1>8, <1>9, Judged
<1> QED BY <1>10 DEF d

\* The decoder of AUTH.
LEMMA AuthReads ==
  ASSUME NEW m, Message("AUTH", m), NEW w, NEW o, o = Read(w, New("AUTH")), Back("AUTH", m, AuthPut(m), w, o),
         AuthPut(m) = {} => m.propertiesLen = 0
  PROVE  Reads("AUTH", m, AuthDecode(w))
<1> DEFINE k == "AUTH"
           put == AuthPut(m)
           d == AuthDecode(w)
           bad == m.reasonCode \notin ValidAuthReasonCode
           dirt == (w.rem = 0)
<1>0. k \in AllKinds \ {"CONNECT", "CONNACK"}
  BY DEF AllKinds
<1>1. o = Read(w, NewAuth)
  BY DEF New, Acks
<1>2. DOMAIN New(k) = {"reasonCode", "propertiesLen", "userProperty", "remlen"} \cup AuthStrings
  BY Domains DEF AuthStrings
<1>3. \A f \in DOMAIN New(k) \ (put \cup {"remlen"}) : m[f] = New(k)[f]
  <2> TAKE f \in DOMAIN New(k) \ (put \cup {"remlen"})
  <2>1. New(k)[f] = IF f \in Lists THEN <<>> ELSE 0
    BY <1>0, NewZero
  <2>2. CASE put = {}
    <3>1. m.reasonCode = 0 /\ m.userProperty = <<>> /\ NonZero(m, AuthStrings) = {} /\ m.propertiesLen = 0
      BY <2>2 DEF AuthPut
    <3>2. \A g \in AuthStrings : m[g] = 0
      BY <3>1 DEF NonZero
    <3>3. "userProperty" \in Lists /\ {"reasonCode", "propertiesLen"} \cap Lists = {} /\ AuthStrings \cap Lists = {}
      BY DEF Lists, UserProperties, AuthStrings
    <3> QED BY <1>2, <2>1, <3>1, <3>2, <3>3
  <2>3. CASE put # {}
    <3>1. put = {"reasonCode", "propertiesLen", "userProperty"} \cup NonZero(m, AuthStrings)
      BY <2>3 DEF AuthPut
    <3>2. f \in AuthStrings /\ f \notin NonZero(m, AuthStrings)
      <4> HIDE DEF put
      <4> QED BY <1>2, <3>1
    <3>3. f \notin Lists
      BY <3>2 DEF Lists, UserProperties, AuthStrings
    <3> QED BY <2>1, <3>2, <3>3 DEF NonZero
  <2> QED BY <2>2, <2>3
<1>4. o.reasonCode = m.reasonCode /\ w.twice = ""
  <2>1. "reasonCode" \in DOMAIN New(k) /\ "reasonCode" \notin UserProperties
    BY <1>2 DEF UserProperties
  <2> HIDE DEF put
  <2>2. "reasonCode" \notin put => o.reasonCode = New(k).reasonCode
    BY <2>1 DEF Back, put
  <2>3. "reasonCode" \in put => o.reasonCode = m.reasonCode
    BY <2>1 DEF Back, put
  <2>4. w.twice = ""
    BY DEF Back
  <2> QED BY <1>3, <2>1, <2>2, <2>3, <2>4
<1>5. Unreadable(k, m) <=> bad
  BY DEF Unreadable, Acks
<1>6. (d = Failed /\ bad) \/ (d = Got(o, dirt) /\ ~bad)
  BY <1>1, <1>4 DEF AuthDecode
<1>7. Message(k, o)
  BY BackMessage
<1> HIDE DEF d, bad, k, put, dirt
<1>8. \A f \in DOMAIN New(k) \ Lossy(k, m) : o[f] = m[f]
  <2>1. DOMAIN m = DOMAIN New(k) /\ Back(k, m, put, w, o)
    BY DEF Message, k, put
  <2> QED BY <1>3, <2>1, ReadsSame
<1>9. dirt \in BOOLEAN
  BY DEF dirt
<1>10. Reads(k, m, d)
  BY <1>5, <1>6, <1>7, <1>8, <1>9, Judged
<1> QED BY <1>10 DEF k, d

\* The decoder of DISCONNECT.
LEMMA DisconnectReads ==
  ASSUME NEW m, Message("DISCONNECT", m), NEW w, NEW o, o = Read(w, New("DISCONNECT")),
         Back("DISCONNECT", m, DisconnectPut(m), w, o)
  PROVE  Reads("DISCONNECT", m, DisconnectDecode(w))
<1> DEFINE k == "DISCONNECT"
           put == DisconnectPut(m)
           d == DisconnectDecode(w)
           s == "sessionExpiryInterval"
           q == [f \in DOMAIN o |-> IF f = s /\ Has(w, f) THEN 2 ELSE o[f]]
           bad == m.reasonCode \notin ValidDisconnectReasonCode
<1>0. k \in AllKinds \ {"CONNECT", "CONNACK"}
  BY DEF AllKinds
<1>1. o = Read(w, NewDisconnect)
  BY DEF New, Acks
<1>2. DOMAIN New(k) = {"reasonCode", "propertiesLen", "userProperty", "remlen"} \cup DisconnectStrings
        /\ "reasonCode" \notin DisconnectStrings
  BY Domains DEF DisconnectStrings
<1>3. \A f \in DOMAIN New(k) \ (put \cup {"remlen"} \cup Lossy(k, m)) : m[f] = New(k)[f]
  <2> TAKE f \in DOMAIN New(k) \ (put \cup {"remlen"} \cup Lossy(k, m))
  <2>1. New(k)[f] = IF f \in Lists THEN <<>> ELSE 0
    BY <1>0, NewZero
  <2>2. CASE put = {}
    <3>1. m.reasonCode = 0 /\ m.remlen = 0
      BY <2>2 DEF DisconnectPut
    <3>2. {"propertiesLen", "reasonStr", "userProperty", "serverReference"} \subseteq Lossy(k, m)
      BY <3>1 DEF Lossy, Acks
    <3>3. m.sessionExpiryInterval # 0 => "sessionExpiryInterval" \in Lossy(k, m)
      BY DEF Lossy, Acks
    <3>4. f \in {"reasonCode", "sessionExpiryInterval"}
      <4> HIDE DEF put, k
      <4> QED BY <1>2, <3>2 DEF DisconnectStrings
    <3>5. f \notin Lists
      BY <3>4 DEF Lists, UserProperties
    <3> HIDE DEF put, k
    <3> QED BY <2>1, <3>1, <3>3, <3>4, <3>5
  <2>3. CASE put # {}
    <3>1. put = {"reasonCode", "propertiesLen", "userProperty"} \cup NonZero(m, DisconnectStrings)
      BY <2>3 DEF DisconnectPut
    <3>2. f \in DisconnectStrings /\ f \notin NonZero(m, DisconnectStrings)
      <4> HIDE DEF put
      <4> QED BY <1>2, <3>1
    <3>3. f \notin Lists
      BY <3>2 DEF Lists, UserProperties, DisconnectStrings
    <3> QED BY <2>1, <3>2, <3>3 DEF NonZero
  <2> QED BY <2>2, <2>3
<1>4. o.reasonCode = m.reasonCode /\ w.twice = ""
  <2>1. "reasonCode" \in DOMAIN New(k) /\ "reasonCode" \notin UserProperties
    BY <1>2 DEF UserProperties
  <2>2. "reasonCode" \notin put => m.reasonCode = 0
    BY DEF DisconnectPut
  <2>3. New(k)["reasonCode"] = 0
    <3>1. "reasonCode" \notin Lists
      BY DEF Lists, UserProperties
    <3> QED BY <1>0, <2>1, <3>1, NewZero
  <2> HIDE DEF put
  <2>4. "reasonCode" \notin put => o.reasonCode = New(k).reasonCode
    BY <2>1 DEF Back, put
  <2>5. "reasonCode" \in put => o.reasonCode = m.reasonCode
    BY <2>1 DEF Back, put
  <2>6. w.twice = ""
    BY DEF Back
  <2> QED BY <2>2, <2>3, <2>4, <2>5, <2>6
<1>5. Unreadable(k, m) <=> bad
  BY DEF Unreadable, Acks
<1>6. d = IF o.reasonCode \notin ValidDisconnectReasonCode THEN Failed ELSE Got(q, TRUE)
  <2> DEFINE unread == CASE w.twice = "sessionExpiryInterval" -> {"reasonStr", "userProperty", "serverReference"}
                         [] w.twice = "reasonStr" -> {"userProperty", "serverReference"}
                         [] OTHER -> {}
             p == [f \in DOMAIN o |-> IF f \in unread THEN NewDisconnect[f]
                                      ELSE IF f = "sessionExpiryInterval" /\ Has(w, f) THEN HeaderBytes ELSE o[f]]
  <2>1. unread = {}
    BY <1>4
  <2> HIDE DEF unread
  <2>2. p = q
    BY <2>1 DEF HeaderBytes
  <2>3. d = IF o.reasonCode \notin ValidDisconnectReasonCode THEN Failed ELSE Got(p, TRUE)
    BY <1>1 DEF DisconnectDecode, unread
  <2> HIDE DEF p, q, d
  <2> QED BY <2>2, <2>3
<1>7. \A f \in DOMAIN New(k) \ Lossy(k, m) : o[f] = m[f]
  <2>1. DOMAIN m = DOMAIN New(k) /\ Back(k, m, put, w, o)
    BY DEF Message
  <2> HIDE DEF k, put
  <2> QED BY <1>3, <2>1, ReadsSame
<1>8. Has(w, s) => s \in Lossy(k, m)
  <2>1. Has(w, s) => s \in put
    BY BackParts
  <2>2. s \in put => m.sessionExpiryInterval # 0
    BY DEF DisconnectPut, NonZero
  <2>3. m.sessionExpiryInterval # 0 => s \in Lossy(k, m)
    BY DEF Lossy, Acks
  <2> QED BY <2>1, <2>2, <2>3
<1>9. Message(k, q)
  <2>1. FieldType(k, s) = Nat
    BY NumberFields DEF AllFields, FourBytes, Lists, UserProperties
  <2>2. DOMAIN o = DOMAIN New(k) /\ \A f \in DOMAIN New(k) : o[f] \in FieldType(k, f)
    BY DEF Back
  <2>3. \A f \in DOMAIN New(k) : q[f] \in FieldType(k, f)
    BY <2>1, <2>2
  <2>4. DOMAIN q = DOMAIN New(k) /\ k # "CONNECT"
    BY <2>2
  <2> HIDE DEF q, k
  <2> QED BY <2>3, <2>4 DEF Message
<1>10. \A f \in DOMAIN New(k) \ Lossy(k, m) : q[f] = m[f]
  <2>1. DOMAIN o = DOMAIN New(k)
    BY DEF Back
  <2> HIDE DEF k, s
  <2> QED BY <1>7, <1>8, <2>1
<1> HIDE DEF d, k, q, s
<1>11. (d = Failed /\ bad) \/ (d = Got(q, TRUE) /\ ~bad)
  BY <1>4, <1>6
<1>12. Reads(k, m, d)
  BY <1>5, <1>9, <1>10, <1>11, Judged
<1> QED BY <1>12 DEF k, d

\* The decoders of PUBACK, PUBREC, PUBREL and PUBCOMP.
LEMMA PubackReads ==
  ASSUME NEW k \in Acks, NEW m, Message(k, m), NEW w, NEW o, o = Read(w, New(k)), Back(k, m, PubackPut(m), w, o),
         m.propertiesLen = 0 => m.userProperty = <<>> /\ m.reasonStr = 0,
         m.remlen = 2 => m.reasonCode = 0 /\ m.propertiesLen = 0
  PROVE  Reads(k, m, Decode(k, w))
<1> DEFINE put == PubackPut(m)
           valid == IF k \in {"PUBACK", "PUBREC"} THEN ValidPubAckReasonCode ELSE ValidPubRelReasonCode
           d == Decode(k, w)
           bad == m.reasonCode \notin valid \/ (m.reasonStr # 0 /\ m.userProperty = <<>>)
           dirt == (w.rem = 2)
<1>0. k \in AllKinds \ {"CONNECT", "CONNACK"}
  BY DEF AllKinds, Acks
<1>1. New(k) = NewPuback /\ o = Read(w, NewPuback)
  BY DEF New, Acks
<1>2. DOMAIN New(k) = {"remlen", "packetId", "reasonCode", "propertiesLen", "reasonStr", "userProperty"}
  BY Domains
<1>3. /\ w.rem = m.remlen /\ w.twice = "" /\ (Has(w, "reasonStr") <=> "reasonStr" \in put)
  <2>1. Back(k, m, put, w, o)
    OBVIOUS
  <2> HIDE DEF put
  <2> QED BY <2>1 DEF Back, Has
<1>4. /\ "packetId" \in put
      /\ "reasonCode" \notin put => m.reasonCode = 0 /\ m.remlen = 2
      /\ "reasonCode" \in put => ("propertiesLen" \in put <=> m.propertiesLen # 0)
      /\ "reasonCode" \notin put => "propertiesLen" \notin put
      /\ "userProperty" \in put <=> "propertiesLen" \in put
      /\ "reasonStr" \in put <=> "propertiesLen" \in put /\ m.reasonStr # 0
  BY DEF PubackPut, NonZero
<1>5. \A f \in DOMAIN New(k) \ (put \cup {"remlen"}) : m[f] = New(k)[f]
  <2> TAKE f \in DOMAIN New(k) \ (put \cup {"remlen"})
  <2>1. New(k)[f] = IF f \in Lists THEN <<>> ELSE 0
    BY <1>0, NewZero
  <2>2. {"reasonCode", "propertiesLen", "reasonStr"} \cap Lists = {} /\ "userProperty" \in Lists
    BY DEF Lists, UserProperties
  <2> HIDE DEF put
  <2>3. CASE "propertiesLen" \in put
    <3>1. f = "reasonStr"
      BY <1>2, <1>4, <2>3
    <3> QED BY <1>4, <2>1, <2>2, <2>3, <3>1
  <2>4. CASE "propertiesLen" \notin put
    <3>1. m.propertiesLen = 0
      BY <1>4, <2>4
    <3>2. m.userProperty = <<>> /\ m.reasonStr = 0
      BY <3>1
    <3>3. f \in {"reasonCode", "propertiesLen", "reasonStr", "userProperty"}
      BY <1>2, <1>4
    <3> QED BY <1>4, <2>1, <2>2, <3>1, <3>2, <3>3
  <2> QED BY <2>3, <2>4
<1>6. o.reasonCode = m.reasonCode /\ (o.userProperty = <<>> <=> m.userProperty = <<>>)
  <2>1. "reasonCode" \in DOMAIN New(k) /\ "reasonCode" \notin UserProperties
          /\ "userProperty" \in DOMAIN New(k) /\ "userProperty" \in UserProperties
    BY <1>2 DEF UserProperties
  <2> HIDE DEF put
  <2>2. "reasonCode" \notin put => o.reasonCode = New(k).reasonCode
    BY <2>1 DEF Back, put
  <2>3. "reasonCode" \in put => o.reasonCode = m.reasonCode
    BY <2>1 DEF Back, put
  <2>4. "userProperty" \notin put => o.userProperty = New(k).userProperty
    BY <2>1 DEF Back, put
  <2>5. "userProperty" \in put => (o.userProperty = <<>> <=> m.userProperty = <<>>)
    BY <2>1 DEF Back, put
  <2> QED BY <1>5, <2>1, <2>2, <2>3, <2>4, <2>5
<1>7. m.reasonStr # 0 => "reasonStr" \in put
  <2> HIDE DEF put
  <2>1. m.reasonStr # 0 => m.propertiesLen # 0
    OBVIOUS
  <2> QED BY <1>4, <2>1
<1>8. Unreadable(k, m) <=> bad
  BY DEF Unreadable, Acks
<1>9. d = IF w.rem = 2 THEN Got(Read(w, NewPuback), TRUE) ELSE decodeOther(w, valid)
  <2>1. ValidPubRecReasonCode = ValidPubAckReasonCode /\ ValidPubCompReasonCode = ValidPubRelReasonCode
    BY DEF ValidPubRecReasonCode, ValidPubAckReasonCode, ValidPubCompReasonCode, ValidPubRelReasonCode
  <2> HIDE DEF d
  <2>2. CASE k = "PUBACK"
    BY <2>2 DEF d, Decode, PubackDecode
  <2>3. CASE k = "PUBREC"
    BY <2>1, <2>3 DEF d, Decode, PubrecDecode
  <2>4. CASE k = "PUBREL"
    BY <2>4 DEF d, Decode, PubrelDecode
  <2>5. CASE k = "PUBCOMP"
    BY <2>1, <2>5 DEF d, Decode, PubcompDecode
  <2> QED BY <2>2, <2>3, <2>4, <2>5 DEF Acks
<1>10. ((d = Panicked \/ d = Failed) /\ bad) \/ (d = Got(o, dirt) /\ ~bad)
  <2>1. CASE w.rem = 2
    <3>1. d = Got(o, TRUE) /\ dirt = TRUE
      BY <1>1, <1>9, <2>1
    <3>2. m.reasonCode = 0 /\ m.reasonStr = 0
      BY <1>3, <2>1
    <3>3. 0 \in valid
      BY DEF ValidPubAckReasonCode, ValidPubRelReasonCode
    <3> HIDE DEF d, dirt, valid
    <3> QED BY <3>1, <3>2, <3>3
  <2>2. CASE w.rem # 2
    <3>1. d = decodeOther(w, valid) /\ dirt = FALSE
      BY <1>9, <2>2
    <3> HIDE DEF d, valid, put, dirt
    <3>2. bad => d = Panicked \/ d = Failed
      BY <1>1, <1>3, <1>4, <1>6, <1>7, <3>1 DEF decodeOther
    <3>3. ~bad => d = Got(o, FALSE)
      BY <1>1, <1>3, <1>4, <1>6, <1>7, <3>1 DEF decodeOther
    <3> HIDE DEF bad
    <3> QED BY <3>1, <3>2, <3>3
  <2> QED BY <2>1, <2>2
<1>11. Message(k, o)
  <2>1. k # "CONNECT"
    BY <1>0
  <2> QED BY <2>1, BackMessage
<1> HIDE DEF d, bad, put, dirt
<1>12. \A f \in DOMAIN New(k) \ Lossy(k, m) : o[f] = m[f]
  <2>1. DOMAIN m = DOMAIN New(k) /\ Back(k, m, put, w, o)
    BY DEF Message, put
  <2> QED BY <1>5, <2>1, ReadsSame
<1>13. dirt \in BOOLEAN
  BY DEF dirt
<1>14. Reads(k, m, d)
  BY <1>8, <1>10, <1>11, <1>12, <1>13, Judged
<1> QED BY <1>14 DEF d

\* The decoder of PUBLISH.
LEMMA PublishReads ==
  ASSUME NEW m, Message("PUBLISH", m), NEW w, NEW o, o = Read(w, New("PUBLISH")),
         Back("PUBLISH", m, PublishPut(m), w, o), m.topic # 0 \/ m.topicAlias # 0
  PROVE  Reads("PUBLISH", m, PublishDecode(w))
<1> DEFINE k == "PUBLISH"
           put == PublishPut(m)
           d == PublishDecode(w)
           Z == {"topicAlias", "responseTopic", "correlationData", "subscriptionIdentifier", "contentType"}
           bad == m.payload = Marked
<1>0. k \in AllKinds \ {"CONNECT", "CONNACK"}
  BY DEF AllKinds
<1>1. o = Read(w, NewPublish)
  BY DEF New, Acks
<1>2. DOMAIN New(k) = put \cup {"remlen", "packetId", "subscriptionIdentifier"} \cup PublishProps
        /\ PublishProps \cap Lists = {} /\ "packetId" \notin Lists /\ "subscriptionIdentifier" \notin Lists
        /\ "topicAlias" \in DOMAIN New(k) /\ "remlen" \notin PublishProps
  <2>1. PublishProps \cap Lists = {} /\ "packetId" \notin Lists /\ "subscriptionIdentifier" \notin Lists /\ "remlen" \notin PublishProps
    BY DEF Lists, UserProperties, PublishProps
  <2>2. DOMAIN New(k) = put \cup {"remlen", "packetId", "subscriptionIdentifier"} \cup PublishProps
    BY Domains DEF PublishPut, NonZero, Identifier, PublishProps
  <2> QED BY <2>1, <2>2 DEF PublishProps
<1>3. \A f \in PublishProps : f \in put <=> m[f] # 0
  BY DEF PublishPut, NonZero, PublishProps, Identifier
<1>4. "subscriptionIdentifier" \in put <=> m.subscriptionIdentifier > 0 /\ m.subscriptionIdentifier < 168435455
  BY DEF PublishPut, NonZero, PublishProps, Identifier
<1>5. "packetId" \notin put => m.qos = 0
  BY DEF PublishPut
<1>6. \A f \in DOMAIN New(k) \ (put \cup {"remlen"} \cup Lossy(k, m)) : m[f] = New(k)[f]
  <2> TAKE f \in DOMAIN New(k) \ (put \cup {"remlen"} \cup Lossy(k, m))
  <2>1. New(k)[f] = IF f \in Lists THEN <<>> ELSE 0
    BY <1>0, NewZero
  <2>2. m.qos = 0 => "packetId" \in Lossy(k, m)
    BY DEF Lossy, Acks
  <2>3. m.subscriptionIdentifier >= 168435455 => "subscriptionIdentifier" \in Lossy(k, m)
    BY DEF Lossy, Acks
  <2>4. m.subscriptionIdentifier \in Nat
    <3>1. "subscriptionIdentifier" \notin Lists \cup {"connectFlags"} /\ "subscriptionIdentifier" \in DOMAIN New(k)
      BY <1>2
    <3> QED BY <1>0, <3>1, NatFields
  <2> HIDE DEF put, k
  <2>5. CASE f \in PublishProps
    BY <1>2, <1>3, <2>1, <2>5
  <2>6. CASE f = "packetId"
    BY <1>5, <2>2, <2>6
  <2>7. CASE f = "subscriptionIdentifier"
    <3>1. m.subscriptionIdentifier = 0
      BY <1>4, <2>3, <2>4, <2>7
    <3> QED BY <1>2, <2>1, <2>7, <3>1
  <2> QED BY <1>2, <2>5, <2>6, <2>7
<1>7. /\ o.payload = m.payload /\ o.topic = m.topic /\ o.topicAlias = m.topicAlias /\ w.twice = "" /\ w.again = ""
  <2>1. "payload" \in put \ UserProperties /\ "topic" \in put \ UserProperties
    BY DEF PublishPut, UserProperties
  <2>2. "topicAlias" \in PublishProps /\ "topicAlias" \notin UserProperties
    BY DEF PublishProps, UserProperties
  <2>3. New(k)["topicAlias"] = 0
    BY <1>0, <1>2, <2>2, NewZero
  <2>4. "topicAlias" \in DOMAIN New(k) /\ "topicAlias" # "remlen"
    BY <1>2
  <2> HIDE DEF put, k
  <2>5. "topicAlias" \notin put => o.topicAlias = New(k).topicAlias
    BY <2>4 DEF Back, put, k
  <2>6. "topicAlias" \in put => o.topicAlias = m.topicAlias
    BY <2>2 DEF Back, put
  <2>7. o.topicAlias = m.topicAlias
    BY <1>3, <2>2, <2>3, <2>5, <2>6
  <2>8. o.payload = m.payload /\ o.topic = m.topic /\ w.twice = "" /\ w.again = ""
    BY <2>1 DEF Back, put
  <2> QED BY <2>7, <2>8
<1>8. ~ Zero(w, Z)
  <2>1. Z \subseteq PublishProps \cup {"subscriptionIdentifier"} /\ Z \cap UserProperties = {}
    BY DEF PublishProps, UserProperties
  <2> HIDE DEF put, Z
  <2>2. \A f \in Z \cap put : m[f] # 0
    BY <1>3, <1>4, <2>1
  <2>3. Zero(w, Z) <=> \E f \in Z \cap put : m[f] = 0
    BY <2>1, BackZero DEF put
  <2> QED BY <2>2, <2>3
<1>9. ~Unreadable(k, m) /\ (Mistakable(k, m) <=> bad)
  BY DEF Unreadable, Mistakable, Acks
<1>10. (d = Misread /\ bad) \/ (d = Got(o, FALSE) /\ ~bad)
  <2>1. d = IF \/ w.twice # "" \/ Zero(w, Z) \/ (o.topicAlias = 0 /\ o.topic = 0) THEN Failed
            ELSE IF w.again # "" THEN Got([o EXCEPT !.payload = @ + Size(w.again, w.vals[w.again])], FALSE)
            ELSE IF o.payload = Marked THEN Misread ELSE Got(o, FALSE)
    BY <1>1 DEF PublishDecode
  <2> HIDE DEF d, Z
  <2> QED BY <1>7, <1>8, <2>1
<1>11. Message(k, o)
  BY BackMessage
<1> HIDE DEF d, bad, put, k
<1>12. \A f \in DOMAIN New(k) \ Lossy(k, m) : o[f] = m[f]
  <2>1. DOMAIN m = DOMAIN New(k) /\ Back(k, m, put, w, o)
    BY DEF Message, put, k
  <2> QED BY <1>6, <2>1, ReadsSame
<1>13. Reads(k, m, d)
  BY <1>9, <1>10, <1>11, <1>12, Judged
<1> QED BY <1>13 DEF d, k

\* The bytes of the topics after the first i of a list: none after the last, and
\* at least three otherwise.
LEMMA RestSize ==
  ASSUME NEW topics \in Seq(TopicRecord), NEW i \in 1 .. Len(topics)
  PROVE  LET rest == FoldSeq(LAMBDA t, sum : 2 + t.len + sum, 0, SubSeq(topics, i + 1, Len(topics)))
         IN  (i = Len(topics) => rest = 0) /\ (i # Len(topics) => rest \in Nat /\ rest >= 3)
<1> DEFINE n == Len(topics)
           u == SubSeq(topics, i + 1, n)
           g == [j \in DOMAIN u |-> 2 + u[j].len]
<1>1. n \in Nat
  OBVIOUS
<1>2. u \in Seq(TopicRecord) /\ Len(u) = n - i
  BY <1>1
<1>3. FoldSeq(LAMBDA t, sum : 2 + t.len + sum, 0, u) = Adds(g)
  BY FoldsAreSums, Zenon
<1> HIDE DEF u, n
<1>4. i \in Nat /\ i <= n
  BY <1>1 DEF n
<1>5. CASE i = n
  <2>1. Len(u) = 0
    BY <1>1, <1>2, <1>5
  <2>2. DOMAIN g = {}
    <3>1. DOMAIN u = 1 .. Len(u)
      BY <1>2
    <3> QED BY <2>1, <3>1
  <2> HIDE DEF g
  <2>3. Adds(g) = 0
    BY <2>2, AddsNone
  <2> QED BY <1>3, <1>5, <2>3 DEF u, n
<1>6. CASE i # n
  <2>1. 1 \in DOMAIN u /\ IsFiniteSet(DOMAIN u)
    <3>1. DOMAIN u = 1 .. Len(u) /\ Len(u) \in Nat
      BY <1>2
    <3>2. Len(u) >= 1
      BY <1>1, <1>2, <1>4, <1>6
    <3>3. IsFiniteSet(1 .. Len(u))
      BY <3>1, FS_Interval
    <3> QED BY <3>1, <3>2, <3>3
  <2>2. DOMAIN g = DOMAIN u /\ \A j \in DOMAIN u : g[j] \in Nat /\ g[j] >= 3
    <3>1. \A j \in DOMAIN u : u[j].len \in Nat \ {0}
      <4> TAKE j \in DOMAIN u
      <4>1. u[j] \in TopicRecord
        BY <1>2
      <4> QED BY <4>1 DEF TopicRecord
    <3> QED BY <3>1
  <2> HIDE DEF g
  <2> DEFINE h == [y \in DOMAIN g \ {1} |-> g[y]]
  <2>3. Adds(g) = g[1] + Adds(h)
    BY <2>1, <2>2, AddsTake
  <2>4. Adds(h) \in Nat
    <3>1. IsFiniteSet(DOMAIN h) /\ \A x \in DOMAIN h : h[x] \in Nat
      <4>1. IsFiniteSet(DOMAIN g \ {1})
        BY <2>1, <2>2, FS_Subset
      <4> QED BY <2>2, <4>1
    <3> HIDE DEF h
    <3> QED BY <3>1, AddsTake
  <2> HIDE DEF h
  <2>5. Adds(g) \in Nat /\ Adds(g) >= 3
    BY <2>1, <2>2, <2>3, <2>4
  <2> QED BY <1>3, <1>6, <2>5 DEF u, n
<1> QED BY <1>5, <1>6

\* What is read of a list of topics: an initial part, and all of it if there are three or less.
LEMMA TopicsRead ==
  ASSUME NEW topics \in Seq(TopicRecord), topics # <<>>
  PROVE  ReadTopics(topics) \in Seq(TopicRecord) /\ (Len(topics) <= 3 => ReadTopics(topics) = topics)
<1> DEFINE left(i) == FoldSeq(LAMBDA t, sum : 2 + t.len + sum, 0, SubSeq(topics, i + 1, Len(topics)))
           S == {i \in DOMAIN topics : left(i) <= i}
           n == Len(topics)
           e == Min(S)
<1>1. n \in Nat /\ DOMAIN topics = 1 .. n /\ n # 0
  OBVIOUS
<1>2. \A i \in 1 .. n : (i = n => left(i) = 0) /\ (i # n => left(i) \in Nat /\ left(i) >= 3)
  BY RestSize
<1>3. ReadTopics(topics) = SubSeq(topics, 1, e)
  BY DEF ReadTopics
<1> HIDE DEF left
<1>4. S \subseteq Nat /\ n \in S /\ S \subseteq 1 .. n
  <2> HIDE DEF n
  <2>1. n \in 1 .. n
    BY <1>1
  <2>2. left(n) = 0
    BY <1>2, <2>1
  <2>3. left(n) <= n
    BY <1>1, <2>2
  <2> QED BY <1>1, <2>1, <2>3
<1>5. e \in S /\ \A j \in S : e <= j
  <2> HIDE DEF S
  <2> QED BY <1>4, MinIsLeast
<1>6. n <= 3 => e = n
  <2> HIDE DEF n, e
  <2>1. e \in 1 .. n /\ left(e) <= e
    BY <1>4, <1>5
  <2>2. e # n => left(e) \in Nat /\ left(e) >= 3
    BY <1>2, <2>1
  <2> SUFFICES ASSUME n <= 3, e # n
               PROVE  FALSE
    OBVIOUS
  <2>3. e < n
    BY <1>1, <2>1
  <2>4. e <= 2
    BY <1>1, <2>1, <2>3
  <2>5. CASE e = 1
    <3>1. left(1) \in Nat /\ left(1) >= 3 /\ left(1) <= 1
      BY <2>1, <2>2, <2>5
    <3> QED BY <3>1
  <2>6. CASE e = 2
    <3>1. left(2) \in Nat /\ left(2) >= 3 /\ left(2) <= 2
      BY <2>1, <2>2, <2>6
    <3> QED BY <3>1
  <2> QED BY <1>1, <2>1, <2>4, <2>5, <2>6
<1>7. e \in 1 .. n
  BY <1>4, <1>5
<1> HIDE DEF e, S
<1>8. SubSeq(topics, 1, e) \in Seq(TopicRecord)
  <2>1. e \in Nat /\ e <= Len(topics)
    BY <1>1, <1>7
  <2> HIDE DEF n
  <2>2. SubSeq(topics, 1, e) \in Seq(TopicRecord)
    BY <2>1
  <2> QED BY <2>2
<1>9. SubSeq(topics, 1, n) = topics
  OBVIOUS
<1> QED BY <1>3, <1>6, <1>8, <1>9

\* The decoder of UNSUBSCRIBE.
LEMMA UnsubscribeReads ==
  ASSUME NEW m, Message("UNSUBSCRIBE", m), NEW w, NEW o, o = Read(w, New("UNSUBSCRIBE")),
         Back("UNSUBSCRIBE", m, UnsubscribePut, w, o)
  PROVE  Reads("UNSUBSCRIBE", m, UnsubscribeDecode(w))
<1> DEFINE k == "UNSUBSCRIBE"
           put == UnsubscribePut
           d == UnsubscribeDecode(w)
           q == [o EXCEPT !["topics"] = ReadTopics(o.topics)]
           bad == m.topics = <<>>
           lost == Mistaken(w, UnsubscribeOrder, m.topics[1].len)
<1>0. k \in AllKinds \ {"CONNECT", "CONNACK"}
  BY DEF AllKinds
<1>1. o = Read(w, NewUnsubscribe)
  BY DEF New, Acks
<1>2. DOMAIN New(k) = put \cup {"remlen"} /\ "topics" \in put \ UserProperties
  BY Domains DEF UnsubscribePut, UserProperties
<1>3. o.topics = m.topics /\ m.topics \in Seq(TopicRecord)
  <2>1. m.topics \in FieldType(k, "topics")
    BY <1>2 DEF Message
  <2> QED BY <1>2, <2>1, NumberFields DEF Back
<1>4. Unreadable(k, m) <=> bad
  BY DEF Unreadable, Acks
<1>5. (d = Failed /\ bad) \/ (d = Misread /\ Mistakable(k, m)) \/ (d = Got(q, FALSE) /\ ~bad)
  <2>1. d = IF bad THEN Failed ELSE IF lost THEN Misread ELSE Got(q, FALSE)
    BY <1>1, <1>3 DEF UnsubscribeDecode
  <2>2. ASSUME ~bad, lost
        PROVE  Mistakable(k, m)
    <3>1. HighByte(m.topics[1].len) \in {Id[f] : f \in Range(UnsubscribeOrder)}
      BY <2>2, MistakenLike
    <3> QED BY <2>2, <3>1 DEF Mistakable
  <2> HIDE DEF d, bad, lost, k, q
  <2> QED BY <2>1, <2>2
<1>6. Message(k, o)
  BY BackMessage
<1>7. \A f \in DOMAIN New(k) \ Lossy(k, m) : o[f] = m[f]
  <2>1. DOMAIN m = DOMAIN New(k)
    BY DEF Message
  <2>2. Back(k, m, put, w, o)
    OBVIOUS
  <2> HIDE DEF put, k
  <2> QED BY <1>2, <2>1, <2>2, ReadsSame
<1>8. Len(m.topics) > 3 => "topics" \in Lossy(k, m)
  BY DEF Lossy, Acks
<1>9. ~bad => Message(k, q) /\ \A f \in DOMAIN New(k) \ Lossy(k, m) : q[f] = m[f]
  <2> SUFFICES ASSUME ~bad
               PROVE  Message(k, q) /\ \A f \in DOMAIN New(k) \ Lossy(k, m) : q[f] = m[f]
    OBVIOUS
  <2> DEFINE v == ReadTopics(o.topics)
  <2>1. v \in Seq(TopicRecord) /\ (Len(m.topics) <= 3 => v = m.topics)
    BY <1>3, TopicsRead
  <2>2. FieldType(k, "topics") = Seq(TopicRecord)
    BY NumberFields
  <2> HIDE DEF v, q
  <2>3. q = [o EXCEPT !["topics"] = v]
    BY DEF q, v
  <2>4. Message(k, [o EXCEPT !["topics"] = v])
    <3> HIDE DEF k
    <3> QED BY <1>0, <1>6, <2>1, <2>2, SetOne
  <2>5. \A f \in DOMAIN New(k) \ Lossy(k, m) : q[f] = m[f]
    <3> TAKE f \in DOMAIN New(k) \ Lossy(k, m)
    <3>1. DOMAIN o = DOMAIN New(k)
      BY DEF Back
    <3> HIDE DEF k
    <3>2. CASE f # "topics"
      BY <1>7, <2>3, <3>1, <3>2
    <3>3. CASE f = "topics"
      <4>1. q[f] = v
        BY <2>3, <3>1, <3>3
      <4> DEFINE c == Len(m.topics)
      <4>2. c \in Nat
        BY <1>3
      <4>3. ~ (c > 3)
        BY <1>8, <3>3
      <4> HIDE DEF c
      <4>4. c <= 3
        BY <4>2, <4>3
      <4> QED BY <2>1, <3>3, <4>1, <4>4 DEF c
    <3> QED BY <3>2, <3>3
  <2> QED BY <2>3, <2>4, <2>5
<1> HIDE DEF d, bad, k, q
<1>10. Reads(k, m, d)
  BY <1>4, <1>5, <1>9, Judged
<1> QED BY <1>10 DEF d, k

\* The fields of a new CONNACK that are not written.
LEMMA NewConnackZero ==
  /\ \A f \in ConnackProps : New("CONNACK")[f] = 0 /\ f \notin Lists /\ f # "connectFlags"
  /\ \A f \in Availability : f \notin Lists /\ f # "connectFlags"
BY DEF New, Acks, NewConnack, ConnackProps, Availability, Lists, UserProperties

\* The fields that are written.
LEMMA ConnackWritten ==
  ASSUME NEW m
  PROVE  /\ \A f \in Availability : (f \in ConnackPut(m)) <=> (m[f] # 1)
         /\ \A f \in ConnackProps : (f \in ConnackPut(m)) <=> (m[f] # 0)
         /\ {"sessionPresent", "reasonCode", "propertiesLen", "userProperty"} \subseteq ConnackPut(m)
         /\ ("receiveMaximum" \in ConnackPut(m)) <=> (LimitedReceive(m) # {})
         /\ ("receiveMaximum" \in ConnackPut(m)) => (m.receiveMaximum # 0)
         /\ ("maxPacketSize" \in ConnackPut(m)) <=> (m.maxPacketSize # 1)
         /\ "remlen" \notin ConnackPut(m)
<1> DEFINE put == ConnackPut(m)
<1>1. put = {"sessionPresent", "reasonCode", "propertiesLen", "userProperty"} \cup LimitedReceive(m)
              \cup NotOne(m, Availability \cup {"maxPacketSize"}) \cup NonZero(m, ConnackProps)
  BY DEF ConnackPut
<1>2. \A f : f \in LimitedReceive(m) <=> f = "receiveMaximum" /\ m[f] > 0 /\ m[f] < 65535
  BY DEF LimitedReceive
<1>3. \A f : f \in NotOne(m, Availability \cup {"maxPacketSize"}) <=> f \in Availability \cup {"maxPacketSize"} /\ m[f] # 1
  BY DEF NotOne
<1>4. \A f : f \in NonZero(m, ConnackProps) <=> f \in ConnackProps /\ m[f] # 0
  BY DEF NonZero
<1> HIDE DEF put
<1>5. \A f : f \in put <=> \/ f \in {"sessionPresent", "reasonCode", "propertiesLen", "userProperty"}
                           \/ f = "receiveMaximum" /\ m[f] > 0 /\ m[f] < 65535
                           \/ f \in Availability \cup {"maxPacketSize"} /\ m[f] # 1
                           \/ f \in ConnackProps /\ m[f] # 0
  BY <1>1, <1>2, <1>3, <1>4
<1>6. \A f \in Availability : (f \in put) <=> (m[f] # 1)
  BY <1>5, ConnackFields
<1>7. \A f \in ConnackProps : (f \in put) <=> (m[f] # 0)
  BY <1>5, ConnackFields
<1>8. /\ {"sessionPresent", "reasonCode", "propertiesLen", "userProperty"} \subseteq put
      /\ ("maxPacketSize" \in put) <=> (m.maxPacketSize # 1)
      /\ "remlen" \notin put
  BY <1>5, ConnackFields
<1>9. ("receiveMaximum" \in put) <=> (m.receiveMaximum > 0 /\ m.receiveMaximum < 65535)
  BY <1>5, ConnackFields
<1>10. (LimitedReceive(m) # {}) <=> (m.receiveMaximum > 0 /\ m.receiveMaximum < 65535)
  BY <1>2
<1> QED BY <1>6, <1>7, <1>8, <1>9, <1>10 DEF put

\* The fields that do not come back in a CONNACK.
LEMMA LossyConnack ==
  ASSUME NEW m
  PROVE  /\ m.maxQos = 0 => "maxQos" \in Lossy("CONNACK", m)
         /\ m.sharedSubscriptionAvailable = 1 =>
              {"sharedSubscriptionAvailable", "subscriptionIdentifierAvailable"} \subseteq Lossy("CONNACK", m)
         /\ m.serverKeepAlive # 0 =>
              {"responseInformation", "serverReference", "authMethod", "authData"} \subseteq Lossy("CONNACK", m)
BY DEF Lossy

\* What is read of a field that was written.
LEMMA ConnackGiven ==
  ASSUME NEW w, NEW o, NEW f, f \notin Unread(w), Has(w, f),
         f = "subscriptionIdentifierAvailable" => Has(w, "sharedSubscriptionAvailable")
  PROVE  ConnackValue(w, o, f) = o[f]
BY DEF ConnackValue

\* What is read of a field that was not.
LEMMA ConnackAbsent ==
  ASSUME NEW w, NEW o, NEW f, f \notin Unread(w), ~Has(w, f)
  PROVE  /\ f = "receiveMaximum" => ConnackValue(w, o, f) = 65535
         /\ f \in {"retainAvailable", "wildcardSubscriptionAvailable", "subscriptionIdentifierAvailable"} =>
              ConnackValue(w, o, f) = 1
         /\ f \notin {"receiveMaximum", "maxQos", "retainAvailable", "wildcardSubscriptionAvailable",
                      "subscriptionIdentifierAvailable"} =>
              ConnackValue(w, o, f) = o[f]
BY DEF ConnackValue, ConnackDefault, Availability

\* What is read has the type of the field.
LEMMA ConnackTypes ==
  ASSUME NEW w, NEW o, \A f \in DOMAIN New("CONNACK") : o[f] \in FieldType("CONNACK", f),
         NEW f \in DOMAIN New("CONNACK")
  PROVE  ConnackValue(w, o, f) \in FieldType("CONNACK", f)
<1> DEFINE k == "CONNACK"
           T == FieldType(k, f)
           v == ConnackValue(w, o, f)
<1>1. \/ v = o[f]
      \/ f = "receiveMaximum" /\ v = 65535
      \/ f \in Unread(w) \cup Availability \cup {"maxQos"} /\ v \in Nat
  <2> DEFINE default == ConnackDefault(o, f)
  <2>1. f \in Unread(w) => v = 0
    BY DEF ConnackValue
  <2>2. ASSUME f \notin Unread(w)
        PROVE  \/ v = o[f]
               \/ v = 1 /\ f = "subscriptionIdentifierAvailable"
               \/ v = default
    BY <2>2 DEF ConnackValue
  <2>3. "subscriptionIdentifierAvailable" \in Availability
    BY DEF Availability
  <2>4. \/ default = o[f]
        \/ f = "receiveMaximum" /\ default = 65535
        \/ f = "maxQos" /\ default = 2
        \/ f \in Availability /\ default = 1
    BY DEF ConnackDefault
  <2> HIDE DEF v, default
  <2>5. CASE f \in Unread(w)
    BY <2>1, <2>5
  <2>6. CASE f \notin Unread(w)
    BY <2>2, <2>3, <2>4, <2>6
  <2> QED BY <2>5, <2>6
<1>2. 65535 \in Word
  BY DEF Word
<1>3. FieldType(k, "receiveMaximum") = Word
  BY NumberFields
<1>4. f \in Unread(w) \cup Availability \cup {"maxQos"} => T = Nat
  <2>1. Unread(w) \subseteq {"responseInformation", "serverReference", "authMethod", "authData"}
    BY DEF Unread
  <2>2. Availability \cup {"maxQos"} \subseteq OneByte
    BY DEF Availability, OneByte
  <2>3. {"responseInformation", "serverReference", "authMethod", "authData"} \subseteq Strings
    BY DEF Strings
  <2>4. \A g \in OneByte \cup Strings : g \in AllFields
    BY DEF AllFields
  <2>5. \A g \in Availability \cup {"maxQos"} : g \notin Lists /\ g # "connectFlags" /\ g # "receiveMaximum"
    BY DEF Availability, Lists, UserProperties
  <2>6. \A g \in {"responseInformation", "serverReference", "authMethod", "authData"} :
          g \notin Lists /\ g # "connectFlags" /\ g # "receiveMaximum"
    BY DEF Lists, UserProperties
  <2>7. f \in Unread(w) \cup Availability \cup {"maxQos"} => f \in AllFields \ (Lists \cup {"connectFlags", "receiveMaximum"})
    BY <2>1, <2>2, <2>3, <2>4, <2>5, <2>6
  <2> QED BY <2>7, NumberFields
<1> HIDE DEF v
<1> QED BY <1>1, <1>2, <1>3, <1>4 DEF v

\* A receive maximum that is not written is the default.
Defaulted(m) == LimitedReceive(m) = {} => m.receiveMaximum = 65535

\* What the decoder of CONNACK reads is what was written, but for what is lost.
LEMMA ConnackSame ==
  ASSUME NEW m, Message("CONNACK", m), NEW w, NEW o, Back("CONNACK", m, ConnackPut(m), w, o),
         ~Miscounted("CONNACK", m), Defaulted(m),
         NEW f \in DOMAIN New("CONNACK"), f \notin Lossy("CONNACK", m)
  PROVE  ConnackValue(w, o, f) = m[f]
<1> DEFINE k == "CONNACK"
           put == ConnackPut(m)
           L == Lossy(k, m)
           v == ConnackValue(w, o, f)
           sub == "subscriptionIdentifierAvailable"
           shared == "sharedSubscriptionAvailable"
           alive == "serverKeepAlive"
<1>0. /\ \A g : Has(w, g) <=> g \in put
      /\ \A g \in put \ UserProperties : o[g] = m[g]
      /\ \A g \in put \cap UserProperties : Len(m[g]) % 2 # 1 => o[g] = m[g]
      /\ o.remlen = m.remlen
      /\ \A g \in DOMAIN New(k) \ (put \cup {"remlen"}) : o[g] = New(k)[g]
  <2>1. Back(k, m, put, w, o)
    OBVIOUS
  <2> HIDE DEF put, k, L, v
  <2>2. \A g : Has(w, g) <=> g \in put
    BY <2>1 DEF Back, Has
  <2>3. \A g \in put \ UserProperties : o[g] = m[g]
    BY <2>1 DEF Back
  <2>4. \A g \in put \cap UserProperties : Len(m[g]) % 2 # 1 => o[g] = m[g]
    BY <2>1 DEF Back
  <2>5. o.remlen = m.remlen
    BY <2>1 DEF Back
  <2>6. \A g \in DOMAIN New(k) \ (put \cup {"remlen"}) : o[g] = New(k)[g]
    BY <2>1 DEF Back
  <2> QED BY <2>2, <2>3, <2>4, <2>5, <2>6
<1>1. \A g : Has(w, g) <=> g \in put
  BY <1>0
<1>2. f \notin Unread(w)
  <2>1. alive \in put <=> m[alive] # 0
    <3>1. alive \in ConnackProps
      BY DEF ConnackProps
    <3> QED BY <3>1, ConnackWritten
  <2>2. alive \in put => Unread(w) \subseteq L
    BY <2>1, LossyConnack DEF Unread
  <2>3. alive \notin put => Unread(w) = {}
    BY <1>1 DEF Unread
  <2> HIDE DEF put, L
  <2> QED BY <2>2, <2>3 DEF L
<1>3. shared \notin put => sub \in L /\ shared \in L
  <2>1. shared \in put <=> m[shared] # 1
    <3>1. shared \in Availability
      BY DEF Availability
    <3> QED BY <3>1, ConnackWritten
  <2> QED BY <2>1, LossyConnack
<1>4. CASE f \in put
  <2>1. f = sub => Has(w, shared)
    <3> HIDE DEF put, L
    <3> QED BY <1>1, <1>3 DEF L
  <2>2. v = o[f]
    <3>1. Has(w, f)
      BY <1>1, <1>4
    <3> QED BY <1>2, <2>1, <3>1, ConnackGiven
  <2>3. o[f] = m[f]
    <3>1. CASE f \in UserProperties
      <4> DEFINE odd(g) == Len(m[g]) % 2 = 1
      <4>1. ~odd(f)
        <5>1. f \in DOMAIN m
          BY DEF Message
        <5> QED BY <3>1, <5>1, LossyLists
      <4>2. \A g \in put \cap UserProperties : ~odd(g) => o[g] = m[g]
        BY <1>0
      <4> HIDE DEF odd, put, v, L
      <4> QED BY <1>4, <3>1, <4>1, <4>2
    <3>2. CASE f \notin UserProperties
      BY <1>0, <1>4, <3>2
    <3> QED BY <3>1, <3>2
  <2> QED BY <2>2, <2>3
<1>5. CASE f \notin put
  <2>1. ~Has(w, f)
    BY <1>1, <1>5
  <2>2. CASE f = "remlen"
    <3>1. v = o[f]
      BY <1>2, <2>1, <2>2, ConnackAbsent
    <3> QED BY <1>0, <2>2, <3>1
  <2>3. CASE f = "receiveMaximum"
    <3>1. LimitedReceive(m) = {}
      BY <1>5, <2>3, ConnackWritten
    <3>2. m.receiveMaximum = 65535
      BY <3>1 DEF Defaulted
    <3>3. v = 65535
      BY <1>2, <2>1, <2>3, ConnackAbsent
    <3> HIDE DEF v
    <3> QED BY <2>3, <3>2, <3>3 DEF v
  <2>4. CASE f \in Availability
    <3>1. m[f] = 1
      BY <1>5, <2>4, ConnackWritten
    <3>2. f \in {"retainAvailable", "wildcardSubscriptionAvailable", sub}
      <4>1. f # shared
        BY <1>3, <1>5
      <4> QED BY <2>4, <4>1 DEF Availability
    <3>3. v = 1
      BY <1>2, <2>1, <3>2, ConnackAbsent
    <3> HIDE DEF v
    <3> QED BY <3>1, <3>3 DEF v
  <2>5. CASE f \in ConnackProps
    <3>1. m[f] = 0
      BY <1>5, <2>5, ConnackWritten
    <3>2. f # "maxQos"
      BY <3>1, LossyConnack
    <3>3. f \notin {"receiveMaximum", "retainAvailable", "wildcardSubscriptionAvailable", sub}
      BY <2>5 DEF ConnackProps
    <3>4. v = o[f]
      BY <1>2, <2>1, <3>2, <3>3, ConnackAbsent
    <3>5. o[f] = 0
      <4>1. f # "remlen"
        BY <2>5 DEF ConnackProps
      <4>2. o[f] = New(k)[f]
        BY <1>0, <1>5, <4>1
      <4> QED BY <2>5, <4>2, NewConnackZero
    <3> HIDE DEF v
    <3> QED BY <3>1, <3>4, <3>5 DEF v
  <2>6. f # "maxPacketSize"
    <3>1. m.maxPacketSize # 1
      BY DEF Miscounted
    <3> QED BY <1>5, <3>1, ConnackWritten
  <2>7. f \notin {"sessionPresent", "reasonCode", "propertiesLen", "userProperty"}
    BY <1>5, ConnackWritten
  <2>8. f \in {"remlen", "sessionPresent", "reasonCode", "propertiesLen", "userProperty",
               "receiveMaximum", "maxPacketSize"} \cup Availability \cup ConnackProps
    BY ConnackFields
  <2> HIDE DEF v, put
  <2> QED BY <2>2, <2>3, <2>4, <2>5, <2>6, <2>7, <2>8 DEF v
<1> QED BY <1>4, <1>5

\* What the decoder of CONNACK refuses.
LEMMA ConnackVerdict ==
  ASSUME NEW m, Message("CONNACK", m), NEW w, NEW o, Back("CONNACK", m, ConnackPut(m), w, o),
         ~Miscounted("CONNACK", m)
  PROVE  ConnackRefused(w, o) <=> Unreadable("CONNACK", m)
<1> DEFINE k == "CONNACK"
           put == ConnackPut(m)
           Z == {"receiveMaximum", "maxPacketSize"}
           Q == {"maxQos"}
           A == Availability
<1>0. Back(k, m, put, w, o)
  OBVIOUS
<1>1. w.twice = "" /\ o.reasonCode = m.reasonCode
  <2>1. "reasonCode" \in put \ UserProperties
    BY ConnackWritten DEF UserProperties
  <2> HIDE DEF put
  <2> QED BY <1>0, <2>1 DEF Back
<1>2. ~Zero(w, Z)
  <2>1. Z \cap UserProperties = {}
    BY DEF UserProperties
  <2>2. \A f \in Z \cap put : m[f] # 0
    <3>1. "receiveMaximum" \in put => m.receiveMaximum # 0
      BY ConnackWritten
    <3>2. m.maxPacketSize # 0
      BY DEF Miscounted
    <3> HIDE DEF put
    <3> QED BY <3>1, <3>2
  <2> HIDE DEF put, Z
  <2> QED BY <1>0, <2>1, <2>2, BackZero
<1>3. Above(w, Q, 2) <=> m.maxQos > 2
  <2>1. Q \cap UserProperties = {}
    BY DEF UserProperties
  <2>2. (\E f \in Q \cap put : m[f] > 2) <=> m.maxQos > 2
    <3>1. "maxQos" \in put <=> m.maxQos # 0
      <4>1. "maxQos" \in ConnackProps
        BY DEF ConnackProps
      <4> QED BY <4>1, ConnackWritten
    <3>2. m.maxQos = 0 => ~(m.maxQos > 2)
      OBVIOUS
    <3> HIDE DEF put
    <3> QED BY <3>1, <3>2
  <2> HIDE DEF put, Q
  <2>3. Above(w, Q, 2) <=> \E f \in Q \cap put : m[f] > 2
    BY <1>0, <2>1, BackAbove
  <2> QED BY <2>2, <2>3
<1>4. Above(w, A, 1) <=> \E f \in A : m[f] > 1
  <2>1. A \cap UserProperties = {}
    BY DEF UserProperties, Availability
  <2>2. (\E f \in A \cap put : m[f] > 1) <=> \E f \in A : m[f] > 1
    <3>1. \A f \in A : f \in put <=> m[f] # 1
      BY ConnackWritten
    <3>2. \A f : m[f] = 1 => ~(m[f] > 1)
      OBVIOUS
    <3> HIDE DEF put, A
    <3> QED BY <3>1, <3>2
  <2> HIDE DEF put, A
  <2>3. Above(w, A, 1) <=> \E f \in A \cap put : m[f] > 1
    BY <1>0, <2>1, BackAbove
  <2> QED BY <2>2, <2>3
<1>5. Unreadable(k, m) <=> \/ m.reasonCode \notin ValidConnAckReasonCode
                           \/ m.maxQos > 2
                           \/ \E f \in A : m[f] > 1
  BY DEF Unreadable, Acks
<1>6. ConnackRefused(w, o) <=> \/ w.twice \notin Unread(w) \cup {"", "serverKeepAlive"}
                               \/ o.reasonCode \notin ValidConnAckReasonCode
                               \/ Zero(w, Z) \/ Above(w, Q, 2) \/ Above(w, A, 1)
  BY DEF ConnackRefused
<1> HIDE DEF put, Z, Q, A
<1> QED BY <1>1, <1>2, <1>3, <1>4, <1>5, <1>6

\* The decoder of CONNACK.
LEMMA ConnackReads ==
  ASSUME NEW m, Message("CONNACK", m), NEW w, NEW o, o = Read(w, New("CONNACK")),
         Back("CONNACK", m, ConnackPut(m), w, o), ~Miscounted("CONNACK", m), Defaulted(m)
  PROVE  Reads("CONNACK", m, ConnackDecode(w))
<1> DEFINE k == "CONNACK"
           d == ConnackDecode(w)
           p == [f \in DOMAIN o |-> ConnackValue(w, o, f)]
<1>1. o = Read(w, NewConnack) /\ DOMAIN o = DOMAIN New(k)
  BY DEF New, Acks, Back
<1>2. ConnackRefused(w, o) <=> Unreadable(k, m)
  BY ConnackVerdict
<1>3. d = IF ConnackRefused(w, o) THEN Failed ELSE Got(p, FALSE)
  BY <1>1 DEF ConnackDecode
<1>4. Message(k, p)
  <2>1. \A f \in DOMAIN New(k) : o[f] \in FieldType(k, f)
    BY DEF Back
  <2>2. \A f \in DOMAIN New(k) : ConnackValue(w, o, f) \in FieldType(k, f)
    BY <2>1, ConnackTypes
  <2>3. DOMAIN p = DOMAIN New(k) /\ \A f \in DOMAIN New(k) : p[f] = ConnackValue(w, o, f)
    BY <1>1
  <2> HIDE DEF p
  <2> QED BY <2>2, <2>3 DEF Message
<1>5. \A f \in DOMAIN New(k) \ Lossy(k, m) : p[f] = m[f]
  <2> TAKE f \in DOMAIN New(k) \ Lossy(k, m)
  <2>1. ConnackValue(w, o, f) = m[f]
    BY ConnackSame
  <2>2. p[f] = ConnackValue(w, o, f)
    BY <1>1
  <2> QED BY <2>1, <2>2
<1>6. \/ (d = Panicked \/ d = Failed) /\ Unreadable(k, m)
      \/ d = Got(p, FALSE) /\ ~Unreadable(k, m) /\ Message(k, p) /\ \A f \in DOMAIN New(k) \ Lossy(k, m) : p[f] = m[f]
  <2> HIDE DEF d, p
  <2> QED BY <1>2, <1>3, <1>4, <1>5
<1>7. FALSE \in BOOLEAN
  OBVIOUS
<1> HIDE DEF d, p
<1> QED BY <1>6, <1>7, Judged DEF d

\* The fields of a CONNECT that are always written.
AlwaysWritten == {"protoName", "version", "connectFlags", "willQos", "keepAlive", "propertiesLen",
                  "maxPacketSize", "userProperty", "clientId"}

\* The fields of a CONNECT that are written.
LEMMA ConnectWritten ==
  ASSUME NEW m
  PROVE  /\ \A f : f \in ConnectPut(m) <=>
              \/ f \in AlwaysWritten
              \/ f \in LimitedReceive(m)
              \/ f = "requestProblemInfo" /\ m[f] # 1
              \/ f \in OptionalProps /\ m[f] # 0
              \/ "willFlag" \in m.connectFlags /\ f \in WillFields(m)
              \/ f \in Optional(m, "username", "usernameFlag")
              \/ f \in Optional(m, "password", "passwordFlag")
<1> DEFINE has == "willFlag" \in m.connectFlags
           WF == WillFields(m)
           LR == LimitedReceive(m)
           U == Optional(m, "username", "usernameFlag")
           W == Optional(m, "password", "passwordFlag")
<1> HIDE DEF has, WF, LR, U, W
<1> QED BY DEF ConnectPut, encodeMessage, NotOne, NonZero, AlwaysWritten, OptionalProps, has, WF, LR, U, W

\* The fields of the will that are written.
LEMMA WillWritten ==
  ASSUME NEW m
  PROVE  \A f : f \in WillFields(m) <=>
           \/ f \in {"willPropertiesLen", "willUserProperty", "willTopic", "willMessage"}
           \/ f \in WillProps /\ m[f] # 0
BY DEF WillFields, NonZero, WillProps, OptionalWill

\* The fields that do not come back in a CONNECT.
LEMMA LossyConnect ==
  ASSUME NEW m
  PROVE  /\ \A f \in {"receiveMaximum", "clientId"} : m[f] = 0 => f \in Lossy("CONNECT", m)
         /\ "willFlag" \notin m.connectFlags =>
              WillProperties \cup {"willPropertiesLen", "willTopic", "willMessage"} \subseteq Lossy("CONNECT", m)
         /\ "usernameFlag" \notin m.connectFlags => "username" \in Lossy("CONNECT", m)
         /\ "passwordFlag" \notin m.connectFlags => "password" \in Lossy("CONNECT", m)
<1> DEFINE lists == {f \in {"userProperty", "willUserProperty"} \cap DOMAIN m : Len(m[f]) % 2 = 1}
           zeros == {f \in {"receiveMaximum", "clientId"} : m[f] = 0}
           will == IF "willFlag" \in m.connectFlags THEN {}
                   ELSE WillProperties \cup {"willPropertiesLen", "willTopic", "willMessage"}
           user == {f \in {"username"} : "usernameFlag" \notin m.connectFlags}
           pass == {f \in {"password"} : "passwordFlag" \notin m.connectFlags}
<1>1. Lossy("CONNECT", m) = lists \cup (zeros \cup will \cup user \cup pass)
  BY SMT DEF Lossy
<1>2. \A f \in {"receiveMaximum", "clientId"} : m[f] = 0 => f \in zeros
  OBVIOUS
<1>3. "willFlag" \notin m.connectFlags =>
        WillProperties \cup {"willPropertiesLen", "willTopic", "willMessage"} \subseteq will
  OBVIOUS
<1>4. "usernameFlag" \notin m.connectFlags => "username" \in user
  OBVIOUS
<1>5. "passwordFlag" \notin m.connectFlags => "password" \in pass
  OBVIOUS
<1> HIDE DEF lists, zeros, will, user, pass
<1> QED BY <1>1, <1>2, <1>3, <1>4, <1>5

\* What a message that build gets right looks like.
LEMMA Counted ==
  ASSUME NEW m, ~Miscounted("CONNECT", m)
  PROVE  /\ m.maxPacketSize # 0
         /\ "usernameFlag" \in m.connectFlags => m.username # 0
         /\ "passwordFlag" \in m.connectFlags => m.password # 0
         /\ "willFlag" \in m.connectFlags => m.willTopic # 0 /\ m.willMessage # 0 /\ ~(m.payloadFormatIndicator > 1)
BY DEF Miscounted

\* The fields that a new CONNECT holds.
LEMMA NewConnectZero ==
  /\ \A f \in OptionalProps \cup WillProps : New("CONNECT")[f] = 0
  /\ New("CONNECT").requestProblemInfo = 1 /\ New("CONNECT").receiveMaximum = 0
<1>1. New("CONNECT") = NewConnect
  BY SMT DEF New, Acks
<1>2. NewConnect.requestProblemInfo = 1 /\ NewConnect.receiveMaximum = 0
  BY SMT DEF NewConnect
<1>3. \A f \in OptionalProps : NewConnect[f] = 0
  BY SMT DEF NewConnect, OptionalProps
<1>4. \A f \in WillProps : NewConnect[f] = 0
  BY SMT DEF NewConnect, WillProps, OptionalWill
<1> QED BY <1>1, <1>2, <1>3, <1>4

\* What the decoder of CONNECT makes of what it read.
LEMMA ConnectFinal ==
  ASSUME NEW w, NEW o, DOMAIN o = DOMAIN New("CONNECT")
  PROVE  LET p == decodeMessage(w, o)
         IN  /\ DOMAIN p = DOMAIN New("CONNECT")
             /\ p.receiveMaximum = IF Has(w, "receiveMaximum") THEN o.receiveMaximum ELSE 65535
             /\ p.clientId = IF o.clientId = 0 THEN 1 ELSE o.clientId
             /\ \A f \in DOMAIN New("CONNECT") \ {"receiveMaximum", "clientId"} : p[f] = o[f]
<1> DEFINE p == decodeMessage(w, o)
           limit == IF Has(w, "receiveMaximum") THEN o.receiveMaximum ELSE 65535
           name == IF o.clientId = 0 THEN 1 ELSE o.clientId
<1>1. "receiveMaximum" \in DOMAIN o /\ "clientId" \in DOMAIN o
  BY ConnectClasses DEF PlainFields, ConnectProps
<1>2. p = [o EXCEPT !.receiveMaximum = limit, !.clientId = name]
  BY SMT DEF decodeMessage
<1> HIDE DEF p, limit, name
<1>3. DOMAIN p = DOMAIN o
  BY <1>2
<1>4. p.receiveMaximum = limit
  BY <1>1, <1>2
<1>5. p.clientId = name
  BY <1>1, <1>2
<1>6. \A f \in DOMAIN o \ {"receiveMaximum", "clientId"} : p[f] = o[f]
  BY <1>2
<1> QED BY <1>3, <1>4, <1>5, <1>6 DEF p, limit, name

\* It is a message.
LEMMA ConnectTypes ==
  ASSUME NEW m, Message("CONNECT", m), NEW w, NEW o, Back("CONNECT", m, ConnectPut(m), w, o)
  PROVE  Message("CONNECT", decodeMessage(w, o))
<1> DEFINE k == "CONNECT"
           put == ConnectPut(m)
           p == decodeMessage(w, o)
<1>0. Back(k, m, put, w, o)
  OBVIOUS
<1>1. "version" \in put \ UserProperties /\ "protoName" \in put \ UserProperties
  BY ConnectWritten DEF AlwaysWritten, UserProperties
<1> HIDE DEF put
<1>2. o.version = m.version /\ o.protoName = m.protoName
  BY <1>0, <1>1 DEF Back
<1>3. DOMAIN o = DOMAIN New(k) /\ \A f \in DOMAIN New(k) : o[f] \in FieldType(k, f)
  BY <1>0 DEF Back
<1>4. /\ DOMAIN p = DOMAIN New(k)
      /\ p.receiveMaximum = IF Has(w, "receiveMaximum") THEN o.receiveMaximum ELSE 65535
      /\ p.clientId = IF o.clientId = 0 THEN 1 ELSE o.clientId
      /\ \A f \in DOMAIN New(k) \ {"receiveMaximum", "clientId"} : p[f] = o[f]
  BY <1>3, ConnectFinal
<1>5. {"receiveMaximum", "clientId", "version", "protoName"} \subseteq DOMAIN New(k)
  BY ConnectClasses DEF PlainFields, ConnectProps
<1>6. FieldType(k, "receiveMaximum") = Word /\ FieldType(k, "clientId") = Nat
  <2>1. "clientId" \in AllFields \ (Lists \cup {"connectFlags", "receiveMaximum"})
    BY DEF AllFields, Strings, Lists, UserProperties
  <2> QED BY <2>1, NumberFields
<1> HIDE DEF p
<1>7. p.receiveMaximum \in Word
  <2>1. 65535 \in Word
    BY DEF Word
  <2> QED BY <1>3, <1>4, <1>5, <1>6, <2>1
<1>8. p.clientId \in Nat
  BY <1>3, <1>4, <1>5, <1>6
<1>9. \A f \in DOMAIN New(k) : p[f] \in FieldType(k, f)
  BY <1>3, <1>4, <1>6, <1>7, <1>8
<1>10. p.version = m.version /\ p.protoName = m.protoName
  BY <1>2, <1>4, <1>5
<1>11. (p.version = 5) = (p.protoName = 4)
  BY <1>10 DEF Message
<1> QED BY <1>4, <1>9, <1>11 DEF Message, p

\* What is read of the fields that were written, and of those that were not.
LEMMA BackFields ==
  ASSUME NEW k, NEW m, NEW put, NEW w, NEW o, Back(k, m, put, w, o)
  PROVE  /\ \A g : Has(w, g) <=> g \in put
         /\ \A g \in put \ UserProperties : o[g] = m[g]
         /\ o.remlen = m.remlen
         /\ \A g \in DOMAIN New(k) \ (put \cup {"remlen"}) : o[g] = New(k)[g]
<1>1. \A g : Has(w, g) <=> g \in put
  BY DEF Back, Has
<1>2. \A g \in put \ UserProperties : o[g] = m[g]
  BY DEF Back
<1>4. o.remlen = m.remlen
  BY DEF Back
<1>5. \A g \in DOMAIN New(k) \ (put \cup {"remlen"}) : o[g] = New(k)[g]
  BY DEF Back
<1> QED BY <1>1, <1>2, <1>4, <1>5

\* A list with a value for every key comes back.
Odd(u) == Len(u) % 2 = 1

\* Then it is read as it was.
LEMMA BackLists ==
  ASSUME NEW k, NEW m, NEW put, NEW w, NEW o, Back(k, m, put, w, o), NEW f \in put \cap UserProperties,
         ~Odd(m[f])
  PROVE  o[f] = m[f]
BY DEF Back, Odd

\* A field that was written comes back, unless it is a list that is completed.
LEMMA PutBack ==
  ASSUME NEW k, NEW m, NEW put, NEW w, NEW o, Back(k, m, put, w, o),
         NEW f \in put, f \in DOMAIN m, f \notin Lossy(k, m)
  PROVE  o[f] = m[f]
<1>1. CASE f \in UserProperties
  <2>1. ~Odd(m[f])
    BY <1>1, LossyLists DEF Odd
  <2>2. f \in put \cap UserProperties
    BY <1>1
  <2> QED BY <2>1, <2>2, BackLists
<1>2. CASE f \notin UserProperties
  BY <1>2, BackFields
<1> QED BY <1>1, <1>2

\* The optional properties of a CONNECT come back, those that were left out as zero.
LEMMA OptionalBack ==
  ASSUME NEW m, Message("CONNECT", m), NEW w, NEW o, Back("CONNECT", m, ConnectPut(m), w, o)
  PROVE  \A f \in OptionalProps : o[f] = m[f] /\ (Has(w, f) <=> m[f] # 0)
<1> DEFINE k == "CONNECT"
           put == ConnectPut(m)
<1> TAKE f \in OptionalProps
<1>0. Back(k, m, put, w, o)
  OBVIOUS
<1>1. f \notin UserProperties /\ f # "remlen" /\ f \in DOMAIN New(k)
  BY ConnectClasses DEF OptionalProps, ConnectProps, UserProperties
<1>2. f \in put <=> m[f] # 0
  <2>1. f \notin AlwaysWritten \cup {"requestProblemInfo"}
    BY DEF OptionalProps, AlwaysWritten
  <2>2. f \notin WillFields(m)
    <3>1. f \notin {"willPropertiesLen", "willUserProperty", "willTopic", "willMessage"}
      BY DEF OptionalProps
    <3>2. f \notin WillProps
      BY DEF OptionalProps, WillProps, OptionalWill
    <3> QED BY <3>1, <3>2, WillWritten
  <2>3. f \notin LimitedReceive(m) \cup Optional(m, "username", "usernameFlag") \cup Optional(m, "password", "passwordFlag")
    BY DEF OptionalProps, LimitedReceive, Optional
  <2> QED BY <2>1, <2>2, <2>3, ConnectWritten
<1> HIDE DEF put, k
<1>3. Has(w, f) <=> f \in put
  BY <1>0, BackFields
<1>4. CASE f \in put
  <2>1. o[f] = m[f]
    BY <1>0, <1>1, <1>4, BackFields
  <2> QED BY <1>2, <1>3, <1>4, <2>1
<1>5. CASE f \notin put
  <2>1. o[f] = New(k)[f]
    BY <1>0, <1>1, <1>5, BackFields
  <2>2. New(k)[f] = 0
    BY NewConnectZero DEF k
  <2> QED BY <1>2, <1>3, <1>5, <2>1, <2>2
<1> QED BY <1>4, <1>5

\* A user name, a password and a maximum have lengths and values.
LEMMA ConnectNumbers ==
  ASSUME NEW m, Message("CONNECT", m)
  PROVE  m.username \in Nat /\ m.password \in Nat /\ m.receiveMaximum \in Word
<1>1. {"username", "password", "receiveMaximum"} \subseteq DOMAIN New("CONNECT") /\ "CONNECT" \in AllKinds
  BY ConnectClasses DEF PlainFields, ConnectProps, AllKinds
<1>2. {"username", "password"} \cap (Lists \cup {"connectFlags"}) = {}
  BY DEF Lists, UserProperties
<1>3. m.username \in Nat /\ m.password \in Nat
  BY <1>1, <1>2, NatFields
<1>4. m.receiveMaximum \in Word
  BY <1>1, NumberFields DEF Message
<1> QED BY <1>3, <1>4

\* What is read of a CONNECT is what was written, but for what is lost.
LEMMA ConnectBack ==
  ASSUME NEW m, Message("CONNECT", m), NEW w, NEW o, Back("CONNECT", m, ConnectPut(m), w, o),
         ~Miscounted("CONNECT", m),
         NEW f \in DOMAIN New("CONNECT") \ {"receiveMaximum"}, f \notin Lossy("CONNECT", m)
  PROVE  o[f] = m[f]
<1> DEFINE k == "CONNECT"
           put == ConnectPut(m)
           L == Lossy(k, m)
<1>0. Back(k, m, put, w, o) /\ DOMAIN m = DOMAIN New(k) /\ f \notin L
  BY DEF Message
<1>1. CASE f \in put
  <2>1. f \in DOMAIN m
    BY <1>0
  <2> HIDE DEF put
  <2> QED BY <1>0, <1>1, <2>1, PutBack
<1>2. CASE f \notin put
  <2>1. f \notin AlwaysWritten
    BY <1>2, ConnectWritten
  <2>2. CASE f = "remlen"
    <3> HIDE DEF put
    <3> QED BY <1>0, <2>2, BackFields
  <2>3. f # "remlen" => o[f] = New(k)[f]
    <3> HIDE DEF put
    <3> QED BY <1>0, <1>2, BackFields
  <2>4. CASE f \in OptionalProps
    BY <2>4, OptionalBack
  <2>5. CASE f = "requestProblemInfo"
    <3>1. m[f] = 1
      BY <1>2, <2>5, ConnectWritten
    <3>2. New(k)[f] = 1
      BY <2>5, NewConnectZero
    <3> HIDE DEF put, k
    <3> QED BY <2>3, <2>5, <3>1, <3>2
  <2>6. CASE f \in WillProps \cup {"willPropertiesLen", "willUserProperty", "willTopic", "willMessage"}
    <3>1. "willFlag" \in m.connectFlags
      <4>1. WillProps \cup {"willUserProperty"} \subseteq WillProperties
        BY ConnectClasses
      <4> QED BY <2>6, <4>1, LossyConnect
    <3>2. f \notin WillFields(m)
      BY <1>2, <3>1, ConnectWritten
    <3>3. f \in WillProps /\ m[f] = 0
      BY <2>6, <3>2, WillWritten
    <3>4. New(k)[f] = 0
      BY <3>3, NewConnectZero
    <3>5. f # "remlen"
      BY <3>3 DEF WillProps, OptionalWill
    <3> HIDE DEF put, k
    <3> QED BY <2>3, <3>3, <3>4, <3>5
  <2>7. f # "username"
    <3>1. SUFFICES ASSUME f = "username"
                   PROVE  FALSE
      OBVIOUS
    <3>2. "usernameFlag" \in m.connectFlags
      BY <3>1, LossyConnect
    <3>3. m.username # 0
      BY <3>2, Counted
    <3>4. m.username \in Nat
      BY <3>1, ConnectNumbers
    <3>5. f \in Optional(m, "username", "usernameFlag")
      BY <3>1, <3>2, <3>3, <3>4 DEF Optional
    <3> QED BY <1>2, <3>5, ConnectWritten
  <2>8. f # "password"
    <3>1. SUFFICES ASSUME f = "password"
                   PROVE  FALSE
      OBVIOUS
    <3>2. "passwordFlag" \in m.connectFlags
      BY <3>1, LossyConnect
    <3>3. m.password # 0
      BY <3>2, Counted
    <3>4. m.password \in Nat
      BY <3>1, ConnectNumbers
    <3>5. f \in Optional(m, "password", "passwordFlag")
      BY <3>1, <3>2, <3>3, <3>4 DEF Optional
    <3> QED BY <1>2, <3>5, ConnectWritten
  <2>9. f \in AlwaysWritten \cup {"remlen", "requestProblemInfo", "username", "password"} \cup OptionalProps
          \cup WillProps \cup {"willPropertiesLen", "willUserProperty", "willTopic", "willMessage"}
    BY ConnectClasses DEF PlainFields, ConnectProps, AlwaysWritten
  <2> HIDE DEF put, L, k
  <2> QED BY <2>1, <2>2, <2>4, <2>5, <2>6, <2>7, <2>8, <2>9
<1> QED BY <1>1, <1>2

\* What the decoder of CONNECT refuses for its properties.
LEMMA PropertiesVerdict ==
  ASSUME NEW m, Message("CONNECT", m), NEW w, NEW o, Back("CONNECT", m, ConnectPut(m), w, o),
         ~Miscounted("CONNECT", m)
  PROVE  PropertiesRefused(w, o) <=> \/ m.requestRespInfo > 1 \/ m.requestProblemInfo > 1
                                     \/ m.authMethod # 0 /\ m.authData = 0
<1> DEFINE k == "CONNECT"
           put == ConnectPut(m)
           Z == {"receiveMaximum", "maxPacketSize"}
           R == {"requestRespInfo", "requestProblemInfo"}
<1>0. Back(k, m, put, w, o)
  OBVIOUS
<1>1. w.twice \notin DOMAIN o \ WillFields(o)
  <2>1. w.twice = "" /\ DOMAIN o = DOMAIN New(k)
    <3> HIDE DEF put, k
    <3> QED BY <1>0 DEF Back
  <2>2. "" \notin DOMAIN New(k)
    BY ConnectClasses DEF PlainFields, ConnectProps, OptionalProps, WillProps, OptionalWill
  <2> QED BY <2>1, <2>2
<1>2. ~Zero(w, Z)
  <2>1. Z \cap UserProperties = {}
    BY DEF UserProperties
  <2>2. "receiveMaximum" \in put => m.receiveMaximum # 0
    <3>1. "receiveMaximum" \notin AlwaysWritten \cup OptionalProps
      BY DEF AlwaysWritten, OptionalProps
    <3>2. "receiveMaximum" \notin WillFields(m)
      BY WillWritten DEF WillProps, OptionalWill
    <3>3. "receiveMaximum" \notin Optional(m, "username", "usernameFlag") \cup Optional(m, "password", "passwordFlag")
      BY DEF Optional
    <3>4. "receiveMaximum" \in LimitedReceive(m) => m.receiveMaximum > 0
      BY DEF LimitedReceive
    <3>5. m.receiveMaximum > 0 => m.receiveMaximum # 0
      OBVIOUS
    <3> QED BY <3>1, <3>2, <3>3, <3>4, <3>5, ConnectWritten
  <2>3. m.maxPacketSize # 0
    BY Counted
  <2>4. \A f \in Z \cap put : m[f] # 0
    <3> HIDE DEF put
    <3> QED BY <2>2, <2>3
  <2> HIDE DEF put, Z
  <2> QED BY <1>0, <2>1, <2>4, BackZero
<1>3. Above(w, R, 1) <=> m.requestRespInfo > 1 \/ m.requestProblemInfo > 1
  <2>1. R \cap UserProperties = {}
    BY DEF UserProperties
  <2>2. "requestRespInfo" \in put <=> m.requestRespInfo # 0
    <3>1. "requestRespInfo" \in OptionalProps
      BY DEF OptionalProps
    <3>2. Has(w, "requestRespInfo") <=> m.requestRespInfo # 0
      BY <3>1, OptionalBack
    <3> HIDE DEF put
    <3>3. Has(w, "requestRespInfo") <=> "requestRespInfo" \in put
      BY <1>0, BackFields
    <3> QED BY <3>2, <3>3
  <2>3. m.requestProblemInfo # 1 => "requestProblemInfo" \in put
    BY ConnectWritten
  <2>4. (\E f \in R \cap put : m[f] > 1) <=> m.requestRespInfo > 1 \/ m.requestProblemInfo > 1
    <3>1. m.requestRespInfo = 0 => ~(m.requestRespInfo > 1)
      OBVIOUS
    <3>2. m.requestProblemInfo = 1 => ~(m.requestProblemInfo > 1)
      OBVIOUS
    <3> HIDE DEF put
    <3> QED BY <2>2, <2>3, <3>1, <3>2
  <2> HIDE DEF put, R
  <2>5. Above(w, R, 1) <=> \E f \in R \cap put : m[f] > 1
    BY <1>0, <2>1, BackAbove
  <2> QED BY <2>4, <2>5
<1>4. o.authMethod = m.authMethod /\ (Has(w, "authData") <=> m.authData # 0)
  <2>1. "authMethod" \in OptionalProps /\ "authData" \in OptionalProps
    BY DEF OptionalProps
  <2> QED BY <2>1, OptionalBack
<1>5. PropertiesRefused(w, o) <=> \/ w.twice \in DOMAIN o \ WillFields(o)
                                  \/ Zero(w, Z)
                                  \/ Above(w, R, 1)
                                  \/ o.authMethod # 0 /\ ~Has(w, "authData")
  BY DEF PropertiesRefused
<1> HIDE DEF put, Z, R
<1> QED BY <1>1, <1>2, <1>3, <1>4, <1>5

\* What it refuses for its flags and its payload.
LEMMA FlagsVerdict ==
  ASSUME NEW m, Message("CONNECT", m), NEW w, NEW o, Back("CONNECT", m, ConnectPut(m), w, o),
         ~Miscounted("CONNECT", m), m.version = 5
  PROVE  LET has(flag) == flag \in m.connectFlags
         IN  /\ FlagsRefused(o) <=> \/ ~has("willFlag") /\ (has("willRetain") \/ m.willQos # 0)
                                    \/ has("usernameFlag") /\ ~has("passwordFlag")
             /\ PayloadRefused(w, o) <=> m.clientId = 0 /\ ~has("cleanSession")
<1> DEFINE k == "CONNECT"
           put == ConnectPut(m)
           has(flag) == flag \in m.connectFlags
           I == {"payloadFormatIndicator"}
<1>0. Back(k, m, put, w, o)
  OBVIOUS
<1>1. o.connectFlags = m.connectFlags /\ o.willQos = m.willQos /\ o.version = m.version /\ o.clientId = m.clientId
  <2>1. {"connectFlags", "willQos", "version", "clientId"} \subseteq put \ UserProperties
    BY ConnectWritten DEF AlwaysWritten, UserProperties
  <2> HIDE DEF put, k
  <2> QED BY <1>0, <2>1, BackFields
<1>2. w.twice \notin WillFields(o)
  <2>1. w.twice = ""
    <3> HIDE DEF put, k
    <3> QED BY <1>0 DEF Back
  <2>2. "" \notin WillFields(o)
    <3>1. "" \notin {"willPropertiesLen", "willUserProperty", "willTopic", "willMessage"}
      OBVIOUS
    <3>2. "" \notin WillProps
      BY DEF WillProps, OptionalWill
    <3> QED BY <3>1, <3>2, WillWritten
  <2> QED BY <2>1, <2>2
<1>3. ~Above(w, I, 1)
  <2>1. I \cap UserProperties = {}
    BY DEF UserProperties
  <2>2. "payloadFormatIndicator" \in put => has("willFlag")
    <3>1. "payloadFormatIndicator" \notin AlwaysWritten \cup OptionalProps \cup {"requestProblemInfo"}
      BY DEF AlwaysWritten, OptionalProps
    <3>2. "payloadFormatIndicator" \notin LimitedReceive(m) \cup Optional(m, "username", "usernameFlag")
                                            \cup Optional(m, "password", "passwordFlag")
      BY DEF Optional, LimitedReceive
    <3> QED BY <3>1, <3>2, ConnectWritten
  <2>3. has("willFlag") => ~(m.payloadFormatIndicator > 1)
    BY Counted
  <2>4. ~\E f \in I \cap put : m[f] > 1
    <3> HIDE DEF put, has
    <3> QED BY <2>2, <2>3
  <2> HIDE DEF put, I
  <2>5. Above(w, I, 1) <=> \E f \in I \cap put : m[f] > 1
    BY <1>0, <2>1, BackAbove
  <2> QED BY <2>4, <2>5
<1>4. FlagsRefused(o) <=> \/ ~has("willFlag") /\ (has("willRetain") \/ m.willQos # 0)
                          \/ has("usernameFlag") /\ ~has("passwordFlag")
  <2> HIDE DEF put
  <2> QED BY <1>1 DEF FlagsRefused
<1>5. PayloadRefused(w, o) <=> \/ w.twice \in WillFields(o)
                               \/ Above(w, I, 1)
                               \/ o.clientId = 0 /\ "cleanSession" \notin o.connectFlags
  BY DEF PayloadRefused
<1>6. PayloadRefused(w, o) <=> m.clientId = 0 /\ ~has("cleanSession")
  <2> HIDE DEF put, I
  <2> QED BY <1>1, <1>2, <1>3, <1>5
<1> QED BY <1>4, <1>6

\* Every property has a name.
LEMMA OrdersNamed == "" \notin Range(ConnectOrder) /\ "" \notin Range(WillOrder)
<1>1. ASSUME NEW i \in DOMAIN ConnectOrder
      PROVE  ConnectOrder[i] # ""
  <2>1. i \in 1 .. 9
    BY DEF ConnectOrder
  <2>2. i \in {1, 2, 3, 4, 5, 6, 7, 8, 9}
    BY <2>1
  <2>3. ConnectOrder[1] # ""
    BY DEF ConnectOrder
  <2>4. ConnectOrder[2] # ""
    BY DEF ConnectOrder
  <2>5. ConnectOrder[3] # ""
    BY DEF ConnectOrder
  <2>6. ConnectOrder[4] # ""
    BY DEF ConnectOrder
  <2>7. ConnectOrder[5] # ""
    BY DEF ConnectOrder
  <2>8. ConnectOrder[6] # ""
    BY DEF ConnectOrder
  <2>9. ConnectOrder[7] # ""
    BY DEF ConnectOrder
  <2>10. ConnectOrder[8] # ""
    BY DEF ConnectOrder
  <2>11. ConnectOrder[9] # ""
    BY DEF ConnectOrder
  <2> QED BY <2>2, <2>3, <2>4, <2>5, <2>6, <2>7, <2>8, <2>9, <2>10, <2>11
<1>2. ASSUME NEW i \in DOMAIN WillOrder
      PROVE  WillOrder[i] # ""
  <2>1. i \in 1 .. 7
    BY DEF WillOrder
  <2>2. i \in {1, 2, 3, 4, 5, 6, 7}
    BY <2>1
  <2>3. WillOrder[1] # ""
    BY DEF WillOrder
  <2>4. WillOrder[2] # ""
    BY DEF WillOrder
  <2>5. WillOrder[3] # ""
    BY DEF WillOrder
  <2>6. WillOrder[4] # ""
    BY DEF WillOrder
  <2>7. WillOrder[5] # ""
    BY DEF WillOrder
  <2>8. WillOrder[6] # ""
    BY DEF WillOrder
  <2>9. WillOrder[7] # ""
    BY DEF WillOrder
  <2> QED BY <2>2, <2>3, <2>4, <2>5, <2>6, <2>7, <2>8, <2>9
<1> QED BY <1>1, <1>2 DEF Range

\* Where the decoder of CONNECT mistakes a length for a property.
LEMMA ConnectMistaken ==
  ASSUME NEW m, Message("CONNECT", m), NEW w, NEW o, Back("CONNECT", m, ConnectPut(m), w, o)
  PROVE  /\ w.again \notin Range(ConnectOrder) /\ w.again \notin Range(WillOrder)
         /\ Mistaken(w, ConnectOrder, o.clientId) => Mistakable("CONNECT", m)
         /\ Has(w, "willPropertiesLen") /\ Mistaken(w, WillOrder, o.willTopic) => Mistakable("CONNECT", m)
<1> DEFINE k == "CONNECT"
           put == ConnectPut(m)
<1>0. Back(k, m, put, w, o)
  OBVIOUS
<1>1. w.again = ""
  <2> HIDE DEF put, k
  <2> QED BY <1>0 DEF Back
<1>2. w.again \notin Range(ConnectOrder)
  BY <1>1, OrdersNamed
<1>3. w.again \notin Range(WillOrder)
  BY <1>1, OrdersNamed
<1>4. ASSUME Mistaken(w, ConnectOrder, o.clientId)
      PROVE  Mistakable(k, m)
  <2>1. "clientId" \in put \ UserProperties
    BY ConnectWritten DEF AlwaysWritten, UserProperties
  <2>2. o.clientId = m.clientId
    <3> HIDE DEF put, k
    <3> QED BY <1>0, <2>1, BackFields
  <2>3. HighByte(m.clientId) \in {Id[f] : f \in Range(ConnectOrder)}
    BY <1>4, <2>2, MistakenLike
  <2> QED BY <2>3 DEF Mistakable
<1>5. ASSUME Has(w, "willPropertiesLen"), Mistaken(w, WillOrder, o.willTopic)
      PROVE  Mistakable(k, m)
  <2>1. "willPropertiesLen" \in put
    <3> HIDE DEF put, k
    <3> QED BY <1>0, <1>5, BackParts
  <2>2. "willFlag" \in m.connectFlags
    <3>1. "willPropertiesLen" \notin AlwaysWritten \cup OptionalProps \cup {"requestProblemInfo"}
      BY DEF AlwaysWritten, OptionalProps
    <3>2. "willPropertiesLen" \notin LimitedReceive(m) \cup Optional(m, "username", "usernameFlag")
                                        \cup Optional(m, "password", "passwordFlag")
      BY DEF Optional, LimitedReceive
    <3> QED BY <2>1, <3>1, <3>2, ConnectWritten
  <2>3. "willTopic" \in put \ UserProperties
    BY <2>2, ConnectWritten DEF UserProperties, WillFields
  <2>4. o.willTopic = m.willTopic
    <3> HIDE DEF put, k
    <3> QED BY <1>0, <2>3, BackFields
  <2>5. HighByte(m.willTopic) \in {Id[f] : f \in Range(WillOrder)}
    BY <1>5, <2>4, MistakenLike
  <2> QED BY <2>2, <2>5 DEF Mistakable
<1> QED BY <1>2, <1>3, <1>4, <1>5

\* The decoder of CONNECT.
LEMMA ConnectReads ==
  ASSUME NEW m, Message("CONNECT", m), NEW w, NEW o, o = Read(w, New("CONNECT")),
         Back("CONNECT", m, ConnectPut(m), w, o), ~Miscounted("CONNECT", m), m.version = 5
  PROVE  Reads("CONNECT", m, ConnectDecode(w))
<1> DEFINE k == "CONNECT"
           put == ConnectPut(m)
           d == ConnectDecode(w)
           p == decodeMessage(w, o)
           early == FlagsRefused(o) \/ PropertiesRefused(w, o)
           bad == early \/ PayloadRefused(w, o)
           lost == Mistaken(w, ConnectOrder, o.clientId)
           wlost == Has(w, "willPropertiesLen") /\ Mistaken(w, WillOrder, o.willTopic)
<1>0. Back(k, m, put, w, o)
  OBVIOUS
<1>1. o = Read(w, NewConnect) /\ DOMAIN o = DOMAIN New(k)
  <2>1. New(k) = NewConnect
    BY SMT DEF New, Acks
  <2> HIDE DEF put, k
  <2> QED BY <1>0, <2>1 DEF Back, k
<1>2. bad <=> Unreadable(k, m)
  <2> DEFINE has(flag) == flag \in m.connectFlags
             x1 == ~has("willFlag") /\ (has("willRetain") \/ m.willQos # 0)
             x2 == has("usernameFlag") /\ ~has("passwordFlag")
             x3 == m.requestRespInfo > 1
             x4 == m.requestProblemInfo > 1
             x5 == m.authMethod # 0 /\ m.authData = 0
             x6 == m.clientId = 0 /\ ~has("cleanSession")
  <2>1. FlagsRefused(o) <=> x1 \/ x2
    BY FlagsVerdict
  <2>2. PayloadRefused(w, o) <=> x6
    BY FlagsVerdict
  <2>3. PropertiesRefused(w, o) <=> x3 \/ x4 \/ x5
    BY PropertiesVerdict
  <2>4. Unreadable(k, m) <=> x1 \/ x2 \/ x3 \/ x4 \/ x5 \/ x6
    BY DEF Unreadable, Acks
  <2> HIDE DEF x1, x2, x3, x4, x5, x6
  <2> QED BY <2>1, <2>2, <2>3, <2>4
<1>3. \/ d = Failed /\ bad
      \/ d = Misread /\ (lost \/ wlost)
      \/ d = Got(p, FALSE) /\ ~bad
  <2> DEFINE a1 == w.again \in Range(ConnectOrder)
             a2 == w.again \in Range(WillOrder)
  <2>1. d = IF early THEN Failed ELSE IF a1 \/ lost THEN Misread
            ELSE IF PayloadRefused(w, o) THEN Failed ELSE IF a2 \/ wlost THEN Misread ELSE Got(p, FALSE)
    BY <1>1 DEF ConnectDecode
  <2>2. ~a1 /\ ~a2
    BY ConnectMistaken
  <2> HIDE DEF d, p, early, lost, wlost, a1, a2
  <2> QED BY <2>1, <2>2
<1>4. Message(k, p)
  BY ConnectTypes
<1>5. \A f \in DOMAIN New(k) \ Lossy(k, m) : p[f] = m[f]
  <2> TAKE f \in DOMAIN New(k) \ Lossy(k, m)
  <2>1. /\ p.receiveMaximum = IF Has(w, "receiveMaximum") THEN o.receiveMaximum ELSE 65535
        /\ p.clientId = IF o.clientId = 0 THEN 1 ELSE o.clientId
        /\ \A g \in DOMAIN New(k) \ {"receiveMaximum", "clientId"} : p[g] = o[g]
    BY <1>1, ConnectFinal
  <2>2. f # "receiveMaximum" => o[f] = m[f]
    BY ConnectBack
  <2>3. CASE f = "receiveMaximum"
    <3>1. m[f] # 0 /\ m[f] \in Word
      BY <2>3, LossyConnect, ConnectNumbers
    <3>2. f \in put <=> f \in LimitedReceive(m)
      <4>1. f \notin AlwaysWritten \cup OptionalProps
        BY <2>3 DEF AlwaysWritten, OptionalProps
      <4>2. f \notin WillFields(m)
        BY <2>3, WillWritten DEF WillProps, OptionalWill
      <4>3. f \notin Optional(m, "username", "usernameFlag") \cup Optional(m, "password", "passwordFlag")
        BY <2>3 DEF Optional
      <4> QED BY <2>3, <4>1, <4>2, <4>3, ConnectWritten
    <3>3. f \in LimitedReceive(m) <=> m[f] > 0 /\ m[f] < 65535
      BY <2>3 DEF LimitedReceive
    <3> HIDE DEF put, p, k
    <3>4. Has(w, f) <=> f \in put
      BY <1>0, BackFields
    <3>5. f \notin put => m[f] = 65535
      BY <3>1, <3>2, <3>3 DEF Word
    <3>6. f \in put => o[f] = m[f]
      <4>1. f \notin UserProperties
        BY <2>3 DEF UserProperties
      <4> QED BY <1>0, <4>1, BackFields
    <3> QED BY <2>1, <2>3, <3>4, <3>5, <3>6
  <2>4. CASE f = "clientId"
    <3>1. m[f] # 0
      BY <2>4, LossyConnect
    <3> HIDE DEF put, p, k
    <3> QED BY <2>1, <2>2, <2>4, <3>1
  <2>5. CASE f \notin {"receiveMaximum", "clientId"}
    <3> HIDE DEF put, p, k
    <3> QED BY <2>1, <2>2, <2>5 DEF k
  <2> QED BY <2>3, <2>4, <2>5
<1>6. \/ (d = Panicked \/ d = Failed) /\ Unreadable(k, m)
      \/ d = Misread /\ Mistakable(k, m)
      \/ d = Got(p, FALSE) /\ ~Unreadable(k, m) /\ Message(k, p) /\ \A f \in DOMAIN New(k) \ Lossy(k, m) : p[f] = m[f]
  <2>1. lost \/ wlost => Mistakable(k, m)
    BY ConnectMistaken
  <2> HIDE DEF d, p, bad, lost, wlost
  <2> QED BY <1>2, <1>3, <1>4, <1>5, <2>1
<1>7. FALSE \in BOOLEAN
  OBVIOUS
<1> HIDE DEF d, p
<1> QED BY <1>6, <1>7, Judged DEF d

\* A message that was encoded into a packet, and had no remaining length before.
Sent(k, m, w) ==
  \E o : /\ Message(k, o) /\ o.remlen = 0 /\ Encode(k, o) # Refused
         /\ m = Encode(k, o).obj /\ w = Packet(Encode(k, o))

\* What is read back of a packet.
Returns(k, m, put, w) == Message(k, m) /\ Back(k, m, put, w, Read(w, New(k)))

\* What an encoder writes is read back.
LEMMA EncodedReturns ==
  ASSUME NEW k \in AllKinds, NEW r, Encoded(k, r)
  PROVE  Returns(k, r.obj, r.put, Packet(r))
<1>1. Back(k, r.obj, r.put, Packet(r), Read(Packet(r), New(k)))
  BY PacketBack
<1>2. Message(k, r.obj)
  BY DEF Encoded
<1> QED BY <1>1, <1>2 DEF Returns

\* What was sent in the packets of each type is read back, as follows.

\* CONNECT: the version was checked.
LEMMA ConnectSent ==
  ASSUME NEW m, NEW w, Sent("CONNECT", m, w)
  PROVE  Returns("CONNECT", m, ConnectPut(m), w) /\ m.version = 5
<1>1. PICK o : /\ Message("CONNECT", o) /\ o.remlen = 0 /\ Encode("CONNECT", o) # Refused
               /\ m = Encode("CONNECT", o).obj /\ w = Packet(Encode("CONNECT", o))
  BY DEF Sent
<1> DEFINE r == Encode("CONNECT", o)
<1>2. Encoded("CONNECT", r) /\ r.put = ConnectPut(r.obj) /\ r.obj.version = 5
  BY <1>1, ConnectEncoded
<1>3. "CONNECT" \in AllKinds
  BY DEF AllKinds
<1>4. r.obj = m /\ Packet(r) = w
  BY <1>1
<1> HIDE DEF r
<1>5. Returns("CONNECT", r.obj, r.put, Packet(r))
  BY <1>2, <1>3, EncodedReturns
<1> QED BY <1>1, <1>2, <1>4, <1>5

\* CONNACK: an absent Receive Maximum is the default.
LEMMA ConnackSent ==
  ASSUME NEW m, NEW w, Sent("CONNACK", m, w)
  PROVE  Returns("CONNACK", m, ConnackPut(m), w) /\ Defaulted(m)
<1>1. PICK o : /\ Message("CONNACK", o) /\ o.remlen = 0 /\ Encode("CONNACK", o) # Refused
               /\ m = Encode("CONNACK", o).obj /\ w = Packet(Encode("CONNACK", o))
  BY DEF Sent
<1> DEFINE r == Encode("CONNACK", o)
<1>2. Encoded("CONNACK", r) /\ r.put = ConnackPut(r.obj) /\ Defaulted(r.obj)
  BY <1>1, ConnackEncoded DEF Defaulted
<1>3. "CONNACK" \in AllKinds
  BY DEF AllKinds
<1>4. r.obj = m /\ Packet(r) = w
  BY <1>1
<1> HIDE DEF r
<1>5. Returns("CONNACK", r.obj, r.put, Packet(r))
  BY <1>2, <1>3, EncodedReturns
<1> QED BY <1>1, <1>2, <1>4, <1>5

\* PUBLISH: it has a topic or an alias.
LEMMA PublishSent ==
  ASSUME NEW m, NEW w, Sent("PUBLISH", m, w)
  PROVE  Returns("PUBLISH", m, PublishPut(m), w) /\ (m.topic # 0 \/ m.topicAlias # 0)
<1>1. PICK o : /\ Message("PUBLISH", o) /\ o.remlen = 0 /\ Encode("PUBLISH", o) # Refused
               /\ m = Encode("PUBLISH", o).obj /\ w = Packet(Encode("PUBLISH", o))
  BY DEF Sent
<1> DEFINE r == Encode("PUBLISH", o)
<1>2. Encoded("PUBLISH", r) /\ r.put = PublishPut(r.obj) /\ (r.obj.topic # 0 \/ r.obj.topicAlias # 0)
  BY <1>1, PublishEncoded
<1>3. "PUBLISH" \in AllKinds
  BY DEF AllKinds
<1>4. r.obj = m /\ Packet(r) = w
  BY <1>1
<1> HIDE DEF r
<1>5. Returns("PUBLISH", r.obj, r.put, Packet(r))
  BY <1>2, <1>3, EncodedReturns
<1> QED BY <1>1, <1>2, <1>4, <1>5

\* PUBACK, PUBREC, PUBREL, PUBCOMP: what is left out is empty.
LEMMA PubackSent ==
  ASSUME NEW k \in Acks, NEW m, NEW w, Sent(k, m, w)
  PROVE  /\ Returns(k, m, PubackPut(m), w)
         /\ m.propertiesLen = 0 => m.userProperty = <<>> /\ m.reasonStr = 0
         /\ m.remlen = 2 => m.reasonCode = 0 /\ m.propertiesLen = 0
<1>1. PICK o : /\ Message(k, o) /\ o.remlen = 0 /\ Encode(k, o) # Refused
               /\ m = Encode(k, o).obj /\ w = Packet(Encode(k, o))
  BY DEF Sent
<1> DEFINE r == Encode(k, o)
<1>2. /\ Encoded(k, r) /\ r.put = PubackPut(r.obj)
      /\ r.obj.propertiesLen = 0 => r.obj.userProperty = <<>> /\ r.obj.reasonStr = 0
      /\ r.obj.remlen = 2 => r.obj.reasonCode = 0 /\ r.obj.propertiesLen = 0
  BY <1>1, PubackEncoded
<1>3. k \in AllKinds
  BY DEF AllKinds
<1>4. r.obj = m /\ Packet(r) = w
  BY <1>1
<1> HIDE DEF r
<1>5. Returns(k, r.obj, r.put, Packet(r))
  BY <1>2, <1>3, EncodedReturns
<1> QED BY <1>1, <1>2, <1>4, <1>5

\* SUBSCRIBE.
LEMMA SubscribeSent ==
  ASSUME NEW m, NEW w, Sent("SUBSCRIBE", m, w)
  PROVE  Returns("SUBSCRIBE", m, SubscribePut(m), w)
<1>1. PICK o : /\ Message("SUBSCRIBE", o) /\ o.remlen = 0 /\ Encode("SUBSCRIBE", o) # Refused
               /\ m = Encode("SUBSCRIBE", o).obj /\ w = Packet(Encode("SUBSCRIBE", o))
  BY DEF Sent
<1> DEFINE r == Encode("SUBSCRIBE", o)
<1>2. Encoded("SUBSCRIBE", r) /\ r.put = SubscribePut(r.obj)
  BY <1>1, SubscribeEncoded
<1>3. "SUBSCRIBE" \in AllKinds
  BY DEF AllKinds
<1>4. r.obj = m /\ Packet(r) = w
  BY <1>1
<1> HIDE DEF r
<1>5. Returns("SUBSCRIBE", r.obj, r.put, Packet(r))
  BY <1>2, <1>3, EncodedReturns
<1> QED BY <1>1, <1>2, <1>4, <1>5

\* SUBACK, UNSUBACK.
LEMMA SubackSent ==
  ASSUME NEW k \in {"SUBACK", "UNSUBACK"}, NEW m, NEW w, Sent(k, m, w)
  PROVE  Returns(k, m, AckFields(m), w)
<1>1. PICK o : /\ Message(k, o) /\ o.remlen = 0 /\ Encode(k, o) # Refused
               /\ m = Encode(k, o).obj /\ w = Packet(Encode(k, o))
  BY DEF Sent
<1> DEFINE r == Encode(k, o)
<1>2. Encoded(k, r) /\ r.put = AckFields(r.obj)
  BY <1>1, SubackEncoded
<1>3. k \in AllKinds
  BY DEF AllKinds
<1>4. r.obj = m /\ Packet(r) = w
  BY <1>1
<1> HIDE DEF r
<1>5. Returns(k, r.obj, r.put, Packet(r))
  BY <1>2, <1>3, EncodedReturns
<1> QED BY <1>1, <1>2, <1>4, <1>5

\* UNSUBSCRIBE.
LEMMA UnsubscribeSent ==
  ASSUME NEW m, NEW w, Sent("UNSUBSCRIBE", m, w)
  PROVE  Returns("UNSUBSCRIBE", m, UnsubscribePut, w)
<1>1. PICK o : /\ Message("UNSUBSCRIBE", o) /\ o.remlen = 0 /\ Encode("UNSUBSCRIBE", o) # Refused
               /\ m = Encode("UNSUBSCRIBE", o).obj /\ w = Packet(Encode("UNSUBSCRIBE", o))
  BY DEF Sent
<1> DEFINE r == Encode("UNSUBSCRIBE", o)
<1>2. Encoded("UNSUBSCRIBE", r) /\ r.put = UnsubscribePut
  BY <1>1, UnsubscribeEncoded
<1>3. "UNSUBSCRIBE" \in AllKinds
  BY DEF AllKinds
<1>4. r.obj = m /\ Packet(r) = w
  BY <1>1
<1> HIDE DEF r
<1>5. Returns("UNSUBSCRIBE", r.obj, r.put, Packet(r))
  BY <1>2, <1>3, EncodedReturns
<1> QED BY <1>1, <1>2, <1>4, <1>5

\* DISCONNECT.
LEMMA DisconnectSent ==
  ASSUME NEW m, NEW w, Sent("DISCONNECT", m, w)
  PROVE  Returns("DISCONNECT", m, DisconnectPut(m), w)
<1>1. PICK o : /\ Message("DISCONNECT", o) /\ o.remlen = 0 /\ Encode("DISCONNECT", o) # Refused
               /\ m = Encode("DISCONNECT", o).obj /\ w = Packet(Encode("DISCONNECT", o))
  BY DEF Sent
<1> DEFINE r == Encode("DISCONNECT", o)
<1>2. Encoded("DISCONNECT", r) /\ r.put = DisconnectPut(r.obj)
  BY <1>1, DisconnectEncoded
<1>3. "DISCONNECT" \in AllKinds
  BY DEF AllKinds
<1>4. r.obj = m /\ Packet(r) = w
  BY <1>1
<1> HIDE DEF r
<1>5. Returns("DISCONNECT", r.obj, r.put, Packet(r))
  BY <1>2, <1>3, EncodedReturns
<1> QED BY <1>1, <1>2, <1>4, <1>5

\* AUTH: an empty packet is that of a message without properties.
LEMMA AuthSent ==
  ASSUME NEW m, NEW w, Sent("AUTH", m, w)
  PROVE  Returns("AUTH", m, AuthPut(m), w) /\ (AuthPut(m) = {} => m.propertiesLen = 0)
<1>1. PICK o : /\ Message("AUTH", o) /\ o.remlen = 0 /\ Encode("AUTH", o) # Refused
               /\ m = Encode("AUTH", o).obj /\ w = Packet(Encode("AUTH", o))
  BY DEF Sent
<1> DEFINE r == Encode("AUTH", o)
<1>2. Encoded("AUTH", r) /\ r.put = AuthPut(r.obj) /\ (AuthPut(r.obj) = {} => r.obj.propertiesLen = 0)
  BY <1>1, AuthEncoded
<1>3. "AUTH" \in AllKinds
  BY DEF AllKinds
<1>4. r.obj = m /\ Packet(r) = w
  BY <1>1
<1> HIDE DEF r
<1>5. Returns("AUTH", r.obj, r.put, Packet(r))
  BY <1>2, <1>3, EncodedReturns
<1> QED BY <1>1, <1>2, <1>4, <1>5

\* What was sent in a packet of any type is read by the decoder of the type, or
\* is a message that cannot be read or that can be mistaken.
LEMMA SentReads ==
  ASSUME NEW k \in AllKinds, NEW m, NEW w, Sent(k, m, w), ~Miscounted(k, m)
  PROVE  Reads(k, m, Decode(k, w))
<1> DEFINE o == Read(w, New(k))
           d == Decode(k, w)
<1>1. CASE k = "CONNECT"
  <2>1. Message(k, m) /\ Back(k, m, ConnectPut(m), w, o) /\ m.version = 5
    BY <1>1, ConnectSent DEF Returns
  <2>2. d = ConnectDecode(w)
    BY <1>1 DEF Decode
  <2> HIDE DEF d
  <2> QED BY <1>1, <2>1, <2>2, ConnectReads DEF d
<1>2. CASE k = "CONNACK"
  <2>1. Message(k, m) /\ Back(k, m, ConnackPut(m), w, o) /\ Defaulted(m)
    BY <1>2, ConnackSent DEF Returns
  <2>2. d = ConnackDecode(w)
    BY <1>2 DEF Decode
  <2> HIDE DEF d
  <2> QED BY <1>2, <2>1, <2>2, ConnackReads DEF d
<1>3. CASE k = "PUBLISH"
  <2>1. Message(k, m) /\ Back(k, m, PublishPut(m), w, o) /\ (m.topic # 0 \/ m.topicAlias # 0)
    BY <1>3, PublishSent DEF Returns
  <2>2. d = PublishDecode(w)
    BY <1>3 DEF Decode
  <2> HIDE DEF d
  <2> QED BY <1>3, <2>1, <2>2, PublishReads DEF d
<1>4. CASE k \in Acks
  <2>1. /\ Message(k, m) /\ Back(k, m, PubackPut(m), w, o)
        /\ m.propertiesLen = 0 => m.userProperty = <<>> /\ m.reasonStr = 0
        /\ m.remlen = 2 => m.reasonCode = 0 /\ m.propertiesLen = 0
    BY <1>4, PubackSent DEF Returns
  <2> HIDE DEF d
  <2> QED BY <1>4, <2>1, PubackReads DEF d
<1>5. CASE k = "SUBSCRIBE"
  <2>1. Message(k, m) /\ Back(k, m, SubscribePut(m), w, o)
    BY <1>5, SubscribeSent DEF Returns
  <2>2. d = SubscribeDecode(w)
    BY <1>5 DEF Decode
  <2> HIDE DEF d
  <2> QED BY <1>5, <2>1, <2>2, SubscribeReads DEF d
<1>6. CASE k \in {"SUBACK", "UNSUBACK"}
  <2>1. Message(k, m) /\ Back(k, m, AckFields(m), w, o)
    BY <1>6, SubackSent DEF Returns
  <2> HIDE DEF d
  <2> QED BY <1>6, <2>1, SubackReads DEF d
<1>7. CASE k = "UNSUBSCRIBE"
  <2>1. Message(k, m) /\ Back(k, m, UnsubscribePut, w, o)
    BY <1>7, UnsubscribeSent DEF Returns
  <2>2. d = UnsubscribeDecode(w)
    BY <1>7 DEF Decode
  <2> HIDE DEF d
  <2> QED BY <1>7, <2>1, <2>2, UnsubscribeReads DEF d
<1>8. CASE k = "DISCONNECT"
  <2>1. Message(k, m) /\ Back(k, m, DisconnectPut(m), w, o)
    BY <1>8, DisconnectSent DEF Returns
  <2>2. d = DisconnectDecode(w)
    BY <1>8 DEF Decode
  <2> HIDE DEF d
  <2> QED BY <1>8, <2>1, <2>2, DisconnectReads DEF d
<1>9. CASE k = "AUTH"
  <2>1. Message(k, m) /\ Back(k, m, AuthPut(m), w, o) /\ (AuthPut(m) = {} => m.propertiesLen = 0)
    BY <1>9, AuthSent DEF Returns
  <2>2. d = AuthDecode(w)
    BY <1>9 DEF Decode
  <2> HIDE DEF d
  <2> QED BY <1>9, <2>1, <2>2, AuthReads DEF d
<1> QED BY <1>1, <1>2, <1>3, <1>4, <1>5, <1>6, <1>7, <1>8, <1>9 DEF AllKinds

\* A packet in which a peer has repeated a property at once, ...
Repeated(k, w, f, v) ==
  /\ f \in Identified \cap DOMAIN w.vals
  /\ DOMAIN v.vals = DOMAIN w.vals /\ v.twice = f /\ v.again = "" /\ (k \in Acks => v.rem # 2)
  /\ \A g \in DOMAIN w.vals \ {"propertiesLen", "willPropertiesLen"} : v.vals[g] = w.vals[g]
\* ... or written a zero.
Zeroing(w, f, v) ==
  /\ f \in NeverZero \cap DOMAIN w.vals
  /\ DOMAIN v.vals = DOMAIN w.vals /\ v.twice = w.twice /\ v.vals[f] = 0

\* The packets that decoders take, or may take, all the same.
Excused(k, m, v) ==
  \/ k = "DISCONNECT"
  \/ v.again # "" /\ k \notin {"SUBACK", "UNSUBACK"}
  \/ k = "CONNECT" /\ Mistakable(k, m)
  \/ /\ k = "CONNACK" /\ "serverKeepAlive" \in DOMAIN v.vals
     /\ v.twice \in {"serverKeepAlive", "responseInformation", "serverReference", "authMethod", "authData"}

\* What was sent is a packet with fields of its type, none of them twice.
LEMMA SentFields ==
  ASSUME NEW k \in AllKinds, NEW m, NEW w, Sent(k, m, w)
  PROVE  /\ DOMAIN w.vals \subseteq DOMAIN New(k) \ {"remlen"} /\ w.twice = "" /\ w.again = ""
         /\ w = [rem |-> w.rem, bytes |-> w.bytes, twice |-> w.twice, again |-> w.again, vals |-> w.vals]
         /\ w.vals = [f \in DOMAIN w.vals |-> w.vals[f]]
         /\ Message(k, m) /\ w.rem = m.remlen
<1>1. PICK o : /\ Message(k, o) /\ o.remlen = 0 /\ Encode(k, o) # Refused
               /\ m = Encode(k, o).obj /\ w = Packet(Encode(k, o))
  BY DEF Sent
<1> DEFINE r == Encode(k, o)
<1>2. Encoded(k, r)
  BY <1>1, Encoders
<1>3. w = Packet(r) /\ m = r.obj
  BY <1>1
<1> HIDE DEF r
<1>4. r.put \subseteq DOMAIN New(k) \ {"remlen"} /\ Message(k, r.obj)
  BY <1>2 DEF Encoded
<1>5. DOMAIN w.vals = r.put /\ w.twice = "" /\ w.again = "" /\ w.rem = r.obj.remlen
  BY <1>3 DEF Packet
<1>6. w = [rem |-> w.rem, bytes |-> w.bytes, twice |-> w.twice, again |-> w.again, vals |-> w.vals]
  BY <1>3 DEF Packet
<1>7. w.vals = [f \in DOMAIN w.vals |-> w.vals[f]]
  BY <1>3 DEF Packet
<1> QED BY <1>3, <1>4, <1>5, <1>6, <1>7

\* The error of a decoder.
LEMMA FailedHow == Failed.how = "error"
BY DEF Failed

\* A property repeated at once is refused.
LEMMA RepeatedRefused ==
  ASSUME NEW k \in AllKinds, NEW m, NEW w, Sent(k, m, w), NEW f, NEW v, Repeated(k, w, f, v), ~Excused(k, m, v)
  PROVE  Decode(k, v).how = "error"
<1> DEFINE d == Decode(k, v)
<1>1. f \in DOMAIN New(k) /\ f \in Identified /\ v.twice = f /\ f \in DOMAIN v.vals /\ DOMAIN v.vals = DOMAIN w.vals
  BY SentFields DEF Repeated
<1>2. f # ""
  BY <1>1 DEF Identified, OneByte, TwoBytes, FourBytes, Strings
<1>3. CASE k = "CONNECT"
  <2>1. d = ConnectDecode(v)
    BY <1>3 DEF Decode
  <2>2. DOMAIN Read(v, NewConnect) = DOMAIN New(k)
    BY <1>3 DEF Read, New, Acks
  <2> DEFINE o == Read(v, NewConnect)
  <2> HIDE DEF d, o
  <2>3. v.twice \in DOMAIN o \ WillFields(o) \/ v.twice \in WillFields(o)
    BY <1>1, <2>2 DEF o
  <2>4. PropertiesRefused(v, o) \/ PayloadRefused(v, o)
    BY <2>3 DEF PropertiesRefused, PayloadRefused
  <2>5. v.again \notin Range(ConnectOrder)
    BY OrdersNamed DEF Repeated
  <2>6. ~Mistaken(v, ConnectOrder, o.clientId)
    <3>1. Back(k, m, ConnectPut(m), w, Read(w, New(k)))
      BY <1>3, ConnectSent DEF Returns
    <3>2. "clientId" \in ConnectPut(m) \ UserProperties
      BY ConnectWritten DEF AlwaysWritten, UserProperties
    <3>3. "clientId" \in DOMAIN w.vals /\ w.vals["clientId"] = m["clientId"]
      BY <3>1, <3>2 DEF Back
    <3>4. v.vals["clientId"] = m["clientId"]
      BY <3>3 DEF Repeated
    <3>5. o["clientId"] = m["clientId"]
      <4>1. "clientId" \in DOMAIN NewConnect
        BY DEF NewConnect
      <4> QED BY <1>1, <3>3, <3>4, <4>1 DEF o, Read
    <3>6. ~Mistakable(k, m)
      BY <1>3 DEF Excused
    <3>7. HighByte(m.clientId) \notin {Id[h] : h \in Range(ConnectOrder)}
      BY <1>3, <3>6 DEF Mistakable
    <3> QED BY <3>5, <3>7, MistakenLike
  <2>7. d = Failed
    BY <2>1, <2>4, <2>5, <2>6 DEF ConnectDecode, o
  <2> QED BY <2>7, FailedHow DEF d
<1>4. CASE k = "CONNACK"
  <2>1. d = ConnackDecode(v)
    BY <1>4 DEF Decode
  <2>2. v.twice \notin Unread(v) \cup {"", "serverKeepAlive"}
    <3>1. CASE "serverKeepAlive" \in DOMAIN v.vals
      <4>1. f \notin {"serverKeepAlive", "responseInformation", "serverReference", "authMethod", "authData"}
        BY <1>1, <1>4, <3>1 DEF Excused
      <4> QED BY <1>1, <1>2, <4>1 DEF Unread
    <3>2. CASE "serverKeepAlive" \notin DOMAIN v.vals
      <4>1. Unread(v) = {}
        BY <3>2 DEF Unread, Has
      <4>2. f # "serverKeepAlive"
        BY <1>1, <3>2
      <4> QED BY <1>1, <1>2, <4>1, <4>2
    <3> QED BY <3>1, <3>2
  <2> DEFINE o == Read(v, NewConnack)
  <2> HIDE DEF d, o
  <2>3. ConnackRefused(v, o)
    BY <2>2 DEF ConnackRefused
  <2>4. d = Failed
    BY <2>1, <2>3 DEF ConnackDecode, o
  <2> QED BY <2>4, FailedHow DEF d
<1>5. CASE k = "PUBLISH"
  <2>1. d = PublishDecode(v)
    BY <1>5 DEF Decode
  <2>2. d = Failed
    BY <1>1, <1>2, <2>1 DEF PublishDecode
  <2> HIDE DEF d
  <2> QED BY <2>2, FailedHow DEF d
<1>6. CASE k \in Acks
  <2>1. v.rem # 2
    BY <1>6 DEF Repeated
  <2>2. \A valid : decodeOther(v, valid) = Failed
    BY <1>1, <1>2 DEF decodeOther
  <2>3. \E valid : d = decodeOther(v, valid)
    <3>1. CASE k = "PUBACK"
      <4>1. d = PubackDecode(v)
        BY <3>1 DEF Decode
      <4> HIDE DEF d
      <4> QED BY <2>1, <4>1 DEF PubackDecode
    <3>2. CASE k = "PUBREC"
      <4>1. d = PubrecDecode(v)
        BY <3>2 DEF Decode
      <4> HIDE DEF d
      <4> QED BY <2>1, <4>1 DEF PubrecDecode
    <3>3. CASE k = "PUBREL"
      <4>1. d = PubrelDecode(v)
        BY <3>3 DEF Decode
      <4> HIDE DEF d
      <4> QED BY <2>1, <4>1 DEF PubrelDecode
    <3>4. CASE k = "PUBCOMP"
      <4>1. d = PubcompDecode(v)
        BY <3>4 DEF Decode
      <4> HIDE DEF d
      <4> QED BY <2>1, <4>1 DEF PubcompDecode
    <3> QED BY <1>6, <3>1, <3>2, <3>3, <3>4 DEF Acks
  <2> HIDE DEF d
  <2> QED BY <2>2, <2>3, FailedHow DEF d
<1>7. CASE k = "SUBSCRIBE"
  <2>1. d = SubscribeDecode(v)
    BY <1>7 DEF Decode
  <2>2. d = Failed
    BY <1>1, <1>2, <2>1 DEF SubscribeDecode
  <2> HIDE DEF d
  <2> QED BY <2>2, FailedHow DEF d
<1>8. CASE k = "SUBACK"
  <2>1. d = SubackDecode(v)
    BY <1>8 DEF Decode
  <2>2. d = Failed
    BY <1>1, <1>2, <2>1 DEF SubackDecode
  <2> HIDE DEF d
  <2> QED BY <2>2, FailedHow DEF d
<1>9. CASE k = "UNSUBACK"
  <2>1. d = UnsubackDecode(v)
    BY <1>9 DEF Decode
  <2>2. d = Failed
    BY <1>1, <1>2, <2>1 DEF UnsubackDecode
  <2> HIDE DEF d
  <2> QED BY <2>2, FailedHow DEF d
<1>10. CASE k = "AUTH"
  <2>1. d = AuthDecode(v)
    BY <1>10 DEF Decode
  <2>2. d = Failed
    BY <1>1, <1>2, <2>1 DEF AuthDecode
  <2> HIDE DEF d
  <2> QED BY <2>2, FailedHow DEF d
<1>11. k # "UNSUBSCRIBE"
  <2>1. k = "UNSUBSCRIBE" => DOMAIN New(k) \cap Identified = {}
    BY Domains DEF Identified, OneByte, TwoBytes, FourBytes, Strings
  <2> QED BY <1>1, <2>1
<1>12. k # "DISCONNECT"
  BY DEF Excused
<1> HIDE DEF d
<1> QED BY <1>3, <1>4, <1>5, <1>6, <1>7, <1>8, <1>9, <1>10, <1>11, <1>12 DEF AllKinds, d

\* A property that comes again behind the others is refused as a reason code.
LEMMA AgainRefused ==
  ASSUME NEW k \in {"SUBACK", "UNSUBACK"}, NEW v, v.again # ""
  PROVE  Decode(k, v).how = "error"
<1> DEFINE d == Decode(k, v)
<1>1. CASE k = "SUBACK"
  <2>1. d = SubackDecode(v)
    BY <1>1 DEF Decode
  <2>2. d = Failed
    BY <2>1 DEF SubackDecode
  <2> HIDE DEF d
  <2> QED BY <2>2, FailedHow DEF d
<1>2. CASE k = "UNSUBACK"
  <2>1. d = UnsubackDecode(v)
    BY <1>2 DEF Decode
  <2>2. d = Failed
    BY <2>1 DEF UnsubackDecode
  <2> HIDE DEF d
  <2> QED BY <2>2, FailedHow DEF d
<1> QED BY <1>1, <1>2

\* A zero is refused.
LEMMA ZeroedRefused ==
  ASSUME NEW k \in AllKinds, NEW m, NEW w, Sent(k, m, w), NEW f, NEW v, Zeroing(w, f, v)
  PROVE  Decode(k, v).how = "error"
<1> DEFINE d == Decode(k, v)
<1>1. f \in DOMAIN New(k) /\ f \in NeverZero /\ v.twice = "" /\ Has(v, f) /\ v.vals[f] = 0
  BY SentFields DEF Zeroing, Has
<1>2. \A S : f \in S => Zero(v, S)
  BY <1>1 DEF Zero
<1>3. CASE k = "CONNECT"
  <2>1. d = ConnectDecode(v)
    BY <1>3 DEF Decode
  <2>2. f \in {"receiveMaximum", "maxPacketSize"}
    BY <1>1, <1>3, Domains DEF NeverZero
  <2>3. \A o : PropertiesRefused(v, o)
    BY <1>2, <2>2 DEF PropertiesRefused
  <2>4. d = Failed
    BY <2>1, <2>3 DEF ConnectDecode
  <2> HIDE DEF d
  <2> QED BY <2>4, FailedHow DEF d
<1>4. CASE k = "CONNACK"
  <2>1. d = ConnackDecode(v)
    BY <1>4 DEF Decode
  <2>2. f \in {"receiveMaximum", "maxPacketSize"}
    BY <1>1, <1>4, Domains DEF NeverZero
  <2>3. \A o : ConnackRefused(v, o)
    BY <1>2, <2>2 DEF ConnackRefused
  <2>4. d = Failed
    BY <2>1, <2>3 DEF ConnackDecode
  <2> HIDE DEF d
  <2> QED BY <2>4, FailedHow DEF d
<1>5. CASE k = "PUBLISH"
  <2>1. d = PublishDecode(v)
    BY <1>5 DEF Decode
  <2>2. f \in {"topicAlias", "responseTopic", "correlationData", "subscriptionIdentifier", "contentType"}
    BY <1>1, <1>5, Domains DEF NeverZero
  <2>3. d = Failed
    BY <1>2, <2>1, <2>2 DEF PublishDecode
  <2> HIDE DEF d
  <2> QED BY <2>3, FailedHow DEF d
<1>6. CASE k = "SUBSCRIBE"
  <2>1. d = SubscribeDecode(v)
    BY <1>6 DEF Decode
  <2>2. f = "subscriptionIdentifier"
    BY <1>1, <1>6, Domains DEF NeverZero
  <2>3. Read(v, NewSubscribe).subscriptionIdentifier = 0
    <3>1. NewSubscribe = New(k)
      BY <1>6 DEF New, Acks
    <3>2. Read(v, New(k))[f] = 0
      BY <1>1, <2>2 DEF Read, Has
    <3> QED BY <2>2, <3>1, <3>2
  <2>4. Zero(v, {"subscriptionIdentifier"})
    BY <1>2, <2>2
  <2>5. d = Failed
    BY <2>1, <2>3, <2>4 DEF SubscribeDecode
  <2> HIDE DEF d
  <2> QED BY <2>5, FailedHow DEF d
<1>7. k \in {"CONNECT", "CONNACK", "PUBLISH", "SUBSCRIBE"}
  <2>1. CASE k \in Acks
    <3>1. DOMAIN New(k) = {"remlen", "packetId", "reasonCode", "propertiesLen", "reasonStr", "userProperty"}
      BY <2>1, Domains
    <3> QED BY <1>1, <3>1 DEF NeverZero
  <2>2. CASE k \in {"SUBACK", "UNSUBACK", "UNSUBSCRIBE", "DISCONNECT", "AUTH"}
    BY <1>1, <2>2, Domains DEF NeverZero
  <2> QED BY <2>1, <2>2 DEF AllKinds
<1> HIDE DEF d
<1> QED BY <1>3, <1>4, <1>5, <1>6, <1>7 DEF d

-----------------------------------------------------------------------------
(* The life of a message *)

Phases == {"built", "sent", "forged", "received", "changed", "resent", "refused", "failed", "misread",
           "judged"}

\* The types of the state.
Typed ==
  /\ kind \in Kinds /\ Message(kind, msg) /\ dirty \in BOOLEAN /\ cached \in BOOLEAN
  /\ sets \in 0 .. MaxSets /\ outcome \in {"", "ok", "error", "panic"} /\ phase \in Phases

\* The first encoding is that of a message with no remaining length.
Begun ==
  /\ phase = "built" => dirty /\ msg.remlen = 0
  /\ phase = "sent" => Sent(kind, sent, wire) /\ ~cached

\* A clean message says what the packet it was decoded from says.
Clean ==
  /\ phase \in {"received", "changed", "resent"} /\ ~dirty => Fresh(kind, msg, Decode(kind, dbuf).obj)
  /\ phase = "resent" /\ cached => ~dirty /\ wire = dbuf

\* A packet that a peer has made is refused, or excused.
Forgery ==
  phase = "forged" => Excused(kind, sent, wire) \/ Decode(kind, wire).how = "error"

CInv == Typed /\ Begun /\ LengthHonest /\ Clean /\ Forgery /\ RoundTrip /\ ForbiddenRefused

\* Every kind of the model is one of the code's.
LEMMA KindsKnown == Kinds \subseteq AllKinds
BY CodecAssumption DEF CodecAssumption, AllKinds

\* The invariant implies the properties.
LEMMA CInvImplies == CInv => LengthsRight /\ RoundTrip /\ CacheFresh /\ ForbiddenRefused
<1> SUFFICES ASSUME CInv
             PROVE  LengthsRight /\ RoundTrip /\ CacheFresh /\ ForbiddenRefused
  OBVIOUS
<1>0. kind \in AllKinds /\ Message(kind, msg) /\ DOMAIN msg = DOMAIN New(kind)
  BY KindsKnown DEF CInv, Typed, Message
<1>1. TypeOK
  <2>1. \A f \in DOMAIN msg \ (Lists \cup {"connectFlags"}) : msg[f] \in Nat
    BY <1>0, NatFields
  <2>2. kind = "SUBACK" => Range(msg.reasonCodes) \subseteq ValidSubAckReasonCode
    BY <1>0, SubackCodes
  <2>3. ASSUME kind = "CONNECT"
        PROVE  msg.connectFlags \subseteq Flags /\ (msg.version = 5) = (msg.protoName = 4)
    <3>1. "connectFlags" \in DOMAIN New(kind)
      BY <2>3, Domains
    <3>2. msg.connectFlags \in SUBSET Flags
      BY <1>0, <3>1, NumberFields DEF Message
    <3> QED BY <1>0, <2>3, <3>2 DEF Message
  <2> QED BY <1>0, <2>1, <2>2, <2>3 DEF TypeOK, CInv, Typed
<1>2. CacheFresh
  <2> SUFFICES ASSUME phase = "resent", cached
               PROVE  LET old == Decode(kind, wire).obj
                          subs(o) == [i \in DOMAIN o.subscriptions |-> [o.subscriptions[i] EXCEPT !.qos = 0]]
                      IN  /\ \A f \in DOMAIN msg \ {"packetId", "dup", "retain", "subscriptions", "reasonCodes"} : msg[f] = old[f]
                          /\ kind = "SUBSCRIBE" => subs(msg) = subs(old)
                          /\ kind = "UNSUBACK" => msg.reasonCodes = old.reasonCodes
    BY DEF CacheFresh
  <2>1. Fresh(kind, msg, Decode(kind, wire).obj)
    BY DEF CInv, Clean
  <2> DEFINE old == Decode(kind, wire).obj
  <2> HIDE DEF old
  <2>2. Fresh(kind, msg, old)
    BY <2>1 DEF old
  <2> QED BY <2>2 DEF Fresh, Unchecked, Subs, old
<1> QED BY <1>1, <1>2 DEF CInv, LengthsRight

\* It holds of the first message.
LEMMA CInvInit == Init => CInv
<1> SUFFICES ASSUME Init
             PROVE  CInv
  OBVIOUS
<1>1. kind \in Kinds /\ kind \in AllKinds
  BY KindsKnown DEF Init
<1>2. Message(kind, msg) /\ msg.remlen = 0
  BY <1>1, FirstMessage DEF Init
<1>3. MaxSets \in Nat
  BY CodecAssumption DEF CodecAssumption
<1>4. phase = "built" /\ dirty = TRUE /\ cached = FALSE /\ sets = 0 /\ outcome = ""
  BY DEF Init
<1>5. sets \in 0 .. MaxSets
  <2>1. sets = 0
    BY <1>4
  <2> QED BY <1>3, <2>1
<1>6. Typed
  BY <1>1, <1>2, <1>4, <1>5 DEF Typed, Phases
<1> QED BY <1>2, <1>4, <1>6 DEF CInv, Begun, LengthHonest, Clean, Forgery, RoundTrip, ForbiddenRefused

\* A setter preserves it.
LEMMA CInvSet ==
  ASSUME CInv, NEW call \in Calls(kind), SetCall(call)
  PROVE  CInv'
<1> DEFINE r == SetField(kind, msg, call[1], call[2])
<1>1. kind \in AllKinds /\ Message(kind, msg) /\ kind' = kind
  BY KindsKnown DEF CInv, Typed, SetCall
<1>2. Setter(kind, msg, r)
  BY <1>1, CallsGood, Setters
<1>3. /\ phase \in {"built", "received", "changed"} /\ sets < MaxSets
      /\ msg' = r.obj /\ dirty' = (dirty \/ r.dirty) /\ sets' = sets + 1
      /\ phase' = (IF phase = "built" THEN "built" ELSE "changed")
      /\ UNCHANGED <<kind, dbuf, wire, sent, outcome, cached>>
  BY DEF SetCall
<1> HIDE DEF r
<1>4. /\ Message(kind, msg') /\ r.dirty \in BOOLEAN /\ msg'.remlen = msg.remlen
      /\ ~r.dirty => Fresh(kind, msg', msg)
  BY <1>2, <1>3 DEF Setter
<1>5. Typed'
  <2>1. sets' \in 0 .. MaxSets
    <3>1. MaxSets \in Nat
      BY CodecAssumption DEF CodecAssumption
    <3>2. sets \in 0 .. MaxSets
      BY DEF CInv, Typed
    <3>3. sets < MaxSets /\ sets' = sets + 1
      BY <1>3
    <3> HIDE <1>3
    <3> QED BY <3>1, <3>2, <3>3
  <2> QED BY <1>3, <1>4, <2>1 DEF CInv, Typed, Phases
<1>6. Begun'
  BY <1>3, <1>4 DEF CInv, Begun
<1>7. Clean'
  <2> SUFFICES ASSUME phase' \in {"received", "changed", "resent"}, ~dirty'
               PROVE  Fresh(kind', msg', Decode(kind', dbuf').obj)
    BY <1>3 DEF Clean
  <2>1. phase \in {"received", "changed"} /\ ~dirty /\ ~r.dirty
    BY <1>3, <1>4 DEF CInv, Typed
  <2>2. Fresh(kind, msg, Decode(kind, dbuf).obj)
    BY <2>1 DEF CInv, Clean
  <2>3. DOMAIN msg' = DOMAIN msg
    BY <1>1, <1>4 DEF Message
  <2>4. Fresh(kind, msg', Decode(kind, dbuf).obj)
    BY <1>4, <2>1, <2>2, <2>3, FreshAgain
  <2> QED BY <1>3, <2>4
<1>8. LengthHonest' /\ Forgery' /\ RoundTrip' /\ ForbiddenRefused'
  <2>1. phase' \notin {"sent", "resent", "forged", "received", "failed", "misread", "judged"}
    BY <1>3
  <2> QED BY <2>1 DEF LengthHonest, Forgery, RoundTrip, ForbiddenRefused
<1> QED BY <1>5, <1>6, <1>7, <1>8 DEF CInv

\* What the lengths of a packet are to say.
HonestPacket(k, m, w) ==
  LET props == {f \in DOMAIN w.vals : f \in Identified \cup UserProperties}
      will == IF k = "CONNECT" THEN props \cap WillProperties ELSE {}
  IN  (~Miscounted(k, m) /\ w.bytes <= maxRemainingLength) =>
        /\ w.rem = w.bytes
        /\ "propertiesLen" \in DOMAIN w.vals => w.vals.propertiesLen = Total(m, props \ will)
        /\ "propertiesLen" \notin DOMAIN w.vals => props = {}
        /\ "willPropertiesLen" \in DOMAIN w.vals => w.vals.willPropertiesLen = Total(m, will)

\* The packet of an encoder has the lengths that were measured.
LEMMA EncodedHonest ==
  ASSUME NEW k \in AllKinds, NEW r, Encoded(k, r)
  PROVE  HonestPacket(k, r.obj, Packet(r))
<1> DEFINE w == Packet(r)
           m == r.obj
           put == r.put
           props == {f \in put : f \in Identified \cup UserProperties}
           will == IF k = "CONNECT" THEN props \cap WillProperties ELSE {}
<1>1. w.rem = m.remlen /\ w.bytes = Total(m, put) /\ DOMAIN w.vals = put
  BY DEF Packet
<1>2. \A f \in put \ UserProperties : w.vals[f] = m[f]
  BY DEF Packet
<1>3. "propertiesLen" \notin UserProperties /\ "willPropertiesLen" \notin UserProperties
  BY DEF UserProperties
<1>4. /\ "propertiesLen" \in put => w.vals.propertiesLen = m.propertiesLen
      /\ "willPropertiesLen" \in put => w.vals.willPropertiesLen = m.willPropertiesLen
  BY <1>2, <1>3
<1>5. (~Miscounted(k, m) /\ Total(m, put) <= maxRemainingLength) =>
        /\ m.remlen = Total(m, put)
        /\ "propertiesLen" \in put => m.propertiesLen = Total(m, props \ will)
        /\ "propertiesLen" \notin put => props = {}
        /\ "willPropertiesLen" \in put => m.willPropertiesLen = Total(m, will)
  BY DEF Encoded, Measures
<1> HIDE DEF w, m, put
<1>6. HonestPacket(k, m, w)
  BY <1>1, <1>4, <1>5 DEF HonestPacket
<1> QED BY <1>6 DEF w, m

\* What is sent is what the encoders make.
LEMMA CInvSend ==
  ASSUME CInv, NEW r, r = Encode(kind, msg), SendPacket(r)
  PROVE  CInv'
<1>1. kind \in AllKinds /\ Message(kind, msg) /\ kind' = kind /\ sets' = sets /\ outcome' = outcome /\ dirty' = dirty
  BY KindsKnown DEF CInv, Typed, SendPacket
<1>2. dirty \in BOOLEAN /\ cached' = ~dirty /\ dbuf' = dbuf /\ phase \in {"built", "received", "changed"}
  BY DEF CInv, Typed, SendPacket
<1>3. CASE dirty /\ phase' = "refused"
  <2>1. msg' = msg /\ wire' = wire /\ sent' = sent
    BY <1>3 DEF SendPacket
  <2>2. Typed'
    BY <1>1, <1>2, <1>3, <2>1 DEF CInv, Typed, Phases
  <2> QED BY <1>3, <2>2 DEF CInv, Begun, LengthHonest, Clean, Forgery, RoundTrip, ForbiddenRefused
<1>4. CASE dirty /\ phase' # "refused"
  <2>1. /\ r # Refused /\ phase' = (IF phase = "built" THEN "sent" ELSE "resent")
        /\ msg' = r.obj /\ wire' = Packet(r) /\ sent' = r.obj
    BY <1>4 DEF SendPacket
  <2>2. Encoded(kind, r)
    BY <1>1, <2>1, Encoders
  <2>3. Message(kind, r.obj)
    BY <2>2 DEF Encoded
  <2>4. Typed'
    BY <1>1, <1>2, <1>4, <2>1, <2>3 DEF CInv, Typed, Phases
  <2>5. phase = "built" => Sent(kind, r.obj, Packet(r))
    BY <1>1, <2>1 DEF CInv, Begun, Sent
  <2>6. Begun'
    BY <1>1, <1>2, <1>4, <2>1, <2>5 DEF Begun
  <2>7. LengthHonest'
    <3>1. HonestPacket(kind', sent', wire')
      BY <1>1, <2>1, <2>2, EncodedHonest
    <3> QED BY <3>1 DEF HonestPacket, LengthHonest, Honest
  <2>8. Clean'
    BY <1>1, <1>2, <1>4, <2>1 DEF Clean
  <2> QED BY <2>1, <2>4, <2>6, <2>7, <2>8 DEF CInv, Forgery, RoundTrip, ForbiddenRefused
<1>5. CASE ~dirty
  <2>1. phase' = "resent" /\ wire' = dbuf /\ msg' = msg /\ sent' = sent
    BY <1>5 DEF SendPacket
  <2>2. phase # "built"
    BY <1>5 DEF CInv, Begun
  <2>3. Typed'
    BY <1>1, <1>2, <1>5, <2>1 DEF CInv, Typed, Phases
  <2>4. Clean'
    BY <1>1, <1>2, <1>5, <2>1, <2>2 DEF CInv, Clean
  <2> QED BY <1>2, <1>5, <2>1, <2>3, <2>4 DEF CInv, Begun, LengthHonest, Forgery, RoundTrip, ForbiddenRefused
<1> QED BY <1>2, <1>3, <1>4, <1>5

\* The results that decoders have.
Hows == {"ok", "error", "panic", "misread"}
LEMMA DecodeHow ==
  ASSUME NEW k \in AllKinds, NEW v
  PROVE  Decode(k, v).how \in Hows
<1> DEFINE d == Decode(k, v)
<1>1. CASE k = "CONNECT"
  <2>1. d = ConnectDecode(v)
    BY <1>1 DEF Decode
  <2>2. ConnectDecode(v).how \in Hows
    BY DEF ConnectDecode, Failed, Panicked, Misread, Got, Hows
  <2> HIDE DEF d
  <2> QED BY <2>1, <2>2 DEF d
<1>2. CASE k = "CONNACK"
  <2>1. d = ConnackDecode(v)
    BY <1>2 DEF Decode
  <2>2. ConnackDecode(v).how \in Hows
    BY DEF ConnackDecode, Failed, Panicked, Misread, Got, Hows
  <2> HIDE DEF d
  <2> QED BY <2>1, <2>2 DEF d
<1>3. CASE k = "PUBLISH"
  <2>1. d = PublishDecode(v)
    BY <1>3 DEF Decode
  <2>2. PublishDecode(v).how \in Hows
    BY DEF PublishDecode, Failed, Panicked, Misread, Got, Hows
  <2> HIDE DEF d
  <2> QED BY <2>1, <2>2 DEF d
<1>4. CASE k = "SUBSCRIBE"
  <2>1. d = SubscribeDecode(v)
    BY <1>4 DEF Decode
  <2>2. SubscribeDecode(v).how \in Hows
    BY DEF SubscribeDecode, Failed, Panicked, Misread, Got, Hows
  <2> HIDE DEF d
  <2> QED BY <2>1, <2>2 DEF d
<1>5. CASE k = "SUBACK"
  <2>1. d = SubackDecode(v)
    BY <1>5 DEF Decode
  <2>2. SubackDecode(v).how \in Hows
    BY DEF SubackDecode, Failed, Panicked, Misread, Got, Hows
  <2> HIDE DEF d
  <2> QED BY <2>1, <2>2 DEF d
<1>6. CASE k = "UNSUBSCRIBE"
  <2>1. d = UnsubscribeDecode(v)
    BY <1>6 DEF Decode
  <2>2. UnsubscribeDecode(v).how \in Hows
    BY DEF UnsubscribeDecode, Failed, Panicked, Misread, Got, Hows
  <2> HIDE DEF d
  <2> QED BY <2>1, <2>2 DEF d
<1>7. CASE k = "UNSUBACK"
  <2>1. d = UnsubackDecode(v)
    BY <1>7 DEF Decode
  <2>2. UnsubackDecode(v).how \in Hows
    BY DEF UnsubackDecode, Failed, Panicked, Misread, Got, Hows
  <2> HIDE DEF d
  <2> QED BY <2>1, <2>2 DEF d
<1>8. CASE k = "DISCONNECT"
  <2>1. d = DisconnectDecode(v)
    BY <1>8 DEF Decode
  <2>2. DisconnectDecode(v).how \in Hows
    BY DEF DisconnectDecode, Failed, Panicked, Misread, Got, Hows
  <2> HIDE DEF d
  <2> QED BY <2>1, <2>2 DEF d
<1>9. CASE k = "AUTH"
  <2>1. d = AuthDecode(v)
    BY <1>9 DEF Decode
  <2>2. AuthDecode(v).how \in Hows
    BY DEF AuthDecode, Failed, Panicked, Misread, Got, Hows
  <2> HIDE DEF d
  <2> QED BY <2>1, <2>2 DEF d
<1>10. CASE k = "PUBACK"
  <2>1. d = PubackDecode(v)
    BY <1>10 DEF Decode
  <2>2. PubackDecode(v).how \in Hows
    BY DEF PubackDecode, decodeOther, Failed, Panicked, Misread, Got, Hows
  <2> HIDE DEF d
  <2> QED BY <2>1, <2>2 DEF d
<1>11. CASE k = "PUBREC"
  <2>1. d = PubrecDecode(v)
    BY <1>11 DEF Decode
  <2>2. PubrecDecode(v).how \in Hows
    BY DEF PubrecDecode, decodeOther, Failed, Panicked, Misread, Got, Hows
  <2> HIDE DEF d
  <2> QED BY <2>1, <2>2 DEF d
<1>12. CASE k = "PUBREL"
  <2>1. d = PubrelDecode(v)
    BY <1>12 DEF Decode
  <2>2. PubrelDecode(v).how \in Hows
    BY DEF PubrelDecode, decodeOther, Failed, Panicked, Misread, Got, Hows
  <2> HIDE DEF d
  <2> QED BY <2>1, <2>2 DEF d
<1>13. CASE k = "PUBCOMP"
  <2>1. d = PubcompDecode(v)
    BY <1>13 DEF Decode
  <2>2. PubcompDecode(v).how \in Hows
    BY DEF PubcompDecode, decodeOther, Failed, Panicked, Misread, Got, Hows
  <2> HIDE DEF d
  <2> QED BY <2>1, <2>2 DEF d
<1> HIDE DEF d
<1> QED BY <1>1, <1>2, <1>3, <1>4, <1>5, <1>6, <1>7, <1>8, <1>9, <1>10, <1>11, <1>12, <1>13 DEF AllKinds, Acks, d

\* A packet that was sent is read as it should be.
LEMMA CInvReceive ==
  ASSUME CInv, Receive
  PROVE  CInv'
<1> DEFINE r == Decode(kind, wire)
<1>1. kind \in AllKinds /\ Message(kind, msg) /\ kind' = kind /\ wire' = wire /\ sent' = sent /\ cached' = cached /\ sets' = sets
  BY KindsKnown DEF CInv, Typed, Receive
<1>2. /\ phase \in {"sent", "forged"} /\ ~Miscounted(kind, sent)
      /\ outcome' \in IF r.how = "misread" THEN {"error", "panic", "ok"} ELSE {r.how}
      /\ IF r.how = "ok" /\ phase = "sent"
         THEN msg' = r.obj /\ dirty' = r.dirty /\ dbuf' = wire /\ phase' = "received"
         ELSE phase' = (IF phase = "forged" THEN "judged" ELSE IF r.how = "misread" THEN "misread" ELSE "failed")
              /\ UNCHANGED <<msg, dirty, dbuf>>
  BY DEF Receive
<1>3. phase = "sent" => Reads(kind, sent, r)
  BY <1>1, <1>2, SentReads DEF CInv, Begun
<1>4. r.how \in Hows
  BY <1>1, DecodeHow
<1> HIDE DEF r
<1>5. outcome' \in {"ok", "error", "panic"} /\ (r.how = "error" => outcome' = "error")
  BY <1>2, <1>4 DEF Hows
<1>6. CASE phase = "sent" /\ r.how = "ok"
  <2>1. msg' = r.obj /\ dirty' = r.dirty /\ dbuf' = wire /\ phase' = "received"
    BY <1>2, <1>6
  <2>2. /\ Message(kind, r.obj) /\ r.dirty \in BOOLEAN /\ ~Unreadable(kind, sent)
        /\ \A f \in DOMAIN New(kind) \ Lossy(kind, sent) : r.obj[f] = sent[f]
    BY <1>3, <1>6 DEF Reads
  <2>3. DOMAIN r.obj = DOMAIN New(kind)
    BY <2>2 DEF Message
  <2>4. Typed'
    BY <1>1, <1>2, <1>5, <2>1, <2>2 DEF CInv, Typed, Phases
  <2>5. Clean'
    <3>1. Fresh(kind', msg', Decode(kind', dbuf').obj)
      BY <1>1, <2>1, FreshSame DEF r
    <3> QED BY <2>1, <3>1 DEF Clean
  <2>6. RoundTrip'
    BY <1>1, <2>1, <2>2, <2>3 DEF RoundTrip
  <2> QED BY <2>1, <2>4, <2>5, <2>6 DEF CInv, Begun, LengthHonest, Forgery, ForbiddenRefused
<1>7. CASE phase = "sent" /\ r.how # "ok"
  <2>1. phase' = (IF r.how = "misread" THEN "misread" ELSE "failed") /\ msg' = msg /\ dirty' = dirty /\ dbuf' = dbuf
    BY <1>2, <1>7
  <2>2. IF r.how = "misread" THEN Mistakable(kind, sent) ELSE Unreadable(kind, sent)
    BY <1>3, <1>4, <1>7 DEF Reads, Hows
  <2>3. Typed'
    BY <1>1, <1>2, <1>5, <2>1 DEF CInv, Typed, Phases
  <2>4. RoundTrip'
    BY <1>1, <2>1, <2>2 DEF RoundTrip
  <2> QED BY <2>1, <2>3, <2>4 DEF CInv, Begun, LengthHonest, Clean, Forgery, ForbiddenRefused
<1>8. CASE phase = "forged"
  <2>1. phase' = "judged" /\ msg' = msg /\ dirty' = dirty /\ dbuf' = dbuf
    BY <1>2, <1>8
  <2>2. Excused(kind, sent, wire) \/ r.how = "error"
    BY <1>8 DEF CInv, Forgery, r
  <2>3. Typed'
    BY <1>1, <1>2, <1>5, <2>1 DEF CInv, Typed, Phases
  <2>4. ForbiddenRefused'
    BY <1>1, <1>5, <2>1, <2>2 DEF ForbiddenRefused, Excused
  <2> QED BY <2>1, <2>3, <2>4 DEF CInv, Begun, LengthHonest, Clean, Forgery, RoundTrip
<1> QED BY <1>2, <1>6, <1>7, <1>8

\* A property of an acknowledgement takes more than two bytes.
LEMMA AckProperty ==
  ASSUME NEW k \in Acks, NEW m, NEW w, Sent(k, m, w), NEW f \in Identified \cap DOMAIN w.vals
  PROVE  w.rem \in Nat /\ Size(f, w.vals[f]) \in Nat /\ Size(f, w.vals[f]) > 2
<1>1. k \in AllKinds
  BY DEF AllKinds
<1>2. DOMAIN w.vals \subseteq DOMAIN New(k) \ {"remlen"} /\ Message(k, m) /\ w.rem = m.remlen
  BY <1>1, SentFields
<1>3. DOMAIN New(k) = {"remlen", "packetId", "reasonCode", "propertiesLen", "reasonStr", "userProperty"}
  BY Domains
<1>4. f = "reasonStr"
  BY <1>2, <1>3 DEF Identified, OneByte, TwoBytes, FourBytes, Strings
<1>5. w.vals[f] = m[f]
  <2>1. Back(k, m, PubackPut(m), w, Read(w, New(k)))
    BY PubackSent DEF Returns
  <2>2. f \in PubackPut(m) \ UserProperties
    BY <1>4, <2>1 DEF Back, UserProperties
  <2> QED BY <2>1, <2>2 DEF Back
<1>6. m[f] \in Nat /\ w.rem \in Nat
  BY <1>1, <1>2, <1>3, <1>4, NatFields DEF Lists, UserProperties
<1> DEFINE v == w.vals[f]
           id == IF f \in Identified THEN 1 ELSE 0
<1>7. Size(f, v) = id + (2 + v)
  BY <1>4, SizeByClass, Zenon DEF Strings
<1>8. id = 1 /\ v \in Nat
  BY <1>5, <1>6
<1> HIDE DEF id, v
<1>9. Size(f, v) \in Nat /\ Size(f, v) > 2
  BY <1>7, <1>8
<1> QED BY <1>6, <1>9 DEF v

\* What is left to show of a forged packet.
LEMMA CInvForged ==
  ASSUME CInv, phase = "sent", phase' = "forged", Forgery',
         UNCHANGED <<kind, msg, dirty, dbuf, sent, outcome, cached, sets>>
  PROVE  CInv'
<1>1. Typed'
  BY DEF CInv, Typed, Phases
<1> QED BY <1>1 DEF CInv, Begun, LengthHonest, Clean, RoundTrip, ForbiddenRefused

\* A repeated property is not taken, or its packet excused.
LEMMA CInvRepeat ==
  ASSUME CInv, NEW f \in DOMAIN wire.vals, NEW where \in {"twice", "again"}, Repeat(f, where)
  PROVE  CInv'
<1> DEFINE n == Size(f, wire.vals[f])
           w == wire
           v == wire'
           g == LengthOf(f)
<1>1. /\ phase = "sent" /\ f \in Identified /\ phase' = "forged"
      /\ v = [w EXCEPT ![where] = f, !.rem = @ + n, !.bytes = @ + n, !.vals[g] = @ + n]
      /\ UNCHANGED <<kind, msg, dirty, dbuf, sent, outcome, cached, sets>>
  BY DEF Repeat
<1>2. kind \in AllKinds /\ Sent(kind, sent, w)
  BY <1>1, KindsKnown DEF CInv, Typed, Begun
<1>3. /\ w = [rem |-> w.rem, bytes |-> w.bytes, twice |-> w.twice, again |-> w.again, vals |-> w.vals]
      /\ w.vals = [h \in DOMAIN w.vals |-> w.vals[h]]
  BY <1>2, SentFields
<1>4. kind \in Acks => w.rem \in Nat /\ n \in Nat /\ n > 2
  BY <1>1, <1>2, AckProperty
<1>5. f \in DOMAIN w.vals
  OBVIOUS
<1> HIDE DEF n, w, v, g
<1>6. /\ v[where] = f /\ v.rem = w.rem + n /\ DOMAIN v.vals = DOMAIN w.vals
      /\ where = "twice" => v.again = w.again
      /\ \A h \in DOMAIN w.vals \ {g} : v.vals[h] = w.vals[h]
  BY <1>1, <1>3
<1>7. g \in {"propertiesLen", "willPropertiesLen"}
  BY DEF g, LengthOf
<1>8. w.again = "" /\ f # ""
  BY <1>1, <1>2, SentFields DEF Identified, OneByte, TwoBytes, FourBytes, Strings
<1>9. kind \in Acks => v.rem # 2
  BY <1>4, <1>6
<1>10. Excused(kind, sent, v) \/ Decode(kind, v).how = "error"
  <2>1. CASE where = "twice"
    <3>1. Repeated(kind, w, f, v)
      BY <1>1, <1>5, <1>6, <1>7, <1>8, <1>9, <2>1 DEF Repeated
    <3> QED BY <1>2, <3>1, RepeatedRefused
  <2>2. CASE where = "again"
    <3>1. v.again # ""
      BY <1>6, <1>8, <2>2
    <3> QED BY <3>1, AgainRefused DEF Excused
  <2> QED BY <2>1, <2>2
<1>11. Forgery'
  BY <1>1, <1>10 DEF Forgery, v
<1> QED BY <1>1, <1>11, CInvForged

\* Nor is a zero.
LEMMA CInvZeroed ==
  ASSUME CInv, NEW f \in DOMAIN wire.vals, Zeroed(f)
  PROVE  CInv'
<1> DEFINE w == wire
           v == wire'
<1>1. /\ phase = "sent" /\ f \in NeverZero /\ phase' = "forged" /\ v = [w EXCEPT !.vals[f] = 0]
      /\ UNCHANGED <<kind, msg, dirty, dbuf, sent, outcome, cached, sets>>
  BY DEF Zeroed
<1>2. kind \in AllKinds /\ Sent(kind, sent, w)
  BY <1>1, KindsKnown DEF CInv, Typed, Begun
<1>3. /\ w = [rem |-> w.rem, bytes |-> w.bytes, twice |-> w.twice, again |-> w.again, vals |-> w.vals]
      /\ w.vals = [h \in DOMAIN w.vals |-> w.vals[h]]
  BY <1>2, SentFields
<1>4. f \in DOMAIN w.vals
  OBVIOUS
<1> HIDE DEF w, v
<1>5. v.twice = w.twice /\ DOMAIN v.vals = DOMAIN w.vals /\ v.vals[f] = 0
  BY <1>1, <1>3, <1>4
<1>6. Zeroing(w, f, v)
  BY <1>1, <1>4, <1>5 DEF Zeroing
<1>7. Decode(kind, v).how = "error"
  BY <1>2, <1>6, ZeroedRefused
<1>8. Forgery'
  BY <1>1, <1>7 DEF Forgery, v
<1> QED BY <1>1, <1>8, CInvForged

\* Every step preserves it.
LEMMA CInvNext == CInv /\ [Next]_vars => CInv'
<1> SUFFICES ASSUME CInv, [Next]_vars
             PROVE  CInv'
  OBVIOUS
<1>1. ASSUME NEW call \in Calls(kind), SetCall(call)
      PROVE  CInv'
  BY <1>1, CInvSet
<1>2. CASE SendPacket(Encode(kind, msg))
  BY <1>2, CInvSend
<1>3. CASE SendPacket(EncodeToBuf(kind, msg))
  <2>1. kind \in AllKinds /\ Message(kind, msg)
    BY KindsKnown DEF CInv, Typed
  <2>2. EncodeToBuf(kind, msg) = Encode(kind, msg)
    BY <2>1, Encoders
  <2>3. SendPacket(Encode(kind, msg))
    BY <1>3, <2>2
  <2> QED BY <2>3, CInvSend
<1>4. ASSUME NEW f \in DOMAIN wire.vals, NEW where \in {"twice", "again"}, Repeat(f, where)
      PROVE  CInv'
  BY <1>4, CInvRepeat
<1>5. ASSUME NEW f \in DOMAIN wire.vals, Zeroed(f)
      PROVE  CInv'
  BY <1>5, CInvZeroed
<1>6. CASE Receive
  BY <1>6, CInvReceive
<1>7. CASE UNCHANGED vars
  <2>1. /\ kind' = kind /\ msg' = msg /\ dirty' = dirty /\ dbuf' = dbuf /\ wire' = wire /\ sent' = sent
        /\ phase' = phase /\ outcome' = outcome /\ cached' = cached /\ sets' = sets
    BY <1>7 DEF vars
  <2>2. Typed'
    BY <2>1 DEF CInv, Typed
  <2>3. Begun'
    BY <2>1 DEF CInv, Begun
  <2>4. LengthHonest'
    BY <2>1 DEF CInv, LengthHonest, Honest
  <2>5. Clean'
    BY <2>1 DEF CInv, Clean
  <2>6. Forgery'
    BY <2>1 DEF CInv, Forgery
  <2>7. RoundTrip'
    BY <2>1 DEF CInv, RoundTrip
  <2>8. ForbiddenRefused'
    BY <2>1 DEF CInv, ForbiddenRefused
  <2> QED BY <2>2, <2>3, <2>4, <2>5, <2>6, <2>7, <2>8 DEF CInv
<1> QED BY <1>1, <1>2, <1>3, <1>4, <1>5, <1>6, <1>7 DEF Next

-----------------------------------------------------------------------------
(* Theorems *)

\* The invariant holds of the life of every message.
LEMMA CInvAlways == Spec => []CInv
BY CInvInit, CInvNext, PTL DEF Spec

\* The remaining length that build computes is the number of bytes that both
\* encoders write, and the property lengths those of the properties, save for
\* the messages of Miscounted and packets too long; setters keep a message well
\* formed (msgLen, build and encode of every type of broker/core/message).
THEOREM LengthsAreRight == Spec => []LengthsRight
BY CInvAlways, CInvImplies, PTL

\* What one end encodes the other decodes to the same message: a packet that is
\* refused is one of Unreadable, one in which the decoder loses its place one of
\* Mistakable, and a field that is changed one of Lossy (Encode, EncodeToBuf and
\* Decode of every type).
THEOREM MessagesComeBack == Spec => []RoundTrip
BY CInvAlways, CInvImplies, PTL

\* A packet that is sent again from the bytes it was decoded from says what the
\* message says (the dirty flag of header.go and the setters that raise it).
THEOREM CachesAreFresh == Spec => []CacheFresh
BY CInvAlways, CInvImplies, PTL

\* A property that comes twice in a row, and a zero where the protocol has none,
\* are refused by the decoders, save those the property names; of those that come
\* again behind others only the ones of SUBACK and UNSUBACK are.
THEOREM ForgeriesAreRefused == Spec => []ForbiddenRefused
BY CInvAlways, CInvImplies, PTL
=============================================================================
