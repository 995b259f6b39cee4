-------------------------- MODULE SharedStateProofs -------------------------
(***************************************************************************)
(* Proofs about what the goroutines of the broker share under a lock: the  *)
(* packet identifiers and the send quota that limit what a service has on  *)
(* its way to its client, and the map that servers and stores are made of. *)
(***************************************************************************)
EXTENDS PacketIdLimiter, SendQuota, SafeMap, FiniteSetTheorems, TLAPS

-----------------------------------------------------------------------------
(* PacketIdLimiter, for every Receive Maximum for which the bitmap is as   *)
(* large as it has to be.  Accounted is inductive only with TypeOK (the    *)
(* bounds of the identifiers) and keeps used in range for it.              *)

\* The bitmap has a bit for every identifier.
BitmapCovers == Limit <= BitmapSize

\* The rounding up in NewBitmap overflows uint16 for exactly six values of
\* the limit; for every other the bitmap has a bit for every identifier.
LEMMA BitmapLargeEnough == BitmapCovers <=> (Limit < 65528 \/ Limit > 65533)
<1>1. Limit \in Nat /\ Limit <= 65535
  BY LimitAssumption, SMT DEF MaxUint16
<1> DEFINE s == (Limit + 1) % 65536
<1>2. BitmapSize = IF s = 0 \/ s >= 65535 THEN 65535
                   ELSE IF s % 8 # 0 THEN (s + (8 - (s % 8))) % 65536 ELSE s
  BY SMT DEF BitmapSize, MaxUint16
<1>3. s = IF Limit = 65535 THEN 0 ELSE Limit + 1
  BY <1>1, SMT
<1> QED BY <1>1, <1>2, <1>3, SMT DEF BitmapCovers

\* Bounds of the constants, without their numerals.
LEMMA Bounds == Limit \in Nat /\ MaxUint16 \in Nat /\ Limit <= MaxUint16
BY LimitAssumption, SMT DEF MaxUint16

\* The size of the bitmap is a natural number.
LEMMA BitmapSizeNat == BitmapSize \in Nat
<1> DEFINE s == (Limit + 1) % (MaxUint16 + 1)
           u == (s + (8 - (s % 8))) % (MaxUint16 + 1)
<1>1. s \in Nat
  BY Bounds, SMT
<1>2. s + (8 - (s % 8)) \in Nat
  BY <1>1, SMT
<1>3. u \in Nat
  BY <1>2, Bounds, SMT
<1>4. BitmapSize = IF s = 0 \/ s >= MaxUint16 THEN MaxUint16
                   ELSE IF s % 8 # 0 THEN u ELSE s
  BY DEF BitmapSize
<1> HIDE DEF s, u
<1> QED BY <1>1, <1>3, <1>4, Bounds, SMT

-----------------------------------------------------------------------------
LimiterInv == TypeOK /\ Accounted /\ WaitersListed

\* Sets of identifiers are finite.
LEMMA IdsFinite ==
  ASSUME NEW S \in SUBSET (1 .. Limit)
  PROVE  IsFiniteSet(S) /\ Cardinality(S) \in Nat /\ Cardinality(S) <= Limit
<1>1. Limit \in Nat
  BY Bounds
<1>2. IsFiniteSet(1 .. Limit) /\ Cardinality(1 .. Limit) = IF 1 > Limit THEN 0 ELSE Limit - 1 + 1
  BY <1>1, FS_Interval
<1>3. IsFiniteSet(S) /\ Cardinality(S) <= Cardinality(1 .. Limit)
  BY <1>2, FS_Subset
<1>4. Cardinality(S) \in Nat
  BY <1>3, FS_CardinalityType
<1>5. Cardinality(1 .. Limit) <= Limit /\ Cardinality(1 .. Limit) \in Nat
  BY <1>1, <1>2
<1> QED BY <1>1, <1>3, <1>4, <1>5

\* A bitmap that covers the limit has a bit for every identifier.
LEMMA EveryIdHasABit == BitmapCovers => \A i \in 1 .. Limit : i <= BitmapSize
BY Bounds, BitmapSizeNat, SMT DEF BitmapCovers

\* When the bitmap covers the identifiers, setting and clearing bits are
\* union and difference.
LEMMA BitsAreSets ==
  ASSUME BitmapCovers, NEW b \in SUBSET (1 .. Limit), NEW S \in SUBSET (1 .. Limit)
  PROVE  BitsSet(b, S) = b \cup S /\ BitsCleared(b, S) = b \ S
<1>2. \A i \in 1 .. Limit : i <= BitmapSize
  BY EveryIdHasABit
<1>3. {i \in S : i <= BitmapSize} = S
  BY <1>2
<1> QED BY <1>3 DEF BitsSet, BitsCleared

\* The initial state, with its restored identifiers, satisfies the invariant.
LEMMA InitInv == BitmapCovers /\ Init => LimiterInv
<1> SUFFICES ASSUME BitmapCovers, Init PROVE LimiterInv
  OBVIOUS
<1>1. Restored \in SUBSET (1 .. Limit) /\ Limit \in Nat /\ Limit <= MaxUint16 /\ MaxUint16 \in Nat
  BY Bounds, CallsAssumption
<1>2. bits = Restored
  <2>1. {} \in SUBSET (1 .. Limit)
    OBVIOUS
  <2>2. BitsSet({}, Restored) = {} \cup Restored
    BY <1>1, <2>1, BitsAreSets
  <2> QED BY <2>2 DEF Init
<1>3. Cardinality(Restored) \in Nat /\ Cardinality(Restored) <= Limit
  BY <1>1, IdsFinite
<1>4. Accounted
  BY <1>2, <1>3 DEF Init, Accounted
<1>5. TypeOK
  <2>1. used \in Nat /\ used <= MaxUint16 /\ bits \subseteq 1 .. Limit
        /\ held \subseteq 1 .. Limit
    <3>1. used = Cardinality(Restored) /\ held = Restored
      BY DEF Init
    <3>2. Cardinality(Restored) <= MaxUint16
      BY <1>1, <1>3
    <3> QED BY <3>1, <3>2, <1>1, <1>2, <1>3
  <2>2. freePid \in Nat /\ (Limit > 0 => freePid \in 1 .. Limit) /\ notify \in Seq(Pollers)
    BY <1>1 DEF Init
  <2>3. /\ exit \in BOOLEAN
        /\ pc \in [Pollers \cup Releasers -> {"idle", "waiting", "woken", "signal"}]
        /\ want \in [Pollers -> Nat]
    BY DEF Init
  <2> QED BY <2>1, <2>2, <2>3 DEF TypeOK
<1>6. WaitersListed
  BY DEF Init, WaitersListed
<1> QED BY <1>4, <1>5, <1>6 DEF LimiterInv

\* An allocation takes free identifiers only and counts each one.
LEMMA AllocateInv ==
  ASSUME BitmapCovers, LimiterInv, NEW c \in Pollers, NEW max \in Nat,
         Allocate(c, max), pc[c] # "waiting"
  PROVE  LimiterInv'
<1> DEFINE n == Smaller(max, Limit - used)
           d == Walk(n)
           S == Taken(d)
<1>1. /\ Limit \in Nat /\ Limit <= MaxUint16 /\ MaxUint16 \in Nat /\ used \in 0 .. Limit /\ used < Limit
      /\ max \in Nat
  BY Bounds DEF LimiterInv, TypeOK, Accounted, Allocate
<1>2. /\ Cardinality(S) = n /\ used' = used + n /\ bits' = BitsSet(bits, S)
      /\ held' = held \cup S /\ freePid' = Succ(IdAt(d)) /\ d \in 0 .. Limit - 1
      /\ pc' = [pc EXCEPT ![c] = "idle"] /\ UNCHANGED <<exit, notify, want>>
  BY DEF Allocate
<1>3. n \in Nat /\ n <= Limit - used
  BY <1>1 DEF Smaller
<1>4. S \in SUBSET (1 .. Limit) /\ \A i \in S : ~ Locked(i)
  BY DEF Taken
<1> HIDE DEF n, d, S
<1>5. bits \in SUBSET (1 .. Limit) /\ held = bits /\ used = Cardinality(held)
  BY DEF LimiterInv, TypeOK, Accounted
<1>6. \A i \in 1 .. Limit : i <= BitmapSize
  BY EveryIdHasABit
<1>7. held \cap S = {}
  BY <1>4, <1>5, <1>6 DEF Locked
<1>8. bits' = held' /\ held' \in SUBSET (1 .. Limit)
  BY <1>2, <1>4, <1>5, BitsAreSets
<1>9. Cardinality(held') = used + n
  <2>1. IsFiniteSet(held) /\ IsFiniteSet(S)
    BY <1>4, <1>5, IdsFinite
  <2>2. Cardinality(held \cup S) = Cardinality(held) + Cardinality(S) - Cardinality(held \cap S)
    BY <2>1, FS_Union
  <2>3. Cardinality(held \cap S) = 0
    BY <1>7, FS_EmptySet
  <2> QED BY <2>2, <2>3, <1>1, <1>2, <1>3, <1>5
<1>10. Accounted'
  BY <1>1, <1>2, <1>3, <1>8, <1>9 DEF Accounted
<1>11. freePid' \in 1 .. Limit
  BY <1>1, <1>2 DEF LimiterInv, TypeOK, IdAt, Succ
<1>12. TypeOK'
  BY <1>1, <1>2, <1>3, <1>8, <1>11 DEF LimiterInv, TypeOK
<1>13. WaitersListed'
  BY <1>2 DEF LimiterInv, TypeOK, WaitersListed
<1> QED BY <1>10, <1>12, <1>13 DEF LimiterInv

\* A caller that starts to wait is listed once.
LEMMA BlockInv ==
  ASSUME LimiterInv, NEW c \in Pollers, NEW max \in Nat, Block(c, max),
         pc[c] # "waiting"
  PROVE  LimiterInv'
<1>1. /\ notify' = Append(notify, c) /\ pc' = [pc EXCEPT ![c] = "waiting"]
      /\ want' = [want EXCEPT ![c] = max]
      /\ UNCHANGED <<used, exit, freePid, bits, held>>
  BY DEF Block
<1>2. TypeOK'
  BY <1>1 DEF LimiterInv, TypeOK
<1>3. Accounted'
  BY <1>1 DEF LimiterInv, Accounted
<1>4. WaitersListed'
  <2>1. notify \in Seq(Pollers) /\ pc \in [Pollers \cup Releasers ->
                                      {"idle", "waiting", "woken", "signal"}]
    BY DEF LimiterInv, TypeOK
  <2>2. /\ Len(notify') = Len(notify) + 1 /\ Len(notify) \in Nat
        /\ \A i \in 1 .. Len(notify) : notify'[i] = notify[i]
        /\ notify'[Len(notify) + 1] = c
    BY <1>1, <2>1
  <2>3. \A i \in 1 .. Len(notify) : notify[i] # c
    BY DEF LimiterInv, WaitersListed
  <2>4. \A i, j \in 1 .. Len(notify') : notify'[i] = notify'[j] => i = j
    BY <2>2, <2>3 DEF LimiterInv, WaitersListed
  <2>5. ASSUME NEW b \in Pollers
        PROVE  pc'[b] = "waiting" <=> \E i \in 1 .. Len(notify') : notify'[i] = b
    <3>1. CASE b = c
      BY <3>1, <1>1, <2>1, <2>2
    <3>2. CASE b # c
      <4>1. pc'[b] = pc[b]
        BY <3>2, <1>1, <2>1
      <4>2. pc[b] = "waiting" <=> \E i \in 1 .. Len(notify) : notify[i] = b
        BY DEF LimiterInv, WaitersListed
      <4> QED BY <3>2, <4>1, <4>2, <2>2
    <3> QED BY <3>1, <3>2
  <2> QED BY <2>4, <2>5 DEF WaitersListed
<1> QED BY <1>2, <1>3, <1>4 DEF LimiterInv

\* A caller that finds the limiter closed leaves the books alone.
LEMMA GiveUpInv ==
  ASSUME LimiterInv, NEW c \in Pollers, GiveUp(c), pc[c] # "waiting"
  PROVE  LimiterInv'
<1>1. TypeOK' /\ Accounted'
  BY DEF LimiterInv, TypeOK, Accounted, GiveUp
<1>2. WaitersListed'
  BY DEF LimiterInv, TypeOK, WaitersListed, GiveUp
<1> QED BY <1>1, <1>2 DEF LimiterInv

\* Releases clear and count exactly the identifiers that were locked.
LEMMA ReleaseInv ==
  ASSUME BitmapCovers, LimiterInv, NEW r \in Releasers, NEW ids \in SUBSET (1 .. Limit),
         ReleaseAll(r, ids)
  PROVE  LimiterInv'
<1> DEFINE freed == {i \in ids : Locked(i)}
<1>1. /\ bits' = BitsCleared(bits, freed) /\ used' = used - Cardinality(freed)
      /\ held' = held \ ids /\ pc' = [pc EXCEPT ![r] = "signal"]
      /\ UNCHANGED <<exit, freePid, notify, want>> /\ pc[r] = "idle"
  BY DEF ReleaseAll
<1>2. /\ bits \in SUBSET (1 .. Limit) /\ held = bits /\ used = Cardinality(held)
      /\ used <= Limit /\ Limit \in Nat /\ Limit <= MaxUint16 /\ MaxUint16 \in Nat
  BY Bounds DEF LimiterInv, TypeOK, Accounted
<1>3. \A i \in 1 .. Limit : i <= BitmapSize
  BY EveryIdHasABit
<1>4. freed = held \cap ids
  <2>1. \A i \in ids : Locked(i) <=> i \in held
    BY <1>2, <1>3 DEF Locked
  <2> QED BY <2>1
<1> HIDE DEF freed
<1>5. bits' = held' /\ held' \in SUBSET (1 .. Limit)
  <2>1. freed \in SUBSET (1 .. Limit)
    BY <1>4
  <2>2. BitsCleared(bits, freed) = bits \ freed
    BY <1>2, <2>1, BitsAreSets
  <2> QED BY <1>1, <1>2, <1>4, <2>2
<1>6. Cardinality(held') = used'
  <2>1. IsFiniteSet(held)
    BY <1>2, IdsFinite
  <2>2. Cardinality(held \ ids) = Cardinality(held) - Cardinality(held \cap ids)
    BY <2>1, FS_Difference
  <2> QED BY <2>2, <1>1, <1>2, <1>4
<1>7. Cardinality(held') \in Nat /\ Cardinality(held') <= Limit
  BY <1>5, IdsFinite
<1>8. Accounted'
  BY <1>5, <1>6, <1>7 DEF Accounted
<1>9. TypeOK'
  BY <1>1, <1>2, <1>5, <1>6, <1>7 DEF LimiterInv, TypeOK
<1>10. r \notin Pollers
  BY CallsAssumption
<1>11. \A b \in Pollers : pc'[b] = pc[b]
  BY <1>1, <1>10 DEF LimiterInv, TypeOK
<1>12. WaitersListed'
  BY <1>1, <1>11 DEF LimiterInv, WaitersListed
<1> QED BY <1>8, <1>9, <1>12 DEF LimiterInv

\* Close leaves the books alone.
LEMMA CloseInv ==
  ASSUME LimiterInv, NEW r \in Releasers, Close(r)
  PROVE  LimiterInv'
<1>1. r \notin Pollers
  BY CallsAssumption
<1>2. TypeOK' /\ Accounted'
  BY DEF LimiterInv, TypeOK, Accounted, Close
<1>3. \A b \in Pollers : pc'[b] = pc[b]
  BY <1>1 DEF LimiterInv, TypeOK, Close
<1>4. WaitersListed'
  BY <1>3 DEF LimiterInv, WaitersListed, Close
<1> QED BY <1>2, <1>4 DEF LimiterInv

\* Signal unlists exactly the waiter it wakes.
LEMMA SignalInv ==
  ASSUME LimiterInv, NEW r \in Releasers, Signal(r)
  PROVE  LimiterInv'
<1>1. r \notin Pollers
  BY CallsAssumption
<1>2. Accounted'
  BY DEF LimiterInv, Accounted, Signal
<1>3. notify \in Seq(Pollers) /\ pc \in [Pollers \cup Releasers ->
                                    {"idle", "waiting", "woken", "signal"}]
  BY DEF LimiterInv, TypeOK
<1>4. CASE notify = <<>>
  <2>1. notify' = notify /\ \A b \in Pollers : pc'[b] = pc[b]
    BY <1>1, <1>3, <1>4 DEF Signal
  <2>2. TypeOK'
    BY <1>4 DEF LimiterInv, TypeOK, Signal
  <2>3. WaitersListed'
    BY <2>1 DEF LimiterInv, WaitersListed
  <2> QED BY <1>2, <2>2, <2>3 DEF LimiterInv
<1>5. CASE notify # <<>>
  <2> DEFINE w == notify[1]
  <2>1. /\ Len(notify) \in Nat /\ Len(notify) >= 1 /\ w \in Pollers
        /\ Head(notify) = w /\ Tail(notify) \in Seq(Pollers)
        /\ Len(Tail(notify)) = Len(notify) - 1
        /\ \A i \in 1 .. Len(notify) - 1 : Tail(notify)[i] = notify[i + 1]
    BY <1>3, <1>5
  <2>2. /\ notify' = Tail(notify)
        /\ pc' = [pc EXCEPT ![r] = "idle", ![w] = "woken"]
        /\ UNCHANGED <<used, exit, freePid, bits, want, held>>
    BY <1>5, <2>1 DEF Signal
  <2>3. TypeOK'
    BY <2>1, <2>2, <1>3 DEF LimiterInv, TypeOK
  <2>4. \A i, j \in 1 .. Len(notify') : notify'[i] = notify'[j] => i = j
    BY <2>1, <2>2 DEF LimiterInv, WaitersListed
  <2>5. ASSUME NEW b \in Pollers
        PROVE  pc'[b] = "waiting" <=> \E i \in 1 .. Len(notify') : notify'[i] = b
    <3>1. CASE b = w
      <4>1. pc'[b] = "woken"
        BY <3>1, <2>1, <2>2, <1>1, <1>3
      <4>2. \A i \in 1 .. Len(notify) - 1 : notify[i + 1] # w
        BY <2>1 DEF LimiterInv, WaitersListed
      <4> QED BY <3>1, <4>1, <4>2, <2>1, <2>2
    <3>2. CASE b # w
      <4>1. pc'[b] = pc[b]
        BY <3>2, <2>1, <2>2, <1>1, <1>3
      <4>2. pc[b] = "waiting" <=> \E i \in 1 .. Len(notify) : notify[i] = b
        BY DEF LimiterInv, WaitersListed
      <4>3. (\E i \in 1 .. Len(notify) : notify[i] = b)
               <=> \E i \in 1 .. Len(notify') : notify'[i] = b
        <5>1. ASSUME NEW i \in 1 .. Len(notify), notify[i] = b
              PROVE  \E j \in 1 .. Len(notify') : notify'[j] = b
          <6>1. i - 1 \in 1 .. Len(notify') /\ notify'[i - 1] = b
            BY <5>1, <3>2, <2>1, <2>2
          <6> QED BY <6>1
        <5>2. ASSUME NEW i \in 1 .. Len(notify'), notify'[i] = b
              PROVE  \E j \in 1 .. Len(notify) : notify[j] = b
          <6>1. i + 1 \in 1 .. Len(notify) /\ notify[i + 1] = b
            BY <5>2, <2>1, <2>2
          <6> QED BY <6>1
        <5> QED BY <5>1, <5>2
      <4> QED BY <4>1, <4>2, <4>3
    <3> QED BY <3>1, <3>2
  <2>6. WaitersListed'
    BY <2>4, <2>5 DEF WaitersListed
  <2> QED BY <1>2, <2>3, <2>6 DEF LimiterInv
<1> QED BY <1>4, <1>5

\* Every step of the limiter keeps the invariant.
LEMMA NextInv ==
  ASSUME BitmapCovers, LimiterInv, [Next]_vars
  PROVE  LimiterInv'
<1>1. ASSUME NEW c \in Pollers, Resume(c) PROVE LimiterInv'
  <2>1. pc[c] = "woken" /\ want[c] \in Nat /\ Body(c, want[c])
    BY <1>1 DEF Resume, LimiterInv, TypeOK
  <2> QED BY <2>1, AllocateInv, BlockInv, GiveUpInv DEF Body
<1>2. ASSUME NEW c \in Pollers, NEW max \in Maxes, PollPacketIDs(c, max) PROVE LimiterInv'
  <2>1. pc[c] = "idle" /\ max \in Nat /\ Body(c, max)
    BY <1>2, CallsAssumption DEF PollPacketIDs
  <2> QED BY <2>1, AllocateInv, BlockInv, GiveUpInv DEF Body
<1>3. held \cup Stale \subseteq 1 .. Limit
  BY CallsAssumption DEF LimiterInv, TypeOK
<1>4. ASSUME NEW r \in Releasers, NEW ids \in SUBSET (held \cup Stale), ReleaseAll(r, ids)
      PROVE  LimiterInv'
  BY <1>3, <1>4, ReleaseInv
<1>5. ASSUME NEW r \in Releasers, ReleaserStep(r) PROVE LimiterInv'
  BY <1>4, <1>5, CloseInv, SignalInv DEF ReleaserStep, Release, BatchRelease
<1>6. CASE UNCHANGED vars
  BY <1>6 DEF vars, LimiterInv, TypeOK, Accounted, WaitersListed
<1> QED BY <1>1, <1>2, <1>5, <1>6 DEF Next, PollerStep

\* Unless the client's Receive Maximum is one of the six values for which
\* the bitmap is empty, no identifier is handed out while it is in flight,
\* the counter counts the identifiers in flight and never exceeds the limit,
\* for any number of pollers and releasers.
THEOREM LimiterSafe == BitmapCovers => (Spec => []Accounted)
<1> SUFFICES ASSUME BitmapCovers PROVE Spec => []Accounted
  OBVIOUS
<1>2. Init => LimiterInv
  BY InitInv
<1>3. LimiterInv /\ [Next]_vars => LimiterInv'
  BY NextInv
<1>4. LimiterInv => Accounted
  BY DEF LimiterInv
<1> QED BY <1>2, <1>3, <1>4, PTL DEF Spec

\* The next free identifier, which wraps in PollPacketIDs, stays between 1 and
\* the limit, the counter stays a uint16, and no other identifier is marked.
THEOREM LimiterTypeCorrect == BitmapCovers => (Spec => []TypeOK)
<1> SUFFICES ASSUME BitmapCovers PROVE Spec => []TypeOK
  OBVIOUS
<1>2. Init => LimiterInv
  BY InitInv
<1>3. LimiterInv /\ [Next]_vars => LimiterInv'
  BY NextInv
<1>4. LimiterInv => TypeOK
  BY DEF LimiterInv
<1> QED BY <1>2, <1>3, <1>4, PTL DEF Spec

\* The notify list of the condition variable holds exactly the goroutines
\* that wait, so a Signal is never spent on one that does not.
THEOREM WaitersAreListed == BitmapCovers => (Spec => []WaitersListed)
<1> SUFFICES ASSUME BitmapCovers PROVE Spec => []WaitersListed
  OBVIOUS
<1>2. Init => LimiterInv
  BY InitInv
<1>3. LimiterInv /\ [Next]_vars => LimiterInv'
  BY NextInv
<1>4. LimiterInv => WaitersListed
  BY DEF LimiterInv
<1> QED BY <1>2, <1>3, <1>4, PTL DEF Spec

\* A caller that waits has asked for at least one identifier, which is what
\* it takes when it is woken: part of the argument that no wake-up is wasted.
WakeInv ==
  /\ NoneSleepIdle
  /\ \A c \in Pollers : pc[c] \in {"waiting", "woken"} => want[c] >= 1

\* The body of PollPacketIDs leaves the limiter in use or closed.
LEMMA BodyWakes ==
  ASSUME LimiterInv, WakeInv, NEW c \in Pollers, NEW max \in Nat, max >= 1, Body(c, max)
  PROVE  WakeInv'
<1> USE Bounds
<1>1. used \in Nat /\ pc \in [Pollers \cup Releasers -> {"idle", "waiting", "woken", "signal"}]
      /\ want \in [Pollers -> Nat]
  BY DEF LimiterInv, TypeOK
<1>2. CASE Block(c, max)
  <2>1. (Limit > 0 => used' # 0) /\ pc' = [pc EXCEPT ![c] = "waiting"]
        /\ want' = [want EXCEPT ![c] = max]
    BY <1>1, <1>2 DEF Block
  <2>2. NoneSleepIdle'
    BY <2>1 DEF NoneSleepIdle
  <2>3. \A b \in Pollers : pc'[b] \in {"waiting", "woken"} => want'[b] >= 1
    BY <1>1, <2>1 DEF WakeInv
  <2> QED BY <2>2, <2>3 DEF WakeInv
<1>3. CASE GiveUp(c)
  <2>1. exit' /\ pc' = [pc EXCEPT ![c] = "idle"] /\ want' = want
    BY <1>3 DEF GiveUp
  <2>2. NoneSleepIdle'
    BY <2>1 DEF NoneSleepIdle
  <2>3. \A b \in Pollers : pc'[b] \in {"waiting", "woken"} => want'[b] >= 1
    BY <1>1, <2>1 DEF WakeInv
  <2> QED BY <2>2, <2>3 DEF WakeInv
<1>4. CASE Allocate(c, max)
  <2>1. used < Limit /\ used' = used + Smaller(max, Limit - used)
        /\ pc' = [pc EXCEPT ![c] = "idle"] /\ want' = want
    BY <1>4 DEF Allocate
  <2>2. Smaller(max, Limit - used) >= 1 /\ Smaller(max, Limit - used) \in Int
    BY <1>1, <2>1 DEF Smaller
  <2>3. used' # 0
    BY <1>1, <2>1, <2>2
  <2>4. NoneSleepIdle'
    BY <2>3 DEF NoneSleepIdle
  <2>5. \A b \in Pollers : pc'[b] \in {"waiting", "woken"} => want'[b] >= 1
    BY <1>1, <2>1 DEF WakeInv
  <2> QED BY <2>4, <2>5 DEF WakeInv
<1> QED BY <1>2, <1>3, <1>4 DEF Body

\* A release leaves its own signal to come; the signal wakes a waiter if
\* there is one; a closed limiter is exempt.
LEMMA ReleaserWakes ==
  ASSUME LimiterInv, WakeInv, NEW r \in Releasers, ReleaserStep(r)
  PROVE  WakeInv'
<1>1. r \notin Pollers
  BY CallsAssumption
<1>2. pc \in [Pollers \cup Releasers -> {"idle", "waiting", "woken", "signal"}]
  BY DEF LimiterInv, TypeOK
<1>3. ASSUME NEW ids, ReleaseAll(r, ids) PROVE WakeInv'
  <2>1. pc' = [pc EXCEPT ![r] = "signal"] /\ want' = want
    BY <1>3 DEF ReleaseAll
  <2>2. pc'[r] = "signal" /\ \A b \in Pollers : pc'[b] = pc[b]
    BY <1>1, <1>2, <2>1
  <2>3. NoneSleepIdle'
    BY <2>2 DEF NoneSleepIdle
  <2> QED BY <2>1, <2>2, <2>3 DEF WakeInv
<1>4. CASE Close(r)
  <2>1. exit' /\ pc' = [pc EXCEPT ![r] = "signal"] /\ want' = want
    BY <1>4 DEF Close
  <2>2. \A b \in Pollers : pc'[b] = pc[b]
    BY <1>1, <1>2, <2>1
  <2>3. NoneSleepIdle'
    BY <2>1 DEF NoneSleepIdle
  <2> QED BY <2>1, <2>2, <2>3 DEF WakeInv
<1>5. CASE Signal(r)
  <2>1. want' = want
    BY <1>5 DEF Signal
  <2>2. CASE notify = <<>>
    <3>1. \A b \in Pollers : pc'[b] = pc[b]
      BY <1>1, <1>2, <1>5, <2>2 DEF Signal
    <3>2. \A b \in Pollers : pc[b] # "waiting"
      BY <2>2 DEF LimiterInv, WaitersListed
    <3>3. NoneSleepIdle'
      BY <3>1, <3>2 DEF NoneSleepIdle
    <3> QED BY <2>1, <3>1, <3>3 DEF WakeInv
  <2>3. CASE notify # <<>>
    <3> DEFINE w == Head(notify)
    <3>1. w \in Pollers /\ w = notify[1] /\ 1 \in 1 .. Len(notify)
      BY <2>3 DEF LimiterInv, TypeOK
    <3>2. pc' = [pc EXCEPT ![r] = "idle", ![w] = "woken"]
      BY <1>5, <2>3 DEF Signal
    <3>3. pc'[w] = "woken" /\ \A b \in Pollers \ {w} : pc'[b] = pc[b]
      BY <1>1, <1>2, <3>1, <3>2
    <3>4. pc[w] = "waiting"
      BY <3>1 DEF LimiterInv, WaitersListed
    <3>5. NoneSleepIdle'
      BY <3>1, <3>3 DEF NoneSleepIdle
    <3>6. \A b \in Pollers : pc'[b] \in {"waiting", "woken"} => want'[b] >= 1
      BY <2>1, <3>3, <3>4 DEF WakeInv
    <3> QED BY <3>5, <3>6 DEF WakeInv
  <2> QED BY <2>2, <2>3
<1> QED BY <1>3, <1>4, <1>5 DEF ReleaserStep, Release, BatchRelease

\* No wake-up is lost on a limiter that is open: with any number of callers
\* and releasers, batch and stale releases included, nobody sleeps while all
\* identifiers are free and no signal or woken caller is on its way.
THEOREM NoWakeupLost == BitmapCovers => (Spec => []NoneSleepIdle)
<1> SUFFICES ASSUME BitmapCovers PROVE Spec => []NoneSleepIdle
  OBVIOUS
<1>1. Init => LimiterInv /\ WakeInv
  <2>1. Init => WakeInv
    BY DEF Init, WakeInv, NoneSleepIdle
  <2> QED BY <2>1, InitInv
<1>2. LimiterInv /\ WakeInv /\ [Next]_vars => (LimiterInv /\ WakeInv)'
  <2> SUFFICES ASSUME LimiterInv, WakeInv, [Next]_vars PROVE WakeInv'
    BY NextInv
  <2>1. ASSUME NEW c \in Pollers, Resume(c) PROVE WakeInv'
    <3>1. want[c] \in Nat /\ want[c] >= 1 /\ Body(c, want[c])
      BY <2>1 DEF Resume, LimiterInv, TypeOK, WakeInv
    <3> QED BY <3>1, BodyWakes
  <2>2. ASSUME NEW c \in Pollers, NEW max \in Maxes, PollPacketIDs(c, max) PROVE WakeInv'
    <3>1. max \in Nat /\ max >= 1 /\ Body(c, max)
      BY <2>2, CallsAssumption DEF PollPacketIDs
    <3> QED BY <3>1, BodyWakes
  <2>3. CASE UNCHANGED vars
    BY <2>3 DEF vars, WakeInv, NoneSleepIdle
  <2> QED BY <2>1, <2>2, <2>3, ReleaserWakes DEF Next, PollerStep
<1>3. LimiterInv /\ WakeInv => NoneSleepIdle
  BY DEF WakeInv
<1> QED BY <1>1, <1>2, <1>3, PTL DEF Spec

-----------------------------------------------------------------------------
(* SendQuota, for any number of publishers, any quota and any number of    *)
(* refused messages.                                                       *)
(*                                                                         *)
(* OvercommitBounded is not inductive: a granted publisher has taken its   *)
(* unit and not sent yet, and what the counter holds may be granted next.  *)
(* UnitsAccounted adds both to the messages in flight; the case of a       *)
(* negative counter, which SwapZero raises to zero, needs a part of its    *)
(* own.                                                                    *)

\* Publishers that have a unit and have not sent yet.
GrantedNow == {p \in Publishers : at[p] = "granted"}

\* Everything that holds a unit, or is owed one more by a late PUBCOMP.
UnitsTaken == Cardinality(GrantedNow) + inflight + refused

UnitsAccounted ==
  /\ UnitsTaken <= Quota + rejects
  /\ UnitsTaken + currQuota <= Quota + rejects

QuotaInv == QuotaTypeOK /\ UnitsAccounted /\ NoDebt

-----------------------------------------------------------------------------
(* Facts about the two sets of publishers *)

\* Both are finite, so that their cardinalities are numbers.
LEMMA Counted ==
  /\ IsFiniteSet(GrantedNow) /\ Cardinality(GrantedNow) \in Nat
  /\ IsFiniteSet(DeniedNow) /\ Cardinality(DeniedNow) \in Nat
<1>1. GrantedNow \subseteq Publishers /\ DeniedNow \subseteq Publishers
  BY DEF GrantedNow, DeniedNow
<1> QED
  BY <1>1, FS_Subset, FS_CardinalityType, QuotaAssumption

\* A publisher that is granted its unit is counted once more.
LEMMA GrantCounts ==
  ASSUME QuotaTypeOK, NEW p \in Publishers, at[p] = "add",
         at' = [at EXCEPT ![p] = "granted"]
  PROVE  Cardinality(GrantedNow') = Cardinality(GrantedNow) + 1 /\ DeniedNow' = DeniedNow
<1>1. GrantedNow' = GrantedNow \cup {p} /\ p \notin GrantedNow /\ DeniedNow' = DeniedNow
  BY DEF GrantedNow, DeniedNow, QuotaTypeOK
<1> QED
  BY <1>1, Counted, FS_AddElement

\* A publisher that sends or skips its message is counted no longer.
LEMMA SendUncounts ==
  ASSUME QuotaTypeOK, NEW p \in Publishers, at[p] = "granted",
         at' = [at EXCEPT ![p] = "idle"]
  PROVE  Cardinality(GrantedNow') = Cardinality(GrantedNow) - 1 /\ DeniedNow' = DeniedNow
<1>1. GrantedNow' = GrantedNow \ {p} /\ p \in GrantedNow /\ DeniedNow' = DeniedNow
  BY DEF GrantedNow, DeniedNow, QuotaTypeOK
<1> QED
  BY <1>1, Counted, FS_RemoveElement

\* A denied publisher is counted among the denied.
LEMMA DenyCounts ==
  ASSUME QuotaTypeOK, NEW p \in Publishers, at[p] = "add",
         at' = [at EXCEPT ![p] = "flag"]
  PROVE  Cardinality(DeniedNow') = Cardinality(DeniedNow) + 1 /\ GrantedNow' = GrantedNow
<1>1. DeniedNow' = DeniedNow \cup {p} /\ p \notin DeniedNow /\ GrantedNow' = GrantedNow
  BY DEF GrantedNow, DeniedNow, QuotaTypeOK
<1> QED
  BY <1>1, Counted, FS_AddElement

\* The cardinalities are numbers after the step as well.
LEMMA CountedNext ==
  Cardinality(GrantedNow') \in Nat /\ Cardinality(DeniedNow') \in Nat
<1>1. GrantedNow' \subseteq Publishers /\ DeniedNow' \subseteq Publishers
  BY DEF GrantedNow, DeniedNow
<1> QED
  BY <1>1, FS_Subset, FS_CardinalityType, QuotaAssumption

-----------------------------------------------------------------------------
(* The inductive step *)

\* Every step of a publisher preserves the invariant.
LEMMA PublisherStep ==
  ASSUME QuotaInv, NEW p \in Publishers, Publisher(p)
  PROVE  QuotaInv'
<1> USE QuotaAssumption
<1>t. QuotaTypeOK /\ UnitsAccounted /\ NoDebt
  BY DEF QuotaInv
<1>c. Cardinality(GrantedNow) \in Nat /\ Cardinality(DeniedNow) \in Nat
  BY Counted
<1>1. CASE TestFlag(p)
  <2>1. QuotaTypeOK'
    BY <1>1, <1>t DEF TestFlag, QuotaTypeOK, client
  <2>2. GrantedNow' = GrantedNow /\ DeniedNow' = DeniedNow
    BY <1>1, <1>t DEF TestFlag, QuotaTypeOK, GrantedNow, DeniedNow
  <2> QED
    BY <1>1, <1>t, <2>1, <2>2 DEF TestFlag, QuotaInv, UnitsAccounted, UnitsTaken, NoDebt, client
<1>2. CASE Granted(p)
  <2>1. QuotaTypeOK'
    BY <1>2, <1>t DEF Granted, QuotaTypeOK, client
  <2>2. Cardinality(GrantedNow') = Cardinality(GrantedNow) + 1 /\ DeniedNow' = DeniedNow
    BY <1>2, <1>t, GrantCounts DEF Granted
  <2>3. UnitsAccounted' /\ NoDebt'
    BY <1>2, <1>t, <1>c, <2>2 DEF Granted, QuotaTypeOK, UnitsAccounted, UnitsTaken, NoDebt, client
  <2> QED
    BY <2>1, <2>3 DEF QuotaInv
<1>3. CASE Denied(p)
  <2>1. QuotaTypeOK'
    BY <1>3, <1>t DEF Denied, QuotaTypeOK, client
  <2>2. Cardinality(DeniedNow') = Cardinality(DeniedNow) + 1 /\ GrantedNow' = GrantedNow
    BY <1>3, <1>t, DenyCounts DEF Denied
  <2>3. UnitsAccounted' /\ NoDebt'
    BY <1>3, <1>t, <1>c, <2>2 DEF Denied, QuotaTypeOK, UnitsAccounted, UnitsTaken, NoDebt, client
  <2> QED
    BY <2>1, <2>3 DEF QuotaInv
<1>4. CASE SetFlag(p)
  <2>1. QuotaTypeOK'
    BY <1>4, <1>t DEF SetFlag, QuotaTypeOK, client
  <2>2. GrantedNow' = GrantedNow /\ DeniedNow' = DeniedNow
    BY <1>4, <1>t DEF SetFlag, QuotaTypeOK, GrantedNow, DeniedNow
  <2> QED
    BY <1>4, <1>t, <2>1, <2>2 DEF SetFlag, QuotaInv, UnitsAccounted, UnitsTaken, NoDebt, client
<1>5. CASE SwapZero(p)
  <2>1. QuotaTypeOK'
    BY <1>5, <1>t DEF SwapZero, QuotaTypeOK, client
  <2>2. GrantedNow' = GrantedNow
    BY <1>5, <1>t DEF SwapZero, QuotaTypeOK, GrantedNow
  <2>3. UnitsAccounted' /\ NoDebt'
    BY <1>5, <1>t, <1>c, <2>2, CountedNext DEF SwapZero, QuotaTypeOK, UnitsAccounted, UnitsTaken, NoDebt, client
  <2> QED
    BY <2>1, <2>3 DEF QuotaInv
<1>6. CASE Send(p)
  <2>1. QuotaTypeOK'
    BY <1>6, <1>t DEF Send, QuotaTypeOK
  <2>2. Cardinality(GrantedNow') = Cardinality(GrantedNow) - 1 /\ DeniedNow' = DeniedNow
    BY <1>6, <1>t, SendUncounts DEF Send
  <2>3. UnitsAccounted' /\ NoDebt'
    BY <1>6, <1>t, <1>c, <2>2 DEF Send, QuotaTypeOK, UnitsAccounted, UnitsTaken, NoDebt
  <2> QED
    BY <2>1, <2>3 DEF QuotaInv
<1>7. CASE SkipLocal(p)
  <2>1. QuotaTypeOK'
    BY <1>7, <1>t DEF SkipLocal, QuotaTypeOK, client
  <2>2. Cardinality(GrantedNow') = Cardinality(GrantedNow) - 1 /\ DeniedNow' = DeniedNow
    BY <1>7, <1>t, SendUncounts DEF SkipLocal
  <2>3. UnitsAccounted' /\ NoDebt'
    BY <1>7, <1>t, <1>c, <2>2 DEF SkipLocal, QuotaTypeOK, UnitsAccounted, UnitsTaken, NoDebt, client
  <2> QED
    BY <2>1, <2>3 DEF QuotaInv
<1> QED
  BY <1>1, <1>2, <1>3, <1>4, <1>5, <1>6, <1>7 DEF Publisher

\* Every step of the processor preserves the invariant.
LEMMA ProcessorStep ==
  ASSUME QuotaInv, Processor
  PROVE  QuotaInv'
<1> USE QuotaAssumption
<1>t. QuotaTypeOK /\ UnitsAccounted /\ NoDebt
  BY DEF QuotaInv
<1>c. Cardinality(GrantedNow) \in Nat /\ Cardinality(DeniedNow) \in Nat
  BY Counted
<1>p. GrantedNow' = GrantedNow /\ DeniedNow' = DeniedNow
  BY DEF Processor, StreamController, ReadNext, ProcessOther, ProcessAck, ProcessPubrecError,
         ProcessLatePubcomp, ClearFlag, AddQuota, GrantedNow, DeniedNow
<1>1. CASE StreamController \/ ReadNext \/ ProcessOther \/ ClearFlag
  <2>1. QuotaTypeOK'
    BY <1>1, <1>t DEF StreamController, ReadNext, ProcessOther, ClearFlag, QuotaTypeOK, client
  <2> QED
    BY <1>1, <1>t, <1>p, <2>1 DEF StreamController, ReadNext, ProcessOther, ClearFlag,
       QuotaInv, UnitsAccounted, UnitsTaken, NoDebt, client
<1>2. CASE ProcessAck
  <2>1. QuotaTypeOK'
    BY <1>2, <1>t DEF ProcessAck, AddQuota, QuotaTypeOK
  <2>2. UnitsAccounted' /\ NoDebt'
    BY <1>2, <1>t, <1>c, <1>p DEF ProcessAck, AddQuota, QuotaTypeOK, UnitsAccounted, UnitsTaken, NoDebt
  <2> QED
    BY <2>1, <2>2 DEF QuotaInv
<1>3. CASE ProcessPubrecError
  <2>1. QuotaTypeOK'
    BY <1>3, <1>t DEF ProcessPubrecError, AddQuota, QuotaTypeOK
  <2>2. UnitsAccounted' /\ NoDebt'
    BY <1>3, <1>t, <1>c, <1>p DEF ProcessPubrecError, AddQuota, QuotaTypeOK, UnitsAccounted, UnitsTaken, NoDebt
  <2> QED
    BY <2>1, <2>2 DEF QuotaInv
<1>4. CASE ProcessLatePubcomp
  <2>1. QuotaTypeOK'
    BY <1>4, <1>t DEF ProcessLatePubcomp, AddQuota, QuotaTypeOK
  <2>2. UnitsAccounted' /\ NoDebt'
    BY <1>4, <1>t, <1>c, <1>p DEF ProcessLatePubcomp, AddQuota, QuotaTypeOK, UnitsAccounted, UnitsTaken, NoDebt
  <2> QED
    BY <2>1, <2>2 DEF QuotaInv
<1> QED
  BY <1>1, <1>2, <1>3, <1>4 DEF Processor

\* The invariant holds in every reachable state.
LEMMA Inductive == QuotaSpec => []QuotaInv
<1>1. QuotaInit => QuotaInv
  <2> SUFFICES ASSUME QuotaInit PROVE QuotaInv
    OBVIOUS
  <2>1. GrantedNow = {} /\ DeniedNow = {}
    BY DEF QuotaInit, GrantedNow, DeniedNow
  <2>2. Cardinality(GrantedNow) = 0 /\ Cardinality(DeniedNow) = 0
    BY <2>1, FS_EmptySet
  <2>3. QuotaTypeOK
    <3>1. at \in [Publishers -> {"idle", "add", "granted", "flag", "swap"}]
      BY DEF QuotaInit
    <3>2. currQuota \in Int /\ rejects \in 0 .. MaxRejects
      BY QuotaAssumption DEF QuotaInit
    <3>3. beyondQuota \in BOOLEAN
      BY Zenon DEF QuotaInit
    <3> QED
      BY <3>1, <3>2, <3>3 DEF QuotaInit, QuotaTypeOK
  <2>4. UnitsAccounted /\ NoDebt
    BY <2>2, QuotaAssumption DEF QuotaInit, UnitsAccounted, UnitsTaken, NoDebt
  <2> QED
    BY <2>3, <2>4 DEF QuotaInv
<1>2. QuotaInv /\ [QuotaNext]_quotaVars => QuotaInv'
  <2> SUFFICES ASSUME QuotaInv, [QuotaNext]_quotaVars PROVE QuotaInv'
    OBVIOUS
  <2>1. CASE UNCHANGED quotaVars
    BY <2>1 DEF quotaVars, client, QuotaInv, QuotaTypeOK, UnitsAccounted, UnitsTaken, NoDebt, GrantedNow, DeniedNow
  <2> QED
    BY <2>1, PublisherStep, ProcessorStep DEF QuotaNext
<1> QED
  BY <1>1, <1>2, PTL DEF QuotaSpec

-----------------------------------------------------------------------------
(* What follows *)

\* The types, and the bound on the messages in flight: ReqQuota and AddQuota
\* together let out at most one message too many for every refused one.
THEOREM QuotaKept == QuotaSpec => [](QuotaTypeOK /\ OvercommitBounded)
<1>1. QuotaInv => QuotaTypeOK /\ OvercommitBounded
  BY Counted, QuotaAssumption DEF QuotaInv, QuotaTypeOK, UnitsAccounted, UnitsTaken, OvercommitBounded
<1> QED
  BY <1>1, Inductive, PTL

\* A client that refuses nothing never has more than its Receive Maximum of
\* messages in flight.
THEOREM ReceiveMaximumKept ==
  ASSUME MaxRejects = 0
  PROVE  QuotaSpec => []NeverOvercommitted
<1>1. QuotaInv => NeverOvercommitted
  BY Counted, QuotaAssumption DEF QuotaInv, QuotaTypeOK, UnitsAccounted, UnitsTaken, NeverOvercommitted
<1> QED
  BY <1>1, Inductive, PTL

\* Denied requests leave no debt in the counter (the reset in ReqQuota).
THEOREM DenialsLeaveNoDebt == QuotaSpec => []NoDebt
<1>1. QuotaInv => NoDebt
  BY DEF QuotaInv
<1> QED
  BY <1>1, Inductive, PTL

-----------------------------------------------------------------------------
(* SafeMap, for any goroutines, keys, values and thresholds: the two maps  *)
(* stay disjoint and stand still under a Range, and together with their    *)
(* merges they implement one map.                                          *)

\* A Go map from some of the keys to values.
IsMap(f) == DOMAIN f \subseteq Keys /\ f \in [DOMAIN f -> Vals]
Disjoint(f, g) == DOMAIN f \cap DOMAIN g = {}

-----------------------------------------------------------------------------
(* What storing, deleting and merging do to the union of two maps *)

\* A map with an entry more, ...
LEMMA WithIsMap ==
  ASSUME NEW f, IsMap(f), NEW k \in Keys, NEW v \in Vals
  PROVE  IsMap(With(f, k, v)) /\ DOMAIN With(f, k, v) = DOMAIN f \cup {k}
BY DEF IsMap, With

\* ... one without a key, ...
LEMMA WithoutIsMap ==
  ASSUME NEW f, IsMap(f), NEW k
  PROVE  IsMap(Without(f, k)) /\ DOMAIN Without(f, k) = DOMAIN f \ {k}
BY DEF IsMap, Without

\* ... two maps laid over each other, ...
LEMMA OverIsMap ==
  ASSUME NEW f, IsMap(f), NEW g, IsMap(g)
  PROVE  IsMap(Over(f, g)) /\ DOMAIN Over(f, g) = DOMAIN f \cup DOMAIN g
BY DEF IsMap, Over

\* ... and the empty map are maps.
LEMMA EmptyIsMap == IsMap(Empty) /\ DOMAIN Empty = {}
BY DEF IsMap, Empty

\* A new entry in the first map replaces the one of the second ...
LEMMA StoredInOld ==
  ASSUME NEW f, NEW g, NEW k, NEW v
  PROVE  Over(With(f, k, v), Without(g, k)) = With(Over(f, g), k, v)
BY DEF Over, With, Without

\* ... and the other way round.
LEMMA StoredInNew ==
  ASSUME NEW f, NEW g, NEW k, NEW v
  PROVE  Over(Without(f, k), With(g, k, v)) = With(Over(f, g), k, v)
BY DEF Over, With, Without

\* Deleting in the map that has the key is enough when only one has it.
LEMMA DeletedOnce ==
  ASSUME NEW f, NEW g, IsMap(g), NEW k, Disjoint(f, g)
  PROVE  Over(Without(f, k), IF k \in DOMAIN f THEN g ELSE Without(g, k)) = Without(Over(f, g), k)
BY DEF Over, Without, Disjoint, IsMap

\* A merged map is the union.
LEMMA Merged ==
  ASSUME NEW f, NEW g
  PROVE  Over(Over(f, g), Empty) = Over(f, g)
BY DEF Over, Empty

\* When no key is in both, it does not matter which is laid over which.
LEMMA MergedEitherWay ==
  ASSUME NEW f, NEW g, Disjoint(f, g)
  PROVE  Over(g, f) = Over(f, g)
BY DEF Over, Disjoint

-----------------------------------------------------------------------------
(* The bodies of the methods *)

\* What every body needs to find and has to leave.
DataOK ==
  /\ IsMap(dirtyOld) /\ IsMap(dirtyNew) /\ Disjoint(dirtyOld, dirtyNew)
  /\ deletionOld \in Nat /\ deletionNew \in Nat

Map == Over(dirtyOld, dirtyNew)

\* Lookup is the lookup in the union, and None is no value.
LEMMA LookupValue ==
  ASSUME DataOK, NEW k
  PROVE  /\ Lookup(k) = IF k \in DOMAIN Map THEN Map[k] ELSE None
         /\ Lookup(k) \in Vals \cup {None}
         /\ Lookup(k) = None => k \notin DOMAIN Map
<1>1. DOMAIN Map = DOMAIN dirtyOld \cup DOMAIN dirtyNew
  BY DEF Map, Over
<1> QED BY <1>1, SafeMapAssumption DEF DataOK, IsMap, Lookup, Map, Over

\* Set stores the value in one of the maps, and takes the key out of the other.
LEMMA StoreStores ==
  ASSUME DataOK, NEW k \in Keys, NEW v \in Vals, Store(k, v)
  PROVE  DataOK' /\ Map' = With(Map, k, v)
<1>1. CASE deletionOld <= MaxDeletion
  <2>1. dirtyOld' = With(dirtyOld, k, v) /\ dirtyNew' = Without(dirtyNew, k)
    BY <1>1 DEF Store
  <2>2. IsMap(dirtyOld') /\ IsMap(dirtyNew') /\ Disjoint(dirtyOld', dirtyNew')
    <3>1. IsMap(dirtyOld') /\ DOMAIN dirtyOld' = DOMAIN dirtyOld \cup {k}
      BY <2>1, WithIsMap DEF DataOK
    <3>2. IsMap(dirtyNew') /\ DOMAIN dirtyNew' = DOMAIN dirtyNew \ {k}
      BY <2>1, WithoutIsMap DEF DataOK
    <3> QED BY <3>1, <3>2 DEF DataOK, Disjoint
  <2>3. deletionOld' \in Nat /\ deletionNew' \in Nat
    BY <1>1 DEF Store, DataOK
  <2>4. Map' = With(Map, k, v)
    BY <2>1, StoredInOld DEF Map
  <2> QED BY <2>2, <2>3, <2>4 DEF DataOK
<1>2. CASE ~ (deletionOld <= MaxDeletion)
  <2>1. dirtyNew' = With(dirtyNew, k, v) /\ dirtyOld' = Without(dirtyOld, k)
    BY <1>2 DEF Store
  <2>2. IsMap(dirtyOld') /\ IsMap(dirtyNew') /\ Disjoint(dirtyOld', dirtyNew')
    <3>1. IsMap(dirtyNew') /\ DOMAIN dirtyNew' = DOMAIN dirtyNew \cup {k}
      BY <2>1, WithIsMap DEF DataOK
    <3>2. IsMap(dirtyOld') /\ DOMAIN dirtyOld' = DOMAIN dirtyOld \ {k}
      BY <2>1, WithoutIsMap DEF DataOK
    <3> QED BY <3>1, <3>2 DEF DataOK, Disjoint
  <2>3. deletionOld' \in Nat /\ deletionNew' \in Nat
    BY <1>2 DEF Store, DataOK
  <2>4. Map' = With(Map, k, v)
    BY <2>1, StoredInNew DEF Map
  <2> QED BY <2>2, <2>3, <2>4 DEF DataOK
<1> QED BY <1>1, <1>2

\* A pair of maps with its counters, as del passes it on.
IsPair(s) ==
  /\ s = [old |-> s.old, new |-> s.new, dOld |-> s.dOld, dNew |-> s.dNew]
  /\ IsMap(s.old) /\ IsMap(s.new) /\ Disjoint(s.old, s.new)
  /\ s.dOld \in Nat /\ s.dNew \in Nat

\* The deletion alone takes the key out of the union.
LEMMA DeletePair ==
  ASSUME DataOK, NEW k
  PROVE  LET s == AfterDelete(k) IN IsPair(s) /\ Over(s.old, s.new) = Without(Map, k)
<1> DEFINE s == AfterDelete(k)
<1>0. s = [old |-> s.old, new |-> s.new, dOld |-> s.dOld, dNew |-> s.dNew]
  BY DEF AfterDelete
<1>1. s.old = Without(dirtyOld, k) /\ s.new = IF k \in DOMAIN dirtyOld THEN dirtyNew ELSE Without(dirtyNew, k)
  BY DEF AfterDelete
<1>2. s.dOld \in Nat /\ s.dNew \in Nat
  BY DEF AfterDelete, DataOK
<1>3. IsMap(s.old) /\ IsMap(s.new) /\ Disjoint(s.old, s.new)
  <2>1. IsMap(s.old) /\ DOMAIN s.old = DOMAIN dirtyOld \ {k}
    BY <1>1, WithoutIsMap DEF DataOK
  <2>2. IsMap(s.new) /\ DOMAIN s.new \subseteq DOMAIN dirtyNew
    <3>1. IsMap(dirtyNew) /\ IsMap(Without(dirtyNew, k)) /\ DOMAIN Without(dirtyNew, k) \subseteq DOMAIN dirtyNew
      BY WithoutIsMap DEF DataOK
    <3> HIDE DEF s
    <3> QED BY <1>1, <3>1
  <2> QED BY <2>1, <2>2 DEF DataOK, Disjoint
<1>4. Over(s.old, s.new) = Without(Map, k)
  BY <1>1, DeletedOnce DEF DataOK, Map
<1> QED BY <1>0, <1>2, <1>3, <1>4 DEF IsPair

\* The first merge keeps the pair a pair and its union what it was.
LEMMA FirstMerge ==
  ASSUME NEW s, IsPair(s)
  PROVE  LET t == AfterFirst(s) IN IsPair(t) /\ Over(t.old, t.new) = Over(s.old, s.new)
<1> DEFINE t == AfterFirst(s)
<1>1. CASE s.dOld >= MaxDeletion /\ Cardinality(DOMAIN s.old) < CopyThreshold
  <2>1. t.old = Over(s.old, s.new) /\ t.new = Empty /\ t.dOld = s.dNew /\ t.dNew = 0
    BY <1>1 DEF AfterFirst
  <2>2. IsPair(t)
    <3>0. IsMap(Over(s.old, s.new))
      BY OverIsMap DEF IsPair
    <3>1. IsMap(t.old) /\ IsMap(t.new) /\ DOMAIN t.new = {}
      BY <2>1, <3>0, EmptyIsMap
    <3>2. t = [old |-> t.old, new |-> t.new, dOld |-> t.dOld, dNew |-> t.dNew]
      BY <1>1 DEF AfterFirst
    <3> HIDE DEF t
    <3> QED BY <2>1, <3>1, <3>2 DEF IsPair, Disjoint
  <2> QED BY <2>1, <2>2, Merged
<1>2. CASE ~ (s.dOld >= MaxDeletion /\ Cardinality(DOMAIN s.old) < CopyThreshold)
  BY <1>2 DEF AfterFirst
<1> QED BY <1>1, <1>2

\* So does the second, because the two maps are disjoint.
LEMMA SecondMerge ==
  ASSUME NEW s, IsPair(s)
  PROVE  LET t == AfterSecond(s) IN IsPair(t) /\ Over(t.old, t.new) = Over(s.old, s.new)
<1> DEFINE t == AfterSecond(s)
<1>1. CASE s.dNew >= MaxDeletion /\ Cardinality(DOMAIN s.new) < CopyThreshold
  <2>1. t = [old |-> Over(s.new, s.old), new |-> Empty, dOld |-> s.dOld, dNew |-> 0]
    <3>1. t = [s EXCEPT !.old = Over(s.new, s.old), !.new = Empty, !.dNew = 0]
      BY <1>1 DEF AfterSecond
    <3> QED BY <3>1 DEF IsPair
  <2>2. IsPair(t)
    <3>0. IsMap(Over(s.new, s.old))
      BY OverIsMap DEF IsPair
    <3>1. IsMap(t.old) /\ IsMap(t.new) /\ DOMAIN t.new = {}
      BY <2>1, <3>0, EmptyIsMap
    <3> HIDE DEF t
    <3> QED BY <2>1, <3>1 DEF IsPair, Disjoint
  <2>3. Over(t.old, t.new) = Over(s.new, s.old)
    BY <2>1, Merged
  <2>4. Over(s.new, s.old) = Over(s.old, s.new)
    BY MergedEitherWay DEF IsPair
  <2> QED BY <2>2, <2>3, <2>4
<1>2. CASE ~ (s.dNew >= MaxDeletion /\ Cardinality(DOMAIN s.new) < CopyThreshold)
  BY <1>2 DEF AfterSecond
<1> QED BY <1>1, <1>2

\* Del removes the key from the union and nothing else, whichever merges it
\* sets off.
LEMMA DeleteDeletes ==
  ASSUME DataOK, NEW k, Delete(k)
  PROVE  DataOK' /\ Map' = Without(Map, k)
<1> DEFINE s == AfterDelete(k)
           t == AfterFirst(s)
           u == AfterSecond(t)
<1>1. IsPair(s) /\ Over(s.old, s.new) = Without(Map, k)
  BY DeletePair
<1>2. IsPair(t) /\ Over(t.old, t.new) = Over(s.old, s.new)
  BY <1>1, FirstMerge
<1>3. IsPair(u) /\ Over(u.old, u.new) = Over(t.old, t.new)
  BY <1>2, SecondMerge
<1>4. /\ dirtyOld' = u.old /\ dirtyNew' = u.new
      /\ deletionOld' = u.dOld /\ deletionNew' = u.dNew
  BY DEF Delete
<1> HIDE DEF s, t, u
<1> QED BY <1>1, <1>2, <1>3, <1>4 DEF IsPair, DataOK, Map

-----------------------------------------------------------------------------
(* The inductive invariant *)

\* The arguments a goroutine was called with, and who holds the read lock.
\* Without the second part a writer could run while a Range is under way.
CallsOK ==
  \A g \in Goroutines :
    /\ stage[g] \in {"called", "locks"} =>
         call[g].key \in KeysOf(call[g].op) /\ call[g].val \in ValsOf(call[g].op)
    /\ stage[g] = "called" => call[g].op \in Ops
    /\ stage[g] = "locks" => call[g].op = "GetOrSet"
    /\ stage[g] = "ranges" <=> g \in readers

IInv == MapsSound /\ CallsOK

\* The maps are well formed in every state of the invariant.
LEMMA DataIsOK == ASSUME IInv PROVE DataOK
BY DEF IInv, MapsSound, MapTypeOK, OneHome, DataOK, IsMap, Disjoint

\* The arguments of a goroutine whose call runs.
LEMMA Arguments ==
  ASSUME IInv, NEW g \in Goroutines, stage[g] \in {"called", "locks"}
  PROVE  /\ call[g].op \notin {"Range", "Shutdown"} => call[g].key \in Keys
         /\ call[g].op \in {"Set", "GetOrSet"} => call[g].val \in Vals
BY DEF IInv, CallsOK, KeysOf, ValsOf, Walks

\* The invariant holds of the empty map.
LEMMA MapInitInv == MapInit => IInv
<1> SUFFICES ASSUME MapInit PROVE IInv
  OBVIOUS
<1>1. MapTypeOK
  BY EmptyIsMap DEF MapInit, MapTypeOK, NoCall, IsMap
<1>2. OneHome /\ RangeStable /\ CallsOK
  BY EmptyIsMap DEF MapInit, OneHome, RangeStable, CallsOK
<1> QED BY <1>1, <1>2 DEF IInv, MapsSound

\* A call that returns leaves the goroutine idle; the rest of the control
\* state keeps its types.
LEMMA ReturnKeeps ==
  ASSUME IInv, NEW g \in Goroutines, NEW v \in Vals \cup {None}, Return(g, v),
         UNCHANGED todo, readers' = readers \ {g}, writer' \in Goroutines \cup {None},
         DataOK', (DOMAIN Map \subseteq DOMAIN Map') \/ readers' = {}
  PROVE  IInv'
<1>1. /\ stage' = [stage EXCEPT ![g] = "idle"] /\ call' = [call EXCEPT ![g] = NoCall]
      /\ ret' = [ret EXCEPT ![g] = v]
  BY DEF Return, Goto
<1>2. MapTypeOK'
  BY <1>1 DEF IInv, MapsSound, MapTypeOK, NoCall, DataOK, IsMap
<1>3. OneHome'
  BY DEF OneHome, DataOK, Disjoint
<1>4. CallsOK'
  BY <1>1 DEF IInv, MapsSound, MapTypeOK, CallsOK
<1>5. RangeStable'
  <2> SUFFICES ASSUME NEW h \in Goroutines, stage'[h] = "ranges"
               PROVE  todo'[h] \subseteq DOMAIN dirtyOld' \cup DOMAIN dirtyNew'
    BY DEF RangeStable
  <2>1. h # g /\ stage[h] = "ranges" /\ h \in readers'
    BY <1>1, <1>4 DEF IInv, MapsSound, MapTypeOK, CallsOK
  <2>2. todo[h] \subseteq DOMAIN Map
    BY <2>1 DEF IInv, MapsSound, RangeStable, Map, Over
  <2>3. DOMAIN Map \subseteq DOMAIN Map'
    BY <2>1
  <2> QED BY <2>2, <2>3 DEF Map, Over
<1> QED BY <1>2, <1>3, <1>4, <1>5 DEF IInv, MapsSound

\* A goroutine that is not inside Range does not hold the read lock.
LEMMA NotReading ==
  ASSUME IInv, NEW g \in Goroutines, stage[g] # "ranges"
  PROVE  readers \ {g} = readers
BY DEF IInv, CallsOK

\* Calling a method preserves it, ...
LEMMA StartKeeps ==
  ASSUME IInv, NEW g \in Goroutines, Start(g)
  PROVE  IInv'
<1> PICK o \in Ops : \E k \in KeysOf(o), v \in ValsOf(o) :
       call' = [call EXCEPT ![g] = [op |-> o, key |-> k, val |-> v]]
  BY DEF Start
<1> PICK k \in KeysOf(o), v \in ValsOf(o) :
       call' = [call EXCEPT ![g] = [op |-> o, key |-> k, val |-> v]]
  OBVIOUS
<1>1. k \in Keys \cup {None} /\ v \in Vals \cup {None}
  BY DEF KeysOf, ValsOf
<1>2. stage' = [stage EXCEPT ![g] = "called"] /\ stage[g] = "idle" /\ UNCHANGED <<data, writer, readers, todo, ret>>
  BY DEF Start, Goto
<1>3. MapTypeOK'
  BY <1>1, <1>2 DEF IInv, MapsSound, MapTypeOK, data
<1>4. OneHome' /\ RangeStable'
  BY <1>2 DEF IInv, MapsSound, MapTypeOK, OneHome, RangeStable, data
<1>5. CallsOK'
  BY <1>2 DEF IInv, MapsSound, MapTypeOK, CallsOK
<1> QED BY <1>3, <1>4, <1>5 DEF IInv, MapsSound

\* ... and so do the two locks of GetOrSet ...
LEMMA GetOrSetKeeps ==
  ASSUME IInv, NEW g \in Goroutines,
         GetOrSetLooks(g) \/ GetOrSetFinds(g) \/ GetOrSetStores(g)
  PROVE  IInv'
<1>0. DataOK
  BY DataIsOK
<1>1. CASE GetOrSetLooks(g)
  <2>1. CASE Lookup(call[g].key) # None
    <3>1. Return(g, Lookup(call[g].key)) /\ UNCHANGED <<data, writer, readers, todo>> /\ stage[g] = "called"
      BY <1>1, <2>1 DEF GetOrSetLooks
    <3>2. DataOK' /\ Map' = Map
      BY <1>0, <3>1 DEF DataOK, Map, data
    <3> QED BY <1>0, <3>1, <3>2, LookupValue, NotReading, ReturnKeeps DEF IInv, MapsSound, MapTypeOK
  <2>2. CASE Lookup(call[g].key) = None
    <3>1. /\ stage' = [stage EXCEPT ![g] = "locks"] /\ UNCHANGED <<call, ret, data, writer, readers, todo>>
          /\ stage[g] = "called" /\ call[g].op = "GetOrSet"
      BY <1>1, <2>2 DEF GetOrSetLooks, Goto
    <3>2. MapTypeOK' /\ OneHome' /\ RangeStable'
      BY <3>1 DEF IInv, MapsSound, MapTypeOK, OneHome, RangeStable, data
    <3>3. CallsOK'
      BY <3>1 DEF IInv, MapsSound, MapTypeOK, CallsOK
    <3> QED BY <3>2, <3>3 DEF IInv, MapsSound
  <2> QED BY <2>1, <2>2
<1>2. CASE GetOrSetFinds(g)
  <2>1. /\ Return(g, Lookup(call[g].key)) /\ UNCHANGED <<data, readers, todo>> /\ stage[g] = "locks"
        /\ writer' = g
    BY <1>2 DEF GetOrSetFinds
  <2>2. DataOK' /\ Map' = Map
    BY <1>0, <2>1 DEF DataOK, Map, data
  <2> QED BY <1>0, <2>1, <2>2, LookupValue, NotReading, ReturnKeeps
<1>3. CASE GetOrSetStores(g)
  <2>1. /\ Return(g, call[g].val) /\ UNCHANGED <<writer, readers, todo>> /\ stage[g] = "locks"
        /\ readers = {} /\ Store(call[g].key, call[g].val)
    BY <1>3 DEF GetOrSetStores, CanWrite
  <2>2. call[g].key \in Keys /\ call[g].val \in Vals
    BY <2>1, Arguments DEF IInv, CallsOK
  <2>3. DataOK'
    BY <1>0, <2>1, <2>2, StoreStores
  <2> QED BY <2>1, <2>2, <2>3, ReturnKeeps DEF IInv, MapsSound, MapTypeOK
<1> QED BY <1>1, <1>2, <1>3

\* ... and the callbacks of Range.
LEMMA RangeKeeps ==
  ASSUME IInv, NEW g \in Goroutines,
         RangeStarts(g) \/ (\E k \in Keys : RangeVisits(g, k)) \/ RangeEnds(g)
  PROVE  IInv'
<1>1. CASE RangeStarts(g)
  <2>1. /\ stage' = [stage EXCEPT ![g] = "ranges"] /\ UNCHANGED <<data, writer, call, ret>>
        /\ readers' = readers \cup {g} /\ stage[g] = "called"
        /\ todo' = [todo EXCEPT ![g] = DOMAIN dirtyOld \cup DOMAIN dirtyNew]
    BY <1>1 DEF RangeStarts, Goto
  <2>2. MapTypeOK' /\ OneHome'
    BY <2>1 DEF IInv, MapsSound, MapTypeOK, OneHome, data
  <2>3. RangeStable'
    BY <2>1 DEF IInv, MapsSound, MapTypeOK, RangeStable, data
  <2>4. CallsOK'
    BY <2>1 DEF IInv, MapsSound, MapTypeOK, CallsOK
  <2> QED BY <2>2, <2>3, <2>4 DEF IInv, MapsSound
<1>2. ASSUME NEW k \in Keys, RangeVisits(g, k)
      PROVE  IInv'
  <2>1. /\ todo' = [todo EXCEPT ![g] = @ \ {k}] /\ UNCHANGED <<writer, readers, stage, call, ret>>
        /\ stage[g] = "ranges"
    BY <1>2 DEF RangeVisits
  <2>2. UNCHANGED data
    BY <1>2, <2>1 DEF RangeVisits, CanWrite, IInv, CallsOK
  <2>3. MapTypeOK' /\ OneHome'
    BY <2>1, <2>2 DEF IInv, MapsSound, MapTypeOK, OneHome, data
  <2>4. RangeStable'
    BY <2>1, <2>2 DEF IInv, MapsSound, MapTypeOK, RangeStable, data
  <2>5. CallsOK'
    BY <2>1 DEF IInv, CallsOK
  <2> QED BY <2>3, <2>4, <2>5 DEF IInv, MapsSound
<1>3. CASE RangeEnds(g)
  <2>1. Return(g, None) /\ UNCHANGED <<data, writer, todo>> /\ readers' = readers \ {g}
    BY <1>3 DEF RangeEnds
  <2>2. DataOK' /\ Map' = Map
    BY <2>1, DataIsOK DEF DataOK, Map, data
  <2> QED BY <2>1, <2>2, ReturnKeeps DEF IInv, MapsSound, MapTypeOK
<1> QED BY <1>1, <1>2, <1>3

\* Every step preserves the invariant.
LEMMA MapNextInv == IInv /\ [MapNext]_mapVars => IInv'
<1> SUFFICES ASSUME IInv, [MapNext]_mapVars PROVE IInv'
  OBVIOUS
<1>0. DataOK
  BY DataIsOK
<1>1. ASSUME NEW g \in Goroutines, Start(g) PROVE IInv'
  BY <1>1, StartKeeps
<1>2. ASSUME NEW g \in Goroutines, Get(g) PROVE IInv'
  <2>1. Return(g, Lookup(call[g].key)) /\ UNCHANGED <<data, writer, readers, todo>> /\ stage[g] = "called"
    BY <1>2 DEF Get
  <2>2. DataOK' /\ Map' = Map
    BY <1>0, <2>1 DEF DataOK, Map, data
  <2> QED BY <1>0, <2>1, <2>2, LookupValue, NotReading, ReturnKeeps DEF IInv, MapsSound, MapTypeOK
<1>3. ASSUME NEW g \in Goroutines, Set(g) PROVE IInv'
  <2>1. /\ Return(g, None) /\ UNCHANGED <<writer, readers, todo>> /\ stage[g] = "called" /\ call[g].op = "Set"
        /\ readers = {} /\ Store(call[g].key, call[g].val)
    BY <1>3 DEF Set, CanWrite
  <2>2. DataOK'
    BY <1>0, <2>1, Arguments, StoreStores
  <2> QED BY <2>1, <2>2, ReturnKeeps DEF IInv, MapsSound, MapTypeOK
<1>4. ASSUME NEW g \in Goroutines, Del(g) PROVE IInv'
  <2>1. /\ Return(g, Lookup(call[g].key)) /\ UNCHANGED <<writer, readers, todo>> /\ stage[g] = "called"
        /\ readers = {} /\ Delete(call[g].key)
    BY <1>4 DEF Del, CanWrite
  <2>2. DataOK'
    BY <1>0, <2>1, DeleteDeletes
  <2> QED BY <1>0, <2>1, <2>2, LookupValue, ReturnKeeps DEF IInv, MapsSound, MapTypeOK
<1>5. ASSUME NEW g \in Goroutines, GetOrSetLooks(g) \/ GetOrSetFinds(g) \/ GetOrSetStores(g)
      PROVE  IInv'
  BY <1>5, GetOrSetKeeps
<1>6. ASSUME NEW g \in Goroutines,
             RangeStarts(g) \/ (\E k \in Keys : RangeVisits(g, k)) \/ RangeEnds(g)
      PROVE  IInv'
  BY <1>6, RangeKeeps
<1>7. CASE UNCHANGED mapVars
  BY <1>7 DEF mapVars, data, IInv, MapsSound, MapTypeOK, OneHome, RangeStable, CallsOK
<1> QED BY <1>1, <1>2, <1>3, <1>4, <1>5, <1>6, <1>7 DEF MapNext, Runs

\* The state of the map is sound through every interleaving of its methods: a
\* key lives in one of the two maps, so that no stale value comes back with a
\* merge, and nothing Range has yet to visit disappears.
THEOREM SoundMaps == MapSpec => []MapsSound
<1>1. IInv => MapsSound
  BY DEF IInv
<1> QED BY <1>1, MapInitInv, MapNextInv, PTL DEF MapSpec

-----------------------------------------------------------------------------
(* Refinement: the union of the two maps is the one map. *)

\* Set puts the value into the one map, ...
LEMMA StoreRefines ==
  ASSUME DataOK, NEW g \in Goroutines, NEW k \in Keys, NEW v \in Vals, Store(k, v), ret' = [ret EXCEPT ![g] = None]
  PROVE  Abstract!Put(g, k, v)
<1>1. Map' = With(Map, k, v)
  BY StoreStores
<1> QED BY <1>1 DEF Abstract!Put, Abstract!With, Abstract!Returns, Map, With

\* ... and a look reads it there.
LEMMA LookupRefines ==
  ASSUME DataOK, NEW g \in Goroutines, NEW k \in Keys, UNCHANGED data, ret' = [ret EXCEPT ![g] = Lookup(k)]
  PROVE  Abstract!Lookup(g, k)
<1>1. Lookup(k) = IF k \in DOMAIN Map THEN Map[k] ELSE None
  BY LookupValue
<1> QED BY <1>1 DEF Abstract!Lookup, Abstract!ValueAt, Abstract!Returns, Map, data

\* Every step of the code is a step of the one map or leaves it alone.
LEMMA StepRefines ==
  ASSUME IInv, [MapNext]_mapVars
  PROVE  Abstract!Next \/ UNCHANGED <<Map, ret>>
<1>0. DataOK
  BY DataIsOK
<1>1. ASSUME NEW g \in Goroutines, Start(g) PROVE UNCHANGED <<Map, ret>>
  BY <1>1 DEF Start, data, Map
<1>2. ASSUME NEW g \in Goroutines, Get(g) PROVE Abstract!Next
  <2>1. call[g].key \in Keys
    BY <1>2, Arguments DEF Get
  <2>2. Abstract!Lookup(g, call[g].key)
    BY <1>0, <1>2, <2>1, LookupRefines DEF Get, Return
  <2> QED BY <2>1, <2>2 DEF Abstract!Next
<1>3. ASSUME NEW g \in Goroutines, Set(g) PROVE Abstract!Next
  <2>1. call[g].key \in Keys /\ call[g].val \in Vals
    BY <1>3, Arguments DEF Set
  <2>2. Abstract!Put(g, call[g].key, call[g].val)
    BY <1>0, <1>3, <2>1, StoreRefines DEF Set, Return
  <2> QED BY <2>1, <2>2 DEF Abstract!Next
<1>4. ASSUME NEW g \in Goroutines, Del(g) PROVE Abstract!Next
  <2>1. call[g].key \in Keys
    BY <1>4, Arguments DEF Del
  <2>2. Map' = Without(Map, call[g].key)
    BY <1>0, <1>4, DeleteDeletes DEF Del
  <2>3. Lookup(call[g].key) = IF call[g].key \in DOMAIN Map THEN Map[call[g].key] ELSE None
    BY <1>0, LookupValue
  <2>4. Abstract!Remove(g, call[g].key)
    BY <1>4, <2>2, <2>3
       DEF Del, Return, Abstract!Remove, Abstract!Without, Abstract!ValueAt, Abstract!Returns, Map, Without
  <2> QED BY <2>1, <2>4 DEF Abstract!Next
<1>5. ASSUME NEW g \in Goroutines, GetOrSetLooks(g) PROVE Abstract!Next \/ UNCHANGED <<Map, ret>>
  <2>1. call[g].key \in Keys
    BY <1>5, Arguments DEF GetOrSetLooks
  <2>2. CASE Lookup(call[g].key) # None
    <3>1. Abstract!Lookup(g, call[g].key)
      BY <1>0, <1>5, <2>1, <2>2, LookupRefines DEF GetOrSetLooks, Return
    <3> QED BY <2>1, <3>1 DEF Abstract!Next
  <2>3. CASE Lookup(call[g].key) = None
    BY <1>5, <2>3 DEF GetOrSetLooks, data, Map
  <2> QED BY <2>2, <2>3
<1>6. ASSUME NEW g \in Goroutines, GetOrSetFinds(g) PROVE Abstract!Next
  <2>1. call[g].key \in Keys
    BY <1>6, Arguments DEF GetOrSetFinds, IInv, CallsOK
  <2>2. Abstract!Lookup(g, call[g].key)
    BY <1>0, <1>6, <2>1, LookupRefines DEF GetOrSetFinds, Return
  <2> QED BY <2>1, <2>2 DEF Abstract!Next
<1>7. ASSUME NEW g \in Goroutines, GetOrSetStores(g) PROVE Abstract!Next
  <2>1. call[g].key \in Keys /\ call[g].val \in Vals
    BY <1>7, Arguments DEF GetOrSetStores, IInv, CallsOK
  <2>2. Map' = With(Map, call[g].key, call[g].val)
    BY <1>0, <1>7, <2>1, StoreStores DEF GetOrSetStores
  <2>3. call[g].key \notin DOMAIN Map
    BY <1>0, <1>7, LookupValue DEF GetOrSetStores
  <2>4. Abstract!PutIfAbsent(g, call[g].key, call[g].val)
    BY <1>7, <2>2, <2>3
       DEF GetOrSetStores, Return, Abstract!PutIfAbsent, Abstract!With, Abstract!Returns, Map, With
  <2> QED BY <2>1, <2>4 DEF Abstract!Next
<1>8. ASSUME NEW g \in Goroutines, RangeStarts(g) PROVE UNCHANGED <<Map, ret>>
  BY <1>8 DEF RangeStarts, data, Map
<1>9. ASSUME NEW g \in Goroutines, NEW k \in Keys, RangeVisits(g, k) PROVE UNCHANGED <<Map, ret>>
  BY <1>9 DEF RangeVisits, CanWrite, IInv, CallsOK, data, Map
<1>10. ASSUME NEW g \in Goroutines, RangeEnds(g) PROVE Abstract!Next
  <2>1. Abstract!Walk(g)
    BY <1>10 DEF RangeEnds, Return, Abstract!Walk, Abstract!Returns, data
  <2> QED BY <2>1 DEF Abstract!Next
<1>11. CASE UNCHANGED mapVars
  BY <1>11 DEF mapVars, data, Map
<1> QED BY <1>1, <1>2, <1>3, <1>4, <1>5, <1>6, <1>7, <1>8, <1>9, <1>10, <1>11 DEF MapNext, Runs

\* To its callers the pair of maps with its counters and merges is one map:
\* every Get, Set, Del, GetOrSet and Range answers and acts as it would on it.
THEOREM ImplementsOneMap == MapSpec => ImplementsMap
<1>1. MapInit => Abstract!Init
  BY DEF MapInit, Abstract!Init, Over, Empty
<1>2. IInv /\ [MapNext]_mapVars => [Abstract!Next]_<<Map, ret>>
  BY StepRefines
<1> QED BY <1>1, <1>2, MapInitInv, MapNextInv, PTL DEF MapSpec, ImplementsMap, Abstract!Spec, Map
=============================================================================
