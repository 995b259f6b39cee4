--------------------------- MODULE AckQueueProofs ---------------------------
(***************************************************************************)
(* Proofs about AckQueue, for every initial size, every set of packet      *)
(* identifiers and messages and any number of growths.                     *)
(*                                                                         *)
(* TypeOK is not inductive alone: the slot that Insert overwrites must be  *)
(* free, and the index that Ack takes from the map must hold an entry.     *)
(* Both follow from RingConsistent and MapConsistent, which need each      *)
(* other; the inductive invariant is the conjunction of the three.         *)
(***************************************************************************)
EXTENDS AckQueue, TLAPS

IInv == TypeOK /\ RingConsistent /\ MapConsistent

\* The masked index of a number below twice the size wraps at most once.
LEMMA ModWrap ==
  ASSUME NEW n \in Nat, NEW s \in Nat, s > 0, n < 2 * s
  PROVE  n % s = IF n < s THEN n ELSE n - s
<1>1. CASE n < s
  BY <1>1
<1>2. CASE n >= s
  <2>1. n - s \in 0 .. s - 1
    BY <1>2
  <2>2. n = s * 1 + (n - s)
    BY <1>2
  <2>3. n % s = n - s
    BY <2>1, <2>2
  <2> QED BY <2>3, <1>2
<1> QED BY <1>1, <1>2

\* One increment of an index of the ring.
LEMMA Increment ==
  ASSUME NEW s \in Nat \ {0}, NEW x \in 0 .. s - 1
  PROVE  (x + 1) % s = IF x + 1 < s THEN x + 1 ELSE x + 1 - s
<1>1. PICK n \in Nat : n = x + 1
  OBVIOUS
<1>2. s \in Nat /\ s > 0 /\ n < 2 * s
  BY <1>1
<1>3. n % s = IF n < s THEN n ELSE n - s
  BY <1>2, ModWrap
<1>4. (x + 1) % s = IF n < s THEN n ELSE n - s
  BY <1>1, <1>3, Zenon
<1> QED BY <1>1, <1>4

\* The k-th slot from the head, with the wrap-around made explicit.
LEMMA SlotValue ==
  ASSUME TypeOK, NEW k \in 0 .. size
  PROVE  /\ Slot(k) = IF head + k < size THEN head + k ELSE head + k - size
         /\ Slot(k) \in 0 .. size - 1
<1>1. head + k \in Nat /\ size \in Nat /\ size > 0 /\ head + k < 2 * size
  BY DEF TypeOK
<1>2. PICK n \in Nat : n = head + k
  BY <1>1
<1>3. n < 2 * size
  BY <1>1, <1>2
<1>4. n % size = IF n < size THEN n ELSE n - size
  BY <1>1, <1>3, ModWrap
<1>5. Slot(k) = IF n < size THEN n ELSE n - size
  BY <1>2, <1>4, Zenon DEF Slot, index
<1> QED BY <1>1, <1>2, <1>5 DEF TypeOK

\* What grow() leaves behind: the entries, oldest first, from index 0 on, the
\* rest of the ring free, and a map that is exact for the new indices.
LEMMA GrowKeepsEntries ==
  ASSUME IInv, full
  PROVE  /\ GrownRing \in [0 .. 2 * size - 1 -> Entries \cup {NoEntry}]
         /\ \A i \in 0 .. count - 1 : GrownRing[i] = ring[Slot(i)]
         /\ \A i \in 0 .. count - 1 : GrownRing[i] \in Entries
         /\ \A i \in count .. 2 * size - 1 : GrownRing[i] = NoEntry
         /\ MapOf(GrownRing, count) \in [DOMAIN emap -> 0 .. count - 1]
         /\ \A p \in DOMAIN emap : GrownRing[MapOf(GrownRing, count)[p]].pid = p
         /\ \A i \in 0 .. count - 1 : /\ GrownRing[i].pid \in DOMAIN emap
                                      /\ MapOf(GrownRing, count)[GrownRing[i].pid] = i
<1> DEFINE G == GrownRing
<1>0. count = size /\ tail = head /\ (\A i \in 0 .. size - 1 : Live(i))
  BY DEF IInv, TypeOK, full, RingConsistent, Live
<1>1. \A i \in 0 .. size - 1 : ring[i] \in Entries
  BY <1>0 DEF IInv, TypeOK, RingConsistent
<1>2. GrownRing = [i \in 0 .. 2 * size - 1 |->
                     IF i < size - head THEN ring[head + i]
                     ELSE IF i < size THEN ring[i - (size - head)] ELSE NoEntry]
  BY <1>0 DEF GrownRing, IInv, TypeOK
<1>3. \A i \in 0 .. size - 1 :
        G[i] = ring[IF head + i < size THEN head + i ELSE head + i - size]
  <2> TAKE i \in 0 .. size - 1
  <2>1. i \in 0 .. 2 * size - 1
    BY DEF IInv, TypeOK
  <2>2. G[i] = IF i < size - head THEN ring[head + i]
               ELSE IF i < size THEN ring[i - (size - head)] ELSE NoEntry
    BY <1>2, <2>1
  <2> QED BY <2>2 DEF IInv, TypeOK
<1>4. \A i \in 0 .. size - 1 : G[i] = ring[Slot(i)] /\ G[i] \in Entries
  <2> TAKE i \in 0 .. size - 1
  <2>1. Slot(i) = (IF head + i < size THEN head + i ELSE head + i - size)
        /\ Slot(i) \in 0 .. size - 1
    BY SlotValue DEF IInv, TypeOK
  <2> QED BY <2>1, <1>3, <1>1
<1>5. \A i \in size .. 2 * size - 1 : G[i] = NoEntry
  BY <1>2 DEF IInv, TypeOK
<1>6. G \in [0 .. 2 * size - 1 -> Entries \cup {NoEntry}]
  <2>1. \A i \in 0 .. 2 * size - 1 : G[i] \in Entries \cup {NoEntry}
    BY <1>4, <1>5 DEF IInv, TypeOK
  <2> QED BY <1>2, <2>1
<1>7. \A i, j \in 0 .. size - 1 : G[i].pid = G[j].pid => i = j
  <2> TAKE i, j \in 0 .. size - 1
  <2>1. HAVE G[i].pid = G[j].pid
  <2>2. /\ Slot(i) = (IF head + i < size THEN head + i ELSE head + i - size)
        /\ Slot(i) \in 0 .. size - 1
        /\ Slot(j) = (IF head + j < size THEN head + j ELSE head + j - size)
        /\ Slot(j) \in 0 .. size - 1
    BY SlotValue, SMTT(30) DEF IInv, TypeOK
  <2>3. ring[Slot(i)].pid = ring[Slot(j)].pid
    BY <2>1, <1>4
  <2>4. Slot(i) = Slot(j)
    BY <2>2, <2>3, <1>0 DEF IInv, MapConsistent
  <2> QED BY <2>2, <2>4, SMTT(30) DEF IInv, TypeOK
<1>8. {G[i].pid : i \in 0 .. count - 1} = DOMAIN emap
  <2>1. \A i \in 0 .. size - 1 : G[i].pid \in DOMAIN emap
    <3> TAKE i \in 0 .. size - 1
    <3>1. Slot(i) \in 0 .. size - 1
      BY SlotValue DEF IInv, TypeOK
    <3> QED BY <3>1, <1>0, <1>4 DEF IInv, MapConsistent
  <2>2. ASSUME NEW p \in DOMAIN emap
        PROVE  \E i \in 0 .. size - 1 : G[i].pid = p
    <3> DEFINE e == emap[p]
               k == IF head <= e THEN e - head ELSE e - head + size
    <3>1. e \in 0 .. size - 1 /\ ring[e].pid = p
      BY <2>2 DEF IInv, TypeOK, MapConsistent
    <3>2. k \in 0 .. size - 1 /\ e = IF head + k < size THEN head + k ELSE head + k - size
      BY <3>1 DEF IInv, TypeOK
    <3>3. G[k].pid = p
      BY <3>1, <3>2, <1>3
    <3> QED BY <3>2, <3>3
  <2> QED BY <1>0, <2>1, <2>2
<1>9. \A p \in DOMAIN emap : \E i \in 0 .. count - 1 :
         G[i].pid = p /\ \A j \in i + 1 .. count - 1 : G[j].pid # p
  <2> TAKE p \in DOMAIN emap
  <2>1. PICK i \in 0 .. count - 1 : G[i].pid = p
    BY <1>8
  <2>2. \A j \in i + 1 .. count - 1 : G[j].pid # p
    BY <2>1, <1>7, <1>0 DEF IInv, TypeOK
  <2> QED BY <2>1, <2>2
<1> DEFINE M == MapOf(GrownRing, count)
<1>10. M = [p \in DOMAIN emap |->
              CHOOSE i \in 0 .. count - 1 :
                G[i].pid = p /\ \A j \in i + 1 .. count - 1 : G[j].pid # p]
  BY <1>8 DEF MapOf
<1>11. \A p \in DOMAIN emap : M[p] \in 0 .. count - 1 /\ G[M[p]].pid = p
  <2> TAKE p \in DOMAIN emap
  <2>1. M[p] = CHOOSE i \in 0 .. count - 1 :
                G[i].pid = p /\ \A j \in i + 1 .. count - 1 : G[j].pid # p
    BY <1>10
  <2> HIDE DEF M, G
  <2> QED BY <2>1, <1>9
<1>12. \A i \in 0 .. count - 1 : G[i].pid \in DOMAIN emap /\ M[G[i].pid] = i
  <2> HIDE DEF M, G
  <2> QED BY <1>8, <1>11, <1>7, <1>0
<1>13. M \in [DOMAIN emap -> 0 .. count - 1]
  <2> HIDE DEF G
  <2>1. M = [p \in DOMAIN emap |-> M[p]]
    BY <1>10
  <2> HIDE DEF M
  <2> QED BY <2>1, <1>11
<1> HIDE DEF G, M
<1>14. (\A i \in 0 .. count - 1 : G[i] = ring[Slot(i)] /\ G[i] \in Entries)
       /\ (\A i \in count .. 2 * size - 1 : G[i] = NoEntry)
  BY <1>0, <1>4, <1>5
<1> QED BY <1>6, <1>11, <1>12, <1>13, <1>14 DEF G, M

-----------------------------------------------------------------------------
LEMMA InitInv == Init => IInv
<1> SUFFICES ASSUME Init PROVE IInv
  OBVIOUS
<1>1. TypeOK
  BY SizeAssumption DEF Init, TypeOK, PingStates
<1>2. RingConsistent /\ MapConsistent
  BY SizeAssumption DEF Init, RingConsistent, MapConsistent, Live
<1> QED BY <1>1, <1>2 DEF IInv

\* Wait keeps the invariant: the entry goes to a free slot, after a grow
\* that keeps the order when the ring is full.
LEMMA InsertInv ==
  ASSUME IInv, NEW t \in WaitTypes, NEW p \in Pids, NEW m \in Msgs,
         NEW e \in BOOLEAN, Wait(t, p, m, e)
  PROVE  IInv'
<1> DEFINE r  == IF full THEN GrownRing ELSE ring
           h  == IF full THEN 0 ELSE head
           tl == IF full THEN count ELSE tail
           sz == IF full THEN 2 * size ELSE size
           em == IF full THEN MapOf(GrownRing, count) ELSE emap
           lv(i) == IF h + count <= sz THEN h <= i /\ i < h + count
                    ELSE h <= i \/ i < h + count - sz
           ne == NewEntry(t, p, m)
<1>1. /\ sz \in Nat \ {0} /\ count \in Nat /\ count < sz /\ h \in 0 .. sz - 1
      /\ tl = IF h + count < sz THEN h + count ELSE h + count - sz
      /\ r \in [0 .. sz - 1 -> Entries \cup {NoEntry}]
      /\ DOMAIN em \subseteq Pids /\ em \in [DOMAIN em -> 0 .. sz - 1]
  <2>1. CASE full
    <3>1. /\ count = size /\ h = 0 /\ sz = 2 * size /\ r = GrownRing
          /\ tl = count /\ size \in Nat \ {0} /\ em = MapOf(GrownRing, count)
          /\ DOMAIN emap \subseteq Pids
      BY <2>1 DEF full, IInv, TypeOK
    <3>2. /\ r \in [0 .. 2 * size - 1 -> Entries \cup {NoEntry}]
          /\ em \in [DOMAIN emap -> 0 .. count - 1]
      BY <2>1, <3>1, GrowKeepsEntries
    <3> HIDE DEF r, h, tl, sz, em
    <3> QED BY <3>1, <3>2
  <2>2. CASE ~ full
    BY <2>2 DEF IInv, TypeOK, full, RingConsistent
  <2> QED BY <2>1, <2>2
<1>2. \A i \in 0 .. sz - 1 : lv(i) <=> r[i] # NoEntry
  <2>1. CASE full
    <3>1. count = size /\ h = 0 /\ sz = 2 * size /\ r = GrownRing /\ size \in Nat \ {0}
      BY <2>1 DEF full, IInv, TypeOK
    <3>2. /\ \A i \in 0 .. count - 1 : GrownRing[i] \in Entries
          /\ \A i \in count .. 2 * size - 1 : GrownRing[i] = NoEntry
      BY <2>1, GrowKeepsEntries
    <3> HIDE DEF r, h, sz
    <3> QED BY <3>1, <3>2, SizeAssumption
  <2>2. CASE ~ full
    BY <2>2 DEF IInv, RingConsistent, Live
  <2> QED BY <2>1, <2>2
<1>3. /\ \A q \in DOMAIN em : lv(em[q]) /\ r[em[q]].pid = q
      /\ \A i \in 0 .. sz - 1 : lv(i) => r[i].pid \in DOMAIN em /\ em[r[i].pid] = i
  <2>1. CASE full
    <3>1. /\ count = size /\ h = 0 /\ sz = 2 * size /\ r = GrownRing /\ size \in Nat \ {0}
          /\ em = MapOf(GrownRing, count)
      BY <2>1 DEF full, IInv, TypeOK
    <3>2. /\ em \in [DOMAIN emap -> 0 .. count - 1]
          /\ \A q \in DOMAIN emap : r[em[q]].pid = q
          /\ \A i \in 0 .. count - 1 : r[i].pid \in DOMAIN emap /\ em[r[i].pid] = i
      BY <2>1, <3>1, GrowKeepsEntries
    <3> HIDE DEF r, h, sz, em
    <3> QED BY <3>1, <3>2
  <2>2. CASE ~ full
    BY <2>2 DEF IInv, MapConsistent, Live
  <2> QED BY <2>1, <2>2
<1>4. /\ size' = sz /\ head' = h /\ ping' = ping /\ ackdone' = ackdone
      /\ \/ /\ p \notin DOMAIN em
            /\ ring' = [r EXCEPT ![tl] = ne]
            /\ emap' = [q \in DOMAIN em \cup {p} |-> IF q = p THEN tl ELSE em[q]]
            /\ tail' = (tl + 1) % sz /\ count' = count + 1
         \/ ring' = r /\ emap' = em /\ tail' = tl /\ count' = count
  BY DEF Wait, Insert
<1>5. ne \in Entries /\ ne.pid = p /\ ne # NoEntry
  BY SizeAssumption DEF NewEntry, Entries
<1>6. ping \in PingStates /\ ackdone \in Seq(Entries \cup {PingEntry})
  BY DEF IInv, TypeOK
<1> HIDE DEF r, h, tl, sz, em, ne
<1>8. tl \in 0 .. sz - 1 /\ ~ lv(tl)
  BY <1>1
<1>7. (tl + 1) % sz = IF tl + 1 < sz THEN tl + 1 ELSE tl + 1 - sz
  BY <1>1, <1>8, Increment, Zenon
<1>9. CASE ring' = r /\ emap' = em /\ tail' = tl /\ count' = count
  <2>1. TypeOK'
    BY <1>1, <1>4, <1>6, <1>8, <1>9 DEF TypeOK
  <2>2. RingConsistent'
    BY <1>1, <1>2, <1>4, <1>9 DEF RingConsistent, Live
  <2>3. MapConsistent'
    BY <1>1, <1>3, <1>4, <1>9 DEF MapConsistent, Live
  <2> QED BY <2>1, <2>2, <2>3 DEF IInv
<1>10. CASE /\ p \notin DOMAIN em
            /\ ring' = [r EXCEPT ![tl] = ne]
            /\ emap' = [q \in DOMAIN em \cup {p} |-> IF q = p THEN tl ELSE em[q]]
            /\ tail' = (tl + 1) % sz /\ count' = count + 1
  <2> DEFINE nt == IF tl + 1 < sz THEN tl + 1 ELSE tl + 1 - sz
             nlv(i) == IF head' + count' <= size'
                         THEN head' <= i /\ i < head' + count'
                         ELSE head' <= i \/ i < head' + count' - size'
  <2>a. /\ p \notin DOMAIN em
        /\ ring' = [r EXCEPT ![tl] = ne]
        /\ emap' = [q \in DOMAIN em \cup {p} |-> IF q = p THEN tl ELSE em[q]]
        /\ count' = count + 1
        /\ size' = sz /\ head' = h /\ ping' = ping /\ ackdone' = ackdone
    BY <1>10, <1>4
  <2>b. tail' = nt
    BY <1>7, <1>10, Zenon
  <2>0. tail' = nt /\ nt \in 0 .. sz - 1
    BY <2>b, <1>8, <1>1
  <2>1. TypeOK'
    <3>1. ring' \in [0 .. sz - 1 -> Entries \cup {NoEntry}]
      BY <1>1, <1>5, <1>8, <2>a
    <3>2. DOMAIN emap' \subseteq Pids /\ emap' \in [DOMAIN emap' -> 0 .. sz - 1]
      BY <1>1, <1>8, <2>a
    <3> QED BY <3>1, <3>2, <1>1, <1>6, <2>a, <2>0 DEF TypeOK
  <2>2. \A i \in 0 .. sz - 1 : nlv(i) <=> (lv(i) \/ i = tl)
    BY <1>1, <1>8, <2>a, SMTT(30)
  <2>3. RingConsistent'
    <3>1. tail' = IF head' + count' < size' THEN head' + count'
                  ELSE head' + count' - size'
      BY <1>1, <2>a, <2>0
    <3>2. \A i \in 0 .. sz - 1 : ring'[i] # NoEntry <=> (lv(i) \/ i = tl)
      BY <1>1, <1>2, <1>5, <1>8, <2>a
    <3> QED BY <3>1, <3>2, <2>2, <2>a DEF RingConsistent, Live
  <2>4. MapConsistent'
    <3>1. ASSUME NEW q \in DOMAIN emap'
          PROVE  Live(emap[q])' /\ ring'[emap'[q]].pid = q
      <4>1. CASE q = p
        <5>1. emap'[q] = tl /\ nlv(tl)
          BY <4>1, <1>8, <2>a, <2>2
        <5>2. Live(emap[q])'
          BY <5>1 DEF Live
        <5> QED BY <4>1, <5>1, <5>2, <1>1, <1>5, <1>8, <2>a
      <4>2. CASE q # p
        <5>1. q \in DOMAIN em /\ emap'[q] = em[q] /\ em[q] \in 0 .. sz - 1 /\ em[q] # tl
          BY <4>2, <1>1, <1>3, <1>8, <2>a
        <5>2. nlv(em[q]) /\ r[em[q]].pid = q
          BY <5>1, <1>3, <2>2
        <5>3. Live(emap[q])'
          BY <5>1, <5>2 DEF Live
        <5> QED BY <5>1, <5>2, <5>3, <1>1, <2>a
      <4> QED BY <4>1, <4>2
    <3>2. ASSUME NEW i \in 0 .. sz - 1, nlv(i)
          PROVE  ring'[i].pid \in DOMAIN emap' /\ emap'[ring'[i].pid] = i
      <4>1. CASE i = tl
        BY <4>1, <1>1, <1>5, <2>a
      <4>2. CASE i # tl
        <5>1. lv(i) /\ ring'[i] = r[i]
          BY <4>2, <3>2, <2>2, <1>1, <2>a
        <5>2. r[i].pid \in DOMAIN em /\ em[r[i].pid] = i /\ r[i].pid # p
          BY <5>1, <1>3, <2>a
        <5> QED BY <5>1, <5>2, <2>a
      <4> QED BY <4>1, <4>2
    <3>3. \A q \in DOMAIN emap' : Live(emap[q])' /\ ring'[emap'[q]].pid = q
      BY <3>1
    <3>4. \A i \in 0 .. sz - 1 :
            nlv(i) => ring'[i].pid \in DOMAIN emap' /\ emap'[ring'[i].pid] = i
      BY <3>2
    <3> QED BY <3>3, <3>4, <2>a DEF MapConsistent, Live
  <2> QED BY <2>1, <2>3, <2>4 DEF IInv
<1> QED BY <1>4, <1>9, <1>10

\* Ack keeps the invariant: it changes the state of one live entry only.
LEMMA AckInv ==
  ASSUME IInv, NEW t \in AckTypes, NEW p \in Pids, Ack(t, p)
  PROVE  IInv'
<1>1. UNCHANGED <<size, count, head, tail, emap, ping, ackdone>>
  BY DEF Ack
<1>2. CASE p \notin DOMAIN emap
  <2>1. ring' = ring
    BY <1>2 DEF Ack
  <2> QED BY <1>1, <2>1 DEF IInv, TypeOK, RingConsistent, MapConsistent, Live
<1>3. CASE p \in DOMAIN emap
  <2> DEFINE x == emap[p]
             ne == [ring[x] EXCEPT !.state = t]
  <2>1. ring' = [ring EXCEPT ![x] = ne]
    BY <1>3 DEF Ack
  <2>2. x \in 0 .. size - 1 /\ Live(x) /\ ring[x] \in Entries
    BY <1>3 DEF IInv, TypeOK, RingConsistent, MapConsistent
  <2>3. ne \in Entries /\ ne # NoEntry /\ ne.pid = ring[x].pid
    <3> DEFINE o == ring[x]
    <3>1. o \in Entries
      BY <2>2
    <3> HIDE DEF o
    <3>2. [o EXCEPT !.state = t] \in Entries /\ [o EXCEPT !.state = t].pid = o.pid
      BY <3>1 DEF Entries
    <3> QED BY <3>2, SizeAssumption DEF o
  <2> HIDE DEF x, ne
  <2>4. \A i \in 0 .. size - 1 : /\ ring'[i] # NoEntry <=> ring[i] # NoEntry
                                 /\ Live(i) => ring'[i].pid = ring[i].pid
    BY <2>1, <2>2, <2>3, SizeAssumption DEF IInv, TypeOK, RingConsistent
  <2>5. TypeOK'
    BY <1>1, <2>1, <2>2, <2>3 DEF IInv, TypeOK
  <2>6. RingConsistent'
    BY <1>1, <2>4 DEF IInv, RingConsistent, Live
  <2>7. MapConsistent'
    BY <1>1, <2>4 DEF IInv, TypeOK, MapConsistent, Live
  <2> QED BY <2>5, <2>6, <2>7 DEF IInv
<1> QED BY <1>2, <1>3

\* After n removals the live slots are those that were live and are not among
\* the first n.
LEMMA RemovedSlots ==
  ASSUME IInv, NEW n \in 0 .. count
  PROVE  /\ \A i \in {Slot(k) : k \in 0 .. n - 1} : i \in 0 .. size - 1 /\ Live(i)
         /\ \A i \in 0 .. size - 1 :
              Live(i) /\ i \notin {Slot(k) : k \in 0 .. n - 1}
                <=> LET h == Slot(n)
                    IN  IF h + (count - n) <= size
                          THEN h <= i /\ i < h + (count - n)
                          ELSE h <= i \/ i < h + (count - n) - size
<1> DEFINE sl(k) == IF head + k < size THEN head + k ELSE head + k - size
           gone == {Slot(k) : k \in 0 .. n - 1}
<1>0. /\ size \in Nat \ {0} /\ count \in 0 .. size /\ head \in 0 .. size - 1
      /\ n \in 0 .. size
  BY DEF IInv, TypeOK
<1>1. \A k \in 0 .. n : Slot(k) = sl(k) /\ Slot(k) \in 0 .. size - 1
  <2> TAKE k \in 0 .. n
  <2>1. k \in 0 .. size
    BY <1>0
  <2> QED BY <2>1, SlotValue DEF IInv
<1>2. \A i : i \in gone <=> \E k \in 0 .. n - 1 : i = sl(k)
  BY <1>0, <1>1, SMTT(30)
<1>3. \A i \in gone : i \in 0 .. size - 1 /\ Live(i)
  <2> TAKE i \in gone
  <2>1. PICK k \in 0 .. n - 1 : i = sl(k)
    BY <1>2
  <2> QED BY <2>1, <1>0 DEF Live
<1>4. \A i \in 0 .. size - 1 : Live(i) =>
        (i \in gone <=> IF head <= i THEN i - head < n ELSE i - head + size < n)
  <2> SUFFICES ASSUME NEW i \in 0 .. size - 1, Live(i)
               PROVE  i \in gone <=> IF head <= i THEN i - head < n ELSE i - head + size < n
    OBVIOUS
  <2> DEFINE k == IF head <= i THEN i - head ELSE i - head + size
  <2>1. k \in 0 .. size - 1 /\ i = sl(k)
    BY <1>0
  <2>2. \A j \in 0 .. n - 1 : i = sl(j) => j = k
    BY <1>0, <2>1
  <2>3. i \in gone <=> k < n
    <3>1. ASSUME k < n PROVE i \in gone
      <4> HIDE DEF gone, k
      <4>1. k \in 0 .. n - 1
        BY <2>1, <3>1, <1>0
      <4> QED BY <4>1, <2>1, <1>2
    <3>2. ASSUME i \in gone PROVE k < n
      <4> HIDE DEF gone, k
      <4>1. PICK j \in 0 .. n - 1 : i = sl(j)
        BY <3>2, <1>2
      <4>2. j = k
        BY <4>1, <2>2
      <4> QED BY <4>1, <4>2, <1>0
    <3> QED BY <3>1, <3>2
  <2> QED BY <2>3
<1>5. Slot(n) = sl(n)
  BY <1>0, <1>1
<1>6. \A i \in 0 .. size - 1 :
        Live(i) /\ i \notin gone
           <=> IF sl(n) + (count - n) <= size
                 THEN sl(n) <= i /\ i < sl(n) + (count - n)
                 ELSE sl(n) <= i \/ i < sl(n) + (count - n) - size
  <2> HIDE DEF gone
  <2> QED BY <1>0, <1>4 DEF Live
<1> QED BY <1>3, <1>5, <1>6

\* Acked keeps the invariant: the slots it clears are the completed heads.
LEMMA AckedInv == IInv /\ Acked => IInv'
<1> SUFFICES ASSUME IInv, Acked PROVE IInv'
  OBVIOUS
<1>1. PICK n \in 0 .. count :
        /\ IsDrained(n)
        /\ RemoveHeads(n)
        /\ ackdone' = (IF ping = "PINGRESP" THEN <<PingEntry>> ELSE <<>>)
                        \o [i \in 1 .. n |-> ring[Slot(i - 1)]]
  BY DEF Acked
<1> DEFINE gone == {Slot(k) : k \in 0 .. n - 1}
           h == Slot(n)
           nl(i) == IF h + (count - n) <= size THEN h <= i /\ i < h + (count - n)
                    ELSE h <= i \/ i < h + (count - n) - size
<1>2. /\ size \in Nat \ {0} /\ count \in 0 .. size /\ n \in 0 .. size
      /\ head \in 0 .. size - 1 /\ tail \in 0 .. size - 1
      /\ ring \in [0 .. size - 1 -> Entries \cup {NoEntry}]
      /\ DOMAIN emap \subseteq Pids /\ emap \in [DOMAIN emap -> 0 .. size - 1]
      /\ ping \in PingStates
  BY DEF IInv, TypeOK
<1>3. /\ size' = size /\ tail' = tail /\ count' = count - n /\ head' = h
      /\ ring' = [i \in 0 .. size - 1 |-> IF i \in gone THEN NoEntry ELSE ring[i]]
      /\ emap' = [p \in DOMAIN emap \ {ring[i].pid : i \in gone} |-> emap[p]]
  BY <1>1 DEF Acked, RemoveHeads, Slot
<1>4. h = (IF head + n < size THEN head + n ELSE head + n - size) /\ h \in 0 .. size - 1
  BY <1>2, SlotValue DEF IInv
<1>5. \A i \in gone : i \in 0 .. size - 1 /\ Live(i)
  BY RemovedSlots
<1>6. \A i \in 0 .. size - 1 : nl(i) <=> Live(i) /\ i \notin gone
  BY RemovedSlots
<1>7. ackdone' \in Seq(Entries \cup {PingEntry})
  <2>1. \A i \in 1 .. n : ring[Slot(i - 1)] \in Entries
    <3> TAKE i \in 1 .. n
    <3>1. Slot(i - 1) \in gone
      OBVIOUS
    <3> QED BY <3>1, <1>2, <1>5 DEF IInv, RingConsistent
  <2> DEFINE out == [i \in 1 .. n |-> ring[Slot(i - 1)]]
             pre == IF ping = "PINGRESP" THEN <<PingEntry>> ELSE <<>>
  <2>2. out \in Seq(Entries \cup {PingEntry})
    BY <2>1, <1>2
  <2>3. pre \in Seq(Entries \cup {PingEntry})
    <3>1. CASE ping = "PINGRESP"
      BY <3>1
    <3>2. CASE ping # "PINGRESP"
      BY <3>2
    <3> QED BY <3>1, <3>2
  <2>4. ackdone' = pre \o out
    BY <1>1
  <2> HIDE DEF out, pre
  <2> QED BY <2>2, <2>3, <2>4
<1>8. ping' \in PingStates
  BY <1>2 DEF Acked, PingStates
<1> HIDE DEF gone, h
<1>9. TypeOK'
  BY <1>2, <1>3, <1>4, <1>7, <1>8 DEF TypeOK
<1>10. RingConsistent'
  <2>1. tail' = IF head' + count' < size' THEN head' + count' ELSE head' + count' - size'
    BY <1>2, <1>3, <1>4, SMTT(30) DEF IInv, RingConsistent
  <2>2. \A i \in 0 .. size - 1 : nl(i) <=> ring'[i] # NoEntry
    BY <1>3, <1>6 DEF IInv, RingConsistent
  <2> QED BY <2>1, <2>2, <1>3 DEF RingConsistent, Live
<1>11. MapConsistent'
  <2>1. ASSUME NEW p \in DOMAIN emap'
        PROVE  nl(emap'[p]) /\ ring'[emap'[p]].pid = p
    <3>1. p \in DOMAIN emap /\ emap'[p] = emap[p] /\ emap[p] \in 0 .. size - 1
      BY <1>2, <1>3, <2>1
    <3>2. Live(emap[p]) /\ ring[emap[p]].pid = p
      BY <3>1 DEF IInv, MapConsistent
    <3>3. emap[p] \notin gone
      BY <1>3, <2>1, <3>2
    <3> QED BY <3>1, <3>2, <3>3, <1>3, <1>6
  <2>2. ASSUME NEW i \in 0 .. size - 1, nl(i)
        PROVE  ring'[i].pid \in DOMAIN emap' /\ emap'[ring'[i].pid] = i
    <3>1. Live(i) /\ i \notin gone /\ ring'[i] = ring[i]
      BY <2>2, <1>3, <1>6
    <3>2. ring[i].pid \in DOMAIN emap /\ emap[ring[i].pid] = i
      BY <3>1 DEF IInv, MapConsistent
    <3>3. \A j \in gone : ring[j].pid # ring[i].pid
      BY <3>1, <3>2, <1>5 DEF IInv, MapConsistent
    <3> QED BY <3>1, <3>2, <3>3, <1>3
  <2>3. \A p \in DOMAIN emap' : nl(emap'[p]) /\ ring'[emap'[p]].pid = p
    BY <2>1
  <2>4. \A i \in 0 .. size - 1 :
          nl(i) => ring'[i].pid \in DOMAIN emap' /\ emap'[ring'[i].pid] = i
    BY <2>2
  <2> QED BY <2>3, <2>4, <1>3 DEF MapConsistent, Live
<1> QED BY <1>9, <1>10, <1>11 DEF IInv

\* Every step of the queue keeps the invariant.
LEMMA NextInv == IInv /\ [Next]_vars => IInv'
<1> SUFFICES ASSUME IInv, [Next]_vars PROVE IInv'
  OBVIOUS
<1>1. ASSUME NEW t \in WaitTypes, NEW p \in Pids, NEW m \in Msgs, NEW e \in BOOLEAN,
             Wait(t, p, m, e)
      PROVE  IInv'
  BY <1>1, InsertInv
<1>2. CASE WaitPing
  BY <1>2 DEF WaitPing, IInv, TypeOK, PingStates, RingConsistent, MapConsistent, Live
<1>3. ASSUME NEW t \in AckTypes, NEW p \in Pids, Ack(t, p) PROVE IInv'
  BY <1>3, AckInv
<1>4. CASE AckPing
  BY <1>4 DEF AckPing, IInv, TypeOK, PingStates, RingConsistent, MapConsistent, Live
<1>5. CASE Acked
  BY <1>5, AckedInv
<1>6. CASE UNCHANGED vars
  BY <1>6 DEF vars, IInv, TypeOK, RingConsistent, MapConsistent, Live
<1> QED BY <1>1, <1>2, <1>3, <1>4, <1>5, <1>6 DEF Next

\* The cursors, the count, the ring and the map of the queue keep their
\* types through every Wait, Ack and Acked, whatever the initial size.
THEOREM TypeCorrect == Spec => []TypeOK
<1>1. Spec => []IInv
  BY InitInv, NextInv, PTL DEF Spec
<1>2. IInv => TypeOK
  BY DEF IInv
<1> QED BY <1>1, <1>2, PTL

\* Exactly the count slots from head on hold entries and the tail is behind
\* them, through every wrap and growth of the ring.
THEOREM QueueConsistent == Spec => []RingConsistent
<1>1. Spec => []IInv
  BY InitInv, NextInv, PTL DEF Spec
<1>2. IInv => RingConsistent
  BY DEF IInv
<1> QED BY <1>1, <1>2, PTL

\* The map from identifiers to slots is the exact inverse of the ring: an
\* acknowledgement never reaches a wrong or a freed slot.
THEOREM MapIsInverse == Spec => []MapConsistent
<1>1. Spec => []IInv
  BY InitInv, NextInv, PTL DEF Spec
<1>2. IInv => MapConsistent
  BY DEF IInv
<1> QED BY <1>1, <1>2, PTL

-----------------------------------------------------------------------------
(***************************************************************************)
(* Refinement: the ring read from the head is the abstract sequence.       *)
(***************************************************************************)
pend == [i \in 1 .. count |-> ring[Slot(i - 1)]]

\* The k-th slot of a ring of size s with head h.
At(h, k, s) == IF h + k < s THEN h + k ELSE h + k - s

\* The refinement mapping, entry by entry: place i of the abstract queue is
\* the i-th live slot of the ring.
LEMMA PendValue ==
  ASSUME IInv
  PROVE  /\ pend = [i \in 1 .. count |-> ring[At(head, i - 1, size)]]
         /\ pend \in Seq(Entries) /\ Len(pend) = count /\ DOMAIN pend = 1 .. count
         /\ \A i \in 1 .. count : At(head, i - 1, size) \in 0 .. size - 1
                                  /\ Live(At(head, i - 1, size))
         /\ \A p \in Pids : HasPid(pend, p) <=> p \in DOMAIN emap
<1>0. /\ size \in Nat \ {0} /\ count \in 0 .. size /\ head \in 0 .. size - 1
      /\ emap \in [DOMAIN emap -> 0 .. size - 1]
      /\ ring \in [0 .. size - 1 -> Entries \cup {NoEntry}]
  BY DEF IInv, TypeOK
<1>1. \A i \in 1 .. count : /\ Slot(i - 1) = At(head, i - 1, size)
                            /\ At(head, i - 1, size) \in 0 .. size - 1
                            /\ Live(At(head, i - 1, size))
  <2> TAKE i \in 1 .. count
  <2>1. i - 1 \in 0 .. size
    BY <1>0
  <2>2. Slot(i - 1) = At(head, i - 1, size)
    BY <2>1, SlotValue DEF IInv, At
  <2> QED BY <2>2, <1>0 DEF At, Live
<1>2. pend = [i \in 1 .. count |-> ring[At(head, i - 1, size)]]
  BY <1>1 DEF pend
<1>3. \A i \in 1 .. count : ring[At(head, i - 1, size)] \in Entries
  BY <1>0, <1>1 DEF IInv, RingConsistent
<1>4. pend \in Seq(Entries) /\ Len(pend) = count /\ DOMAIN pend = 1 .. count
  BY <1>0, <1>2, <1>3
<1>5. ASSUME NEW p \in Pids PROVE HasPid(pend, p) <=> p \in DOMAIN emap
  <2>1. ASSUME NEW i \in 1 .. count, pend[i].pid = p PROVE p \in DOMAIN emap
    BY <2>1, <1>1, <1>2 DEF IInv, MapConsistent
  <2>2. ASSUME p \in DOMAIN emap PROVE \E i \in 1 .. count : pend[i].pid = p
    <3> DEFINE x == emap[p]
               k == IF head <= x THEN x - head ELSE x - head + size
    <3>1. x \in 0 .. size - 1 /\ Live(x) /\ ring[x].pid = p
      BY <2>2, <1>0 DEF IInv, MapConsistent
    <3> HIDE DEF x
    <3>2. k + 1 \in 1 .. count /\ x = At(head, (k + 1) - 1, size)
      <4>1. CASE head <= x
        BY <3>1, <1>0, <4>1 DEF Live, At
      <4>2. CASE ~ (head <= x)
        BY <3>1, <1>0, <4>2 DEF Live, At
      <4> QED BY <4>1, <4>2
    <3>3. pend[k + 1].pid = p
      BY <3>1, <3>2, <1>2
    <3> QED BY <3>2, <3>3
  <2> QED BY <2>1, <2>2, <1>4 DEF HasPid
<1> QED BY <1>1, <1>2, <1>4, <1>5

\* The same in the state after a step.
LEMMA PendValueNext ==
  ASSUME IInv'
  PROVE  pend' = [i \in 1 .. count' |-> ring'[At(head', i - 1, size')]]
<1>1. (IInv => pend = [i \in 1 .. count |-> ring[At(head, i - 1, size)]])'
  BY PendValue, PTL
<1> QED BY <1>1 DEF At

\* Wait is an insertion in the abstract queue, or a stutter.
LEMMA WaitRefines ==
  ASSUME IInv, IInv', NEW t \in WaitTypes, NEW p \in Pids, NEW m \in Msgs,
         NEW e \in BOOLEAN, Wait(t, p, m, e)
  PROVE  Fifo!Wait(t, p, m) \/ (pend' = pend /\ UNCHANGED <<ping, ackdone>>)
<1> DEFINE r  == IF full THEN GrownRing ELSE ring
           h  == IF full THEN 0 ELSE head
           tl == IF full THEN count ELSE tail
           sz == IF full THEN 2 * size ELSE size
           em == IF full THEN MapOf(GrownRing, count) ELSE emap
           ne == NewEntry(t, p, m)
<1>0. /\ size \in Nat \ {0} /\ count \in 0 .. size /\ head \in 0 .. size - 1
      /\ tail = At(head, count, size)
  BY DEF IInv, TypeOK, RingConsistent, At
<1>1. /\ sz \in Nat \ {0} /\ count < sz /\ h \in 0 .. sz - 1 /\ tl = At(h, count, sz)
  BY <1>0 DEF full, At
<1>2. \A i \in 1 .. count : /\ At(h, i - 1, sz) \in 0 .. sz - 1
                            /\ At(h, i - 1, sz) # tl
                            /\ r[At(h, i - 1, sz)] = pend[i]
  <2>1. CASE full
    <3>1. h = 0 /\ sz = 2 * size /\ r = GrownRing /\ tl = count /\ count = size
      BY <2>1 DEF full
    <3>2. \A i \in 1 .. count : At(0, i - 1, 2 * size) = i - 1
      BY <1>0 DEF At
    <3>3. \A i \in 1 .. count : GrownRing[i - 1] = pend[i]
      BY <1>0, <2>1, GrowKeepsEntries DEF pend
    <3> QED BY <3>1, <3>2, <3>3, <1>0
  <2>2. CASE ~ full
    <3>1. h = head /\ sz = size /\ r = ring /\ tl = tail
      BY <2>2
    <3>2. \A i \in 1 .. count : At(head, i - 1, size) \in 0 .. size - 1
                                /\ At(head, i - 1, size) # tail
      BY <1>0, <2>2 DEF At, full
    <3>3. \A i \in 1 .. count : ring[At(head, i - 1, size)] = pend[i]
      BY PendValue
    <3> QED BY <3>1, <3>2, <3>3
  <2> QED BY <2>1, <2>2
<1>3. DOMAIN em = DOMAIN emap
  BY GrowKeepsEntries
<1>4. /\ size' = sz /\ head' = h /\ ping' = ping /\ ackdone' = ackdone
      /\ \/ p \notin DOMAIN em /\ ring' = [r EXCEPT ![tl] = ne] /\ count' = count + 1
         \/ /\ ring' = r /\ count' = count
            /\ p \in DOMAIN em \/ e = FALSE
  BY DEF Wait, Insert
<1>5. r \in [0 .. sz - 1 -> Entries \cup {NoEntry}]
  BY GrowKeepsEntries DEF IInv, TypeOK
<1>6. /\ pend' = [i \in 1 .. count' |-> ring'[At(head', i - 1, size')]]
      /\ pend = [i \in 1 .. count |-> pend[i]]
      /\ pend \in Seq(Entries) /\ Len(pend) = count
      /\ HasPid(pend, p) <=> p \in DOMAIN emap
  BY PendValue, PendValueNext DEF pend
<1>7. ne \in Entries /\ ne.pid = p
  BY DEF NewEntry, Entries
<1> HIDE DEF r, h, tl, sz, em, ne
<1>8. CASE ring' = r /\ count' = count
  <2>1. pend' = pend
    BY <1>8, <1>2, <1>4, <1>6
  <2> QED BY <2>1, <1>4
<1>9. CASE p \notin DOMAIN em /\ ring' = [r EXCEPT ![tl] = ne] /\ count' = count + 1
  <2>1. \A i \in 1 .. count : ring'[At(h, i - 1, sz)] = pend[i]
    BY <1>9, <1>2, <1>5
  <2>2. ring'[At(h, count, sz)] = ne
    BY <1>9, <1>1, <1>5, <1>0 DEF At
  <2>3. pend' = [i \in 1 .. count + 1 |-> IF i <= count THEN pend[i] ELSE ne]
    <3>1. \A i \in 1 .. count + 1 :
             ring'[At(h, i - 1, sz)] = IF i <= count THEN pend[i] ELSE ne
      <4> TAKE i \in 1 .. count + 1
      <4>1. CASE i <= count
        BY <4>1, <2>1, <1>0
      <4>2. CASE i = count + 1
        <5>1. i - 1 = count
          BY <4>2, <1>0
        <5> QED BY <4>2, <5>1, <2>2, <1>0
      <4> QED BY <4>1, <4>2, <1>0
    <3> QED BY <3>1, <1>4, <1>6, <1>9
  <2>4. Append(pend, ne) = [i \in 1 .. count + 1 |-> IF i <= count THEN pend[i] ELSE ne]
    BY <1>0, <1>6, <1>7
  <2>5. ~ HasPid(pend, p)
    BY <1>9, <1>3, <1>6
  <2>6. pend' = Inserted(pend, ne)
    BY <2>3, <2>4, <2>5, <1>7 DEF Inserted
  <2> QED BY <2>6, <1>4 DEF Fifo!Wait, Fifo!Inserted, Fifo!HasPid, Fifo!NewEntry,
                           Inserted, HasPid, NewEntry, pend, ne
<1> QED BY <1>4, <1>8, <1>9

\* Ack records the acknowledgement in the abstract queue, or stutters.
LEMMA AckRefines ==
  ASSUME IInv, IInv', NEW t \in AckTypes, NEW p \in Pids, Ack(t, p)
  PROVE  Fifo!Ack(t, p)
<1>0. UNCHANGED <<size, count, head, tail, emap, ping, ackdone>>
  BY DEF Ack
<1>1. /\ pend = [i \in 1 .. count |-> ring[At(head, i - 1, size)]]
      /\ pend' = [i \in 1 .. count |-> ring'[At(head, i - 1, size)]]
      /\ Len(pend) = count
      /\ \A i \in 1 .. count : /\ At(head, i - 1, size) \in 0 .. size - 1
                               /\ Live(At(head, i - 1, size))
  BY <1>0, PendValue, PendValueNext
<1>2. ASSUME NEW i \in 1 .. count
      PROVE  ring'[At(head, i - 1, size)] =
               IF pend[i].pid = p THEN [pend[i] EXCEPT !.state = t] ELSE pend[i]
  <2> DEFINE j == At(head, i - 1, size)
  <2>1. j \in 0 .. size - 1 /\ Live(j) /\ pend[i] = ring[j]
    BY <1>1
  <2> HIDE DEF j
  <2>2. ring[j].pid \in DOMAIN emap /\ emap[ring[j].pid] = j
    BY <2>1 DEF IInv, MapConsistent
  <2>3. CASE ring[j].pid = p
    <3>1. ring' = [ring EXCEPT ![j] = [ring[j] EXCEPT !.state = t]]
      BY <2>2, <2>3 DEF Ack
    <3> QED BY <3>1, <2>1, <2>3 DEF IInv, TypeOK, j
  <2>4. CASE ring[j].pid # p
    <3>1. p \in DOMAIN emap => emap[p] # j
      BY <2>1, <2>4 DEF IInv, MapConsistent
    <3>2. ring'[j] = ring[j]
      BY <3>1, <2>1 DEF Ack, IInv, TypeOK
    <3> QED BY <3>2, <2>1, <2>4 DEF j
  <2> QED BY <2>3, <2>4
<1>3. pend' = [i \in 1 .. count |-> IF pend[i].pid = p
                                     THEN [pend[i] EXCEPT !.state = t] ELSE pend[i]]
  BY <1>1, <1>2
<1>4. pend' = Acknowledged(pend, t, p)
  BY <1>1, <1>3 DEF Acknowledged
<1> QED BY <1>0, <1>4 DEF Fifo!Ack, Fifo!Acknowledged, Acknowledged, pend

\* Acked takes the completed prefix off the abstract queue.
LEMMA AckedRefines ==
  ASSUME IInv, IInv', Acked
  PROVE  Fifo!Acked
<1>1. PICK n \in 0 .. count :
        /\ IsDrained(n)
        /\ RemoveHeads(n)
        /\ ackdone' = (IF ping = "PINGRESP" THEN <<PingEntry>> ELSE <<>>)
                        \o [i \in 1 .. n |-> ring[Slot(i - 1)]]
  BY DEF Acked
<1>2. /\ size \in Nat \ {0} /\ count \in 0 .. size /\ n \in 0 .. size
      /\ head \in 0 .. size - 1
  BY DEF IInv, TypeOK
<1>3. /\ pend = [i \in 1 .. count |-> ring[At(head, i - 1, size)]]
      /\ pend' = [i \in 1 .. count' |-> ring'[At(head', i - 1, size')]]
      /\ Len(pend) = count
      /\ \A i \in 1 .. count : At(head, i - 1, size) \in 0 .. size - 1
  BY PendValue, PendValueNext
<1>4. /\ size' = size /\ count' = count - n /\ head' = Slot(n)
      /\ ring' = [i \in 0 .. size - 1 |->
                    IF i \in {Slot(k) : k \in 0 .. n - 1} THEN NoEntry ELSE ring[i]]
  BY <1>1 DEF Acked, RemoveHeads, Slot
<1>5. Slot(n) = At(head, n, size)
  BY <1>2, SlotValue DEF IInv, At
<1>6. \A k \in 0 .. n - 1 : Slot(k) = At(head, k, size)
  <2> TAKE k \in 0 .. n - 1
  <2>1. k \in 0 .. size
    BY <1>2
  <2> QED BY <2>1, SlotValue DEF IInv, At
<1>7. ASSUME NEW i \in 1 .. count - n
      PROVE  ring'[At(head', i - 1, size')] = pend[n + i]
  <2>1. At(At(head, n, size), i - 1, size) = At(head, n + i - 1, size)
    BY <1>2 DEF At
  <2>2. At(head, n + i - 1, size) \in 0 .. size - 1
    BY <1>2 DEF At
  <2>3. \A k \in 0 .. n - 1 : At(head, k, size) # At(head, n + i - 1, size)
    BY <1>2 DEF At
  <2>4. At(head, n + i - 1, size) \notin {Slot(k) : k \in 0 .. n - 1}
    BY <2>3, <1>6
  <2>5. ring'[At(head, n + i - 1, size)] = ring[At(head, n + i - 1, size)]
    BY <2>2, <2>4, <1>4
  <2>6. n + i \in 1 .. count /\ (n + i) - 1 = n + i - 1
    BY <1>2
  <2>7. pend[n + i] = ring[At(head, n + i - 1, size)]
    BY <2>6, <1>3
  <2> QED BY <2>1, <2>5, <2>7, <1>4, <1>5
<1>8. pend' = [i \in 1 .. Len(pend) - n |-> pend[n + i]]
  BY <1>3, <1>4, <1>7
<1>9. \A k \in 0 .. count - 1 : ring[Slot(k)] = pend[k + 1]
  BY <1>2 DEF pend
<1>10. IsCompletedPrefix(pend, n)
  <2>1. \A i \in 1 .. n : IsFinal(pend[i])
    <3> TAKE i \in 1 .. n
    <3>1. i - 1 \in 0 .. n - 1 /\ i - 1 \in 0 .. count - 1 /\ (i - 1) + 1 = i
      BY <1>2
    <3> QED BY <3>1, <1>1, <1>9 DEF IsDrained
  <2>2. n < Len(pend) => ~ IsFinal(pend[n + 1])
    BY <1>1, <1>2, <1>3, <1>9 DEF IsDrained
  <2> QED BY <2>1, <2>2, <1>2, <1>3 DEF IsCompletedPrefix
<1>11. [i \in 1 .. n |-> ring[Slot(i - 1)]] = [i \in 1 .. n |-> pend[i]]
  BY <1>2 DEF pend
<1>12. ackdone' = (IF ping = "PINGRESP" THEN <<PingEntry>> ELSE <<>>)
                     \o [i \in 1 .. n |-> pend[i]]
  BY <1>1, <1>11
<1>13. n \in 0 .. Len(pend)
  BY <1>2, <1>3
<1>14. ping' = IF ping = "PINGRESP" THEN "RESERVED" ELSE ping
  BY DEF Acked
<1> QED BY <1>8, <1>10, <1>12, <1>13, <1>14
        DEF Fifo!Acked, Fifo!IsCompletedPrefix, IsCompletedPrefix, Fifo!IsFinal, IsFinal,
            Fifo!FinalStates, FinalStates, Fifo!PingEntry, PingEntry, pend

\* Whatever the ring does - wrap, grow, drain, ignore a packet identifier it
\* knows or one it does not - a caller of Wait, Ack and Acked sees the
\* abstract queue.
THEOREM RefinesFifo == Spec => ImplementsFifo
<1>1. Init => Fifo!Init
  <2>1. Init => pend = <<>>
    BY DEF Init, pend
  <2> QED BY <2>1 DEF Init, Fifo!Init, pend
<1>2. ASSUME IInv, IInv', [Next]_vars PROVE [Fifo!Next]_(Fifo!vars)
  <2>1. ASSUME NEW t \in WaitTypes, NEW p \in Pids, NEW m \in Msgs, NEW e \in BOOLEAN,
               Wait(t, p, m, e)
        PROVE  Fifo!Next \/ UNCHANGED Fifo!vars
    BY <1>2, <2>1, WaitRefines DEF Fifo!Next, Fifo!vars, pend
  <2>2. CASE WaitPing
    <3>1. pend' = pend
      BY <2>2, <1>2, PendValue, PendValueNext DEF WaitPing
    <3> QED BY <3>1, <2>2 DEF WaitPing, Fifo!WaitPing, Fifo!Next, pend
  <2>3. ASSUME NEW t \in AckTypes, NEW p \in Pids, Ack(t, p) PROVE Fifo!Next
    BY <1>2, <2>3, AckRefines DEF Fifo!Next
  <2>4. CASE AckPing
    <3>1. pend' = pend
      BY <2>4, <1>2, PendValue, PendValueNext DEF AckPing
    <3> QED BY <3>1, <2>4 DEF AckPing, Fifo!AckPing, Fifo!Next, pend
  <2>5. CASE Acked
    BY <1>2, <2>5, AckedRefines DEF Fifo!Next
  <2>6. CASE UNCHANGED vars
    <3>1. pend' = pend
      BY <2>6, <1>2, PendValue, PendValueNext DEF vars
    <3> QED BY <3>1, <2>6 DEF vars, Fifo!vars, pend
  <2> QED BY <1>2, <2>1, <2>2, <2>3, <2>4, <2>5, <2>6 DEF Next
<1>3. Spec => []IInv
  BY InitInv, NextInv, PTL DEF Spec
<1>4. Spec => Fifo!Spec
  BY <1>1, <1>2, <1>3, PTL DEF Spec, Fifo!Spec
<1> QED BY <1>4 DEF ImplementsFifo
=============================================================================
