------------------------------ MODULE AckQueue ------------------------------
(***************************************************************************)
(* The acknowledgement queue of broker/impl/session/mem_ackqueue.go: a     *)
(* ring that doubles when it is full, a map from packet identifiers to     *)
(* ring indices and a slot of its own for the ping.  Every method runs     *)
(* under aq.mu, so every method is one action.                             *)
(*                                                                         *)
(* The masked index n & (size - 1) is n % size: the constructor rounds the *)
(* size up to a power of two and growth doubles it.                        *)
(***************************************************************************)
EXTENDS AckOps, Integers

CONSTANTS InitSize,   \* the size given to newAckqueue, a power of two
          MaxSize,    \* bound: the ring is not grown beyond this size
          NoEntry     \* the zero Ackmsg of a free ring slot

ASSUME SizeAssumption == /\ InitSize \in Nat \ {0}
                         /\ MaxSize \in Nat
                         /\ NoEntry \notin Entries

VARIABLES size, count, head, tail, ring, emap, ping, ackdone

vars == <<size, count, head, tail, ring, emap, ping, ackdone>>

-----------------------------------------------------------------------------
(* Helpers *)

\* Faulty variant: the mask is forgotten.
UnmaskedIndex(n) == n

index(n) == n % size
increment(n) == index(n + 1)
full == count = size

\* The k-th entry counted from the head, k = 0 .. count - 1.
Slot(k) == index(head + k)

\* Faulty variant: the entries keep their places although head becomes 0.
CopiedRing == [i \in 0 .. 2 * size - 1 |-> IF i < size THEN ring[i] ELSE NoEntry]

\* The ring and the packet-identifier map after grow(): the live entries are
\* copied, oldest first, to the front of a ring of twice the size and the map
\* is rebuilt from the copy.
GrownRing ==
  [i \in 0 .. 2 * size - 1 |->
     IF tail > head
       THEN IF i < tail - head THEN ring[head + i] ELSE NoEntry
       ELSE IF i < size - head THEN ring[head + i]
       ELSE IF i < size - head + tail THEN ring[i - (size - head)]
       ELSE NoEntry]

MapOf(r, n) ==
  [p \in {r[i].pid : i \in 0 .. n - 1} |->
     CHOOSE i \in 0 .. n - 1 :
       r[i].pid = p /\ \A j \in i + 1 .. n - 1 : r[j].pid # p]

-----------------------------------------------------------------------------
Init ==
  /\ size = InitSize /\ count = 0 /\ head = 0 /\ tail = 0
  /\ ring = [i \in 0 .. InitSize - 1 |-> NoEntry]
  /\ emap = [p \in {} |-> 0]
  /\ ping = "RESERVED"
  /\ ackdone = <<>>

\* insert(): grow when full, even for an identifier that is there already;
\* then store the entry at the tail unless its identifier is in the map.
\* encodes is FALSE for a message that msg.Encode rejects: grow has happened
\* and nothing is stored.
Insert(t, p, m, encodes) ==
  LET r  == IF full THEN GrownRing ELSE ring
      h  == IF full THEN 0 ELSE head
      tl == IF full THEN count ELSE tail
      sz == IF full THEN 2 * size ELSE size
      em == IF full THEN MapOf(GrownRing, count) ELSE emap
  IN /\ full => size < MaxSize
     /\ size' = sz
     /\ head' = h
     /\ IF p \notin DOMAIN em /\ encodes
          THEN /\ ring' = [r EXCEPT ![tl] = NewEntry(t, p, m)]
               /\ emap' = [q \in DOMAIN em \cup {p} |-> IF q = p THEN tl ELSE em[q]]
               /\ tail' = (tl + 1) % sz
               /\ count' = count + 1
          ELSE ring' = r /\ emap' = em /\ tail' = tl /\ count' = count

\* Wait of a PUBLISH (QoS > 0), SUBSCRIBE or UNSUBSCRIBE: the error of
\* insert is discarded.  A QoS 0 PUBLISH and every other type are refused
\* before anything is touched.
Wait(t, p, m, encodes) ==
  /\ Insert(t, p, m, encodes)
  /\ UNCHANGED <<ping, ackdone>>

WaitPing ==
  /\ ping' = "PINGREQ"
  /\ UNCHANGED <<size, count, head, tail, ring, emap, ackdone>>

Ack(t, p) ==
  /\ ring' = IF p \in DOMAIN emap
               THEN [ring EXCEPT ![emap[p]] = [@ EXCEPT !.state = t]]
               ELSE ring
  /\ UNCHANGED <<size, count, head, tail, emap, ping, ackdone>>

AckPing ==
  /\ ping # "RESERVED"
  /\ ping' = "PINGRESP"
  /\ UNCHANGED <<size, count, head, tail, ring, emap, ackdone>>

\* The number of removeHead() calls of Acked's loop: it stops at the first
\* entry that is not in a final state.
IsDrained(n) ==
  /\ \A k \in 0 .. n - 1 : IsFinal(ring[Slot(k)])
  /\ n < count => ~ IsFinal(ring[Slot(n)])

\* Faulty variants: the slots are not cleared; the identifiers stay.
SlotsKept(n) ==
  LET gone == {Slot(k) : k \in 0 .. n - 1}
  IN /\ ring' = ring
     /\ emap' = [p \in DOMAIN emap \ {ring[i].pid : i \in gone} |-> emap[p]]
     /\ head' = index(head + n)
     /\ count' = count - n

IdentifiersKept(n) ==
  LET gone == {Slot(k) : k \in 0 .. n - 1}
  IN /\ ring' = [i \in 0 .. size - 1 |-> IF i \in gone THEN NoEntry ELSE ring[i]]
     /\ emap' = emap
     /\ head' = index(head + n)
     /\ count' = count - n

\* n calls of removeHead(): the slots are cleared, head moves on, and the
\* identifiers of the removed entries leave the map.
RemoveHeads(n) ==
  LET gone == {Slot(k) : k \in 0 .. n - 1}
  IN /\ ring' = [i \in 0 .. size - 1 |-> IF i \in gone THEN NoEntry ELSE ring[i]]
     /\ emap' = [p \in DOMAIN emap \ {ring[i].pid : i \in gone} |-> emap[p]]
     /\ head' = index(head + n)
     /\ count' = count - n

Acked ==
  /\ \E n \in 0 .. count :
       /\ IsDrained(n)
       /\ RemoveHeads(n)
       /\ ackdone' = (IF ping = "PINGRESP" THEN <<PingEntry>> ELSE <<>>)
                        \o [i \in 1 .. n |-> ring[Slot(i - 1)]]
  /\ ping' = IF ping = "PINGRESP" THEN "RESERVED" ELSE ping
  /\ UNCHANGED <<size, tail>>

Next ==
  \/ \E t \in WaitTypes, p \in Pids, m \in Msgs, e \in BOOLEAN : Wait(t, p, m, e)
  \/ WaitPing
  \/ \E t \in AckTypes, p \in Pids : Ack(t, p)
  \/ AckPing
  \/ Acked

Spec == Init /\ [][Next]_vars

-----------------------------------------------------------------------------
(* Properties *)

\* The fields of the queue have their types: the two cursors index the ring,
\* the count is at most its size and the map sends identifiers to indices.
TypeOK ==
  /\ size \in Nat \ {0}
  /\ count \in 0 .. size
  /\ head \in 0 .. size - 1
  /\ tail \in 0 .. size - 1
  /\ ring \in [0 .. size - 1 -> Entries \cup {NoEntry}]
  /\ DOMAIN emap \subseteq Pids
  /\ emap \in [DOMAIN emap -> 0 .. size - 1]
  /\ ping \in PingStates
  /\ ackdone \in Seq(Entries \cup {PingEntry})

\* Where the live part of the ring is.
Live(i) == IF head + count <= size
             THEN head <= i /\ i < head + count
             ELSE head <= i \/ i < head + count - size

\* The tail is count slots after the head; exactly the slots in between hold
\* entries (removeHead clears the slot it leaves and grow copies all of them).
RingConsistent ==
  /\ tail = IF head + count < size THEN head + count ELSE head + count - size
  /\ \A i \in 0 .. size - 1 : Live(i) <=> ring[i] # NoEntry

\* The packet-identifier map is the exact inverse of the live part of the
\* ring, so no two live entries share an identifier and every
\* acknowledgement finds its entry, after any number of growths and wraps.
MapConsistent ==
  /\ \A p \in DOMAIN emap : Live(emap[p]) /\ ring[emap[p]].pid = p
  /\ \A i \in 0 .. size - 1 :
       Live(i) => ring[i].pid \in DOMAIN emap /\ emap[ring[i].pid] = i

\* The ring read from the head is the abstract sequence of entries.
Fifo == INSTANCE AckFifo WITH
          pending <- [i \in 1 .. count |-> ring[Slot(i - 1)]],
          done    <- ackdone

\* The ring implements the abstract queue: order of completion, growth,
\* wrap-around, late and unknown acknowledgements included.
ImplementsFifo == Fifo!Spec
=============================================================================
