-------------------------- MODULE RingBufferProofs --------------------------
(***************************************************************************)
(* For every buffer size, block size and set of packet lengths: the ring   *)
(* never overwrites an unread byte and never hands out a byte that is not  *)
(* there, whatever the interleaving and whenever it is closed; and only    *)
(* packets of the length the property names starve the two sides.          *)
(***************************************************************************)
EXTENDS RingBuffer, TLAPS

InWait == {"lock", "test", "isDone", "wait", "asleep", "woken"}

\* The cached gate is behind the consumer, the consumer behind the producer,
\* and the producer less than a lap ahead.
Ordered == gate <= cseq /\ cseq <= pseq /\ pseq <= cseq + Size

\* The room that was granted stays granted: only the producer moves pseq.
RoomKept == pp \in {"granted", "stored", "set"} => pseq + want <= cseq + Size

\* The bytes stored but not yet committed are in place, also while
\* WriteCommit asks for the room again.
StoredIntact ==
  (pp \in {"stored", "set"} \/ (op = "commit" /\ pp \in InWait \cup {"granted"}))
    => \A s \in pseq .. pseq + want - 1 : bytes[index(s)] = s

\* The position the consumer loaded may be stale but is never ahead.
LoadedBehind == got <= pseq

IInv == TypeOK /\ Ordered /\ UnreadIntact /\ RoomKept /\ StoredIntact
          /\ LoadedBehind /\ PeekedIsThere

-----------------------------------------------------------------------------
\* Division with remainder.
LEMMA Quotient ==
  ASSUME NEW a \in Nat, NEW n \in Nat \ {0}
  PROVE  \E q \in Nat : a = n * q + (a % n)
<1>1. /\ a \div n \in Int /\ a % n \in 0 .. n - 1
      /\ a = n * (a \div n) + (a % n)
  BY SMT
<1>2. a \div n >= 0
  BY SMT
<1>3. a \div n \in Nat
  BY <1>1, <1>2
<1> QED BY <1>1, <1>3, Zenon

\* Two positions less than a lap apart have different indices.
LEMMA IndexDistinct ==
  ASSUME NEW a \in Nat, NEW b \in Nat, a < b, b < a + Size
  PROVE  index(a) # index(b)
<1> SUFFICES ASSUME a % Size = b % Size PROVE FALSE
  BY DEF index
<1>0. Size \in Nat \ {0}
  BY RingAssumption
<1>1. PICK r \in Nat : r = a % Size
  BY <1>0, SMT
<1>2. PICK qa \in Nat : a = Size * qa + r
  <2>1. PICK q \in Nat : a = Size * q + (a % Size)
    BY <1>0, Quotient, Zenon
  <2> QED BY <1>1, <2>1, Zenon
<1>3. PICK qb \in Nat : b = Size * qb + r
  <2>1. PICK q \in Nat : b = Size * q + (b % Size)
    BY <1>0, Quotient, Zenon
  <2> QED BY <1>1, <2>1, Zenon
<1>4. qb > qa
  BY <1>0, <1>2, <1>3, SMT
<1>5. Size * qb >= Size * qa + Size
  BY <1>0, <1>4, SMT
<1> QED BY <1>0, <1>2, <1>3, <1>5, SMT

\* An index is a place of the ring.
LEMMA IndexInRing == ASSUME NEW a \in Nat PROVE index(a) \in 0 .. Size - 1
BY RingAssumption, SMT DEF index

\* Storing k bytes where room was granted keeps the unread ones and puts the
\* new ones in place.
LEMMA StoreKeeps ==
  ASSUME IInv, NEW k \in Nat, pseq + k <= cseq + Size, Store(k)
  PROVE  /\ bytes' \in [0 .. Size - 1 -> Int]
         /\ \A s \in cseq .. pseq - 1 : bytes'[index(s)] = s
         /\ \A s \in pseq .. pseq + k - 1 : bytes'[index(s)] = s
<1> DEFINE New == pseq .. pseq + k - 1
<1>0. /\ pseq \in Nat /\ cseq \in Nat /\ Size \in Nat /\ cseq <= pseq
      /\ bytes \in [0 .. Size - 1 -> Int]
  BY RingAssumption DEF IInv, TypeOK, Ordered
<1>1. ASSUME NEW s \in cseq .. pseq - 1, NEW t \in New PROVE index(t) # index(s)
  BY <1>0, IndexDistinct
<1>2. ASSUME NEW s \in New, NEW t \in New, index(t) = index(s) PROVE s = t
  <2>1. s < t => t < s + Size
    BY <1>0
  <2>2. t < s => s < t + Size
    BY <1>0
  <2> QED BY <1>0, <1>2, <2>1, <2>2, IndexDistinct
<1>3. ASSUME NEW i \in 0 .. Size - 1 PROVE bytes'[i] \in Int
  <2>1. CASE \E s \in New : index(s) = i
    <3>1. bytes'[i] = CHOOSE s \in New : index(s) = i
      BY <2>1 DEF Store
    <3> QED BY <1>0, <2>1, <3>1
  <2>2. CASE ~ \E s \in New : index(s) = i
    BY <1>0, <2>2 DEF Store
  <2> QED BY <2>1, <2>2
<1>4. bytes' \in [0 .. Size - 1 -> Int]
  BY <1>3 DEF Store
<1>5. ASSUME NEW s \in cseq .. pseq - 1 PROVE bytes'[index(s)] = s
  <2>1. index(s) \in 0 .. Size - 1
    BY <1>0, IndexInRing, SMTT(30)
  <2>2. bytes'[index(s)] = bytes[index(s)]
    BY <1>1, <2>1 DEF Store
  <2> QED BY <2>2 DEF IInv, UnreadIntact
<1>6. ASSUME NEW s \in New PROVE bytes'[index(s)] = s
  <2>1. index(s) \in 0 .. Size - 1
    BY <1>0, IndexInRing, SMTT(30)
  <2>2. bytes'[index(s)] = CHOOSE t \in New : index(t) = index(s)
    BY <2>1 DEF Store
  <2> QED BY <1>2, <2>2
<1> QED BY <1>4, <1>5, <1>6

\* The facts every step starts from, without the definitions they come from.
LEMMA Start ==
  ASSUME IInv
  PROVE  /\ Size \in Nat \ {0} /\ Block \in 1 .. Size /\ Header \in 1 .. Size
         /\ Lens \subseteq Nat \ {0}
         /\ TypeOK /\ Ordered /\ UnreadIntact /\ RoomKept /\ StoredIntact
         /\ LoadedBehind /\ PeekedIsThere
BY RingAssumption DEF IInv

\* The empty ring satisfies the invariant.
LEMMA InitInv == Init => IInv
<1> SUFFICES ASSUME Init PROVE IInv
  OBVIOUS
<1>1. bytes \in [0 .. Size - 1 -> Int]
  BY DEF Init
<1>2. closing \in [Procs -> {"no", "store", "wakeProducer", "wakeConsumer", "closed"}]
  BY DEF Init
<1>3. TypeOK
  BY <1>1, <1>2 DEF Init, TypeOK, ProducerPoints, ConsumerPoints, Free
<1> QED BY <1>3, RingAssumption DEF Init, IInv, Ordered, UnreadIntact, RoomKept,
          StoredIntact, LoadedBehind, PeekedIsThere, InWait

\* A request for room leaves the cursors and the bytes alone, and grants only
\* what the cached gate allows; a commit asks with the bytes in place.
LEMMA RequestInv ==
  ASSUME IInv, NEW n \in Nat, NEW o \in {"reserve", "write", "commit"},
         o = "commit" => pp = "stored" /\ n = want,
         Request(n, o)
  PROVE  IInv'
<1>0. /\ TypeOK /\ Ordered /\ UnreadIntact /\ RoomKept /\ StoredIntact
      /\ LoadedBehind /\ PeekedIsThere /\ Size \in Nat
  BY Start
<1>1. TypeOK'
  BY <1>0 DEF TypeOK, Request, ProducerFails, ProducerPoints, cons, Procs
<1>2. Ordered' /\ UnreadIntact' /\ LoadedBehind' /\ PeekedIsThere'
  BY <1>0 DEF Request, cons, Ordered, UnreadIntact, LoadedBehind, PeekedIsThere, index
<1>3. RoomKept'
  BY <1>0 DEF Request, ProducerFails, cons, RoomKept, Ordered, TypeOK
<1>4. StoredIntact'
  <2>1. CASE done
    BY <1>0, <2>1 DEF Request, ProducerFails, StoredIntact, InWait
  <2>2. CASE ~ done
    BY <1>0, <2>2 DEF Request, StoredIntact, InWait, index
  <2> QED BY <2>1, <2>2
<1> QED BY <1>1, <1>2, <1>3, <1>4 DEF IInv

\* The steps of the producer that store nothing.
LEMMA ProducerInv ==
  ASSUME IInv, \/ WaitForWriteSpace \/ NothingStored \/ Committed
               \/ SetPseq \/ NotifyConsumer
  PROVE  IInv'
<1>0. /\ TypeOK /\ Ordered /\ UnreadIntact /\ RoomKept /\ StoredIntact
      /\ LoadedBehind /\ PeekedIsThere /\ Size \in Nat
  BY Start
<1>1. ASSUME WaitLock PROVE IInv'
  <2>1. TypeOK'
    BY <1>0, <1>1 DEF WaitLock, TypeOK, ProducerPoints, ConsumerPoints, ProducerFails,
       WakeConsumer, cons, Procs, Free
  <2>2. Ordered' /\ UnreadIntact' /\ LoadedBehind' /\ PeekedIsThere'
    BY <1>0, <1>1 DEF WaitLock, cons, TypeOK, WakeConsumer, Ordered, UnreadIntact,
       LoadedBehind, PeekedIsThere, index
  <2>3. RoomKept' /\ StoredIntact'
    BY <1>0, <1>1 DEF WaitLock, ProducerFails, cons, TypeOK, Ordered, RoomKept,
       StoredIntact, InWait, index
  <2> QED BY <2>1, <2>2, <2>3 DEF IInv
<1>2. ASSUME WaitTest PROVE IInv'
  <2>1. TypeOK'
    BY <1>0, <1>2 DEF WaitTest, TypeOK, ProducerPoints, ConsumerPoints, ProducerFails,
       WakeConsumer, cons, Procs, Free
  <2>2. Ordered' /\ UnreadIntact' /\ LoadedBehind' /\ PeekedIsThere'
    BY <1>0, <1>2 DEF WaitTest, cons, TypeOK, WakeConsumer, Ordered, UnreadIntact,
       LoadedBehind, PeekedIsThere, index
  <2>3. RoomKept' /\ StoredIntact'
    BY <1>0, <1>2 DEF WaitTest, ProducerFails, cons, TypeOK, Ordered, RoomKept,
       StoredIntact, InWait, index
  <2> QED BY <2>1, <2>2, <2>3 DEF IInv
<1>3. ASSUME WaitDone PROVE IInv'
  <2>1. TypeOK'
    BY <1>0, <1>3 DEF WaitDone, TypeOK, ProducerPoints, ConsumerPoints, ProducerFails,
       WakeConsumer, cons, Procs, Free
  <2>2. Ordered' /\ UnreadIntact' /\ LoadedBehind' /\ PeekedIsThere'
    BY <1>0, <1>3 DEF WaitDone, cons, TypeOK, WakeConsumer, Ordered, UnreadIntact,
       LoadedBehind, PeekedIsThere, index
  <2>3. RoomKept' /\ StoredIntact'
    BY <1>0, <1>3 DEF WaitDone, ProducerFails, cons, TypeOK, Ordered, RoomKept,
       StoredIntact, InWait, index
  <2> QED BY <2>1, <2>2, <2>3 DEF IInv
<1>4. ASSUME WaitSleep PROVE IInv'
  <2>1. TypeOK'
    BY <1>0, <1>4 DEF WaitSleep, TypeOK, ProducerPoints, ConsumerPoints, ProducerFails,
       WakeConsumer, cons, Procs, Free
  <2>2. Ordered' /\ UnreadIntact' /\ LoadedBehind' /\ PeekedIsThere'
    BY <1>0, <1>4 DEF WaitSleep, cons, TypeOK, WakeConsumer, Ordered, UnreadIntact,
       LoadedBehind, PeekedIsThere, index
  <2>3. RoomKept' /\ StoredIntact'
    BY <1>0, <1>4 DEF WaitSleep, ProducerFails, cons, TypeOK, Ordered, RoomKept,
       StoredIntact, InWait, index
  <2> QED BY <2>1, <2>2, <2>3 DEF IInv
<1>5. ASSUME NothingStored PROVE IInv'
  <2>1. TypeOK'
    BY <1>0, <1>5 DEF NothingStored, TypeOK, ProducerPoints, ConsumerPoints, ProducerFails,
       WakeConsumer, cons, Procs, Free
  <2>2. Ordered' /\ UnreadIntact' /\ LoadedBehind' /\ PeekedIsThere'
    BY <1>0, <1>5 DEF NothingStored, cons, TypeOK, WakeConsumer, Ordered, UnreadIntact,
       LoadedBehind, PeekedIsThere, index
  <2>3. RoomKept' /\ StoredIntact'
    BY <1>0, <1>5 DEF NothingStored, ProducerFails, cons, TypeOK, Ordered, RoomKept,
       StoredIntact, InWait, index
  <2> QED BY <2>1, <2>2, <2>3 DEF IInv
<1>6. ASSUME Committed PROVE IInv'
  <2>1. TypeOK'
    BY <1>0, <1>6 DEF Committed, TypeOK, ProducerPoints, ConsumerPoints, ProducerFails,
       WakeConsumer, cons, Procs, Free
  <2>2. Ordered' /\ UnreadIntact' /\ LoadedBehind' /\ PeekedIsThere'
    BY <1>0, <1>6 DEF Committed, cons, TypeOK, WakeConsumer, Ordered, UnreadIntact,
       LoadedBehind, PeekedIsThere, index
  <2>3. RoomKept' /\ StoredIntact'
    BY <1>0, <1>6 DEF Committed, ProducerFails, cons, TypeOK, Ordered, RoomKept,
       StoredIntact, InWait, index
  <2> QED BY <2>1, <2>2, <2>3 DEF IInv
<1>7. ASSUME NotifyConsumer PROVE IInv'
  <2>1. TypeOK'
    BY <1>0, <1>7 DEF NotifyConsumer, TypeOK, ProducerPoints, ConsumerPoints, ProducerFails,
       WakeConsumer, cons, Procs, Free
  <2>2. Ordered' /\ UnreadIntact' /\ LoadedBehind' /\ PeekedIsThere'
    BY <1>0, <1>7 DEF NotifyConsumer, cons, TypeOK, WakeConsumer, Ordered, UnreadIntact,
       LoadedBehind, PeekedIsThere, index
  <2>3. RoomKept' /\ StoredIntact'
    BY <1>0, <1>7 DEF NotifyConsumer, ProducerFails, cons, TypeOK, Ordered, RoomKept,
       StoredIntact, InWait, index
  <2> QED BY <2>1, <2>2, <2>3 DEF IInv
<1>8. ASSUME SetPseq PROVE IInv'
  <2>1. TypeOK'
    BY <1>0, <1>8 DEF SetPseq, TypeOK, ProducerPoints, cons
  <2>2. Ordered' /\ LoadedBehind' /\ PeekedIsThere'
    BY <1>0, <1>8 DEF SetPseq, cons, TypeOK, RoomKept, Ordered, LoadedBehind,
       PeekedIsThere
  <2>3. UnreadIntact'
    <3>1. pseq' = pseq + want /\ cseq' = cseq /\ bytes' = bytes
      BY <1>8 DEF SetPseq, cons
    <3>2. ASSUME NEW s \in cseq .. pseq + want - 1 PROVE bytes[index(s)] = s
      BY <1>0, <1>8 DEF SetPseq, StoredIntact, UnreadIntact, TypeOK
    <3>3. ASSUME NEW s \in cseq' .. pseq' - 1 PROVE bytes'[index(s)] = s
      <4>1. s \in cseq .. pseq + want - 1
        BY <1>0, <3>1 DEF TypeOK
      <4> QED BY <3>1, <3>2, <4>1
    <3>4. cseq' <= pseq' /\ pseq' <= cseq' + Size
      BY <2>2 DEF Ordered
    <3> QED BY <3>3, <3>4 DEF UnreadIntact
  <2>4. RoomKept' /\ StoredIntact'
    BY <1>8 DEF SetPseq, RoomKept, StoredIntact, InWait
  <2> QED BY <2>1, <2>2, <2>3, <2>4 DEF IInv
<1> QED BY <1>1, <1>2, <1>3, <1>4, <1>5, <1>6, <1>7, <1>8 DEF WaitForWriteSpace

\* The steps of the producer that store bytes.
LEMMA StoringInv ==
  ASSUME IInv, ConnRead \/ Encode \/ RingCopy
  PROVE  IInv'
<1>0. /\ TypeOK /\ Ordered /\ UnreadIntact /\ RoomKept /\ StoredIntact
      /\ LoadedBehind /\ PeekedIsThere /\ Size \in Nat
  BY Start
<1>1. PICK k \in Nat : /\ k <= want /\ Store(k) /\ want' = k
                       /\ pp = "granted" /\ pp' \in {"stored", "set"}
  BY <1>0 DEF ConnRead, Encode, RingCopy, TypeOK
<1>2. UNCHANGED <<pseq, gate, op, cons, done, pmu, cmu, closing>>
  BY DEF ConnRead, Encode, RingCopy
<1>3. /\ bytes' \in [0 .. Size - 1 -> Int]
      /\ \A s \in cseq .. pseq - 1 : bytes'[index(s)] = s
      /\ \A s \in pseq .. pseq + k - 1 : bytes'[index(s)] = s
  <2>1. pseq + k <= cseq + Size
    BY <1>0, <1>1 DEF RoomKept, TypeOK
  <2> QED BY <1>1, <2>1, StoreKeeps
<1>4. TypeOK'
  BY <1>0, <1>1, <1>2, <1>3 DEF TypeOK, cons, ProducerPoints
<1>5. Ordered' /\ LoadedBehind' /\ PeekedIsThere'
  BY <1>0, <1>2 DEF cons, Ordered, LoadedBehind, PeekedIsThere
<1>6. UnreadIntact'
  BY <1>0, <1>2, <1>3 DEF cons, UnreadIntact, Ordered, index
<1>7. RoomKept'
  BY <1>0, <1>1, <1>2 DEF cons, RoomKept, TypeOK
<1>8. StoredIntact'
  BY <1>1, <1>2, <1>3 DEF StoredIntact, index
<1> QED BY <1>4, <1>5, <1>6, <1>7, <1>8 DEF IInv

\* Starting to wait for bytes records the producer's position and moves no
\* cursor.
LEMMA LoadInv ==
  ASSUME IInv, NEW n \in Nat, NEW st \in {"header", "packet"}, LoadPseq(n, st)
  PROVE  IInv'
<1>0. /\ TypeOK /\ Ordered /\ UnreadIntact /\ RoomKept /\ StoredIntact
      /\ LoadedBehind /\ PeekedIsThere /\ Size \in Nat
  BY Start
<1>1. TypeOK'
  BY <1>0 DEF LoadPseq, ConsumerStops, prod, TypeOK, ConsumerPoints, Procs
<1>2. Ordered' /\ UnreadIntact' /\ RoomKept' /\ StoredIntact'
  BY <1>0 DEF LoadPseq, prod, Ordered, UnreadIntact, RoomKept, StoredIntact, index
<1>3. LoadedBehind' /\ PeekedIsThere'
  BY <1>0 DEF LoadPseq, ConsumerStops, prod, TypeOK, LoadedBehind, PeekedIsThere
<1> QED BY <1>1, <1>2, <1>3 DEF IInv

\* The steps of the consumer that move no cursor.
LEMMA ReaderInv ==
  ASSUME IInv, ReadWaits \/ ConsumerQuits \/ NotifyProducer \/ Processed
  PROVE  IInv'
<1>0. /\ TypeOK /\ Ordered /\ UnreadIntact /\ RoomKept /\ StoredIntact
      /\ LoadedBehind /\ PeekedIsThere /\ Size \in Nat
  BY Start
<1>1. ASSUME ReadLock PROVE IInv'
  <2>1. TypeOK'
    BY <1>0, <1>1 DEF ReadLock, TypeOK, ProducerPoints, ConsumerPoints, ConsumerStops,
       WakeProducer, prod, Procs, Free
  <2>2. Ordered' /\ UnreadIntact' /\ RoomKept' /\ StoredIntact'
    BY <1>0, <1>1 DEF ReadLock, prod, TypeOK, WakeProducer, Ordered, UnreadIntact,
       RoomKept, StoredIntact, InWait, index
  <2>3. LoadedBehind' /\ PeekedIsThere'
    BY <1>0, <1>1 DEF ReadLock, prod, ConsumerStops, TypeOK, LoadedBehind, PeekedIsThere
  <2> QED BY <2>1, <2>2, <2>3 DEF IInv
<1>2. ASSUME ReadTest PROVE IInv'
  <2>1. TypeOK'
    BY <1>0, <1>2 DEF ReadTest, TypeOK, ProducerPoints, ConsumerPoints, ConsumerStops,
       WakeProducer, prod, Procs, Free
  <2>2. Ordered' /\ UnreadIntact' /\ RoomKept' /\ StoredIntact'
    BY <1>0, <1>2 DEF ReadTest, prod, TypeOK, WakeProducer, Ordered, UnreadIntact,
       RoomKept, StoredIntact, InWait, index
  <2>3. LoadedBehind' /\ PeekedIsThere'
    BY <1>0, <1>2 DEF ReadTest, prod, ConsumerStops, TypeOK, LoadedBehind, PeekedIsThere
  <2> QED BY <2>1, <2>2, <2>3 DEF IInv
<1>3. ASSUME ReadDone PROVE IInv'
  <2>1. TypeOK'
    BY <1>0, <1>3 DEF ReadDone, TypeOK, ProducerPoints, ConsumerPoints, ConsumerStops,
       WakeProducer, prod, Procs, Free
  <2>2. Ordered' /\ UnreadIntact' /\ RoomKept' /\ StoredIntact'
    BY <1>0, <1>3 DEF ReadDone, prod, TypeOK, WakeProducer, Ordered, UnreadIntact,
       RoomKept, StoredIntact, InWait, index
  <2>3. LoadedBehind' /\ PeekedIsThere'
    BY <1>0, <1>3 DEF ReadDone, prod, ConsumerStops, TypeOK, LoadedBehind, PeekedIsThere
  <2> QED BY <2>1, <2>2, <2>3 DEF IInv
<1>4. ASSUME ReadSleep PROVE IInv'
  <2>1. TypeOK'
    BY <1>0, <1>4 DEF ReadSleep, TypeOK, ProducerPoints, ConsumerPoints, ConsumerStops,
       WakeProducer, prod, Procs, Free
  <2>2. Ordered' /\ UnreadIntact' /\ RoomKept' /\ StoredIntact'
    BY <1>0, <1>4 DEF ReadSleep, prod, TypeOK, WakeProducer, Ordered, UnreadIntact,
       RoomKept, StoredIntact, InWait, index
  <2>3. LoadedBehind' /\ PeekedIsThere'
    BY <1>0, <1>4 DEF ReadSleep, prod, ConsumerStops, TypeOK, LoadedBehind, PeekedIsThere
  <2> QED BY <2>1, <2>2, <2>3 DEF IInv
<1>5. ASSUME ReadWoken PROVE IInv'
  <2>1. TypeOK'
    BY <1>0, <1>5 DEF ReadWoken, TypeOK, ProducerPoints, ConsumerPoints, ConsumerStops,
       WakeProducer, prod, Procs, Free
  <2>2. Ordered' /\ UnreadIntact' /\ RoomKept' /\ StoredIntact'
    BY <1>0, <1>5 DEF ReadWoken, prod, TypeOK, WakeProducer, Ordered, UnreadIntact,
       RoomKept, StoredIntact, InWait, index
  <2>3. LoadedBehind' /\ PeekedIsThere'
    BY <1>0, <1>5 DEF ReadWoken, prod, ConsumerStops, TypeOK, LoadedBehind, PeekedIsThere
  <2> QED BY <2>1, <2>2, <2>3 DEF IInv
<1>6. ASSUME ConsumerQuits PROVE IInv'
  <2>1. TypeOK'
    BY <1>0, <1>6 DEF ConsumerQuits, TypeOK, ProducerPoints, ConsumerPoints, ConsumerStops,
       WakeProducer, prod, Procs, Free
  <2>2. Ordered' /\ UnreadIntact' /\ RoomKept' /\ StoredIntact'
    BY <1>0, <1>6 DEF ConsumerQuits, prod, TypeOK, WakeProducer, Ordered, UnreadIntact,
       RoomKept, StoredIntact, InWait, index
  <2>3. LoadedBehind' /\ PeekedIsThere'
    BY <1>0, <1>6 DEF ConsumerQuits, prod, ConsumerStops, TypeOK, LoadedBehind, PeekedIsThere
  <2> QED BY <2>1, <2>2, <2>3 DEF IInv
<1>7. ASSUME NotifyProducer PROVE IInv'
  <2>1. TypeOK'
    BY <1>0, <1>7 DEF NotifyProducer, Returned, TypeOK, ProducerPoints, ConsumerPoints,
       WakeProducer
  <2>2. Ordered' /\ UnreadIntact' /\ RoomKept' /\ StoredIntact'
    BY <1>0, <1>7 DEF NotifyProducer, prod, TypeOK, WakeProducer, Ordered, UnreadIntact,
       RoomKept, StoredIntact, InWait, index
  <2>3. LoadedBehind' /\ PeekedIsThere'
    BY <1>0, <1>7 DEF NotifyProducer, Returned, LoadedBehind, PeekedIsThere
  <2> QED BY <2>1, <2>2, <2>3 DEF IInv
<1>8. ASSUME Processed PROVE IInv'
  <2>1. TypeOK'
    BY <1>0, <1>8 DEF Processed, TypeOK, ConsumerPoints, prod
  <2>2. Ordered' /\ UnreadIntact' /\ RoomKept' /\ StoredIntact'
    BY <1>0, <1>8 DEF Processed, prod, Ordered, UnreadIntact, RoomKept, StoredIntact, index
  <2>3. LoadedBehind' /\ PeekedIsThere'
    BY <1>0, <1>8 DEF Processed, prod, LoadedBehind, PeekedIsThere
  <2> QED BY <2>1, <2>2, <2>3 DEF IInv
<1> QED BY <1>1, <1>2, <1>3, <1>4, <1>5, <1>6, <1>7, <1>8 DEF ReadWaits

\* ReadCommit gives up bytes that were between the cursors.
LEMMA CommitInv ==
  ASSUME IInv, NEW m \in Nat, ReadCommit(m)
  PROVE  IInv'
<1>0. /\ TypeOK /\ Ordered /\ UnreadIntact /\ RoomKept /\ StoredIntact
      /\ LoadedBehind /\ PeekedIsThere /\ Size \in Nat
  BY Start
<1>1. TypeOK'
  <2>1. CASE cseq + m <= pseq
    BY <1>0, <2>1 DEF ReadCommit, prod, TypeOK, ConsumerPoints
  <2>2. CASE ~ (cseq + m <= pseq)
    BY <1>0, <2>2 DEF ReadCommit, ConsumerStops, prod, TypeOK, ConsumerPoints, Procs
  <2> QED BY <2>1, <2>2
<1>2. Ordered' /\ RoomKept' /\ LoadedBehind' /\ PeekedIsThere'
  BY <1>0 DEF ReadCommit, ConsumerStops, prod, TypeOK, Ordered, RoomKept,
     LoadedBehind, PeekedIsThere
<1>3. StoredIntact'
  BY <1>0 DEF ReadCommit, prod, StoredIntact, index
<1>4. UnreadIntact'
  <2>1. cseq' \in Nat /\ cseq <= cseq' /\ pseq' = pseq /\ bytes' = bytes
    BY <1>0 DEF ReadCommit, prod, TypeOK
  <2>2. ASSUME NEW s \in cseq' .. pseq' - 1 PROVE bytes'[index(s)] = s
    <3>1. s \in cseq .. pseq - 1
      BY <1>0, <2>1 DEF TypeOK
    <3> QED BY <1>0, <2>1, <3>1 DEF UnreadIntact
  <2> QED BY <1>2, <2>2 DEF UnreadIntact, Ordered
<1> QED BY <1>1, <1>2, <1>3, <1>4 DEF IInv

\* Close touches the done flag and wakes sleepers, whoever calls it.
LEMMA CloseInv ==
  ASSUME IInv, NEW x \in Procs, StartClose(x) \/ CloserRuns(x)
  PROVE  IInv'
<1>0. /\ TypeOK /\ Ordered /\ UnreadIntact /\ RoomKept /\ StoredIntact
      /\ LoadedBehind /\ PeekedIsThere /\ Size \in Nat
  BY Start
<1> USE DEF StartClose, CloserRuns, CloseStore, CloseWakeProducer, CloseWakeConsumer,
     prod, cons, WakeProducer, WakeConsumer
<1>1. TypeOK'
  <2>1. CASE StartClose(x) \/ CloseStore(x)
    BY <1>0, <2>1 DEF TypeOK
  <2>2. CASE CloseWakeProducer(x)
    BY <1>0, <2>2 DEF TypeOK, ProducerPoints
  <2>3. CASE CloseWakeConsumer(x)
    BY <1>0, <2>3 DEF TypeOK, ConsumerPoints
  <2> QED BY <2>1, <2>2, <2>3
<1>2. Ordered' /\ UnreadIntact' /\ LoadedBehind' /\ PeekedIsThere'
  BY <1>0 DEF Ordered, UnreadIntact, LoadedBehind, PeekedIsThere, index
<1>3. RoomKept' /\ StoredIntact'
  BY <1>0 DEF RoomKept, StoredIntact, InWait, index
<1> QED BY <1>1, <1>2, <1>3 DEF IInv

\* Every step of producer, consumer and closer keeps the invariant.
LEMMA NextInv == IInv /\ [Next]_vars => IInv'
<1> SUFFICES ASSUME IInv, [Next]_vars PROVE IInv'
  OBVIOUS
<1>0. /\ TypeOK /\ Size \in Nat \ {0} /\ Block \in 1 .. Size
      /\ Header \in 1 .. Size /\ Lens \subseteq Nat \ {0}
  BY Start
<1>1. CASE StartWrite
  <2>1. PICK n \in Nat : Request(n, "reserve")
    BY <1>0, <1>1 DEF StartWrite
  <2> QED BY <2>1, RequestInv
<1>2. CASE CallWrite
  BY <1>0, <1>2, RequestInv DEF CallWrite, TypeOK
<1>3. CASE CallWriteCommit
  BY <1>0, <1>3, RequestInv DEF CallWriteCommit, TypeOK
<1>4. CASE WaitForWriteSpace \/ NothingStored \/ Committed \/ SetPseq \/ NotifyConsumer
  BY <1>4, ProducerInv
<1>5. CASE ConnRead \/ Encode \/ RingCopy
  BY <1>5, StoringInv
<1>6. CASE StartRead
  <2>1. PICK n \in Nat : LoadPseq(n, "header")
    BY <1>0, <1>6 DEF StartRead
  <2> QED BY <2>1, LoadInv
<1>7. CASE PeekMessage
  <2>1. PICK n \in Nat : LoadPseq(n, "packet")
    BY <1>0, <1>7 DEF PeekMessage
  <2> QED BY <2>1, LoadInv
<1>8. CASE ReadWaits \/ ConsumerQuits \/ NotifyProducer \/ Processed
  BY <1>8, ReaderInv
<1>9. CASE CommitMessage
  BY <1>0, <1>9, CommitInv DEF CommitMessage, TypeOK
<1>10. CASE ConnWrite
  <2>1. ReadCommit(Peeked) /\ cp = "have"
    BY <1>10 DEF ConnWrite, ReadCommit
  <2>2. Peeked \in Nat
    BY <1>0, <2>1 DEF Peeked, IInv, PeekedIsThere, TypeOK
  <2> QED BY <2>1, <2>2, CommitInv
<1>11. CASE (\E x \in Closers : StartClose(x)) \/ (\E x \in Procs : CloserRuns(x))
  <2>1. PICK x \in Procs : StartClose(x) \/ CloserRuns(x)
    BY <1>11 DEF Procs
  <2> QED BY <2>1, CloseInv
<1>12. CASE UNCHANGED vars
  BY <1>12 DEF vars, ring, prod, cons, IInv, TypeOK, Ordered, UnreadIntact, RoomKept,
     StoredIntact, LoadedBehind, PeekedIsThere, index
<1> QED BY <1>1, <1>2, <1>3, <1>4, <1>5, <1>6, <1>7, <1>8, <1>9, <1>10, <1>11, <1>12
     DEF Next, ProducerRuns, ConsumerRuns

\* The ring is safe for every size: no byte is overwritten before it is
\* committed although the producer trusts a cached consumer position, a reader finds the bytes
\* it was promised although it trusts a stale producer position, and closing
\* the buffer at any moment disturbs neither.
THEOREM RingSafe == Spec => []BytesIntact
<1>1. Init => IInv
  BY InitInv
<1>2. IInv /\ [Next]_vars => IInv'
  BY NextInv
<1>3. IInv => BytesIntact
  BY DEF IInv, BytesIntact
<1> QED BY <1>1, <1>2, <1>3, PTL DEF Spec

-----------------------------------------------------------------------------
(* Starvation *)

\* pcond.L is held from the lock to the sleep.
LockHeld == pp \in {"test", "isDone", "wait"} => pmu = "producer"

\* A producer that found no room still has none, or is about to be woken.
NoRoom ==
  pp \in {"isDone", "wait", "asleep"} => pseq + want > cseq + Size \/ cp = "notify"

\* ReadFrom asks for no more than a block, ReadPeek waits for one byte.
Bounded == IF direction = "in" THEN want <= Block ELSE need <= 1

SInv == IInv /\ LockHeld /\ NoRoom /\ Bounded

\* The empty ring satisfies the invariant about sleeping processes.
LEMMA InitStarve == Init => SInv
<1> SUFFICES ASSUME Init PROVE SInv
  OBVIOUS
<1>1. IInv
  BY InitInv
<1> QED BY <1>1, RingAssumption DEF Init, SInv, LockHeld, NoRoom, Bounded

\* Every step keeps the bounds and the lock discipline.
LEMMA NextStarve ==
  ASSUME SInv, [Next]_vars
  PROVE  SInv'
<1>0. /\ TypeOK /\ Size \in Nat \ {0} /\ Block \in 1 .. Size
      /\ Header \in 1 .. Size /\ Lens \subseteq Nat \ {0}
      /\ LockHeld /\ NoRoom /\ Bounded
      /\ UNCHANGED direction
  BY Start DEF SInv, Next, vars
<1>1. IInv'
  BY NextInv DEF SInv
<1>2. ASSUME NEW n \in Nat, NEW o, Request(n, o),
             direction = "in" => n <= Block
      PROVE  LockHeld' /\ NoRoom' /\ Bounded'
  BY <1>0, <1>2 DEF Request, ProducerFails, cons, LockHeld, NoRoom, Bounded
<1>3. CASE StartWrite
  <2>1. PICK n \in Nat : /\ Request(n, "reserve")
                         /\ direction = "in" => n <= Block
    BY <1>0, <1>3 DEF StartWrite
  <2>2. LockHeld' /\ NoRoom' /\ Bounded'
    BY <1>2, <2>1
  <2> QED BY <1>1, <2>2 DEF SInv
<1>4. CASE CallWrite \/ CallWriteCommit
  <2>1. PICK o : Request(want, o)
    BY <1>4 DEF CallWrite, CallWriteCommit
  <2>2. want \in Nat /\ (direction = "in" => want <= Block)
    BY <1>0 DEF TypeOK, Bounded
  <2>3. LockHeld' /\ NoRoom' /\ Bounded'
    BY <1>2, <2>1, <2>2
  <2> QED BY <1>1, <2>3 DEF SInv
<1>5. CASE WaitForWriteSpace \/ NothingStored \/ Committed \/ SetPseq \/ NotifyConsumer
  <2> USE DEF WaitForWriteSpace, WaitLock, WaitTest, WaitDone, WaitSleep, NothingStored,
       Committed, SetPseq, NotifyConsumer, ProducerFails, WakeConsumer, cons, Free
  <2>1. LockHeld'
    BY <1>0, <1>5 DEF LockHeld
  <2>2. NoRoom'
    BY <1>0, <1>5 DEF NoRoom, TypeOK
  <2>3. Bounded'
    BY <1>0, <1>5 DEF Bounded
  <2> QED BY <1>1, <2>1, <2>2, <2>3 DEF SInv
<1>6. CASE ConnRead \/ Encode \/ RingCopy
  <2>1. /\ want' \in Nat /\ want' <= want /\ pp' \in {"stored", "set"}
        /\ UNCHANGED need
    BY <1>0, <1>6 DEF ConnRead, Encode, RingCopy, TypeOK, cons
  <2>2. LockHeld' /\ NoRoom' /\ Bounded'
    BY <1>0, <2>1 DEF LockHeld, NoRoom, Bounded, TypeOK
  <2> QED BY <1>1, <2>2 DEF SInv
<1>7. ASSUME NEW n \in Nat, NEW st, LoadPseq(n, st), cp # "notify",
             direction = "in" \/ n <= 1
      PROVE  LockHeld' /\ NoRoom' /\ Bounded'
  BY <1>0, <1>7 DEF LoadPseq, ConsumerStops, prod, LockHeld, NoRoom, Bounded
<1>8. CASE StartRead
  <2>1. PICK n \in Nat :
          /\ LoadPseq(n, "header") /\ cp # "notify"
          /\ direction = "in" \/ n <= 1
    BY <1>0, <1>8 DEF StartRead
  <2>2. LockHeld' /\ NoRoom' /\ Bounded'
    BY <1>7, <2>1
  <2> QED BY <1>1, <2>2 DEF SInv
<1>9. CASE PeekMessage
  <2>1. PICK n \in Nat :
          /\ LoadPseq(n, "packet") /\ cp # "notify"
          /\ direction = "in" \/ n <= 1
    BY <1>0, <1>9 DEF PeekMessage
  <2>2. LockHeld' /\ NoRoom' /\ Bounded'
    BY <1>7, <2>1
  <2> QED BY <1>1, <2>2 DEF SInv
<1>10. CASE ReadWaits \/ ConsumerQuits \/ Processed
  <2> USE DEF ReadWaits, ReadLock, ReadTest, ReadDone, ReadSleep, ReadWoken,
       ConsumerQuits, ConsumerStops, Processed, prod
  <2>1. LockHeld' /\ Bounded'
    BY <1>0, <1>10 DEF LockHeld, Bounded
  <2>2. NoRoom'
    BY <1>0, <1>10 DEF NoRoom
  <2> QED BY <1>1, <2>1, <2>2 DEF SInv
<1>11. CASE NotifyProducer
  <2>1. LockHeld' /\ Bounded'
    BY <1>0, <1>11 DEF NotifyProducer, Returned, WakeProducer, LockHeld, Bounded
  <2>2. NoRoom'
    BY <1>0, <1>11 DEF NotifyProducer, Returned, WakeProducer, LockHeld, NoRoom, Free
  <2> QED BY <1>1, <2>1, <2>2 DEF SInv
<1>12. CASE CommitMessage \/ ConnWrite
  <2>1. PICK m : ReadCommit(m)
    BY <1>12 DEF CommitMessage, ConnWrite
  <2>2. LockHeld' /\ NoRoom' /\ Bounded'
    BY <1>0, <2>1 DEF ReadCommit, ConsumerStops, prod, LockHeld, NoRoom, Bounded
  <2> QED BY <1>1, <2>2 DEF SInv
<1>13. CASE (\E x \in Closers : StartClose(x)) \/ (\E x \in Procs : CloserRuns(x))
  <2>1. PICK x \in Procs : StartClose(x) \/ CloserRuns(x)
    BY <1>13 DEF Procs
  <2>2. LockHeld' /\ NoRoom' /\ Bounded'
    BY <1>0, <2>1 DEF StartClose, CloserRuns, CloseStore, CloseWakeProducer,
       CloseWakeConsumer, prod, cons, WakeProducer, WakeConsumer, LockHeld, NoRoom,
       Bounded
  <2> QED BY <1>1, <2>2 DEF SInv
<1>14. CASE UNCHANGED vars
  BY <1>0, <1>1, <1>14 DEF vars, ring, prod, cons, SInv, LockHeld, NoRoom, Bounded
<1> QED BY <1>3, <1>4, <1>5, <1>6, <1>8, <1>9, <1>10, <1>11, <1>12, <1>13, <1>14
     DEF Next, ProducerRuns, ConsumerRuns

\* Whatever the lengths of the packets, the two sides of a buffer wait for
\* each other over an incomplete packet only if it is longer than
\* Size - Block + 1 (3073 bytes with the sizes of buffer.go) on its way in, or
\* longer than the ring on its way out.
THEOREM NeverStarves == Spec => []OnlyLongStarve
<1>1. Init => SInv
  BY InitStarve
<1>2. SInv /\ [Next]_vars => SInv'
  BY NextStarve
<1>3. SInv => OnlyLongStarve
  BY RingAssumption DEF SInv, IInv, TypeOK, Ordered, NoRoom, Bounded, OnlyLongStarve,
     Starving, BothAsleep
<1> QED BY <1>1, <1>2, <1>3, PTL DEF Spec
=============================================================================
