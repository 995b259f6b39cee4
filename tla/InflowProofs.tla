---------------------------- MODULE InflowProofs ----------------------------
(***************************************************************************)
(* Proofs about Inflow for any messages, identifiers and number of breaks: *)
(* QoS 2 messages are published once each and in order, and what the       *)
(* client has finished is lost in no other way than the ones named.        *)
(***************************************************************************)
EXTENDS Inflow, SequenceTheorems, FiniteSetTheorems, TLAPS

N == Cardinality(Msgs)
Wire == 1 .. Len(toBroker)
Back == 1 .. Len(toClient)
Queue == 1 .. Len(queue)
Unfinished == {inflight[i] : i \in 1 .. Len(inflight)}

-----------------------------------------------------------------------------
(* The inductive invariant, part by part *)

PacketTypes == [type : {"PUBLISH", "PUBREC", "PUBREL", "PUBACK", "PUBCOMP", "NONE"},
                pid : Pids \cup {0}, msg : 0 .. N, qos : 0 .. 2]

Processors ==
  [at : {"idle", "pubrec", "puback", "onPublish", "processAcked", "pubcomp", "stopped"}, pkt : PacketTypes]

Types ==
  /\ TypeOK /\ toBroker \in Seq(PacketTypes) /\ toClient \in Seq(PacketTypes)
  /\ inflight \in Seq([type : {"PUBLISH", "PUBREL"}, pid : Pids, msg : 1 .. N, qos : Qoses])
  /\ proc \in Processors
  /\ Len(queue) > 0 => 2 \in Qoses
  /\ proc.at = "onPublish" => 1 \in Qoses /\ proc.pkt.msg \in Msgs

\* The client's messages are numbered in order and have identifiers of their own.
ClientOK ==
  /\ \A i, j \in 1 .. Len(inflight) : i < j => inflight[i].msg < inflight[j].msg
  /\ \A x, y \in Unfinished : x.pid = y.pid \/ x.msg = y.msg => x = y
  /\ \A x \in Unfinished : x.msg <= sent /\ (x.type = "PUBREL" => x.qos = 2)

\* Every packet on its way, and the one the processor is busy with, belongs to
\* an exchange of the client, one to each, ...
Busy == proc.at \in {"pubrec", "puback", "processAcked", "pubcomp"}
OneEach ==
  /\ \A i, j \in Wire : toBroker[i].pid = toBroker[j].pid => i = j
  /\ \A i, j \in Back : toClient[i].pid = toClient[j].pid => i = j
  /\ \A i \in Wire, j \in Back : toBroker[i].pid # toClient[j].pid
  /\ Busy => /\ \A i \in Wire : toBroker[i].pid # proc.pkt.pid
             /\ \A i \in Back : toClient[i].pid # proc.pkt.pid

\* ... at the point where the exchange is.
WireOK ==
  \A i \in Wire :
    \/ toBroker[i].type = "PUBLISH" /\ toBroker[i] \in Unfinished
    \/ /\ toBroker[i].type = "PUBREL" /\ toBroker[i].qos = 0
       /\ \E x \in Unfinished : x.pid = toBroker[i].pid /\ x.type = "PUBREL"
BackOK ==
  \A i \in Back : \E x \in Unfinished :
    /\ x.pid = toClient[i].pid
    /\ \/ toClient[i].type = "PUBREC" /\ x.type = "PUBLISH" /\ x.qos = 2
       \/ toClient[i].type = "PUBACK" /\ x.type = "PUBLISH" /\ x.qos = 1
       \/ toClient[i].type = "PUBCOMP" /\ x.type = "PUBREL"
ProcOK ==
  /\ proc.at = "pubrec" => proc.pkt \in Unfinished /\ proc.pkt.type = "PUBLISH" /\ proc.pkt.qos = 2
  /\ proc.at = "puback" => proc.pkt \in Unfinished /\ proc.pkt.type = "PUBLISH" /\ proc.pkt.qos = 1
  /\ proc.at \in {"processAcked", "pubcomp"} =>
       \E x \in Unfinished : x.pid = proc.pkt.pid /\ x.type = "PUBREL"

\* Every unfinished message has a packet on its way while the connection is up.
HasPacket(x) ==
  \/ \E i \in Wire : toBroker[i].pid = x.pid
  \/ \E i \in Back : toClient[i].pid = x.pid
  \/ Busy /\ proc.pkt.pid = x.pid
AllOnTheWay == up => \A x \in Unfinished : HasPacket(x)

\* pub2in holds messages in the order they were sent, after those published,
\* one for each identifier; an entry is released only when the client did it.
Published2(m) == \E i \in 1 .. Len(published) : published[i].qos = 2 /\ published[i].msg = m
QueueSorted ==
  \A i, j \in Queue : i < j => queue[i].msg < queue[j].msg /\ queue[i].pid # queue[j].pid
AfterPublished == \A i \in Queue, m \in Msgs : Published2(m) => m < queue[i].msg
BelowSent == (\A i \in Queue : queue[i].msg <= sent) /\ \A m \in Msgs : Published2(m) => m <= sent
EntriesMatch ==
  \A i \in Queue, x \in Unfinished :
    x.msg = queue[i].msg => x.pid = queue[i].pid /\ (x.type = "PUBLISH" => queue[i].state # "PUBREL")

\* A message that may still come for the first time is in the queue or later
\* than all there is, and comes before later ones.
Queued(x) == \E i \in Queue : queue[i].pid = x.pid /\ queue[i].msg = x.msg
Later(x) ==
  (\A i \in Queue : queue[i].msg < x.msg) /\ \A m \in Msgs : Published2(m) => m < x.msg
ToCome ==
  {x \in Unfinished : /\ x.type = "PUBLISH" /\ x.qos = 2 /\ x.msg \notin Unencodable
                      /\ trusting => \E i \in Wire : toBroker[i] = x}
NewIsLater == \A x \in ToCome : Queued(x) \/ Later(x)
PublishesInOrder ==
  \A i, j \in Wire :
    i < j /\ toBroker[i].type = "PUBLISH" /\ toBroker[j].type = "PUBLISH" => toBroker[i].msg < toBroker[j].msg
NoneSkipped ==
  \A i \in Wire, x \in ToCome :
    toBroker[i].type = "PUBLISH" /\ x.msg < toBroker[i].msg => Queued(x) \/ \E j \in Wire : j < i /\ toBroker[j] = x

\* The client releases its QoS 2 messages in order, as the PUBRECs come.
ReleasedFirst ==
  \A x, y \in Unfinished : y.msg < x.msg /\ x.type = "PUBREL" /\ y.qos = 2 => y.type = "PUBREL"
PubrecsInOrder ==
  \A i \in Back, x, y \in Unfinished :
    toClient[i].type = "PUBREC" /\ toClient[i].pid = x.pid /\ y.msg < x.msg /\ y.type = "PUBLISH" /\ y.qos = 2 =>
      \E j \in Back : j < i /\ toClient[j].pid = y.pid
PubrecFirst ==
  \A i \in Wire :
    proc.at = "pubrec" /\ toBroker[i].type = "PUBLISH" => proc.pkt.msg < toBroker[i].msg

\* So a PUBREL is for the head of the queue, which is published at once: what
\* is in the queue is unfinished for the client.
OnlyHead ==
  \A k \in Queue :
    /\ queue[k].state = "PUBREL" <=> proc.at = "processAcked" /\ queue[k].pid = proc.pkt.pid
    /\ proc.at = "processAcked" /\ queue[k].pid = proc.pkt.pid => k = 1
QueueUnfinished ==
  \A k \in Queue : \E x \in Unfinished : x.pid = queue[k].pid /\ x.msg = queue[k].msg /\ x.qos = 2
PubrelsInOrder ==
  \A i \in Wire, k \in Queue, x \in Unfinished :
    /\ toBroker[i].type = "PUBREL" /\ toBroker[i].pid = x.pid
    /\ queue[k].state = "RESERVED" /\ queue[k].msg < x.msg
    => \E j \in Wire : j < i /\ toBroker[j].pid = queue[k].pid
PubcompAfter ==
  \A k \in Queue :
    /\ proc.at = "pubcomp" => queue[k].pid # proc.pkt.pid
    /\ \A i \in Back : toClient[i].type = "PUBCOMP" => queue[k].pid # toClient[i].pid

\* What has been acknowledged to the client is in the queue or published.
Stored(x) == x.msg \in Unencodable \cup shadowed \/ Queued(x)
Safe(m) == IsPublished(m) \/ (proc.at = "onPublish" /\ proc.pkt.msg = m)
PubrecKept == proc.at = "pubrec" => Stored(proc.pkt)
BackKept ==
  \A i \in Back, x \in Unfinished : toClient[i].pid = x.pid =>
    (toClient[i].type = "PUBREC" => Stored(x)) /\ (toClient[i].type = "PUBACK" => Safe(x.msg))
ReleasedKept == \A x \in Unfinished : x.type = "PUBREL" => Stored(x) \/ Published2(x.msg)
Released(m) == m \in shadowed \/ \E k \in Queue : queue[k].msg = m /\ queue[k].state = "PUBREL"
PubcompReleased ==
  \A k \in Queue :
    /\ proc.at \in {"processAcked", "pubcomp"} /\ queue[k].pid = proc.pkt.pid => queue[k].state = "PUBREL"
    /\ \A i \in Back : toClient[i].type = "PUBCOMP" /\ queue[k].pid = toClient[i].pid => queue[k].state = "PUBREL"
CompletedKept == \A m \in completed \ Unencodable : Safe(m) \/ Released(m)

\* What the client has given up is older than what it works on, and nothing is
\* shadowed before it has given something up.
Faithful == givenUp = {}
HistoryOK ==
  /\ givenUp \subseteq Msgs /\ (~ trusting => Faithful)
  /\ \A g \in givenUp : g <= sent /\ \A x \in Unfinished : g < x.msg
  /\ \A m \in shadowed : \E g \in givenUp : g < m

\* What needs a client that has given up nothing comes last.
IInv ==
  /\ Types /\ ClientOK /\ OneEach /\ WireOK /\ BackOK /\ ProcOK /\ AllOnTheWay
  /\ QueueSorted /\ AfterPublished /\ BelowSent /\ EntriesMatch
  /\ NewIsLater /\ PublishesInOrder /\ NoneSkipped /\ OnceInOrder
  /\ ReleasedFirst /\ PubrecsInOrder /\ PubrecFirst
  /\ HistoryOK /\ PubrecKept /\ BackKept /\ ReleasedKept /\ PubcompReleased /\ CompletedKept
  /\ Faithful => OnlyHead /\ QueueUnfinished /\ PubrelsInOrder /\ PubcompAfter

-----------------------------------------------------------------------------
(* Sequences *)

LEMMA TailFacts ==
  ASSUME NEW S, NEW s \in Seq(S), s # <<>>
  PROVE  /\ 1 \in 1 .. Len(s) /\ Head(s) = s[1]
         /\ Tail(s) \in Seq(S) /\ Len(Tail(s)) = Len(s) - 1
         /\ \A i \in 1 .. Len(Tail(s)) : i + 1 \in 1 .. Len(s) /\ Tail(s)[i] = s[i + 1]
         /\ \A i \in 1 .. Len(s) : i = 1 \/ (i - 1 \in 1 .. Len(Tail(s)) /\ Tail(s)[i - 1] = s[i])
OBVIOUS

LEMMA AppendFacts ==
  ASSUME NEW S, NEW s \in Seq(S), NEW e \in S
  PROVE  /\ Append(s, e) \in Seq(S) /\ Len(Append(s, e)) = Len(s) + 1
         /\ \A i \in 1 .. Len(s) : i \in 1 .. Len(Append(s, e)) /\ Append(s, e)[i] = s[i]
         /\ Append(s, e)[Len(s) + 1] = e
         /\ \A i \in 1 .. Len(Append(s, e)) : i \in 1 .. Len(s) \/ i = Len(s) + 1
OBVIOUS

LEMMA PrefixFacts ==
  ASSUME NEW S, NEW s \in Seq(S), NEW n \in 0 .. Len(s)
  PROVE  /\ SubSeq(s, 1, n) \in Seq(S) /\ Len(SubSeq(s, 1, n)) = n
         /\ \A i \in 1 .. n : i \in 1 .. Len(s) /\ SubSeq(s, 1, n)[i] = s[i]
OBVIOUS

LEMMA ConcatFacts ==
  ASSUME NEW S, NEW s \in Seq(S), NEW t \in Seq(S), NEW r, r = s \o t
  PROVE  /\ r \in Seq(S) /\ Len(r) = Len(s) + Len(t)
         /\ \A i \in 1 .. Len(s) : i \in 1 .. Len(r) /\ r[i] = s[i]
         /\ \A k \in 1 .. Len(t) : Len(s) + k \in 1 .. Len(r) /\ r[Len(s) + k] = t[k]
         /\ \A i \in 1 .. Len(r) : i \in 1 .. Len(s) \/ \E k \in 1 .. Len(t) : i = Len(s) + k
<1>1. r \in Seq(S) /\ Len(r) = Len(s) + Len(t) /\ Len(s) \in Nat /\ Len(t) \in Nat
  OBVIOUS
<1>2. \A i \in 1 .. Len(s) : i \in 1 .. Len(r) /\ r[i] = s[i]
  OBVIOUS
<1>3. \A k \in 1 .. Len(t) : Len(s) + k \in 1 .. Len(r) /\ r[Len(s) + k] = t[k]
  OBVIOUS
<1>4. ASSUME NEW i \in 1 .. Len(r), i \notin 1 .. Len(s)
      PROVE  \E k \in 1 .. Len(t) : i = Len(s) + k
  <2>1. i - Len(s) \in 1 .. Len(t) /\ i = Len(s) + (i - Len(s))
    BY <1>1, <1>4
  <2> QED BY <2>1
<1> QED BY <1>1, <1>2, <1>3, <1>4

-----------------------------------------------------------------------------
(* Types *)

LEMMA Numbers == N \in Nat /\ Msgs = 1 .. N /\ 0 .. Cardinality(Msgs) = 0 .. N
BY FS_CardinalityType, InflowAssumption DEF N

LEMMA Basics ==
  ASSUME IInv
  PROVE  /\ toBroker \in Seq(PacketTypes) /\ toClient \in Seq(PacketTypes)
         /\ queue \in Seq(Entries) /\ Len(queue) \in Nat /\ Len(toBroker) \in Nat /\ Len(toClient) \in Nat
         /\ \A i \in Wire : toBroker[i] \in PacketTypes
         /\ \A i \in Back : toClient[i] \in PacketTypes
         /\ \A i \in Queue : queue[i] \in Entries
BY DEF IInv, Types, TypeOK, Wire, Back, Queue

LEMMA ClientEntries ==
  ASSUME IInv, NEW x \in Unfinished
  PROVE  /\ x.type \in {"PUBLISH", "PUBREL"} /\ x.pid \in Pids /\ x.msg \in Msgs /\ x.qos \in Qoses
         /\ x.msg \in Nat /\ sent \in Nat /\ x.msg <= sent
<1>1. PICK i \in 1 .. Len(inflight) : x = inflight[i]
  BY DEF Unfinished
<1>2. x \in [type : {"PUBLISH", "PUBREL"}, pid : Pids, msg : 1 .. N, qos : Qoses]
  <2>1. inflight \in Seq([type : {"PUBLISH", "PUBREL"}, pid : Pids, msg : 1 .. N, qos : Qoses])
    BY DEF IInv, Types
  <2> QED BY <1>1, <2>1, ElementOfSeq
<1>3. x.msg <= sent
  BY DEF IInv, ClientOK
<1> QED BY <1>2, <1>3, Numbers DEF IInv, Types, TypeOK

\* The client's entries are those of its sequence, as long as that stays.
LEMMA SameClient ==
  ASSUME UNCHANGED inflight
  PROVE  Unfinished' = Unfinished
BY DEF Unfinished

-----------------------------------------------------------------------------
(* The processor takes a packet *)

LEMMA TakeKeeps ==
  ASSUME IInv, NEW a \in {"pubrec", "puback", "processAcked"}, proc.at = "idle", toBroker # <<>>,
         toBroker' = Tail(toBroker), proc' = At(a, Head(toBroker)), UNCHANGED <<inflight, sent, toClient, up>>,
         \/ a = "pubrec" /\ Head(toBroker).type = "PUBLISH" /\ Head(toBroker).qos = 2
         \/ a = "puback" /\ Head(toBroker).type = "PUBLISH" /\ Head(toBroker).qos = 1
         \/ a = "processAcked" /\ Head(toBroker).type = "PUBREL"
  PROVE  /\ ClientOK' /\ OneEach' /\ WireOK' /\ BackOK' /\ ProcOK' /\ AllOnTheWay'
         /\ PublishesInOrder' /\ ReleasedFirst' /\ PubrecsInOrder' /\ PubrecFirst'
<1>1. 1 \in Wire /\ Head(toBroker) = toBroker[1]
  BY Basics, TailFacts DEF Wire
<1>2. \A i \in Wire' : i + 1 \in Wire /\ toBroker'[i] = toBroker[i + 1] /\ i \in Nat /\ 1 < i + 1
  BY Basics, TailFacts DEF Wire
<1>3. \A i \in Wire : i = 1 \/ \E j \in Wire' : toBroker'[j] = toBroker[i]
  BY Basics, TailFacts DEF Wire
<1>4. proc'.at = a /\ proc'.pkt = toBroker[1] /\ Unfinished' = Unfinished /\ Back' = Back
  BY <1>1, SameClient DEF At, Back
<1>5. ClientOK'
  BY <1>4 DEF IInv, ClientOK
<1>6. OneEach'
  <2>1. ASSUME NEW i \in Wire', NEW j \in Wire', toBroker'[i].pid = toBroker'[j].pid PROVE i = j
    <3>1. i + 1 \in Wire /\ j + 1 \in Wire /\ toBroker[i + 1].pid = toBroker[j + 1].pid /\ i \in Nat /\ j \in Nat
      BY <1>2, <2>1
    <3>2. i + 1 = j + 1
      BY <3>1 DEF IInv, OneEach
    <3> QED BY <3>1, <3>2
  <2>2. ASSUME NEW i \in Wire' PROVE toBroker'[i].pid # toBroker[1].pid
    <3>1. i + 1 \in Wire /\ 1 < i + 1 /\ toBroker'[i] = toBroker[i + 1] /\ i \in Nat
      BY <1>2
    <3>2. i + 1 # 1
      BY <3>1
    <3> QED BY <1>1, <3>1, <3>2 DEF IInv, OneEach
  <2>3. ASSUME NEW i \in Wire', NEW j \in Back PROVE toBroker'[i].pid # toClient[j].pid
    <3>1. i + 1 \in Wire /\ toBroker'[i] = toBroker[i + 1]
      BY <1>2
    <3> QED BY <2>3, <3>1 DEF IInv, OneEach
  <2>4. \A i, j \in Back : toClient[i].pid = toClient[j].pid => i = j
    BY DEF IInv, OneEach
  <2>5. \A i \in Back : toClient[i].pid # toBroker[1].pid
    BY <1>1 DEF IInv, OneEach
  <2> QED BY <1>4, <2>1, <2>2, <2>3, <2>4, <2>5 DEF OneEach
<1>7. WireOK'
  <2> SUFFICES ASSUME NEW i \in Wire'
               PROVE  \/ toBroker'[i].type = "PUBLISH" /\ toBroker'[i] \in Unfinished
                      \/ /\ toBroker'[i].type = "PUBREL" /\ toBroker'[i].qos = 0
                         /\ \E x \in Unfinished : x.pid = toBroker'[i].pid /\ x.type = "PUBREL"
    BY <1>4 DEF WireOK
  <2>1. i + 1 \in Wire /\ toBroker'[i] = toBroker[i + 1]
    BY <1>2
  <2> QED BY <2>1 DEF IInv, WireOK
<1>8. BackOK'
  BY <1>4 DEF IInv, BackOK
<1>9. ProcOK'
  BY <1>1, <1>4 DEF IInv, WireOK, ProcOK
<1>10. AllOnTheWay'
  <2> SUFFICES ASSUME up', NEW x \in Unfinished PROVE HasPacket(x)'
    BY <1>4 DEF AllOnTheWay
  <2>1. HasPacket(x)
    BY DEF IInv, AllOnTheWay
  <2> QED BY <1>3, <1>4, <2>1 DEF HasPacket, Busy
<1>11. PubrecFirst'
  <2>1. ASSUME NEW i \in Wire', a = "pubrec", toBroker'[i].type = "PUBLISH" PROVE toBroker[1].msg < toBroker'[i].msg
    <3>1. i + 1 \in Wire /\ 1 < i + 1 /\ toBroker'[i] = toBroker[i + 1]
      BY <1>2
    <3>2. toBroker[1].type = "PUBLISH" /\ toBroker[i + 1].type = "PUBLISH"
      BY <1>1, <2>1, <3>1
    <3> QED BY <1>1, <3>1, <3>2 DEF IInv, PublishesInOrder
  <2> QED BY <1>4, <2>1 DEF PubrecFirst
<1>12. PublishesInOrder'
  <2> SUFFICES ASSUME NEW i \in Wire', NEW j \in Wire', i < j,
                      toBroker'[i].type = "PUBLISH", toBroker'[j].type = "PUBLISH"
               PROVE  toBroker'[i].msg < toBroker'[j].msg
    BY DEF PublishesInOrder
  <2>1. /\ i + 1 \in Wire /\ j + 1 \in Wire /\ i \in Nat /\ j \in Nat
        /\ toBroker'[i] = toBroker[i + 1] /\ toBroker'[j] = toBroker[j + 1]
    BY <1>2
  <2>2. i + 1 < j + 1
    BY <2>1
  <2> QED BY <2>1, <2>2 DEF IInv, PublishesInOrder
<1>13. ReleasedFirst' /\ PubrecsInOrder'
  BY <1>4 DEF IInv, ReleasedFirst, PubrecsInOrder
<1> QED BY <1>5, <1>6, <1>7, <1>8, <1>9, <1>10, <1>11, <1>12, <1>13

\* What is still to come stays in turn when the head is taken, if it is in the
\* queue then or was none of it.
LEMMA TakeSkipsNone ==
  ASSUME IInv, toBroker # <<>>, toBroker' = Tail(toBroker), UNCHANGED <<inflight, trusting>>,
         NEW h, h = Head(toBroker), h \in ToCome' => Queued(h)',
         \A x \in ToCome : Queued(x) => Queued(x)'
  PROVE  ToCome' \subseteq ToCome /\ NoneSkipped'
<1>1. 1 \in Wire /\ h = toBroker[1] /\ \A i \in Wire : i \in Nat
  BY Basics, TailFacts DEF Wire
<1>2. \A i \in Wire' : i + 1 \in Wire /\ toBroker'[i] = toBroker[i + 1] /\ i \in Nat
  BY Basics, TailFacts DEF Wire
<1>3. ToCome' \subseteq ToCome
  BY <1>2, SameClient DEF ToCome
<1>4. ASSUME NEW i \in Wire', NEW x \in ToCome', toBroker'[i].type = "PUBLISH", x.msg < toBroker'[i].msg, ~ Queued(x)'
      PROVE  \E j \in Wire' : j < i /\ toBroker'[j] = x
  <2>1. PICK j \in Wire : j < i + 1 /\ toBroker[j] = x
    <3>1. x \in ToCome /\ ~ Queued(x)
      BY <1>3, <1>4
    <3>2. i + 1 \in Wire /\ toBroker[i + 1].type = "PUBLISH" /\ x.msg < toBroker[i + 1].msg
      BY <1>2, <1>4
    <3> QED BY <3>1, <3>2 DEF IInv, NoneSkipped
  <2>2. j # 1
    BY <1>1, <1>4, <2>1
  <2>3. PICK m \in Wire' : m + 1 = j /\ toBroker'[m] = toBroker[j]
    BY <2>2, Basics, TailFacts DEF Wire
  <2>4. m < i
    <3>1. m + 1 < i + 1 /\ m \in Nat /\ i \in Nat
      BY <1>2, <2>1, <2>3
    <3> QED BY <3>1
  <2> QED BY <2>1, <2>3, <2>4
<1> QED BY <1>3, <1>4 DEF NoneSkipped

\* A PUBREL on its way is behind those of the entries before its own, but for
\* the packet just taken.
LEMMA TakePubrels ==
  ASSUME IInv, Faithful, toBroker # <<>>, toBroker' = Tail(toBroker), UNCHANGED inflight,
         NEW i \in Wire', NEW k \in Queue, NEW x \in Unfinished,
         toBroker'[i].type = "PUBREL", toBroker'[i].pid = x.pid, queue[k].state = "RESERVED", queue[k].msg < x.msg
  PROVE  \/ Head(toBroker).pid = queue[k].pid
         \/ \E j \in Wire' : j < i /\ toBroker'[j].pid = queue[k].pid
<1>1. 1 \in Wire /\ Head(toBroker) = toBroker[1] /\ \A j \in Wire : j \in Nat
  BY Basics, TailFacts DEF Wire
<1>2. \A j \in Wire' : j + 1 \in Wire /\ toBroker'[j] = toBroker[j + 1] /\ j \in Nat
  BY Basics, TailFacts DEF Wire
<1>3. PICK j \in Wire : j < i + 1 /\ toBroker[j].pid = queue[k].pid
  <2>1. i + 1 \in Wire /\ toBroker[i + 1].type = "PUBREL" /\ toBroker[i + 1].pid = x.pid
    BY <1>2
  <2> QED BY <2>1 DEF IInv, PubrelsInOrder
<1>4. CASE j = 1
  BY <1>1, <1>3, <1>4
<1>5. CASE j # 1
  <2>1. PICK m \in Wire' : m + 1 = j /\ toBroker'[m] = toBroker[j]
    BY <1>5, Basics, TailFacts DEF Wire
  <2>2. m < i
    <3>1. m + 1 < i + 1 /\ m \in Nat /\ i \in Nat
      BY <1>2, <1>3, <2>1
    <3> QED BY <3>1
  <2> QED BY <1>3, <2>1, <2>2
<1> QED BY <1>4, <1>5

\* The types of a step that takes a packet.
LEMMA TakeTypes ==
  ASSUME IInv, toBroker # <<>>, toBroker' = Tail(toBroker), NEW a \in {"pubrec", "puback", "processAcked"},
         proc' = At(a, Head(toBroker))
  PROVE  /\ toBroker' \in Seq(PacketTypes)
         /\ proc' \in Processors
         /\ proc'.at = a /\ proc'.pkt = Head(toBroker) /\ Head(toBroker) \in PacketTypes
<1>1. toBroker' \in Seq(PacketTypes) /\ Head(toBroker) = toBroker[1] /\ 1 \in Wire
  BY Basics, TailFacts DEF Wire
<1> QED BY <1>1, Basics DEF At, Processors

LEMMA Publish1Keeps ==
  ASSUME IInv, ProcessPublish1
  PROVE  IInv'
<1> DEFINE h == Head(toBroker)
<1>1. /\ proc.at = "idle" /\ toBroker # <<>> /\ h.type = "PUBLISH" /\ h.qos = 1
      /\ toBroker' = Tail(toBroker) /\ proc' = At("puback", h)
      /\ UNCHANGED <<queue, published, inflight, sent, completed, up, toClient, drops, givenUp, shadowed, trusting>>
  BY DEF ProcessPublish1, Takes, client, history
<1>2. Unfinished' = Unfinished /\ Back' = Back /\ Queue' = Queue
  BY <1>1, SameClient DEF Back, Queue
<1>3. proc'.at = "puback"
  BY <1>1, TakeTypes
<1>4. /\ ClientOK' /\ OneEach' /\ WireOK' /\ BackOK' /\ ProcOK' /\ AllOnTheWay'
      /\ PublishesInOrder' /\ ReleasedFirst' /\ PubrecsInOrder' /\ PubrecFirst'
  BY <1>1, TakeKeeps
<1>5. Types'
  BY <1>1, <1>3, TakeTypes DEF IInv, Types, TypeOK
<1>6. QueueSorted' /\ AfterPublished' /\ BelowSent' /\ EntriesMatch' /\ OnceInOrder'
  BY <1>1, <1>2 DEF IInv, QueueSorted, AfterPublished, BelowSent, EntriesMatch, OnceInOrder, Published2
<1>7. \A x : Queued(x)' = Queued(x) /\ Later(x)' = Later(x)
  BY <1>1, <1>2 DEF Queued, Later, Published2
<1>8. h \notin ToCome'
  BY <1>1 DEF ToCome
<1>9. ToCome' \subseteq ToCome /\ NoneSkipped'
  BY <1>1, <1>7, <1>8, TakeSkipsNone
<1>10. NewIsLater'
  BY <1>7, <1>9 DEF IInv, NewIsLater
<1>11. ASSUME Faithful PROVE OnlyHead' /\ QueueUnfinished' /\ PubrelsInOrder' /\ PubcompAfter'
  <2>1. OnlyHead' /\ QueueUnfinished' /\ PubcompAfter'
    BY <1>1, <1>2, <1>3, <1>11 DEF IInv, OnlyHead, QueueUnfinished, PubcompAfter
  <2>5. PubrelsInOrder'
    <3> SUFFICES ASSUME NEW i \in Wire', NEW k \in Queue, NEW x \in Unfinished,
                        toBroker'[i].type = "PUBREL", toBroker'[i].pid = x.pid,
                        queue[k].state = "RESERVED", queue[k].msg < x.msg
                 PROVE  \E j \in Wire' : j < i /\ toBroker'[j].pid = queue[k].pid
      BY <1>1, <1>2 DEF PubrelsInOrder
    <3>1. PICK y \in Unfinished : y.pid = queue[k].pid /\ y.qos = 2
      BY <1>11 DEF IInv, QueueUnfinished
    <3>2. h \in Unfinished
      BY <1>1, TailFacts, Basics DEF IInv, WireOK, Wire
    <3>3. h.pid # queue[k].pid
      BY <1>1, <3>1, <3>2 DEF IInv, ClientOK
    <3> QED BY <1>1, <1>11, <3>3, TakePubrels
  <2> QED BY <2>1, <2>5
<1>12. PubrecKept' /\ BackKept' /\ ReleasedKept' /\ PubcompReleased' /\ CompletedKept'
  <2>1. \A m : (Safe(m) => Safe(m)') /\ Released(m)' = Released(m)
    BY <1>1, <1>2 DEF Safe, IsPublished, Released
  <2>2. \A x : Stored(x)' = Stored(x) /\ Published2(x.msg)' = Published2(x.msg)
    BY <1>1, <1>7 DEF Stored, Published2
  <2>3. PubrecKept' /\ PubcompReleased'
    BY <1>1, <1>2, <1>3 DEF IInv, PubrecKept, PubcompReleased
  <2>4. BackKept' /\ ReleasedKept' /\ CompletedKept'
    BY <1>1, <1>2, <2>1, <2>2 DEF IInv, BackKept, ReleasedKept, CompletedKept
  <2> QED BY <2>3, <2>4
<1>13. HistoryOK' /\ Faithful' = Faithful
  BY <1>1, <1>2 DEF IInv, HistoryOK, Faithful
<1> QED BY <1>4, <1>5, <1>6, <1>9, <1>10, <1>11, <1>12, <1>13 DEF IInv

\* The effect of Wait on the queue.
LEMMA WaitAppends ==
  ASSUME IInv, NEW h \in Unfinished, h.qos = 2,
         queue' = IF h.msg \in Unencodable THEN queue ELSE Inserted(queue, NewEntry("PUBLISH", h.pid, h.msg))
  PROVE  /\ queue' \in Seq(Entries) /\ (Len(queue') > 0 => 2 \in Qoses)
         /\ \A k \in Queue : k \in Queue' /\ queue'[k] = queue[k]
         /\ \A k \in Queue' : k \in Queue \/
              /\ \A j \in Queue : j < k /\ queue[j].pid # h.pid
              /\ queue'[k].pid = h.pid /\ queue'[k].msg = h.msg /\ queue'[k].state = "RESERVED"
              /\ h.msg \notin Unencodable /\ k = Len(queue) + 1
         /\ h.msg \notin Unencodable => \E k \in Queue' : queue'[k].pid = h.pid
<1> DEFINE e == NewEntry("PUBLISH", h.pid, h.msg)
<1>1. h.pid \in Pids /\ h.msg \in Msgs /\ h.qos \in Qoses
  BY ClientEntries
<1>2. e \in Entries /\ e.pid = h.pid /\ e.msg = h.msg /\ e.state = "RESERVED"
  BY <1>1, InflowAssumption DEF NewEntry, Entries
<1>5. queue' = IF h.msg \in Unencodable \/ HasPid(queue, h.pid) THEN queue ELSE Append(queue, e)
  BY <1>2 DEF Inserted
<1> HIDE DEF e
<1>3. CASE queue' = queue /\ (h.msg \in Unencodable \/ HasPid(queue, h.pid))
  <2>1. queue' \in Seq(Entries) /\ (Len(queue') > 0 => 2 \in Qoses) /\ Queue' = Queue
    BY <1>3, Basics DEF IInv, Types, Queue
  <2> QED BY <1>3, <2>1 DEF HasPid, Queue
<1>4. CASE queue' = Append(queue, e) /\ h.msg \notin Unencodable /\ ~ HasPid(queue, h.pid)
  <2>1. \A j \in Queue : queue[j].pid # h.pid
    BY <1>4 DEF HasPid, Queue
  <2>2. /\ queue' \in Seq(Entries) /\ Len(queue') = Len(queue) + 1 /\ queue'[Len(queue) + 1] = e
        /\ \A k \in Queue : k \in Queue' /\ queue'[k] = queue[k]
        /\ \A k \in Queue' : k \in Queue \/ k = Len(queue) + 1
    <3>1. /\ queue' \in Seq(Entries) /\ Len(queue') = Len(queue) + 1 /\ queue'[Len(queue) + 1] = e
          /\ \A k \in 1 .. Len(queue) : k \in 1 .. Len(queue') /\ queue'[k] = queue[k]
          /\ \A k \in 1 .. Len(queue') : k \in 1 .. Len(queue) \/ k = Len(queue) + 1
      <4>1. queue \in Seq(Entries) /\ e \in Entries /\ queue' = Append(queue, e)
        BY <1>2, <1>4, Basics
      <4> QED BY <4>1, AppendFacts
    <3> QED BY <3>1 DEF Queue
  <2>3. Len(queue) + 1 \in Queue' /\ \A j \in Queue : j < Len(queue) + 1
    BY <2>2, Basics DEF Queue
  <2> QED BY <1>1, <1>2, <1>4, <2>1, <2>2, <2>3
<1> QED BY <1>3, <1>4, <1>5

LEMMA Publish2Keeps ==
  ASSUME IInv, ProcessPublish2
  PROVE  IInv'
<1>1. PICK h \in PacketTypes :
      /\ h = Head(toBroker) /\ proc.at = "idle" /\ toBroker # <<>> /\ h.type = "PUBLISH" /\ h.qos = 2
      /\ toBroker' = Tail(toBroker) /\ proc' = At("pubrec", Head(toBroker))
      /\ queue' = IF h.msg \in Unencodable THEN queue ELSE Inserted(queue, NewEntry("PUBLISH", h.pid, h.msg))
      /\ shadowed' = IF ShadowedIn(queue, h) THEN shadowed \cup {h.msg} ELSE shadowed
      /\ UNCHANGED <<published, inflight, sent, completed, up, toClient, drops, givenUp, trusting>>
  BY TailFacts, Basics DEF ProcessPublish2, Takes, client, Wire
<1>2. Unfinished' = Unfinished /\ Back' = Back /\ \A m : Published2(m)' = Published2(m)
  BY <1>1, SameClient DEF Back, Published2
<1>3. proc'.at = "pubrec" /\ proc'.pkt = h
  BY <1>1, TakeTypes
<1>4. /\ ClientOK' /\ OneEach' /\ WireOK' /\ BackOK' /\ ProcOK' /\ AllOnTheWay'
      /\ PublishesInOrder' /\ ReleasedFirst' /\ PubrecsInOrder' /\ PubrecFirst'
  BY <1>1, TakeKeeps
<1>5. h \in Unfinished /\ 1 \in Wire /\ toBroker[1] = h
  BY <1>1, TailFacts, Basics DEF IInv, WireOK, Wire
<1>6. h.msg \in Msgs /\ h.msg <= sent
  BY <1>5, ClientEntries
<1>7. /\ queue' \in Seq(Entries) /\ (Len(queue') > 0 => 2 \in Qoses)
      /\ \A k \in Queue : k \in Queue' /\ queue'[k] = queue[k]
  BY <1>1, <1>5, WaitAppends
<1>8. \A k \in Queue' : k \in Queue \/
        /\ \A j \in Queue : j < k /\ queue[j].pid # h.pid
        /\ queue'[k].pid = h.pid /\ queue'[k].msg = h.msg /\ queue'[k].state = "RESERVED"
        /\ h.msg \notin Unencodable /\ k = Len(queue) + 1
  BY <1>1, <1>5, WaitAppends
<1>9. h.msg \notin Unencodable => \E k \in Queue' : queue'[k].pid = h.pid
  BY <1>1, <1>5, WaitAppends
<1>10. Types'
  BY <1>1, <1>3, <1>7, TakeTypes DEF IInv, Types, TypeOK
<1>11. (\A x : Queued(x) => Queued(x)') /\ \A x : Stored(x) => Stored(x)'
  BY <1>1, <1>7 DEF Queued, Stored
\* The message is later than what is in the queue.
<1>12. ASSUME NEW k \in Queue', k \notin Queue
       PROVE  Later(h) /\ h \in ToCome
  <2>1. h \in ToCome /\ ~ Queued(h)
    BY <1>1, <1>5, <1>8, <1>12 DEF ToCome, Queued
  <2> QED BY <2>1 DEF IInv, NewIsLater
<1>13. QueueSorted'
  <2> SUFFICES ASSUME NEW i \in Queue', NEW j \in Queue', i < j
               PROVE  queue'[i].msg < queue'[j].msg /\ queue'[i].pid # queue'[j].pid
    BY DEF QueueSorted
  <2>1. i \in Nat /\ j \in Nat /\ Len(queue) \in Nat
    BY <1>7, Basics DEF Queue
  <2>2. i \in Queue
    BY <1>7, <1>8, <2>1 DEF Queue
  <2>3. CASE j \in Queue
    BY <1>7, <2>2, <2>3 DEF IInv, QueueSorted
  <2>4. CASE j \notin Queue
    BY <1>7, <1>8, <1>12, <2>2, <2>4 DEF Later
  <2> QED BY <2>3, <2>4
<1>14. AfterPublished' /\ BelowSent'
  BY <1>1, <1>2, <1>6, <1>7, <1>8, <1>12 DEF IInv, AfterPublished, BelowSent, Later
<1>15. EntriesMatch'
  BY <1>2, <1>5, <1>7, <1>8 DEF IInv, EntriesMatch, ClientOK
<1>16. OnceInOrder'
  BY <1>1 DEF IInv, OnceInOrder
\* The queue has the message now, or its identifier with another one.
<1>17. h.msg \notin Unencodable => Queued(h)' \/ ShadowedIn(queue, h)
  <2> SUFFICES ASSUME h.msg \notin Unencodable PROVE Queued(h)' \/ ShadowedIn(queue, h)
    OBVIOUS
  <2>1. PICK k \in Queue' : queue'[k].pid = h.pid
    BY <1>9
  <2>2. CASE k \in Queue
    BY <1>7, <2>1, <2>2 DEF Queued, ShadowedIn, Queue
  <2>3. CASE k \notin Queue
    BY <1>8, <2>3 DEF Queued
  <2> QED BY <2>2, <2>3
<1>24. ASSUME Faithful PROVE ~ ShadowedIn(queue, h)
  <2> SUFFICES ASSUME NEW k \in Queue, queue[k].pid = h.pid PROVE queue[k].msg = h.msg
    BY DEF ShadowedIn, Queue
  <2>1. PICK x \in Unfinished : x.pid = queue[k].pid /\ x.msg = queue[k].msg
    BY <1>24 DEF IInv, QueueUnfinished
  <2> QED BY <1>5, <2>1 DEF IInv, ClientOK
<1>18. h \in ToCome' => Queued(h)'
  <2> SUFFICES ASSUME h \in ToCome' PROVE Queued(h)'
    OBVIOUS
  <2>1. ~ trusting
    BY <1>1, <1>3, <1>4 DEF ToCome, OneEach, Busy
  <2>2. Faithful
    BY <2>1 DEF IInv, HistoryOK
  <2> QED BY <1>17, <1>24, <2>2 DEF ToCome
<1>19. ToCome' \subseteq ToCome /\ NoneSkipped'
  BY <1>1, <1>11, <1>18, TakeSkipsNone
<1>20. NewIsLater'
  <2> SUFFICES ASSUME NEW x \in ToCome', ~ Queued(x)' PROVE Later(x)'
    BY DEF NewIsLater
  <2>1. x \in ToCome /\ ~ Queued(x) /\ x # h
    BY <1>11, <1>18, <1>19
  <2>2. Later(x)
    BY <2>1 DEF IInv, NewIsLater
  <2>3. h.msg < x.msg
    <3>1. \A i \in Wire : ~ i < 1
      BY DEF Wire
    <3>2. ~ x.msg < h.msg
      BY <1>1, <1>5, <2>1, <3>1 DEF IInv, NoneSkipped
    <3>3. x \in Unfinished /\ x.msg # h.msg
      BY <1>5, <2>1 DEF IInv, ClientOK, ToCome
    <3>4. x.msg \in Nat /\ h.msg \in Nat
      BY <1>5, <3>3, ClientEntries
    <3> QED BY <3>2, <3>3, <3>4
  <2> QED BY <1>2, <1>7, <1>8, <2>2, <2>3 DEF Later
<1>21. ASSUME Faithful PROVE OnlyHead' /\ QueueUnfinished' /\ PubrelsInOrder' /\ PubcompAfter'
  <2>1. OnlyHead'
    BY <1>1, <1>3, <1>7, <1>8, <1>21 DEF IInv, OnlyHead
  <2>2. QueueUnfinished'
    BY <1>1, <1>2, <1>5, <1>7, <1>8, <1>21 DEF IInv, QueueUnfinished
  <2>3. PubcompAfter'
    <3>1. \A i \in Back : toClient[i].pid # h.pid
      BY <1>5 DEF IInv, OneEach
    <3> QED BY <1>1, <1>2, <1>3, <1>7, <1>8, <1>21, <3>1 DEF IInv, PubcompAfter
  <2>7. PubrelsInOrder'
    <3> SUFFICES ASSUME NEW i \in Wire', NEW k \in Queue', NEW x \in Unfinished,
                        toBroker'[i].type = "PUBREL", toBroker'[i].pid = x.pid,
                        queue'[k].state = "RESERVED", queue'[k].msg < x.msg
                 PROVE  \E j \in Wire' : j < i /\ toBroker'[j].pid = queue'[k].pid
      BY <1>2 DEF PubrelsInOrder
    <3>1. x.type = "PUBREL"
      BY <1>2, <1>4 DEF WireOK, ClientOK
    <3>2. h.msg < x.msg => FALSE
      BY <1>1, <1>5, <3>1 DEF IInv, ReleasedFirst
    <3>3. k \in Queue /\ queue'[k] = queue[k]
      BY <1>7, <1>8, <3>2
    <3>4. PICK y \in Unfinished : y.pid = queue[k].pid /\ y.msg = queue[k].msg
      BY <1>21, <3>3 DEF IInv, QueueUnfinished
    <3>5. h.pid # queue[k].pid
      BY <1>5, <3>2, <3>3, <3>4 DEF IInv, ClientOK
    <3>6. queue[k].state = "RESERVED" /\ queue[k].msg < x.msg
      BY <3>3
    <3>7. Head(toBroker).pid = queue[k].pid \/ \E j \in Wire' : j < i /\ toBroker'[j].pid = queue[k].pid
      BY <1>1, <1>21, <3>3, <3>6, TakePubrels
    <3> QED BY <1>1, <3>3, <3>5, <3>7
  <2> QED BY <2>1, <2>2, <2>3, <2>7
<1>22. PubrecKept' /\ BackKept' /\ ReleasedKept' /\ PubcompReleased' /\ CompletedKept'
  <2>1. PubrecKept'
    <3>1. Stored(h)'
      BY <1>1, <1>17 DEF Stored
    <3> QED BY <1>3, <3>1 DEF PubrecKept, Stored, Queued
  <2>2. \A m : (Safe(m) => Safe(m)') /\ (Released(m) => Released(m)')
    BY <1>1, <1>7 DEF Safe, IsPublished, Released
  <2>3. BackKept' /\ ReleasedKept' /\ CompletedKept'
    BY <1>1, <1>2, <1>11, <2>2 DEF IInv, BackKept, ReleasedKept, CompletedKept
  <2>4. PubcompReleased'
    <3>1. \A i \in Back : toClient[i].pid # h.pid
      BY <1>5 DEF IInv, OneEach
    <3> QED BY <1>1, <1>2, <1>3, <1>7, <1>8, <3>1 DEF IInv, PubcompReleased
  <2> QED BY <2>1, <2>3, <2>4
<1>23. HistoryOK' /\ Faithful' = Faithful
  <2>1. ASSUME ShadowedIn(queue, h) PROVE \E g \in givenUp : g < h.msg
    <3>1. ~ Faithful
      BY <1>24, <2>1
    <3> QED BY <1>5, <3>1 DEF IInv, HistoryOK, Faithful
  <2> QED BY <1>1, <1>2, <2>1 DEF IInv, HistoryOK, Faithful
<1> QED BY <1>4, <1>10, <1>13, <1>14, <1>15, <1>16, <1>19, <1>20, <1>21, <1>22, <1>23 DEF IInv

LEMMA PubrelKeeps ==
  ASSUME IInv, ProcessPubrel
  PROVE  IInv'
<1>1. PICK h \in PacketTypes :
      /\ h = Head(toBroker) /\ proc.at = "idle" /\ toBroker # <<>> /\ h.type = "PUBREL"
      /\ toBroker' = Tail(toBroker) /\ proc' = At("processAcked", Head(toBroker))
      /\ queue' = Acknowledged(queue, "PUBREL", h.pid)
      /\ UNCHANGED <<published, inflight, sent, completed, up, toClient, drops, givenUp, shadowed, trusting>>
  BY TailFacts, Basics DEF ProcessPubrel, Takes, client, Wire, history
<1>2. Unfinished' = Unfinished /\ Back' = Back /\ \A m : Published2(m)' = Published2(m)
  BY <1>1, SameClient DEF Back, Published2
<1>3. proc'.at = "processAcked" /\ proc'.pkt = h
  BY <1>1, TakeTypes
<1>4. /\ ClientOK' /\ OneEach' /\ WireOK' /\ BackOK' /\ ProcOK' /\ AllOnTheWay'
      /\ PublishesInOrder' /\ ReleasedFirst' /\ PubrecsInOrder' /\ PubrecFirst'
  BY <1>1, TakeKeeps
<1>5. 1 \in Wire /\ toBroker[1] = h
  BY <1>1, TailFacts, Basics DEF Wire
<1>6. PICK y \in Unfinished : y.pid = h.pid /\ y.type = "PUBREL"
  BY <1>1, <1>5 DEF IInv, WireOK
<1>7. /\ queue' \in Seq(Entries) /\ Queue' = Queue /\ Len(queue') = Len(queue)
      /\ \A k \in Queue : /\ queue'[k].pid = queue[k].pid /\ queue'[k].msg = queue[k].msg
                          /\ queue'[k].state = IF queue[k].pid = h.pid THEN "PUBREL" ELSE queue[k].state
  <2>1. \A k \in 1 .. Len(queue) : queue[k] \in Entries /\ [queue[k] EXCEPT !.state = "PUBREL"] \in Entries
    BY Basics, InflowAssumption DEF Queue, Entries
  <2>2. queue' = [k \in 1 .. Len(queue) |->
                    IF queue[k].pid = h.pid THEN [queue[k] EXCEPT !.state = "PUBREL"] ELSE queue[k]]
    BY <1>1 DEF Acknowledged
  <2>3. queue' \in Seq(Entries) /\ Len(queue') = Len(queue)
    BY <2>1, <2>2, Basics
  <2>4. \A k \in Queue : queue'[k] = IF queue[k].pid = h.pid THEN [queue[k] EXCEPT !.state = "PUBREL"] ELSE queue[k]
    BY <2>2 DEF Queue
  <2>5. \A k \in Queue : /\ queue'[k].pid = queue[k].pid /\ queue'[k].msg = queue[k].msg
                         /\ queue'[k].state = IF queue[k].pid = h.pid THEN "PUBREL" ELSE queue[k].state
    BY <2>1, <2>4 DEF Entries, Queue
  <2> QED BY <2>3, <2>5 DEF Queue
<1>8. Types'
  BY <1>1, <1>3, <1>7, TakeTypes DEF IInv, Types, TypeOK
<1>9. (\A x : Queued(x)' = Queued(x)) /\ (\A x : Stored(x)' = Stored(x)) /\ \A x : Later(x)' = Later(x)
  BY <1>1, <1>2, <1>7 DEF Queued, Stored, Later
<1>10. QueueSorted' /\ AfterPublished' /\ BelowSent' /\ OnceInOrder'
  BY <1>1, <1>2, <1>7 DEF IInv, QueueSorted, AfterPublished, BelowSent, OnceInOrder
<1>11. EntriesMatch'
  <2> SUFFICES ASSUME NEW k \in Queue, NEW x \in Unfinished, x.msg = queue[k].msg
               PROVE  x.pid = queue[k].pid /\ (x.type = "PUBLISH" => queue'[k].state # "PUBREL")
    BY <1>2, <1>7 DEF EntriesMatch
  <2>1. x.pid = queue[k].pid /\ (x.type = "PUBLISH" => queue[k].state # "PUBREL")
    BY DEF IInv, EntriesMatch
  <2>2. x.pid = h.pid => x = y
    BY <1>6 DEF IInv, ClientOK
  <2> QED BY <1>6, <1>7, <2>1, <2>2
<1>12. h \notin ToCome'
  BY <1>1 DEF ToCome
<1>13. ToCome' \subseteq ToCome /\ NoneSkipped'
  BY <1>1, <1>9, <1>12, TakeSkipsNone
<1>14. NewIsLater'
  BY <1>9, <1>13 DEF IInv, NewIsLater
<1>15. ASSUME Faithful PROVE OnlyHead' /\ QueueUnfinished' /\ PubrelsInOrder' /\ PubcompAfter'
  <2>1. \A k \in Queue : queue[k].state = "RESERVED"
    BY <1>1, <1>15, Basics, InflowAssumption DEF IInv, OnlyHead, Entries
\* The PUBREL is for the head: those of the entries before it would come before it.
  <2>2. ASSUME NEW k \in Queue, queue[k].pid = h.pid PROVE k = 1
    <3> SUFFICES ASSUME k # 1 PROVE FALSE
      OBVIOUS
    <3>1. 1 \in Queue /\ 1 < k
      BY Basics DEF Queue
    <3>2. queue[1].msg < queue[k].msg /\ queue[1].state = "RESERVED"
      BY <2>1, <3>1 DEF IInv, QueueSorted
    <3>3. PICK x \in Unfinished : x.pid = queue[k].pid /\ x.msg = queue[k].msg
      BY <1>15 DEF IInv, QueueUnfinished
    <3>4. \E j \in Wire : j < 1 /\ toBroker[j].pid = queue[1].pid
      BY <1>1, <1>5, <1>15, <2>2, <3>1, <3>2, <3>3 DEF IInv, PubrelsInOrder
    <3> QED BY <3>4 DEF Wire
  <2>3. OnlyHead'
    BY <1>3, <1>7, <2>1, <2>2 DEF OnlyHead
  <2>4. QueueUnfinished' /\ PubcompAfter'
    BY <1>1, <1>2, <1>3, <1>7, <1>15 DEF IInv, QueueUnfinished, PubcompAfter
  <2>8. PubrelsInOrder'
    <3> SUFFICES ASSUME NEW i \in Wire', NEW k \in Queue, NEW x \in Unfinished,
                        toBroker'[i].type = "PUBREL", toBroker'[i].pid = x.pid,
                        queue'[k].state = "RESERVED", queue[k].msg < x.msg
                 PROVE  \E j \in Wire' : j < i /\ toBroker'[j].pid = queue[k].pid
      BY <1>2, <1>7 DEF PubrelsInOrder
    <3>1. queue[k].pid # h.pid /\ queue[k].state = "RESERVED"
      BY <1>7, <2>1
    <3>2. Head(toBroker).pid = queue[k].pid \/ \E j \in Wire' : j < i /\ toBroker'[j].pid = queue[k].pid
      BY <1>1, <1>15, <3>1, TakePubrels
    <3> QED BY <1>1, <3>1, <3>2
  <2> QED BY <2>3, <2>4, <2>8
<1>16. PubrecKept' /\ BackKept' /\ ReleasedKept' /\ PubcompReleased' /\ CompletedKept'
  <2>1. PubrecKept'
    BY <1>3 DEF PubrecKept
  <2>2. \A m : (Safe(m) => Safe(m)') /\ (Released(m) => Released(m)')
    BY <1>1, <1>7 DEF Safe, IsPublished, Released
  <2>3. BackKept' /\ ReleasedKept' /\ CompletedKept'
    BY <1>1, <1>2, <1>9, <2>2 DEF IInv, BackKept, ReleasedKept, CompletedKept
  <2>4. PubcompReleased'
    BY <1>1, <1>2, <1>3, <1>7 DEF IInv, PubcompReleased
  <2> QED BY <2>1, <2>3, <2>4
<1>17. HistoryOK' /\ Faithful' = Faithful
  BY <1>1, <1>2 DEF IInv, HistoryOK, Faithful
<1> QED BY <1>4, <1>8, <1>10, <1>11, <1>13, <1>14, <1>15, <1>16, <1>17 DEF IInv

-----------------------------------------------------------------------------
(* The processor publishes *)

Publications == [msg : Msgs, qos : Qoses]

LEMMA OnPublishKeeps ==
  ASSUME IInv, OnPublish
  PROVE  IInv'
<1>1. PICK e \in Publications :
        /\ e = Publication(proc.pkt.msg, 1) /\ e.msg = proc.pkt.msg /\ e.qos = 1
        /\ proc.at = "onPublish" /\ published' = Append(published, e) /\ proc' = Idle
        /\ UNCHANGED <<queue, inflight, sent, completed, up, toBroker, toClient, drops, givenUp, shadowed, trusting>>
  BY DEF IInv, Types, OnPublish, Publication, Publications, client, history
<1>2. /\ Unfinished' = Unfinished /\ Back' = Back /\ Wire' = Wire /\ Queue' = Queue
      /\ proc'.at = "idle" /\ ~ Busy /\ ~ Busy'
  BY <1>1, SameClient DEF Back, Wire, Queue, Idle, At, Busy
<1>3. published \in Seq(Publications)
  BY DEF IInv, Types, TypeOK, Publications
<1>4. /\ published' \in Seq(Publications) /\ Len(published') = Len(published) + 1
      /\ \A i \in 1 .. Len(published) : i \in 1 .. Len(published') /\ published'[i] = published[i]
      /\ published'[Len(published) + 1] = e
      /\ \A i \in 1 .. Len(published') : i \in 1 .. Len(published) \/ i = Len(published) + 1
  <2> HIDE DEF Publications
  <2> QED BY <1>1, <1>3, AppendFacts
<1>5. \A m : Published2(m)' <=> Published2(m)
  BY <1>1, <1>4 DEF Published2
<1>6. IsPublished(e.msg)' /\ \A m : IsPublished(m) => IsPublished(m)'
  <2>1. DOMAIN published = 1 .. Len(published) /\ DOMAIN published' = 1 .. Len(published')
    BY <1>3, <1>4
  <2>2. Len(published) + 1 \in 1 .. Len(published')
    BY <1>3, <1>4
  <2> QED BY <1>4, <2>1, <2>2 DEF IsPublished
<1>7. \A m : Safe(m) => Safe(m)'
  BY <1>1, <1>6 DEF Safe
<1>8. Types'
  <2>1. proc' \in Processors
    BY <1>1, Numbers DEF Idle, At, Bare, Packet, PacketTypes, Processors
  <2> QED BY <1>1, <1>2, <1>4, <2>1 DEF IInv, Types, TypeOK, Publications
<1>9. (\A x : HasPacket(x)' = HasPacket(x)) /\ ToCome' = ToCome
  BY <1>1, <1>2 DEF HasPacket, ToCome
<1>10. ClientOK' /\ OneEach' /\ WireOK' /\ BackOK' /\ ProcOK' /\ AllOnTheWay'
  BY <1>1, <1>2, <1>9 DEF IInv, ClientOK, OneEach, WireOK, BackOK, ProcOK, AllOnTheWay
<1>11. (\A x : Queued(x)' = Queued(x)) /\ (\A x : Later(x)' = Later(x)) /\ \A x : Stored(x)' = Stored(x)
  BY <1>1, <1>2, <1>5 DEF Queued, Later, Stored
<1>12. QueueSorted' /\ AfterPublished' /\ BelowSent' /\ EntriesMatch'
  BY <1>1, <1>2, <1>5 DEF IInv, QueueSorted, AfterPublished, BelowSent, EntriesMatch
<1>13. NewIsLater' /\ PublishesInOrder' /\ NoneSkipped'
  BY <1>1, <1>2, <1>9, <1>11 DEF IInv, NewIsLater, PublishesInOrder, NoneSkipped
<1>14. OnceInOrder'
  <2> SUFFICES ASSUME NEW i \in DOMAIN published', NEW j \in DOMAIN published', i < j,
                      published'[i].qos = 2, published'[j].qos = 2
               PROVE  published'[i].msg < published'[j].msg
    BY DEF OnceInOrder
  <2>1. /\ i \in 1 .. Len(published) /\ j \in 1 .. Len(published)
        /\ published'[i] = published[i] /\ published'[j] = published[j]
    BY <1>1, <1>4
  <2> QED BY <1>3, <2>1 DEF IInv, OnceInOrder
<1>15. ReleasedFirst' /\ PubrecsInOrder' /\ PubrecFirst'
  BY <1>1, <1>2 DEF IInv, ReleasedFirst, PubrecsInOrder, PubrecFirst
<1>16. ASSUME Faithful PROVE OnlyHead' /\ QueueUnfinished' /\ PubrelsInOrder' /\ PubcompAfter'
  <2>1. OnlyHead' /\ QueueUnfinished' /\ PubrelsInOrder' /\ PubcompAfter'
    BY <1>1, <1>2, <1>16 DEF IInv, OnlyHead, QueueUnfinished, PubrelsInOrder, PubcompAfter
  <2> QED BY <2>1
<1>17. PubrecKept' /\ BackKept' /\ ReleasedKept' /\ PubcompReleased' /\ CompletedKept'
  <2>1. \A m : Released(m)' = Released(m)
    BY <1>1, <1>2 DEF Released
  <2> QED BY <1>1, <1>2, <1>5, <1>7, <1>11, <2>1
          DEF IInv, PubrecKept, BackKept, ReleasedKept, PubcompReleased, CompletedKept
<1>18. HistoryOK' /\ Faithful' = Faithful
  BY <1>1, <1>2 DEF IInv, HistoryOK, Faithful
<1> QED BY <1>8, <1>10, <1>12, <1>13, <1>14, <1>15, <1>16, <1>17, <1>18 DEF IInv

LEMMA AckedKeeps ==
  ASSUME IInv, ProcessAcked
  PROVE  IInv'
<1>1. PICK n \in 0 .. Len(queue) :
        /\ proc.at = "processAcked" /\ IsCompletedPrefix(queue, n)
        /\ published' = published \o [i \in 1 .. n |-> Publication(queue[i].msg, 2)]
        /\ queue' = SubSeq(queue, n + 1, Len(queue)) /\ proc' = At("pubcomp", proc.pkt)
        /\ UNCHANGED <<inflight, sent, completed, up, toBroker, toClient, drops, givenUp, shadowed, trusting>>
  BY DEF ProcessAcked, client, history
<1>2. /\ Unfinished' = Unfinished /\ Back' = Back /\ Wire' = Wire
      /\ proc'.at = "pubcomp" /\ proc'.pkt = proc.pkt /\ Busy /\ Busy'
  BY <1>1, SameClient DEF Back, Wire, At, Busy
<1>3. n \in Nat /\ n <= Len(queue) /\ queue \in Seq(Entries) /\ Len(queue) \in Nat
  BY Basics
<1>4. /\ queue' \in Seq(Entries) /\ Len(queue') = Len(queue) - n
      /\ \A k \in Queue' : k \in Nat /\ k + n \in Queue /\ queue'[k] = queue[k + n]
      /\ \A k \in Queue : k <= n \/ \E j \in Queue' : queue'[j] = queue[k]
  <2>1. queue' \in Seq(Entries) /\ Len(queue') = Len(queue) - n
    BY <1>1, <1>3
  <2>2. \A k \in 1 .. Len(queue) - n : queue'[k] = queue[k + n]
    BY <1>1, <1>3
  <2>3. \A k \in Queue' : k \in Nat /\ k + n \in Queue /\ queue'[k] = queue[k + n]
    BY <1>3, <2>1, <2>2 DEF Queue
  <2>4. ASSUME NEW k \in Queue, ~ k <= n PROVE k - n \in Queue' /\ queue'[k - n] = queue[k]
    BY <1>3, <2>1, <2>2, <2>4 DEF Queue
  <2> QED BY <2>1, <2>3, <2>4
\* What is published was released, and no more of the queue is.
<1>5. \A k \in Queue : k <= n => queue[k].state = "PUBREL"
  <2> SUFFICES ASSUME NEW k \in Queue, k <= n PROVE queue[k].state = "PUBREL"
    OBVIOUS
  <2>1. queue[k].state \in {"PUBREL", "RESERVED"}
    BY Basics, InflowAssumption DEF Entries
  <2>2. k \in 1 .. n
    BY <1>3 DEF Queue
  <2>3. IsFinal(queue[k])
    BY <1>1, <2>2 DEF IsCompletedPrefix
  <2> QED BY <2>1, <2>3 DEF IsFinal, FinalStates
<1>6. 1 \in Queue /\ n = 0 => queue[1].state # "PUBREL"
  BY <1>1, <1>3 DEF IsCompletedPrefix, IsFinal, FinalStates, Queue
<1>7. published \in Seq(Publications) /\ Len(published) \in Nat
  BY DEF IInv, Types, TypeOK, Publications
<1>8. /\ published' \in Seq(Publications)
      /\ \A i \in 1 .. Len(published) : i \in 1 .. Len(published') /\ published'[i] = published[i]
      /\ \A k \in Queue : k <= n => /\ Len(published) + k \in 1 .. Len(published')
                                    /\ published'[Len(published) + k] = Publication(queue[k].msg, 2)
      /\ \A i \in 1 .. Len(published') : i \in 1 .. Len(published) \/
           \E k \in Queue : k <= n /\ i = Len(published) + k
  <2> DEFINE s == [i \in 1 .. n |-> Publication(queue[i].msg, 2)]
  <2>1. \A k \in 1 .. n : k \in Queue /\ k <= n /\ Publication(queue[k].msg, 2) \in Publications
    <3>1. ASSUME NEW k \in 1 .. n PROVE k \in Queue /\ k <= n /\ queue[k].msg \in Msgs /\ 2 \in Qoses
      BY <1>3, Basics DEF Queue, Entries, IInv, Types
    <3> QED BY <3>1, InflowAssumption DEF Publication, Publications
  <2>2. s \in Seq(Publications) /\ Len(s) = n /\ \A k \in 1 .. n : s[k] = Publication(queue[k].msg, 2)
    BY <1>3, <2>1
  <2>3. published' = published \o s
    BY <1>1
  <2> HIDE DEF s
  <2>4. /\ published' \in Seq(Publications)
        /\ \A i \in 1 .. Len(published) : i \in 1 .. Len(published') /\ published'[i] = published[i]
        /\ \A k \in 1 .. n : Len(published) + k \in 1 .. Len(published') /\ published'[Len(published) + k] = s[k]
        /\ \A i \in 1 .. Len(published') : i \in 1 .. Len(published) \/ \E k \in 1 .. n : i = Len(published) + k
    <3>1. published \in Seq(Publications) /\ s \in Seq(Publications) /\ published' = published \o s
      BY <1>7, <2>2, <2>3
    <3> HIDE DEF Publications
    <3>2. published' \in Seq(Publications) /\ \A i \in 1 .. Len(published) : i \in 1 .. Len(published') /\ published'[i] = published[i]
      BY <3>1, ConcatFacts
    <3>3. \A k \in 1 .. Len(s) : Len(published) + k \in 1 .. Len(published') /\ published'[Len(published) + k] = s[k]
      BY <3>1, ConcatFacts
    <3>4. \A i \in 1 .. Len(published') : i \in 1 .. Len(published) \/ \E k \in 1 .. Len(s) : i = Len(published) + k
      BY <3>1, ConcatFacts
    <3> QED BY <2>2, <3>2, <3>3, <3>4
  <2>5. \A k \in Queue : k <= n => k \in 1 .. n
    BY <1>3 DEF Queue
  <2> QED BY <2>1, <2>2, <2>4, <2>5
<1>9. \A m : Published2(m)' <=> Published2(m) \/ \E k \in Queue : k <= n /\ queue[k].msg = m
  <2>1. \A k \in Queue : Publication(queue[k].msg, 2).qos = 2 /\ Publication(queue[k].msg, 2).msg = queue[k].msg
    BY DEF Publication
  <2>2. ASSUME NEW m, Published2(m) PROVE Published2(m)'
    BY <1>8, <2>2 DEF Published2
  <2>3. ASSUME NEW m, NEW k \in Queue, k <= n, queue[k].msg = m PROVE Published2(m)'
    <3>1. PICK i \in 1 .. Len(published') : published'[i] = Publication(queue[k].msg, 2)
      BY <1>8, <2>3
    <3> QED BY <2>1, <2>3, <3>1 DEF Published2
  <2>4. ASSUME NEW m, Published2(m)', ~ Published2(m) PROVE \E k \in Queue : k <= n /\ queue[k].msg = m
    <3>1. PICK i \in 1 .. Len(published') : published'[i].qos = 2 /\ published'[i].msg = m
      BY <2>4 DEF Published2
    <3>2. i \notin 1 .. Len(published)
      BY <1>8, <2>4, <3>1 DEF Published2
    <3>3. PICK k \in Queue : k <= n /\ published'[i] = Publication(queue[k].msg, 2)
      BY <1>8, <3>2
    <3> QED BY <2>1, <3>1, <3>3
  <2> QED BY <2>2, <2>3, <2>4
<1>10. \A m : Safe(m) => Safe(m)'
  <2>1. DOMAIN published = 1 .. Len(published) /\ DOMAIN published' = 1 .. Len(published')
    BY <1>7, <1>8
  <2>2. \A m : IsPublished(m) => IsPublished(m)'
    BY <1>8, <2>1 DEF IsPublished
  <2> QED BY <1>1, <2>2 DEF Safe
<1>11. Types'
  <2>1. Len(queue') > 0 => Len(queue) > 0
    BY <1>3, <1>4
  <2>2. proc' \in Processors
    BY <1>1 DEF IInv, Types, At, Processors
  <2> QED BY <1>1, <1>2, <1>4, <1>8, <2>1, <2>2 DEF IInv, Types, TypeOK, Publications
<1>12. (\A x : HasPacket(x)' = HasPacket(x)) /\ ToCome' = ToCome
  BY <1>1, <1>2 DEF HasPacket, ToCome
<1>13. ClientOK' /\ OneEach' /\ WireOK' /\ BackOK' /\ ProcOK' /\ AllOnTheWay'
  BY <1>1, <1>2, <1>12 DEF IInv, ClientOK, OneEach, WireOK, BackOK, ProcOK, AllOnTheWay
<1>14. ReleasedFirst' /\ PubrecsInOrder' /\ PubrecFirst' /\ PublishesInOrder'
  BY <1>1, <1>2 DEF IInv, ReleasedFirst, PubrecsInOrder, PubrecFirst, PublishesInOrder
<1>15. QueueSorted'
  <2> SUFFICES ASSUME NEW i \in Queue', NEW j \in Queue', i < j
               PROVE  queue'[i].msg < queue'[j].msg /\ queue'[i].pid # queue'[j].pid
    BY DEF QueueSorted
  <2>1. i \in Nat /\ j \in Nat /\ i + n \in Queue /\ j + n \in Queue
    BY <1>4
  <2>2. i + n < j + n
    BY <1>3, <2>1
  <2>3. queue[i + n].msg < queue[j + n].msg /\ queue[i + n].pid # queue[j + n].pid
    BY <2>1, <2>2 DEF IInv, QueueSorted
  <2> QED BY <1>4, <2>3
\* What is published is before what stays in the queue.
<1>16. ASSUME NEW i \in Queue', NEW k \in Queue, k <= n PROVE queue[k].msg < queue'[i].msg
  <2>1. i \in Nat /\ i + n \in Queue /\ k \in Nat /\ 1 <= i
    BY <1>4 DEF Queue
  <2>2. k < i + n
    BY <1>3, <1>16, <2>1
  <2> QED BY <1>4, <2>1, <2>2 DEF IInv, QueueSorted
<1>17. AfterPublished' /\ BelowSent'
  BY <1>1, <1>4, <1>9, <1>16 DEF IInv, AfterPublished, BelowSent
<1>18. EntriesMatch'
  BY <1>2, <1>4 DEF IInv, EntriesMatch
<1>19. ASSUME NEW x \in ToCome, Queued(x) PROVE Queued(x)'
  <2>1. PICK k \in Queue : queue[k].pid = x.pid /\ queue[k].msg = x.msg
    BY <1>19 DEF Queued
  <2>2. queue[k].state # "PUBREL"
    BY <2>1 DEF IInv, EntriesMatch, ToCome
  <2>3. ~ k <= n
    BY <1>5, <2>2
  <2> QED BY <1>4, <2>1, <2>3 DEF Queued
<1>20. ASSUME NEW x \in ToCome, Later(x) PROVE Later(x)'
  BY <1>4, <1>9, <1>20 DEF Later
<1>21. NewIsLater' /\ NoneSkipped'
  BY <1>1, <1>2, <1>12, <1>19, <1>20 DEF IInv, NewIsLater, NoneSkipped
<1>22. OnceInOrder'
  <2> SUFFICES ASSUME NEW i \in 1 .. Len(published'), NEW j \in 1 .. Len(published'), i < j,
                      published'[i].qos = 2, published'[j].qos = 2
               PROVE  published'[i].msg < published'[j].msg
    BY <1>8 DEF OnceInOrder
  <2>1. \A k \in Queue : Publication(queue[k].msg, 2).msg = queue[k].msg /\ queue[k].msg \in Msgs
    BY Basics DEF Publication, Entries
  <2>2. CASE i \in 1 .. Len(published) /\ j \in 1 .. Len(published)
    BY <1>7, <1>8, <2>2 DEF IInv, OnceInOrder
  <2>3. CASE i \in 1 .. Len(published) /\ j \notin 1 .. Len(published)
    <3>1. PICK l \in Queue : published'[j] = Publication(queue[l].msg, 2)
      BY <1>8, <2>3
    <3>2. Published2(published[i].msg) /\ published[i].msg \in Msgs /\ published'[i] = published[i]
      <4>1. published[i] \in Publications /\ published'[i] = published[i]
        BY <1>7, <1>8, <2>3
      <4> QED BY <2>3, <4>1 DEF Published2, Publications
    <3> QED BY <2>1, <3>1, <3>2 DEF IInv, AfterPublished
  <2>4. CASE i \notin 1 .. Len(published)
    <3>1. j \notin 1 .. Len(published)
      BY <1>7, <2>4
    <3>2. PICK k \in Queue : k <= n /\ i = Len(published) + k /\ published'[i] = Publication(queue[k].msg, 2)
      BY <1>8, <2>4
    <3>3. PICK l \in Queue : l <= n /\ j = Len(published) + l /\ published'[j] = Publication(queue[l].msg, 2)
      BY <1>8, <3>1
    <3>4. k < l
      BY <1>7, <3>2, <3>3 DEF Queue
    <3> QED BY <2>1, <3>2, <3>3, <3>4 DEF IInv, QueueSorted
  <2> QED BY <2>2, <2>3, <2>4
<1>23. ASSUME Faithful PROVE OnlyHead' /\ QueueUnfinished' /\ PubrelsInOrder' /\ PubcompAfter'
\* The released entry is the head, and the head is not left in the queue.
  <2>1. ASSUME NEW i \in Queue' PROVE queue'[i].state # "PUBREL" /\ queue'[i].pid # proc.pkt.pid
    <3>1. i \in Nat /\ i + n \in Queue /\ queue'[i] = queue[i + n] /\ 1 <= i
      BY <1>4 DEF Queue
    <3>2. i + n = 1 => n = 0 /\ i = 1
      BY <1>3, <3>1
    <3> QED BY <1>1, <1>6, <1>23, <3>1, <3>2 DEF IInv, OnlyHead
  <2>2. OnlyHead'
    BY <1>2, <2>1 DEF OnlyHead
  <2>3. QueueUnfinished'
    BY <1>2, <1>4, <1>23 DEF IInv, QueueUnfinished
  <2>4. PubrelsInOrder'
    <3> SUFFICES ASSUME NEW i \in Wire, NEW k \in Queue', NEW x \in Unfinished,
                        toBroker[i].type = "PUBREL", toBroker[i].pid = x.pid,
                        queue'[k].state = "RESERVED", queue'[k].msg < x.msg
                 PROVE  \E j \in Wire : j < i /\ toBroker[j].pid = queue'[k].pid
      BY <1>1, <1>2 DEF PubrelsInOrder
    <3>1. k + n \in Queue /\ queue'[k] = queue[k + n]
      BY <1>4
    <3> QED BY <1>23, <3>1 DEF IInv, PubrelsInOrder
  <2>5. PubcompAfter'
    <3> SUFFICES ASSUME NEW k \in Queue', NEW i \in Back, toClient[i].type = "PUBCOMP"
                 PROVE  queue'[k].pid # toClient[i].pid
      BY <1>1, <1>2, <2>1 DEF PubcompAfter
    <3>1. k + n \in Queue /\ queue'[k] = queue[k + n]
      BY <1>4
    <3> QED BY <1>23, <3>1 DEF IInv, PubcompAfter
  <2> QED BY <2>2, <2>3, <2>4, <2>5
<1>24. PubrecKept' /\ BackKept' /\ ReleasedKept' /\ PubcompReleased' /\ CompletedKept'
  <2>1. PubrecKept'
    BY <1>2 DEF PubrecKept
  <2>2. ASSUME NEW x \in Unfinished, Stored(x) PROVE Stored(x)' \/ (Published2(x.msg)' /\ x.type = "PUBREL")
    <3>1. CASE x.msg \in Unencodable \cup shadowed
      BY <1>1, <3>1 DEF Stored
    <3>2. CASE Queued(x)
      <4>1. PICK k \in Queue : queue[k].pid = x.pid /\ queue[k].msg = x.msg
        BY <3>2 DEF Queued
      <4>2. CASE k <= n
        BY <1>5, <1>9, <4>1, <4>2, ClientEntries DEF IInv, EntriesMatch
      <4>3. CASE ~ k <= n
        BY <1>4, <4>1, <4>3 DEF Queued, Stored
      <4> QED BY <4>2, <4>3
    <3> QED BY <2>2, <3>1, <3>2 DEF Stored
  <2>3. BackKept'
    <3> SUFFICES ASSUME NEW i \in Back, NEW x \in Unfinished, toClient[i].pid = x.pid
                 PROVE  (toClient[i].type = "PUBREC" => Stored(x)') /\ (toClient[i].type = "PUBACK" => Safe(x.msg)')
      BY <1>1, <1>2 DEF BackKept
    <3>1. (toClient[i].type = "PUBREC" => Stored(x)) /\ (toClient[i].type = "PUBACK" => Safe(x.msg))
      BY DEF IInv, BackKept
    <3>2. toClient[i].type = "PUBREC" => x.type = "PUBLISH"
      BY DEF IInv, BackOK, ClientOK
    <3> QED BY <1>10, <2>2, <3>1, <3>2
  <2>4. ReleasedKept'
    BY <1>1, <1>2, <1>9, <2>2 DEF IInv, ReleasedKept
\* An entry that is released is published now, or stays and is released.
  <2>5. ASSUME NEW m, Released(m) PROVE Safe(m)' \/ Released(m)'
    <3>1. CASE m \in shadowed
      BY <1>1, <3>1 DEF Released
    <3>2. CASE m \notin shadowed
      <4>1. PICK k \in Queue : queue[k].msg = m /\ queue[k].state = "PUBREL"
        BY <2>5, <3>2 DEF Released
      <4>2. CASE k <= n
        <5>1. Published2(m)'
          BY <1>9, <4>1, <4>2
        <5> QED BY <1>8, <5>1 DEF Published2, Safe, IsPublished
      <4>3. CASE ~ k <= n
        BY <1>4, <4>1, <4>3 DEF Released
      <4> QED BY <4>2, <4>3
    <3> QED BY <3>1, <3>2
  <2>6. CompletedKept'
    BY <1>1, <1>10, <2>5 DEF IInv, CompletedKept
  <2>7. PubcompReleased'
    <3> SUFFICES ASSUME NEW k \in Queue'
                 PROVE  /\ queue'[k].pid = proc.pkt.pid => queue'[k].state = "PUBREL"
                        /\ \A i \in Back : toClient[i].type = "PUBCOMP" /\ queue'[k].pid = toClient[i].pid =>
                                          queue'[k].state = "PUBREL"
      BY <1>1, <1>2 DEF PubcompReleased
    <3>1. k + n \in Queue /\ queue'[k] = queue[k + n]
      BY <1>4
    <3> QED BY <1>1, <3>1 DEF IInv, PubcompReleased
  <2> QED BY <2>1, <2>3, <2>4, <2>6, <2>7
<1>25. HistoryOK' /\ Faithful' = Faithful
  BY <1>1, <1>2 DEF IInv, HistoryOK, Faithful
<1> QED BY <1>11, <1>13, <1>14, <1>15, <1>17, <1>18, <1>21, <1>22, <1>23, <1>24, <1>25 DEF IInv

-----------------------------------------------------------------------------
(* Where the packet of an exchange is *)

\* Every packet belongs to an exchange of the client.
LEMMA Belongs ==
  ASSUME IInv
  PROVE  /\ \A i \in Wire : \E x \in Unfinished : x.pid = toBroker[i].pid
         /\ \A i \in Back : \E x \in Unfinished : x.pid = toClient[i].pid
         /\ Busy => \E x \in Unfinished : x.pid = proc.pkt.pid
<1>1. \A i \in Wire : \E x \in Unfinished : x.pid = toBroker[i].pid
  BY DEF IInv, WireOK
<1>2. \A i \in Back : \E x \in Unfinished : x.pid = toClient[i].pid
  BY DEF IInv, BackOK
<1>3. Busy => \E x \in Unfinished : x.pid = proc.pkt.pid
  BY DEF IInv, ProcOK, Busy
<1> QED BY <1>1, <1>2, <1>3

\* A QoS 2 message that is not released is on its way, or its PUBREC is.
LEMMA UnreleasedIsWhere ==
  ASSUME IInv, up, NEW x \in Unfinished, x.type = "PUBLISH", x.qos = 2
  PROVE  \/ \E i \in Wire : toBroker[i] = x
         \/ \E i \in Back : toClient[i].type = "PUBREC" /\ toClient[i].pid = x.pid
         \/ proc.at = "pubrec" /\ proc.pkt = x
<1>1. \A y \in Unfinished : y.pid = x.pid => y = x
  BY DEF IInv, ClientOK
<1>2. CASE \E i \in Wire : toBroker[i].pid = x.pid
  BY <1>1, <1>2 DEF IInv, WireOK
<1>3. CASE \E i \in Back : toClient[i].pid = x.pid
  BY <1>1, <1>3 DEF IInv, BackOK
<1>4. CASE Busy /\ proc.pkt.pid = x.pid
  BY <1>1, <1>4 DEF IInv, ProcOK, Busy
<1>5. HasPacket(x)
  BY DEF IInv, AllOnTheWay
<1> QED BY <1>2, <1>3, <1>4, <1>5 DEF HasPacket

\* The PUBREL of a released one is on its way, or its PUBCOMP is.
LEMMA ReleasedIsWhere ==
  ASSUME IInv, up, NEW x \in Unfinished, x.type = "PUBREL"
  PROVE  \/ \E i \in Wire : toBroker[i].pid = x.pid
         \/ \E i \in Back : toClient[i].type = "PUBCOMP" /\ toClient[i].pid = x.pid
         \/ proc.at \in {"processAcked", "pubcomp"} /\ proc.pkt.pid = x.pid
<1>1. \A y \in Unfinished : y.pid = x.pid => y = x
  BY DEF IInv, ClientOK
<1>2. CASE \E i \in Back : toClient[i].pid = x.pid
  BY <1>1, <1>2 DEF IInv, BackOK
<1>3. CASE Busy /\ proc.pkt.pid = x.pid
  BY <1>1, <1>3 DEF IInv, ProcOK, Busy
<1>4. HasPacket(x)
  BY DEF IInv, AllOnTheWay
<1> QED BY <1>2, <1>3, <1>4 DEF HasPacket

-----------------------------------------------------------------------------
(* The connection is down *)

\* What is left of sequence s when the rest is lost.
Cut(r, s) == \E n \in 0 .. Len(s) : r = SubSeq(s, 1, n)

\* Packets are lost, and the processor may drop what it is doing, unless it
\* publishes.
LEMMA LoseKeeps ==
  ASSUME IInv, up' = FALSE, drops' \in 0 .. MaxDrops, UNCHANGED <<queue, published, inflight, sent, completed, givenUp, shadowed, trusting>>,
         Cut(toBroker', toBroker), Cut(toClient', toClient),
         \/ proc' = proc
         \/ /\ proc' \in Processors /\ proc'.at \in {"idle", "onPublish", "stopped"}
            /\ proc.at \notin {"onPublish", "processAcked"}
            /\ proc'.at = "onPublish" => 1 \in Qoses /\ proc'.pkt.msg \in Msgs
  PROVE  IInv'
<1>1. /\ toBroker' \in Seq(PacketTypes) /\ toClient' \in Seq(PacketTypes)
      /\ \A i \in Wire' : i \in Wire /\ toBroker'[i] = toBroker[i]
      /\ \A i \in Back' : i \in Back /\ toClient'[i] = toClient[i]
  BY Basics, PrefixFacts DEF Wire, Back, Cut
<1>2. /\ \A i \in Wire', j \in Wire : j < i => j \in Wire' /\ toBroker'[j] = toBroker[j]
      /\ \A i \in Back', j \in Back : j < i => j \in Back' /\ toClient'[j] = toClient[j]
  <2>1. \A i \in Wire', j \in Wire : j < i => j \in Wire' /\ toBroker'[j] = toBroker[j]
    BY Basics, PrefixFacts DEF Wire, Cut
  <2>2. \A i \in Back', j \in Back : j < i => j \in Back' /\ toClient'[j] = toClient[j]
    BY Basics, PrefixFacts DEF Back, Cut
  <2> QED BY <2>1, <2>2
<1>3. Unfinished' = Unfinished /\ Queue' = Queue /\ \A x : Published2(x)' = Published2(x)
  BY SameClient DEF Queue, Published2
<1>4. /\ Busy' => Busy /\ proc' = proc
      /\ proc'.at \in {"pubrec", "puback", "processAcked", "pubcomp"} => proc' = proc
      /\ proc.at \in {"onPublish", "processAcked"} => proc' = proc
  BY DEF Busy
<1>5. Types'
  <2>1. TypeOK'
    BY DEF IInv, Types, TypeOK, Processors
  <2> QED BY <1>1, <2>1 DEF IInv, Types
<1>6. ClientOK' /\ ReleasedFirst' /\ AllOnTheWay'
  BY <1>3 DEF IInv, ClientOK, ReleasedFirst, AllOnTheWay
<1>7. OneEach'
  <2>1. /\ \A i, j \in Wire' : toBroker'[i].pid = toBroker'[j].pid => i = j
        /\ \A i, j \in Back' : toClient'[i].pid = toClient'[j].pid => i = j
    BY <1>1 DEF IInv, OneEach
  <2>2. \A i \in Wire', j \in Back' : toBroker'[i].pid # toClient'[j].pid
    BY <1>1 DEF IInv, OneEach
  <2>3. Busy' => /\ \A i \in Wire' : toBroker'[i].pid # proc'.pkt.pid
                 /\ \A i \in Back' : toClient'[i].pid # proc'.pkt.pid
    BY <1>1, <1>4 DEF IInv, OneEach
  <2> QED BY <2>1, <2>2, <2>3 DEF OneEach
<1>8. WireOK' /\ BackOK'
  <2>1. WireOK'
    BY <1>1, <1>3 DEF IInv, WireOK
  <2>2. BackOK'
    BY <1>1, <1>3 DEF IInv, BackOK
  <2> QED BY <2>1, <2>2
<1>9. ProcOK'
  BY <1>3, <1>4 DEF IInv, ProcOK
<1>10. QueueSorted' /\ AfterPublished' /\ BelowSent' /\ EntriesMatch' /\ OnceInOrder'
  BY <1>3 DEF IInv, QueueSorted, AfterPublished, BelowSent, EntriesMatch, OnceInOrder
<1>11. ToCome' \subseteq ToCome /\ \A x : Queued(x)' = Queued(x) /\ Later(x)' = Later(x) /\ Stored(x)' = Stored(x)
  BY <1>1, <1>3 DEF ToCome, Queued, Later, Stored
<1>12. NewIsLater' /\ PublishesInOrder' /\ NoneSkipped'
  <2>1. NewIsLater'
    BY <1>11 DEF IInv, NewIsLater
  <2>2. PublishesInOrder'
    BY <1>1 DEF IInv, PublishesInOrder
  <2>3. ASSUME NEW i \in Wire', NEW x \in ToCome', toBroker'[i].type = "PUBLISH", x.msg < toBroker'[i].msg, ~ Queued(x)'
        PROVE  \E j \in Wire' : j < i /\ toBroker'[j] = x
    <3>1. PICK j \in Wire : j < i /\ toBroker[j] = x
      BY <1>1, <1>11, <2>3 DEF IInv, NoneSkipped
    <3> QED BY <1>2, <3>1
  <2> QED BY <2>1, <2>2, <2>3 DEF NoneSkipped
<1>13. PubrecsInOrder'
  <2> SUFFICES ASSUME NEW i \in Back', NEW x \in Unfinished, NEW y \in Unfinished,
                      toClient'[i].type = "PUBREC", toClient'[i].pid = x.pid,
                      y.msg < x.msg, y.type = "PUBLISH", y.qos = 2
               PROVE  \E j \in Back' : j < i /\ toClient'[j].pid = y.pid
    BY <1>3 DEF PubrecsInOrder
  <2>1. PICK j \in Back : j < i /\ toClient[j].pid = y.pid
    BY <1>1 DEF IInv, PubrecsInOrder
  <2> QED BY <1>2, <2>1
<1>14. PubrecFirst'
  BY <1>1, <1>4 DEF IInv, PubrecFirst
<1>15. ASSUME Faithful PROVE OnlyHead' /\ QueueUnfinished' /\ PubrelsInOrder' /\ PubcompAfter'
  <2>1. OnlyHead' /\ QueueUnfinished'
    BY <1>3, <1>4, <1>15 DEF IInv, OnlyHead, QueueUnfinished
  <2>2. PubrelsInOrder'
    <3> SUFFICES ASSUME NEW i \in Wire', NEW k \in Queue, NEW x \in Unfinished,
                        toBroker'[i].type = "PUBREL", toBroker'[i].pid = x.pid,
                        queue[k].state = "RESERVED", queue[k].msg < x.msg
                 PROVE  \E j \in Wire' : j < i /\ toBroker'[j].pid = queue[k].pid
      BY <1>3 DEF PubrelsInOrder
    <3>1. PICK j \in Wire : j < i /\ toBroker[j].pid = queue[k].pid
      BY <1>1, <1>15 DEF IInv, PubrelsInOrder
    <3> QED BY <1>2, <3>1
  <2>3. PubcompAfter'
    <3> SUFFICES ASSUME NEW k \in Queue
                 PROVE  /\ proc'.at = "pubcomp" => queue[k].pid # proc'.pkt.pid
                        /\ \A i \in Back' : toClient'[i].type = "PUBCOMP" => queue[k].pid # toClient'[i].pid
      BY <1>3 DEF PubcompAfter
    <3> QED BY <1>1, <1>4, <1>15 DEF IInv, PubcompAfter
  <2> QED BY <2>1, <2>2, <2>3
<1>16. PubrecKept' /\ BackKept' /\ ReleasedKept' /\ PubcompReleased' /\ CompletedKept'
  <2>1. \A x : (Safe(x) => Safe(x)') /\ Released(x)' = Released(x)
    BY <1>3, <1>4 DEF Safe, IsPublished, Released
  <2>2. PubrecKept'
    BY <1>4, <1>11 DEF IInv, PubrecKept
  <2>3. BackKept'
    BY <1>1, <1>3, <1>11, <2>1 DEF IInv, BackKept
  <2>4. ReleasedKept' /\ CompletedKept'
    BY <1>3, <1>11, <2>1 DEF IInv, ReleasedKept, CompletedKept
  <2>5. PubcompReleased'
    BY <1>1, <1>3, <1>4 DEF IInv, PubcompReleased
  <2> QED BY <2>2, <2>3, <2>4, <2>5
<1>17. HistoryOK' /\ Faithful' = Faithful
  BY <1>3 DEF IInv, HistoryOK, Faithful
<1> QED BY <1>5, <1>6, <1>7, <1>8, <1>9, <1>10, <1>12, <1>13, <1>14, <1>15, <1>16, <1>17 DEF IInv

LEMMA StopsKeeps ==
  ASSUME IInv, ProcessorStops
  PROVE  IInv'
<1>1. /\ up' = FALSE /\ UNCHANGED <<queue, published, inflight, sent, completed, drops, toClient, givenUp, shadowed, trusting>>
      /\ proc.at = "idle" /\ proc' = Stopped /\ toBroker' = <<>>
  BY DEF ProcessorStops, client, history, Idle, At, IInv, Types, TypeOK
<1>2. Cut(toBroker', toBroker) /\ Cut(toClient', toClient)
  <2>1. toBroker' = SubSeq(toBroker, 1, 0) /\ 0 \in 0 .. Len(toBroker)
    BY <1>1, Basics
  <2>2. toClient' = SubSeq(toClient, 1, Len(toClient)) /\ Len(toClient) \in 0 .. Len(toClient)
    BY <1>1, Basics
  <2> QED BY <2>1, <2>2 DEF Cut
<1>3. proc' \in Processors /\ proc'.at = "stopped" /\ drops' \in 0 .. MaxDrops
  BY <1>1, Numbers DEF Stopped, At, Bare, Packet, PacketTypes, Processors, IInv, Types, TypeOK
<1> QED BY <1>1, <1>2, <1>3, LoseKeeps

LEMMA DropKeeps ==
  ASSUME IInv, Drop
  PROVE  IInv'
<1>1. /\ up' = FALSE /\ UNCHANGED <<queue, published, inflight, sent, completed, proc, givenUp, shadowed, trusting>>
      /\ drops < MaxDrops /\ drops' = drops + 1
  BY DEF Drop, client, broker, history
<1>2. Cut(toBroker', toBroker) /\ Cut(toClient', toClient)
  BY DEF Drop, Cut
<1>3. drops' \in 0 .. MaxDrops
  BY <1>1, InflowAssumption DEF IInv, Types, TypeOK
<1> QED BY <1>1, <1>2, <1>3, LoseKeeps

-----------------------------------------------------------------------------
(* The processor answers *)

\* The three answers: what is sent in which state, and what follows.
Answers(t, next) ==
  /\ Reply(Bare(t, proc.pkt.pid), next) /\ UNCHANGED <<queue, published, client, up, drops, history>>
  /\ \/ t = "PUBREC" /\ proc.at = "pubrec" /\ next = Idle
     \/ t = "PUBACK" /\ proc.at = "puback" /\ next = At("onPublish", proc.pkt)
     \/ t = "PUBCOMP" /\ proc.at = "pubcomp" /\ next = Idle

LEMMA AnswerTypes ==
  ASSUME IInv, NEW t, NEW next, Answers(t, next)
  PROVE  /\ UNCHANGED <<queue, published, inflight, sent, completed, up, drops, givenUp, shadowed, trusting>>
         /\ t \in {"PUBREC", "PUBACK", "PUBCOMP"} /\ proc.at \in {"pubrec", "puback", "pubcomp"} /\ Busy
         /\ next \in Processors /\ next.at \in {"idle", "onPublish"} /\ Stopped \in Processors /\ Stopped.at = "stopped"
         /\ next.at = "onPublish" => t = "PUBACK" /\ next.pkt = proc.pkt /\ 1 \in Qoses /\ next.pkt.msg \in Msgs
         /\ t = "PUBACK" => next.at = "onPublish"
<1>1. UNCHANGED <<queue, published, inflight, sent, completed, up, drops, givenUp, shadowed, trusting>>
  BY DEF Answers, client, history
<1>2. Idle \in Processors /\ Idle.at = "idle" /\ Stopped \in Processors /\ Stopped.at = "stopped"
  BY Numbers DEF Idle, Stopped, At, Bare, Packet, PacketTypes, Processors
<1>3. proc.at = "puback" => 1 \in Qoses /\ proc.pkt.msg \in Msgs
  BY ClientEntries DEF IInv, ProcOK
<1>4. At("onPublish", proc.pkt) \in Processors
  BY DEF At, Processors, IInv, Types
<1>5. At("onPublish", proc.pkt).at = "onPublish" /\ At("onPublish", proc.pkt).pkt = proc.pkt
  BY DEF At
<1>6. t \in {"PUBREC", "PUBACK", "PUBCOMP"} /\ proc.at \in {"pubrec", "puback", "pubcomp"} /\ Busy
  BY DEF Answers, Busy
<1>7. CASE t = "PUBACK"
  BY <1>1, <1>2, <1>3, <1>4, <1>5, <1>6, <1>7 DEF Answers
<1>8. CASE t # "PUBACK"
  BY <1>1, <1>2, <1>6, <1>8 DEF Answers
<1> QED BY <1>7, <1>8

LEMMA AnswerLost ==
  ASSUME IInv, NEW t, NEW next, Answers(t, next), ~ up
  PROVE  IInv'
<1>1. /\ up' = FALSE /\ UNCHANGED <<queue, published, inflight, sent, completed, drops, toClient, givenUp, shadowed, trusting>>
      /\ (proc' = next /\ toBroker' = toBroker) \/ (proc' = Stopped /\ toBroker' = <<>>)
  BY AnswerTypes DEF Answers, Reply, IInv, Types, TypeOK
<1>2. Cut(toBroker', toBroker) /\ Cut(toClient', toClient)
  <2>1. toBroker' = toBroker => toBroker' = SubSeq(toBroker, 1, Len(toBroker)) /\ Len(toBroker) \in 0 .. Len(toBroker)
    BY Basics
  <2>2. toBroker' = <<>> => toBroker' = SubSeq(toBroker, 1, 0) /\ 0 \in 0 .. Len(toBroker)
    BY Basics
  <2>3. toClient' = SubSeq(toClient, 1, Len(toClient)) /\ Len(toClient) \in 0 .. Len(toClient)
    BY <1>1, Basics
  <2> QED BY <1>1, <2>1, <2>2, <2>3 DEF Cut
<1>3. /\ proc' \in Processors /\ proc'.at \in {"idle", "onPublish", "stopped"}
      /\ proc.at \notin {"onPublish", "processAcked"}
      /\ proc'.at = "onPublish" => 1 \in Qoses /\ proc'.pkt.msg \in Msgs
  BY <1>1, AnswerTypes
<1>4. drops' \in 0 .. MaxDrops
  BY <1>1 DEF IInv, Types, TypeOK
<1> QED BY <1>1, <1>2, <1>3, <1>4, LoseKeeps

LEMMA AnswerKeeps ==
  ASSUME IInv, NEW t, NEW next, Answers(t, next), up
  PROVE  IInv'
<1>1. PICK e \in PacketTypes :
        /\ e.type = t /\ e.pid = proc.pkt.pid /\ e.pid \in Pids
        /\ toClient' = Append(toClient, e) /\ proc' = next
        /\ UNCHANGED <<queue, published, inflight, sent, completed, up, drops, toBroker, givenUp, shadowed, trusting>>
  <2>1. proc.pkt.pid \in Pids /\ t \in {"PUBREC", "PUBACK", "PUBCOMP"}
    BY AnswerTypes, Belongs, ClientEntries
  <2>2. Bare(t, proc.pkt.pid) \in PacketTypes
    BY <2>1, Numbers DEF Bare, Packet, PacketTypes
  <2>3. Bare(t, proc.pkt.pid).type = t /\ Bare(t, proc.pkt.pid).pid = proc.pkt.pid
    BY DEF Bare, Packet
  <2>4. toClient' = Append(toClient, Bare(t, proc.pkt.pid)) /\ proc' = next /\ toBroker' = toBroker
    BY DEF Answers, Reply
  <2> QED BY <2>1, <2>2, <2>3, <2>4, AnswerTypes
<1>2. /\ t \in {"PUBREC", "PUBACK", "PUBCOMP"} /\ Busy /\ proc.at \notin {"onPublish", "processAcked"}
      /\ proc' \in Processors /\ proc'.at \in {"idle", "onPublish"} /\ ~ Busy'
      /\ proc'.at = "onPublish" => t = "PUBACK" /\ 1 \in Qoses /\ proc'.pkt.msg \in Msgs
      /\ t = "PUBACK" => proc'.at = "onPublish" /\ proc'.pkt = proc.pkt
  BY <1>1, AnswerTypes DEF Busy
<1>3. /\ t = "PUBREC" <=> proc.at = "pubrec"
      /\ t = "PUBACK" <=> proc.at = "puback"
      /\ t = "PUBCOMP" <=> proc.at = "pubcomp"
  BY DEF Answers
<1>4. PICK y \in Unfinished :
        /\ y.pid = proc.pkt.pid
        /\ t = "PUBREC" => y = proc.pkt /\ y.type = "PUBLISH" /\ y.qos = 2
        /\ t = "PUBACK" => y = proc.pkt /\ y.type = "PUBLISH" /\ y.qos = 1
        /\ t = "PUBCOMP" => y.type = "PUBREL"
  BY <1>2, <1>3 DEF IInv, ProcOK
<1>5. \A x \in Unfinished : x.pid = y.pid => x = y
  BY DEF IInv, ClientOK
<1>6. /\ toClient' \in Seq(PacketTypes)
      /\ \A i \in Back : i \in Back' /\ toClient'[i] = toClient[i] /\ i < Len(toClient) + 1
      /\ Len(toClient) + 1 \in Back' /\ toClient'[Len(toClient) + 1] = e
      /\ \A i \in Back' : i \in Back \/ i = Len(toClient) + 1
  BY <1>1, Basics, AppendFacts DEF Back
<1>7. Unfinished' = Unfinished /\ Queue' = Queue /\ Wire' = Wire /\ \A m : Published2(m)' = Published2(m)
  BY <1>1, SameClient DEF Queue, Wire, Published2
<1>8. Types'
  <2>1. TypeOK'
    BY <1>1, <1>2 DEF IInv, Types, TypeOK, Processors
  <2> QED BY <1>1, <1>2, <1>6, <2>1 DEF IInv, Types
<1>9. ClientOK' /\ ReleasedFirst' /\ WireOK'
  BY <1>1, <1>7 DEF IInv, ClientOK, ReleasedFirst, WireOK
<1>10. OneEach'
  <2>1. \A i \in Back : toClient[i].pid # e.pid
    BY <1>1, <1>2 DEF IInv, OneEach
  <2>2. \A i, j \in Back' : toClient'[i].pid = toClient'[j].pid => i = j
    BY <1>6, <2>1 DEF IInv, OneEach
  <2>3. \A i \in Wire, j \in Back' : toBroker[i].pid # toClient'[j].pid
    <3>1. \A i \in Wire : toBroker[i].pid # e.pid
      BY <1>1, <1>2 DEF IInv, OneEach
    <3> QED BY <1>6, <3>1 DEF IInv, OneEach
  <2> QED BY <1>1, <1>2, <1>7, <2>2, <2>3 DEF IInv, OneEach
<1>11. BackOK'
  <2>1. \E x \in Unfinished : /\ x.pid = e.pid
                              /\ \/ e.type = "PUBREC" /\ x.type = "PUBLISH" /\ x.qos = 2
                                 \/ e.type = "PUBACK" /\ x.type = "PUBLISH" /\ x.qos = 1
                                 \/ e.type = "PUBCOMP" /\ x.type = "PUBREL"
    BY <1>1, <1>2, <1>4
  <2> QED BY <1>6, <1>7, <2>1 DEF IInv, BackOK
<1>12. ProcOK' /\ PubrecFirst'
  BY <1>2 DEF ProcOK, PubrecFirst
<1>13. AllOnTheWay'
  <2>1. ASSUME NEW x \in Unfinished, HasPacket(x) PROVE HasPacket(x)'
    BY <1>1, <1>6, <1>7, <2>1 DEF HasPacket
  <2> QED BY <1>1, <1>7, <2>1 DEF IInv, AllOnTheWay
<1>14. QueueSorted' /\ AfterPublished' /\ BelowSent' /\ EntriesMatch' /\ OnceInOrder'
  BY <1>1, <1>7 DEF IInv, QueueSorted, AfterPublished, BelowSent, EntriesMatch, OnceInOrder
<1>15. ToCome' = ToCome /\ \A x : Queued(x)' = Queued(x) /\ Later(x)' = Later(x) /\ Stored(x)' = Stored(x)
  BY <1>1, <1>7 DEF ToCome, Queued, Later, Stored
<1>16. NewIsLater' /\ PublishesInOrder' /\ NoneSkipped'
  BY <1>1, <1>7, <1>15 DEF IInv, NewIsLater, PublishesInOrder, NoneSkipped
\* The PUBRECs of the messages before this one are ahead of it.
<1>17. PubrecsInOrder'
  <2> SUFFICES ASSUME NEW i \in Back', NEW x \in Unfinished, NEW z \in Unfinished,
                      toClient'[i].type = "PUBREC", toClient'[i].pid = x.pid,
                      z.msg < x.msg, z.type = "PUBLISH", z.qos = 2
               PROVE  \E j \in Back' : j < i /\ toClient'[j].pid = z.pid
    BY <1>7 DEF PubrecsInOrder
  <2>1. CASE i \in Back
    <3>1. PICK j \in Back : j < i /\ toClient[j].pid = z.pid
      BY <1>6, <2>1 DEF IInv, PubrecsInOrder
    <3> QED BY <1>6, <3>1
  <2>2. CASE i = Len(toClient) + 1
    <3>1. x = y /\ t = "PUBREC" /\ proc.at = "pubrec" /\ proc.pkt = x
      BY <1>1, <1>3, <1>4, <1>5, <1>6, <2>2
    <3>2. x.msg \in Nat /\ z.msg \in Nat
      BY ClientEntries
    <3>3. \A k \in Wire : toBroker[k] # z
      BY <3>1, <3>2 DEF IInv, PubrecFirst
    <3>4. proc.pkt # z
      BY <3>1, <3>2
    <3>5. PICK j \in Back : toClient[j].pid = z.pid
      BY <3>3, <3>4, UnreleasedIsWhere
    <3> QED BY <1>6, <2>2, <3>5
  <2> QED BY <1>6, <2>1, <2>2
<1>18. ASSUME Faithful PROVE OnlyHead' /\ QueueUnfinished' /\ PubrelsInOrder' /\ PubcompAfter'
  <2>1. OnlyHead' /\ QueueUnfinished' /\ PubrelsInOrder'
    BY <1>1, <1>2, <1>7, <1>18 DEF IInv, OnlyHead, QueueUnfinished, PubrelsInOrder
  <2>2. PubcompAfter'
    <3> SUFFICES ASSUME NEW k \in Queue, NEW i \in Back', toClient'[i].type = "PUBCOMP"
                 PROVE  queue[k].pid # toClient'[i].pid
      BY <1>1, <1>2, <1>7 DEF PubcompAfter
    <3> QED BY <1>1, <1>3, <1>6, <1>18 DEF IInv, PubcompAfter
  <2> QED BY <2>1, <2>2
<1>19. PubrecKept' /\ BackKept' /\ ReleasedKept' /\ PubcompReleased' /\ CompletedKept'
  <2>1. PubrecKept'
    BY <1>2 DEF PubrecKept
  <2>2. PubcompReleased'
    <3> SUFFICES ASSUME NEW k \in Queue, NEW i \in Back', toClient'[i].type = "PUBCOMP", queue[k].pid = toClient'[i].pid
                 PROVE  queue[k].state = "PUBREL"
      BY <1>1, <1>2, <1>7 DEF PubcompReleased
    <3> QED BY <1>1, <1>3, <1>6 DEF IInv, PubcompReleased
  <2>3. \A m : (Safe(m) => Safe(m)') /\ Released(m)' = Released(m)
    BY <1>1, <1>2, <1>7 DEF Safe, IsPublished, Released
  <2>4. BackKept'
    <3> SUFFICES ASSUME NEW i \in Back', NEW x \in Unfinished, toClient'[i].pid = x.pid
                 PROVE  /\ toClient'[i].type = "PUBREC" => Stored(x)
                        /\ toClient'[i].type = "PUBACK" => Safe(x.msg)'
      BY <1>1, <1>7, <1>15 DEF BackKept
    <3>1. CASE i \in Back
      BY <1>6, <2>3, <3>1 DEF IInv, BackKept
    <3>2. CASE i = Len(toClient) + 1
      <4>1. toClient'[i] = e /\ x = y
        BY <1>1, <1>4, <1>5, <1>6, <3>2
      <4>2. t = "PUBREC" => Stored(x)
        BY <1>3, <1>4, <4>1 DEF IInv, PubrecKept
      <4>3. t = "PUBACK" => Safe(x.msg)'
        BY <1>1, <1>2, <1>4, <4>1 DEF Safe
      <4> QED BY <1>1, <4>1, <4>2, <4>3
    <3> QED BY <1>6, <3>1, <3>2
  <2>5. ReleasedKept' /\ CompletedKept'
    BY <1>1, <1>7, <1>15, <2>3 DEF IInv, ReleasedKept, CompletedKept
  <2> QED BY <2>1, <2>2, <2>4, <2>5
<1>20. HistoryOK' /\ Faithful' = Faithful
  BY <1>1, <1>7 DEF IInv, HistoryOK, Faithful
<1> QED BY <1>8, <1>9, <1>10, <1>11, <1>12, <1>13, <1>14, <1>16, <1>17, <1>18, <1>19, <1>20 DEF IInv

LEMMA SendKeeps ==
  ASSUME IInv, SendPubrec \/ SendPuback \/ SendPubcomp
  PROVE  IInv'
<1>1. \E t, next : Answers(t, next)
  BY DEF SendPubrec, SendPuback, SendPubcomp, Answers
<1> QED BY <1>1, AnswerLost, AnswerKeeps

-----------------------------------------------------------------------------
(* The client *)

Clients == [type : {"PUBLISH", "PUBREL"}, pid : Pids, msg : 1 .. N, qos : Qoses]

LEMMA PublishTypes ==
  ASSUME IInv, NEW p \in Pids, NEW q \in Qoses, ClientPublishes(p, q)
  PROVE  \E e \in Clients \cap PacketTypes :
           /\ e.type = "PUBLISH" /\ e.pid = p /\ e.msg = sent + 1 /\ e.qos = q
           /\ \A x \in Unfinished : x.pid # p
           /\ inflight' = Append(inflight, e) /\ toBroker' = Append(toBroker, e)
           /\ up /\ sent < N /\ sent' = sent + 1 /\ sent \in Nat
           /\ UNCHANGED <<completed, queue, proc, published, up, toClient, drops, givenUp, shadowed, trusting>>
<1> DEFINE e == Packet("PUBLISH", p, sent + 1, q)
<1>1. sent \in Nat /\ sent < N /\ N \in Nat
  BY Numbers DEF ClientPublishes, N, IInv, Types, TypeOK
<1>2. e \in Clients /\ e \in PacketTypes
  BY <1>1, InflowAssumption DEF Packet, Clients, PacketTypes
<1>3. e.type = "PUBLISH" /\ e.pid = p /\ e.msg = sent + 1 /\ e.qos = q
  BY DEF Packet
<1>4. \A x \in Unfinished : x.pid # p
  BY DEF ClientPublishes, HasPid, Unfinished
<1>5. /\ inflight' = Append(inflight, e) /\ toBroker' = toBroker \o <<e>> /\ up /\ sent' = sent + 1
      /\ UNCHANGED <<completed, queue, proc, published, up, toClient, drops, givenUp, shadowed, trusting>>
  BY DEF ClientPublishes, Sends, broker, history
<1> HIDE DEF e
<1>6. toBroker \o <<e>> = Append(toBroker, e)
  BY <1>2, Basics
<1> QED BY <1>1, <1>2, <1>3, <1>4, <1>5, <1>6

LEMMA ClientPublishesKeeps ==
  ASSUME IInv, NEW p \in Pids, NEW q \in Qoses, ClientPublishes(p, q)
  PROVE  IInv'
<1>1. PICK e \in Clients \cap PacketTypes :
        /\ e.type = "PUBLISH" /\ e.pid = p /\ e.msg = sent + 1 /\ e.qos = q
        /\ \A x \in Unfinished : x.pid # p
        /\ inflight' = Append(inflight, e) /\ toBroker' = Append(toBroker, e)
        /\ up /\ sent < N /\ sent' = sent + 1 /\ sent \in Nat
        /\ UNCHANGED <<completed, queue, proc, published, up, toClient, drops, givenUp, shadowed, trusting>>
  BY PublishTypes
<1>2. /\ toBroker' \in Seq(PacketTypes)
      /\ \A i \in Wire : i \in Wire' /\ toBroker'[i] = toBroker[i] /\ i < Len(toBroker) + 1
      /\ Len(toBroker) + 1 \in Wire' /\ toBroker'[Len(toBroker) + 1] = e
      /\ \A i \in Wire' : i \in Wire \/ i = Len(toBroker) + 1
  BY <1>1, Basics, AppendFacts DEF Wire
<1>3. /\ inflight' \in Seq(Clients) /\ Len(inflight') = Len(inflight) + 1 /\ Len(inflight) \in Nat
      /\ \A i \in 1 .. Len(inflight) : i \in 1 .. Len(inflight') /\ inflight'[i] = inflight[i]
      /\ inflight'[Len(inflight) + 1] = e
      /\ \A i \in 1 .. Len(inflight') : i \in 1 .. Len(inflight) \/ i = Len(inflight) + 1
  <2>1. inflight \in Seq(Clients) /\ e \in Clients
    BY <1>1 DEF IInv, Types, Clients
  <2> HIDE DEF Clients
  <2> QED BY <1>1, <2>1, AppendFacts
<1>4. Unfinished' = Unfinished \cup {e}
  BY <1>3 DEF Unfinished
<1>5. \A x \in Unfinished : x.msg \in Nat /\ x.msg < e.msg /\ x.pid # e.pid
  BY <1>1, ClientEntries
<1>6. Queue' = Queue /\ Back' = Back /\ (\A m : Published2(m)' = Published2(m)) /\ (Busy' <=> Busy)
  BY <1>1 DEF Queue, Back, Published2, Busy
<1>7. /\ \A i \in Wire : toBroker[i].pid # e.pid
      /\ \A i \in Back : toClient[i].pid # e.pid
      /\ Busy => proc.pkt.pid # e.pid
  BY <1>1, Belongs
<1>8. Types'
  <2>1. sent' \in 0 .. Cardinality(Msgs)
    BY <1>1, Numbers DEF N
  <2>2. TypeOK'
    BY <1>1, <2>1 DEF IInv, Types, TypeOK
  <2> QED BY <1>1, <1>2, <1>3, <1>6, <2>2 DEF IInv, Types, Clients
<1>9. ClientOK'
  <2>1. ASSUME NEW i \in 1 .. Len(inflight'), NEW j \in 1 .. Len(inflight'), i < j
        PROVE  inflight'[i].msg < inflight'[j].msg
    <3>1. i \in 1 .. Len(inflight)
      BY <1>3, <2>1
    <3>2. CASE j \in 1 .. Len(inflight)
      BY <1>3, <2>1, <3>1, <3>2 DEF IInv, ClientOK
    <3>3. CASE j = Len(inflight) + 1
      BY <1>3, <1>5, <3>1, <3>3 DEF Unfinished
    <3> QED BY <1>3, <3>2, <3>3
  <2>2. ASSUME NEW x \in Unfinished', NEW y \in Unfinished', x.pid = y.pid \/ x.msg = y.msg PROVE x = y
    BY <1>4, <1>5, <2>2 DEF IInv, ClientOK
  <2>3. ASSUME NEW x \in Unfinished' PROVE x.msg <= sent' /\ (x.type = "PUBREL" => x.qos = 2)
    BY <1>1, <1>4, <1>5 DEF IInv, ClientOK
  <2> QED BY <2>1, <2>2, <2>3 DEF ClientOK
<1>10. OneEach'
  <2>1. \A i, j \in Wire' : toBroker'[i].pid = toBroker'[j].pid => i = j
    BY <1>2, <1>7 DEF IInv, OneEach
  <2>2. \A i \in Wire', j \in Back : toBroker'[i].pid # toClient[j].pid
    BY <1>2, <1>7 DEF IInv, OneEach
  <2>3. Busy => \A i \in Wire' : toBroker'[i].pid # proc.pkt.pid
    BY <1>2, <1>7 DEF IInv, OneEach
  <2> QED BY <1>1, <1>6, <2>1, <2>2, <2>3 DEF IInv, OneEach
<1>11. WireOK'
  <2> SUFFICES ASSUME NEW i \in Wire'
               PROVE  \/ toBroker'[i].type = "PUBLISH" /\ toBroker'[i] \in Unfinished'
                      \/ /\ toBroker'[i].type = "PUBREL" /\ toBroker'[i].qos = 0
                         /\ \E x \in Unfinished' : x.pid = toBroker'[i].pid /\ x.type = "PUBREL"
    BY DEF WireOK
  <2>1. CASE i \in Wire
    <3>1. toBroker'[i] = toBroker[i]
      BY <1>2, <2>1
    <3> QED BY <1>4, <2>1, <3>1 DEF IInv, WireOK
  <2>2. CASE i = Len(toBroker) + 1
    BY <1>1, <1>2, <1>4, <2>2
  <2> QED BY <1>2, <2>1, <2>2
<1>12. BackOK' /\ ProcOK'
  BY <1>1, <1>4, <1>6 DEF IInv, BackOK, ProcOK
<1>13. AllOnTheWay'
  <2>1. ASSUME NEW x \in Unfinished, HasPacket(x) PROVE HasPacket(x)'
    BY <1>1, <1>2, <1>6, <2>1 DEF HasPacket
  <2>2. HasPacket(e)'
    BY <1>2 DEF HasPacket
  <2> QED BY <1>1, <1>4, <2>1, <2>2 DEF IInv, AllOnTheWay
<1>14. QueueSorted' /\ AfterPublished' /\ OnceInOrder'
  BY <1>1, <1>6 DEF IInv, QueueSorted, AfterPublished, OnceInOrder
<1>15. \A k \in Queue : queue[k].msg <= sent /\ queue[k].msg \in Nat
  BY Basics, Numbers DEF Entries, IInv, BelowSent
<1>16. \A m \in Msgs : Published2(m) => m <= sent /\ m \in Nat
  BY Numbers DEF IInv, BelowSent
<1>17. BelowSent'
  BY <1>1, <1>6, <1>15, <1>16 DEF BelowSent
<1>18. EntriesMatch'
  BY <1>1, <1>4, <1>6, <1>15 DEF IInv, EntriesMatch
<1>19. (\A x : Queued(x)' = Queued(x)) /\ (\A x : Later(x)' = Later(x)) /\ \A x : Stored(x)' = Stored(x)
  BY <1>1, <1>6 DEF Queued, Later, Stored
<1>20. ASSUME NEW x \in ToCome', x # e PROVE x \in ToCome
  <2>1. x \in Unfinished /\ \A i \in Wire' : toBroker'[i] = x => i \in Wire /\ toBroker[i] = x
    BY <1>2, <1>4, <1>20 DEF ToCome
  <2> QED BY <1>1, <1>20, <2>1 DEF ToCome
<1>21. NewIsLater'
  <2>1. Later(e)
    BY <1>1, <1>15, <1>16 DEF Later
  <2> QED BY <1>19, <1>20, <2>1 DEF IInv, NewIsLater
<1>22. PublishesInOrder'
  <2> SUFFICES ASSUME NEW i \in Wire', NEW j \in Wire', i < j,
                      toBroker'[i].type = "PUBLISH", toBroker'[j].type = "PUBLISH"
               PROVE  toBroker'[i].msg < toBroker'[j].msg
    BY DEF PublishesInOrder
  <2>0. i \in 1 .. Len(toBroker) + 1 /\ j \in 1 .. Len(toBroker) + 1 /\ Len(toBroker) \in Nat
    BY <1>2, Basics DEF Wire
  <2>1. i \in Wire /\ toBroker'[i] = toBroker[i]
    BY <1>2, <2>0 DEF Wire
  <2>2. CASE j \in Wire
    BY <1>2, <2>1, <2>2 DEF IInv, PublishesInOrder
  <2>3. CASE j = Len(toBroker) + 1
    BY <1>2, <1>5, <2>1, <2>3 DEF IInv, WireOK
  <2> QED BY <1>2, <2>2, <2>3
\* The messages before this one are stored already or ahead of it.
<1>23. NoneSkipped'
  <2> SUFFICES ASSUME NEW i \in Wire', NEW x \in ToCome', toBroker'[i].type = "PUBLISH",
                      x.msg < toBroker'[i].msg, ~ Queued(x)
               PROVE  \E j \in Wire' : j < i /\ toBroker'[j] = x
    BY <1>19 DEF NoneSkipped
  <2>1. CASE i \in Wire
    <3>1. toBroker'[i] = toBroker[i] /\ toBroker[i] \in Unfinished
      BY <1>2, <2>1 DEF IInv, WireOK
    <3>2. x # e
      BY <1>1, <1>5, <3>1
    <3>3. PICK j \in Wire : j < i /\ toBroker[j] = x
      BY <1>20, <2>1, <3>1, <3>2 DEF IInv, NoneSkipped
    <3> QED BY <1>2, <3>3
  <2>2. CASE i = Len(toBroker) + 1
    <3>1. x # e
      BY <1>1, <1>2, <2>2
    <3>2. x \in ToCome /\ x \in Unfinished /\ x.type = "PUBLISH" /\ x.qos = 2 /\ x.msg \notin Unencodable
      BY <1>20, <3>1 DEF ToCome
    <3>3. \E j \in Wire : toBroker[j] = x
      <4>1. CASE trusting
        BY <3>2, <4>1 DEF ToCome
      <4>2. CASE ~ trusting
        <5>1. ~ Stored(x)
          BY <3>2, <4>2 DEF Stored, IInv, HistoryOK, Faithful
        <5>2. ~ (proc.at = "pubrec" /\ proc.pkt = x)
          BY <4>2, <5>1 DEF IInv, PubrecKept
        <5>3. ~ \E j \in Back : toClient[j].type = "PUBREC" /\ toClient[j].pid = x.pid
          BY <3>2, <4>2, <5>1 DEF IInv, BackKept
        <5> QED BY <1>1, <3>2, <5>2, <5>3, UnreleasedIsWhere
      <4> QED BY <4>1, <4>2
    <3> QED BY <1>2, <2>2, <3>3
  <2> QED BY <1>2, <2>1, <2>2
<1>24. ReleasedFirst'
  <2> SUFFICES ASSUME NEW x \in Unfinished', NEW y \in Unfinished', y.msg < x.msg, x.type = "PUBREL", y.qos = 2
               PROVE  y.type = "PUBREL"
    BY DEF ReleasedFirst
  <2>1. x \in Unfinished /\ y \in Unfinished
    BY <1>1, <1>4, <1>5
  <2> QED BY <2>1 DEF IInv, ReleasedFirst
<1>25. PubrecsInOrder'
  <2> SUFFICES ASSUME NEW i \in Back, NEW x \in Unfinished', NEW y \in Unfinished',
                      toClient[i].type = "PUBREC", toClient[i].pid = x.pid,
                      y.msg < x.msg, y.type = "PUBLISH", y.qos = 2
               PROVE  \E j \in Back : j < i /\ toClient[j].pid = y.pid
    BY <1>1, <1>6 DEF PubrecsInOrder
  <2>1. x \in Unfinished /\ y \in Unfinished
    BY <1>1, <1>4, <1>5, <1>7
  <2> QED BY <2>1 DEF IInv, PubrecsInOrder
<1>26. PubrecFirst'
  <2>1. proc.at = "pubrec" => proc.pkt.msg < e.msg
    BY <1>5 DEF IInv, ProcOK
  <2> QED BY <1>1, <1>2, <2>1 DEF IInv, PubrecFirst
<1>27. ASSUME Faithful PROVE OnlyHead' /\ QueueUnfinished' /\ PubrelsInOrder' /\ PubcompAfter'
  <2>1. OnlyHead' /\ QueueUnfinished' /\ PubcompAfter'
    BY <1>1, <1>4, <1>6, <1>19, <1>27 DEF IInv, OnlyHead, QueueUnfinished, PubcompAfter
  <2>5. PubrelsInOrder'
    <3> SUFFICES ASSUME NEW i \in Wire', NEW k \in Queue, NEW x \in Unfinished',
                        toBroker'[i].type = "PUBREL", toBroker'[i].pid = x.pid,
                        queue[k].state = "RESERVED", queue[k].msg < x.msg
                 PROVE  \E j \in Wire' : j < i /\ toBroker'[j].pid = queue[k].pid
      BY <1>1, <1>6 DEF PubrelsInOrder
    <3>1. i \in Wire /\ toBroker'[i] = toBroker[i]
      BY <1>1, <1>2
    <3>2. x \in Unfinished
      BY <1>4, <1>7, <3>1
    <3>3. PICK j \in Wire : j < i /\ toBroker[j].pid = queue[k].pid
      BY <1>27, <3>1, <3>2 DEF IInv, PubrelsInOrder
    <3> QED BY <1>2, <3>3
  <2> QED BY <2>1, <2>5
<1>28. PubrecKept' /\ BackKept' /\ ReleasedKept' /\ PubcompReleased' /\ CompletedKept'
  <2>1. \A m : Safe(m)' = Safe(m) /\ Released(m)' = Released(m)
    BY <1>1, <1>6 DEF Safe, IsPublished, Released
  <2>2. \A x : Stored(x)' = Stored(x)
    BY <1>1, <1>19 DEF Stored
  <2>3. PubrecKept' /\ PubcompReleased'
    BY <1>1, <1>6, <2>2 DEF IInv, PubrecKept, PubcompReleased
  <2>4. BackKept' /\ CompletedKept'
    BY <1>1, <1>4, <1>6, <1>7, <2>1, <2>2 DEF IInv, BackKept, CompletedKept
  <2>5. ReleasedKept'
    BY <1>1, <1>4, <1>6, <2>2 DEF IInv, ReleasedKept
  <2> QED BY <2>3, <2>4, <2>5
<1>29. HistoryOK' /\ Faithful' = Faithful
  <2>1. \A g \in givenUp : g \in Nat /\ g <= sent
    BY Numbers DEF IInv, HistoryOK
  <2>2. \A g \in givenUp : g <= sent' /\ g < e.msg
    BY <1>1, <2>1
  <2> QED BY <1>1, <1>4, <2>2 DEF IInv, HistoryOK, Faithful
<1> QED BY <1>8, <1>9, <1>10, <1>11, <1>12, <1>13, <1>14, <1>17, <1>18, <1>21, <1>22, <1>23,
           <1>24, <1>25, <1>26, <1>27, <1>28, <1>29 DEF IInv

\* A PUBREC: it belongs to a message that is not released yet.
LEMMA ReleaseTypes ==
  ASSUME IInv, ClientReleases
  PROVE  \E h \in PacketTypes, y \in Unfinished, z \in Clients, e \in PacketTypes :
           /\ h = toClient[1] /\ 1 \in Back /\ h.type = "PUBREC" /\ toClient' = Tail(toClient) /\ toClient # <<>>
           /\ y.pid = h.pid /\ y.type = "PUBLISH" /\ y.qos = 2
           /\ z.type = "PUBREL" /\ z.pid = h.pid /\ z.msg = y.msg /\ z.qos = 2
           /\ e.type = "PUBREL" /\ e.pid = h.pid /\ e.qos = 0
           /\ toBroker' = IF up THEN Append(toBroker, e) ELSE toBroker
           /\ inflight' \in Seq(Clients) /\ Len(inflight') = Len(inflight)
           /\ \A i \in 1 .. Len(inflight) : inflight'[i] = IF inflight[i] = y THEN z ELSE inflight[i]
           /\ UNCHANGED <<sent, completed, queue, proc, published, up, drops, givenUp, shadowed, trusting>>
<1>1. PICK h \in PacketTypes : /\ h = toClient[1] /\ h = Head(toClient) /\ 1 \in Back /\ h.type = "PUBREC"
                               /\ toClient' = Tail(toClient) /\ toClient # <<>>
  BY TailFacts, Basics DEF ClientReleases, Back
<1>2. PICK y \in Unfinished : y.pid = h.pid /\ y.type = "PUBLISH" /\ y.qos = 2
  BY <1>1 DEF IInv, BackOK
<1>3. inflight \in Seq(Clients) /\ y \in Clients /\ Len(inflight) \in Nat
  <2>1. inflight \in Seq(Clients)
    BY DEF IInv, Types, Clients
  <2>2. PICK i \in 1 .. Len(inflight) : y = inflight[i]
    BY DEF Unfinished
  <2> HIDE DEF Clients
  <2> QED BY <2>1, <2>2, ElementOfSeq
<1>4. PICK z \in Clients : /\ z = [y EXCEPT !.type = "PUBREL"]
                           /\ z.type = "PUBREL" /\ z.pid = h.pid /\ z.msg = y.msg /\ z.qos = 2
  <2> DEFINE r == [y EXCEPT !.type = "PUBREL"]
  <2>1. r \in Clients
    BY <1>3 DEF Clients
  <2>2. r.type = "PUBREL" /\ r.pid = y.pid /\ r.msg = y.msg /\ r.qos = y.qos
    BY <1>3 DEF Clients
  <2> HIDE DEF r
  <2>3. r = [y EXCEPT !.type = "PUBREL"]
    BY DEF r
  <2> QED BY <1>2, <2>1, <2>2, <2>3
<1>5. PICK e \in PacketTypes : e = Bare("PUBREL", h.pid) /\ e.type = "PUBREL" /\ e.pid = h.pid /\ e.qos = 0
  <2>1. Bare("PUBREL", h.pid) \in PacketTypes
    BY <1>1, Numbers DEF Bare, Packet, PacketTypes
  <2>2. Bare("PUBREL", h.pid).type = "PUBREL" /\ Bare("PUBREL", h.pid).pid = h.pid /\ Bare("PUBREL", h.pid).qos = 0
    BY DEF Bare, Packet
  <2> QED BY <2>1, <2>2
<1>6. toBroker' = IF up THEN Append(toBroker, e) ELSE toBroker
  <2>1. toBroker' = IF up THEN toBroker \o <<e>> ELSE toBroker
    BY <1>1, <1>5 DEF ClientReleases, Sends
  <2>2. toBroker \o <<e>> = Append(toBroker, e)
    BY Basics
  <2> QED BY <2>1, <2>2
<1>7. \A i \in 1 .. Len(inflight) : inflight[i] \in Clients /\ (inflight[i].pid = h.pid <=> inflight[i] = y)
  <2>1. \A i \in 1 .. Len(inflight) : inflight[i] \in Unfinished
    BY DEF Unfinished
  <2>2. \A x \in Unfinished : x.pid = h.pid <=> x = y
    BY <1>2 DEF IInv, ClientOK
  <2>3. \A i \in 1 .. Len(inflight) : inflight[i] \in Clients
    BY <1>3, ElementOfSeq
  <2> QED BY <2>1, <2>2, <2>3
<1>8. inflight' = [i \in 1 .. Len(inflight) |-> IF inflight[i] = y THEN z ELSE inflight[i]]
  <2>1. inflight' = [i \in 1 .. Len(inflight) |->
                      IF inflight[i].pid = h.pid THEN [inflight[i] EXCEPT !.type = "PUBREL"] ELSE inflight[i]]
    BY <1>1, <1>3 DEF ClientReleases
  <2> QED BY <1>4, <1>7, <2>1
<1>9. inflight' \in Seq(Clients) /\ Len(inflight') = Len(inflight)
  <2> HIDE DEF Clients
  <2> QED BY <1>3, <1>7, <1>8
<1>10. UNCHANGED <<sent, completed, queue, proc, published, up, drops, givenUp, shadowed, trusting>>
  BY DEF ClientReleases, broker, history
<1> QED BY <1>1, <1>2, <1>4, <1>5, <1>6, <1>8, <1>9, <1>10

LEMMA ReleasesKeeps ==
  ASSUME IInv, ClientReleases
  PROVE  IInv'
<1>1. PICK h \in PacketTypes, y \in Unfinished, z \in Clients, e \in PacketTypes :
        /\ h = toClient[1] /\ 1 \in Back /\ h.type = "PUBREC" /\ toClient' = Tail(toClient) /\ toClient # <<>>
        /\ y.pid = h.pid /\ y.type = "PUBLISH" /\ y.qos = 2
        /\ z.type = "PUBREL" /\ z.pid = h.pid /\ z.msg = y.msg /\ z.qos = 2
        /\ e.type = "PUBREL" /\ e.pid = h.pid /\ e.qos = 0
        /\ toBroker' = IF up THEN Append(toBroker, e) ELSE toBroker
        /\ inflight' \in Seq(Clients) /\ Len(inflight') = Len(inflight)
        /\ \A i \in 1 .. Len(inflight) : inflight'[i] = IF inflight[i] = y THEN z ELSE inflight[i]
        /\ UNCHANGED <<sent, completed, queue, proc, published, up, drops, givenUp, shadowed, trusting>>
  BY ReleaseTypes
<1>2. /\ toClient' \in Seq(PacketTypes)
      /\ \A i \in Back' : i \in Nat /\ i + 1 \in Back /\ toClient'[i] = toClient[i + 1] /\ 1 # i + 1
  BY <1>1, Basics, TailFacts DEF Back
<1>3. \A i \in Back : i = 1 \/ \E j \in Back' : j + 1 = i /\ toClient'[j] = toClient[i]
  <2> SUFFICES ASSUME NEW i \in Back, i # 1 PROVE \E j \in Back' : j + 1 = i /\ toClient'[j] = toClient[i]
    OBVIOUS
  <2>1. i - 1 \in Back' /\ toClient'[i - 1] = toClient[i]
    BY <1>1, Basics, TailFacts DEF Back
  <2>2. (i - 1) + 1 = i
    BY DEF Back
  <2> QED BY <2>1, <2>2
<1>4. /\ toBroker' \in Seq(PacketTypes)
      /\ \A i \in Wire : i \in Wire' /\ toBroker'[i] = toBroker[i] /\ i < Len(toBroker) + 1
      /\ \A i \in Wire' : i \in Wire \/ (up /\ i = Len(toBroker) + 1 /\ toBroker'[i] = e)
      /\ up => Len(toBroker) + 1 \in Wire' /\ toBroker'[Len(toBroker) + 1] = e
  <2>1. CASE up
    <3>1. toBroker' = Append(toBroker, e)
      BY <1>1, <2>1
    <3> QED BY <2>1, <3>1, Basics, AppendFacts DEF Wire
  <2>2. CASE ~ up
    <3>1. toBroker' = toBroker
      BY <1>1, <2>2
    <3> QED BY <2>2, <3>1, Basics DEF Wire
  <2> QED BY <2>1, <2>2
<1>5. \A x \in Unfinished : x.pid = h.pid \/ x.msg = y.msg => x = y
  BY <1>1 DEF IInv, ClientOK
<1>6. /\ z \in Unfinished' /\ z.pid = h.pid /\ z.type = "PUBREL"
      /\ \A x \in Unfinished : x # y \/ x.pid # h.pid => x \in Unfinished'
      /\ \A x \in Unfinished' : x = z \/ (x \in Unfinished /\ x.pid # h.pid)
  <2>1. Unfinished' = {inflight'[i] : i \in 1 .. Len(inflight)}
    BY <1>1 DEF Unfinished
  <2>2. PICK i \in 1 .. Len(inflight) : y = inflight[i]
    BY DEF Unfinished
  <2>3. z \in Unfinished'
    BY <1>1, <2>1, <2>2
  <2>4. ASSUME NEW x \in Unfinished, x # y \/ x.pid # h.pid PROVE x \in Unfinished'
    <3>1. PICK k \in 1 .. Len(inflight) : x = inflight[k]
      BY DEF Unfinished
    <3> QED BY <1>1, <2>1, <2>4, <3>1
  <2>5. ASSUME NEW x \in Unfinished', x # z PROVE x \in Unfinished /\ x.pid # h.pid
    <3>1. PICK k \in 1 .. Len(inflight) : x = inflight'[k]
      BY <2>1
    <3>2. x = inflight[k] /\ x # y
      BY <1>1, <2>5, <3>1
    <3> QED BY <1>5, <3>2 DEF Unfinished
  <2> QED BY <1>1, <2>3, <2>4, <2>5
<1>7. /\ Queue' = Queue /\ (\A m : Published2(m)' = Published2(m)) /\ (Busy' <=> Busy)
      /\ \A m : Safe(m)' = Safe(m)
  BY <1>1 DEF Queue, Published2, Busy, Safe, IsPublished
<1>8. /\ \A i \in Wire : toBroker[i].pid # h.pid
      /\ \A i \in Back : toClient[i].pid = h.pid => i = 1
      /\ Busy => proc.pkt.pid # h.pid
  BY <1>1 DEF IInv, OneEach
<1>9. Types'
  <2>1. TypeOK'
    BY <1>1 DEF IInv, Types, TypeOK
  <2> QED BY <1>1, <1>2, <1>4, <2>1 DEF IInv, Types, Clients
<1>10. ClientOK'
  <2>1. ASSUME NEW i \in 1 .. Len(inflight'), NEW j \in 1 .. Len(inflight'), i < j
        PROVE  inflight'[i].msg < inflight'[j].msg
    <3>1. inflight'[i].msg = inflight[i].msg /\ inflight'[j].msg = inflight[j].msg
      BY <1>1
    <3> QED BY <1>1, <2>1, <3>1 DEF IInv, ClientOK
  <2>2. ASSUME NEW x \in Unfinished', NEW w \in Unfinished', x.pid = w.pid \/ x.msg = w.msg PROVE x = w
    BY <1>1, <1>5, <1>6, <2>2 DEF IInv, ClientOK
  <2>3. ASSUME NEW x \in Unfinished' PROVE x.msg <= sent' /\ (x.type = "PUBREL" => x.qos = 2)
    BY <1>1, <1>6 DEF IInv, ClientOK
  <2> QED BY <2>1, <2>2, <2>3 DEF ClientOK
<1>11. OneEach'
  <2>1. \A i \in Wire' :
          \/ i \in Wire /\ toBroker'[i].pid = toBroker[i].pid /\ toBroker'[i].pid # h.pid
          \/ i = Len(toBroker) + 1 /\ toBroker'[i].pid = h.pid
    BY <1>1, <1>4, <1>8
  <2>2. \A i, j \in Wire' : toBroker'[i].pid = toBroker'[j].pid => i = j
    BY <2>1 DEF IInv, OneEach
  <2>3. ASSUME NEW i \in Back', NEW j \in Back', toClient'[i].pid = toClient'[j].pid PROVE i = j
    <3>1. i + 1 \in Back /\ j + 1 \in Back /\ toClient[i + 1].pid = toClient[j + 1].pid /\ i \in Nat /\ j \in Nat
      BY <1>2, <2>3
    <3>2. i + 1 = j + 1
      BY <3>1 DEF IInv, OneEach
    <3> QED BY <3>1, <3>2
  <2>4. ASSUME NEW i \in Wire', NEW j \in Back' PROVE toBroker'[i].pid # toClient'[j].pid
    <3>1. j + 1 \in Back /\ toClient'[j] = toClient[j + 1] /\ 1 # j + 1
      BY <1>2
    <3>2. toClient[j + 1].pid # h.pid
      BY <1>8, <3>1
    <3>3. CASE i \in Wire
      BY <1>4, <3>1, <3>3 DEF IInv, OneEach
    <3>4. CASE toBroker'[i] = e
      BY <1>1, <3>1, <3>2, <3>4
    <3> QED BY <1>4, <3>3, <3>4
  <2>5. Busy => \A i \in Wire' : toBroker'[i].pid # proc.pkt.pid
    BY <1>8, <2>1 DEF IInv, OneEach
  <2>6. ASSUME Busy, NEW i \in Back' PROVE toClient'[i].pid # proc.pkt.pid
    <3>1. i + 1 \in Back /\ toClient'[i] = toClient[i + 1]
      BY <1>2
    <3> QED BY <2>6, <3>1 DEF IInv, OneEach
  <2> QED BY <1>1, <1>7, <2>2, <2>3, <2>4, <2>5, <2>6 DEF OneEach
<1>12. WireOK'
  <2> SUFFICES ASSUME NEW i \in Wire'
               PROVE  \/ toBroker'[i].type = "PUBLISH" /\ toBroker'[i] \in Unfinished'
                      \/ /\ toBroker'[i].type = "PUBREL" /\ toBroker'[i].qos = 0
                         /\ \E x \in Unfinished' : x.pid = toBroker'[i].pid /\ x.type = "PUBREL"
    BY DEF WireOK
  <2>1. CASE i \in Wire
    <3>1. toBroker'[i] = toBroker[i] /\ toBroker[i].pid # h.pid
      BY <1>4, <1>8, <2>1
    <3>2. \A x \in Unfinished : x.pid = toBroker[i].pid => x \in Unfinished'
      BY <1>1, <1>6, <3>1
    <3> QED BY <2>1, <3>1, <3>2 DEF IInv, WireOK
  <2>2. CASE toBroker'[i] = e
    BY <1>1, <1>6, <2>2
  <2> QED BY <1>4, <2>1, <2>2
<1>13. ASSUME NEW i \in Back' PROVE toClient'[i].pid # h.pid
  BY <1>2, <1>8, <1>13
<1>14. BackOK'
  <2> SUFFICES ASSUME NEW i \in Back'
               PROVE  \E x \in Unfinished' :
                        /\ x.pid = toClient'[i].pid
                        /\ \/ toClient'[i].type = "PUBREC" /\ x.type = "PUBLISH" /\ x.qos = 2
                           \/ toClient'[i].type = "PUBACK" /\ x.type = "PUBLISH" /\ x.qos = 1
                           \/ toClient'[i].type = "PUBCOMP" /\ x.type = "PUBREL"
    BY DEF BackOK
  <2>1. i + 1 \in Back /\ toClient'[i] = toClient[i + 1]
    BY <1>2
  <2>2. \A x \in Unfinished : x.pid = toClient'[i].pid => x \in Unfinished'
    BY <1>6, <1>13
  <2> QED BY <2>1, <2>2 DEF IInv, BackOK
<1>15. ProcOK'
  <2>1. Busy => \A x \in Unfinished : x.pid = proc.pkt.pid => x \in Unfinished'
    BY <1>6, <1>8
  <2> QED BY <1>1, <2>1 DEF IInv, ProcOK, Busy
<1>16. AllOnTheWay'
  <2> SUFFICES ASSUME up, NEW x \in Unfinished' PROVE HasPacket(x)'
    BY <1>1 DEF AllOnTheWay
  <2>1. CASE x = z
    BY <1>1, <1>4, <2>1 DEF HasPacket
  <2>2. CASE x \in Unfinished /\ x.pid # h.pid
    <3>1. HasPacket(x)
      BY <2>2 DEF IInv, AllOnTheWay
    <3>2. CASE \E i \in Wire : toBroker[i].pid = x.pid
      BY <1>4, <3>2 DEF HasPacket
    <3>3. CASE \E i \in Back : toClient[i].pid = x.pid
      BY <1>1, <1>3, <2>2, <3>3 DEF HasPacket
    <3>4. CASE Busy /\ proc.pkt.pid = x.pid
      BY <1>1, <1>7, <3>4 DEF HasPacket
    <3> QED BY <3>1, <3>2, <3>3, <3>4 DEF HasPacket
  <2> QED BY <1>6, <2>1, <2>2
<1>17. QueueSorted' /\ AfterPublished' /\ BelowSent' /\ OnceInOrder'
  BY <1>1, <1>7 DEF IInv, QueueSorted, AfterPublished, BelowSent, OnceInOrder
<1>18. EntriesMatch'
  BY <1>1, <1>6, <1>7 DEF IInv, EntriesMatch
<1>19. /\ \A x : Queued(x)' = Queued(x) /\ Later(x)' = Later(x) /\ Stored(x)' = Stored(x)
       /\ ToCome' \subseteq ToCome
  <2>1. \A x : Queued(x)' = Queued(x) /\ Later(x)' = Later(x) /\ Stored(x)' = Stored(x)
    BY <1>1, <1>7 DEF Queued, Later, Stored
  <2>2. ASSUME NEW x \in ToCome' PROVE x \in ToCome
    <3>1. x \in Unfinished' /\ x.type = "PUBLISH"
      BY DEF ToCome
    <3>2. x \in Unfinished
      BY <1>1, <1>6, <3>1
    <3>3. \A i \in Wire' : toBroker'[i] = x => i \in Wire /\ toBroker[i] = x
      BY <1>1, <1>4, <3>1
    <3> QED BY <1>1, <3>2, <3>3 DEF ToCome
  <2> QED BY <2>1, <2>2
<1>20. NewIsLater'
  BY <1>19 DEF IInv, NewIsLater
<1>21. \A i \in Wire' : toBroker'[i].type = "PUBLISH" => i \in Wire /\ toBroker'[i] = toBroker[i]
  BY <1>1, <1>4
<1>22. PublishesInOrder'
  BY <1>21 DEF IInv, PublishesInOrder
<1>23. NoneSkipped'
  <2> SUFFICES ASSUME NEW i \in Wire', NEW x \in ToCome', toBroker'[i].type = "PUBLISH",
                      x.msg < toBroker'[i].msg, ~ Queued(x)
               PROVE  \E j \in Wire' : j < i /\ toBroker'[j] = x
    BY <1>19 DEF NoneSkipped
  <2>1. PICK j \in Wire : j < i /\ toBroker[j] = x
    BY <1>19, <1>21 DEF IInv, NoneSkipped
  <2> QED BY <1>4, <2>1
\* The messages before this one are released: their PUBRECs were ahead.
<1>24. ASSUME NEW x \in Unfinished, x.msg < y.msg, x.qos = 2 PROVE x.type = "PUBREL"
  <2> SUFFICES ASSUME x.type # "PUBREL" PROVE FALSE
    OBVIOUS
  <2>1. x.type = "PUBLISH"
    BY ClientEntries
  <2>2. \E j \in Back : j < 1 /\ toClient[j].pid = x.pid
    BY <1>1, <1>24, <2>1 DEF IInv, PubrecsInOrder
  <2> QED BY <2>2 DEF Back
<1>25. ReleasedFirst'
  <2> SUFFICES ASSUME NEW x \in Unfinished', NEW w \in Unfinished', w.msg < x.msg, x.type = "PUBREL", w.qos = 2
               PROVE  w.type = "PUBREL"
    BY DEF ReleasedFirst
  <2>1. CASE w = z
    BY <1>1, <2>1
  <2>2. CASE w \in Unfinished /\ x = z
    BY <1>1, <1>24, <2>2
  <2>3. CASE w \in Unfinished /\ x \in Unfinished
    BY <2>3 DEF IInv, ReleasedFirst
  <2> QED BY <1>6, <2>1, <2>2, <2>3
<1>26. PubrecsInOrder'
  <2> SUFFICES ASSUME NEW i \in Back', NEW x \in Unfinished', NEW w \in Unfinished',
                      toClient'[i].type = "PUBREC", toClient'[i].pid = x.pid,
                      w.msg < x.msg, w.type = "PUBLISH", w.qos = 2
               PROVE  \E j \in Back' : j < i /\ toClient'[j].pid = w.pid
    BY DEF PubrecsInOrder
  <2>1. x \in Unfinished /\ w \in Unfinished /\ w.pid # h.pid
    BY <1>6, <1>13
  <2>2. i + 1 \in Back /\ toClient[i + 1] = toClient'[i] /\ i \in Nat
    BY <1>2
  <2>3. PICK k \in Back : k < i + 1 /\ toClient[k].pid = w.pid
    BY <2>1, <2>2 DEF IInv, PubrecsInOrder
  <2>4. PICK j \in Back' : j + 1 = k /\ toClient'[j] = toClient[k]
    BY <1>1, <1>3, <2>1, <2>3
  <2>5. j < i
    <3>1. j \in Nat /\ i \in Nat /\ j + 1 < i + 1
      BY <1>2, <2>3, <2>4
    <3> QED BY <3>1
  <2> QED BY <2>3, <2>4, <2>5
<1>27. PubrecFirst'
  BY <1>1, <1>21 DEF IInv, PubrecFirst
<1>28. ASSUME Faithful PROVE OnlyHead' /\ QueueUnfinished' /\ PubrelsInOrder' /\ PubcompAfter'
  <2>1. OnlyHead'
    BY <1>1, <1>7, <1>28 DEF IInv, OnlyHead
  <2>2. QueueUnfinished'
    <3> SUFFICES ASSUME NEW k \in Queue
                 PROVE  \E x \in Unfinished' : x.pid = queue[k].pid /\ x.msg = queue[k].msg /\ x.qos = 2
      BY <1>1, <1>7 DEF QueueUnfinished
    <3>1. PICK x \in Unfinished : x.pid = queue[k].pid /\ x.msg = queue[k].msg /\ x.qos = 2
      BY <1>28 DEF IInv, QueueUnfinished
    <3> QED BY <1>1, <1>6, <3>1
  <2>3. PubrelsInOrder'
    <3> SUFFICES ASSUME NEW i \in Wire', NEW k \in Queue, NEW x \in Unfinished',
                        toBroker'[i].type = "PUBREL", toBroker'[i].pid = x.pid,
                        queue[k].state = "RESERVED", queue[k].msg < x.msg
                 PROVE  \E j \in Wire' : j < i /\ toBroker'[j].pid = queue[k].pid
      BY <1>1, <1>7 DEF PubrelsInOrder
    <3>1. CASE i \in Wire
      <4>1. toBroker'[i] = toBroker[i] /\ x \in Unfinished
        <5>1. toBroker'[i] = toBroker[i] /\ toBroker[i].pid # h.pid
          BY <1>4, <1>8, <3>1
        <5> QED BY <1>1, <1>6, <5>1
      <4>2. PICK j \in Wire : j < i /\ toBroker[j].pid = queue[k].pid
        BY <1>28, <3>1, <4>1 DEF IInv, PubrelsInOrder
      <4> QED BY <1>4, <4>2
\* The PUBREL of an entry before this one is still ahead, as it is not handled.
    <3>2. CASE up /\ i = Len(toBroker) + 1 /\ toBroker'[i] = e
      <4>1. x = z
        BY <1>1, <1>6, <3>2
      <4>2. PICK w \in Unfinished : w.pid = queue[k].pid /\ w.msg = queue[k].msg /\ w.qos = 2
        BY <1>28 DEF IInv, QueueUnfinished
      <4>3. w.type = "PUBREL"
        BY <1>1, <1>24, <4>1, <4>2
      <4>4. ~ \E j \in Back : toClient[j].type = "PUBCOMP" /\ toClient[j].pid = w.pid
        BY <1>28, <4>2 DEF IInv, PubcompAfter
      <4>5. ~ (proc.at \in {"processAcked", "pubcomp"} /\ proc.pkt.pid = w.pid)
        <5>1. ~ (proc.at = "processAcked" /\ proc.pkt.pid = queue[k].pid)
          BY <1>28 DEF IInv, OnlyHead
        <5>2. ~ (proc.at = "pubcomp" /\ proc.pkt.pid = queue[k].pid)
          BY <1>28 DEF IInv, PubcompAfter
        <5> QED BY <4>2, <5>1, <5>2
      <4>6. PICK j \in Wire : toBroker[j].pid = w.pid
        BY <3>2, <4>3, <4>4, <4>5, ReleasedIsWhere
      <4> QED BY <1>4, <3>2, <4>2, <4>6
    <3> QED BY <1>4, <3>1, <3>2
  <2>4. PubcompAfter'
    <3> SUFFICES ASSUME NEW k \in Queue, NEW i \in Back', toClient'[i].type = "PUBCOMP"
                 PROVE  queue[k].pid # toClient'[i].pid
      BY <1>1, <1>7, <1>28 DEF IInv, PubcompAfter
    <3>1. i + 1 \in Back /\ toClient'[i] = toClient[i + 1]
      BY <1>2
    <3> QED BY <1>28, <3>1 DEF IInv, PubcompAfter
  <2> QED BY <2>1, <2>2, <2>3, <2>4
<1>29. PubrecKept' /\ BackKept' /\ ReleasedKept' /\ PubcompReleased' /\ CompletedKept'
  <2>1. \A m : Released(m)' = Released(m)
    BY <1>1, <1>7 DEF Released
  <2>2. PubrecKept' /\ CompletedKept'
    BY <1>1, <1>7, <1>19, <2>1 DEF IInv, PubrecKept, CompletedKept
  <2>3. PubcompReleased'
    <3> SUFFICES ASSUME NEW k \in Queue, NEW i \in Back', toClient'[i].type = "PUBCOMP", queue[k].pid = toClient'[i].pid
                 PROVE  queue[k].state = "PUBREL"
      BY <1>1, <1>7 DEF IInv, PubcompReleased
    <3>1. i + 1 \in Back /\ toClient'[i] = toClient[i + 1]
      BY <1>2
    <3> QED BY <3>1 DEF IInv, PubcompReleased
  <2>4. BackKept'
    <3> SUFFICES ASSUME NEW i \in Back', NEW x \in Unfinished', toClient'[i].pid = x.pid
                 PROVE  (toClient'[i].type = "PUBREC" => Stored(x)) /\ (toClient'[i].type = "PUBACK" => Safe(x.msg))
      BY <1>7, <1>19 DEF BackKept
    <3>1. i + 1 \in Back /\ toClient'[i] = toClient[i + 1]
      BY <1>2
    <3>2. x \in Unfinished
      BY <1>6, <1>13
    <3> QED BY <3>1, <3>2 DEF IInv, BackKept
  <2>5. ReleasedKept'
    <3>1. Stored(y)
      BY <1>1 DEF IInv, BackKept
    <3>2. Stored(z)
      BY <1>1, <3>1 DEF Stored, Queued
    <3>3. \A x \in Unfinished : x.type = "PUBREL" => Stored(x) \/ Published2(x.msg)
      BY DEF IInv, ReleasedKept
    <3>4. \A x \in Unfinished' : x.type = "PUBREL" => Stored(x)' \/ Published2(x.msg)
      BY <1>6, <1>19, <3>2, <3>3
    <3> QED BY <1>7, <3>4 DEF ReleasedKept
  <2> QED BY <2>2, <2>3, <2>4, <2>5
<1>30. HistoryOK' /\ Faithful' = Faithful
  <2>1. \A g \in givenUp : \A x \in Unfinished' : g < x.msg
    BY <1>1, <1>6 DEF IInv, HistoryOK
  <2> QED BY <1>1, <2>1 DEF IInv, HistoryOK, Faithful
<1> QED BY <1>9, <1>10, <1>11, <1>12, <1>14, <1>15, <1>16, <1>17, <1>18, <1>20, <1>22, <1>23,
           <1>25, <1>26, <1>27, <1>28, <1>29, <1>30 DEF IInv

\* r has the elements of s but the i-th, in their order.
LeavesOut(r, s, i) ==
  /\ \A j \in 1 .. Len(r) : \E k \in 1 .. Len(s) : k # i /\ r[j] = s[k]
  /\ \A k \in 1 .. Len(s) : k = i \/ \E j \in 1 .. Len(r) : r[j] = s[k]
  /\ \A j, l \in 1 .. Len(r) : j < l => \E a, b \in 1 .. Len(s) : a < b /\ r[j] = s[a] /\ r[l] = s[b]

LEMMA WithoutFacts ==
  ASSUME NEW S, NEW s \in Seq(S), NEW i \in 1 .. Len(s), NEW r, r = Without(s, i)
  PROVE  r \in Seq(S) /\ LeavesOut(r, s, i)
<1> DEFINE At1(j) == IF j < i THEN j ELSE j + 1
<1>1. Len(s) \in Nat /\ i \in Nat /\ 1 <= i /\ i <= Len(s)
  OBVIOUS
<1>2. \A j \in 1 .. Len(s) - 1 : At1(j) \in 1 .. Len(s) /\ At1(j) # i
  BY <1>1
<1>3. r = [j \in 1 .. Len(s) - 1 |-> s[At1(j)]]
  BY DEF Without
<1>4. \A j, l \in 1 .. Len(s) - 1 : j < l => At1(j) < At1(l)
  BY <1>1
<1>5. \A k \in 1 .. Len(s) : k = i \/ \E j \in 1 .. Len(s) - 1 : At1(j) = k
  <2> SUFFICES ASSUME NEW k \in 1 .. Len(s), k # i PROVE \E j \in 1 .. Len(s) - 1 : At1(j) = k
    OBVIOUS
  <2>1. CASE k < i
    <3>1. k \in 1 .. Len(s) - 1 /\ At1(k) = k
      BY <1>1, <2>1
    <3> QED BY <3>1
  <2>2. CASE i < k
    <3>1. k - 1 \in 1 .. Len(s) - 1 /\ At1(k - 1) = k
      BY <1>1, <2>2
    <3> QED BY <3>1
  <2> QED BY <1>1, <2>1, <2>2
<1> HIDE DEF At1
<1>6. r \in Seq(S) /\ Len(r) = Len(s) - 1
  <2>1. Len(s) - 1 \in Nat /\ \A j \in 1 .. Len(s) - 1 : s[At1(j)] \in S
    BY <1>1, <1>2, ElementOfSeq
  <2> QED BY <1>3, <2>1
<1>7. \A j \in 1 .. Len(r) : j \in 1 .. Len(s) - 1 /\ r[j] = s[At1(j)]
  BY <1>3, <1>6
<1>8. \A j \in 1 .. Len(r) : \E k \in 1 .. Len(s) : k # i /\ r[j] = s[k]
  BY <1>2, <1>7
<1>9. \A k \in 1 .. Len(s) : k = i \/ \E j \in 1 .. Len(r) : r[j] = s[k]
  BY <1>5, <1>6, <1>7
<1>10. \A j, l \in 1 .. Len(r) : j < l => \E a, b \in 1 .. Len(s) : a < b /\ r[j] = s[a] /\ r[l] = s[b]
  BY <1>2, <1>4, <1>7
<1> QED BY <1>6, <1>8, <1>9, <1>10 DEF LeavesOut

\* A PUBACK or PUBCOMP: it belongs to one exchange, which is at its end.
LEMMA CompleteTypes ==
  ASSUME IInv, ClientCompletes
  PROVE  \E h \in PacketTypes, y \in Unfinished :
           /\ h = toClient[1] /\ 1 \in Back /\ toClient' = Tail(toClient) /\ toClient # <<>>
           /\ y.pid = h.pid
           /\ \/ h.type = "PUBACK" /\ y.type = "PUBLISH" /\ y.qos = 1
              \/ h.type = "PUBCOMP" /\ y.type = "PUBREL"
           /\ inflight' \in Seq(Clients) /\ Unfinished' = Unfinished \ {y}
           /\ \A j, l \in 1 .. Len(inflight') : j < l =>
                \E a, b \in 1 .. Len(inflight) : a < b /\ inflight'[j] = inflight[a] /\ inflight'[l] = inflight[b]
           /\ completed' = completed \cup {y.msg}
           /\ UNCHANGED <<sent, queue, proc, published, up, toBroker, drops, givenUp, shadowed, trusting>>
<1>1. PICK h \in PacketTypes : /\ h = toClient[1] /\ h = Head(toClient) /\ 1 \in Back
                               /\ h.type \in {"PUBACK", "PUBCOMP"} /\ toClient' = Tail(toClient) /\ toClient # <<>>
  BY TailFacts, Basics DEF ClientCompletes, Back
<1>2. PICK i \in 1 .. Len(inflight) :
        inflight[i].pid = h.pid /\ inflight' = Without(inflight, i) /\ completed' = completed \cup {inflight[i].msg}
  BY <1>1 DEF ClientCompletes
<1>3. PICK y \in Unfinished : y = inflight[i] /\ y.pid = h.pid
  BY <1>2 DEF Unfinished
<1>4. \/ h.type = "PUBACK" /\ y.type = "PUBLISH" /\ y.qos = 1
      \/ h.type = "PUBCOMP" /\ y.type = "PUBREL"
  <2>1. PICK x \in Unfinished :
          /\ x.pid = h.pid
          /\ \/ h.type = "PUBREC" /\ x.type = "PUBLISH" /\ x.qos = 2
             \/ h.type = "PUBACK" /\ x.type = "PUBLISH" /\ x.qos = 1
             \/ h.type = "PUBCOMP" /\ x.type = "PUBREL"
    BY <1>1 DEF IInv, BackOK
  <2>2. x = y
    BY <1>3, <2>1 DEF IInv, ClientOK
  <2> QED BY <1>1, <2>1, <2>2
<1>5. inflight \in Seq(Clients)
  BY DEF IInv, Types, Clients
<1> HIDE DEF Clients
<1>6. inflight' \in Seq(Clients) /\ LeavesOut(inflight', inflight, i)
  BY <1>2, <1>5, WithoutFacts
<1>7. \A j, l \in 1 .. Len(inflight') : j < l =>
        \E a, b \in 1 .. Len(inflight) : a < b /\ inflight'[j] = inflight[a] /\ inflight'[l] = inflight[b]
  BY <1>6 DEF LeavesOut
<1>8. Unfinished' = Unfinished \ {y}
  <2>1. \A j \in 1 .. Len(inflight') : \E k \in 1 .. Len(inflight) : k # i /\ inflight'[j] = inflight[k]
    BY <1>6 DEF LeavesOut
  <2>2. \A k \in 1 .. Len(inflight) : k = i \/ \E j \in 1 .. Len(inflight') : inflight'[j] = inflight[k]
    BY <1>6 DEF LeavesOut
  <2>3. \A k \in 1 .. Len(inflight) : k # i => inflight[k] # y
    <3> SUFFICES ASSUME NEW k \in 1 .. Len(inflight), k # i, inflight[k] = inflight[i] PROVE FALSE
      BY <1>3
    <3>1. inflight[i].msg \in Nat
      BY <1>3, ClientEntries
    <3>2. k < i \/ i < k
      OBVIOUS
    <3>3. inflight[k].msg < inflight[i].msg \/ inflight[i].msg < inflight[k].msg
      BY <3>2 DEF IInv, ClientOK
    <3> QED BY <3>1, <3>3
  <2>4. \A x \in Unfinished' : x \in Unfinished /\ x # y
    BY <2>1, <2>3 DEF Unfinished
  <2>5. \A x \in Unfinished : x # y => x \in Unfinished'
    BY <1>3, <2>2 DEF Unfinished
  <2> QED BY <2>4, <2>5
<1>9. UNCHANGED <<sent, queue, proc, published, up, toBroker, drops, givenUp, shadowed, trusting>>
  BY DEF ClientCompletes, broker, history
<1> QED BY <1>1, <1>2, <1>3, <1>4, <1>6, <1>7, <1>8, <1>9

LEMMA CompletesKeeps ==
  ASSUME IInv, ClientCompletes
  PROVE  IInv'
<1>1. PICK h \in PacketTypes, y \in Unfinished :
        /\ h = toClient[1] /\ 1 \in Back /\ toClient' = Tail(toClient) /\ toClient # <<>>
        /\ y.pid = h.pid
        /\ \/ h.type = "PUBACK" /\ y.type = "PUBLISH" /\ y.qos = 1
           \/ h.type = "PUBCOMP" /\ y.type = "PUBREL"
        /\ inflight' \in Seq(Clients) /\ Unfinished' = Unfinished \ {y}
        /\ \A j, l \in 1 .. Len(inflight') : j < l =>
             \E a, b \in 1 .. Len(inflight) : a < b /\ inflight'[j] = inflight[a] /\ inflight'[l] = inflight[b]
        /\ completed' = completed \cup {y.msg}
        /\ UNCHANGED <<sent, queue, proc, published, up, toBroker, drops, givenUp, shadowed, trusting>>
  BY CompleteTypes
<1>2. /\ toClient' \in Seq(PacketTypes)
      /\ \A i \in Back' : i \in Nat /\ i + 1 \in Back /\ toClient'[i] = toClient[i + 1] /\ 1 # i + 1
  BY <1>1, Basics, TailFacts DEF Back
<1>3. \A i \in Back : i = 1 \/ \E j \in Back' : j + 1 = i /\ toClient'[j] = toClient[i]
  <2> SUFFICES ASSUME NEW i \in Back, i # 1 PROVE \E j \in Back' : j + 1 = i /\ toClient'[j] = toClient[i]
    OBVIOUS
  <2>1. i - 1 \in Back' /\ toClient'[i - 1] = toClient[i]
    BY <1>1, Basics, TailFacts DEF Back
  <2>2. (i - 1) + 1 = i
    BY DEF Back
  <2> QED BY <2>1, <2>2
<1>4. \A x \in Unfinished : x.pid = h.pid => x = y
  BY <1>1 DEF IInv, ClientOK
<1>5. /\ Queue' = Queue /\ Wire' = Wire /\ (\A m : Published2(m)' = Published2(m)) /\ (Busy' <=> Busy)
      /\ \A m : Safe(m)' = Safe(m)
  BY <1>1 DEF Queue, Wire, Published2, Busy, Safe, IsPublished
<1>6. /\ \A i \in Wire : toBroker[i].pid # h.pid
      /\ \A i \in Back' : toClient'[i].pid # h.pid
      /\ Busy => proc.pkt.pid # h.pid
  <2>1. \A i \in Back : toClient[i].pid = h.pid => i = 1
    BY <1>1 DEF IInv, OneEach
  <2> QED BY <1>1, <1>2, <2>1 DEF IInv, OneEach
<1>7. Types'
  <2>1. completed' \subseteq Msgs
    BY <1>1, ClientEntries DEF IInv, Types, TypeOK
  <2>2. TypeOK'
    BY <1>1, <2>1 DEF IInv, Types, TypeOK
  <2> QED BY <1>1, <1>2, <2>2 DEF IInv, Types, Clients
<1>8. ClientOK'
  <2>1. \A i, j \in 1 .. Len(inflight') : i < j => inflight'[i].msg < inflight'[j].msg
    BY <1>1 DEF IInv, ClientOK
  <2>2. \A x, w \in Unfinished' : x.pid = w.pid \/ x.msg = w.msg => x = w
    BY <1>1 DEF IInv, ClientOK
  <2>3. \A x \in Unfinished' : x.msg <= sent' /\ (x.type = "PUBREL" => x.qos = 2)
    BY <1>1 DEF IInv, ClientOK
  <2> QED BY <2>1, <2>2, <2>3 DEF ClientOK
<1>9. OneEach'
  <2>1. ASSUME NEW i \in Back', NEW j \in Back', toClient'[i].pid = toClient'[j].pid PROVE i = j
    <3>1. i + 1 \in Back /\ j + 1 \in Back /\ toClient[i + 1].pid = toClient[j + 1].pid /\ i \in Nat /\ j \in Nat
      BY <1>2, <2>1
    <3>2. i + 1 = j + 1
      BY <3>1 DEF IInv, OneEach
    <3> QED BY <3>1, <3>2
  <2>2. ASSUME NEW i \in Wire, NEW j \in Back' PROVE toBroker[i].pid # toClient'[j].pid
    <3>1. j + 1 \in Back /\ toClient'[j] = toClient[j + 1]
      BY <1>2
    <3> QED BY <3>1 DEF IInv, OneEach
  <2>3. ASSUME Busy, NEW i \in Back' PROVE toClient'[i].pid # proc.pkt.pid
    <3>1. i + 1 \in Back /\ toClient'[i] = toClient[i + 1]
      BY <1>2
    <3> QED BY <2>3, <3>1 DEF IInv, OneEach
  <2> QED BY <1>1, <1>5, <2>1, <2>2, <2>3 DEF IInv, OneEach
<1>10. WireOK'
  <2> SUFFICES ASSUME NEW i \in Wire
               PROVE  \/ toBroker[i].type = "PUBLISH" /\ toBroker[i] \in Unfinished'
                      \/ /\ toBroker[i].type = "PUBREL" /\ toBroker[i].qos = 0
                         /\ \E x \in Unfinished' : x.pid = toBroker[i].pid /\ x.type = "PUBREL"
    BY <1>1, <1>5 DEF WireOK
  <2>1. \A x \in Unfinished : x.pid = toBroker[i].pid => x \in Unfinished'
    BY <1>1, <1>6
  <2> QED BY <2>1 DEF IInv, WireOK
<1>11. BackOK'
  <2> SUFFICES ASSUME NEW i \in Back'
               PROVE  \E x \in Unfinished' :
                        /\ x.pid = toClient'[i].pid
                        /\ \/ toClient'[i].type = "PUBREC" /\ x.type = "PUBLISH" /\ x.qos = 2
                           \/ toClient'[i].type = "PUBACK" /\ x.type = "PUBLISH" /\ x.qos = 1
                           \/ toClient'[i].type = "PUBCOMP" /\ x.type = "PUBREL"
    BY DEF BackOK
  <2>1. i + 1 \in Back /\ toClient'[i] = toClient[i + 1]
    BY <1>2
  <2>2. \A x \in Unfinished : x.pid = toClient'[i].pid => x \in Unfinished'
    BY <1>1, <1>6
  <2> QED BY <2>1, <2>2 DEF IInv, BackOK
<1>12. ProcOK'
  <2>1. Busy => \A x \in Unfinished : x.pid = proc.pkt.pid => x \in Unfinished'
    BY <1>1, <1>6
  <2> QED BY <1>1, <2>1 DEF IInv, ProcOK, Busy
<1>13. AllOnTheWay'
  <2> SUFFICES ASSUME up, NEW x \in Unfinished' PROVE HasPacket(x)'
    BY <1>1 DEF AllOnTheWay
  <2>1. HasPacket(x) /\ x.pid # h.pid
    BY <1>1, <1>4 DEF IInv, AllOnTheWay
  <2>2. CASE \E i \in Wire : toBroker[i].pid = x.pid
    BY <1>1, <1>5, <2>2 DEF HasPacket
  <2>3. CASE \E i \in Back : toClient[i].pid = x.pid
    BY <1>1, <1>3, <2>1, <2>3 DEF HasPacket
  <2>4. CASE Busy /\ proc.pkt.pid = x.pid
    BY <1>1, <1>5, <2>4 DEF HasPacket
  <2> QED BY <2>1, <2>2, <2>3, <2>4 DEF HasPacket
<1>14. QueueSorted' /\ AfterPublished' /\ BelowSent' /\ EntriesMatch' /\ OnceInOrder'
  BY <1>1, <1>5 DEF IInv, QueueSorted, AfterPublished, BelowSent, EntriesMatch, OnceInOrder
<1>15. /\ \A x : Queued(x)' = Queued(x) /\ Later(x)' = Later(x) /\ Stored(x)' = Stored(x)
       /\ ToCome' \subseteq ToCome
  BY <1>1, <1>5 DEF ToCome, Queued, Later, Stored
<1>16. NewIsLater' /\ PublishesInOrder' /\ NoneSkipped'
  BY <1>1, <1>5, <1>15 DEF IInv, NewIsLater, PublishesInOrder, NoneSkipped
<1>17. ReleasedFirst' /\ PubrecFirst'
  BY <1>1, <1>5 DEF IInv, ReleasedFirst, PubrecFirst
<1>18. PubrecsInOrder'
  <2> SUFFICES ASSUME NEW i \in Back', NEW x \in Unfinished', NEW w \in Unfinished',
                      toClient'[i].type = "PUBREC", toClient'[i].pid = x.pid,
                      w.msg < x.msg, w.type = "PUBLISH", w.qos = 2
               PROVE  \E j \in Back' : j < i /\ toClient'[j].pid = w.pid
    BY DEF PubrecsInOrder
  <2>1. x \in Unfinished /\ w \in Unfinished /\ w.pid # h.pid
    BY <1>1, <1>4
  <2>2. i + 1 \in Back /\ toClient[i + 1] = toClient'[i] /\ i \in Nat
    BY <1>2
  <2>3. PICK k \in Back : k < i + 1 /\ toClient[k].pid = w.pid
    BY <2>1, <2>2 DEF IInv, PubrecsInOrder
  <2>4. PICK j \in Back' : j + 1 = k /\ toClient'[j] = toClient[k]
    BY <1>1, <1>3, <2>1, <2>3
  <2>5. j < i
    <3>1. j \in Nat /\ i \in Nat /\ j + 1 < i + 1
      BY <1>2, <2>3, <2>4
    <3> QED BY <3>1
  <2> QED BY <2>3, <2>4, <2>5
<1>19. ASSUME Faithful PROVE OnlyHead' /\ QueueUnfinished' /\ PubrelsInOrder' /\ PubcompAfter'
  <2>1. OnlyHead' /\ PubrelsInOrder'
    BY <1>1, <1>5, <1>19 DEF IInv, OnlyHead, PubrelsInOrder
\* The message is not in the queue any more.
  <2>2. \A k \in Queue : h.type = "PUBCOMP" => queue[k].pid # h.pid
    BY <1>1, <1>19 DEF IInv, PubcompAfter
  <2>3. QueueUnfinished'
    <3> SUFFICES ASSUME NEW k \in Queue
                 PROVE  \E x \in Unfinished' : x.pid = queue[k].pid /\ x.msg = queue[k].msg /\ x.qos = 2
      BY <1>1, <1>5 DEF QueueUnfinished
    <3>1. PICK x \in Unfinished : x.pid = queue[k].pid /\ x.msg = queue[k].msg /\ x.qos = 2
      BY <1>19 DEF IInv, QueueUnfinished
    <3>2. x # y
      BY <1>1, <2>2, <3>1
    <3> QED BY <1>1, <3>1, <3>2
  <2>4. PubcompAfter'
    <3> SUFFICES ASSUME NEW k \in Queue, NEW i \in Back', toClient'[i].type = "PUBCOMP"
                 PROVE  queue[k].pid # toClient'[i].pid
      BY <1>1, <1>5, <1>19 DEF IInv, PubcompAfter
    <3>1. i + 1 \in Back /\ toClient'[i] = toClient[i + 1]
      BY <1>2
    <3> QED BY <1>19, <3>1 DEF IInv, PubcompAfter
  <2> QED BY <2>1, <2>3, <2>4
<1>20. PubrecKept' /\ BackKept' /\ ReleasedKept' /\ PubcompReleased' /\ CompletedKept'
  <2>1. PubrecKept'
    BY <1>1, <1>15 DEF IInv, PubrecKept
  <2>2. PubcompReleased'
    <3> SUFFICES ASSUME NEW k \in Queue, NEW i \in Back', toClient'[i].type = "PUBCOMP", queue[k].pid = toClient'[i].pid
                 PROVE  queue[k].state = "PUBREL"
      BY <1>1, <1>5 DEF IInv, PubcompReleased
    <3>1. i + 1 \in Back /\ toClient'[i] = toClient[i + 1]
      BY <1>2
    <3> QED BY <3>1 DEF IInv, PubcompReleased
  <2>3. BackKept'
    <3> SUFFICES ASSUME NEW i \in Back', NEW x \in Unfinished', toClient'[i].pid = x.pid
                 PROVE  (toClient'[i].type = "PUBREC" => Stored(x)) /\ (toClient'[i].type = "PUBACK" => Safe(x.msg))
      BY <1>5, <1>15 DEF BackKept
    <3>1. i + 1 \in Back /\ toClient'[i] = toClient[i + 1] /\ x \in Unfinished
      BY <1>1, <1>2
    <3> QED BY <3>1 DEF IInv, BackKept
  <2>4. ReleasedKept'
    BY <1>1, <1>5, <1>15 DEF IInv, ReleasedKept
\* The message of a PUBCOMP is published, or its entry waits for those before it.
  <2>5. y.msg \notin Unencodable => Safe(y.msg) \/ Released(y.msg)
    <3>1. CASE h.type = "PUBACK"
      BY <1>1, <3>1 DEF IInv, BackKept
    <3>2. CASE h.type = "PUBCOMP"
      <4>1. Stored(y) \/ Published2(y.msg)
        BY <1>1, <3>2 DEF IInv, ReleasedKept
      <4>2. Queued(y) => Released(y.msg)
        BY <1>1, <3>2 DEF Queued, Released, IInv, PubcompReleased
      <4>3. Published2(y.msg) => IsPublished(y.msg)
        BY DEF Published2, IsPublished, IInv, Types, TypeOK
      <4> QED BY <4>1, <4>2, <4>3 DEF Stored, Safe, Released
    <3> QED BY <1>1, <3>1, <3>2
  <2>6. CompletedKept'
    <3>1. \A m : Released(m)' = Released(m)
      BY <1>1, <1>5 DEF Released
    <3> QED BY <1>1, <1>5, <2>5, <3>1 DEF IInv, CompletedKept
  <2> QED BY <2>1, <2>2, <2>3, <2>4, <2>6
<1>21. HistoryOK' /\ Faithful' = Faithful
  BY <1>1 DEF IInv, HistoryOK, Faithful
<1> QED BY <1>7, <1>8, <1>9, <1>10, <1>11, <1>12, <1>13, <1>14, <1>16, <1>17, <1>18, <1>19, <1>20, <1>21 DEF IInv

LEMMA ReconnectKeeps ==
  ASSUME IInv, Reconnect
  PROVE  IInv'
<1>1. /\ up' = TRUE /\ proc'.at = "idle" /\ proc' \in Processors /\ toClient' = <<>> /\ proc.at = "stopped"
      /\ UNCHANGED <<queue, published, sent, completed, drops, shadowed, trusting>>
  BY Numbers DEF Reconnect, Idle, Stopped, At, Bare, Packet, PacketTypes, Processors
<1>2. /\ Queue' = Queue /\ (\A m : Published2(m)' = Published2(m)) /\ ~ Busy' /\ \A i \in Back' : FALSE
      /\ \A m : (Safe(m) => Safe(m)') /\ Released(m)' = Released(m)
  BY <1>1 DEF Queue, Published2, Busy, Back, Safe, IsPublished, Released
<1>3. QueueSorted' /\ AfterPublished' /\ BelowSent' /\ OnceInOrder'
  BY <1>1, <1>2 DEF IInv, QueueSorted, AfterPublished, BelowSent, OnceInOrder
<1>4. PubrecsInOrder' /\ PubrecFirst' /\ BackOK' /\ ProcOK' /\ toClient' \in Seq(PacketTypes)
  BY <1>1, <1>2 DEF PubrecsInOrder, PubrecFirst, BackOK, ProcOK
<1>5. TypeOK'
  BY <1>1 DEF IInv, Types, TypeOK, Processors
<1>8. PubrecKept' /\ BackKept' /\ PubcompReleased' /\ CompletedKept'
  BY <1>1, <1>2 DEF IInv, PubrecKept, BackKept, PubcompReleased, CompletedKept
<1>6. CASE trusting
  <2>1. /\ inflight' = <<>> /\ toBroker' = <<>> /\ toBroker' \in Seq(PacketTypes) /\ inflight' \in Seq(Clients)
        /\ Len(inflight') = 0
    BY <1>6 DEF Reconnect
  <2>2. (\A i \in Wire' : FALSE) /\ Unfinished' = {} /\ ToCome' = {} /\ \A i \in 1 .. Len(inflight') : FALSE
    BY <2>1 DEF Wire, Unfinished, ToCome
  <2>3. Types'
    BY <1>1, <1>4, <1>5, <2>1 DEF IInv, Types, Clients
  <2>4. ClientOK' /\ OneEach' /\ WireOK' /\ AllOnTheWay' /\ EntriesMatch' /\ ReleasedFirst'
    BY <1>2, <2>2 DEF ClientOK, OneEach, WireOK, AllOnTheWay, EntriesMatch, ReleasedFirst
  <2>5. NewIsLater' /\ PublishesInOrder' /\ NoneSkipped'
    BY <2>2 DEF NewIsLater, PublishesInOrder, NoneSkipped
  <2>6. ReleasedKept'
    BY <2>2 DEF ReleasedKept
  <2>7. givenUp' = givenUp \cup {inflight[i].msg : i \in {j \in 1 .. Len(inflight) : inflight[j].qos = 2}}
    BY <1>6 DEF Reconnect
  <2>8. \A i \in 1 .. Len(inflight) : inflight[i] \in Unfinished /\ inflight[i].msg \in Msgs /\ inflight[i].msg <= sent
    <3>1. \A i \in 1 .. Len(inflight) : inflight[i] \in Unfinished
      BY DEF Unfinished
    <3> QED BY <3>1, ClientEntries
  <2>9. HistoryOK'
    <3>1. givenUp' \subseteq Msgs /\ (\A g \in givenUp' : g <= sent) /\ givenUp \subseteq givenUp'
      BY <2>7, <2>8 DEF IInv, HistoryOK
    <3> QED BY <1>1, <1>6, <2>2, <3>1 DEF IInv, HistoryOK
\* A client that gave up no QoS 2 message left nothing in the queue.
  <2>10. ASSUME Faithful' PROVE OnlyHead' /\ QueueUnfinished' /\ PubrelsInOrder' /\ PubcompAfter'
    <3>1. Faithful /\ \A x \in Unfinished : x.qos # 2
      BY <2>7, <2>10 DEF Faithful, Unfinished
    <3>2. \A k \in Queue : FALSE
      BY <3>1 DEF IInv, QueueUnfinished
    <3> QED BY <1>2, <3>2 DEF OnlyHead, QueueUnfinished, PubrelsInOrder, PubcompAfter
  <2> QED BY <1>3, <1>4, <1>8, <2>3, <2>4, <2>5, <2>6, <2>9, <2>10 DEF IInv
<1>7. CASE ~ trusting
  <2>1. inflight \in Seq(Clients) /\ Len(inflight) \in Nat
    BY DEF IInv, Types, Clients
  <2>2. \A i \in 1 .. Len(inflight) : inflight[i] \in Unfinished /\ inflight[i] \in Clients
    <3>1. \A i \in 1 .. Len(inflight) : inflight[i] \in Unfinished
      BY DEF Unfinished
    <3> HIDE DEF Clients
    <3> QED BY <2>1, <3>1, ElementOfSeq
  <2>3. ASSUME NEW x \in Clients
        PROVE  /\ Resend(x) \in PacketTypes /\ Resend(x).pid = x.pid /\ Resend(x).type = x.type
               /\ x.type = "PUBLISH" => Resend(x) = x
               /\ x.type = "PUBREL" => Resend(x).qos = 0
    <3>1. x \in PacketTypes
      <4>1. 1 .. N \subseteq 0 .. N /\ Qoses \subseteq 0 .. 2
        BY Numbers, InflowAssumption
      <4> QED BY <4>1 DEF Clients, PacketTypes
    <3>2. CASE x.type = "PUBREL"
      BY <3>1, <3>2, Numbers DEF Resend, Bare, Packet, PacketTypes
    <3>3. CASE x.type = "PUBLISH"
      BY <3>1, <3>3 DEF Resend
    <3> QED BY <3>2, <3>3 DEF Clients
  <2>19. givenUp' = givenUp /\ Faithful
    BY <1>7 DEF Reconnect, IInv, HistoryOK
  <2>4. /\ toBroker' \in Seq(PacketTypes) /\ Wire' = 1 .. Len(inflight) /\ inflight' = inflight
        /\ \A i \in 1 .. Len(inflight) : toBroker'[i] = Resend(inflight[i])
    <3>1. inflight' = inflight /\ toBroker' = [i \in 1 .. Len(inflight) |-> Resend(inflight[i])]
      BY <1>7, <2>1 DEF Reconnect
    <3>2. toBroker' \in Seq(PacketTypes) /\ Len(toBroker') = Len(inflight)
      <4>1. \A i \in 1 .. Len(inflight) : Resend(inflight[i]) \in PacketTypes
        BY <2>2, <2>3
      <4> QED BY <2>1, <3>1, <4>1
    <3> QED BY <3>1, <3>2 DEF Wire
  <2>5. /\ \A i \in Wire' : /\ i \in 1 .. Len(inflight) /\ inflight[i] \in Unfinished
                            /\ toBroker'[i].pid = inflight[i].pid /\ toBroker'[i].type = inflight[i].type
                            /\ inflight[i].type \in {"PUBLISH", "PUBREL"}
                            /\ inflight[i].type = "PUBLISH" => toBroker'[i] = inflight[i]
                            /\ inflight[i].type = "PUBREL" => toBroker'[i].qos = 0
        /\ Unfinished' = Unfinished
        /\ \A x \in Unfinished : \E i \in Wire' : inflight[i] = x
    <3>1. Unfinished' = Unfinished /\ \A x \in Unfinished : \E i \in Wire' : inflight[i] = x
      BY <2>4 DEF Unfinished
    <3>2. \A i \in Wire' : inflight[i].type \in {"PUBLISH", "PUBREL"}
      BY <2>2, <2>4, ClientEntries
    <3> QED BY <2>2, <2>3, <2>4, <3>1, <3>2
\* Sent again in the original order.
  <2>6. ASSUME NEW i \in Wire', NEW j \in Wire', inflight[i].msg < inflight[j].msg PROVE i < j
    <3>1. i \in Nat /\ j \in Nat /\ inflight[i].msg \in Nat /\ inflight[j].msg \in Nat
      BY <2>4, <2>5, ClientEntries
    <3>2. ~ j < i /\ i # j
      BY <2>4, <2>6, <3>1 DEF IInv, ClientOK
    <3> QED BY <3>1, <3>2
  <2>7. \A x \in Unfinished, w \in Unfinished : x.pid = w.pid => x = w
    BY DEF IInv, ClientOK
  <2>8. Types'
    BY <1>1, <1>4, <1>5, <2>4 DEF IInv, Types
  <2>9. ClientOK' /\ EntriesMatch' /\ ReleasedFirst'
    BY <1>1, <1>2, <2>4, <2>5 DEF IInv, ClientOK, EntriesMatch, ReleasedFirst
  <2>10. OneEach'
    <3>1. ASSUME NEW i \in Wire', NEW j \in Wire', toBroker'[i].pid = toBroker'[j].pid PROVE i = j
      <4>1. inflight[i] = inflight[j] /\ inflight[i].msg \in Nat /\ i \in Nat /\ j \in Nat
        BY <2>4, <2>5, <2>7, <3>1, ClientEntries
      <4>2. ~ j < i /\ ~ i < j
        BY <2>4, <4>1 DEF IInv, ClientOK
      <4> QED BY <4>1, <4>2
    <3> QED BY <1>2, <3>1 DEF OneEach
  <2>11. WireOK' /\ AllOnTheWay'
    BY <2>5 DEF WireOK, AllOnTheWay, HasPacket
  <2>12. ToCome' = ToCome /\ \A x : Queued(x)' = Queued(x) /\ Later(x)' = Later(x) /\ Stored(x)' = Stored(x)
    BY <1>1, <1>2, <1>7, <2>5 DEF ToCome, Queued, Later, Stored
  <2>13. NewIsLater'
    BY <2>12 DEF IInv, NewIsLater
  <2>14. PublishesInOrder'
    BY <2>4, <2>5 DEF IInv, ClientOK, PublishesInOrder
  <2>15. NoneSkipped'
    <3> SUFFICES ASSUME NEW i \in Wire', NEW x \in ToCome, toBroker'[i].type = "PUBLISH", x.msg < toBroker'[i].msg
                 PROVE  \E j \in Wire' : j < i /\ toBroker'[j] = x
      BY <2>12 DEF NoneSkipped
    <3>1. PICK j \in Wire' : inflight[j] = x /\ toBroker'[j] = x
      BY <2>5 DEF ToCome
    <3>2. j < i
      BY <2>5, <2>6, <3>1
    <3> QED BY <3>1, <3>2
  <2>16. OnlyHead' /\ PubcompAfter'
    BY <1>1, <1>2, <2>19 DEF IInv, OnlyHead, PubcompAfter
  <2>17. QueueUnfinished' /\ ReleasedKept'
    BY <1>1, <1>2, <2>5, <2>12, <2>19 DEF IInv, QueueUnfinished, ReleasedKept
  <2>18. PubrelsInOrder'
    <3> SUFFICES ASSUME NEW i \in Wire', NEW k \in Queue, NEW x \in Unfinished,
                        toBroker'[i].pid = x.pid, queue[k].msg < x.msg
                 PROVE  \E j \in Wire' : j < i /\ toBroker'[j].pid = queue[k].pid
      BY <1>1, <1>2, <2>5 DEF PubrelsInOrder
    <3>1. inflight[i] = x
      BY <2>5, <2>7
    <3>2. PICK w \in Unfinished : w.pid = queue[k].pid /\ w.msg = queue[k].msg
      BY <2>19 DEF IInv, QueueUnfinished
    <3>3. PICK j \in Wire' : inflight[j] = w
      BY <2>5
    <3>4. j < i /\ toBroker'[j].pid = w.pid
      BY <2>5, <2>6, <3>1, <3>2, <3>3
    <3> QED BY <3>2, <3>4
  <2>20. HistoryOK'
    BY <1>1, <2>5, <2>19 DEF IInv, HistoryOK, Faithful
  <2> QED BY <1>3, <1>4, <1>8, <2>8, <2>9, <2>10, <2>11, <2>13, <2>14, <2>15, <2>16, <2>17, <2>18, <2>20 DEF IInv
<1> QED BY <1>6, <1>7

-----------------------------------------------------------------------------
(* Theorems *)

LEMMA InitInv == Init => IInv
<1> SUFFICES ASSUME Init PROVE IInv
  OBVIOUS
<1>1. /\ queue = <<>> /\ published = <<>> /\ toBroker = <<>> /\ toClient = <<>> /\ inflight = <<>>
      /\ proc.at = "idle" /\ proc \in Processors /\ up = TRUE /\ sent = 0 /\ completed = {} /\ drops = 0
      /\ givenUp = {} /\ shadowed = {}
  BY Numbers DEF Init, Idle, At, Bare, Packet, PacketTypes, Processors
<1>2. /\ (\A i \in Wire : FALSE) /\ (\A i \in Back : FALSE) /\ (\A i \in Queue : FALSE) /\ Unfinished = {}
      /\ (\A i \in 1 .. Len(inflight) : FALSE) /\ (\A i \in DOMAIN published : FALSE) /\ \A m : ~ Published2(m)
  BY <1>1 DEF Wire, Back, Queue, Unfinished, Published2
<1>3. Types
  <2>1. queue \in Seq(Entries) /\ Len(queue) = 0 /\ published \in Seq([msg : Msgs, qos : Qoses])
    BY <1>1
  <2>2. toBroker \in Seq(PacketTypes) /\ toClient \in Seq(PacketTypes)
    BY <1>1
  <2>3. inflight \in Seq([type : {"PUBLISH", "PUBREL"}, pid : Pids, msg : 1 .. N, qos : Qoses])
    BY <1>1
  <2>4. drops \in 0 .. MaxDrops /\ sent \in 0 .. Cardinality(Msgs) /\ completed \subseteq Msgs
    <3>1. 0 \in 0 .. MaxDrops /\ 0 \in 0 .. N
      BY Numbers, InflowAssumption
    <3> QED BY <1>1, <3>1, Numbers
  <2> QED BY <1>1, <2>1, <2>2, <2>3, <2>4 DEF Types, TypeOK
<1>4. ClientOK /\ OneEach /\ WireOK /\ BackOK /\ ProcOK /\ AllOnTheWay
  BY <1>1, <1>2 DEF ClientOK, OneEach, Busy, WireOK, BackOK, ProcOK, AllOnTheWay
<1>5. QueueSorted /\ AfterPublished /\ BelowSent /\ EntriesMatch /\ OnceInOrder
  BY <1>2 DEF QueueSorted, AfterPublished, BelowSent, EntriesMatch, OnceInOrder
<1>6. NewIsLater /\ PublishesInOrder /\ NoneSkipped /\ ReleasedFirst /\ PubrecsInOrder /\ PubrecFirst
  BY <1>2 DEF ToCome, NewIsLater, PublishesInOrder, NoneSkipped, ReleasedFirst, PubrecsInOrder, PubrecFirst
<1>7. /\ OnlyHead /\ QueueUnfinished /\ PubrelsInOrder /\ PubcompAfter /\ HistoryOK
      /\ PubrecKept /\ BackKept /\ ReleasedKept /\ PubcompReleased /\ CompletedKept
  BY <1>1, <1>2 DEF OnlyHead, QueueUnfinished, PubrelsInOrder, PubcompAfter, PubrecKept, BackKept,
                    ReleasedKept, PubcompReleased, CompletedKept, HistoryOK, Faithful
<1> QED BY <1>3, <1>4, <1>5, <1>6, <1>7 DEF IInv

LEMMA StutterKeeps ==
  ASSUME IInv, UNCHANGED vars
  PROVE  IInv'
<1>1. UNCHANGED <<queue, proc, published, up, toBroker, toClient, inflight, sent, completed, drops, givenUp, shadowed, trusting>>
  BY DEF vars, broker, client, history
<1>2. /\ Wire' = Wire /\ Back' = Back /\ Queue' = Queue /\ Unfinished' = Unfinished /\ Busy' = Busy
      /\ \A m : Published2(m)' = Published2(m) /\ Safe(m)' = Safe(m) /\ Released(m)' = Released(m)
      /\ \A x : Queued(x)' = Queued(x) /\ Later(x)' = Later(x) /\ Stored(x)' = Stored(x) /\ HasPacket(x)' = HasPacket(x)
      /\ ToCome' = ToCome
  BY <1>1 DEF Wire, Back, Queue, Unfinished, Busy, Published2, Safe, IsPublished, Released, Queued, Later,
              Stored, HasPacket, ToCome
<1>3. Types' /\ ClientOK' /\ OneEach' /\ WireOK' /\ BackOK' /\ ProcOK' /\ AllOnTheWay'
  <2>1. Types'
    BY <1>1 DEF IInv, Types, TypeOK
  <2>2. ClientOK' /\ OneEach' /\ WireOK'
    BY <1>1, <1>2 DEF IInv, ClientOK, OneEach, WireOK
  <2>3. BackOK' /\ ProcOK' /\ AllOnTheWay'
    BY <1>1, <1>2 DEF IInv, BackOK, ProcOK, AllOnTheWay
  <2> QED BY <2>1, <2>2, <2>3
<1>4. /\ QueueSorted' /\ AfterPublished' /\ BelowSent' /\ EntriesMatch' /\ OnceInOrder'
      /\ NewIsLater' /\ PublishesInOrder' /\ NoneSkipped' /\ ReleasedFirst' /\ PubrecsInOrder' /\ PubrecFirst'
  BY <1>1, <1>2 DEF IInv, QueueSorted, AfterPublished, BelowSent, EntriesMatch, OnceInOrder, NewIsLater,
                    PublishesInOrder, NoneSkipped, ReleasedFirst, PubrecsInOrder, PubrecFirst
<1>5. /\ Faithful' => OnlyHead' /\ QueueUnfinished' /\ PubrelsInOrder' /\ PubcompAfter'
      /\ PubrecKept' /\ BackKept' /\ ReleasedKept' /\ PubcompReleased' /\ CompletedKept' /\ HistoryOK'
  <2>1. Faithful' => OnlyHead' /\ QueueUnfinished' /\ PubrelsInOrder' /\ PubcompAfter'
    BY <1>1, <1>2 DEF IInv, OnlyHead, QueueUnfinished, PubrelsInOrder, PubcompAfter, Faithful
  <2>2. PubrecKept' /\ BackKept' /\ ReleasedKept' /\ PubcompReleased' /\ CompletedKept' /\ HistoryOK'
    BY <1>1, <1>2 DEF IInv, PubrecKept, BackKept, ReleasedKept, PubcompReleased, CompletedKept, HistoryOK, Faithful
  <2> QED BY <2>1, <2>2
<1> QED BY <1>3, <1>4, <1>5 DEF IInv

LEMMA NextInv == IInv /\ [Next]_vars => IInv'
<1> SUFFICES ASSUME IInv, [Next]_vars PROVE IInv'
  OBVIOUS
<1>1. CASE Processor
  BY <1>1, Publish2Keeps, Publish1Keeps, OnPublishKeeps, PubrelKeeps, AckedKeeps, SendKeeps, StopsKeeps DEF Processor
<1>2. CASE Drop
  BY <1>2, DropKeeps
<1>3. CASE ClientAnswers
  BY <1>3, ReleasesKeeps, CompletesKeeps DEF ClientAnswers
<1>4. CASE Reconnect
  BY <1>4, ReconnectKeeps
<1>5. CASE \E p \in Pids, q \in Qoses : ClientPublishes(p, q)
  BY <1>5, ClientPublishesKeeps
<1>6. CASE UNCHANGED vars
  BY <1>6, StutterKeeps
<1> QED BY <1>1, <1>2, <1>3, <1>4, <1>5, <1>6 DEF Next

LEMMA Invariance == Spec => []IInv
BY InitInv, NextInv, PTL DEF Spec

\* For any number of messages, identifiers and breaks, and whether the client
\* keeps its state or not: processAcked publishes no QoS 2 message twice, nor
\* one after a later one.
THEOREM QoS2ExactlyOnce == Spec => []ExactlyOnce
<1>1. IInv => ExactlyOnce
  BY DEF IInv, Types, ExactlyOnce
<1> QED BY <1>1, Invariance, PTL

\* For any client: a message whose PUBACK or PUBCOMP it has seen is published,
\* its handler is on the way to onPublish, or it waits, released, in pub2in;
\* unless pub2in could not store it, or held its identifier for another message,
\* which happens only after the client gave up an earlier QoS 2 message.
THEOREM NothingIsLost == Spec => []NothingLost
<1>1. IInv => NothingLost
  <2> SUFFICES ASSUME IInv, NEW m \in completed \ Unencodable, ~ IsPublished(m), ~ Accepted(m)
               PROVE  m \in shadowed /\ \E g \in givenUp : g < m
    BY DEF NothingLost
  <2>1. ~ Safe(m) /\ ~ \E k \in DOMAIN queue : queue[k].msg = m /\ queue[k].state = "PUBREL"
    BY DEF Accepted, Safe
  <2>2. DOMAIN queue = Queue
    BY Basics DEF Queue
  <2>3. m \in shadowed
    BY <2>1, <2>2 DEF IInv, CompletedKept, Released
  <2> QED BY <2>3 DEF IInv, HistoryOK
<1> QED BY <1>1, Invariance, PTL
=============================================================================
