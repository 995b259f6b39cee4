---------------------------- MODULE OutflowProofs ---------------------------
(***************************************************************************)
(* Proofs about Outflow for any publishers, messages, identifiers, Receive *)
(* Maximum, subscriptions and number of reconnects: a message on its way to *)
(* the client has its own entry in a queue, and the broker finishes an     *)
(* exchange only when the client has acknowledged it, whatever the services *)
(* of earlier connections queue in between.                                *)
(***************************************************************************)
EXTENDS Outflow, SequenceTheorems, TLAPS

El(s) == {s[i] : i \in DOMAIN s}

-----------------------------------------------------------------------------
(* The inductive invariant, part by part *)

Packets == [type : {"PUBLISH", "PUBREL", "PUBACK", "PUBREC", "PUBCOMP", "NONE"},
            pid : Pids \cup {0}, msg : Msgs \cup {0}, qos : {0, 1, 2}]
Publications == [type : {"PUBLISH"}, pid : Pids, msg : Msgs, qos : {1, 2}]

\* A publisher that has an identifier of the connection there is, before and
\* after Wait.
Before(k) == pc[k] = "wait" /\ Live(k)
After(k) == pc[k] = "write" /\ Live(k)
Numbered(k) == Before(k) \/ After(k)

PublisherTypes ==
  /\ cur \in [Publishers -> Packets]
  /\ \A k \in Publishers :
       /\ pc[k] = "idle" \/ todo[k] # <<>>
       /\ pc[k] = "poll" => cur[k].msg \in Msgs
       /\ pc[k] \in {"wait", "write"} => cur[k] \in Publications

Types ==
  /\ TypeOK /\ toClient \in Seq(Packets) /\ toBroker \in Seq(Packets)
  /\ PublisherTypes
  /\ proc = "retained" => rm \in Publications
  /\ holds \subseteq Publications
  /\ \A x \in El(toClient) : x \in Publications \/ (x.type = "PUBREL" /\ x.pid \in Pids)
  /\ \A y \in El(toBroker) : y.type \in AckTypes /\ y.pid \in Pids

\* What is said of an identifier holds unless it is confused.
Clear(p) == p \notin Confused

\* The identifiers used so far on this connection.
Taken(p) == p \in 1 .. used[reconnects] \/ \E m \in DOMAIN RetainedPid \ left : p = RetainedPid[m]
AllTaken ==
  /\ \A k \in Publishers : Numbered(k) /\ Clear(cur[k].pid) => Taken(cur[k].pid)
  /\ proc = "retained" /\ Clear(rm.pid) => Taken(rm.pid)
  /\ \A x \in El(toClient) \cup El(toBroker) \cup Queued \cup holds : Clear(x.pid) => Taken(x.pid)

\* A publish that has not reached the client is the only packet with its
\* identifier.
Alone ==
  /\ \A k, l \in Publishers :
       Numbered(k) /\ Numbered(l) /\ cur[k].pid = cur[l].pid /\ Clear(cur[k].pid) => k = l
  /\ \A k \in Publishers : Numbered(k) /\ proc = "retained" /\ cur[k].pid = rm.pid => ~ Clear(rm.pid)
  /\ \A k \in Publishers, x \in El(toClient) \cup El(toBroker) :
       Numbered(k) /\ x.pid = cur[k].pid => ~ Clear(x.pid)
  /\ \A x \in El(toClient) \cup El(toBroker) : proc = "retained" /\ x.pid = rm.pid => ~ Clear(x.pid)
OneOnWire ==
  \A i, j \in DOMAIN toClient :
       toClient[i].type = "PUBLISH" /\ toClient[i].pid = toClient[j].pid /\ i # j =>
         ~ Clear(toClient[i].pid)
Unanswered ==
  \A x \in El(toClient), y \in El(toBroker) :
       x.type = "PUBLISH" /\ x.pid = y.pid => ~ Clear(x.pid)

\* Before Wait nothing is known of the identifier, after it the message has
\* the entry under it.
Waiting ==
  \A k \in Publishers : Before(k) /\ Clear(cur[k].pid) =>
    \A e \in Queued \cup holds : e.pid # cur[k].pid
Entered(x) ==
  /\ \E e \in Queued : e.pid = x.pid /\ e.msg = x.msg
  /\ \A e \in Queued : e.pid = x.pid => e.msg = x.msg /\ e.state = "RESERVED"
  /\ \A h \in holds : h.pid # x.pid
SentEntered ==
  /\ \A k \in Publishers : After(k) /\ Clear(cur[k].pid) => Entered(cur[k])
  /\ proc = "retained" /\ Clear(rm.pid) => Entered(rm)
  /\ \A x \in El(toClient) : x.type = "PUBLISH" /\ Clear(x.pid) => Entered(x)

\* What the client has, or has had, is the message of the entry.
Settled(e) == Exchange(e.pid, e.msg) \in confirmed
Held(e) == \E h \in holds : h.pid = e.pid /\ h.msg = e.msg
PubacksRight ==
  \A y \in El(toBroker), e \in El(pub1ack) :
    y.type = "PUBACK" /\ y.pid = e.pid /\ Clear(e.pid) => Settled(e)
PubrecsRight ==
  \A x \in El(toBroker) \cup El(toClient), e \in El(pub2out) :
    x.type \in {"PUBREC", "PUBREL"} /\ x.pid = e.pid /\ Clear(e.pid) => Settled(e) \/ Held(e)
PubcompsRight ==
  \A y \in El(toBroker), e \in El(pub2out) :
    y.type = "PUBCOMP" /\ y.pid = e.pid /\ Clear(e.pid) => Settled(e)
FinalConfirmed ==
  \A e \in Queued : IsFinal(e) /\ Clear(e.pid) => Settled(e)

\* Without a connection nothing is under way, and what it has left is confused.
Offline == ~ online => toClient = <<>> /\ \A z \in Queued \cup holds : ~ Clear(z.pid)

IInv ==
  /\ Offline /\ Types /\ AllTaken /\ Alone /\ OneOnWire /\ Unanswered /\ Waiting /\ SentEntered
  /\ PubacksRight /\ PubrecsRight /\ PubcompsRight /\ FinalConfirmed /\ CompletesRight

-----------------------------------------------------------------------------
(* Sequences and their elements *)

LEMMA ElTyped == ASSUME NEW S, NEW s \in Seq(S) PROVE \A x \in El(s) : x \in S
BY DEF El

LEMMA ElAppend ==
  ASSUME NEW S, NEW s \in Seq(S), NEW x \in S
  PROVE  Append(s, x) \in Seq(S) /\ El(Append(s, x)) = El(s) \cup {x}
<1>1. /\ Append(s, x) \in Seq(S) /\ DOMAIN s = 1 .. Len(s) /\ Len(s) \in Nat
      /\ DOMAIN Append(s, x) = 1 .. Len(s) + 1
      /\ \A i \in 1 .. Len(s) : Append(s, x)[i] = s[i]
      /\ Append(s, x)[Len(s) + 1] = x
  BY AppendProperties
<1>2. \A i \in 1 .. Len(s) + 1 : i \in 1 .. Len(s) \/ i = Len(s) + 1
  BY <1>1
<1>3. 1 .. Len(s) \subseteq 1 .. Len(s) + 1 /\ Len(s) + 1 \in 1 .. Len(s) + 1
  BY <1>1
<1>4. El(Append(s, x)) \subseteq El(s) \cup {x}
  BY <1>1, <1>2 DEF El
<1>5. El(s) \cup {x} \subseteq El(Append(s, x))
  BY <1>1, <1>3 DEF El
<1> QED  BY <1>1, <1>4, <1>5

LEMMA ElTail ==
  ASSUME NEW S, NEW s \in Seq(S), s # <<>>
  PROVE  /\ Tail(s) \in Seq(S) /\ El(Tail(s)) \subseteq El(s) /\ Head(s) \in El(s)
         /\ 1 \in DOMAIN s /\ s[1] = Head(s)
         /\ \A i \in DOMAIN Tail(s) : i \in Nat /\ i + 1 \in DOMAIN s /\ i + 1 # 1 /\ Tail(s)[i] = s[i + 1]
<1>1. /\ Tail(s) \in Seq(S) /\ DOMAIN s = 1 .. Len(s) /\ Len(s) \in Nat /\ Len(s) # 0
      /\ Len(Tail(s)) = Len(s) - 1 /\ DOMAIN Tail(s) = 1 .. Len(Tail(s))
      /\ \A i \in 1 .. Len(Tail(s)) : Tail(s)[i] = s[i + 1]
      /\ Head(s) = s[1]
  BY EmptySeq, HeadTailProperties
<1>2. 1 \in DOMAIN s /\ \A i \in DOMAIN Tail(s) : i \in Nat /\ i + 1 \in DOMAIN s /\ i + 1 # 1
  BY <1>1
<1> QED  BY <1>1, <1>2 DEF El

LEMMA InsertedFacts ==
  ASSUME NEW q \in Seq(Entries), NEW e \in Entries
  PROVE  /\ Inserted(q, e) \in Seq(Entries)
         /\ El(q) \subseteq El(Inserted(q, e)) /\ El(Inserted(q, e)) \subseteq El(q) \cup {e}
         /\ (\A x \in El(q) : x.pid # e.pid) => e \in El(Inserted(q, e))
<1>1. DOMAIN q = 1 .. Len(q)
  OBVIOUS
<1>2. HasPid(q, e.pid) => \E x \in El(q) : x.pid = e.pid
  BY <1>1 DEF HasPid, El
<1>3. Append(q, e) \in Seq(Entries) /\ El(Append(q, e)) = El(q) \cup {e}
  BY ElAppend
<1> QED  BY <1>2, <1>3 DEF Inserted

\* What an acknowledgement does to an entry.
Marked(t, p, e) == IF e.pid = p THEN [e EXCEPT !.state = t] ELSE e

LEMMA AcknowledgedFacts ==
  ASSUME NEW q \in Seq(Entries), NEW t \in AckTypes, NEW p
  PROVE  /\ Acknowledged(q, t, p) \in Seq(Entries)
         /\ El(Acknowledged(q, t, p)) = {Marked(t, p, e) : e \in El(q)}
<1>1. DOMAIN q = 1 .. Len(q) /\ Len(q) \in Nat /\ \A i \in 1 .. Len(q) : q[i] \in Entries
  OBVIOUS
<1>2. \A e \in Entries : Marked(t, p, e) \in Entries
  BY DEF Marked, Entries
<1>3. Acknowledged(q, t, p) = [i \in 1 .. Len(q) |-> Marked(t, p, q[i])]
  BY DEF Acknowledged, Marked
<1>4. Acknowledged(q, t, p) \in [1 .. Len(q) -> Entries]
  BY <1>1, <1>2, <1>3
<1>5. Acknowledged(q, t, p) \in Seq(Entries)
  BY <1>1, <1>4, SeqDef
<1> QED  BY <1>1, <1>3, <1>5 DEF El

\* The fields that matter later: an entry keeps its identifier and message.
LEMMA MarkedFields ==
  ASSUME NEW t, NEW p, NEW e \in Entries
  PROVE  /\ Marked(t, p, e).pid = e.pid /\ Marked(t, p, e).msg = e.msg
         /\ Marked(t, p, e).state = IF e.pid = p THEN t ELSE e.state
BY DEF Marked, Entries

LEMMA RestFacts ==
  ASSUME NEW q \in Seq(Entries), NEW n \in 0 .. Len(q), Done(q, n)
  PROVE  /\ Rest(q, n) \in Seq(Entries) /\ El(Rest(q, n)) \subseteq El(q)
         /\ \A e \in El(q) : IsFinal(e) \/ e \in El(Rest(q, n))
         /\ \A i \in 1 .. n : q[i] \in El(q) /\ q[i] \in Entries /\ IsFinal(q[i])
<1>1. DOMAIN q = 1 .. Len(q) /\ Len(q) \in Nat /\ n \in Nat /\ n <= Len(q)
  OBVIOUS
<1>2. \A i \in 1 .. n : i \in 1 .. Len(q)
  BY <1>1
<1>3. \A i \in 1 .. n : q[i] \in El(q) /\ q[i] \in Entries /\ IsFinal(q[i])
  BY <1>1, <1>2 DEF El, Done, IsCompletedPrefix
<1>4. /\ Rest(q, n) \in Seq(Entries) /\ Len(Rest(q, n)) = Len(q) - n
      /\ \A i \in 1 .. Len(q) - n : Rest(q, n)[i] = q[n + i]
  <2>1. n + 1 \in Int /\ Len(q) \in Int /\ \A i \in n + 1 .. Len(q) : q[i] \in Entries
    BY <1>1
  <2>2. /\ Rest(q, n) \in Seq(Entries)
        /\ Len(Rest(q, n)) = IF n + 1 <= Len(q) THEN Len(q) - (n + 1) + 1 ELSE 0
        /\ \A i \in 1 .. Len(q) - (n + 1) + 1 : Rest(q, n)[i] = q[n + 1 + i - 1]
    BY <2>1, SubSeqProperties DEF Rest
  <2>3. Len(q) - (n + 1) + 1 = Len(q) - n /\ (n + 1 <= Len(q) \/ Len(q) - n = 0)
    <3>1. \A a, b \in Nat : a <= b => b - (a + 1) + 1 = b - a /\ (a + 1 <= b \/ b - a = 0)
      OBVIOUS
    <3> QED  BY <1>1, <3>1
  <2>4. \A i \in 1 .. Len(q) - n : n + 1 + i - 1 = n + i
    BY <1>1
  <2> QED  BY <2>2, <2>3, <2>4
<1>5. DOMAIN Rest(q, n) = 1 .. Len(q) - n
  BY <1>4
<1>6. \A i \in 1 .. Len(q) - n : n + i \in 1 .. Len(q)
  BY <1>1
<1>7. El(Rest(q, n)) \subseteq El(q)
  BY <1>1, <1>4, <1>5, <1>6 DEF El
<1>8. ASSUME NEW i \in 1 .. Len(q), ~ IsFinal(q[i]) PROVE q[i] \in El(Rest(q, n))
  <2>1. i \notin 1 .. n
    BY <1>3, <1>8
  <2>2. i - n \in 1 .. Len(q) - n /\ n + (i - n) = i
    BY <1>1, <2>1
  <2>3. Rest(q, n)[i - n] = q[i]
    BY <1>4, <2>2
  <2> QED  BY <1>5, <2>2, <2>3 DEF El
<1> QED  BY <1>1, <1>3, <1>4, <1>7, <1>8 DEF El

-----------------------------------------------------------------------------
(* What every step relies on *)

LEMMA Basics ==
  ASSUME Types
  PROVE  /\ pub1ack \in Seq(Entries) /\ pub2out \in Seq(Entries)
         /\ toClient \in Seq(Packets) /\ toBroker \in Seq(Packets)
         /\ Queued = El(pub1ack) \cup El(pub2out)
         /\ \A e \in Queued : e \in Entries /\ e.pid \in Pids /\ e.msg \in Msgs
         /\ \A x \in El(toClient) \cup El(toBroker) \cup holds : x.pid \in Pids
         /\ \A x \in El(toClient) : x.type = "PUBLISH" => x \in Publications
         /\ used \in [Services -> Nat] /\ Limit \in Nat /\ reconnects \in Services
<1>1. pub1ack \in Seq(Entries) /\ pub2out \in Seq(Entries)
  BY DEF Types, TypeOK
<1>2. \A e \in El(pub1ack) \cup El(pub2out) : e \in Entries
  BY <1>1 DEF El
<1>3. \A e \in Entries : e.pid \in Pids /\ e.msg \in Msgs
  BY DEF Entries
<1>4. \A x \in Publications : x.pid \in Pids
  BY DEF Publications
<1>5. Queued = El(pub1ack) \cup El(pub2out)
  BY DEF Queued, El
<1>6. used \in [Services -> Nat] /\ Limit \in Nat /\ reconnects \in Services
  BY OutflowAssumption DEF Types, TypeOK, Services
<1> QED  BY <1>1, <1>2, <1>3, <1>4, <1>5, <1>6 DEF Types

LEMMA Fields ==
  /\ \A x \in Publications : x.type = "PUBLISH" /\ x.pid \in Pids /\ x.msg \in Msgs /\ x \in Packets
  /\ \A p \in Pids, t \in {"PUBREL", "PUBACK", "PUBREC", "PUBCOMP"} :
       Bare(t, p) \in Packets /\ Bare(t, p).type = t /\ Bare(t, p).pid = p
  /\ NoPacket \in Packets
  /\ \A x \in Publications : LET e == NewEntry("PUBLISH", x.pid, x.msg) IN
       e \in Entries /\ e.pid = x.pid /\ e.msg = x.msg /\ e.state = "RESERVED"
BY OutflowAssumption DEF Publications, Packets, Bare, Packet, NoPacket, NewEntry, Entries

LEMMA SameConfused == ASSUME UNCHANGED cut PROVE Confused' = Confused
BY DEF Confused, Shared

LEMMA SameTaken ==
  ASSUME UNCHANGED <<used, reconnects>>, left' \subseteq left
  PROVE  \A i : Taken(i) => Taken(i)'
BY DEF Taken

\* A publisher that a step leaves alone.
SamePublisher(k) == pc'[k] = pc[k] /\ cur'[k] = cur[k] /\ todo'[k] = todo[k]

LEMMA SameNumbered ==
  ASSUME NEW k, SamePublisher(k), UNCHANGED <<online, reconnects>>
  PROVE  (Before(k)' <=> Before(k)) /\ (After(k)' <=> After(k)) /\ (Numbered(k)' <=> Numbered(k))
BY DEF SamePublisher, Before, After, Numbered, Live, Service

LEMMA SamePublishers ==
  ASSUME Types, UNCHANGED <<pc, cur, todo, online, reconnects>>
  PROVE  /\ PublisherTypes'
         /\ \A k \in Publishers :
              (Before(k)' <=> Before(k)) /\ (After(k)' <=> After(k)) /\ (Numbered(k)' <=> Numbered(k))
<1>1. \A k : SamePublisher(k)
  BY DEF SamePublisher
<1> QED  BY <1>1, SameNumbered DEF Types, PublisherTypes

\* Publisher p moves from one state to another and the rest stay.
LEMMA OneMoves ==
  ASSUME Types, NEW p \in Publishers, NEW a \in {"idle", "poll", "wait", "write"}, NEW x \in Packets,
         NEW t \in Seq(0 .. reconnects), UNCHANGED <<online, reconnects>>,
         pc' = [pc EXCEPT ![p] = a], cur' = [cur EXCEPT ![p] = x], todo' = [todo EXCEPT ![p] = t],
         a = "idle" \/ t # <<>>, a = "poll" => x.msg \in Msgs, a \in {"wait", "write"} => x \in Publications
  PROVE  /\ pc' \in [Publishers -> {"idle", "poll", "wait", "write"}]
         /\ todo' \in [Publishers -> Seq(0 .. reconnects')]
         /\ PublisherTypes'
         /\ pc'[p] = a /\ cur'[p] = x /\ todo'[p] = t
         /\ \A k \in Publishers \ {p} :
              /\ SamePublisher(k)
              /\ (Before(k)' <=> Before(k)) /\ (After(k)' <=> After(k)) /\ (Numbered(k)' <=> Numbered(k))
<1>1. /\ pc \in [Publishers -> {"idle", "poll", "wait", "write"}]
      /\ todo \in [Publishers -> Seq(0 .. reconnects)] /\ cur \in [Publishers -> Packets]
      /\ \A k \in Publishers :
           /\ pc[k] = "idle" \/ todo[k] # <<>>
           /\ pc[k] = "poll" => cur[k].msg \in Msgs
           /\ pc[k] \in {"wait", "write"} => cur[k] \in Publications
  BY DEF Types, TypeOK, PublisherTypes
<1>2. /\ pc' \in [Publishers -> {"idle", "poll", "wait", "write"}]
      /\ todo' \in [Publishers -> Seq(0 .. reconnects)] /\ cur' \in [Publishers -> Packets]
      /\ pc'[p] = a /\ cur'[p] = x /\ todo'[p] = t
      /\ \A k \in Publishers \ {p} : SamePublisher(k)
  BY <1>1 DEF SamePublisher
<1>3. PublisherTypes'
  <2>1. ASSUME NEW k \in Publishers
        PROVE  /\ pc'[k] = "idle" \/ todo'[k] # <<>>
               /\ pc'[k] = "poll" => cur'[k].msg \in Msgs
               /\ pc'[k] \in {"wait", "write"} => cur'[k] \in Publications
    <3>1. CASE k = p
      BY <1>2, <3>1
    <3>2. CASE k # p
      BY <1>1, <1>2, <3>2 DEF SamePublisher
    <3> QED  BY <3>1, <3>2
  <2> QED  BY <1>2, <2>1 DEF PublisherTypes
<1>4. \A k \in Publishers \ {p} :
        (Before(k)' <=> Before(k)) /\ (After(k)' <=> After(k)) /\ (Numbered(k)' <=> Numbered(k))
  BY <1>2, SameNumbered
<1> QED  BY <1>2, <1>3, <1>4

\* The end of onPub.
LEMMA Ended ==
  ASSUME Types, NEW p \in Publishers, pc[p] \in {"wait", "write"}, Returns(p) \/ Panics(p),
         UNCHANGED <<online, reconnects>>
  PROVE  /\ pc' \in [Publishers -> {"idle", "poll", "wait", "write"}]
         /\ todo' \in [Publishers -> Seq(0 .. reconnects')]
         /\ PublisherTypes' /\ ~ Numbered(p)'
         /\ \A k \in Publishers \ {p} :
              /\ SamePublisher(k)
              /\ (Before(k)' <=> Before(k)) /\ (After(k)' <=> After(k)) /\ (Numbered(k)' <=> Numbered(k))
<1>1. todo[p] \in Seq(0 .. reconnects) /\ todo[p] # <<>> /\ cur[p] \in Publications
  BY DEF Types, TypeOK, PublisherTypes
<1>2. Tail(todo[p]) \in Seq(0 .. reconnects) /\ NoPacket \in Packets
      /\ Packet("PUBLISH", 0, cur[p].msg, 0) \in Packets /\ Packet("PUBLISH", 0, cur[p].msg, 0).msg \in Msgs
  <2>1. cur[p].msg \in Msgs
    BY <1>1 DEF Publications
  <2>2. Tail(todo[p]) \in Seq(0 .. reconnects)
    BY <1>1, ElTail
  <2> QED  BY <2>1, <2>2 DEF Packets, Packet, NoPacket
<1>3. CASE Returns(p)
  <2>1. CASE Tail(todo[p]) = <<>>
    <3>1. /\ pc' = [pc EXCEPT ![p] = "idle"] /\ cur' = [cur EXCEPT ![p] = NoPacket]
          /\ todo' = [todo EXCEPT ![p] = Tail(todo[p])]
      BY <1>3, <2>1 DEF Returns, Goto
    <3> QED  BY <1>2, <3>1, OneMoves DEF Numbered, Before, After
  <2>2. CASE Tail(todo[p]) # <<>>
    <3>1. /\ pc' = [pc EXCEPT ![p] = "poll"]
          /\ cur' = [cur EXCEPT ![p] = Packet("PUBLISH", 0, cur[p].msg, 0)]
          /\ todo' = [todo EXCEPT ![p] = Tail(todo[p])]
      BY <1>3, <2>2 DEF Returns, Goto
    <3> QED  BY <1>2, <2>2, <3>1, OneMoves DEF Numbered, Before, After
  <2> QED  BY <2>1, <2>2
<1>4. CASE Panics(p)
  <2>1. /\ pc' = [pc EXCEPT ![p] = "idle"] /\ cur' = [cur EXCEPT ![p] = NoPacket]
        /\ todo' = [todo EXCEPT ![p] = <<>>]
    BY <1>4 DEF Panics, Goto
  <2>2. <<>> \in Seq(0 .. reconnects)
    OBVIOUS
  <2> QED  BY <1>2, <2>1, <2>2, OneMoves DEF Numbered, Before, After
<1> QED  BY <1>3, <1>4

\* A step that only confuses identifiers, takes packets off the wires or ends
\* calls of onPub keeps everything else.
LEMMA Weakens ==
  ASSUME IInv, Types', AllTaken', Offline', OneOnWire',
         Confused \subseteq Confused',
         \A k \in Publishers : /\ Before(k)' => Before(k) /\ cur'[k] = cur[k]
                               /\ After(k)' => After(k) /\ cur'[k] = cur[k],
         proc' = "retained" => (proc = "retained" /\ rm' = rm) \/ rm'.pid \in Confused',
         El(toClient)' \subseteq El(toClient), El(toBroker)' \subseteq El(toBroker),
         Queued \subseteq Queued', \A e \in Queued' : e \in Queued \/ e.pid \in Confused',
         \A e \in El(pub1ack)' : e \in El(pub1ack) \/ e.pid \in Confused',
         \A e \in El(pub2out)' : e \in El(pub2out) \/ e.pid \in Confused',
         holds' \subseteq holds, \A h \in holds : h.pid \notin Confused' => h \in holds',
         UNCHANGED <<confirmed, complete>>
  PROVE  IInv'
<1>1. \A k \in Publishers : Numbered(k)' => Numbered(k) /\ cur'[k] = cur[k]
  BY DEF Numbered
<1>2. \A z : Entered(z) /\ z.pid \notin Confused' => Entered(z)'
  BY DEF Entered
<1>3. \A e : Held(e) /\ e.pid \notin Confused' => Held(e)'
  BY DEF Held
<1>4. \A e : Settled(e)' <=> Settled(e)
  BY DEF Settled
<1>5. Alone'
  <2>1. \A k, l \in Publishers :
          Numbered(k)' /\ Numbered(l)' /\ cur'[k].pid = cur'[l].pid /\ cur'[k].pid \notin Confused' => k = l
    BY <1>1 DEF IInv, Alone, Clear
  <2>2. \A k \in Publishers : Numbered(k)' /\ proc' = "retained" /\ cur'[k].pid = rm'.pid => rm'.pid \in Confused'
    BY <1>1 DEF IInv, Alone, Clear
  <2>3. \A k \in Publishers, x \in El(toClient)' \cup El(toBroker)' :
          Numbered(k)' /\ x.pid = cur'[k].pid => x.pid \in Confused'
    BY <1>1 DEF IInv, Alone, Clear
  <2>4. \A x \in El(toClient)' \cup El(toBroker)' : proc' = "retained" /\ x.pid = rm'.pid => x.pid \in Confused'
    BY DEF IInv, Alone, Clear
  <2> QED  BY <2>1, <2>2, <2>3, <2>4 DEF Alone, Clear
<1>6. Unanswered'
  BY DEF IInv, Unanswered, Clear
<1>7. Waiting'
  BY DEF IInv, Waiting, Clear
<1>8. SentEntered'
  <2>1. \A k \in Publishers : After(k)' /\ cur'[k].pid \notin Confused' => \A z : z = cur'[k] => Entered(z)'
    BY <1>2 DEF IInv, SentEntered, Clear
  <2>2. proc' = "retained" /\ rm'.pid \notin Confused' => \A z : z = rm' => Entered(z)'
    BY <1>2 DEF IInv, SentEntered, Clear
  <2>3. \A x \in El(toClient)' : x.type = "PUBLISH" /\ x.pid \notin Confused' => Entered(x)'
    BY <1>2 DEF IInv, SentEntered, Clear
  <2> QED  BY <2>1, <2>2, <2>3 DEF SentEntered, Entered, Clear
<1>9. PubacksRight' /\ PubcompsRight'
  BY <1>4 DEF IInv, PubacksRight, PubcompsRight, Clear
<1>10. PubrecsRight'
  BY <1>3, <1>4 DEF IInv, PubrecsRight, Clear
<1>11. FinalConfirmed'
  BY <1>4 DEF IInv, FinalConfirmed, Clear
<1>12. CompletesRight'
  BY DEF IInv, CompletesRight, Clear
<1> QED  BY <1>5, <1>6, <1>7, <1>8, <1>9, <1>10, <1>11, <1>12 DEF IInv

\* The wires and the queues stay as they are.
Quiet == UNCHANGED <<queues, proc, rm, wire, holds, confirmed, complete, connection, cut>>

LEMMA QuietTypes ==
  ASSUME Types, Quiet, left' \subseteq left, used' \in [Services -> 0 .. Limit],
         pc' \in [Publishers -> {"idle", "poll", "wait", "write"}],
         todo' \in [Publishers -> Seq(0 .. reconnects')], PublisherTypes'
  PROVE  Types'
<1>1. UNCHANGED <<pub1ack, pub2out, proc, rm, toClient, toBroker, holds, confirmed, complete, online, reconnects, cut>>
  BY DEF Quiet, queues, wire, connection
<1>2. TypeOK'
  BY <1>1 DEF Types, TypeOK
<1>3. El(toClient)' = El(toClient) /\ El(toBroker)' = El(toBroker)
  BY <1>1 DEF El
<1> QED  BY <1>1, <1>2, <1>3 DEF Types

LEMMA QuietKeeps ==
  ASSUME IInv, Types', Quiet, left' \subseteq left,
         used'[reconnects] = used[reconnects] \/ used'[reconnects] = used[reconnects] + 1,
         \A k \in Publishers : /\ Before(k)' => Before(k) /\ cur'[k] = cur[k]
                               /\ After(k)' => After(k) /\ cur'[k] = cur[k]
  PROVE  IInv'
<1>1. /\ UNCHANGED <<pub1ack, pub2out, proc, rm, toClient, toBroker, holds, confirmed, complete, online, reconnects, cut>>
      /\ Queued' = Queued /\ El(toClient)' = El(toClient) /\ El(toBroker)' = El(toBroker)
      /\ El(pub1ack)' = El(pub1ack) /\ El(pub2out)' = El(pub2out)
  BY DEF Quiet, queues, wire, connection, Queued, El
<1>2. Confused' = Confused
  BY <1>1, SameConfused
<1>3. \A i : Clear(i)' <=> Clear(i)
  BY <1>2 DEF Clear
<1>4. \A i : Taken(i) => Taken(i)'
  <2>1. used[reconnects] \in Nat
    BY Basics DEF IInv
  <2>2. \A i : i \in 1 .. used[reconnects] => i \in 1 .. used'[reconnects]
    BY <2>1
  <2> QED  BY <1>1, <2>2 DEF Taken
<1>5. AllTaken'
  <2>1. \A k \in Publishers : \A i : Numbered(k)' /\ i = cur'[k].pid /\ Clear(i) => Taken(i)'
    BY <1>4 DEF IInv, AllTaken, Numbered
  <2>2. \A k \in Publishers : Numbered(k)' /\ Clear(cur[k].pid)' => Taken(cur[k].pid)'
    BY <1>2, <2>1 DEF Clear, Taken
  <2>3. proc' = "retained" /\ Clear(rm.pid)' => Taken(rm.pid)'
    BY <1>1, <1>2, <1>4 DEF IInv, AllTaken, Clear, Taken
  <2>4. \A z \in (El(toClient) \cup El(toBroker) \cup Queued \cup holds)' : Clear(z.pid)' => Taken(z.pid)'
    BY <1>1, <1>3, <1>4 DEF IInv, AllTaken
  <2> QED  BY <2>2, <2>3, <2>4 DEF AllTaken
<1>6. Offline'
  BY <1>1, <1>3 DEF IInv, Offline
<1>7. OneOnWire'
  BY <1>1, <1>3 DEF IInv, OneOnWire
<1>8. Queued \subseteq Queued' /\ \A e \in Queued' : e \in Queued
  BY <1>1
<1> QED  BY <1>1, <1>2, <1>5, <1>6, <1>7, <1>8, Weakens

LEMMA OnPublishKeeps ==
  ASSUME IInv, NEW p \in Publishers, NEW m \in Msgs, NEW subs \in Subscriptions, OnPublish(p, m, subs)
  PROVE  IInv'
<1> DEFINE x == Packet("PUBLISH", 0, m, 0)
<1>1. /\ Quiet /\ used' = used /\ left' = left \ {m} /\ UNCHANGED <<online, reconnects>>
      /\ pc' = [pc EXCEPT ![p] = "poll"] /\ cur' = [cur EXCEPT ![p] = x]
      /\ todo' = [todo EXCEPT ![p] = subs]
  BY DEF OnPublish, Quiet, Goto, connection
<1>2. x \in Packets /\ x.msg \in Msgs
  BY DEF Packets, Packet
<1>3. subs \in Seq(0 .. reconnects) /\ subs # <<>>
  <2>1. PICK n \in 1 .. MaxCalls : subs \in [1 .. n -> 0 .. reconnects]
    BY DEF Subscriptions
  <2>2. n \in Nat /\ n # 0
    BY <2>1, OutflowAssumption
  <2>3. subs \in Seq(0 .. reconnects) /\ Len(subs) = n
    <3>1. subs \in Seq(0 .. reconnects)
      BY <2>1, <2>2, SeqDef
    <3>2. DOMAIN subs = 1 .. n
      BY <2>1
    <3> QED  BY <2>2, <3>1, <3>2, LenProperties
  <2> QED  BY <2>2, <2>3, EmptySeq
<1> HIDE DEF x
<1>4. /\ pc' \in [Publishers -> {"idle", "poll", "wait", "write"}]
      /\ todo' \in [Publishers -> Seq(0 .. reconnects')]
      /\ PublisherTypes' /\ pc'[p] = "poll"
      /\ \A k \in Publishers \ {p} : SamePublisher(k) /\ (Before(k)' <=> Before(k)) /\ (After(k)' <=> After(k))
  BY <1>1, <1>2, <1>3, OneMoves DEF IInv
<1>5. Types'
  BY <1>1, <1>4, QuietTypes DEF IInv, Types, TypeOK
<1>6. \A k \in Publishers : /\ Before(k)' => Before(k) /\ cur'[k] = cur[k]
                            /\ After(k)' => After(k) /\ cur'[k] = cur[k]
  <2>1. ~ Before(p)' /\ ~ After(p)'
    BY <1>4 DEF Before, After
  <2> QED  BY <1>4, <2>1 DEF SamePublisher
<1> QED  BY <1>1, <1>5, <1>6, QuietKeeps

LEMMA RefusedKeeps == ASSUME IInv, NEW m \in Msgs, Refused(m) PROVE IInv'
<1>1. /\ Quiet /\ used' = used /\ left' = left \ {m}
      /\ UNCHANGED <<pc, cur, todo, online, reconnects>>
  BY DEF Refused, Quiet, publishers, connection
<1>2. /\ PublisherTypes'
      /\ \A k \in Publishers : (Before(k)' <=> Before(k)) /\ (After(k)' <=> After(k))
  BY <1>1, SamePublishers DEF IInv
<1>3. Types'
  BY <1>1, <1>2, QuietTypes DEF IInv, Types, TypeOK
<1> QED  BY <1>1, <1>2, <1>3, QuietKeeps

LEMMA UnencodableKeeps == ASSUME IInv, NEW p \in Publishers, Unencodable(p) PROVE IInv'
<1>1. /\ Quiet /\ used' = used /\ left' = left /\ UNCHANGED <<online, reconnects>>
      /\ pc[p] \in {"wait", "write"} /\ (Returns(p) \/ Panics(p))
  BY DEF Unencodable, Quiet, client, connection
<1>2. /\ pc' \in [Publishers -> {"idle", "poll", "wait", "write"}]
      /\ todo' \in [Publishers -> Seq(0 .. reconnects')]
      /\ PublisherTypes' /\ ~ Numbered(p)'
      /\ \A k \in Publishers \ {p} : SamePublisher(k) /\ (Before(k)' <=> Before(k)) /\ (After(k)' <=> After(k))
  BY <1>1, Ended DEF IInv
<1>3. Types'
  BY <1>1, <1>2, QuietTypes DEF IInv, Types, TypeOK
<1>4. \A k \in Publishers : /\ Before(k)' => Before(k) /\ cur'[k] = cur[k]
                            /\ After(k)' => After(k) /\ cur'[k] = cur[k]
  BY <1>2 DEF SamePublisher, Numbered
<1> QED  BY <1>1, <1>3, <1>4, QuietKeeps

\* The limiter hands out an identifier that nobody has, unless a retained
\* message shares it or a disconnect has cut off its exchange.
LEMMA LivePollKeeps ==
  ASSUME IInv, NEW p \in Publishers, NEW q \in Qoses, PollPacketID(p, q), Live(p)
  PROVE  IInv'
<1> DEFINE n == used[reconnects] + 1
           x == Packet("PUBLISH", n, cur[p].msg, q)
<1>1. /\ UNCHANGED <<pub1ack, pub2out, todo, proc, rm, toClient, toBroker, left, holds, confirmed, complete, online,
                     reconnects, cut>>
      /\ pc[p] = "poll" /\ used[reconnects] < Limit /\ used' = [used EXCEPT ![reconnects] = n]
      /\ pc' = [pc EXCEPT ![p] = "wait"] /\ cur' = [cur EXCEPT ![p] = x]
      /\ online /\ Service(p) = reconnects
  BY DEF PollPacketID, Goto, client, queues, wire, connection, Live
<1>2. /\ used[reconnects] \in Nat /\ Limit \in Nat /\ n \in 1 .. Limit /\ n \in Pids
      /\ used' \in [Services -> 0 .. Limit] /\ used'[reconnects] = n
  <2>1. used \in [Services -> 0 .. Limit] /\ reconnects \in Services /\ Limit \in Nat
    BY OutflowAssumption DEF IInv, Types, TypeOK, Services
  <2>2. n \in 1 .. Limit /\ used[reconnects] \in Nat
    BY <1>1, <2>1
  <2> QED  BY <1>1, <2>1, <2>2, OutflowAssumption
<1>3. x \in Publications /\ x.pid = n /\ x \in Packets
  <2>1. cur[p].msg \in Msgs
    BY <1>1 DEF IInv, Types, PublisherTypes
  <2> QED  BY <1>2, <2>1, OutflowAssumption DEF Publications, Packets, Packet
<1> HIDE DEF x
<1>4. /\ pc' \in [Publishers -> {"idle", "poll", "wait", "write"}]
      /\ todo' \in [Publishers -> Seq(0 .. reconnects')]
      /\ PublisherTypes' /\ pc'[p] = "wait" /\ cur'[p] = x
      /\ \A k \in Publishers \ {p} :
           /\ SamePublisher(k)
           /\ (Before(k)' <=> Before(k)) /\ (After(k)' <=> After(k)) /\ (Numbered(k)' <=> Numbered(k))
  <2>1. todo[p] \in Seq(0 .. reconnects) /\ todo[p] # <<>> /\ todo' = [todo EXCEPT ![p] = todo[p]]
    BY <1>1 DEF IInv, Types, TypeOK, PublisherTypes
  <2> HIDE DEF n
  <2>2. Types
    BY DEF IInv
  <2> QED  BY <1>1, <1>3, <2>1, <2>2, OneMoves
<1>5. Quiet
  BY <1>1 DEF Quiet, queues, wire, connection
<1>6. Types'
  BY <1>1, <1>2, <1>4, <1>5, QuietTypes DEF IInv
<1>7. \A k \in Publishers :
        /\ Numbered(k)' => k = p \/ (Numbered(k) /\ k # p)
        /\ cur'[k] = IF k = p THEN x ELSE cur[k]
        /\ k # p => (Before(k)' <=> Before(k)) /\ (After(k)' <=> After(k))
        /\ k = p => ~ After(k)'
  BY <1>4 DEF SamePublisher, After
<1>8. Clear(n) => ~ Taken(n)
  BY <1>2 DEF Clear, Confused, Shared, Taken
<1>9. Confused' = Confused /\ Queued' = Queued
  BY <1>1, SameConfused DEF Queued
<1>10. /\ UNCHANGED <<pub1ack, pub2out, proc, rm, toClient, toBroker, holds, confirmed, complete>>
       /\ El(toClient)' = El(toClient) /\ El(toBroker)' = El(toBroker)
       /\ El(pub1ack)' = El(pub1ack) /\ El(pub2out)' = El(pub2out)
  BY <1>1 DEF El
<1>11. \A i : Taken(i) => Taken(i)'
  BY <1>1, <1>2 DEF Taken
<1>12. \A i : i = n => Taken(i)'
  BY <1>1, <1>2 DEF Taken
<1> HIDE DEF x, n
<1>13. AllTaken'
  <2>1. ASSUME NEW k \in Publishers, Numbered(k)', NEW i, i = cur'[k].pid, Clear(i)
        PROVE  Taken(i)'
    <3>1. CASE k = p
      BY <1>3, <1>7, <1>12, <2>1, <3>1
    <3>2. CASE k # p
      BY <1>7, <1>11, <2>1, <3>2 DEF IInv, AllTaken
    <3> QED  BY <3>1, <3>2
  <2>2. \A i : Clear(i)' <=> Clear(i)
    BY <1>9 DEF Clear
  <2>3. \A k \in Publishers : Numbered(k)' /\ Clear(cur[k].pid)' => Taken(cur[k].pid)'
    BY <2>1, <2>2 DEF Clear, Taken
  <2>4. proc' = "retained" /\ Clear(rm.pid)' => Taken(rm.pid)'
    BY <1>9, <1>10, <1>11 DEF IInv, AllTaken, Clear, Taken
  <2>5. \A z \in El(toClient)' \cup El(toBroker)' \cup Queued' \cup holds' : Clear(z.pid)' => Taken(z.pid)'
    BY <1>9, <1>10, <1>11, <2>2 DEF IInv, AllTaken
  <2> QED  BY <2>3, <2>4, <2>5 DEF AllTaken
<1>14. Alone'
  <2>1. \A k \in Publishers : k # p /\ Numbered(k) /\ cur[k].pid = n => ~ Clear(n)
    BY <1>8 DEF IInv, AllTaken
  <2>2. \A z \in El(toClient) \cup El(toBroker) : z.pid = n => ~ Clear(n)
    BY <1>8 DEF IInv, AllTaken
  <2>3. proc = "retained" /\ rm.pid = n => ~ Clear(n)
    BY <1>8 DEF IInv, AllTaken
  <2> QED  BY <1>3, <1>7, <1>9, <1>10, <2>1, <2>2, <2>3 DEF IInv, Alone, Clear
<1>15. OneOnWire' /\ Unanswered'
  BY <1>9, <1>10 DEF IInv, OneOnWire, Unanswered, Clear
<1>16. Waiting'
  <2>1. \A z \in Queued \cup holds : z.pid = n => ~ Clear(n)
    BY <1>8 DEF IInv, AllTaken
  <2> QED  BY <1>3, <1>7, <1>9, <1>10, <2>1 DEF IInv, Waiting, Clear
<1>17. SentEntered'
  BY <1>7, <1>9, <1>10 DEF IInv, SentEntered, Clear, Entered
<1>18. PubacksRight' /\ PubrecsRight' /\ PubcompsRight' /\ FinalConfirmed' /\ CompletesRight'
  BY <1>9, <1>10 DEF IInv, PubacksRight, PubrecsRight, PubcompsRight, FinalConfirmed, CompletesRight, Clear, Held, Settled
<1>19. Offline'
  BY <1>1 DEF Offline
<1> QED  BY <1>19, <1>6, <1>13, <1>14, <1>15, <1>16, <1>17, <1>18 DEF IInv

\* A stopped service has a limiter of its own.
LEMMA PollKeeps ==
  ASSUME IInv, NEW p \in Publishers, NEW q \in Qoses, PollPacketID(p, q)
  PROVE  IInv'
<1>1. CASE Live(p)
  BY <1>1, LivePollKeeps
<1>2. CASE ~ Live(p)
  <2> DEFINE s == Service(p)
             n == used[s] + 1
             x == Packet("PUBLISH", n, cur[p].msg, q)
  <2>1. /\ Quiet /\ left' = left /\ UNCHANGED <<todo, online, reconnects>>
        /\ pc[p] = "poll" /\ used[s] < Limit /\ used' = [used EXCEPT ![s] = n]
        /\ pc' = [pc EXCEPT ![p] = "wait"] /\ cur' = [cur EXCEPT ![p] = x]
    BY DEF PollPacketID, Goto, client, Quiet, connection
  <2>2. todo[p] \in Seq(0 .. reconnects) /\ todo[p] # <<>> /\ todo' = [todo EXCEPT ![p] = todo[p]]
    BY <2>1 DEF IInv, Types, TypeOK, PublisherTypes
  <2>3. s \in Services
    <3>1. Head(todo[p]) \in 0 .. reconnects
      <4>1. todo[p] # <<>> /\ todo[p] \in Seq(0 .. reconnects)
        BY <2>2
      <4>2. Head(todo[p]) \in El(todo[p])
        BY <4>1, ElTail
      <4>3. \A z \in El(todo[p]) : z \in 0 .. reconnects
        BY <4>1, ElTyped
      <4> QED  BY <4>2, <4>3
    <3> QED  BY <3>1, OutflowAssumption DEF Service, Services, IInv, Types, TypeOK
  <2>4. n \in 1 .. Limit /\ n \in Pids /\ used' \in [Services -> 0 .. Limit]
    <3>1. used \in [Services -> 0 .. Limit] /\ Limit \in Nat
      BY OutflowAssumption DEF IInv, Types, TypeOK
    <3>2. n \in 1 .. Limit
      <4>1. used[s] \in 0 .. Limit
        BY <2>3, <3>1
      <4>2. \A a \in 0 .. Limit : a < Limit => a + 1 \in 1 .. Limit
        BY <3>1
      <4> QED  BY <2>1, <4>1, <4>2
    <3>3. n \in Pids
      BY <3>2, OutflowAssumption
    <3>4. \A a \in 1 .. Limit : a \in 0 .. Limit
      BY <3>1
    <3> HIDE DEF n, s
    <3>5. used' \in [Services -> 0 .. Limit]
      BY <2>1, <2>3, <3>1, <3>2, <3>4
    <3> QED  BY <3>2, <3>3, <3>5
  <2>5. x \in Publications /\ x \in Packets
    <3>1. cur[p].msg \in Msgs
      BY <2>1 DEF IInv, Types, PublisherTypes
    <3> QED  BY <2>4, <3>1, OutflowAssumption DEF Publications, Packets, Packet
  <2> HIDE DEF x
  <2>6. /\ pc' \in [Publishers -> {"idle", "poll", "wait", "write"}]
        /\ todo' \in [Publishers -> Seq(0 .. reconnects')]
        /\ PublisherTypes' /\ todo'[p] = todo[p]
        /\ \A k \in Publishers \ {p} : SamePublisher(k) /\ (Before(k)' <=> Before(k)) /\ (After(k)' <=> After(k))
    BY <2>1, <2>2, <2>5, OneMoves DEF IInv
  <2>7. Types'
    BY <2>1, <2>4, <2>6, QuietTypes DEF IInv
  <2>8. ~ Before(p)' /\ ~ After(p)'
    BY <1>2, <2>1, <2>6 DEF Before, After, Live, Service
  <2>9. \A k \in Publishers : /\ Before(k)' => Before(k) /\ cur'[k] = cur[k]
                              /\ After(k)' => After(k) /\ cur'[k] = cur[k]
    BY <2>6, <2>8 DEF SamePublisher
  <2>10. left' \subseteq left
    BY <2>1
  <2>11. CASE s # reconnects
    <3>1. used'[reconnects] = used[reconnects]
      BY <2>1, <2>11 DEF IInv, Types, TypeOK
    <3> QED  BY <2>1, <2>7, <2>9, <2>10, <3>1, QuietKeeps
  <2>12. CASE s = reconnects
    <3>1. used'[reconnects] = n /\ used[reconnects] \in Nat
      BY <2>1, <2>3, <2>4, <2>12, Basics DEF IInv
    <3> QED  BY <2>1, <2>7, <2>9, <2>10, <2>12, <3>1, QuietKeeps
  <2> QED  BY <2>11, <2>12
<1> QED  BY <1>1, <1>2

-----------------------------------------------------------------------------
(* Wait and writeMessage *)

LEMMA EnterFacts ==
  ASSUME Types, NEW x \in Publications, NEW live, Enter(x, live)
  PROVE  /\ pub1ack' \in Seq(Entries) /\ pub2out' \in Seq(Entries)
         /\ El(pub1ack)' \subseteq El(pub1ack) \cup {EntryOf(x)}
         /\ El(pub2out)' \subseteq El(pub2out) \cup {EntryOf(x)}
         /\ Queued \subseteq Queued' /\ Queued' \subseteq Queued \cup {EntryOf(x)}
         /\ (\A e \in Queued : e.pid # x.pid) => EntryOf(x) \in Queued'
         /\ EntryOf(x).pid = x.pid /\ EntryOf(x).msg = x.msg /\ EntryOf(x).state = "RESERVED"
<1>1. EntryOf(x) \in Entries /\ EntryOf(x).pid = x.pid /\ EntryOf(x).msg = x.msg /\ EntryOf(x).state = "RESERVED"
  BY Fields DEF EntryOf
<1>2. Queued = El(pub1ack) \cup El(pub2out) /\ pub1ack \in Seq(Entries) /\ pub2out \in Seq(Entries)
  BY Basics
<1>3. Queued' = El(pub1ack') \cup El(pub2out')
  BY DEF Queued, El
<1>4. \A q \in Seq(Entries) :
        /\ Inserted(q, EntryOf(x)) \in Seq(Entries)
        /\ El(q) \subseteq El(Inserted(q, EntryOf(x)))
        /\ El(Inserted(q, EntryOf(x))) \subseteq El(q) \cup {EntryOf(x)}
        /\ (\A e \in El(q) : e.pid # x.pid) => EntryOf(x) \in El(Inserted(q, EntryOf(x)))
  BY <1>1, InsertedFacts
<1>5. /\ pub1ack' \in Seq(Entries) /\ pub2out' \in Seq(Entries)
      /\ El(pub1ack) \subseteq El(pub1ack') /\ El(pub1ack') \subseteq El(pub1ack) \cup {EntryOf(x)}
      /\ El(pub2out) \subseteq El(pub2out') /\ El(pub2out') \subseteq El(pub2out) \cup {EntryOf(x)}
      /\ (\A e \in Queued : e.pid # x.pid) => EntryOf(x) \in El(pub1ack') \cup El(pub2out')
  <2>1. CASE x.qos = 1
    BY <1>2, <1>4, <2>1 DEF Enter
  <2>2. CASE x.qos # 1
    BY <1>2, <1>4, <2>2 DEF Enter
  <2> QED  BY <2>1, <2>2
<1>6. El(pub1ack)' = El(pub1ack') /\ El(pub2out)' = El(pub2out')
  BY DEF El
<1> QED  BY <1>1, <1>2, <1>3, <1>5, <1>6

LEMMA EnterRight ==
  ASSUME IInv, NEW x \in Publications, NEW live, Enter(x, live),
         UNCHANGED <<toClient, toBroker, holds, confirmed, complete, cut>>,
         Clear(x.pid) => \A z \in El(toClient) \cup El(toBroker) : z.pid # x.pid
  PROVE  /\ OneOnWire' /\ Unanswered' /\ PubacksRight' /\ PubrecsRight' /\ PubcompsRight'
         /\ FinalConfirmed' /\ CompletesRight'
<1> DEFINE n == EntryOf(x)
<1>1. /\ El(pub1ack)' \subseteq El(pub1ack) \cup {n}
      /\ El(pub2out)' \subseteq El(pub2out) \cup {n}
      /\ Queued' \subseteq Queued \cup {n}
      /\ n.pid = x.pid /\ n.state = "RESERVED"
  BY EnterFacts DEF IInv
<1> HIDE DEF n
<1>2. Confused' = Confused
  BY SameConfused
<1>3. OneOnWire' /\ Unanswered' /\ CompletesRight'
  BY <1>2 DEF IInv, OneOnWire, Unanswered, CompletesRight, Clear
<1>4. El(toClient)' = El(toClient) /\ El(toBroker)' = El(toBroker)
  BY DEF El
<1>5. PubacksRight'
  BY <1>1, <1>2, <1>4 DEF IInv, PubacksRight, Clear, Settled
<1>6. PubrecsRight'
  BY <1>1, <1>2, <1>4 DEF IInv, PubrecsRight, Clear, Held, Settled
<1>7. PubcompsRight'
  BY <1>1, <1>2, <1>4 DEF IInv, PubcompsRight, Clear, Settled
<1>8. FinalConfirmed'
  <2>1. ~ IsFinal(n)
    BY <1>1 DEF IsFinal, FinalStates
  <2> QED  BY <1>1, <1>2, <2>1 DEF IInv, FinalConfirmed, Clear, Settled
<1> QED  BY <1>3, <1>5, <1>6, <1>7, <1>8

LEMMA EnterEntered ==
  ASSUME IInv, NEW x \in Publications, NEW live, Enter(x, live), UNCHANGED holds
  PROVE  /\ (\A e \in Queued \cup holds : e.pid # x.pid) => \A z : z = x => Entered(z)'
         /\ \A z : z.pid # x.pid /\ Entered(z) => Entered(z)'
<1> DEFINE n == EntryOf(x)
<1>1. /\ Queued \subseteq Queued' /\ Queued' \subseteq Queued \cup {n}
      /\ (\A e \in Queued : e.pid # x.pid) => n \in Queued'
      /\ n.pid = x.pid /\ n.msg = x.msg /\ n.state = "RESERVED"
  BY EnterFacts DEF IInv
<1> HIDE DEF n
<1>2. (\A e \in Queued \cup holds : e.pid # x.pid) => \A z : z = x => Entered(z)'
  BY <1>1 DEF Entered
<1>3. \A z : z.pid # x.pid /\ Entered(z) => Entered(z)'
  BY <1>1 DEF Entered
<1> QED  BY <1>2, <1>3

LEMMA LiveWaitKeeps == ASSUME IInv, NEW p \in Publishers, WaitAck(p), Live(p) PROVE IInv'
<1> DEFINE x == cur[p]
<1>1. /\ Before(p) /\ pc' = [pc EXCEPT ![p] = "write"] /\ online
      /\ UNCHANGED <<used, cur, todo, proc, rm, toClient, toBroker, left, holds, confirmed, complete, online,
                     reconnects, cut>>
      /\ Enter(x, TRUE) /\ pc[p] = "wait"
  BY DEF WaitAck, Goto, wire, client, connection, Before, Live, Enter
<1>2. x \in Publications
  BY <1>1 DEF IInv, Types, PublisherTypes
<1>3. /\ pub1ack' \in Seq(Entries) /\ pub2out' \in Seq(Entries)
      /\ Queued' \subseteq Queued \cup {EntryOf(x)}
      /\ EntryOf(x).pid = x.pid
  BY <1>1, <1>2, EnterFacts DEF IInv
<1>4. /\ pc' \in [Publishers -> {"idle", "poll", "wait", "write"}]
      /\ todo' \in [Publishers -> Seq(0 .. reconnects')]
      /\ PublisherTypes' /\ pc'[p] = "write" /\ todo'[p] = todo[p]
      /\ \A k \in Publishers \ {p} :
           /\ SamePublisher(k)
           /\ (Before(k)' <=> Before(k)) /\ (After(k)' <=> After(k)) /\ (Numbered(k)' <=> Numbered(k))
  <2>1. /\ todo[p] \in Seq(0 .. reconnects) /\ todo[p] # <<>> /\ todo' = [todo EXCEPT ![p] = todo[p]]
        /\ cur' = [cur EXCEPT ![p] = x] /\ x \in Packets
    BY <1>1 DEF IInv, Types, TypeOK, PublisherTypes
  <2> QED  BY <1>1, <1>2, <2>1, OneMoves DEF IInv
<1>5. /\ ~ Before(p)' /\ Numbered(p)
      /\ \A k \in Publishers : /\ Numbered(k)' => Numbered(k)
                               /\ Before(k)' => Before(k) /\ k # p
                               /\ After(k)' => k = p \/ After(k)
  BY <1>1, <1>4 DEF Before, Numbered
<1>6. Types'
  <2>1. TypeOK'
    BY <1>1, <1>3, <1>4 DEF IInv, Types, TypeOK
  <2>2. El(toClient)' = El(toClient) /\ El(toBroker)' = El(toBroker)
    BY <1>1 DEF El
  <2> QED  BY <1>1, <1>4, <2>1, <2>2 DEF IInv, Types
<1>7. /\ Confused' = Confused /\ El(toClient)' = El(toClient) /\ El(toBroker)' = El(toBroker)
      /\ \A i : Taken(i)' <=> Taken(i)
  BY <1>1, SameConfused DEF El, Taken
<1>8. /\ Clear(x.pid) => \A z \in El(toClient) \cup El(toBroker) : z.pid # x.pid
      /\ Clear(x.pid) => \A e \in Queued \cup holds : e.pid # x.pid
      /\ Clear(x.pid) => Taken(x.pid)
      /\ \A k \in Publishers : k # p /\ Numbered(k) /\ Clear(cur[k].pid) => cur[k].pid # x.pid
      /\ proc = "retained" /\ Clear(rm.pid) => rm.pid # x.pid
  BY <1>1, <1>5 DEF IInv, Alone, Waiting, AllTaken
<1>9. AllTaken'
  BY <1>1, <1>3, <1>5, <1>7, <1>8 DEF IInv, AllTaken, Clear
<1>10. Alone'
  BY <1>1, <1>5, <1>7 DEF IInv, Alone, Clear
<1>11. Waiting'
  BY <1>1, <1>3, <1>4, <1>7, <1>5, <1>8 DEF IInv, Waiting, Clear, Numbered
<1>12. SentEntered'
  <2>1. /\ Clear(x.pid) => \A z : z = x => Entered(z)'
        /\ \A z : z.pid # x.pid /\ Entered(z) => Entered(z)'
    BY <1>1, <1>2, <1>8, EnterEntered
  <2>2. \A k \in Publishers : After(k)' /\ Clear(cur[k].pid) => \A z : z = cur[k] => Entered(z)'
    <3>1. \A k \in Publishers : k # p /\ After(k) /\ Clear(cur[k].pid) => Entered(cur[k]) /\ cur[k].pid # x.pid
      BY <1>8 DEF IInv, SentEntered, Numbered
    <3> QED  BY <1>5, <2>1, <3>1
  <2>3. proc = "retained" /\ Clear(rm.pid) => \A z : z = rm => Entered(z)'
    BY <1>8, <2>1 DEF IInv, SentEntered
  <2>4. \A z \in El(toClient) : z.type = "PUBLISH" /\ Clear(z.pid) => Entered(z)'
    BY <1>8, <2>1 DEF IInv, SentEntered
  <2>5. \A k \in Publishers : After(k)' /\ Clear(cur[k].pid)' => Entered(cur[k])'
    BY <1>1, <1>7, <2>2 DEF Clear, Entered
  <2>6. proc' = "retained" /\ Clear(rm.pid)' => Entered(rm)'
    BY <1>1, <1>7, <2>3 DEF Clear, Entered
  <2>7. \A z \in El(toClient)' : z.type = "PUBLISH" /\ Clear(z.pid)' => Entered(z)'
    BY <1>1, <1>7, <2>4 DEF Clear
  <2> QED  BY <2>5, <2>6, <2>7 DEF SentEntered
<1>13. /\ OneOnWire' /\ Unanswered' /\ PubacksRight' /\ PubrecsRight' /\ PubcompsRight'
       /\ FinalConfirmed' /\ CompletesRight'
  BY <1>1, <1>2, <1>8, EnterRight
<1>14. Offline'
  BY <1>1 DEF Offline
<1> QED  BY <1>14, <1>6, <1>9, <1>10, <1>11, <1>12, <1>13 DEF IInv

\* What a stopped service queues is confused.
LEMMA Confuses ==
  ASSUME IInv, NEW x \in Publications, Enter(x, FALSE),
         UNCHANGED <<used, toClient, toBroker, holds, confirmed, complete, online, reconnects>>,
         Types', left' \subseteq left,
         \A k \in Publishers : /\ Before(k)' => Before(k) /\ cur'[k] = cur[k]
                               /\ After(k)' => After(k) /\ cur'[k] = cur[k],
         proc' = "retained" => (proc = "retained" /\ rm' = rm) \/ rm'.pid = x.pid
  PROVE  IInv'
<1>1. /\ El(pub1ack)' \subseteq El(pub1ack) \cup {EntryOf(x)}
      /\ El(pub2out)' \subseteq El(pub2out) \cup {EntryOf(x)}
      /\ Queued \subseteq Queued' /\ Queued' \subseteq Queued \cup {EntryOf(x)}
      /\ EntryOf(x).pid = x.pid
  BY EnterFacts DEF IInv
<1>2. Confused \subseteq Confused' /\ x.pid \in Confused'
  BY DEF Enter, Confused, Shared
<1> DEFINE e == EntryOf(x)
<1> HIDE DEF e
<1>3. /\ \A z \in El(pub1ack)' : z \in El(pub1ack) \/ z.pid \in Confused'
      /\ \A z \in El(pub2out)' : z \in El(pub2out) \/ z.pid \in Confused'
      /\ \A z \in Queued' : z \in Queued \/ z.pid \in Confused'
  BY <1>1, <1>2
<1>4. El(toClient)' = El(toClient) /\ El(toBroker)' = El(toBroker)
  BY DEF El
<1>5. \A i : Taken(i) => Taken(i)'
  BY SameTaken
<1>6. AllTaken'
  <2>1. \A k \in Publishers : \A i : Numbered(k)' /\ i = cur'[k].pid /\ Clear(i) => Taken(i)'
    BY <1>5 DEF IInv, AllTaken, Numbered
  <2>2. \A k \in Publishers : Numbered(k)' /\ Clear(cur[k].pid)' => Taken(cur[k].pid)'
    BY <1>2, <2>1 DEF Clear, Taken
  <2>3. \A i : proc = "retained" /\ i = rm.pid /\ Clear(i) => Taken(i)'
    BY <1>5 DEF IInv, AllTaken
  <2>4. proc' = "retained" /\ Clear(rm.pid)' => Taken(rm.pid)'
    BY <1>2, <2>3 DEF Clear, Taken
  <2>5. \A z \in El(toClient) \cup El(toBroker) \cup Queued \cup holds : Clear(z.pid) => Taken(z.pid)'
    BY <1>5 DEF IInv, AllTaken
  <2>6. \A z \in (El(toClient) \cup El(toBroker) \cup Queued \cup holds)' : Clear(z.pid)' => Taken(z.pid)'
    BY <1>2, <1>3, <1>4, <2>5 DEF Clear
  <2> QED  BY <2>2, <2>4, <2>6 DEF AllTaken
<1>7. Offline'
  BY <1>2, <1>3 DEF IInv, Offline, Clear
<1>8. OneOnWire'
  BY <1>2 DEF IInv, OneOnWire, Clear
<1>9. proc' = "retained" => (proc = "retained" /\ rm' = rm) \/ rm'.pid \in Confused'
  BY <1>2
<1> QED  BY <1>1, <1>2, <1>3, <1>4, <1>6, <1>7, <1>8, <1>9, Weakens

LEMMA WaitAckKeeps == ASSUME IInv, NEW p \in Publishers, WaitAck(p) PROVE IInv'
<1>1. CASE Live(p)
  BY <1>1, LiveWaitKeeps
<1>2. CASE ~ Live(p)
  <2> DEFINE x == cur[p]
  <2>1. /\ pc[p] = "wait" /\ pc' = [pc EXCEPT ![p] = "write"]
        /\ UNCHANGED <<used, cur, todo, proc, rm, toClient, toBroker, left, holds, confirmed, complete, online,
                       reconnects>>
        /\ Enter(x, FALSE)
    BY <1>2 DEF WaitAck, Goto, wire, client, connection, Enter
  <2>2. x \in Publications /\ x \in Packets
    BY <2>1, Fields DEF IInv, Types, PublisherTypes
  <2>3. /\ pc' \in [Publishers -> {"idle", "poll", "wait", "write"}]
        /\ todo' \in [Publishers -> Seq(0 .. reconnects')]
        /\ PublisherTypes' /\ pc'[p] = "write"
        /\ \A k \in Publishers \ {p} : SamePublisher(k) /\ (Before(k)' <=> Before(k)) /\ (After(k)' <=> After(k))
    <3>1. /\ todo[p] \in Seq(0 .. reconnects) /\ todo[p] # <<>> /\ todo' = [todo EXCEPT ![p] = todo[p]]
          /\ cur' = [cur EXCEPT ![p] = x]
      BY <2>1 DEF IInv, Types, TypeOK, PublisherTypes
    <3> QED  BY <2>1, <2>2, <3>1, OneMoves DEF IInv
  <2>4. pub1ack' \in Seq(Entries) /\ pub2out' \in Seq(Entries) /\ cut' \subseteq Pids
    <3>1. x.pid \in Pids
      BY <2>2 DEF Publications
    <3> QED  BY <2>1, <2>2, <3>1, EnterFacts DEF IInv, Types, TypeOK, Enter
  <2>5. Types'
    <3>1. TypeOK'
      BY <2>1, <2>3, <2>4 DEF IInv, Types, TypeOK
    <3>2. El(toClient)' = El(toClient) /\ El(toBroker)' = El(toBroker)
      BY <2>1 DEF El
    <3> QED  BY <2>1, <2>3, <3>1, <3>2 DEF IInv, Types
  <2>6. \A k \in Publishers : /\ Before(k)' => Before(k) /\ cur'[k] = cur[k]
                              /\ After(k)' => After(k) /\ cur'[k] = cur[k]
    <3>1. ~ Before(p)' /\ ~ After(p)'
      BY <1>2, <2>1 DEF Before, After, Live, Service
    <3> QED  BY <2>3, <3>1 DEF SamePublisher
  <2> HIDE DEF x
  <2> QED  BY <2>1, <2>2, <2>5, <2>6, Confuses
<1> QED  BY <1>1, <1>2

\* The identifier of a retained message is nobody else's, unless it is shared
\* or a disconnect has cut off its exchange.
LEMMA OnlineRetainedKeeps ==
  ASSUME IInv, NEW m \in DOMAIN RetainedPid, NEW q \in Qoses, PublishRetained(m, q), online
  PROVE  IInv'
<1> DEFINE x == Packet("PUBLISH", RetainedPid[m], m, q)
<1>1. /\ m \in left /\ left' = left \ {m} /\ rm' = x /\ proc' = "retained" /\ proc = "idle"
      /\ UNCHANGED <<used, pc, cur, todo, toClient, toBroker, holds, confirmed, complete, online, reconnects, cut>>
      /\ Enter(x, TRUE)
  BY DEF PublishRetained, wire, connection, publishers, Enter
<1>2. x \in Publications /\ x.pid = RetainedPid[m]
  BY OutflowAssumption DEF Publications, Packet
<1> HIDE DEF x
<1>3. /\ pub1ack' \in Seq(Entries) /\ pub2out' \in Seq(Entries)
      /\ Queued' \subseteq Queued \cup {EntryOf(x)}
      /\ EntryOf(x).pid = x.pid
  BY <1>1, <1>2, EnterFacts DEF IInv
<1>4. Types'
  <2>1. TypeOK'
    BY <1>1, <1>3 DEF IInv, Types, TypeOK
  <2>2. El(toClient)' = El(toClient) /\ El(toBroker)' = El(toBroker) /\ PublisherTypes'
    BY <1>1, SamePublishers DEF El, IInv
  <2> QED  BY <1>1, <1>2, <2>1, <2>2 DEF IInv, Types
<1>5. /\ Confused' = Confused /\ El(toClient)' = El(toClient) /\ El(toBroker)' = El(toBroker)
      /\ \A k \in Publishers :
           (Before(k)' <=> Before(k)) /\ (After(k)' <=> After(k)) /\ (Numbered(k)' <=> Numbered(k))
  BY <1>1, SameConfused, SamePublishers DEF El, IInv
<1>6. \A i : Taken(i) => Taken(i)'
  BY <1>1 DEF Taken
<1>7. \A i : i = x.pid => Taken(i)'
  BY <1>1, <1>2 DEF Taken
<1>8. Clear(x.pid) => ~ Taken(x.pid)
  <2>1. used[reconnects] \in 0 .. Limit
    BY Basics DEF IInv, Types, TypeOK
  <2>2. Clear(x.pid) => x.pid \notin 1 .. Limit /\ \A o \in DOMAIN RetainedPid \ left : RetainedPid[o] # x.pid
    BY <1>1, <1>2 DEF Clear, Confused, Shared
  <2>3. x.pid \in 1 .. used[reconnects] => x.pid \in 1 .. Limit
    BY <2>1, OutflowAssumption
  <2> QED  BY <2>2, <2>3 DEF Taken
<1>9. Clear(x.pid) =>
        /\ \A k \in Publishers : Numbered(k) => cur[k].pid # x.pid
        /\ \A z \in El(toClient) \cup El(toBroker) \cup Queued \cup holds : z.pid # x.pid
  BY <1>8 DEF IInv, AllTaken
<1>10. AllTaken'
  <2>1. \A k \in Publishers : Numbered(k)' /\ Clear(cur[k].pid)' => Taken(cur[k].pid)'
    BY <1>1, <1>5, <1>6 DEF IInv, AllTaken, Clear, Taken
  <2>2. Taken(rm.pid)'
    BY <1>1, <1>7 DEF Taken
  <2>3. \A z \in El(toClient) \cup El(toBroker) \cup Queued \cup holds : Clear(z.pid)' => Taken(z.pid)'
    BY <1>5, <1>6 DEF IInv, AllTaken, Clear
  <2>4. Taken(EntryOf(x).pid)'
    BY <1>3, <1>7 DEF Taken
  <2>5. \A z \in Queued' : z \in Queued \/ z = EntryOf(x)
    BY <1>3
  <2>6. \A z \in (El(toClient) \cup El(toBroker) \cup Queued \cup holds)' : Clear(z.pid)' => Taken(z.pid)'
    BY <1>1, <1>5, <2>3, <2>4, <2>5 DEF Taken
  <2> QED  BY <2>1, <2>2, <2>6 DEF AllTaken
<1>11. Alone'
  BY <1>1, <1>5, <1>9 DEF IInv, Alone, Clear
<1>12. Waiting'
  BY <1>1, <1>3, <1>5, <1>9 DEF IInv, Waiting, Clear, Numbered
<1>13. SentEntered'
  <2>1. /\ Clear(x.pid) => \A z : z = x => Entered(z)'
        /\ \A z : z.pid # x.pid /\ Entered(z) => Entered(z)'
    BY <1>1, <1>2, <1>9, EnterEntered
  <2>2. \A k \in Publishers : After(k) /\ Clear(cur[k].pid) => \A z : z = cur[k] => Entered(z)'
    BY <1>9, <2>1 DEF IInv, SentEntered, Numbered
  <2>3. \A z \in El(toClient) : z.type = "PUBLISH" /\ Clear(z.pid) => Entered(z)'
    BY <1>9, <2>1 DEF IInv, SentEntered
  <2>4. \A k \in Publishers : After(k)' /\ Clear(cur[k].pid)' => Entered(cur[k])'
    BY <1>1, <1>5, <2>2 DEF Clear, Entered
  <2>5. proc' = "retained" /\ Clear(rm.pid)' => Entered(rm)'
    BY <1>1, <1>5, <2>1 DEF Clear, Entered
  <2>6. \A z \in El(toClient)' : z.type = "PUBLISH" /\ Clear(z.pid)' => Entered(z)'
    BY <1>1, <1>5, <2>3 DEF Clear
  <2> QED  BY <2>4, <2>5, <2>6 DEF SentEntered
<1>14. /\ OneOnWire' /\ Unanswered' /\ PubacksRight' /\ PubrecsRight' /\ PubcompsRight'
       /\ FinalConfirmed' /\ CompletesRight'
  BY <1>1, <1>2, <1>9, EnterRight
<1>15. Offline'
  BY <1>1 DEF Offline
<1> QED  BY <1>15, <1>4, <1>10, <1>11, <1>12, <1>13, <1>14 DEF IInv

LEMMA RetainedKeeps ==
  ASSUME IInv, NEW m \in DOMAIN RetainedPid, NEW q \in Qoses, PublishRetained(m, q)
  PROVE  IInv'
<1>1. CASE online
  BY <1>1, OnlineRetainedKeeps
<1>2. CASE ~ online
  <2> DEFINE x == Packet("PUBLISH", RetainedPid[m], m, q)
  <2>1. /\ left' = left \ {m} /\ rm' = x /\ proc' = "retained"
        /\ UNCHANGED <<used, pc, cur, todo, toClient, toBroker, holds, confirmed, complete, online, reconnects>>
        /\ Enter(x, FALSE)
    BY <1>2 DEF PublishRetained, wire, connection, publishers, Enter
  <2>2. x \in Publications
    BY OutflowAssumption DEF Publications, Packet
  <2> HIDE DEF x
  <2>3. pub1ack' \in Seq(Entries) /\ pub2out' \in Seq(Entries) /\ cut' \subseteq Pids
    <3>1. x.pid \in Pids
      BY <2>2 DEF Publications
    <3> QED  BY <2>1, <2>2, <3>1, EnterFacts DEF IInv, Types, TypeOK, Enter
  <2>4. /\ PublisherTypes'
        /\ \A k \in Publishers : (Before(k)' <=> Before(k)) /\ (After(k)' <=> After(k))
    BY <2>1, SamePublishers DEF IInv
  <2>5. Types'
    <3>1. TypeOK'
      BY <2>1, <2>3 DEF IInv, Types, TypeOK
    <3>2. El(toClient)' = El(toClient) /\ El(toBroker)' = El(toBroker)
      BY <2>1 DEF El
    <3> QED  BY <2>1, <2>2, <2>4, <3>1, <3>2 DEF IInv, Types
  <2> QED  BY <2>1, <2>2, <2>4, <2>5, Confuses
<1> QED  BY <1>1, <1>2

\* Something is written to the client: the lemma for both writers and PUBREL.
Writes(x) == toClient' = Append(toClient, x)

LEMMA WriteFacts ==
  ASSUME Types, NEW x \in Packets, Writes(x)
  PROVE  /\ toClient' \in Seq(Packets) /\ El(toClient)' = El(toClient) \cup {x}
         /\ \A i \in DOMAIN toClient' :
              (i \in DOMAIN toClient /\ toClient'[i] = toClient[i]) \/ (toClient'[i] = x /\ i = Len(toClient) + 1)
         /\ \A i \in DOMAIN toClient : toClient[i] \in El(toClient)
<1>1. toClient \in Seq(Packets)
  BY Basics
<1>2. Append(toClient, x) \in Seq(Packets) /\ El(Append(toClient, x)) = El(toClient) \cup {x}
  BY <1>1, ElAppend
<1>3. \A i \in DOMAIN Append(toClient, x) :
        \/ i \in DOMAIN toClient /\ Append(toClient, x)[i] = toClient[i]
        \/ Append(toClient, x)[i] = x /\ i = Len(toClient) + 1
  BY <1>1, AppendProperties
<1>4. El(toClient)' = El(toClient')
  BY DEF El
<1> QED  BY <1>2, <1>3, <1>4 DEF Writes, El

LEMMA WriteAlone ==
  ASSUME IInv, NEW x \in Packets, Writes(x), UNCHANGED cut,
         Clear(x.pid) => \A z \in El(toClient) :
                           x.type = "PUBLISH" \/ z.type = "PUBLISH" => z.pid # x.pid
  PROVE  OneOnWire'
<1>1. /\ \A i \in DOMAIN toClient' :
              (i \in DOMAIN toClient /\ toClient'[i] = toClient[i]) \/ (toClient'[i] = x /\ i = Len(toClient) + 1)
      /\ \A i \in DOMAIN toClient : toClient[i] \in El(toClient)
  BY WriteFacts DEF IInv
<1>2. Confused' = Confused
  BY SameConfused
<1>3. SUFFICES ASSUME NEW i \in DOMAIN toClient', NEW j \in DOMAIN toClient', i # j,
                      toClient'[i].type = "PUBLISH", toClient'[i].pid = toClient'[j].pid
               PROVE  ~ Clear(toClient'[i].pid)
  BY <1>2 DEF OneOnWire, Clear
<1>4. CASE i \in DOMAIN toClient /\ toClient'[i] = toClient[i]
  <2>1. CASE j \in DOMAIN toClient /\ toClient'[j] = toClient[j]
    BY <1>3, <1>4, <2>1 DEF IInv, OneOnWire
  <2>2. CASE toClient'[j] = x
    BY <1>1, <1>3, <1>4, <2>2
  <2> QED  BY <1>1, <2>1, <2>2
<1>5. CASE toClient'[i] = x /\ i = Len(toClient) + 1
  <2>1. j \in DOMAIN toClient /\ toClient'[j] = toClient[j]
    BY <1>1, <1>3, <1>5
  <2> QED  BY <1>1, <1>3, <1>5, <2>1
<1> QED  BY <1>1, <1>4, <1>5

LEMMA PublishWritten ==
  ASSUME IInv, NEW x \in Publications, Writes(x),
         UNCHANGED <<used, left, pub1ack, pub2out, toBroker, holds, confirmed, complete, reconnects, cut>>,
         Clear(x.pid) => /\ \A z \in El(toClient) \cup El(toBroker) : z.pid # x.pid
                         /\ Entered(x) /\ Taken(x.pid)
  PROVE  /\ OneOnWire' /\ Unanswered' /\ PubacksRight' /\ PubrecsRight' /\ PubcompsRight'
         /\ FinalConfirmed' /\ CompletesRight'
         /\ \A z \in El(toClient)' : z.type = "PUBLISH" /\ Clear(z.pid) => Entered(z)
         /\ \A z \in El(toClient)' : Clear(z.pid) => Taken(z.pid)
<1>1. x.type = "PUBLISH" /\ x \in Packets
  BY Fields
<1>2. El(toClient)' = El(toClient) \cup {x} /\ El(toBroker)' = El(toBroker)
  <2>1. El(toClient)' = El(toClient) \cup {x}
    BY <1>1, WriteFacts DEF IInv
  <2>2. El(toBroker)' = El(toBroker)
    BY DEF El
  <2> QED  BY <2>1, <2>2
<1>3. Confused' = Confused /\ Queued' = Queued /\ El(pub1ack)' = El(pub1ack) /\ El(pub2out)' = El(pub2out)
  BY SameConfused DEF Queued, El
<1>4. OneOnWire'
  BY <1>1, WriteAlone
<1>5. Unanswered'
  BY <1>2, <1>3 DEF IInv, Unanswered, Clear
<1>6. PubrecsRight'
  BY <1>1, <1>2, <1>3 DEF IInv, PubrecsRight, Clear, Held, Settled
<1>7. PubacksRight' /\ PubcompsRight' /\ FinalConfirmed' /\ CompletesRight'
  BY <1>2, <1>3 DEF IInv, PubacksRight, PubcompsRight, FinalConfirmed, CompletesRight, Clear, Settled
<1>8. \A z \in El(toClient)' : z.type = "PUBLISH" /\ Clear(z.pid) => Entered(z)
  BY <1>2 DEF IInv, SentEntered
<1>9. \A z \in El(toClient)' : Clear(z.pid) => Taken(z.pid)
  BY <1>2 DEF IInv, AllTaken
<1> QED  BY <1>4, <1>5, <1>6, <1>7, <1>8, <1>9

LEMMA LiveWriteKeeps == ASSUME IInv, NEW p \in Publishers, WriteMessage(p), Live(p) PROVE IInv'
<1> DEFINE x == cur[p]
<1>1. /\ After(p) /\ pc[p] = "write" /\ (Returns(p) \/ Panics(p)) /\ online
      /\ UNCHANGED <<used, left, pub1ack, pub2out, proc, rm, toBroker, holds, confirmed, complete, online, reconnects, cut>>
      /\ Writes(x)
  BY DEF WriteMessage, Goto, queues, client, connection, Writes, After, Live
<1>2. x \in Publications /\ x \in Packets /\ Numbered(p)
  BY <1>1, Fields DEF IInv, Types, PublisherTypes, Numbered
<1>3. /\ pc' \in [Publishers -> {"idle", "poll", "wait", "write"}]
      /\ todo' \in [Publishers -> Seq(0 .. reconnects')]
      /\ PublisherTypes' /\ ~ Numbered(p)'
      /\ \A k \in Publishers \ {p} :
           /\ SamePublisher(k)
           /\ (Before(k)' <=> Before(k)) /\ (After(k)' <=> After(k)) /\ (Numbered(k)' <=> Numbered(k))
  BY <1>1, Ended DEF IInv
<1>4. \A k \in Publishers : /\ Numbered(k)' => Numbered(k) /\ k # p /\ cur'[k] = cur[k]
                            /\ Before(k)' => Before(k) /\ cur'[k] = cur[k]
                            /\ After(k)' => After(k) /\ cur'[k] = cur[k]
  BY <1>3 DEF Numbered, SamePublisher
<1>5. /\ toClient' \in Seq(Packets) /\ El(toClient)' = El(toClient) \cup {x} /\ El(toBroker)' = El(toBroker)
      /\ Confused' = Confused /\ Queued' = Queued
      /\ \A i : Taken(i)' <=> Taken(i)
      /\ \A z : Entered(z)' <=> Entered(z)
  <2>1. Queued' = Queued /\ \A i : Taken(i)' <=> Taken(i)
    BY <1>1 DEF Queued, Taken
  <2>2. \A z : Entered(z)' <=> Entered(z)
    BY <1>1, <2>1 DEF Entered
  <2>3. toClient' \in Seq(Packets) /\ El(toClient)' = El(toClient) \cup {x}
    <3> HIDE DEF x
    <3> QED  BY <1>1, <1>2, WriteFacts DEF IInv
  <2>4. El(toBroker)' = El(toBroker) /\ Confused' = Confused
    BY <1>1, SameConfused DEF El
  <2> QED  BY <2>1, <2>2, <2>3, <2>4
<1>6. Clear(x.pid) => /\ \A z \in El(toClient) \cup El(toBroker) : z.pid # x.pid
                      /\ Entered(x) /\ Taken(x.pid)
  BY <1>1, <1>2 DEF IInv, Alone, SentEntered, AllTaken
<1>7. /\ OneOnWire' /\ Unanswered' /\ PubacksRight' /\ PubrecsRight' /\ PubcompsRight'
      /\ FinalConfirmed' /\ CompletesRight'
      /\ \A z \in El(toClient)' : z.type = "PUBLISH" /\ Clear(z.pid) => Entered(z)
      /\ \A z \in El(toClient)' : Clear(z.pid) => Taken(z.pid)
  BY <1>1, <1>2, <1>6, PublishWritten
<1>8. Types'
  <2>1. TypeOK'
    BY <1>1, <1>3 DEF IInv, Types, TypeOK
  <2>2. \A z \in El(toClient)' : z \in Publications \/ (z.type = "PUBREL" /\ z.pid \in Pids)
    BY <1>2, <1>5 DEF IInv, Types
  <2> QED  BY <1>1, <1>3, <1>5, <2>1, <2>2 DEF IInv, Types
<1>9. AllTaken'
  <2>1. \A k \in Publishers : Numbered(k)' /\ Clear(cur[k].pid)' => Taken(cur[k].pid)'
    BY <1>4, <1>5 DEF IInv, AllTaken, Clear, Taken
  <2>2. proc' = "retained" /\ Clear(rm.pid)' => Taken(rm.pid)'
    BY <1>1, <1>5 DEF IInv, AllTaken, Clear, Taken
  <2>3. \A z \in (El(toClient) \cup El(toBroker) \cup Queued \cup holds)' : Clear(z.pid)' => Taken(z.pid)'
    BY <1>1, <1>5, <1>7 DEF IInv, AllTaken, Clear
  <2> QED  BY <2>1, <2>2, <2>3 DEF AllTaken
<1>10. Alone'
  <2>1. \A k \in Publishers : k # p /\ Numbered(k) /\ cur[k].pid = x.pid => ~ Clear(x.pid)
    BY <1>2 DEF IInv, Alone
  <2>2. proc = "retained" /\ rm.pid = x.pid => ~ Clear(x.pid)
    BY <1>2 DEF IInv, Alone
  <2> HIDE DEF x
  <2> QED  BY <1>1, <1>4, <1>5, <2>1, <2>2 DEF IInv, Alone, Clear
<1>11. Waiting'
  BY <1>1, <1>4, <1>5 DEF IInv, Waiting, Clear
<1>12. SentEntered'
  <2>1. \A k \in Publishers : After(k)' /\ Clear(cur[k].pid)' => \A z : z = cur'[k] => Entered(z)'
    BY <1>4, <1>5 DEF IInv, SentEntered, Clear
  <2>2. proc' = "retained" /\ Clear(rm.pid)' => \A z : z = rm' => Entered(z)'
    BY <1>1, <1>5 DEF IInv, SentEntered, Clear
  <2>3. \A z \in El(toClient)' : z.type = "PUBLISH" /\ Clear(z.pid)' => Entered(z)'
    BY <1>5, <1>7 DEF Clear
  <2> QED  BY <2>1, <2>2, <2>3 DEF SentEntered, Entered
<1>13. Offline'
  BY <1>1 DEF Offline
<1> QED  BY <1>13, <1>7, <1>8, <1>9, <1>10, <1>11, <1>12 DEF IInv

LEMMA WriteMessageKeeps == ASSUME IInv, NEW p \in Publishers, WriteMessage(p) PROVE IInv'
<1>1. CASE Live(p)
  BY <1>1, LiveWriteKeeps
<1>2. CASE ~ Live(p)
  <2>1. /\ Quiet /\ used' = used /\ left' = left /\ UNCHANGED <<online, reconnects>>
        /\ pc[p] \in {"wait", "write"} /\ (Returns(p) \/ Panics(p))
    BY <1>2 DEF WriteMessage, Quiet, client, connection, wire
  <2>2. /\ pc' \in [Publishers -> {"idle", "poll", "wait", "write"}]
        /\ todo' \in [Publishers -> Seq(0 .. reconnects')]
        /\ PublisherTypes' /\ ~ Numbered(p)'
        /\ \A k \in Publishers \ {p} : SamePublisher(k) /\ (Before(k)' <=> Before(k)) /\ (After(k)' <=> After(k))
    BY <2>1, Ended DEF IInv
  <2>3. Types'
    BY <2>1, <2>2, QuietTypes DEF IInv, Types, TypeOK
  <2>4. \A k \in Publishers : /\ Before(k)' => Before(k) /\ cur'[k] = cur[k]
                              /\ After(k)' => After(k) /\ cur'[k] = cur[k]
    BY <2>2 DEF SamePublisher, Numbered
  <2> QED  BY <2>1, <2>3, <2>4, QuietKeeps
<1> QED  BY <1>1, <1>2

LEMMA OnlineWriteRetainedKeeps == ASSUME IInv, WriteRetained, online PROVE IInv'
<1> DEFINE x == rm
<1>1. /\ proc = "retained" /\ proc' = "idle" /\ rm' = NoPacket
      /\ UNCHANGED <<used, left, pub1ack, pub2out, pc, cur, todo, toBroker, holds, confirmed, complete, online, reconnects, cut>>
      /\ Writes(x)
  BY DEF WriteRetained, Write, queues, client, connection, publishers, Writes
<1>2. x \in Publications /\ x \in Packets
  BY <1>1, Fields DEF IInv, Types
<1>3. /\ PublisherTypes'
      /\ \A k \in Publishers :
           (Before(k)' <=> Before(k)) /\ (After(k)' <=> After(k)) /\ (Numbered(k)' <=> Numbered(k))
  BY <1>1, SamePublishers DEF IInv
<1>4. /\ toClient' \in Seq(Packets) /\ El(toClient)' = El(toClient) \cup {x} /\ El(toBroker)' = El(toBroker)
      /\ Confused' = Confused /\ Queued' = Queued
      /\ \A i : Taken(i)' <=> Taken(i)
      /\ \A z : Entered(z)' <=> Entered(z)
  <2>1. Queued' = Queued /\ \A i : Taken(i)' <=> Taken(i)
    BY <1>1 DEF Queued, Taken
  <2>2. \A z : Entered(z)' <=> Entered(z)
    BY <1>1, <2>1 DEF Entered
  <2>3. toClient' \in Seq(Packets) /\ El(toClient)' = El(toClient) \cup {x}
    <3> HIDE DEF x
    <3> QED  BY <1>1, <1>2, WriteFacts DEF IInv
  <2>4. El(toBroker)' = El(toBroker) /\ Confused' = Confused
    BY <1>1, SameConfused DEF El
  <2> QED  BY <2>1, <2>2, <2>3, <2>4
<1>5. Clear(x.pid) => /\ \A z \in El(toClient) \cup El(toBroker) : z.pid # x.pid
                      /\ Entered(x) /\ Taken(x.pid)
  BY <1>1, <1>2 DEF IInv, Alone, SentEntered, AllTaken
<1>6. /\ OneOnWire' /\ Unanswered' /\ PubacksRight' /\ PubrecsRight' /\ PubcompsRight'
      /\ FinalConfirmed' /\ CompletesRight'
      /\ \A z \in El(toClient)' : z.type = "PUBLISH" /\ Clear(z.pid) => Entered(z)
      /\ \A z \in El(toClient)' : Clear(z.pid) => Taken(z.pid)
  BY <1>1, <1>2, <1>5, PublishWritten
<1>7. Types'
  <2>1. TypeOK'
    BY <1>1 DEF IInv, Types, TypeOK
  <2>2. \A z \in El(toClient)' : z \in Publications \/ (z.type = "PUBREL" /\ z.pid \in Pids)
    BY <1>2, <1>4 DEF IInv, Types
  <2> QED  BY <1>1, <1>3, <1>4, <2>1, <2>2 DEF IInv, Types
<1>8. AllTaken'
  <2>1. \A k \in Publishers : Numbered(k)' /\ Clear(cur[k].pid)' => Taken(cur[k].pid)'
    BY <1>1, <1>3, <1>4 DEF IInv, AllTaken, Clear, Taken
  <2>2. \A z \in (El(toClient) \cup El(toBroker) \cup Queued \cup holds)' : Clear(z.pid)' => Taken(z.pid)'
    BY <1>1, <1>4, <1>6 DEF IInv, AllTaken, Clear
  <2> QED  BY <1>1, <2>1, <2>2 DEF AllTaken
<1>9. Alone'
  <2>1. \A k \in Publishers : Numbered(k) /\ cur[k].pid = x.pid => ~ Clear(x.pid)
    BY <1>1 DEF IInv, Alone
  <2> HIDE DEF x
  <2> QED  BY <1>1, <1>3, <1>4, <2>1 DEF IInv, Alone, Clear
<1>10. Waiting'
  BY <1>1, <1>3, <1>4 DEF IInv, Waiting, Clear
<1>11. SentEntered'
  <2>1. \A k \in Publishers : After(k)' /\ Clear(cur[k].pid)' => \A z : z = cur'[k] => Entered(z)'
    BY <1>1, <1>3, <1>4 DEF IInv, SentEntered, Clear
  <2>2. \A z \in El(toClient)' : z.type = "PUBLISH" /\ Clear(z.pid)' => Entered(z)'
    BY <1>4, <1>6 DEF Clear
  <2> QED  BY <1>1, <2>1, <2>2 DEF SentEntered, Entered
<1>12. Offline'
  BY <1>1 DEF Offline
<1> QED  BY <1>12, <1>6, <1>7, <1>8, <1>9, <1>10, <1>11 DEF IInv

LEMMA WriteRetainedKeeps == ASSUME IInv, WriteRetained PROVE IInv'
<1>1. CASE online
  BY <1>1, OnlineWriteRetainedKeeps
<1>2. CASE ~ online
  <2>1. /\ proc' = "idle"
        /\ UNCHANGED <<used, left, pub1ack, pub2out, pc, cur, todo, toClient, toBroker, holds, confirmed, complete,
                       online, reconnects, cut>>
    BY <1>2 DEF WriteRetained, Write, queues, client, connection, publishers
  <2>2. /\ PublisherTypes'
        /\ \A k \in Publishers : (Before(k)' <=> Before(k)) /\ (After(k)' <=> After(k)) /\ (Numbered(k)' <=> Numbered(k))
    BY <2>1, SamePublishers DEF IInv
  <2>3. /\ El(toClient)' = El(toClient) /\ El(toBroker)' = El(toBroker) /\ Queued' = Queued
        /\ El(pub1ack)' = El(pub1ack) /\ El(pub2out)' = El(pub2out)
    BY <2>1 DEF El, Queued
  <2>4. Types'
    <3>1. TypeOK'
      BY <2>1 DEF IInv, Types, TypeOK
    <3> QED  BY <2>1, <2>2, <2>3, <3>1 DEF IInv, Types
  <2>5. Confused' = Confused /\ \A i : Taken(i) => Taken(i)'
    BY <2>1, SameConfused, SameTaken
  <2>6. AllTaken'
    <3>1. \A k \in Publishers : Numbered(k)' /\ Clear(cur[k].pid)' => Taken(cur[k].pid)'
      BY <2>1, <2>2, <2>5 DEF IInv, AllTaken, Clear, Taken
    <3>2. \A z \in (El(toClient) \cup El(toBroker) \cup Queued \cup holds)' : Clear(z.pid)' => Taken(z.pid)'
      BY <2>1, <2>3, <2>5 DEF IInv, AllTaken, Clear
    <3> QED  BY <2>1, <3>1, <3>2 DEF AllTaken
  <2>7. Offline'
    BY <2>1, <2>3, <2>5 DEF IInv, Offline, Clear
  <2>8. OneOnWire'
    BY <2>1, <2>5 DEF IInv, OneOnWire, Clear
  <2> QED  BY <2>1, <2>2, <2>3, <2>4, <2>5, <2>6, <2>7, <2>8, Weakens
<1> QED  BY <1>1, <1>2

-----------------------------------------------------------------------------
(* Acknowledgements: what the three handlers have in common *)

Marks(y) ==
  \/ y.type = "PUBACK" /\ pub1ack' = Acknowledged(pub1ack, "PUBACK", y.pid) /\ UNCHANGED pub2out
  \/ /\ y.type \in {"PUBREC", "PUBCOMP"}
     /\ pub2out' = Acknowledged(pub2out, y.type, y.pid) /\ UNCHANGED pub1ack
Acks(y) ==
  /\ proc = "idle" /\ proc' \in {"idle", "pub1ack", "pub2out"}
  /\ toBroker # <<>> /\ y = Head(toBroker) /\ toBroker' = Tail(toBroker) /\ Marks(y)
  /\ UNCHANGED toClient \/ (online /\ y.type = "PUBREC" /\ Writes(Bare("PUBREL", y.pid)))
  /\ UNCHANGED <<used, pc, cur, todo, rm, left, holds, confirmed, complete, online, reconnects, cut>>

\* An entry before and after.
Follows(e, f, y) == f.pid = e.pid /\ f.msg = e.msg /\ (f = e \/ (e.pid = y.pid /\ f.state = y.type))

LEMMA MarkFacts ==
  ASSUME Types, NEW y, Marks(y)
  PROVE  /\ pub1ack' \in Seq(Entries) /\ pub2out' \in Seq(Entries)
         /\ \A f \in El(pub1ack)' : \E e \in El(pub1ack) : Follows(e, f, y) /\ (f = e \/ y.type = "PUBACK")
         /\ \A f \in El(pub2out)' : \E e \in El(pub2out) : Follows(e, f, y) /\ (f = e \/ y.type \in {"PUBREC", "PUBCOMP"})
         /\ \A f \in Queued' : \E e \in Queued : Follows(e, f, y)
         /\ \A e \in Queued : e.pid # y.pid => e \in Queued'
<1>1. Queued = El(pub1ack) \cup El(pub2out) /\ pub1ack \in Seq(Entries) /\ pub2out \in Seq(Entries)
  BY Basics
<1>2. El(pub1ack)' = El(pub1ack') /\ El(pub2out)' = El(pub2out') /\ Queued' = El(pub1ack') \cup El(pub2out')
  BY DEF Queued, El
<1>3. ASSUME NEW q \in Seq(Entries), y.type \in AckTypes
      PROVE  /\ Acknowledged(q, y.type, y.pid) \in Seq(Entries)
             /\ \A f \in El(Acknowledged(q, y.type, y.pid)) : \E e \in El(q) : Follows(e, f, y)
             /\ \A e \in El(q) : e.pid # y.pid => e \in El(Acknowledged(q, y.type, y.pid))
  <2>1. /\ Acknowledged(q, y.type, y.pid) \in Seq(Entries)
        /\ El(Acknowledged(q, y.type, y.pid)) = {Marked(y.type, y.pid, e) : e \in El(q)}
    BY <1>3, AcknowledgedFacts
  <2>2. \A e \in El(q) : e \in Entries
    BY DEF El
  <2>3. \A e \in El(q) : Follows(e, Marked(y.type, y.pid, e), y)
    <3>1. \A e \in Entries : Marked(y.type, y.pid, e) = e \/ e.pid = y.pid
      BY DEF Marked
    <3> QED  BY <2>2, <3>1, MarkedFields DEF Follows
  <2>4. \A e \in El(q) : e.pid # y.pid => Marked(y.type, y.pid, e) = e
    BY DEF Marked
  <2> QED  BY <2>1, <2>3, <2>4
<1>4. \A e : Follows(e, e, y)
  BY DEF Follows
<1>5. CASE y.type = "PUBACK" /\ pub1ack' = Acknowledged(pub1ack, "PUBACK", y.pid) /\ UNCHANGED pub2out
  <2>1. y.type \in AckTypes
    BY <1>5, OutflowAssumption
  <2> QED  BY <1>1, <1>2, <1>3, <1>4, <1>5, <2>1
<1>6. CASE /\ y.type \in {"PUBREC", "PUBCOMP"}
           /\ pub2out' = Acknowledged(pub2out, y.type, y.pid) /\ UNCHANGED pub1ack
  <2>1. y.type \in AckTypes
    BY <1>6, OutflowAssumption
  <2> QED  BY <1>1, <1>2, <1>3, <1>4, <1>6, <2>1
<1> QED  BY <1>5, <1>6 DEF Marks

LEMMA AcksWires ==
  ASSUME IInv, NEW y, Acks(y)
  PROVE  /\ y \in El(toBroker) /\ y.pid \in Pids
         /\ toBroker' \in Seq(Packets) /\ El(toBroker)' \subseteq El(toBroker)
         /\ toClient' \in Seq(Packets) /\ OneOnWire'
         /\ \A x \in El(toClient)' :
              x \in El(toClient) \/ (x.type = "PUBREL" /\ x.pid = y.pid /\ y.type = "PUBREC")
         /\ online \/ UNCHANGED toClient
<1>1. toBroker \in Seq(Packets) /\ toClient \in Seq(Packets)
  BY Basics DEF IInv
<1>2. toBroker' \in Seq(Packets) /\ El(toBroker') \subseteq El(toBroker) /\ y \in El(toBroker)
  BY <1>1, ElTail DEF Acks
<1>3. El(toBroker)' = El(toBroker') /\ El(toClient)' = El(toClient')
  BY DEF El
<1>4. y.pid \in Pids
  BY <1>2, Basics DEF IInv
<1>5. CASE UNCHANGED toClient
  <2>1. OneOnWire'
    BY <1>5, SameConfused DEF IInv, OneOnWire, Clear, Acks
  <2> QED  BY <1>1, <1>2, <1>3, <1>4, <1>5, <2>1
<1>6. CASE online /\ y.type = "PUBREC" /\ Writes(Bare("PUBREL", y.pid))
  <2> DEFINE x == Bare("PUBREL", y.pid)
  <2>1. x \in Packets /\ x.type = "PUBREL" /\ x.pid = y.pid
    BY <1>4, Fields
  <2> HIDE DEF x
  <2>2. Writes(x)
    BY <1>6 DEF x
  <2>3. toClient' \in Seq(Packets) /\ El(toClient)' = El(toClient) \cup {x}
    BY <2>1, <2>2, WriteFacts DEF IInv
  <2>4. Clear(x.pid) => \A z \in El(toClient) : x.type = "PUBLISH" \/ z.type = "PUBLISH" => z.pid # x.pid
    BY <1>2, <2>1 DEF IInv, Unanswered
  <2>5. OneOnWire'
    <3>1. UNCHANGED cut
      BY DEF Acks
    <3> QED  BY <2>1, <2>2, <2>4, <3>1, WriteAlone
  <2> QED  BY <1>2, <1>3, <1>4, <1>6, <2>1, <2>3, <2>5
<1> QED  BY <1>5, <1>6 DEF Acks

LEMMA AcksKeep == ASSUME IInv, NEW y, Acks(y) PROVE IInv'
<1>1. /\ y \in El(toBroker) /\ y.pid \in Pids
      /\ toBroker' \in Seq(Packets) /\ El(toBroker)' \subseteq El(toBroker)
      /\ toClient' \in Seq(Packets) /\ OneOnWire'
      /\ \A x \in El(toClient)' :
           x \in El(toClient) \/ (x.type = "PUBREL" /\ x.pid = y.pid /\ y.type = "PUBREC")
      /\ online \/ UNCHANGED toClient
  BY AcksWires
<1>2. /\ pub1ack' \in Seq(Entries) /\ pub2out' \in Seq(Entries)
      /\ \A f \in El(pub1ack)' : \E e \in El(pub1ack) : Follows(e, f, y) /\ (f = e \/ y.type = "PUBACK")
      /\ \A f \in El(pub2out)' : \E e \in El(pub2out) : Follows(e, f, y) /\ (f = e \/ y.type \in {"PUBREC", "PUBCOMP"})
      /\ \A f \in Queued' : \E e \in Queued : Follows(e, f, y)
      /\ \A e \in Queued : e.pid # y.pid => e \in Queued'
  BY MarkFacts DEF IInv, Acks
<1>3. /\ proc = "idle" /\ proc' \in {"idle", "pub1ack", "pub2out"} /\ proc' # "retained"
      /\ UNCHANGED <<used, pc, cur, todo, rm, left, holds, confirmed, complete, online, reconnects, cut>>
  BY DEF Acks
<1>4. /\ Confused' = Confused /\ PublisherTypes'
      /\ \A k \in Publishers :
           (Before(k)' <=> Before(k)) /\ (After(k)' <=> After(k)) /\ (Numbered(k)' <=> Numbered(k))
      /\ \A i : Taken(i)' <=> Taken(i)
  <2>1. \A i : Taken(i)' <=> Taken(i)
    BY <1>3 DEF Taken
  <2> QED  BY <1>3, <2>1, SameConfused, SamePublishers DEF IInv
<1>5. Types'
  <2>1. TypeOK'
    BY <1>2, <1>3 DEF IInv, Types, TypeOK
  <2>2. \A x \in El(toClient)' : x \in Publications \/ (x.type = "PUBREL" /\ x.pid \in Pids)
    BY <1>1 DEF IInv, Types
  <2>3. \A z \in El(toBroker)' : z.type \in AckTypes /\ z.pid \in Pids
    BY <1>1 DEF IInv, Types
  <2>4. holds' \subseteq Publications
    BY <1>3 DEF IInv, Types
  <2> QED  BY <1>1, <1>3, <1>4, <2>1, <2>2, <2>3, <2>4 DEF Types
<1>6. AllTaken'
  <2>1. \A k \in Publishers : Numbered(k)' /\ Clear(cur[k].pid)' => Taken(cur[k].pid)'
    BY <1>3, <1>4 DEF IInv, AllTaken, Clear, Taken
  <2>2. \A z \in El(toBroker) \cup El(toClient) \cup Queued \cup holds : Clear(z.pid) => Taken(z.pid)
    BY DEF IInv, AllTaken
  <2>3. \A z \in El(toBroker)' \cup El(toClient)' \cup Queued' \cup holds' :
          \E u \in El(toBroker) \cup El(toClient) \cup Queued \cup holds : z.pid = u.pid
    BY <1>1, <1>2, <1>3 DEF Follows
  <2>4. \A z \in (El(toClient) \cup El(toBroker) \cup Queued \cup holds)' : Clear(z.pid)' => Taken(z.pid)'
    BY <1>4, <2>2, <2>3 DEF Clear
  <2> QED  BY <1>3, <2>1, <2>4 DEF AllTaken
<1>7. Alone'
  BY <1>1, <1>3, <1>4 DEF IInv, Alone, Clear
<1>8. Unanswered'
  BY <1>1, <1>4 DEF IInv, Unanswered, Clear
<1>9. Waiting'
  BY <1>2, <1>3, <1>4 DEF IInv, Waiting, Clear, Follows
<1>10. SentEntered'
  <2>1. \A z : z.pid # y.pid /\ Entered(z) => Entered(z)'
    BY <1>2, <1>3 DEF Entered, Follows
  <2>2. \A k \in Publishers : Numbered(k) /\ Clear(cur[k].pid) => cur[k].pid # y.pid
    BY <1>1 DEF IInv, Alone
  <2>3. \A x \in El(toClient) : x.type = "PUBLISH" /\ Clear(x.pid) => x.pid # y.pid
    BY <1>1 DEF IInv, Unanswered
  <2>4. \A k \in Publishers : After(k) /\ Clear(cur[k].pid) => \A z : z = cur[k] => Entered(z)'
    BY <2>1, <2>2 DEF IInv, SentEntered, Numbered
  <2>5. \A x \in El(toClient) : x.type = "PUBLISH" /\ Clear(x.pid) => Entered(x)'
    BY <2>1, <2>3 DEF IInv, SentEntered
  <2>6. \A k \in Publishers : After(k)' /\ Clear(cur[k].pid)' => Entered(cur[k])'
    BY <1>3, <1>4, <2>4 DEF Clear, Entered
  <2>7. \A x \in El(toClient)' : x.type = "PUBLISH" /\ Clear(x.pid)' => Entered(x)'
    BY <1>1, <1>4, <2>5 DEF Clear
  <2> QED  BY <1>3, <2>6, <2>7 DEF SentEntered
<1>11. PubacksRight'
  BY <1>1, <1>2, <1>3, <1>4 DEF IInv, PubacksRight, Clear, Follows, Settled
<1>12. PubrecsRight'
  <2>1. \A f : \A e \in El(pub2out) : Follows(e, f, y) => (Held(e) => Held(f)') /\ (Settled(e) => Settled(f)')
    BY <1>3 DEF Held, Follows, Settled
  <2>2. \A x \in El(toBroker)' \cup El(toClient)' : x.type \in {"PUBREC", "PUBREL"} =>
          \E u \in El(toBroker) \cup El(toClient) : u.type \in {"PUBREC", "PUBREL"} /\ u.pid = x.pid
    BY <1>1
  <2> QED  BY <1>2, <1>3, <1>4, <2>1, <2>2 DEF IInv, PubrecsRight, Clear, Follows
<1>13. PubcompsRight'
  BY <1>1, <1>2, <1>3, <1>4 DEF IInv, PubcompsRight, Clear, Follows, Settled
<1>14. FinalConfirmed'
  <2>1. \A f \in El(pub1ack)' : IsFinal(f) /\ Clear(f.pid) => Settled(f)
    <3>1. \A e \in El(pub1ack) : y.type = "PUBACK" /\ e.pid = y.pid /\ Clear(e.pid) => Settled(e)
      BY <1>1 DEF IInv, PubacksRight
    <3>2. \A e \in El(pub1ack) : IsFinal(e) /\ Clear(e.pid) => Settled(e)
      BY Basics DEF IInv, FinalConfirmed
    <3> QED  BY <1>2, <3>1, <3>2 DEF Follows, Settled
  <2>2. \A f \in El(pub2out)' : IsFinal(f) /\ Clear(f.pid) => Settled(f)
    <3>1. \A e \in El(pub2out) : y.type = "PUBCOMP" /\ e.pid = y.pid /\ Clear(e.pid) => Settled(e)
      BY <1>1 DEF IInv, PubcompsRight
    <3>2. \A e \in El(pub2out) : IsFinal(e) /\ Clear(e.pid) => Settled(e)
      BY Basics DEF IInv, FinalConfirmed
    <3>3. \A f : f.state = "PUBREC" => ~ IsFinal(f)
      BY DEF IsFinal, FinalStates
    <3> QED  BY <1>2, <3>1, <3>2, <3>3 DEF Follows, Settled
  <2>3. Queued' = El(pub1ack)' \cup El(pub2out)'
    BY DEF Queued, El
  <2> QED  BY <1>3, <1>4, <2>1, <2>2, <2>3 DEF FinalConfirmed, Clear, Settled
<1>15. CompletesRight'
  BY <1>3, <1>4 DEF IInv, CompletesRight
<1>16. Offline'
  <2>1. \A z \in Queued' \cup holds' : \E u \in Queued \cup holds : z.pid = u.pid
    BY <1>2, <1>3 DEF Follows
  <2> QED  BY <1>1, <1>3, <1>4, <2>1 DEF IInv, Offline, Clear
<1> QED  BY <1>16, <1>1, <1>5, <1>6, <1>7, <1>8, <1>9, <1>10, <1>11, <1>12, <1>13, <1>14, <1>15 DEF IInv

LEMMA AckHandlersKeep ==
  ASSUME IInv, ProcessPuback \/ ProcessPubrec \/ ProcessPubcomp
  PROVE  IInv'
<1>1. ASSUME ProcessPuback PROVE Acks(Head(toBroker))
  BY <1>1 DEF ProcessPuback, Takes, Acks, Marks, client, publishers, connection
<1>2. ASSUME ProcessPubrec PROVE Acks(Head(toBroker))
  BY <1>2 DEF ProcessPubrec, Takes, Acks, Marks, client, publishers, connection, Write, Writes
<1>3. ASSUME ProcessPubcomp PROVE Acks(Head(toBroker))
  BY <1>3 DEF ProcessPubcomp, Takes, Acks, Marks, client, publishers, connection
<1> QED  BY <1>1, <1>2, <1>3, AcksKeep

-----------------------------------------------------------------------------
(* processAcked *)

Finishes ==
  \/ /\ \E n \in 0 .. Len(pub1ack) : Done(pub1ack, n) /\ pub1ack' = Rest(pub1ack, n) /\ Completes(pub1ack, n)
     /\ UNCHANGED pub2out
  \/ /\ \E n \in 0 .. Len(pub2out) : Done(pub2out, n) /\ pub2out' = Rest(pub2out, n) /\ Completes(pub2out, n)
     /\ UNCHANGED pub1ack

LEMMA FinishFacts ==
  ASSUME Types, Finishes
  PROVE  /\ pub1ack' \in Seq(Entries) /\ pub2out' \in Seq(Entries)
         /\ El(pub1ack)' \subseteq El(pub1ack) /\ El(pub2out)' \subseteq El(pub2out)
         /\ Queued' \subseteq Queued /\ \A e \in Queued : IsFinal(e) \/ e \in Queued'
         /\ \A c \in complete' : \/ c \in complete
                                 \/ \E e \in Queued : c = Exchange(e.pid, e.msg) /\ IsFinal(e)
<1>1. Queued = El(pub1ack) \cup El(pub2out) /\ pub1ack \in Seq(Entries) /\ pub2out \in Seq(Entries)
  BY Basics
<1>2. El(pub1ack)' = El(pub1ack') /\ El(pub2out)' = El(pub2out') /\ Queued' = El(pub1ack') \cup El(pub2out')
  BY DEF Queued, El
<1>3. CASE /\ \E n \in 0 .. Len(pub1ack) : Done(pub1ack, n) /\ pub1ack' = Rest(pub1ack, n) /\ Completes(pub1ack, n)
           /\ UNCHANGED pub2out
  <2>1. PICK n \in 0 .. Len(pub1ack) : Done(pub1ack, n) /\ pub1ack' = Rest(pub1ack, n) /\ Completes(pub1ack, n)
    BY <1>3
  <2>2. /\ Rest(pub1ack, n) \in Seq(Entries) /\ El(Rest(pub1ack, n)) \subseteq El(pub1ack)
        /\ \A e \in El(pub1ack) : IsFinal(e) \/ e \in El(Rest(pub1ack, n))
        /\ \A i \in 1 .. n : pub1ack[i] \in El(pub1ack) /\ IsFinal(pub1ack[i])
    BY <1>1, <2>1, RestFacts
  <2>3. \A c \in complete' : c \in complete \/ \E e \in Queued : c = Exchange(e.pid, e.msg) /\ IsFinal(e)
    BY <1>1, <2>1, <2>2 DEF Completes
  <2> QED  BY <1>1, <1>2, <1>3, <2>1, <2>2, <2>3
<1>4. CASE /\ \E n \in 0 .. Len(pub2out) : Done(pub2out, n) /\ pub2out' = Rest(pub2out, n) /\ Completes(pub2out, n)
           /\ UNCHANGED pub1ack
  <2>1. PICK n \in 0 .. Len(pub2out) : Done(pub2out, n) /\ pub2out' = Rest(pub2out, n) /\ Completes(pub2out, n)
    BY <1>4
  <2>2. /\ Rest(pub2out, n) \in Seq(Entries) /\ El(Rest(pub2out, n)) \subseteq El(pub2out)
        /\ \A e \in El(pub2out) : IsFinal(e) \/ e \in El(Rest(pub2out, n))
        /\ \A i \in 1 .. n : pub2out[i] \in El(pub2out) /\ IsFinal(pub2out[i])
    BY <1>1, <2>1, RestFacts
  <2>3. \A c \in complete' : c \in complete \/ \E e \in Queued : c = Exchange(e.pid, e.msg) /\ IsFinal(e)
    BY <1>1, <2>1, <2>2 DEF Completes
  <2> QED  BY <1>1, <1>2, <1>4, <2>1, <2>2, <2>3
<1> QED  BY <1>3, <1>4 DEF Finishes

\* Only final entries leave, and those are confirmed.
LEMMA AckedKeeps == ASSUME IInv, ProcessAcked1 \/ ProcessAcked2 PROVE IInv'
<1>1. /\ proc # "retained" /\ proc' = "idle" /\ Finishes
      /\ UNCHANGED <<used, pc, cur, todo, rm, toClient, toBroker, left, holds, confirmed, online, reconnects, cut>>
  BY DEF ProcessAcked1, ProcessAcked2, wire, publishers, connection, Finishes
<1>2. /\ pub1ack' \in Seq(Entries) /\ pub2out' \in Seq(Entries)
      /\ El(pub1ack)' \subseteq El(pub1ack) /\ El(pub2out)' \subseteq El(pub2out)
      /\ Queued' \subseteq Queued /\ (\A e \in Queued : IsFinal(e) \/ e \in Queued')
      /\ \A c \in complete' : \/ c \in complete
                              \/ \E e \in Queued : c = Exchange(e.pid, e.msg) /\ IsFinal(e)
  BY <1>1, FinishFacts DEF IInv
<1>3. /\ Confused' = Confused /\ PublisherTypes'
      /\ \A k \in Publishers :
           (Before(k)' <=> Before(k)) /\ (After(k)' <=> After(k)) /\ (Numbered(k)' <=> Numbered(k))
      /\ \A i : Taken(i)' <=> Taken(i)
      /\ El(toClient)' = El(toClient) /\ El(toBroker)' = El(toBroker)
  <2>1. /\ \A i : Taken(i)' <=> Taken(i)
        /\ El(toClient)' = El(toClient) /\ El(toBroker)' = El(toBroker)
    BY <1>1 DEF Taken, El
  <2> QED  BY <1>1, <2>1, SameConfused, SamePublishers DEF IInv
<1>4. Types'
  <2>1. complete' \subseteq [pid : Pids, msg : Msgs]
    <3>1. \A e \in Queued : Exchange(e.pid, e.msg) \in [pid : Pids, msg : Msgs]
      BY Basics DEF IInv, Exchange
    <3>2. complete \subseteq [pid : Pids, msg : Msgs]
      BY DEF IInv, Types, TypeOK
    <3> QED  BY <1>2, <3>1, <3>2
  <2>2. TypeOK'
    BY <1>1, <1>2, <2>1 DEF IInv, Types, TypeOK
  <2> QED  BY <1>1, <1>3, <2>2 DEF IInv, Types
<1>5. AllTaken'
  <2>1. \A k \in Publishers : Numbered(k)' /\ Clear(cur[k].pid)' => Taken(cur[k].pid)'
    BY <1>1, <1>3 DEF IInv, AllTaken, Clear, Taken
  <2>2. \A z \in (El(toClient) \cup El(toBroker) \cup Queued \cup holds)' : Clear(z.pid)' => Taken(z.pid)'
    BY <1>1, <1>2, <1>3 DEF IInv, AllTaken, Clear
  <2> QED  BY <1>1, <2>1, <2>2 DEF AllTaken
<1>6. Alone'
  BY <1>1, <1>3 DEF IInv, Alone, Clear
<1>7. OneOnWire' /\ Unanswered'
  BY <1>1, <1>3 DEF IInv, OneOnWire, Unanswered, Clear
<1>8. Waiting'
  BY <1>1, <1>2, <1>3 DEF IInv, Waiting, Clear
<1>9. SentEntered'
  <2>1. \A e : e.state = "RESERVED" => ~ IsFinal(e)
    BY DEF IsFinal, FinalStates
  <2>2. \A z : Entered(z) => Entered(z)'
    BY <1>1, <1>2, <2>1 DEF Entered
  <2>3. \A k \in Publishers : After(k)' /\ Clear(cur[k].pid)' => \A z : z = cur'[k] => Entered(z)'
    BY <1>1, <1>3, <2>2 DEF IInv, SentEntered, Clear
  <2>4. \A x \in El(toClient)' : x.type = "PUBLISH" /\ Clear(x.pid)' => Entered(x)'
    BY <1>3, <2>2 DEF IInv, SentEntered, Clear
  <2> QED  BY <1>1, <2>3, <2>4 DEF SentEntered, Entered
<1>10. PubacksRight' /\ PubcompsRight' /\ FinalConfirmed'
  BY <1>1, <1>2, <1>3 DEF IInv, PubacksRight, PubcompsRight, FinalConfirmed, Clear, Settled
<1>11. PubrecsRight'
  BY <1>1, <1>2, <1>3 DEF IInv, PubrecsRight, Clear, Held, Settled
<1>12. CompletesRight'
  <2>1. \A e \in Queued : IsFinal(e) => LET c == Exchange(e.pid, e.msg) IN c \in confirmed \/ c.pid \in Confused
    BY DEF IInv, FinalConfirmed, Clear, Exchange, Settled
  <2> QED  BY <1>1, <1>2, <1>3, <2>1 DEF IInv, CompletesRight
<1>13. Offline'
  BY <1>1, <1>2, <1>3 DEF IInv, Offline, Clear
<1> QED  BY <1>13, <1>4, <1>5, <1>6, <1>7, <1>8, <1>9, <1>10, <1>11, <1>12 DEF IInv

-----------------------------------------------------------------------------
(* The client: what its three answers have in common *)

AnswersWith(t) ==
  /\ toClient # <<>> /\ Answers(Bare(t, Head(toClient).pid))
  /\ UNCHANGED <<used, pub1ack, pub2out, pc, cur, todo, proc, rm, left, complete, online, reconnects, cut>>
  /\ confirmed \subseteq confirmed' /\ confirmed' \subseteq [pid : Pids, msg : Msgs] /\ holds' \subseteq Publications
  /\ \A h \in holds' : h \in holds \/ h.pid = Head(toClient).pid

LEMMA AnswerFacts ==
  ASSUME IInv, NEW t \in {"PUBACK", "PUBREC", "PUBCOMP"}, AnswersWith(t)
  PROVE  LET p == Head(toClient).pid IN
         /\ Head(toClient) \in El(toClient) /\ p \in Pids
         /\ toClient' \in Seq(Packets) /\ El(toClient)' \subseteq El(toClient)
         /\ toBroker' \in Seq(Packets) /\ El(toBroker)' = El(toBroker) \cup {Bare(t, p)}
         /\ Bare(t, p).type = t /\ Bare(t, p).pid = p
         /\ OneOnWire' /\ \A x \in El(toClient)' : x.type = "PUBLISH" /\ Clear(x.pid) => x.pid # p
<1> DEFINE p == Head(toClient).pid
<1>1. toBroker \in Seq(Packets) /\ toClient \in Seq(Packets)
  BY Basics DEF IInv
<1>2. /\ Tail(toClient) \in Seq(Packets) /\ El(Tail(toClient)) \subseteq El(toClient)
      /\ Head(toClient) \in El(toClient) /\ 1 \in DOMAIN toClient /\ toClient[1] = Head(toClient)
      /\ \A i \in DOMAIN Tail(toClient) :
           i \in Nat /\ i + 1 \in DOMAIN toClient /\ i + 1 # 1 /\ Tail(toClient)[i] = toClient[i + 1]
  BY <1>1, ElTail DEF AnswersWith
<1>3. p \in Pids
  BY <1>2, Basics DEF IInv
<1>4. Bare(t, p) \in Packets /\ Bare(t, p).type = t /\ Bare(t, p).pid = p
  BY <1>3, Fields
<1>5. Append(toBroker, Bare(t, p)) \in Seq(Packets) /\ El(Append(toBroker, Bare(t, p))) = El(toBroker) \cup {Bare(t, p)}
  BY <1>1, <1>4, ElAppend
<1>6. El(toBroker)' = El(toBroker') /\ El(toClient)' = El(toClient')
  BY DEF El
<1>7. toClient' = Tail(toClient) /\ toBroker' = Append(toBroker, Bare(t, p)) /\ UNCHANGED cut
  BY DEF AnswersWith, Answers
<1>8. OneOnWire'
  <2>1. Confused' = Confused
    BY <1>7, SameConfused
  <2>2. ASSUME NEW i \in DOMAIN Tail(toClient), NEW j \in DOMAIN Tail(toClient), i # j
        PROVE  i + 1 \in DOMAIN toClient /\ j + 1 \in DOMAIN toClient /\ i + 1 # j + 1
    <3>1. \A a, b \in Nat : a # b => a + 1 # b + 1
      OBVIOUS
    <3> QED  BY <1>2, <2>2, <3>1
  <2>3. ASSUME NEW i \in DOMAIN Tail(toClient), NEW j \in DOMAIN Tail(toClient), i # j,
               Tail(toClient)[i].type = "PUBLISH", Tail(toClient)[i].pid = Tail(toClient)[j].pid
        PROVE  ~ Clear(Tail(toClient)[i].pid)
    <3>1. PICK a \in DOMAIN toClient, b \in DOMAIN toClient :
            a # b /\ Tail(toClient)[i] = toClient[a] /\ Tail(toClient)[j] = toClient[b]
      BY <1>2, <2>2, <2>3
    <3> QED  BY <2>3, <3>1 DEF IInv, OneOnWire
  <2> QED  BY <1>7, <2>1, <2>3 DEF OneOnWire, Clear
<1>9. ASSUME NEW x \in El(Tail(toClient)), x.type = "PUBLISH", Clear(x.pid)
      PROVE  x.pid # p
  <2>1. PICK i \in DOMAIN Tail(toClient) : x = Tail(toClient)[i]
    BY DEF El
  <2>2. PICK a \in DOMAIN toClient : a # 1 /\ x = toClient[a]
    BY <1>2, <2>1
  <2> QED  BY <1>2, <1>9, <2>2 DEF IInv, OneOnWire
<1> QED  BY <1>2, <1>3, <1>4, <1>5, <1>6, <1>7, <1>8, <1>9

\* An answer disturbs nothing but what is said of the acknowledgements.
LEMMA AnswerKeeps ==
  ASSUME IInv, NEW t \in {"PUBACK", "PUBREC", "PUBCOMP"}, AnswersWith(t)
  PROVE  /\ Types' /\ AllTaken' /\ Alone' /\ OneOnWire' /\ Unanswered' /\ Waiting' /\ SentEntered'
         /\ FinalConfirmed' /\ CompletesRight' /\ Offline'
<1> DEFINE p == Head(toClient).pid
           b == Bare(t, p)
<1>1. /\ Head(toClient) \in El(toClient) /\ p \in Pids
      /\ toClient' \in Seq(Packets) /\ El(toClient)' \subseteq El(toClient)
      /\ toBroker' \in Seq(Packets) /\ El(toBroker)' = El(toBroker) \cup {b}
      /\ b.type = t /\ b.pid = p
      /\ OneOnWire' /\ \A x \in El(toClient)' : x.type = "PUBLISH" /\ Clear(x.pid) => x.pid # p
  BY AnswerFacts
<1>2. /\ UNCHANGED <<used, pub1ack, pub2out, pc, cur, todo, proc, rm, left, complete, online, reconnects, cut>>
      /\ confirmed \subseteq confirmed' /\ confirmed' \subseteq [pid : Pids, msg : Msgs] /\ holds' \subseteq Publications
      /\ \A h \in holds' : h \in holds \/ h.pid = p
  BY DEF AnswersWith
<1> HIDE DEF b
<1>3. /\ Confused' = Confused /\ PublisherTypes'
      /\ \A k \in Publishers :
           (Before(k)' <=> Before(k)) /\ (After(k)' <=> After(k)) /\ (Numbered(k)' <=> Numbered(k))
      /\ \A i : Taken(i)' <=> Taken(i)
      /\ Queued' = Queued
  <2>1. (\A i : Taken(i)' <=> Taken(i)) /\ Queued' = Queued
    BY <1>2 DEF Taken, Queued
  <2> QED  BY <1>2, <2>1, SameConfused, SamePublishers DEF IInv
<1>4. Types'
  <2>1. TypeOK'
    BY <1>2 DEF IInv, Types, TypeOK
  <2>2. \A y \in El(toBroker)' : y.type \in AckTypes /\ y.pid \in Pids
    BY <1>1, OutflowAssumption DEF IInv, Types
  <2>3. \A x \in El(toClient)' : x \in Publications \/ (x.type = "PUBREL" /\ x.pid \in Pids)
    BY <1>1 DEF IInv, Types
  <2> QED  BY <1>1, <1>2, <1>3, <2>1, <2>2, <2>3 DEF IInv, Types
<1>5. AllTaken'
  <2>1. \A k \in Publishers : Numbered(k)' /\ Clear(cur[k].pid)' => Taken(cur[k].pid)'
    BY <1>2, <1>3 DEF IInv, AllTaken, Clear, Taken
  <2>2. proc' = "retained" /\ Clear(rm.pid)' => Taken(rm.pid)'
    BY <1>2, <1>3 DEF IInv, AllTaken, Clear, Taken
  <2>3. \A z \in El(toBroker) \cup El(toClient) \cup Queued \cup holds : Clear(z.pid) => Taken(z.pid)
    BY DEF IInv, AllTaken
  <2>4. \A z \in El(toBroker)' \cup El(toClient)' \cup Queued' \cup holds' :
          \E u \in El(toBroker) \cup El(toClient) \cup Queued \cup holds : z.pid = u.pid
    BY <1>1, <1>2, <1>3
  <2>5. \A z \in (El(toClient) \cup El(toBroker) \cup Queued \cup holds)' : Clear(z.pid)' => Taken(z.pid)'
    BY <1>3, <2>3, <2>4 DEF Clear
  <2> QED  BY <2>1, <2>2, <2>5 DEF AllTaken
<1>6. Alone'
  BY <1>1, <1>2, <1>3 DEF IInv, Alone, Clear
<1>7. Unanswered'
  BY <1>1, <1>3 DEF IInv, Unanswered, Clear
<1>8. /\ \A k \in Publishers : Numbered(k) /\ Clear(cur[k].pid) => cur[k].pid # p
      /\ proc = "retained" /\ Clear(rm.pid) => rm.pid # p
  BY <1>1 DEF IInv, Alone
<1>9. Waiting'
  BY <1>2, <1>3, <1>8 DEF IInv, Waiting, Clear, Numbered
<1>10. SentEntered'
  <2>1. \A z : z.pid # p /\ Entered(z) => Entered(z)'
    BY <1>2, <1>3 DEF Entered
  <2>2. \A k \in Publishers : After(k)' /\ Clear(cur[k].pid)' => \A z : z = cur'[k] => Entered(z)'
    BY <1>2, <1>3, <1>8, <2>1 DEF IInv, SentEntered, Clear, Numbered
  <2>3. proc' = "retained" /\ Clear(rm.pid)' => \A z : z = rm' => Entered(z)'
    BY <1>2, <1>3, <1>8, <2>1 DEF IInv, SentEntered, Clear
  <2>4. \A x \in El(toClient)' : x.type = "PUBLISH" /\ Clear(x.pid)' => Entered(x)'
    BY <1>1, <1>3, <2>1 DEF IInv, SentEntered, Clear
  <2> QED  BY <2>2, <2>3, <2>4 DEF SentEntered, Entered
<1>11. FinalConfirmed' /\ CompletesRight'
  BY <1>2, <1>3 DEF IInv, FinalConfirmed, CompletesRight, Clear, Settled
<1>12. Offline'
  BY <1>1, <1>2 DEF IInv, Offline, El
<1> QED  BY <1>12, <1>1, <1>4, <1>5, <1>6, <1>7, <1>9, <1>10, <1>11

\* PUBACK: the message under this identifier is the one the client received.
LEMMA ClientTakes1Keeps == ASSUME IInv, ClientTakes1 PROVE IInv'
<1> DEFINE x == Head(toClient)
           b == Bare("PUBACK", x.pid)
<1>1. /\ toClient # <<>> /\ x.type = "PUBLISH" /\ Answers(b)
      /\ confirmed' = confirmed \cup {Exchange(x.pid, x.msg)} /\ UNCHANGED <<holds, pub1ack, pub2out, cut>>
      /\ UNCHANGED <<used, pub1ack, pub2out, pc, cur, todo, proc, rm, left, complete, online, reconnects, cut>>
  BY DEF ClientTakes1, queues, publishers, connection
<1>2. x \in El(toClient)
  BY <1>1, Basics, ElTail DEF IInv
<1>3. Exchange(x.pid, x.msg) \in [pid : Pids, msg : Msgs]
  BY <1>1, <1>2, Basics, Fields DEF IInv, Exchange
<1>4. AnswersWith("PUBACK")
  <2>1. confirmed' \subseteq [pid : Pids, msg : Msgs] /\ holds' \subseteq Publications
    BY <1>1, <1>3 DEF IInv, Types, TypeOK
  <2> QED  BY <1>1, <2>1 DEF AnswersWith
<1>5. /\ Types' /\ AllTaken' /\ Alone' /\ OneOnWire' /\ Unanswered' /\ Waiting' /\ SentEntered'
      /\ FinalConfirmed' /\ CompletesRight' /\ Offline'
  BY <1>4, AnswerKeeps
<1>6. /\ El(toClient)' \subseteq El(toClient) /\ El(toBroker)' = El(toBroker) \cup {b}
      /\ b.type = "PUBACK" /\ b.pid = x.pid
  BY <1>4, AnswerFacts
<1>7. Confused' = Confused /\ El(pub1ack)' = El(pub1ack) /\ El(pub2out)' = El(pub2out)
  BY <1>1, SameConfused DEF El
<1>8. \A e \in El(pub1ack) : e.pid = x.pid /\ Clear(e.pid) => e.msg = x.msg
  BY <1>1, <1>2, Basics DEF IInv, SentEntered, Entered
<1> HIDE DEF b, x
<1>9. PubacksRight'
  BY <1>1, <1>6, <1>7, <1>8 DEF IInv, PubacksRight, Clear, Settled
<1>10. PubrecsRight' /\ PubcompsRight'
  BY <1>1, <1>6, <1>7 DEF IInv, PubrecsRight, PubcompsRight, Clear, Held, Settled
<1> QED  BY <1>5, <1>9, <1>10 DEF IInv

\* PUBREC: the client holds nothing else under this identifier.
LEMMA ClientTakes2Keeps == ASSUME IInv, ClientTakes2 PROVE IInv'
<1> DEFINE x == Head(toClient)
           b == Bare("PUBREC", x.pid)
<1>1. /\ toClient # <<>> /\ x.type = "PUBLISH" /\ Answers(b)
      /\ holds' = IF \E h \in holds : h.pid = x.pid THEN holds ELSE holds \cup {x}
      /\ UNCHANGED <<used, pub1ack, pub2out, pc, cur, todo, proc, rm, left, confirmed, complete, online, reconnects, cut>>
  BY DEF ClientTakes2, queues, publishers, connection
<1>2. x \in El(toClient)
  BY <1>1, Basics, ElTail DEF IInv
<1>3. x \in Publications
  BY <1>1, <1>2, Basics DEF IInv
<1>4. AnswersWith("PUBREC")
  <2>1. confirmed' \subseteq [pid : Pids, msg : Msgs] /\ holds' \subseteq Publications
    BY <1>1, <1>3 DEF IInv, Types, TypeOK
  <2>2. \A h \in holds' : h \in holds \/ h.pid = x.pid
    BY <1>1
  <2> QED  BY <1>1, <2>1, <2>2 DEF AnswersWith
<1>5. /\ Types' /\ AllTaken' /\ Alone' /\ OneOnWire' /\ Unanswered' /\ Waiting' /\ SentEntered'
      /\ FinalConfirmed' /\ CompletesRight' /\ Offline'
  BY <1>4, AnswerKeeps
<1>6. /\ El(toClient)' \subseteq El(toClient) /\ El(toBroker)' = El(toBroker) \cup {b}
      /\ b.type = "PUBREC" /\ b.pid = x.pid
  BY <1>4, AnswerFacts
<1>7. Confused' = Confused /\ El(pub1ack)' = El(pub1ack) /\ El(pub2out)' = El(pub2out)
  BY <1>1, SameConfused DEF El
<1>8. \A e \in El(pub2out) : e.pid = x.pid /\ Clear(e.pid) => e.msg = x.msg /\ \A h \in holds : h.pid # x.pid
  BY <1>1, <1>2, Basics DEF IInv, SentEntered, Entered
<1> HIDE DEF b, x
<1>9. PubacksRight' /\ PubcompsRight'
  BY <1>1, <1>6, <1>7 DEF IInv, PubacksRight, PubcompsRight, Clear, Settled
<1>10. PubrecsRight'
  <2>1. holds \subseteq holds'
    BY <1>1
  <2>2. \A e \in El(pub2out) : Held(e) => Held(e)'
    BY <2>1 DEF Held
  <2>3. \A e \in El(pub2out) : e.pid = x.pid /\ Clear(e.pid) => Held(e)'
    BY <1>1, <1>8 DEF Held
  <2> QED  BY <1>1, <1>6, <1>7, <2>2, <2>3 DEF IInv, PubrecsRight, Clear, Settled
<1> QED  BY <1>5, <1>9, <1>10 DEF IInv

\* PUBCOMP: the client has released the message of the entry.
LEMMA ClientReleasesKeeps == ASSUME IInv, ClientReleases PROVE IInv'
<1> DEFINE x == Head(toClient)
           b == Bare("PUBCOMP", x.pid)
           freed == {h \in holds : h.pid = x.pid}
<1>1. /\ toClient # <<>> /\ x.type = "PUBREL" /\ Answers(b)
      /\ holds' = holds \ freed /\ confirmed' = confirmed \cup {Exchange(h.pid, h.msg) : h \in freed}
      /\ UNCHANGED <<used, pub1ack, pub2out, pc, cur, todo, proc, rm, left, complete, online, reconnects, cut>>
  BY DEF ClientReleases, queues, publishers, connection
<1>2. x \in El(toClient)
  BY <1>1, Basics, ElTail DEF IInv
<1>3. AnswersWith("PUBCOMP")
  <2>1. \A h \in holds : Exchange(h.pid, h.msg) \in [pid : Pids, msg : Msgs] /\ h \in Publications
    BY Fields DEF IInv, Types, Exchange
  <2>2. confirmed' \subseteq [pid : Pids, msg : Msgs] /\ holds' \subseteq Publications
    BY <1>1, <2>1 DEF IInv, Types, TypeOK
  <2>3. confirmed \subseteq confirmed' /\ holds' \subseteq holds
    BY <1>1
  <2> QED  BY <1>1, <2>2, <2>3 DEF AnswersWith
<1>4. /\ Types' /\ AllTaken' /\ Alone' /\ OneOnWire' /\ Unanswered' /\ Waiting' /\ SentEntered'
      /\ FinalConfirmed' /\ CompletesRight' /\ Offline'
  BY <1>3, AnswerKeeps
<1>5. /\ El(toClient)' \subseteq El(toClient) /\ El(toBroker)' = El(toBroker) \cup {b}
      /\ b.type = "PUBCOMP" /\ b.pid = x.pid
  BY <1>3, AnswerFacts
<1>6. Confused' = Confused /\ El(pub1ack)' = El(pub1ack) /\ El(pub2out)' = El(pub2out)
  BY <1>1, SameConfused DEF El
<1> HIDE DEF b, x
<1>7. \A e \in El(pub2out) : Held(e) => Settled(e)' \/ (Held(e)' /\ e.pid # x.pid)
  BY <1>1 DEF Held, Settled
<1>8. \A e \in El(pub2out) : e.pid = x.pid /\ Clear(e.pid) => Settled(e) \/ Held(e)
  BY <1>1, <1>2 DEF IInv, PubrecsRight
<1>9. confirmed \subseteq confirmed'
  BY <1>1
<1>10. PubacksRight'
  BY <1>5, <1>6, <1>9 DEF IInv, PubacksRight, Clear, Settled
<1>11. \A e : Settled(e) => Settled(e)'
  BY <1>9 DEF Settled
<1>12. PubrecsRight'
  BY <1>5, <1>6, <1>7, <1>11 DEF IInv, PubrecsRight, Clear
<1>13. PubcompsRight'
  BY <1>5, <1>6, <1>7, <1>8, <1>11 DEF IInv, PubcompsRight, Clear
<1> QED  BY <1>4, <1>10, <1>12, <1>13 DEF IInv

-----------------------------------------------------------------------------
(* The connection, and all the steps *)

\* What is queued or held at a disconnect is confused from then on, and no
\* publisher writes to anybody.
LEMMA DisconnectKeeps == ASSUME IInv, Disconnect PROVE IInv'
<1>1. /\ online' = FALSE /\ toClient' = <<>>
      /\ cut' = cut \cup {e.pid : e \in Queued} \cup {h.pid : h \in holds}
      /\ UNCHANGED <<used, pub1ack, pub2out, pc, cur, todo, proc, rm, left, holds, confirmed, complete, reconnects>>
  BY DEF Disconnect, queues, client, publishers
<1>2. toBroker' \in Seq(Packets) /\ El(toBroker)' \subseteq El(toBroker)
  <2>1. PICK n \in 0 .. Len(toBroker) : toBroker' = SubSeq(toBroker, 1, n)
    BY DEF Disconnect
  <2>2. toBroker \in Seq(Packets) /\ Len(toBroker) \in Nat /\ DOMAIN toBroker = 1 .. Len(toBroker)
    BY Basics DEF IInv
  <2>3. \A i \in 1 .. n : i \in 1 .. Len(toBroker) /\ toBroker[i] \in Packets
    BY <2>2
  <2>4. toBroker' = [i \in 1 .. n |-> toBroker[i]]
    BY <2>1, <2>2
  <2>5. toBroker' \in [1 .. n -> Packets] /\ n \in Nat
    BY <2>2, <2>3, <2>4
  <2>6. toBroker' \in Seq(Packets)
    BY <2>5, SeqDef
  <2>7. El(toBroker') \subseteq El(toBroker)
    BY <2>2, <2>3, <2>4 DEF El
  <2> QED  BY <2>6, <2>7 DEF El
<1>3. Queued' = Queued /\ Confused \subseteq Confused' /\ (\A k : ~ Before(k)' /\ ~ After(k)' /\ ~ Numbered(k)')
  BY <1>1 DEF Queued, Confused, Shared, Numbered, Before, After, Live
<1>4. \A z \in Queued \cup holds : z.pid \in Confused'
  BY <1>1 DEF Confused
<1>5. /\ El(toClient)' = {} /\ DOMAIN toClient' = {} /\ toClient' \in Seq(Packets)
      /\ El(pub1ack)' = El(pub1ack) /\ El(pub2out)' = El(pub2out)
  BY <1>1 DEF El
<1>6. PublisherTypes'
  BY <1>1 DEF IInv, Types, PublisherTypes
<1>7. Types'
  <2>1. cut' \subseteq Pids
    BY <1>1, Basics DEF IInv, Types, TypeOK
  <2>2. TypeOK'
    BY <1>1, <2>1 DEF IInv, Types, TypeOK
  <2> QED  BY <1>1, <1>2, <1>5, <1>6, <2>2 DEF IInv, Types
<1>8. AllTaken'
  <2>1. \A i : Taken(i) => Taken(i)'
    BY <1>1, SameTaken
  <2>2. \A z \in El(toBroker) : z.pid \notin Confused => Taken(z.pid)
    BY DEF IInv, AllTaken, Clear
  <2>3. \A z \in El(toBroker)' : Clear(z.pid)' => Taken(z.pid)'
    BY <1>2, <1>3, <2>1, <2>2 DEF Clear
  <2>4. \A z \in (El(toClient) \cup El(toBroker) \cup Queued \cup holds)' : Clear(z.pid)' => Taken(z.pid)'
    BY <1>1, <1>3, <1>4, <1>5, <2>3 DEF Clear
  <2>5. proc' = "retained" /\ rm'.pid \notin Confused' => Taken(rm.pid)
    BY <1>1, <1>3 DEF IInv, AllTaken, Clear
  <2>6. proc' = "retained" /\ Clear(rm.pid)' => Taken(rm.pid)'
    BY <1>1, <2>1, <2>5 DEF Clear, Taken
  <2> QED  BY <1>3, <2>4, <2>6 DEF AllTaken
<1>9. OneOnWire' /\ Offline'
  BY <1>1, <1>3, <1>4, <1>5 DEF OneOnWire, Offline, Clear
<1> QED  BY <1>1, <1>2, <1>3, <1>5, <1>7, <1>8, <1>9, Weakens

\* All that the disconnected session has is confused already, and the new
\* service is in nobody's list yet.
LEMMA ReconnectKeeps == ASSUME IInv, Reconnect PROVE IInv'
<1>1. /\ ~ online /\ reconnects < MaxReconnects /\ proc = "idle" /\ reconnects' = reconnects + 1
      /\ online' = TRUE /\ used' = [used EXCEPT ![reconnects + 1] = 0]
      /\ toBroker' = <<>> /\ holds' \in {holds, {}}
      /\ UNCHANGED <<pub1ack, pub2out, pc, cur, todo, proc, rm, toClient, left, confirmed, complete, cut>>
  BY DEF Reconnect, queues, publishers
<1>2. Queued' = Queued /\ Confused' = Confused /\ toClient = <<>>
      /\ \A z \in Queued \cup holds : z.pid \in Confused
  BY <1>1, SameConfused DEF IInv, Offline, Clear, Queued
<1>3. /\ reconnects \in Nat /\ reconnects' \in 0 .. MaxReconnects
      /\ \A i \in 0 .. reconnects : i \in 0 .. reconnects' /\ i # reconnects'
  BY <1>1, OutflowAssumption DEF IInv, Types, TypeOK
<1>4. \A k \in Publishers : todo[k] \in Seq(0 .. reconnects) /\ (pc[k] = "idle" \/ todo[k] # <<>>)
  BY DEF IInv, Types, TypeOK, PublisherTypes
<1>5. \A k \in Publishers : ~ Before(k)' /\ ~ After(k)' /\ ~ Numbered(k)'
  <2>1. ASSUME NEW k \in Publishers, pc[k] # "idle" PROVE Head(todo[k]) # reconnects'
    <3>1. Head(todo[k]) \in El(todo[k])
      BY <1>4, <2>1, ElTail
    <3>2. \A z \in El(todo[k]) : z \in 0 .. reconnects
      BY <1>4, ElTyped
    <3> QED  BY <1>3, <3>1, <3>2
  <2> QED  BY <1>1, <2>1 DEF Before, After, Numbered, Live, Service
<1>6. /\ El(toClient)' = {} /\ El(toBroker)' = {} /\ DOMAIN toClient' = {} /\ DOMAIN toBroker' = {}
      /\ toClient' \in Seq(Packets) /\ toBroker' \in Seq(Packets)
      /\ El(pub1ack)' = El(pub1ack) /\ El(pub2out)' = El(pub2out)
  BY <1>1, <1>2 DEF El
<1>7. todo' \in [Publishers -> Seq(0 .. reconnects')]
  <2>1. \A k \in Publishers : todo[k] \in Seq(0 .. reconnects')
    <3>1. ASSUME NEW k \in Publishers PROVE todo[k] \in Seq(0 .. reconnects')
      <4>1. Len(todo[k]) \in Nat /\ todo[k] \in [1 .. Len(todo[k]) -> 0 .. reconnects]
        BY <1>4, LenProperties
      <4> DEFINE s == todo[k]
      <4>2. s \in [1 .. Len(s) -> 0 .. reconnects]
        BY <4>1
      <4>3. \A i \in 0 .. reconnects : i \in 0 .. reconnects'
        BY <1>3
      <4> HIDE DEF s
      <4>4. s \in [1 .. Len(s) -> 0 .. reconnects']
        BY <4>2, <4>3, ZenonT(60)
      <4> QED  BY <4>1, <4>4, SeqDef DEF s
    <3> QED  BY <3>1
  <2>2. todo \in [Publishers -> Seq(0 .. reconnects)]
    BY DEF IInv, Types, TypeOK
  <2> QED  BY <1>1, <2>1, <2>2
<1>8. used' \in [Services -> 0 .. Limit]
  <2>1. used \in [Services -> 0 .. Limit] /\ 0 \in 0 .. Limit
    BY OutflowAssumption DEF IInv, Types, TypeOK
  <2> QED  BY <1>1, <2>1
<1>9. Types'
  <2>1. TypeOK'
    BY <1>1, <1>3, <1>7, <1>8 DEF IInv, Types, TypeOK
  <2>2. PublisherTypes'
    BY <1>1 DEF IInv, Types, PublisherTypes
  <2> QED  BY <1>1, <1>6, <2>1, <2>2 DEF IInv, Types
<1>10. AllTaken' /\ OneOnWire' /\ Offline'
  BY <1>1, <1>2, <1>5, <1>6 DEF AllTaken, OneOnWire, Offline, Clear
<1>11. /\ El(toClient)' \subseteq El(toClient) /\ El(toBroker)' \subseteq El(toBroker)
       /\ proc' # "retained" /\ holds' \subseteq holds /\ \A h \in holds : h.pid \notin Confused' => h \in holds'
  BY <1>1, <1>2, <1>6
<1> QED  BY <1>1, <1>2, <1>5, <1>6, <1>9, <1>10, <1>11, Weakens

LEMMA InitInv == Init => IInv
<1> SUFFICES ASSUME Init PROVE IInv
  OBVIOUS
<1>1. /\ El(toClient) = {} /\ El(toBroker) = {} /\ DOMAIN toClient = {}
      /\ El(pub1ack) = {} /\ El(pub2out) = {} /\ Queued = {}
  BY DEF Init, El, Queued
<1>2. \A k \in Publishers : pc[k] = "idle" /\ ~ Numbered(k) /\ ~ Before(k) /\ ~ After(k)
  BY DEF Init, Numbered, Before, After
<1>3. Types
  <2>1. TypeOK
    BY OutflowAssumption DEF Init, TypeOK
  <2>2. PublisherTypes
    BY <1>2, Fields DEF Init, PublisherTypes
  <2>3. toClient \in Seq(Packets) /\ toBroker \in Seq(Packets)
    BY DEF Init
  <2> QED  BY <1>1, <2>1, <2>2, <2>3 DEF Init, Types
<1>4. AllTaken /\ Alone /\ OneOnWire /\ Unanswered /\ Waiting /\ SentEntered /\ Offline
  BY <1>1, <1>2 DEF Init, AllTaken, Alone, OneOnWire, Unanswered, Waiting, SentEntered, Offline
<1>5. PubacksRight /\ PubrecsRight /\ PubcompsRight /\ FinalConfirmed /\ CompletesRight
  BY <1>1 DEF Init, PubacksRight, PubrecsRight, PubcompsRight, FinalConfirmed, CompletesRight
<1> QED  BY <1>3, <1>4, <1>5 DEF IInv

LEMMA StutterKeeps == ASSUME IInv, UNCHANGED vars PROVE IInv'
<1>1. /\ Quiet /\ left' \subseteq left
      /\ UNCHANGED <<used, pc, cur, todo, online, reconnects>>
  BY DEF vars, publishers, client, connection, Quiet
<1>2. /\ PublisherTypes'
      /\ \A k \in Publishers : (Before(k)' <=> Before(k)) /\ (After(k)' <=> After(k))
  BY <1>1, SamePublishers DEF IInv
<1>3. Types'
  BY <1>1, <1>2, QuietTypes DEF IInv, Types, TypeOK
<1> QED  BY <1>1, <1>2, <1>3, QuietKeeps

LEMMA NextInv == IInv /\ [Next]_vars => IInv'
<1> SUFFICES ASSUME IInv, [Next]_vars PROVE IInv'
  OBVIOUS
<1>1. ASSUME NEW p \in Publishers, Publisher(p) PROVE IInv'
  BY <1>1, PollKeeps, WaitAckKeeps, UnencodableKeeps, WriteMessageKeeps DEF Publisher
<1>2. ASSUME NEW p \in Publishers, NEW m \in Msgs \ DOMAIN RetainedPid, NEW subs \in Subscriptions,
             OnPublish(p, m, subs)
      PROVE  IInv'
  BY <1>2, OnPublishKeeps
<1>3. ASSUME NEW m \in Msgs, Refused(m) PROVE IInv'
  BY <1>3, RefusedKeeps
<1>4. ASSUME NEW m \in DOMAIN RetainedPid, NEW q \in Qoses, PublishRetained(m, q) PROVE IInv'
  BY <1>4, RetainedKeeps
<1>5. ASSUME Processor PROVE IInv'
  BY <1>5, AckHandlersKeep, AckedKeeps, WriteRetainedKeeps DEF Processor
<1>6. ASSUME Client PROVE IInv'
  BY <1>6, ClientTakes1Keeps, ClientTakes2Keeps, ClientReleasesKeeps DEF Client
<1> QED  BY <1>1, <1>2, <1>3, <1>4, <1>5, <1>6, DisconnectKeeps, ReconnectKeeps, StutterKeeps DEF Next

LEMMA Invariance == Spec => []IInv
BY InitInv, NextInv, PTL DEF Spec

\* A message on its way to the client has its own entry in a queue, because
\* publish calls Wait before writeMessage; only an identifier that retained
\* messages share, that a disconnect cut off or that a stopped service queued
\* an entry under can spoil it.
THEOREM AcknowledgementsFindEntries == Spec => []InFlightTracked
<1>1. IInv => InFlightTracked
  <2> SUFFICES ASSUME IInv PROVE InFlightTracked
    OBVIOUS
  <2>1. \A i \in DOMAIN toClient : toClient[i] \in El(toClient)
    BY DEF El
  <2>2. Tracked
    BY <2>1 DEF IInv, SentEntered, Entered, Clear, Tracked
  <2> QED  BY <2>2 DEF IInv, Types, InFlightTracked
<1> QED  BY <1>1, Invariance, PTL

\* processAcked finishes an exchange only when the client has sent the last
\* acknowledgement for that message under that identifier, with the same
\* exception.
THEOREM CompletesOnlyConfirmed == Spec => []CompletesRight
<1>1. IInv => CompletesRight
  BY DEF IInv
<1> QED  BY <1>1, Invariance, PTL
=============================================================================
