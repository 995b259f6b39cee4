------------------------------ MODULE Outflow -------------------------------
(***************************************************************************)
(* Outgoing publishes of one session, QoS 1 and 2.  The publishers'        *)
(* processors call the subscriber's onPub (service.go): quota, packet      *)
(* identifier, acknowledgement queue (Wait), outgoing buffer              *)
(* (writeMessage), each a step of its own.  The subscriber's processor     *)
(* handles the acknowledgements (process.go).  The client is external.     *)
(*                                                                         *)
(* Whether the quota is granted is left open here (SendQuota models it).   *)
(* The queues belong to the session and outlive the connection; an         *)
(* identifier limiter belongs to the service of one connection.  Nobody    *)
(* calls its Release, so it counts up to the Receive Maximum.              *)
(*                                                                         *)
(* stop leaves the service of a session that is kept in the topic tree, so *)
(* every later publish calls its onPub as well: it takes an identifier of  *)
(* the old limiter and queues an entry in the session, which it then       *)
(* cannot write.                                                           *)
(***************************************************************************)
EXTENDS AckOps, FiniteSets

CONSTANTS Publishers,
          Limit,         \* the client's Receive Maximum
          Qoses,         \* QoS levels of the publishes, of {1, 2}
          RetainedPid,   \* the identifier each retained message carries
          MaxReconnects, \* bound: how often the client reconnects
          MaxCalls       \* bound: calls of onPub for one publish

ASSUME OutflowAssumption ==
  /\ Limit \in Nat /\ Qoses \subseteq {1, 2} /\ MaxReconnects \in Nat /\ MaxCalls \in Nat
  /\ DOMAIN RetainedPid \subseteq Msgs /\ \A m \in DOMAIN RetainedPid : RetainedPid[m] \in Pids
  /\ 1 .. Limit \subseteq Pids
  /\ WaitTypes = {"PUBLISH"} /\ AckTypes = {"PUBACK", "PUBREC", "PUBCOMP"}  \* what the two queues are used for

\* The services of the session, one for each connection.
Services == 0 .. MaxReconnects

VARIABLES used,      \* pkIDLimiter.used of each service
          pub1ack, pub2out,
          pc, cur,   \* each publisher: where it is in onPub, and its message
          todo,      \* the services whose onPub it calls, this one first
          proc,      \* the subscriber's processor: idle, in processAcked or
                     \* about to write a retained message
          rm,        \* that retained message
          toClient, toBroker,
          left,      \* messages not yet published
          confirmed, \* exchanges for which the client has sent the last ack
          holds,     \* client: QoS 2 messages received and not released
          complete,  \* history: the exchanges the broker has finished
          online, reconnects, \* the connection: service number reconnects
          cut        \* history: identifiers of the exchanges that a disconnect
                     \* cut off and of those that a stopped service queued

queues == <<pub1ack, pub2out>>
wire == <<toClient, toBroker>>
client == <<left, holds, confirmed, complete>>
connection == <<online, reconnects>>
publishers == <<pc, cur, todo>>
vars == <<used, queues, publishers, proc, rm, wire, client, connection, cut>>

Packet(t, p, m, q) == [type |-> t, pid |-> p, msg |-> m, qos |-> q]
Bare(t, p) == Packet(t, p, 0, 0)
NoPacket == Packet("NONE", 0, 0, 0)
Exchange(p, m) == [pid |-> p, msg |-> m]

Init ==
  /\ used = [s \in Services |-> 0] /\ pub1ack = <<>> /\ pub2out = <<>>
  /\ pc = [p \in Publishers |-> "idle"] /\ cur = [p \in Publishers |-> NoPacket]
  /\ todo = [p \in Publishers |-> <<>>]
  /\ proc = "idle" /\ rm = NoPacket /\ toClient = <<>> /\ toBroker = <<>>
  /\ left = Msgs /\ holds = {} /\ confirmed = {} /\ complete = {}
  /\ online = TRUE /\ reconnects = 0 /\ cut = {}

\* The unfinished exchanges.
Queued == {pub1ack[i] : i \in DOMAIN pub1ack} \cup {pub2out[i] : i \in DOMAIN pub2out}

-----------------------------------------------------------------------------
(* lookSend and onPub, run by a publisher *)

Goto(p, s) == pc' = [pc EXCEPT ![p] = s]

\* The service whose onPub p is in, and whether it is the one of a connection.
Service(p) == Head(todo[p])
Live(p) == online /\ Service(p) = reconnects

\* lookSend calls the onPub of every subscription: of the services there are,
\* stopped ones too, in the order of the tree.  Those that refuse the message
\* (size, quota, NoLocal) are left out.
Subscriptions == UNION {[1 .. n -> 0 .. reconnects] : n \in 1 .. MaxCalls}

OnPublish(p, m, subs) ==
  /\ pc[p] = "idle" /\ m \in left
  /\ left' = left \ {m}
  /\ cur' = [cur EXCEPT ![p] = Packet("PUBLISH", 0, m, 0)]
  /\ todo' = [todo EXCEPT ![p] = subs]
  /\ Goto(p, "poll")
  /\ UNCHANGED <<used, queues, proc, rm, wire, holds, confirmed, complete, connection, cut>>

\* Nobody takes the message.
Refused(m) ==
  /\ m \in left /\ left' = left \ {m}
  /\ UNCHANGED <<used, queues, publishers, proc, rm, wire, holds, confirmed, complete, connection, cut>>

\* pkIDLimiter.PollPacketID(): blocks while Limit identifiers are in use.  The
\* message has the QoS of the subscription.
PollPacketID(p, q) ==
  /\ pc[p] = "poll" /\ used[Service(p)] < Limit
  /\ used' = [used EXCEPT ![Service(p)] = @ + 1]
  /\ cur' = [cur EXCEPT ![p] = Packet("PUBLISH", used[Service(p)] + 1, cur[p].msg, q)]
  /\ Goto(p, "wait")
  /\ UNCHANGED <<queues, todo, proc, rm, wire, client, connection, cut>>

\* Faulty variant: the message is written before Wait has queued it.
WriteFirst(p) ==
  /\ pc[p] = "wait"
  /\ toClient' = IF Live(p) THEN Append(toClient, cur[p]) ELSE toClient
  /\ Goto(p, "write")
  /\ UNCHANGED <<used, queues, cur, todo, proc, rm, toBroker, client, connection, cut>>

\* Wait on the queue of the QoS level.
EntryOf(x) == NewEntry("PUBLISH", x.pid, x.msg)
Enter(x, live) ==
  /\ IF x.qos = 1
       THEN pub1ack' = Inserted(pub1ack, EntryOf(x)) /\ UNCHANGED pub2out
       ELSE pub2out' = Inserted(pub2out, EntryOf(x)) /\ UNCHANGED pub1ack
  /\ cut' = IF live THEN cut ELSE cut \cup {x.pid}

\* publish: Wait ...
WaitAck(p) ==
  /\ pc[p] = "wait"
  /\ Enter(cur[p], Live(p))
  /\ Goto(p, "write")
  /\ UNCHANGED <<used, cur, todo, proc, rm, wire, client, connection>>

\* onPub returns (its error is dropped) and lookSend calls the next one, ...
Returns(p) ==
  LET rest == Tail(todo[p])
  IN /\ todo' = [todo EXCEPT ![p] = rest]
     /\ Goto(p, IF rest = <<>> THEN "idle" ELSE "poll")
     /\ cur' = [cur EXCEPT ![p] = IF rest = <<>> THEN NoPacket ELSE Packet("PUBLISH", 0, cur[p].msg, 0)]

\* ... or, when stop has set gCore to nil, it panics: the processor of the
\* publisher ends and calls nobody else.
Panics(p) ==
  /\ ~ Live(p)
  /\ todo' = [todo EXCEPT ![p] = <<>>]
  /\ Goto(p, "idle") /\ cur' = [cur EXCEPT ![p] = NoPacket]

\* Encode rejects the message (a PUBLISH without payload): insert does not
\* queue it, writeMessage does not write it, and Wait and publish drop both
\* errors.
Unencodable(p) ==
  /\ pc[p] = "wait"
  /\ Returns(p) \/ Panics(p)
  /\ UNCHANGED <<used, queues, proc, rm, wire, client, connection, cut>>

\* ... then writeMessage, which serialises the publishers; a stopped service
\* writes to nobody.
WriteMessage(p) ==
  /\ pc[p] = "write"
  /\ toClient' = IF Live(p) THEN Append(toClient, cur[p]) ELSE toClient
  /\ Returns(p) \/ Panics(p)
  /\ UNCHANGED <<used, queues, proc, rm, toBroker, client, connection, cut>>

\* The end of processSubscribe: a retained message is published, by the
\* subscriber's own processor, with the identifier it came with: Wait ...
PublishRetained(m, q) ==
  /\ proc = "idle" /\ m \in left
  /\ left' = left \ {m}
  /\ rm' = Packet("PUBLISH", RetainedPid[m], m, q) /\ proc' = "retained"
  /\ Enter(Packet("PUBLISH", RetainedPid[m], m, q), online)
  /\ UNCHANGED <<used, publishers, wire, holds, confirmed, complete, connection>>

\* writeMessage by the processor: after a disconnect the packet is lost.
Write(x) == toClient' = IF online THEN Append(toClient, x) ELSE toClient

\* ... and writeMessage.
WriteRetained ==
  /\ proc = "retained" /\ proc' = "idle"
  /\ Write(rm) /\ rm' = NoPacket
  /\ UNCHANGED <<used, queues, publishers, toBroker, client, connection, cut>>

Publisher(p) ==
  (\E q \in Qoses : PollPacketID(p, q)) \/ WaitAck(p) \/ Unencodable(p) \/ WriteMessage(p)

-----------------------------------------------------------------------------
(* Acknowledgements, handled by the subscriber's processor *)

Takes(t) ==
  /\ proc = "idle" /\ toBroker # <<>> /\ Head(toBroker).type = t
  /\ toBroker' = Tail(toBroker)

ProcessPuback ==
  /\ Takes("PUBACK")
  /\ pub1ack' = Acknowledged(pub1ack, "PUBACK", Head(toBroker).pid)
  /\ proc' = "pub1ack"
  /\ UNCHANGED <<used, pub2out, publishers, rm, toClient, client, connection, cut>>

\* Faulty variant: PUBREC ends the exchange as PUBACK does.
PubrecEnds ==
  /\ Takes("PUBREC")
  /\ pub2out' = Acknowledged(pub2out, "PUBCOMP", Head(toBroker).pid)
  /\ Write(Bare("PUBREL", Head(toBroker).pid))
  /\ proc' = "pub2out"
  /\ UNCHANGED <<used, pub1ack, publishers, rm, client, connection, cut>>

\* PUBREC: recorded, and answered with PUBREL.
ProcessPubrec ==
  /\ Takes("PUBREC")
  /\ pub2out' = Acknowledged(pub2out, "PUBREC", Head(toBroker).pid)
  /\ Write(Bare("PUBREL", Head(toBroker).pid))
  /\ UNCHANGED <<used, pub1ack, publishers, proc, rm, client, connection, cut>>

ProcessPubcomp ==
  /\ Takes("PUBCOMP")
  /\ pub2out' = Acknowledged(pub2out, "PUBCOMP", Head(toBroker).pid)
  /\ proc' = "pub2out"
  /\ UNCHANGED <<used, pub1ack, publishers, rm, toClient, client, connection, cut>>

\* Faulty variant: one entry leaves the queue for one acknowledgement.
DoneAtMostOne(q, n) == n = IF q # <<>> /\ IsFinal(Head(q)) THEN 1 ELSE 0

\* processAcked: the n completed heads leave the queue (and onComplete, if
\* there is one, is called).
Done(q, n) == IsCompletedPrefix(q, n)
Rest(q, n) == SubSeq(q, n + 1, Len(q))
Completes(q, n) == complete' = complete \cup {Exchange(q[i].pid, q[i].msg) : i \in 1 .. n}

ProcessAcked1 ==
  /\ proc = "pub1ack" /\ proc' = "idle"
  /\ \E n \in 0 .. Len(pub1ack) : Done(pub1ack, n) /\ pub1ack' = Rest(pub1ack, n) /\ Completes(pub1ack, n)
  /\ UNCHANGED <<used, pub2out, publishers, rm, wire, left, holds, confirmed, connection, cut>>

ProcessAcked2 ==
  /\ proc = "pub2out" /\ proc' = "idle"
  /\ \E n \in 0 .. Len(pub2out) : Done(pub2out, n) /\ pub2out' = Rest(pub2out, n) /\ Completes(pub2out, n)
  /\ UNCHANGED <<used, pub1ack, publishers, rm, wire, left, holds, confirmed, connection, cut>>

Processor ==
  \/ ProcessPuback \/ ProcessPubrec \/ ProcessPubcomp
  \/ ProcessAcked1 \/ ProcessAcked2 \/ WriteRetained

-----------------------------------------------------------------------------
(* The client (external) and the connection *)

Answers(pkt) == toClient' = Tail(toClient) /\ toBroker' = Append(toBroker, pkt)

ClientTakes1 ==
  /\ toClient # <<>> /\ Head(toClient).type = "PUBLISH" /\ Head(toClient).qos = 1
  /\ Answers(Bare("PUBACK", Head(toClient).pid))
  /\ confirmed' = confirmed \cup {Exchange(Head(toClient).pid, Head(toClient).msg)}
  /\ UNCHANGED <<used, queues, publishers, proc, rm, left, holds, complete, connection, cut>>

\* A QoS 2 message under an identifier the client holds is a duplicate to it.
ClientTakes2 ==
  /\ toClient # <<>> /\ Head(toClient).type = "PUBLISH" /\ Head(toClient).qos = 2
  /\ LET p == Head(toClient)
     IN /\ Answers(Bare("PUBREC", p.pid))
        /\ holds' = IF \E h \in holds : h.pid = p.pid THEN holds ELSE holds \cup {p}
  /\ UNCHANGED <<used, queues, publishers, proc, rm, left, confirmed, complete, connection, cut>>

ClientReleases ==
  /\ toClient # <<>> /\ Head(toClient).type = "PUBREL"
  /\ LET freed == {h \in holds : h.pid = Head(toClient).pid}
     IN /\ Answers(Bare("PUBCOMP", Head(toClient).pid))
        /\ holds' = holds \ freed
        /\ confirmed' = confirmed \cup {Exchange(h.pid, h.msg) : h \in freed}
  /\ UNCHANGED <<used, queues, publishers, proc, rm, left, complete, connection, cut>>

Client == ClientTakes1 \/ ClientTakes2 \/ ClientReleases

\* The connection breaks: the processor still handles acknowledgements that
\* have arrived.
Disconnect ==
  /\ online /\ online' = FALSE
  /\ cut' = cut \cup {e.pid : e \in Queued} \cup {h.pid : h \in holds}
  /\ toClient' = <<>> /\ \E n \in 0 .. Len(toBroker) : toBroker' = SubSeq(toBroker, 1, n)
  /\ UNCHANGED <<used, queues, publishers, proc, rm, client, reconnects>>

\* A new connection to the same session: a new service with its own limiter,
\* the same queues; nothing is sent again and MarkUsedLocked is not called.
\* The CONNACK does not mention the session: the client keeps what it holds or
\* gives it up.
Reconnect ==
  /\ ~ online /\ reconnects < MaxReconnects /\ proc = "idle"
  /\ online' = TRUE /\ reconnects' = reconnects + 1
  /\ used' = [used EXCEPT ![reconnects + 1] = 0]
  /\ toBroker' = <<>> /\ holds' \in {holds, {}}
  /\ UNCHANGED <<queues, publishers, proc, rm, toClient, left, confirmed, complete, cut>>

Next ==
  \/ \E p \in Publishers : Publisher(p) \/ \E m \in Msgs \ DOMAIN RetainedPid, subs \in Subscriptions : OnPublish(p, m, subs)
  \/ \E m \in Msgs : Refused(m)
  \/ \E m \in DOMAIN RetainedPid, q \in Qoses : PublishRetained(m, q)
  \/ Processor \/ Client \/ Disconnect \/ Reconnect

Spec == Init /\ [][Next]_vars

\* The goroutines run and the client answers; nobody is obliged to publish
\* or to reconnect.
Fairness ==
  /\ \A p \in Publishers : WF_vars(Publisher(p))
  /\ WF_vars(Processor) /\ WF_vars(Client)

FairSpec == Spec /\ Fairness

-----------------------------------------------------------------------------
(* Properties *)

\* The variables have their types.
TypeOK ==
  /\ used \in [Services -> 0 .. Limit]
  /\ pub1ack \in Seq(Entries) /\ pub2out \in Seq(Entries)
  /\ pc \in [Publishers -> {"idle", "poll", "wait", "write"}]
  /\ todo \in [Publishers -> Seq(0 .. reconnects)]
  /\ proc \in {"idle", "pub1ack", "pub2out", "retained"}
  /\ left \subseteq Msgs
  /\ confirmed \subseteq [pid : Pids, msg : Msgs] /\ complete \subseteq [pid : Pids, msg : Msgs]
  /\ online \in BOOLEAN /\ reconnects \in 0 .. MaxReconnects /\ cut \subseteq Pids

\* Identifiers of retained messages that somebody else uses too: nothing keeps
\* them apart from those the limiter hands out, or from each other.
Shared ==
  {RetainedPid[m] : m \in {n \in DOMAIN RetainedPid :
     \/ RetainedPid[n] \in 1 .. Limit
     \/ \E o \in DOMAIN RetainedPid \ {n} : RetainedPid[o] = RetainedPid[n]}}

\* Under these identifiers an exchange may meet what another has left behind.
Confused == cut \cup Shared

\* A message on its way to the client has its own entry in a queue, so that
\* the acknowledgement finds it however fast the client answers.
Tracked ==
  \A i \in DOMAIN toClient :
    toClient[i].type = "PUBLISH" /\ toClient[i].pid \notin Confused =>
      \E e \in Queued : e.pid = toClient[i].pid /\ e.msg = toClient[i].msg

\* The state is well formed (the limiter stays within Receive Maximum) and
\* publish queues a message before it writes it.
InFlightTracked == TypeOK /\ Tracked

\* The broker takes an exchange for finished only when the client has
\* acknowledged that message under that identifier; what goes wrong after a
\* disconnect is limited to the identifiers that were in use at that time and
\* those that a stopped service has queued entries under.
CompletesRight == \A c \in complete : c \in confirmed \/ c.pid \in Confused

\* The client has acknowledged something under p that is not completed yet.
Pending(p) == \E c \in confirmed \ complete : c.pid = p

\* What the client has acknowledged is completed in the end, also when
\* acknowledgements arrive in another order than the entries have, unless its
\* own identifier is confused or the entry of one that is holds it back.
AllComplete ==
  \A p \in Pids :
    Pending(p) ~> \/ ~ Pending(p)
                  \/ p \in Confused \/ \E e \in Queued : e.pid \in Confused

-----------------------------------------------------------------------------
(* What the code does not keep; README.md has the instances that show it. *)

\* A publisher that waits for an identifier gets one: the client acknowledges
\* everything, so less than Limit messages are in flight again and again.
PublishersReturn == \A p \in Publishers : pc[p] = "poll" ~> pc[p] = "idle"
=============================================================================
