------------------------------- MODULE Inflow -------------------------------
(***************************************************************************)
(* Incoming publishes of one session, QoS 1 and 2: the processor of the    *)
(* session's service (process.go), the queue pub2in that the session keeps *)
(* across connections, the two directions of the connection and the client *)
(* (external).                                                             *)
(*                                                                         *)
(* The connection may break at any time: what is in flight is cut off at   *)
(* any point, the processor still handles what it received and stops       *)
(* between two packets or when a write fails.  The client comes back with  *)
(* the same session after the old processor has stopped; the CONNACK never *)
(* says that there is one (getSession sets the flag to false only), so a   *)
(* client that trusts it gives up what it has not finished and uses the    *)
(* identifiers again, which pub2in may still hold.                         *)
(***************************************************************************)
EXTENDS AckOps, FiniteSets

CONSTANTS Qoses,       \* the QoS levels the client uses, of {1, 2}
          Unencodable, \* messages that pub2in cannot store (Encode fails)
          Trusts,      \* the kinds of client: see trusting
          MaxDrops     \* bound: how often the connection breaks

ASSUME InflowAssumption ==
  /\ Qoses \subseteq {1, 2} /\ Unencodable \subseteq Msgs
  /\ Trusts \subseteq BOOLEAN /\ MaxDrops \in Nat
  /\ IsFiniteSet(Msgs)              \* bound: messages in a behaviour
  /\ Msgs = 1 .. Cardinality(Msgs)  \* messages are numbered as they are sent
  /\ WaitTypes = {"PUBLISH"} /\ AckTypes = {"PUBREL"}  \* what pub2in is used for

VARIABLES queue,      \* pub2in
          proc,       \* the processor: what it does next and for which packet
          published,  \* history: what onPublish was called with, in order
          up,         \* the connection: up, or down until the client is back
          toBroker, toClient,
          inflight,   \* client: unfinished messages, oldest first
          sent,       \* client: number of messages sent
          completed,  \* client: messages whose exchange is finished
          drops,
          trusting,   \* the client gives up its state when the CONNACK says so; it
                      \* never changes
          givenUp,    \* history: QoS 2 messages the client gave up unfinished
          shadowed    \* history: messages that came under an identifier which
                      \* pub2in held for another message

broker == <<queue, proc, published>>
client == <<inflight, sent, completed>>
history == <<givenUp, shadowed, trusting>>
vars == <<broker, client, up, toBroker, toClient, drops, history>>

Packet(t, p, m, q) == [type |-> t, pid |-> p, msg |-> m, qos |-> q]
Bare(t, p) == Packet(t, p, 0, 0)
At(step, pkt) == [at |-> step, pkt |-> pkt]
Publication(m, q) == [msg |-> m, qos |-> q]
Idle == At("idle", Bare("NONE", 0))
Stopped == At("stopped", Bare("NONE", 0))

Init ==
  /\ queue = <<>> /\ proc = Idle /\ published = <<>>
  /\ up = TRUE /\ toBroker = <<>> /\ toClient = <<>>
  /\ inflight = <<>> /\ sent = 0 /\ completed = {} /\ drops = 0
  /\ givenUp = {} /\ shadowed = {} /\ trusting \in Trusts

-----------------------------------------------------------------------------
(* The processor *)

\* gCore.writeMessage: on a broken connection the packet is lost, or the
\* write fails; then the handler returns the error and the processor stops.
Reply(pkt, next) ==
  \/ /\ up /\ toClient' = Append(toClient, pkt) /\ proc' = next
     /\ UNCHANGED toBroker
  \/ /\ ~ up /\ proc' = next
     /\ UNCHANGED <<toBroker, toClient>>
  \/ /\ ~ up /\ proc' = Stopped /\ toBroker' = <<>>
     /\ UNCHANGED toClient

Takes(t, q) ==
  /\ proc.at = "idle" /\ toBroker # <<>>
  /\ Head(toBroker).type = t /\ Head(toBroker).qos = q
  /\ toBroker' = Tail(toBroker)

\* The identifier of packet p is in the queue, with another message.
ShadowedIn(q, p) == \E i \in 1 .. Len(q) : q[i].pid = p.pid /\ q[i].msg # p.msg

\* Faulty variant: a message is queued also when its identifier is in the queue.
Publish2Again ==
  /\ Takes("PUBLISH", 2)
  /\ LET p == Head(toBroker)
     IN queue' = Append(queue, NewEntry("PUBLISH", p.pid, p.msg)) /\ proc' = At("pubrec", p)
  /\ UNCHANGED <<published, client, up, toClient, drops, history>>

\* Faulty variant: no PUBREC is sent for an identifier that is in the queue.
Publish2Silent ==
  /\ Takes("PUBLISH", 2)
  /\ LET p == Head(toBroker)
     IN /\ queue' = Inserted(queue, NewEntry("PUBLISH", p.pid, p.msg))
        /\ proc' = IF HasPid(queue, p.pid) THEN Idle ELSE At("pubrec", p)
  /\ UNCHANGED <<published, client, up, toClient, drops, history>>

\* processPublish, QoS 2: Pub2in().Wait(msg), whose error is dropped; then
\* the PUBREC.
ProcessPublish2 ==
  /\ Takes("PUBLISH", 2)
  /\ LET p == Head(toBroker)
     IN /\ queue' = IF p.msg \in Unencodable THEN queue
                    ELSE Inserted(queue, NewEntry("PUBLISH", p.pid, p.msg))
        /\ proc' = At("pubrec", p)
        /\ shadowed' = IF ShadowedIn(queue, p) THEN shadowed \cup {p.msg} ELSE shadowed
  /\ UNCHANGED <<published, client, up, toClient, drops, givenUp, trusting>>

SendPubrec ==
  /\ proc.at = "pubrec"
  /\ Reply(Bare("PUBREC", proc.pkt.pid), Idle)
  /\ UNCHANGED <<queue, published, client, up, drops, history>>

\* processPublish, QoS 1: the PUBACK; then onPublish.
ProcessPublish1 ==
  /\ Takes("PUBLISH", 1)
  /\ proc' = At("puback", Head(toBroker))
  /\ UNCHANGED <<queue, published, client, up, toClient, drops, history>>

\* Faulty variant: the handler returns after the PUBACK.
PubackOnly ==
  /\ proc.at = "puback"
  /\ Reply(Bare("PUBACK", proc.pkt.pid), Idle)
  /\ UNCHANGED <<queue, published, client, up, drops, history>>

SendPuback ==
  /\ proc.at = "puback"
  /\ Reply(Bare("PUBACK", proc.pkt.pid), At("onPublish", proc.pkt))
  /\ UNCHANGED <<queue, published, client, up, drops, history>>

OnPublish ==
  /\ proc.at = "onPublish"
  /\ published' = Append(published, Publication(proc.pkt.msg, 1)) /\ proc' = Idle
  /\ UNCHANGED <<queue, client, up, toBroker, toClient, drops, history>>

\* PUBREL: Pub2in().Ack(msg); processAcked publishes every completed head of
\* the queue; then the PUBCOMP.
ProcessPubrel ==
  /\ Takes("PUBREL", 0)
  /\ queue' = Acknowledged(queue, "PUBREL", Head(toBroker).pid)
  /\ proc' = At("processAcked", Head(toBroker))
  /\ UNCHANGED <<published, client, up, toClient, drops, history>>

ProcessAcked ==
  /\ proc.at = "processAcked"
  /\ \E n \in 0 .. Len(queue) :
       /\ IsCompletedPrefix(queue, n)
       /\ published' = published \o [i \in 1 .. n |-> Publication(queue[i].msg, 2)]
       /\ queue' = SubSeq(queue, n + 1, Len(queue))
  /\ proc' = At("pubcomp", proc.pkt)
  /\ UNCHANGED <<client, up, toBroker, toClient, drops, history>>

SendPubcomp ==
  /\ proc.at = "pubcomp"
  /\ Reply(Bare("PUBCOMP", proc.pkt.pid), Idle)
  /\ UNCHANGED <<queue, published, client, up, drops, history>>

\* The connection is gone (the client or the network broke it, or a handler
\* returned an error) and the processor leaves its loop; packets it has not
\* read yet are dropped.
ProcessorStops ==
  /\ ~ up /\ proc = Idle
  /\ proc' = Stopped /\ toBroker' = <<>>
  /\ UNCHANGED <<queue, published, client, up, toClient, drops, history>>

Processor ==
  \/ ProcessPublish2 \/ SendPubrec \/ ProcessPublish1 \/ SendPuback \/ OnPublish
  \/ ProcessPubrel \/ ProcessAcked \/ SendPubcomp \/ ProcessorStops

-----------------------------------------------------------------------------
(* The connection and the client (external) *)

Drop ==
  /\ up /\ drops < MaxDrops
  /\ up' = FALSE /\ drops' = drops + 1
  /\ \E i \in 0 .. Len(toBroker), j \in 0 .. Len(toClient) :
       /\ toBroker' = SubSeq(toBroker, 1, i)
       /\ toClient' = SubSeq(toClient, 1, j)
  /\ UNCHANGED <<broker, client, history>>

\* What the client sends while the connection is down is lost.
Sends(pkts) == toBroker' = IF up THEN toBroker \o pkts ELSE toBroker

ClientPublishes(p, q) ==
  /\ up /\ sent < Cardinality(Msgs) /\ ~ HasPid(inflight, p)
  /\ LET pkt == Packet("PUBLISH", p, sent + 1, q)
     IN inflight' = Append(inflight, pkt) /\ Sends(<<pkt>>)
  /\ sent' = sent + 1
  /\ UNCHANGED <<completed, broker, up, toClient, drops, history>>

\* PUBREC: the message is released.
ClientReleases ==
  /\ toClient # <<>> /\ Head(toClient).type = "PUBREC"
  /\ LET p == Head(toClient).pid
     IN /\ inflight' = [i \in DOMAIN inflight |->
                          IF inflight[i].pid = p
                            THEN [inflight[i] EXCEPT !.type = "PUBREL"]
                            ELSE inflight[i]]
        /\ Sends(<<Bare("PUBREL", p)>>)
  /\ toClient' = Tail(toClient)
  /\ UNCHANGED <<sent, completed, broker, up, drops, history>>

\* Sequence s without its i-th element.
Without(s, i) == [j \in 1 .. Len(s) - 1 |-> s[IF j < i THEN j ELSE j + 1]]

\* PUBACK or PUBCOMP: the exchange is finished, the identifier is free.  (That
\* it always belongs to an exchange of the client is proved in InflowProofs.)
ClientCompletes ==
  /\ toClient # <<>> /\ Head(toClient).type \in {"PUBACK", "PUBCOMP"}
  /\ \E i \in 1 .. Len(inflight) :
       /\ inflight[i].pid = Head(toClient).pid
       /\ inflight' = Without(inflight, i)
       /\ completed' = completed \cup {inflight[i].msg}
  /\ toClient' = Tail(toClient)
  /\ UNCHANGED <<sent, broker, up, toBroker, drops, history>>

\* What a client that keeps its state sends again, in the original order.
Resend(x) == IF x.type = "PUBREL" THEN Bare("PUBREL", x.pid) ELSE x

\* A new connection to the same session.
Reconnect ==
  /\ ~ up /\ proc = Stopped
  /\ up' = TRUE /\ proc' = Idle /\ toClient' = <<>>
  /\ IF trusting
       THEN /\ inflight' = <<>> /\ toBroker' = <<>>
            /\ givenUp' = givenUp \cup
                 {inflight[i].msg : i \in {j \in 1 .. Len(inflight) : inflight[j].qos = 2}}
       ELSE /\ UNCHANGED <<inflight, givenUp>>
            /\ toBroker' = [i \in DOMAIN inflight |-> Resend(inflight[i])]
  /\ UNCHANGED <<queue, published, sent, completed, drops, shadowed, trusting>>

ClientAnswers == ClientReleases \/ ClientCompletes

Next ==
  \/ Processor \/ Drop \/ ClientAnswers \/ Reconnect
  \/ \E p \in Pids, q \in Qoses : ClientPublishes(p, q)

Spec == Init /\ [][Next]_vars

\* The processor goroutine runs, the client reads its socket and comes back.
Fairness == WF_vars(Processor) /\ WF_vars(ClientAnswers) /\ WF_vars(Reconnect)

FairSpec == Spec /\ Fairness

-----------------------------------------------------------------------------
(* Properties *)

IsPublished(m) == \E i \in DOMAIN published : published[i].msg = m

\* The variables of the session and the client have their types.
TypeOK ==
  /\ queue \in Seq(Entries)
  /\ published \in Seq([msg : Msgs, qos : Qoses])
  /\ proc.at \in {"idle", "pubrec", "puback", "onPublish", "processAcked", "pubcomp", "stopped"}
  /\ up \in BOOLEAN /\ drops \in 0 .. MaxDrops
  /\ sent \in 0 .. Cardinality(Msgs) /\ completed \subseteq Msgs

\* QoS 2 messages are published once each and in the order they were sent,
\* whatever was lost and sent again and whatever QoS 1 messages come between.
OnceInOrder ==
  \A i, j \in DOMAIN published :
    i < j /\ published[i].qos = 2 /\ published[j].qos = 2
      => published[i].msg < published[j].msg

\* The broker's state is well formed and QoS 2 is exactly once and in order:
\* neither a resent PUBLISH nor a resent PUBREL makes processAcked publish twice.
ExactlyOnce == TypeOK /\ OnceInOrder

\* The broker is still going to publish m.
Accepted(m) ==
  \/ \E i \in DOMAIN queue : queue[i].msg = m /\ queue[i].state = "PUBREL"
  \/ proc.at = "onPublish" /\ proc.pkt.msg = m

\* A message whose exchange is finished for the client is published, or the
\* broker is about to: it is not lost.  There are two ways to lose one: pub2in
\* cannot store it, or pub2in still holds its identifier for another message,
\* and that happens only to a client that has given up an earlier QoS 2 message.
NothingLost ==
  \A m \in completed \ Unencodable :
    \/ IsPublished(m) \/ Accepted(m)
    \/ m \in shadowed /\ \E g \in givenUp : g < m

\* "neither loss nor duplication of messages are acceptable" (message.go, on
\* QosExactlyOnce): what was acknowledged to the client is published.  It is
\* not for a client that trusts the CONNACK of a resumed session.
NeitherLoss == \A m \in completed \ Unencodable : IsPublished(m) \/ Accepted(m)

\* Every message that a client which keeps its state has sent, other than those
\* pub2in cannot store, is published in the end, however often the connection
\* breaks meanwhile.
AllPublished ==
  \A m \in Msgs \ Unencodable : (~ trusting /\ sent >= m) ~> IsPublished(m)
=============================================================================
