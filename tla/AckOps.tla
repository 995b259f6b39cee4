------------------------------- MODULE AckOps -------------------------------
(***************************************************************************)
(* The vocabulary shared by the models of the acknowledgement queues of a  *)
(* session (broker/impl/session/mem_ackqueue.go): packet types, the        *)
(* messages handed to Wait and the entries (Ackmsg) the queue keeps.       *)
(***************************************************************************)
EXTENDS Naturals, Sequences

CONSTANTS Pids,       \* the packet identifiers in use (a set of 16-bit numbers)
          Msgs,       \* the identities of the messages that are queued
          WaitTypes,  \* the packet types the service inserts in this queue
          AckTypes    \* the acknowledgements the service routes to this queue

\* Packet types that Wait inserts and that Ack looks up by packet identifier.
Insertable == {"PUBLISH", "SUBSCRIBE", "UNSUBSCRIBE"}
Ackable == {"PUBACK", "PUBREC", "PUBREL", "PUBCOMP", "SUBACK", "UNSUBACK"}

ASSUME AckOpsAssumption == /\ Pids \subseteq 0 .. 65535
                           /\ WaitTypes \subseteq Insertable
                           /\ AckTypes \subseteq Ackable

\* The states that Acked treats as the end of the cycle; PUBREC is not one.
FinalStates == {"PUBACK", "PUBREL", "PUBCOMP", "SUBACK", "UNSUBACK"}

\* An entry: what was inserted and the type of the last acknowledgement.
Entries == [mtype : WaitTypes, pid : Pids, msg : Msgs,
            state : AckTypes \cup {"RESERVED"}]

NewEntry(t, p, m) == [mtype |-> t, pid |-> p, msg |-> m, state |-> "RESERVED"]

\* The entry Acked returns for a completed ping: it carries no message.
PingEntry == [mtype |-> "PINGREQ", state |-> "PINGRESP"]

PingStates == {"RESERVED", "PINGREQ", "PINGRESP"}

IsFinal(e) == e.state \in FinalStates

(***************************************************************************)
(* Operations on a queue seen as the sequence of its entries, oldest first *)
(***************************************************************************)
HasPid(q, p) == \E i \in 1 .. Len(q) : q[i].pid = p

\* Insertion of an entry: an entry under a packet identifier that is in the
\* queue already is ignored.
Inserted(q, e) == IF HasPid(q, e.pid) THEN q ELSE Append(q, e)

\* The acknowledgement of type t for identifier p is recorded in its entry.
Acknowledged(q, t, p) ==
  [i \in 1 .. Len(q) |-> IF q[i].pid = p THEN [q[i] EXCEPT !.state = t] ELSE q[i]]

\* n is the length of the longest completed prefix of q.
IsCompletedPrefix(q, n) ==
  /\ n \in 0 .. Len(q)
  /\ \A i \in 1 .. n : IsFinal(q[i])
  /\ n < Len(q) => ~ IsFinal(q[n + 1])
=============================================================================
