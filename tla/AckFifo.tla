------------------------------ MODULE AckFifo -------------------------------
(***************************************************************************)
(* What an acknowledgement queue promises: the entries waiting for their   *)
(* acknowledgement form one sequence in the order of their Wait; an        *)
(* acknowledgement changes exactly the entry with its packet identifier;   *)
(* entries leave only from the front, completed, through Acked.  Nothing   *)
(* is said of rings, indices or growth.                                    *)
(***************************************************************************)
EXTENDS AckOps

VARIABLES pending,   \* the entries in the queue, oldest first
          ping,      \* the slot of the outstanding PINGREQ
          done       \* what the last Acked returned

vars == <<pending, ping, done>>

Init == pending = <<>> /\ ping = "RESERVED" /\ done = <<>>

Wait(t, p, m) ==
  /\ pending' = Inserted(pending, NewEntry(t, p, m))
  /\ UNCHANGED <<ping, done>>

WaitPing == ping' = "PINGREQ" /\ UNCHANGED <<pending, done>>

Ack(t, p) ==
  /\ pending' = Acknowledged(pending, t, p)
  /\ UNCHANGED <<ping, done>>

AckPing ==
  /\ ping # "RESERVED"
  /\ ping' = "PINGRESP"
  /\ UNCHANGED <<pending, done>>

Acked ==
  /\ \E n \in 0 .. Len(pending) :
       /\ IsCompletedPrefix(pending, n)
       /\ pending' = [i \in 1 .. Len(pending) - n |-> pending[n + i]]
       /\ done' = (IF ping = "PINGRESP" THEN <<PingEntry>> ELSE <<>>)
                     \o [i \in 1 .. n |-> pending[i]]
  /\ ping' = IF ping = "PINGRESP" THEN "RESERVED" ELSE ping

Next ==
  \/ \E t \in WaitTypes, p \in Pids, m \in Msgs : Wait(t, p, m)
  \/ WaitPing
  \/ \E t \in AckTypes, p \in Pids : Ack(t, p)
  \/ AckPing
  \/ Acked

Spec == Init /\ [][Next]_vars
=============================================================================
