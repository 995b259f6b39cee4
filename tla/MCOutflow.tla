----------------------------- MODULE MCOutflow ------------------------------
(***************************************************************************)
(* Outflow for TLC: two publishers that race for the subscriber, and two   *)
(* or three messages of QoS 1 or 2, one of them retained.                  *)
(***************************************************************************)
EXTENDS Outflow

PubTypes == {"PUBLISH"}
NoRetained == [m \in {} |-> 0]
OwnPid == [m \in {3} |-> 3]      \* an identifier nobody else uses
PubAcks == {"PUBACK", "PUBREC", "PUBCOMP"}
=============================================================================
