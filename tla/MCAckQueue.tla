----------------------------- MODULE MCAckQueue -----------------------------
(***************************************************************************)
(* AckQueue for TLC: the queue of outgoing QoS 2 publishes (pub2out), with *)
(* a ring that starts at one slot and may double twice, so that full,      *)
(* growing, wrapped and re-wrapped rings all occur.                        *)
(***************************************************************************)
EXTENDS AckQueue

PubTypes == {"PUBLISH"}
Pub2outAcks == {"PUBREC", "PUBCOMP"}
=============================================================================
