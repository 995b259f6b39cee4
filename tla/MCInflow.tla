------------------------------ MODULE MCInflow ------------------------------
(***************************************************************************)
(* Inflow for TLC: a few messages and fewer packet identifiers, so that an *)
(* identifier is used again, and a connection that breaks twice.           *)
(***************************************************************************)
EXTENDS Inflow

PubTypes == {"PUBLISH"}
Pub2inAcks == {"PUBREL"}
=============================================================================
