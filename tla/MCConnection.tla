---------------------------- MODULE MCConnection ----------------------------
(***************************************************************************)
(* Connection for TLC: a client that keeps its session and has a delayed   *)
(* will, the same client starting clean, and a second client whose will is *)
(* sent at once.                                                           *)
(***************************************************************************)
EXTENDS Connection

Profile(c, clean, expires, will) == [client |-> c, clean |-> clean, expires |-> expires, will |-> will]
MCProfiles == {Profile("c1", FALSE, "finite", "later"), Profile("c1", TRUE, "none", "now"),
               Profile("c2", TRUE, "none", "now")}
=============================================================================
