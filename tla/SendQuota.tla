----------------------------- MODULE SendQuota ------------------------------
(***************************************************************************)
(* The send quota of a subscriber (Sign, pipiline.go): onPub takes one     *)
(* unit for every QoS 1 or 2 message (ReqQuota, run by the publishers'     *)
(* goroutines), the subscriber's processor returns one for every           *)
(* acknowledgement (AddQuota) and ends the connection when it finds the    *)
(* beyondQuota flag set (streamController).                                *)
(*                                                                         *)
(* The counter is atomic and the flag is a plain field: every access is a  *)
(* step of its own.                                                        *)
(***************************************************************************)
EXTENDS Integers, FiniteSets

CONSTANTS Publishers,
          Quota,       \* the initial quota
          SkipsLocal,  \* some messages are the subscriber's own (NoLocal)
          MaxRejects   \* bound: how many messages the client refuses with PUBREC

ASSUME QuotaAssumption ==
  /\ IsFiniteSet(Publishers) /\ Quota \in Nat \ {0}
  /\ SkipsLocal \in BOOLEAN /\ MaxRejects \in Nat

VARIABLES currQuota, beyondQuota,
          at,        \* each publisher: where it is in ReqQuota
          proc,      \* the processor: at the top of its loop, reading, adding, stopped
          inflight,  \* messages sent that the client has not finished
          refused,   \* messages refused with PUBREC whose PUBCOMP is to come
          rejects    \* history: how many messages the client has refused

client == <<inflight, refused, rejects>>
quotaVars == <<currQuota, beyondQuota, at, proc, client>>

QuotaInit ==
  /\ currQuota = Quota /\ beyondQuota = FALSE
  /\ at = [p \in Publishers |-> "idle"] /\ proc = "loop"
  /\ inflight = 0 /\ refused = 0 /\ rejects = 0

-----------------------------------------------------------------------------
(* ReqQuota and the rest of onPub, run by a publisher *)

\* The test of the flag; a message that finds it set is dropped.
TestFlag(p) ==
  /\ at[p] = "idle" /\ ~ beyondQuota
  /\ at' = [at EXCEPT ![p] = "add"]
  /\ UNCHANGED <<currQuota, beyondQuota, proc, client>>

Granted(p) ==
  /\ at[p] = "add" /\ currQuota - 1 >= 0
  /\ currQuota' = currQuota - 1
  /\ at' = [at EXCEPT ![p] = "granted"]
  /\ UNCHANGED <<beyondQuota, proc, client>>

Denied(p) ==
  /\ at[p] = "add" /\ currQuota - 1 < 0
  /\ currQuota' = currQuota - 1
  /\ at' = [at EXCEPT ![p] = "flag"]
  /\ UNCHANGED <<beyondQuota, proc, client>>

SetFlag(p) ==
  /\ at[p] = "flag"
  /\ beyondQuota' = TRUE
  /\ at' = [at EXCEPT ![p] = "swap"]
  /\ UNCHANGED <<currQuota, proc, client>>

\* Faulty variant: the denied request leaves its unit in the counter.
SwapForgotten(p) ==
  /\ at[p] = "swap"
  /\ at' = [at EXCEPT ![p] = "idle"]
  /\ UNCHANGED <<currQuota, beyondQuota, proc, client>>

\* Faulty variant: the counter is reset to the initial quota.
SwapQuota(p) ==
  /\ at[p] = "swap"
  /\ currQuota' = Quota
  /\ at' = [at EXCEPT ![p] = "idle"]
  /\ UNCHANGED <<beyondQuota, proc, client>>

SwapZero(p) ==
  /\ at[p] = "swap"
  /\ currQuota' = 0
  /\ at' = [at EXCEPT ![p] = "idle"]
  /\ UNCHANGED <<beyondQuota, proc, client>>

\* The message is sent ...
Send(p) ==
  /\ at[p] = "granted"
  /\ inflight' = inflight + 1
  /\ at' = [at EXCEPT ![p] = "idle"]
  /\ UNCHANGED <<currQuota, beyondQuota, proc, refused, rejects>>

\* ... or it is the subscriber's own and onPub returns.
SkipLocal(p) ==
  /\ SkipsLocal /\ at[p] = "granted"
  /\ at' = [at EXCEPT ![p] = "idle"]
  /\ UNCHANGED <<currQuota, beyondQuota, proc, client>>

Publisher(p) ==
  TestFlag(p) \/ Granted(p) \/ Denied(p) \/ SetFlag(p) \/ SwapZero(p) \/ Send(p) \/ SkipLocal(p)

-----------------------------------------------------------------------------
(* The processor *)

\* streamController at the top of the loop: the processor goes on only when
\* the flag is not set; it also stops when the rate limiter says so.
StreamController ==
  /\ proc = "loop"
  /\ proc' = "stopped"
  /\ UNCHANGED <<currQuota, beyondQuota, at, client>>

ReadNext ==
  /\ proc = "loop" /\ ~ beyondQuota
  /\ proc' = "reads"
  /\ UNCHANGED <<currQuota, beyondQuota, at, client>>

\* A packet that is no acknowledgement.
ProcessOther ==
  /\ proc = "reads"
  /\ proc' = "loop"
  /\ UNCHANGED <<currQuota, beyondQuota, at, client>>

\* AddQuota: the counter first; the flag in a second step, if it is positive.
AddQuota ==
  /\ proc = "reads"
  /\ currQuota' = currQuota + 1
  /\ proc' = IF currQuota + 1 > 0 THEN "clear" ELSE "loop"
  /\ UNCHANGED <<beyondQuota, at>>

\* PUBACK, or the PUBCOMP of a message that was not refused.
ProcessAck ==
  /\ inflight > 0 /\ inflight' = inflight - 1
  /\ AddQuota /\ UNCHANGED <<refused, rejects>>

\* A PUBREC with an error code, answered with PUBREL all the same, so that a
\* PUBCOMP follows.
ProcessPubrecError ==
  /\ rejects < MaxRejects /\ rejects' = rejects + 1
  /\ inflight > 0 /\ inflight' = inflight - 1 /\ refused' = refused + 1
  /\ AddQuota

ProcessLatePubcomp ==
  /\ refused > 0 /\ refused' = refused - 1
  /\ AddQuota /\ UNCHANGED <<inflight, rejects>>

ClearFlag ==
  /\ proc = "clear"
  /\ beyondQuota' = FALSE
  /\ proc' = "loop"
  /\ UNCHANGED <<currQuota, at, client>>

Processor ==
  \/ StreamController \/ ReadNext \/ ProcessOther
  \/ ProcessAck \/ ProcessPubrecError \/ ProcessLatePubcomp \/ ClearFlag

QuotaNext == (\E p \in Publishers : Publisher(p)) \/ Processor

QuotaSpec == QuotaInit /\ [][QuotaNext]_quotaVars

-----------------------------------------------------------------------------
(* Properties *)

\* The variables have their types.
QuotaTypeOK ==
  /\ currQuota \in Int /\ beyondQuota \in BOOLEAN
  /\ at \in [Publishers -> {"idle", "add", "granted", "flag", "swap"}]
  /\ proc \in {"loop", "reads", "clear", "stopped"}
  /\ inflight \in Nat /\ refused \in Nat /\ rejects \in 0 .. MaxRejects

\* Although a denied request resets a counter that others change at the same
\* time, nothing but a refused message, whose unit AddQuota returns twice,
\* lets more than Quota messages out, and each lets out one at most.
OvercommitBounded == inflight <= Quota + rejects

\* Requests that were denied and have not reset the counter yet.
DeniedNow == {p \in Publishers : at[p] \in {"flag", "swap"}}

\* A denied request leaves no debt behind: the counter is below zero only by
\* requests that are being denied at this moment, so the next unit the client
\* returns can be used.
NoDebt == currQuota >= - Cardinality(DeniedNow)

-----------------------------------------------------------------------------
(* What the code does not keep; README.md has the instances that show it. *)

\* At most Quota messages are on their way to the client, as the Receive
\* Maximum asks.  (Kept while the client refuses nothing.)
NeverOvercommitted == inflight <= Quota

\* Every acknowledgement returns its unit: when the client has finished
\* everything and nobody is inside onPub, the whole quota is there.
QuotaRestored ==
  (inflight = 0 /\ refused = 0 /\ (\A p \in Publishers : at[p] = "idle"))
    => currQuota = Quota
=============================================================================
