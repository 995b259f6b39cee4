----------------------------- MODULE Connection -----------------------------
(***************************************************************************)
(* The life of a connection: handleConnection with its authentication and  *)
(* session lookup (server.go), the session manager and store, start and    *)
(* stop of the service (service.go), SUBSCRIBE, publishing and DISCONNECT  *)
(* (process.go), and wills sent at once or by a timer (delay_task.go,      *)
(* cron.go).  The code does not end an old connection of a client when a   *)
(* new one arrives, so two may overlap; timers and goroutines run when     *)
(* they like.                                                              *)
(*                                                                         *)
(* Service k is the k-th connection.  A session is named after the service *)
(* whose CONNECT built it.  There is one topic, for publishes and wills.   *)
(* The local session store stays empty (getSession never creates a clean   *)
(* session through GetOrCreate) and is left out, as are the stored copies  *)
(* under svc.cid(), which nobody looks up.                                 *)
(***************************************************************************)
EXTENDS Naturals, Sequences, FiniteSets

CONSTANTS Clients,
          Profiles,    \* CONNECT packets: client, clean, expires, will
          MaxServices  \* bound: connections in a behaviour

Svc == 1 .. MaxServices
Intervals == {"none", "finite"}          \* session expiry interval: 0, > 0
Wills == {"none", "now", "later"}        \* no will, delay 0, delay > 0

ASSUME ConnectionAssumption ==
  /\ MaxServices \in Nat
  /\ Profiles \subseteq [client : Clients, clean : BOOLEAN, expires : Intervals, will : Wills]

VARIABLES prof,      \* service -> its CONNECT
          phase,     \* service -> how far it has got
          sessOf,    \* service -> its session, 0: none yet
          sess,      \* session -> what may change of it
          store,     \* client -> stored session, 0: none
          tree,      \* services whose onPub is subscribed
          queued,    \* services with a PUBLISH in the outgoing ring
          first,     \* service -> the first packet its client was sent
          ids,       \* client -> the entry registered for it, 0: none
          entries,   \* services with a timer that repeats
          gos,       \* services whose will waits in a goroutine
          firing,    \* services in the middle of Fn: <<service, kind>>
          hasSendWill, crashed,
          sent, cancelled, left, overlapped, expired  \* history

cron == <<ids, entries, hasSendWill, cancelled>>
wills == <<cron, gos>>
history == <<left, overlapped, expired>>
vars == <<prof, phase, sessOf, sess, store, tree, queued, first,
          wills, firing, sent, crashed, history>>

NoProfile == [client |-> "", clean |-> TRUE, expires |-> "none", will |-> "none"]
NewSession(p) ==
  [expires |-> p.expires, offline |-> FALSE, will |-> p.will # "none",
   flag |-> p.will # "none", topic |-> FALSE]

Init ==
  /\ prof = [k \in Svc |-> NoProfile] /\ phase = [k \in Svc |-> "idle"]
  /\ sessOf = [k \in Svc |-> 0] /\ sess = [k \in Svc |-> NewSession(NoProfile)]
  /\ store = [c \in Clients |-> 0] /\ tree = {} /\ queued = {}
  /\ first = [k \in Svc |-> ""]
  /\ ids = [c \in Clients |-> 0] /\ entries = {} /\ gos = {} /\ firing = {}
  /\ hasSendWill = [k \in Svc |-> FALSE] /\ crashed = FALSE
  /\ sent = [k \in Svc |-> 0] /\ cancelled = {}
  /\ left = [k \in Svc |-> ""] /\ overlapped = {} /\ expired = {}

ClientOf(k) == prof[k].client
SessionOf(k) == sess[sessOf[k]]
CleanSession(k) == prof[sessOf[k]].clean
\* The wills counted, and with them the way a connection ended: after an
\* overlap only whether there was one matters.
Enough(k) == IF ClientOf(k) \in overlapped THEN 1 ELSE 2
Over(k) == phase[k] \in {"idle", "refused", "stopped"}
Goto(k, p) == phase' = [phase EXCEPT ![k] = p]
\* A packet reaches the connection: straight from writeMessage, past the
\* ring, or from the sender.
Write(k, pkt) == first' = [first EXCEPT ![k] = IF @ = "" THEN pkt ELSE @]

-----------------------------------------------------------------------------
(* The manager of delay tasks *)

\* Cancel(id), called by service k: the registered entry goes, and its
\* service may send its will again.
Cancel(k) ==
  LET c == ClientOf(k)  j == ids[c]
  IN  IF j = 0 THEN UNCHANGED cron
      ELSE /\ ids' = [ids EXCEPT ![c] = 0] /\ entries' = entries \ {j}
           /\ hasSendWill' = [hasSendWill EXCEPT ![j] = FALSE]
           /\ cancelled' = IF j = k THEN cancelled ELSE cancelled \cup {j}

\* Run: a delayed will is registered over whatever entry the client had.
AddJob(k) ==
  /\ ids' = [ids EXCEPT ![ClientOf(k)] = k] /\ entries' = entries \cup {k}
  /\ UNCHANGED gos
GoFn(k) == gos' = gos \cup {k} /\ UNCHANGED <<ids, entries>>

\* Faulty variant: a will without delay is not started.
sendWillMsgLater(k) ==
  IF SessionOf(k).will /\ ~ hasSendWill[k]
  THEN /\ IF prof[sessOf[k]].will = "later" THEN AddJob(k) ELSE UNCHANGED <<ids, entries, gos>>
       /\ hasSendWill' = [hasSendWill EXCEPT ![k] = TRUE]
       /\ UNCHANGED cancelled
  ELSE UNCHANGED wills

sendWillMsg(k) ==
  IF SessionOf(k).will /\ ~ hasSendWill[k]
  THEN /\ IF prof[sessOf[k]].will = "later" THEN AddJob(k) ELSE GoFn(k)
       /\ hasSendWill' = [hasSendWill EXCEPT ![k] = TRUE]
       /\ UNCHANGED cancelled
  ELSE UNCHANGED wills

\* Fn begins, in its own goroutine or for the timer: it cancels the entry of
\* its client, as a rule its own.  An entry that was registered over keeps
\* its timer.
GoRuns(k) ==
  /\ k \in gos /\ gos' = gos \ {k}
  /\ Cancel(k) /\ firing' = firing \cup {<<k, "go">>}
  /\ UNCHANGED <<prof, phase, sessOf, sess, store, tree, queued, first, sent, crashed, history>>

TimerFires(k) ==
  /\ k \in entries /\ <<k, "timer">> \notin firing
  /\ Cancel(k) /\ firing' = firing \cup {<<k, "timer">>}
  /\ UNCHANGED <<prof, phase, sessOf, sess, store, tree, queued, first, gos, sent, crashed, history>>

\* Subscribers whose service has stopped and given up its connection core.
Stale == {j \in tree : phase[j] = "stopped"}
\* Whoever is still open gets the message in its outgoing ring.
Reached(S) == queued \cup {j \in S : phase[j] \in {"recovered", "running", "subscribing"}}

\* The end of Fn: the will is published.  Reaching a stopped service is a
\* panic: the timer recovers from it, a plain goroutine takes the broker
\* down.  A timer job removes the entry its client has by then.
FnPublishes(k, kind) ==
  /\ <<k, kind>> \in firing /\ firing' = firing \ {<<k, kind>>}
  /\ IF Stale = {}
     THEN /\ queued' = Reached(tree) /\ UNCHANGED crashed
     ELSE /\ \E S \in SUBSET (tree \ Stale) : queued' = Reached(S)
          /\ crashed' = (crashed \/ kind = "go")
  /\ sent' = [sent EXCEPT ![k] = IF @ < Enough(k) THEN @ + 1 ELSE @]
  /\ LET j == ids[ClientOf(k)]
     IN  IF kind = "timer" /\ j # 0
         THEN /\ ids' = [ids EXCEPT ![ClientOf(k)] = 0]
              /\ entries' = entries \ {j} /\ cancelled' = cancelled \cup ({j} \ {k})
         ELSE UNCHANGED <<ids, entries, cancelled>>
  /\ UNCHANGED <<prof, phase, sessOf, sess, store, tree, first, hasSendWill, gos, history>>

-----------------------------------------------------------------------------
(* Connecting *)

\* Every check of the CONNECT that ends the connection, with its answer.
Refuse(k) == Goto(k, "refused") /\ UNCHANGED overlapped

\* A failed verification writes its answer (which is left out here) and
\* returns what the write returned, so the connection goes on as after a
\* successful one.
auth(k) ==
  /\ Goto(k, "accepted")
  /\ overlapped' = IF \E j \in Svc \ {k} : ClientOf(j) = prof'[k].client /\ ~ Over(j)
                   THEN overlapped \cup {prof'[k].client} ELSE overlapped

\* A CONNECT arrives.
Connect(k, p) ==
  /\ phase[k] = "idle" /\ \A j \in 1 .. k - 1 : phase[j] # "idle"
  /\ prof' = [prof EXCEPT ![k] = p] /\ (Refuse(k) \/ auth(k))
  /\ UNCHANGED <<sessOf, sess, store, tree, queued, first, wills, firing, sent, crashed, left, expired>>

\* A stored session counts as expired with no interval, and as long as its
\* service has not stopped (its offline time is still 0); once it has, time
\* decides.
MayExpire(s) == TRUE
MayLive(s) == sess[s].expires # "none" /\ sess[s].offline

\* Faulty variant: an expired session stays in the store.
LookUpKeeps(k) ==
  LET c == ClientOf(k)  s == store[c]
  IN  /\ phase[k] = "accepted" /\ Goto(k, "looked")
      /\ \/ prof[k].clean /\ sessOf' = [sessOf EXCEPT ![k] = k]
            /\ sess' = [sess EXCEPT ![k] = NewSession(prof[k])] /\ UNCHANGED <<store, expired>>
         \/ ~ prof[k].clean /\ s # 0 /\ MayLive(s) /\ sessOf' = [sessOf EXCEPT ![k] = s]
            /\ UNCHANGED <<sess, store, expired>>
         \/ ~ prof[k].clean /\ s # 0 /\ MayExpire(s)
            /\ expired' = expired \cup {s} /\ UNCHANGED <<sessOf, sess, store>>
         \/ ~ prof[k].clean /\ s = 0 /\ UNCHANGED <<sessOf, sess, store, expired>>
      /\ UNCHANGED <<prof, tree, queued, first, wills, firing, sent, crashed, left, overlapped>>

\* getSession, first part.  A clean start builds a session and removes it
\* from the (empty) local store: what the store holds stays there.
LookUp(k) ==
  LET c == ClientOf(k)  s == store[c]
  IN  /\ phase[k] = "accepted" /\ Goto(k, "looked")
      /\ \/ /\ prof[k].clean
            /\ sessOf' = [sessOf EXCEPT ![k] = k]
            /\ sess' = [sess EXCEPT ![k] = NewSession(prof[k])]
            /\ UNCHANGED <<store, expired>>
         \/ /\ ~ prof[k].clean /\ s # 0 /\ MayLive(s)
            /\ sessOf' = [sessOf EXCEPT ![k] = s]
            /\ UNCHANGED <<sess, store, expired>>
         \/ /\ ~ prof[k].clean /\ s # 0 /\ MayExpire(s)
            /\ store' = [store EXCEPT ![c] = 0] /\ expired' = expired \cup {s}
            /\ UNCHANGED <<sessOf, sess>>
         \/ /\ ~ prof[k].clean /\ s = 0
            /\ UNCHANGED <<sessOf, sess, store, expired>>
      /\ UNCHANGED <<prof, tree, queued, first, wills, firing, sent, crashed, left, overlapped>>

\* GetOrCreate with the CONNECT: another connection may have stored one.
GetOrCreate(k) ==
  LET c == ClientOf(k)
  IN  IF sessOf[k] # 0 THEN UNCHANGED <<sessOf, sess, store>>
      ELSE IF store[c] # 0
      THEN sessOf' = [sessOf EXCEPT ![k] = store[c]] /\ UNCHANGED <<sess, store>>
      ELSE /\ sessOf' = [sessOf EXCEPT ![k] = k]
           /\ sess' = [sess EXCEPT ![k] = NewSession(prof[k])]
           /\ store' = [store EXCEPT ![c] = k]

\* Faulty variant: the delayed will of the client is not cancelled.
getSessionOnly(k) ==
  /\ phase[k] = "looked" /\ Goto(k, "session")
  /\ GetOrCreate(k) /\ UNCHANGED cron
  /\ UNCHANGED <<prof, tree, queued, first, gos, firing, sent, crashed, history>>

\* getSession, second part.
getSession(k) ==
  /\ phase[k] = "looked" /\ Goto(k, "session")
  /\ GetOrCreate(k) /\ Cancel(k)
  /\ UNCHANGED <<prof, tree, queued, first, gos, firing, sent, crashed, history>>

\* start: the service subscribes to the topics of its session ...
recoverSub(k) ==
  /\ phase[k] = "session" /\ Goto(k, "recovered")
  /\ tree' = IF SessionOf(k).topic THEN tree \cup {k} ELSE tree
  /\ UNCHANGED <<prof, sessOf, sess, store, queued, first, wills, firing, sent, crashed, history>>

\* Faulty variant: the processor starts and the CONNACK is not out yet.
startEarly(k) ==
  /\ phase[k] = "recovered" /\ \E p \in {"running", "closing"} : Goto(k, p)
  /\ UNCHANGED <<prof, sessOf, sess, store, tree, queued, first, wills, firing, sent, crashed, history>>

\* ... then writes the CONNACK; a write that fails ends in stop.
start(k) ==
  /\ phase[k] = "recovered"
  /\ \/ Goto(k, "running") /\ Write(k, "CONNACK")
     \/ Goto(k, "closing") /\ UNCHANGED first
  /\ UNCHANGED <<prof, sessOf, sess, store, tree, queued, wills, firing, sent, crashed, history>>

\* The sender moves the bytes of the ring to the connection.
sender(k) ==
  /\ k \in queued /\ queued' = queued \ {k}
  /\ phase[k] \in {"recovered", "running", "subscribing", "closing"} /\ Write(k, "PUBLISH")
  /\ UNCHANGED <<prof, phase, sessOf, sess, store, tree, wills, firing, sent, crashed, history>>

-----------------------------------------------------------------------------
(* The processor *)

\* SUBSCRIBE: first the topic manager, then the session.
processSubscribe(k) ==
  /\ phase[k] = "running" /\ Goto(k, "subscribing") /\ tree' = tree \cup {k}
  /\ UNCHANGED <<prof, sessOf, sess, store, queued, first, wills, firing, sent, crashed, history>>
AddTopic(k) ==
  /\ phase[k] = "subscribing" /\ Goto(k, "running")
  /\ sess' = [sess EXCEPT ![sessOf[k]].topic = TRUE]
  /\ UNCHANGED <<prof, sessOf, store, tree, queued, first, wills, firing, sent, crashed, history>>

processUnsubscribe(k) ==
  /\ phase[k] = "running" /\ k \in tree
  /\ tree' = tree \ {k} /\ sess' = [sess EXCEPT ![sessOf[k]].topic = FALSE]
  /\ UNCHANGED <<prof, phase, sessOf, store, queued, first, wills, firing, sent, crashed, history>>

\* A PUBLISH of this client goes to all subscribers.  A stopped one among them
\* is a panic, recovered in the publisher's processor, which ends; those the
\* loop had not reached get nothing.
onPublish(k) ==
  /\ phase[k] = "running" /\ tree # {}
  /\ IF Stale = {} THEN queued' = Reached(tree) /\ UNCHANGED phase
     ELSE /\ \E S \in SUBSET (tree \ Stale) : queued' = Reached(S)
          /\ Goto(k, "closing")
  /\ UNCHANGED <<prof, sessOf, sess, store, tree, first, wills, firing, sent, crashed, history>>

\* DISCONNECT.  A new expiry interval is an error when there was none; the
\* will has been dealt with by then.
Disconnect(k, code, expires) ==
  LET s == sessOf[k]
      refused == expires # "none" /\ sess[s].expires = "none"
  IN  /\ phase[k] = "running" /\ Goto(k, "closing")
      /\ IF code = "with will" THEN sendWillMsg(k) ELSE UNCHANGED wills
      /\ left' = [left EXCEPT ![k] = IF Enough(k) = 2 THEN code ELSE @]
      /\ sess' = [sess EXCEPT ![s].will = IF code = "with will" THEN @ ELSE FALSE,
                              ![s].flag = IF code = "with will" THEN @ ELSE FALSE,
                              ![s].expires = IF expires = "none" \/ refused THEN @ ELSE expires]
      /\ UNCHANGED <<prof, sessOf, store, tree, queued, first, firing, sent, crashed, overlapped, expired>>

\* The end of the input, or a packet the broker refuses, with a DISCONNECT
\* written past the ring.
processorEnds(k) ==
  /\ phase[k] = "running" /\ Goto(k, "closing")
  /\ UNCHANGED <<prof, sessOf, sess, store, tree, queued, first, wills, firing, sent, crashed, history>>

-----------------------------------------------------------------------------
(* stop *)

\* Faulty variant: a clean session keeps its subscriptions.
unSubNothing(k) ==
  /\ phase[k] = "closing" /\ Goto(k, "unsubscribed")
  /\ queued' = queued \ {k} /\ UNCHANGED tree
  /\ UNCHANGED <<prof, sessOf, sess, store, first, wills, firing, sent, crashed, history>>

\* The core is closed, and what waits in its ring is lost.
unSubAll(k) ==
  /\ phase[k] = "closing" /\ Goto(k, "unsubscribed") /\ queued' = queued \ {k}
  /\ tree' = IF CleanSession(k) /\ SessionOf(k).topic THEN tree \ {k} ELSE tree
  /\ UNCHANGED <<prof, sessOf, sess, store, first, wills, firing, sent, crashed, history>>

\* Faulty variant: the flag that the will was sent is forgotten.
stopWillAgain(k) ==
  /\ phase[k] = "unsubscribed" /\ Goto(k, "willed")
  /\ IF SessionOf(k).flag /\ SessionOf(k).will
     THEN IF prof[sessOf[k]].will = "later" THEN AddJob(k) ELSE GoFn(k)
     ELSE UNCHANGED <<ids, entries, gos>>
  /\ UNCHANGED <<prof, sessOf, sess, store, tree, queued, first, hasSendWill, cancelled, firing, sent, crashed, history>>

stopWill(k) ==
  /\ phase[k] = "unsubscribed" /\ Goto(k, "willed")
  /\ IF SessionOf(k).flag THEN sendWillMsg(k) ELSE UNCHANGED wills
  /\ UNCHANGED <<prof, sessOf, sess, store, tree, queued, first, firing, sent, crashed, history>>

\* A persistent session is stored with its offline time; gCore is given up.
stopSave(k) ==
  /\ phase[k] = "willed" /\ Goto(k, "stopped")
  /\ IF CleanSession(k) THEN UNCHANGED <<sess, store>>
     ELSE /\ sess' = [sess EXCEPT ![sessOf[k]].offline = TRUE]
          /\ store' = [store EXCEPT ![ClientOf(k)] = sessOf[k]]
  /\ UNCHANGED <<prof, sessOf, tree, queued, first, wills, firing, sent, crashed, history>>

-----------------------------------------------------------------------------
Handle(k) ==
  \/ \E p \in Profiles : Connect(k, p)
  \/ processSubscribe(k) \/ processUnsubscribe(k) \/ onPublish(k)
  \/ \E code \in {"normal", "with will"}, e \in Intervals : Disconnect(k, code, e)

\* What goes on by itself once it has begun.
Goes(k) ==
  \/ LookUp(k) \/ getSession(k) \/ recoverSub(k) \/ start(k) \/ AddTopic(k)
  \/ sender(k) \/ unSubAll(k) \/ stopWill(k) \/ stopSave(k)

Timers(k) == GoRuns(k) \/ TimerFires(k) \/ FnPublishes(k, "go") \/ FnPublishes(k, "timer")

Next == ~ crashed /\ \E k \in Svc : Handle(k) \/ processorEnds(k) \/ Goes(k) \/ Timers(k)

Spec == Init /\ [][Next]_vars

\* Goroutines that can run do, and a timer fires in the end.
Fairness ==
  \A k \in Svc : WF_vars(~ crashed /\ Goes(k)) /\ WF_vars(~ crashed /\ Timers(k))
FairSpec == Spec /\ Fairness

-----------------------------------------------------------------------------
(* Properties *)

TypeOK ==
  /\ prof \in [Svc -> Profiles \cup {NoProfile}]
  /\ phase \in [Svc -> {"idle", "refused", "accepted", "looked", "session", "recovered",
                        "running", "subscribing", "closing", "unsubscribed", "willed", "stopped"}]
  /\ sessOf \in [Svc -> 0 .. MaxServices] /\ store \in [Clients -> 0 .. MaxServices]
  /\ sess \in [Svc -> [expires : Intervals, offline : BOOLEAN, will : BOOLEAN, flag : BOOLEAN, topic : BOOLEAN]]
  /\ tree \subseteq Svc /\ queued \subseteq Svc /\ first \in [Svc -> {"", "CONNACK", "PUBLISH"}]
  /\ ids \in [Clients -> 0 .. MaxServices] /\ entries \subseteq Svc /\ gos \subseteq Svc
  /\ \A k \in Svc : phase[k] \in {"session", "recovered", "running", "subscribing"} => sessOf[k] # 0

\* Who can be a trap for publishers: a stopped service stays subscribed only
\* when its session is persistent.  A clean session takes its subscriptions
\* with it, however it ends, so only persistent ones end a publisher's
\* connection or, through a will sent at once, the broker.
StaleOnlyPersistent == \A k \in Stale : ~ CleanSession(k)

\* The CONNACK is the first thing a client is sent (but for the refusal that
\* auth writes itself), unless the session was taken over from, or shared with,
\* another connection: its topics are subscribed before the CONNACK is written, past
\* the ring, so a publisher can be faster.
ConnackFirst ==
  \A k \in Svc :
    first[k] = "PUBLISH" => sessOf[k] # k \/ ClientOf(k) \in overlapped

\* A client that is connected is subscribed to what its session says, whatever
\* session it resumed, unless two of its connections overlapped.
Subscribed ==
  \A k \in Svc :
    phase[k] = "running" /\ SessionOf(k).topic /\ ClientOf(k) \notin overlapped => k \in tree

\* The topic tree and the connections agree, with start, stop, subscribe and
\* recoverSub in any order: whoever is connected is in it, and of those who
\* are not only persistent sessions.
TreeFollowsSessions == TypeOK /\ StaleOnlyPersistent /\ Subscribed

\* A connection resumes only a persistent session of its own client, and while
\* it is open that session is not found expired, although expiry is decided in
\* one look at the store and the session taken in a second one.
SessionContinuity ==
  \A k \in Svc : \A s \in Svc :
    sessOf[k] = s /\ s # k =>
      /\ ClientOf(s) = ClientOf(k) /\ ~ prof[s].clean /\ ~ prof[k].clean
      /\ ~ Over(k) /\ ClientOf(k) \notin overlapped => s \notin expired

\* A will is published at most once for a connection, and never after a normal
\* DISCONNECT, unless connections overlapped (a timer that was registered over
\* fires for ever) or its timer fired between a DISCONNECT with will and the
\* end of stop.
WillOnce ==
  \A k \in Svc :
    \/ sent[k] <= (IF left[k] = "normal" THEN 0 ELSE 1)
    \/ ClientOf(k) \in overlapped
    \/ left[k] = "with will" /\ prof[sessOf[k]].will = "later"

\* A delayed will does not start when its client is back, unless the old
\* connection was still there when the new one began.
NoWillWhenBack ==
  [][\A k \in Svc : TimerFires(k) /\ ClientOf(k) \notin overlapped =>
       \A j \in Svc \ {k} : ClientOf(j) = ClientOf(k) /\ j > k =>
         phase[j] \notin {"session", "recovered", "running", "subscribing"}]_vars

\* A connection that ends while its session has a will has the will published
\* in the end, through stop and goroutine or timer, unless the client is back
\* before its time, another will of the same client cancels it, another
\* connection on the same session gives it up, or the broker has gone down.
WillSettled ==
  \A k \in Svc :
    (phase[k] = "closing" /\ SessionOf(k).will) ~>
      (sent[k] > 0 \/ k \in cancelled \/ crashed \/ (sessOf[k] # 0 /\ ~ SessionOf(k).will))
=============================================================================
