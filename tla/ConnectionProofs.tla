-------------------------- MODULE ConnectionProofs --------------------------
(***************************************************************************)
(* Proofs about Connection for any clients, CONNECT packets and number of  *)
(* connections: who may use a session, that the topic tree follows the     *)
(* sessions, that the CONNACK comes first, and how often a will is sent.   *)
(***************************************************************************)
EXTENDS Connection, TLAPS

-----------------------------------------------------------------------------
(* The inductive invariant, part by part *)

Early == {"idle", "refused", "accepted"}
Served == {"session", "recovered", "running", "subscribing", "closing", "unsubscribed", "willed",
           "stopped"}

\* A service that has seen a CONNECT has one of the packets.
Types == TypeOK /\ expired \subseteq Svc /\ \A k \in Svc : phase[k] # "idle" => prof[k] \in Profiles

\* A session is created by the service it is named after and stays with it;
\* other services use it only if both were persistent and of one client.
SessionsOK ==
  \A k \in Svc :
    /\ phase[k] \in Early => sessOf[k] = 0
    /\ phase[k] \in Served => sessOf[k] # 0
    /\ phase[k] = "looked" /\ sessOf[k] = 0 => ~ prof[k].clean
    /\ sessOf[k] # 0 => sessOf[sessOf[k]] = sessOf[k]
    /\ sessOf[k] \notin {0, k} =>
         ClientOf(sessOf[k]) = ClientOf(k) /\ ~ prof[sessOf[k]].clean /\ ~ prof[k].clean

\* The store holds persistent sessions of the client it lists them under.
StoreOK ==
  \A c \in Clients :
    store[c] # 0 =>
      sessOf[store[c]] = store[c] /\ ClientOf(store[c]) = c /\ ~ prof[store[c]].clean

\* Two open connections of a client have overlapped.
OverlapKnown ==
  \A j, k \in Svc : j # k /\ ClientOf(j) = ClientOf(k) /\ ~ Over(j) /\ ~ Over(k) => ClientOf(k) \in overlapped

\* What was found expired is neither stored nor in use.
ExpiryOK ==
  /\ \A s \in expired : sessOf[s] = s
  /\ \A c \in Clients \ overlapped : store[c] \notin expired
  /\ \A k \in Svc : ~ Over(k) /\ ClientOf(k) \notin overlapped => sessOf[k] \notin expired

\* The tree holds who is connected and has subscribed.
TreeAt(k) ==
  /\ phase[k] \in Early \cup {"looked", "session"} => k \notin tree
  /\ phase[k] = "subscribing" => k \in tree
  /\ phase[k] \in {"recovered", "running"} /\ SessionOf(k).topic /\ ClientOf(k) \notin overlapped => k \in tree
  /\ k \in tree /\ phase[k] # "subscribing" /\ CleanSession(k) =>
       SessionOf(k).topic /\ phase[k] \notin {"unsubscribed", "willed", "stopped"}
TreeOK == \A k \in Svc : TreeAt(k)

IInv == Types /\ SessionsOK /\ StoreOK /\ OverlapKnown /\ ExpiryOK /\ TreeOK

LEMMA ServiceNumbers == 0 \notin Svc /\ 0 .. MaxServices = Svc \cup {0}
BY ConnectionAssumption DEF Svc

\* A service that serves a client has a session, which is in the table.
LEMMA HasSession ==
  ASSUME IInv, NEW k \in Svc, phase[k] \in Served
  PROVE  sessOf[k] \in Svc /\ prof[k] \in Profiles /\ ClientOf(k) \in Clients
<1>1. sessOf[k] # 0 /\ sessOf[k] \in 0 .. MaxServices
  BY DEF IInv, SessionsOK, Types, TypeOK
<1>2. phase[k] # "idle"
  BY DEF Served
<1>3. prof[k] \in Profiles
  BY <1>2 DEF IInv, Types
<1> QED BY <1>1, <1>3, ServiceNumbers, ConnectionAssumption DEF ClientOf

LEMMA InitInv == Init => IInv
<1> SUFFICES ASSUME Init PROVE IInv
  OBVIOUS
<1>1. TypeOK
  BY ServiceNumbers DEF Init, TypeOK, NewSession, NoProfile, Intervals
<1>2. Types /\ SessionsOK /\ StoreOK /\ OverlapKnown /\ ExpiryOK /\ TreeOK
  BY <1>1, ServiceNumbers DEF Init, Types, SessionsOK, StoreOK, OverlapKnown, ExpiryOK, TreeOK, TreeAt, Over, Early, Served
<1> QED BY <1>2 DEF IInv

\* The sessions, the store and the expiries do not notice a step of a service
\* from one of the later phases to another; at its end it may store its session.
Stores(k) ==
  \/ UNCHANGED store
  \/ ~ CleanSession(k) /\ store' = [store EXCEPT ![ClientOf(k)] = sessOf[k]]

LEMMA SteadyStep ==
  ASSUME IInv, NEW k \in Svc, NEW p \in Served, phase[k] \in Served, phase[k] # "stopped",
         phase' = [phase EXCEPT ![k] = p], UNCHANGED <<prof, sessOf, overlapped, expired>>, Stores(k)
  PROVE  SessionsOK' /\ StoreOK' /\ OverlapKnown' /\ ExpiryOK' /\ store' \in [Clients -> 0 .. MaxServices]
<1> USE DEF ClientOf
<1>0. \A j \in Svc : phase'[j] = IF j = k THEN p ELSE phase[j]
  BY DEF IInv, Types, TypeOK
<1>1. \A j \in Svc : /\ phase'[j] \in Early <=> phase[j] \in Early
                     /\ phase'[j] \in Served <=> phase[j] \in Served
                     /\ phase'[j] = "looked" <=> phase[j] = "looked"
                     /\ Over(j) => Over(j)'
  BY <1>0 DEF Early, Served, Over
<1>2. SessionsOK'
  BY <1>1 DEF IInv, SessionsOK
<1>3. OverlapKnown'
  BY <1>1 DEF IInv, OverlapKnown
<1>4. ASSUME UNCHANGED store
      PROVE  StoreOK' /\ ExpiryOK' /\ store' \in [Clients -> 0 .. MaxServices]
  BY <1>1, <1>4 DEF IInv, StoreOK, ExpiryOK, Types, TypeOK
<1>5. ASSUME ~ CleanSession(k), store' = [store EXCEPT ![ClientOf(k)] = sessOf[k]]
      PROVE  StoreOK' /\ ExpiryOK' /\ store' \in [Clients -> 0 .. MaxServices]
  <2>1. sessOf[k] \in Svc /\ sessOf[k] # 0 /\ ClientOf(k) \in Clients
    BY HasSession, ServiceNumbers
  <2>2. /\ \A c \in Clients : store'[c] = IF c = ClientOf(k) THEN sessOf[k] ELSE store[c]
        /\ store' \in [Clients -> 0 .. MaxServices]
    BY <1>5, <2>1, ServiceNumbers DEF IInv, Types, TypeOK
  <2>3. sessOf[sessOf[k]] = sessOf[k] /\ ClientOf(sessOf[k]) = ClientOf(k) /\ ~ prof[sessOf[k]].clean
    BY <1>5, <2>1 DEF IInv, SessionsOK, CleanSession
  <2>4. StoreOK'
    BY <2>2, <2>3 DEF IInv, StoreOK
  <2>5. ~ Over(k)
    BY DEF Over, Served
  <2>6. ExpiryOK'
    BY <1>1, <2>2, <2>5 DEF IInv, ExpiryOK
  <2> QED BY <2>2, <2>4, <2>6
<1> QED BY <1>2, <1>3, <1>4, <1>5 DEF Stores

-----------------------------------------------------------------------------
(* Types *)

\* Cancel leaves the registered entries well formed.
LEMMA CancelTypes ==
  ASSUME TypeOK, NEW k \in Svc, Cancel(k)
  PROVE  ids' \in [Clients -> 0 .. MaxServices] /\ entries' \subseteq Svc
<1>1. CASE ids[ClientOf(k)] = 0
  BY <1>1 DEF Cancel, cron, TypeOK
<1>2. CASE ids[ClientOf(k)] # 0
  BY <1>2, ServiceNumbers DEF Cancel, TypeOK
<1> QED BY <1>1, <1>2

\* So does sending a will at once or later.
LEMMA WillTypes ==
  ASSUME TypeOK, NEW k \in Svc, sendWillMsg(k)
  PROVE  ids' \in [Clients -> 0 .. MaxServices] /\ entries' \subseteq Svc /\ gos' \subseteq Svc
<1>1. CASE UNCHANGED wills
  BY <1>1 DEF wills, cron, TypeOK
<1>2. CASE AddJob(k)
  BY <1>2, ServiceNumbers DEF AddJob, TypeOK
<1>3. CASE GoFn(k)
  BY <1>3 DEF GoFn, TypeOK
<1> QED BY <1>1, <1>2, <1>3 DEF sendWillMsg

\* The types of what only the timers and the will change.
WillState == ids \in [Clients -> 0 .. MaxServices] /\ entries \subseteq Svc /\ gos \subseteq Svc

\* The types of the rest.
ConnState ==
  /\ prof \in [Svc -> Profiles \cup {NoProfile}]
  /\ phase \in [Svc -> Early \cup {"looked"} \cup Served]
  /\ sessOf \in [Svc -> 0 .. MaxServices] /\ store \in [Clients -> 0 .. MaxServices]
  /\ sess \in [Svc -> [expires : Intervals, offline : BOOLEAN, will : BOOLEAN, flag : BOOLEAN, topic : BOOLEAN]]
  /\ tree \subseteq Svc /\ queued \subseteq Svc /\ first \in [Svc -> {"", "CONNACK", "PUBLISH"}]

LEMMA TypesSplit ==
  TypeOK <=> /\ WillState /\ ConnState
             /\ \A k \in Svc : phase[k] \in {"session", "recovered", "running", "subscribing"} => sessOf[k] # 0
<1>1. Early \cup {"looked"} \cup Served =
        {"idle", "refused", "accepted", "looked", "session", "recovered", "running", "subscribing",
         "closing", "unsubscribed", "willed", "stopped"}
  BY DEF Early, Served
<1> QED BY <1>1 DEF TypeOK, WillState, ConnState

\* With the invariant on sessions, the two are enough.
LEMMA TypesFrom ==
  ASSUME IInv, WillState', ConnState', SessionsOK', expired' \subseteq Svc,
         \A k \in Svc : phase'[k] # "idle" => prof'[k] \in Profiles
  PROVE  Types'
<1>1. \A k \in Svc : phase'[k] \in {"session", "recovered", "running", "subscribing"} => sessOf'[k] # 0
  BY DEF SessionsOK, Served
<1>2. TypeOK'
  <2>1. Early \cup {"looked"} \cup Served =
          {"idle", "refused", "accepted", "looked", "session", "recovered", "running", "subscribing",
           "closing", "unsubscribed", "willed", "stopped"}
    BY DEF Early, Served
  <2> QED BY <1>1, <2>1 DEF TypeOK, WillState, ConnState
<1> QED BY <1>2 DEF Types
-----------------------------------------------------------------------------
(* Connecting *)

LEMMA ConnectKeeps ==
  ASSUME IInv, NEW k \in Svc, NEW p \in Profiles, Connect(k, p)
  PROVE  IInv'
<1>1. /\ phase[k] = "idle" /\ prof' = [prof EXCEPT ![k] = p]
      /\ UNCHANGED <<sessOf, sess, store, tree, queued, first, expired, ids, entries, gos>>
  BY DEF Connect, wills, cron
<1>2. PICK q \in {"refused", "accepted"} :
        /\ phase' = [phase EXCEPT ![k] = q]
        /\ \/ q = "refused" /\ UNCHANGED overlapped
           \/ overlapped' = IF \E j \in Svc \ {k} : ClientOf(j) = p.client /\ ~ Over(j)
                            THEN overlapped \cup {p.client} ELSE overlapped
  <2>1. prof'[k] = p
    BY <1>1 DEF IInv, Types, TypeOK
  <2> QED BY <2>1 DEF Connect, Refuse, auth, Goto
<1>3. sessOf[k] = 0 /\ k \notin tree
  BY <1>1 DEF IInv, SessionsOK, TreeOK, TreeAt, Early
<1>4. /\ \A j \in Svc : phase'[j] = IF j = k THEN q ELSE phase[j]
      /\ \A j \in Svc : prof'[j] = IF j = k THEN p ELSE prof[j]
  BY <1>1, <1>2 DEF IInv, Types, TypeOK
<1>5. \A j \in Svc : sessOf[j] # k /\ sessOf[j] \in Svc \cup {0}
  BY <1>3, ServiceNumbers DEF IInv, SessionsOK, Types, TypeOK
<1>6. \A c \in Clients : store[c] # k /\ store[c] \in Svc \cup {0}
  BY <1>3, ServiceNumbers DEF IInv, StoreOK, Types, TypeOK
<1>7. WillState' /\ ConnState'
  BY <1>1, <1>2, TypesSplit DEF IInv, Types, WillState, ConnState, Early
<1>8. SessionsOK'
  BY <1>1, <1>2, <1>3, <1>4, <1>5 DEF IInv, SessionsOK, ClientOf, Early, Served
<1>9. Types'
  BY <1>1, <1>4, <1>7, <1>8, TypesFrom DEF IInv, Types
<1>10. StoreOK'
  BY <1>1, <1>4, <1>6 DEF IInv, StoreOK, ClientOf
<1>11. OverlapKnown'
  <2> SUFFICES ASSUME NEW i \in Svc, NEW j \in Svc, i # j, ClientOf(i)' = ClientOf(j)', ~ Over(i)', ~ Over(j)'
               PROVE  ClientOf(j)' \in overlapped'
    BY DEF OverlapKnown
  <2>1. \A x \in Svc : x # k => (ClientOf(x)' = ClientOf(x) /\ (Over(x)' <=> Over(x)))
    BY <1>4 DEF ClientOf, Over
  <2>2. CASE i # k /\ j # k
    BY <1>2, <2>1, <2>2 DEF IInv, OverlapKnown
  <2>3. CASE i = k \/ j = k
    <3>1. q # "refused" /\ ClientOf(j)' = p.client
      BY <1>4, <2>3 DEF Over, ClientOf
    <3>2. \E x \in Svc \ {k} : ClientOf(x) = p.client /\ ~ Over(x)
      BY <2>1, <2>3, <3>1
    <3> QED BY <1>2, <3>1, <3>2
  <2> QED BY <2>2, <2>3
<1>12. overlapped \subseteq overlapped'
  BY <1>2
<1>13. ExpiryOK'
  BY <1>1, <1>3, <1>4, <1>12, ServiceNumbers DEF IInv, Types, ExpiryOK, ClientOf, Over
<1>14. TreeOK'
  BY <1>1, <1>2, <1>3, <1>4, <1>5, <1>12 DEF IInv, SessionsOK, TreeOK, TreeAt, CleanSession, SessionOf, ClientOf, Early
<1> QED BY <1>8, <1>9, <1>10, <1>11, <1>13, <1>14 DEF IInv
\* A service on its way to a session takes one from the store, or makes its own.
Takes(k) ==
  /\ ~ prof[k].clean /\ store[ClientOf(k)] # 0
  /\ sessOf' = [sessOf EXCEPT ![k] = store[ClientOf(k)]] /\ UNCHANGED <<sess, store, expired>>
Makes(k) ==
  /\ sessOf' = [sessOf EXCEPT ![k] = k] /\ sess' = [sess EXCEPT ![k] = NewSession(prof[k])]
  /\ \/ UNCHANGED store
     \/ ~ prof[k].clean /\ store' = [store EXCEPT ![ClientOf(k)] = k]
  /\ UNCHANGED expired
\* ... or finds the stored one expired.
Drops(k) ==
  /\ store[ClientOf(k)] # 0 /\ store' = [store EXCEPT ![ClientOf(k)] = 0]
  /\ expired' = expired \cup {store[ClientOf(k)]} /\ UNCHANGED <<sessOf, sess>>

\* Whatever it does, its session becomes one that it may use.
LEMMA GettingSession ==
  ASSUME IInv, NEW k \in Svc, NEW p \in {"looked", "session"},
         phase[k] \in {"accepted", "looked"}, sessOf[k] = 0,
         phase' = [phase EXCEPT ![k] = p], UNCHANGED <<prof, overlapped, tree, queued, first>>, WillState',
         \/ Takes(k) \/ Makes(k)
         \/ p = "looked" /\ ~ prof[k].clean /\ (Drops(k) \/ UNCHANGED <<sessOf, sess, store, expired>>)
  PROVE  IInv'
<1> USE DEF ClientOf
<1> DEFINE c == ClientOf(k)
<1>1. \A j \in Svc : phase'[j] = IF j = k THEN p ELSE phase[j]
  BY DEF IInv, Types, TypeOK
<1>2. phase[k] # "idle" /\ prof[k] \in Profiles /\ c \in Clients
  BY ConnectionAssumption DEF IInv, Types
<1>3. k \notin tree
  BY DEF IInv, TreeOK, TreeAt, Early
<1>4. \A j \in Svc : sessOf[j] # k /\ sessOf[j] \in Svc \cup {0}
  BY ServiceNumbers DEF IInv, SessionsOK, Types, TypeOK
<1>5. \A d \in Clients : store[d] # k /\ store[d] \in Svc \cup {0}
  <2>1. k # 0 /\ \A d \in Clients : store[d] \in Svc \cup {0}
    BY ServiceNumbers DEF IInv, Types, TypeOK
  <2> QED BY <2>1 DEF IInv, StoreOK
<1>6. k \notin expired /\ 0 \notin expired
  BY ServiceNumbers DEF IInv, ExpiryOK, Types
<1>7. \A j \in Svc : Over(j)' <=> Over(j)
  BY <1>1 DEF Over
<1>8. OverlapKnown'
  BY <1>7 DEF IInv, OverlapKnown
<1>9. NewSession(prof[k]) \in [expires : Intervals, offline : BOOLEAN, will : BOOLEAN, flag : BOOLEAN, topic : BOOLEAN]
  BY <1>2, ConnectionAssumption DEF NewSession
<1>10. TypeOK /\ phase' \in [Svc -> Early \cup {"looked"} \cup Served]
  BY TypesSplit DEF IInv, Types, ConnState, Served
<1>11. CASE Takes(k)
  <2>1. /\ sessOf' \in [Svc -> 0 .. MaxServices]
        /\ \A j \in Svc : sessOf'[j] = IF j = k THEN store[c] ELSE sessOf[j]
    BY <1>2, <1>10, <1>11 DEF Takes, TypeOK
  <2>2. store[c] \in Svc /\ store[c] # k /\ sessOf[store[c]] = store[c] /\ prof[store[c]].client = c /\ ~ prof[store[c]].clean
    BY <1>2, <1>5, <1>11 DEF IInv, StoreOK, Takes
  <2>3. SessionsOK'
    BY <1>1, <1>4, <1>11, <2>1, <2>2, ServiceNumbers DEF IInv, SessionsOK, Takes, Early, Served
  <2>4. StoreOK'
    BY <1>5, <1>11, <2>1 DEF IInv, StoreOK, Takes
  <2>5. ExpiryOK'
    BY <1>2, <1>6, <1>7, <1>11, <2>1 DEF IInv, Types, ExpiryOK, Takes
  <2>6. TreeOK'
    BY <1>1, <1>3, <1>4, <1>11, <2>1 DEF IInv, TreeOK, TreeAt, Takes, SessionOf, CleanSession, Early
  <2>7. ConnState' /\ expired' = expired
    BY <1>10, <1>11, <2>1 DEF Takes, ConnState, TypeOK
  <2> QED BY <1>1, <1>2, <1>8, <2>3, <2>4, <2>5, <2>6, <2>7, TypesFrom DEF IInv, Types
<1>12. CASE Makes(k)
  <2>1. /\ sessOf' \in [Svc -> 0 .. MaxServices]
        /\ \A j \in Svc : sessOf'[j] = IF j = k THEN k ELSE sessOf[j]
    BY <1>10, <1>12, ServiceNumbers DEF Makes, TypeOK
  <2>2. /\ store' \in [Clients -> 0 .. MaxServices]
        /\ \A d \in Clients : store'[d] = store[d] \/ (d = c /\ store'[d] = k /\ ~ prof[k].clean)
    <3>1. CASE UNCHANGED store
      BY <1>10, <3>1 DEF TypeOK
    <3>2. CASE ~ prof[k].clean /\ store' = [store EXCEPT ![c] = k]
      BY <1>2, <1>10, <3>2, ServiceNumbers DEF TypeOK
    <3> QED BY <1>12, <3>1, <3>2 DEF Makes
  <2>3. SessionsOK'
    BY <1>1, <1>4, <1>12, <2>1, ServiceNumbers DEF IInv, SessionsOK, Makes, Early, Served
  <2>4. StoreOK'
    BY <1>5, <1>12, <2>1, <2>2 DEF IInv, StoreOK, Makes
  <2>5. ExpiryOK'
    BY <1>6, <1>7, <1>12, <2>1, <2>2 DEF IInv, Types, ExpiryOK, Makes
  <2>6. /\ sess' \in [Svc -> [expires : Intervals, offline : BOOLEAN, will : BOOLEAN, flag : BOOLEAN, topic : BOOLEAN]]
        /\ \A j \in Svc : j # k => sess'[j] = sess[j]
    BY <1>9, <1>10, <1>12 DEF Makes, TypeOK
  <2>7. TreeOK'
    <3>1. \A j \in Svc : j # k /\ sessOf[j] # 0 => SessionOf(j)' = SessionOf(j) /\ CleanSession(j)' = CleanSession(j)
      BY <1>4, <2>1, <2>6 DEF SessionOf, CleanSession
    <3>2. \A j \in Svc : sessOf[j] = 0 => phase[j] \in Early \cup {"looked"}
      BY <1>10, TypesSplit DEF IInv, SessionsOK, ConnState
    <3> QED BY <1>1, <1>3, <3>1, <3>2 DEF IInv, TreeOK, TreeAt, Early
  <2>8. ConnState' /\ expired' = expired
    BY <1>10, <1>12, <2>1, <2>2, <2>6 DEF Makes, ConnState, TypeOK
  <2> QED BY <1>1, <1>2, <1>8, <2>3, <2>4, <2>5, <2>7, <2>8, TypesFrom DEF IInv, Types
<1>13. CASE p = "looked" /\ ~ prof[k].clean /\ UNCHANGED <<sessOf, sess, store, expired>>
  <2>1. SessionsOK'
    BY <1>1, <1>13 DEF IInv, SessionsOK, Early, Served
  <2>2. StoreOK' /\ ExpiryOK'
    BY <1>7, <1>13 DEF IInv, StoreOK, ExpiryOK
  <2>3. TreeOK'
    BY <1>1, <1>3, <1>13 DEF IInv, TreeOK, TreeAt, SessionOf, CleanSession, Early
  <2>4. ConnState'
    BY <1>10, <1>13 DEF ConnState, TypeOK
  <2> QED BY <1>1, <1>2, <1>8, <1>13, <2>1, <2>2, <2>3, <2>4, TypesFrom DEF IInv, Types
<1>14. CASE p = "looked" /\ ~ prof[k].clean /\ Drops(k)
  <2>1. /\ store' \in [Clients -> 0 .. MaxServices]
        /\ \A d \in Clients : store'[d] = IF d = c THEN 0 ELSE store[d]
    BY <1>2, <1>10, <1>14, ServiceNumbers DEF Drops, TypeOK
  <2>2. store[c] \in Svc /\ sessOf[store[c]] = store[c] /\ prof[store[c]].client = c
    BY <1>2, <1>5, <1>14 DEF IInv, StoreOK, Drops
  <2>3. SessionsOK'
    BY <1>1, <1>14 DEF IInv, SessionsOK, Drops, Early, Served
  <2>4. StoreOK'
    BY <1>14, <2>1 DEF IInv, StoreOK, Drops
  <2>5. ExpiryOK'
    <3>1. \A s \in expired' : sessOf'[s] = s
      BY <1>14, <2>2 DEF IInv, ExpiryOK, Drops
    <3>2. ASSUME NEW d \in Clients \ overlapped PROVE store'[d] \notin expired'
      <4>1. store[d] = store[c] => d = c
        BY <1>14, <2>2 DEF IInv, StoreOK, Drops
      <4> QED BY <1>6, <1>14, <2>1, <2>2, <4>1, ServiceNumbers DEF IInv, ExpiryOK, Drops
    <3>3. ASSUME NEW j \in Svc, ~ Over(j), ClientOf(j) \notin overlapped PROVE sessOf[j] \notin expired'
      <4>1. sessOf[j] = store[c] => ClientOf(j) = c
        BY <2>2, ServiceNumbers DEF IInv, SessionsOK
      <4>2. sessOf[j] = store[c] => j # k
        BY <1>14 DEF Drops
      <4>3. ~ Over(k)
        BY DEF Over
      <4>4. sessOf[j] # store[c]
        BY <3>3, <4>1, <4>2, <4>3 DEF IInv, OverlapKnown
      <4> QED BY <1>14, <3>3, <4>4 DEF IInv, ExpiryOK, Drops
    <3> QED BY <1>7, <1>14, <3>1, <3>2, <3>3 DEF ExpiryOK, Drops
  <2>6. TreeOK'
    BY <1>1, <1>3, <1>14 DEF IInv, TreeOK, TreeAt, SessionOf, CleanSession, Early, Drops
  <2>7. ConnState' /\ expired' \subseteq Svc
    BY <1>10, <1>14, <2>1, <2>2 DEF ConnState, TypeOK, Drops, IInv, Types
  <2> QED BY <1>1, <1>2, <1>8, <2>3, <2>4, <2>5, <2>6, <2>7, TypesFrom DEF IInv, Types
<1> QED BY <1>11, <1>12, <1>13, <1>14
LEMMA LookUpKeepsInv ==
  ASSUME IInv, NEW k \in Svc, LookUp(k)
  PROVE  IInv'
<1>1. /\ phase[k] = "accepted" /\ phase' = [phase EXCEPT ![k] = "looked"]
      /\ UNCHANGED <<prof, tree, queued, first, overlapped, ids, entries, gos>>
  BY DEF LookUp, Goto, wills, cron
<1>2. sessOf[k] = 0
  BY <1>1 DEF IInv, SessionsOK, Early
<1>3. WillState'
  BY <1>1, TypesSplit DEF IInv, Types, WillState
<1>4. \/ Takes(k) \/ Makes(k)
      \/ ~ prof[k].clean /\ (Drops(k) \/ UNCHANGED <<sessOf, sess, store, expired>>)
  BY DEF LookUp, Takes, Makes, Drops
<1> QED BY <1>1, <1>2, <1>3, <1>4, GettingSession

LEMMA GetSessionKeeps ==
  ASSUME IInv, NEW k \in Svc, getSession(k)
  PROVE  IInv'
<1>1. /\ phase[k] = "looked" /\ phase' = [phase EXCEPT ![k] = "session"]
      /\ UNCHANGED <<prof, tree, queued, first, overlapped, expired, gos>> /\ GetOrCreate(k) /\ Cancel(k)
  BY DEF getSession, Goto, history
<1>2. WillState'
  BY <1>1, CancelTypes, TypesSplit DEF IInv, Types, WillState
<1>3. CASE sessOf[k] = 0
  <2>1. ~ prof[k].clean
    BY <1>1, <1>3 DEF IInv, SessionsOK
  <2>2. Takes(k) \/ Makes(k)
    BY <1>1, <1>3, <2>1 DEF GetOrCreate, Takes, Makes
  <2> QED BY <1>1, <1>2, <1>3, <2>2, GettingSession
<1>4. CASE sessOf[k] # 0
  <2>1. UNCHANGED <<sessOf, sess, store>>
    BY <1>1, <1>4 DEF GetOrCreate
  <2>2. \A j \in Svc : phase'[j] = IF j = k THEN "session" ELSE phase[j]
    BY <1>1 DEF IInv, Types, TypeOK
  <2>3. \A j \in Svc : Over(j)' <=> Over(j)
    BY <1>1, <2>2 DEF Over
  <2>4. SessionsOK'
    BY <1>1, <1>4, <2>1, <2>2 DEF IInv, SessionsOK, ClientOf, Early, Served
  <2>5. StoreOK' /\ OverlapKnown' /\ ExpiryOK'
    BY <1>1, <2>1, <2>3 DEF IInv, StoreOK, OverlapKnown, ExpiryOK, ClientOf
  <2>6. TreeOK'
    BY <1>1, <2>1, <2>2 DEF IInv, TreeOK, TreeAt, SessionOf, CleanSession, ClientOf, Early
  <2>7. ConnState'
    BY <1>1, <2>1, TypesSplit DEF IInv, Types, ConnState, Served
  <2> QED BY <1>1, <1>2, <2>1, <2>2, <2>4, <2>5, <2>6, <2>7, TypesFrom DEF IInv, Types
<1> QED BY <1>3, <1>4
-----------------------------------------------------------------------------
(* Serving, and the wills *)

\* Two services with one session are of one client, and the session persists.
LEMMA SharedSession ==
  ASSUME IInv, NEW j \in Svc, NEW k \in Svc, j # k, sessOf[j] = sessOf[k], sessOf[k] # 0
  PROVE  ClientOf(j) = ClientOf(k) /\ ~ CleanSession(j) /\ ~ CleanSession(k)
BY DEF IInv, SessionsOK, CleanSession

\* A step that touches only queues, wills and timers.
LEMMA QueueStep ==
  ASSUME IInv, WillState', queued' \subseteq Svc, first' \in [Svc -> {"", "CONNACK", "PUBLISH"}],
         UNCHANGED <<prof, phase, sessOf, sess, store, tree, overlapped, expired>>
  PROVE  IInv'
<1>1. SessionsOK' /\ StoreOK' /\ OverlapKnown' /\ ExpiryOK'
  BY DEF IInv, SessionsOK, StoreOK, OverlapKnown, ExpiryOK, ClientOf, Over
<1>2. TreeOK'
  BY DEF IInv, TreeOK, TreeAt, SessionOf, CleanSession, ClientOf
<1>3. ConnState'
  BY TypesSplit DEF IInv, Types, ConnState
<1> QED BY <1>1, <1>2, <1>3, TypesFrom DEF IInv, Types

\* A step of a service that serves a client: what it does to its own place in
\* the tree and to the topic of its session has to be right for itself only.
LEMMA ServedStep ==
  ASSUME IInv, NEW k \in Svc, NEW p \in Served, phase[k] \in Served, phase[k] # "stopped",
         phase' = [phase EXCEPT ![k] = p], UNCHANGED <<prof, sessOf, overlapped, expired>>, Stores(k),
         tree' \in {tree, tree \cup {k}, tree \ {k}},
         NEW r \in [expires : Intervals, offline : BOOLEAN, will : BOOLEAN, flag : BOOLEAN, topic : BOOLEAN],
         sess' = [sess EXCEPT ![sessOf[k]] = r],
         queued' \subseteq Svc, first' \in [Svc -> {"", "CONNACK", "PUBLISH"}], WillState', TreeAt(k)'
  PROVE  IInv'
<1>1. SessionsOK' /\ StoreOK' /\ OverlapKnown' /\ ExpiryOK' /\ store' \in [Clients -> 0 .. MaxServices]
  BY SteadyStep
<1>2. /\ sessOf[k] \in Svc /\ sessOf[k] # 0 /\ prof[k] \in Profiles
  BY HasSession, ServiceNumbers
<1>3. /\ sess' \in [Svc -> [expires : Intervals, offline : BOOLEAN, will : BOOLEAN, flag : BOOLEAN, topic : BOOLEAN]]
      /\ \A s \in Svc : s # sessOf[k] => sess'[s] = sess[s]
  BY <1>2 DEF IInv, Types, TypeOK
<1>4. /\ \A j \in Svc : phase'[j] = IF j = k THEN p ELSE phase[j]
      /\ phase' \in [Svc -> Early \cup {"looked"} \cup Served]
  BY TypesSplit DEF IInv, Types, ConnState
<1>5. ConnState'
  BY <1>1, <1>3, <1>4, TypesSplit DEF IInv, Types, ConnState
<1>6. phase[k] # "idle"
  BY DEF Served
<1>7. Types'
  BY <1>1, <1>2, <1>4, <1>5, TypesFrom DEF IInv, Types
<1>8. ASSUME NEW j \in Svc, j # k PROVE TreeAt(j)'
  <2>1. phase'[j] = phase[j] /\ (j \in tree' <=> j \in tree) /\ CleanSession(j)' = CleanSession(j) /\ ClientOf(j)' = ClientOf(j)
    BY <1>4, <1>8 DEF CleanSession, ClientOf
  <2>2. TreeAt(j) /\ overlapped' = overlapped
    BY DEF IInv, TreeOK
  <2>3. CASE sessOf[j] \in Svc /\ sessOf[j] # sessOf[k]
    <3>1. SessionOf(j)' = SessionOf(j)
      BY <1>3, <2>3 DEF SessionOf
    <3> QED BY <2>1, <2>2, <3>1 DEF TreeAt
  <2>4. CASE sessOf[j] = sessOf[k]
    <3>1. ClientOf(j) = ClientOf(k) /\ ~ CleanSession(j)
      BY <1>2, <1>8, <2>4, SharedSession
    <3>2. phase[j] \in {"recovered", "running"} => ClientOf(j) \in overlapped
      BY <1>8, <3>1 DEF IInv, OverlapKnown, Over, Served
    <3> QED BY <2>1, <2>2, <3>1, <3>2 DEF TreeAt
  <2>5. CASE sessOf[j] = 0
    <3>1. phase[j] \in Early \cup {"looked"}
      BY <2>5, TypesSplit DEF IInv, Types, SessionsOK, ConnState
    <3> QED BY <2>1, <2>2, <3>1 DEF TreeAt, Early
  <2>6. sessOf[j] \in Svc \cup {0}
    BY ServiceNumbers DEF IInv, Types, TypeOK
  <2> QED BY <2>3, <2>4, <2>5, <2>6
<1>9. TreeOK'
  BY <1>8 DEF TreeOK
<1> QED BY <1>1, <1>7, <1>9 DEF IInv

\* The step of a service that leaves the sessions alone.
LEMMA PlainStep ==
  ASSUME IInv, NEW k \in Svc, NEW p \in Served, phase[k] \in Served, phase[k] # "stopped",
         phase' = [phase EXCEPT ![k] = p], UNCHANGED <<prof, sessOf, sess, overlapped, expired>>, Stores(k),
         tree' \in {tree, tree \cup {k}, tree \ {k}},
         queued' \subseteq Svc, first' \in [Svc -> {"", "CONNACK", "PUBLISH"}], WillState', TreeAt(k)'
  PROVE  IInv'
<1>1. sessOf[k] \in Svc
  BY HasSession
<1>2. sess[sessOf[k]] \in [expires : Intervals, offline : BOOLEAN, will : BOOLEAN, flag : BOOLEAN, topic : BOOLEAN]
  BY <1>1 DEF IInv, Types, TypeOK
<1>3. sess' = [sess EXCEPT ![sessOf[k]] = sess[sessOf[k]]]
  BY <1>1 DEF IInv, Types, TypeOK
<1> QED BY <1>2, <1>3, ServedStep

\* What a step that leaves the wills and the queues alone keeps of the types.
LEMMA OldTypes ==
  ASSUME IInv
  PROVE  /\ WillState /\ ConnState /\ TypeOK
         /\ UNCHANGED wills => WillState'
BY TypesSplit DEF IInv, Types, WillState, wills, cron

LEMMA StartingKeeps ==
  ASSUME IInv, NEW k \in Svc, recoverSub(k) \/ start(k)
  PROVE  IInv'
<1> USE DEF Goto, history
<1>1. CASE recoverSub(k)
  <2>1. /\ phase[k] = "session" /\ phase' = [phase EXCEPT ![k] = "recovered"]
        /\ tree' = IF SessionOf(k).topic THEN tree \cup {k} ELSE tree
        /\ UNCHANGED <<prof, sessOf, sess, store, queued, first, wills, overlapped, expired>>
    BY <1>1 DEF recoverSub
  <2>2. TreeAt(k)'
    BY <2>1, OldTypes DEF IInv, TreeOK, TreeAt, ConnState, SessionOf, CleanSession, Early
  <2> QED BY <2>1, <2>2, OldTypes, PlainStep DEF Served, Stores, ConnState
<1>2. CASE start(k)
  <2>1. PICK p \in {"running", "closing"} :
          /\ phase[k] = "recovered" /\ phase' = [phase EXCEPT ![k] = p]
          /\ UNCHANGED <<prof, sessOf, sess, store, tree, queued, wills, overlapped, expired>>
    BY <1>2 DEF start
  <2>2. first' \in [Svc -> {"", "CONNACK", "PUBLISH"}]
    BY <1>2, OldTypes DEF start, Write, ConnState
  <2>3. TreeAt(k)'
    BY <2>1, OldTypes DEF IInv, TreeOK, TreeAt, ConnState, SessionOf, CleanSession, ClientOf, Early
  <2> QED BY <2>1, <2>2, <2>3, OldTypes, PlainStep DEF Served, Stores, ConnState
<1> QED BY <1>1, <1>2

\* A publish reaches services only.
LEMMA ReachedServices ==
  ASSUME IInv, NEW S \in SUBSET tree
  PROVE  Reached(S) \subseteq Svc
BY OldTypes DEF Reached, ConnState

SessionType == [expires : Intervals, offline : BOOLEAN, will : BOOLEAN, flag : BOOLEAN, topic : BOOLEAN]

\* The record of a session keeps its type when one of its flags changes.
LEMMA SessionFlag ==
  ASSUME NEW x \in SessionType, NEW b \in BOOLEAN
  PROVE  [x EXCEPT !.topic = b] \in SessionType /\ [x EXCEPT !.offline = b] \in SessionType
BY DEF SessionType

LEMMA HasRecord ==
  ASSUME IInv, NEW k \in Svc, sessOf[k] \in Svc
  PROVE  sess[sessOf[k]] \in SessionType
BY OldTypes DEF ConnState, SessionType

LEMMA ProcessorKeeps ==
  ASSUME IInv, NEW k \in Svc,
         processSubscribe(k) \/ AddTopic(k) \/ processUnsubscribe(k) \/ onPublish(k) \/ processorEnds(k)
  PROVE  IInv'
<1> USE DEF Goto, history
<1>1. CASE processSubscribe(k)
  <2>1. /\ phase[k] = "running" /\ phase' = [phase EXCEPT ![k] = "subscribing"] /\ tree' = tree \cup {k}
        /\ UNCHANGED <<prof, sessOf, sess, store, queued, first, wills, overlapped, expired>>
    BY <1>1 DEF processSubscribe
  <2>2. TreeAt(k)'
    BY <2>1, OldTypes DEF TreeAt, ConnState, Early
  <2> QED BY <2>1, <2>2, OldTypes, PlainStep DEF Served, Stores, ConnState
<1>2. CASE AddTopic(k)
  <2>1. /\ phase[k] = "subscribing" /\ phase' = [phase EXCEPT ![k] = "running"]
        /\ sess' = [sess EXCEPT ![sessOf[k]].topic = TRUE]
        /\ UNCHANGED <<prof, sessOf, store, tree, queued, first, wills, overlapped, expired>>
    BY <1>2 DEF AddTopic
  <2>2. sessOf[k] \in Svc
    BY <2>1, HasSession DEF Served
  <2>3. PICK r \in SessionType : r = [sess[sessOf[k]] EXCEPT !.topic = TRUE]
    BY <2>2, HasRecord, SessionFlag
  <2>4. sess' = [sess EXCEPT ![sessOf[k]] = r] /\ sess'[sessOf[k]].topic = TRUE
    BY <2>1, <2>2, <2>3, OldTypes DEF ConnState, SessionType
  <2>5. TreeAt(k)'
    BY <2>1, <2>4, OldTypes DEF IInv, TreeOK, TreeAt, ConnState, SessionOf, Early
  <2> QED BY <2>1, <2>3, <2>4, <2>5, OldTypes, ServedStep DEF Served, Stores, ConnState, SessionType
<1>3. CASE processUnsubscribe(k)
  <2>1. /\ phase[k] = "running" /\ tree' = tree \ {k}
        /\ sess' = [sess EXCEPT ![sessOf[k]].topic = FALSE]
        /\ UNCHANGED <<prof, phase, sessOf, store, queued, first, wills, overlapped, expired>>
    BY <1>3 DEF processUnsubscribe
  <2>2. sessOf[k] \in Svc /\ phase' = [phase EXCEPT ![k] = "running"]
    BY <2>1, HasSession, OldTypes DEF Served, ConnState
  <2>3. PICK r \in SessionType : r = [sess[sessOf[k]] EXCEPT !.topic = FALSE]
    BY <2>2, HasRecord, SessionFlag
  <2>4. sess' = [sess EXCEPT ![sessOf[k]] = r] /\ sess'[sessOf[k]].topic = FALSE
    BY <2>1, <2>2, <2>3, OldTypes DEF ConnState, SessionType
  <2>5. TreeAt(k)'
    BY <2>1, <2>4 DEF TreeAt, SessionOf, Early
  <2> QED BY <2>1, <2>2, <2>3, <2>4, <2>5, OldTypes, ServedStep DEF Served, Stores, ConnState, SessionType
<1>4. CASE onPublish(k)
  <2>1. /\ phase[k] = "running"
        /\ UNCHANGED <<prof, sessOf, sess, store, tree, first, wills, overlapped, expired>>
    BY <1>4 DEF onPublish
  <2>2. queued' \subseteq Svc
    BY <1>4, ReachedServices DEF onPublish
  <2>3. CASE UNCHANGED phase
    BY <2>1, <2>2, <2>3, OldTypes, QueueStep DEF ConnState
  <2>4. CASE phase' = [phase EXCEPT ![k] = "closing"]
    <3>1. TreeAt(k)'
      BY <2>1, <2>4, OldTypes DEF IInv, TreeOK, TreeAt, ConnState, SessionOf, CleanSession, Early
    <3> QED BY <2>1, <2>2, <2>4, <3>1, OldTypes, PlainStep DEF Served, Stores, ConnState
  <2> QED BY <1>4, <2>3, <2>4 DEF onPublish
<1>5. CASE processorEnds(k)
  <2>1. /\ phase[k] = "running" /\ phase' = [phase EXCEPT ![k] = "closing"]
        /\ UNCHANGED <<prof, sessOf, sess, store, tree, queued, first, wills, overlapped, expired>>
    BY <1>5 DEF processorEnds
  <2>2. TreeAt(k)'
    BY <2>1, OldTypes DEF IInv, TreeOK, TreeAt, ConnState, SessionOf, CleanSession, Early
  <2> QED BY <2>1, <2>2, OldTypes, PlainStep DEF Served, Stores, ConnState
<1> QED BY <1>1, <1>2, <1>3, <1>4, <1>5

\* What a DISCONNECT does to the record of its session.
LEMMA DisconnectRecord ==
  ASSUME IInv, NEW k \in Svc, NEW code \in {"normal", "with will"}, NEW e \in Intervals, Disconnect(k, code, e)
  PROVE  \E r \in SessionType :
           /\ sess' = [sess EXCEPT ![sessOf[k]] = r] /\ r.topic = sess[sessOf[k]].topic
           /\ r.will = (code = "with will" /\ sess[sessOf[k]].will)
<1> DEFINE s == sessOf[k]
           stays == code = "with will"
           refused == e # "none" /\ sess[s].expires = "none"
           x == IF e = "none" \/ refused THEN sess[s].expires ELSE e
           w == IF stays THEN sess[s].will ELSE FALSE
           f == IF stays THEN sess[s].flag ELSE FALSE
           r == [sess[s] EXCEPT !.will = w, !.flag = f, !.expires = x]
<1>1. s \in Svc
  BY HasSession DEF Disconnect, Served
<1>2. sess[s] \in SessionType
  BY <1>1, HasRecord
<1>3. x \in Intervals
  BY <1>2 DEF SessionType
<1>4. w \in BOOLEAN /\ f \in BOOLEAN /\ w = (stays /\ sess[s].will)
  BY <1>2 DEF SessionType
<1>5. sess' = [sess EXCEPT ![s] = r]
  <2>1. sess' = [sess EXCEPT ![s].will = IF stays THEN @ ELSE FALSE,
                             ![s].flag = IF stays THEN @ ELSE FALSE,
                             ![s].expires = IF e = "none" \/ refused THEN @ ELSE e]
    BY DEF Disconnect
  <2> QED BY <1>1, <2>1, OldTypes DEF ConnState, SessionType
<1>6. r \in SessionType /\ r.topic = sess[s].topic /\ r.will = w
  <2> HIDE DEF x, w, f
  <2> QED BY <1>2, <1>3, <1>4 DEF SessionType
<1> HIDE DEF r, w
<1> QED BY <1>4, <1>5, <1>6

LEMMA DisconnectKeeps ==
  ASSUME IInv, NEW k \in Svc, NEW code \in {"normal", "with will"}, NEW e \in Intervals, Disconnect(k, code, e)
  PROVE  IInv'
<1>1. /\ phase[k] = "running" /\ phase' = [phase EXCEPT ![k] = "closing"]
      /\ UNCHANGED <<prof, sessOf, store, tree, queued, first, overlapped, expired>>
  BY DEF Disconnect, Goto
<1>2. sessOf[k] \in Svc
  BY <1>1, HasSession DEF Served
<1>3. PICK r \in SessionType :
        sess' = [sess EXCEPT ![sessOf[k]] = r] /\ r.topic = sess[sessOf[k]].topic
  BY DisconnectRecord
<1>4. WillState'
  <2>1. CASE sendWillMsg(k)
    BY <2>1, WillTypes, OldTypes DEF WillState
  <2>2. CASE UNCHANGED wills
    BY <2>2, OldTypes
  <2> QED BY <2>1, <2>2 DEF Disconnect
<1>5. SessionOf(k)'.topic = SessionOf(k).topic
  BY <1>1, <1>2, <1>3, OldTypes DEF SessionOf, ConnState
<1>6. TreeAt(k)'
  BY <1>1, <1>5, OldTypes DEF IInv, TreeOK, TreeAt, ConnState, CleanSession, Early
<1> QED BY <1>1, <1>3, <1>4, <1>6, OldTypes, ServedStep DEF Served, Stores, ConnState, SessionType

LEMMA StopKeeps ==
  ASSUME IInv, NEW k \in Svc, unSubAll(k) \/ stopWill(k) \/ stopSave(k)
  PROVE  IInv'
<1> USE DEF Goto, history
<1>1. CASE unSubAll(k)
  <2>1. /\ phase[k] = "closing" /\ phase' = [phase EXCEPT ![k] = "unsubscribed"] /\ queued' = queued \ {k}
        /\ tree' = IF CleanSession(k) /\ SessionOf(k).topic THEN tree \ {k} ELSE tree
        /\ UNCHANGED <<prof, sessOf, sess, store, first, wills, overlapped, expired>>
    BY <1>1 DEF unSubAll
  <2>2. TreeAt(k)'
    BY <2>1, OldTypes DEF IInv, TreeOK, TreeAt, ConnState, SessionOf, CleanSession, Early
  <2>3. tree' \in {tree, tree \cup {k}, tree \ {k}}
    BY <2>1
  <2> QED BY <2>1, <2>2, <2>3, OldTypes, PlainStep DEF Served, Stores, ConnState
<1>2. CASE stopWill(k)
  <2>1. /\ phase[k] = "unsubscribed" /\ phase' = [phase EXCEPT ![k] = "willed"]
        /\ UNCHANGED <<prof, sessOf, sess, store, tree, queued, first, overlapped, expired>>
    BY <1>2 DEF stopWill
  <2>2. WillState'
    <3>1. CASE sendWillMsg(k)
      BY <3>1, WillTypes, OldTypes DEF WillState
    <3>2. CASE UNCHANGED wills
      BY <3>2, OldTypes
    <3> QED BY <1>2, <3>1, <3>2 DEF stopWill
  <2>3. TreeAt(k)'
    BY <2>1, OldTypes DEF IInv, TreeOK, TreeAt, ConnState, SessionOf, CleanSession, Early
  <2> QED BY <2>1, <2>2, <2>3, OldTypes, PlainStep DEF Served, Stores, ConnState
<1>3. CASE stopSave(k)
  <2>1. /\ phase[k] = "willed" /\ phase' = [phase EXCEPT ![k] = "stopped"]
        /\ UNCHANGED <<prof, sessOf, tree, queued, first, wills, overlapped, expired>>
    BY <1>3 DEF stopSave
  <2>2. sessOf[k] \in Svc
    BY <2>1, HasSession DEF Served
  <2>3. CASE CleanSession(k)
    <3>1. UNCHANGED <<sess, store>>
      BY <1>3, <2>3 DEF stopSave
    <3>2. TreeAt(k)'
      BY <2>1, <3>1, OldTypes DEF IInv, TreeOK, TreeAt, ConnState, SessionOf, CleanSession, Early
    <3> QED BY <2>1, <3>1, <3>2, OldTypes, PlainStep DEF Served, Stores, ConnState
  <2>4. CASE ~ CleanSession(k)
    <3>1. PICK r \in SessionType : r = [sess[sessOf[k]] EXCEPT !.offline = TRUE]
      BY <2>2, HasRecord, SessionFlag
    <3>2. sess' = [sess EXCEPT ![sessOf[k]] = r]
      BY <1>3, <2>2, <2>4, <3>1, OldTypes DEF stopSave, ConnState, SessionType
    <3>3. Stores(k)
      BY <1>3, <2>4 DEF stopSave, Stores
    <3>4. TreeAt(k)'
      BY <2>1, <2>4, OldTypes DEF TreeAt, ConnState, CleanSession, Early
    <3> QED BY <2>1, <3>1, <3>2, <3>3, <3>4, OldTypes, ServedStep DEF Served, ConnState, SessionType
  <2> QED BY <2>3, <2>4
<1> QED BY <1>1, <1>2, <1>3

LEMMA QueuesKeep ==
  ASSUME IInv, NEW k \in Svc,
         sender(k) \/ GoRuns(k) \/ TimerFires(k) \/ \E kind \in {"go", "timer"} : FnPublishes(k, kind)
  PROVE  IInv'
<1> USE DEF history
<1>1. CASE sender(k)
  <2>1. /\ queued' \subseteq Svc /\ first' \in [Svc -> {"", "CONNACK", "PUBLISH"}]
        /\ UNCHANGED <<prof, phase, sessOf, sess, store, tree, wills, overlapped, expired>>
    BY <1>1, OldTypes DEF sender, Write, ConnState
  <2> QED BY <2>1, OldTypes, QueueStep
<1>2. CASE GoRuns(k)
  <2>1. Cancel(k) /\ gos' \subseteq gos
    BY <1>2 DEF GoRuns
  <2>2. WillState'
    BY <2>1, CancelTypes, OldTypes DEF WillState
  <2> QED BY <1>2, <2>2, OldTypes, QueueStep DEF GoRuns, ConnState
<1>3. CASE TimerFires(k)
  <2>1. Cancel(k) /\ gos' = gos
    BY <1>3 DEF TimerFires
  <2>2. WillState'
    BY <2>1, CancelTypes, OldTypes DEF WillState
  <2> QED BY <1>3, <2>2, OldTypes, QueueStep DEF TimerFires, ConnState
<1>4. ASSUME NEW kind \in {"go", "timer"}, FnPublishes(k, kind)
      PROVE  IInv'
  <2>1. queued' \subseteq Svc
    BY <1>4, ReachedServices DEF FnPublishes
  <2>2. WillState'
    <3>1. CASE UNCHANGED <<ids, entries>>
      BY <1>4, <3>1, OldTypes DEF FnPublishes, WillState
    <3>2. CASE /\ ids' = [ids EXCEPT ![ClientOf(k)] = 0]
               /\ entries' = entries \ {ids[ClientOf(k)]}
      BY <1>4, <3>2, OldTypes, ServiceNumbers DEF FnPublishes, WillState
    <3> QED BY <1>4, <3>1, <3>2 DEF FnPublishes
  <2> QED BY <1>4, <2>1, <2>2, OldTypes, QueueStep DEF FnPublishes, ConnState
<1> QED BY <1>1, <1>2, <1>3, <1>4

LEMMA NextInv == IInv /\ [Next]_vars => IInv'
<1> SUFFICES ASSUME IInv, [Next]_vars PROVE IInv'
  OBVIOUS
<1>1. ASSUME NEW k \in Svc, Handle(k) PROVE IInv'
  BY <1>1, ConnectKeeps, ProcessorKeeps, DisconnectKeeps DEF Handle
<1>2. ASSUME NEW k \in Svc, processorEnds(k) PROVE IInv'
  BY <1>2, ProcessorKeeps
<1>3. ASSUME NEW k \in Svc, Goes(k) PROVE IInv'
  BY <1>3, LookUpKeepsInv, GetSessionKeeps, StartingKeeps, ProcessorKeeps, QueuesKeep, StopKeeps DEF Goes
<1>4. ASSUME NEW k \in Svc, Timers(k) PROVE IInv'
  BY <1>4, QueuesKeep DEF Timers
<1>5. CASE UNCHANGED vars
  BY <1>5, OldTypes, QueueStep DEF vars, wills, cron, history, ConnState
<1> QED BY <1>1, <1>2, <1>3, <1>4, <1>5 DEF Next

-----------------------------------------------------------------------------
(* What a client is sent first *)

Reachable == {"recovered", "running", "subscribing"}

\* A session is used by another service while its own is open only if the two
\* connections overlapped.
SharedAfter ==
  \A j, k \in Svc : j # k /\ sessOf[j] = k /\ ~ Over(k) => ClientOf(k) \in overlapped

\* A service gets no message before it is recovered, and with a session of its
\* own, which lists no topic yet, none before the CONNACK is out.
QuietAt(k) ==
  /\ phase[k] \in Early \cup {"looked", "session"} => first[k] = "" /\ k \notin queued
  /\ sessOf[k] = k /\ ClientOf(k) \notin overlapped =>
       /\ phase[k] \in {"looked", "session", "recovered"} => ~ sess[k].topic
       /\ \/ first[k] = "CONNACK"
          \/ /\ first[k] = "" /\ k \notin queued /\ phase[k] \notin {"running", "subscribing"}
             /\ phase[k] = "recovered" => k \notin tree

FirstInv == SharedAfter /\ \A k \in Svc : QuietAt(k)

\* What a step of service i leaves alone of the other services.
Elsewhere(i) ==
  /\ \A k \in Svc \ {i} :
       /\ phase'[k] = phase[k] /\ first'[k] = first[k] /\ sessOf'[k] = sessOf[k] /\ prof'[k] = prof[k]
       /\ k \in tree' <=> k \in tree
       /\ sess'[k].topic => sess[k].topic \/ sessOf[i] = k
  /\ overlapped \subseteq overlapped'
  /\ \A k \in queued' : k \in queued \/ (k \in tree /\ phase[k] \in Reachable)

LEMMA OthersQuiet ==
  ASSUME IInv, FirstInv, NEW i \in Svc, Elsewhere(i), NEW k \in Svc \ {i}
  PROVE  QuietAt(k)'
<1>1. /\ phase'[k] = phase[k] /\ first'[k] = first[k] /\ sessOf'[k] = sessOf[k] /\ ClientOf(k)' = ClientOf(k)
      /\ k \in tree' <=> k \in tree
      /\ sess'[k].topic => sess[k].topic \/ sessOf[i] = k
      /\ k \in queued' => k \in queued \/ (k \in tree /\ phase[k] \in Reachable)
      /\ ClientOf(k) \in overlapped => ClientOf(k) \in overlapped'
  BY DEF Elsewhere, ClientOf
<1>2. QuietAt(k)
  BY DEF FirstInv
<1>3. sessOf[i] = k /\ phase[k] \in {"looked", "session", "recovered"} => ClientOf(k) \in overlapped
  BY DEF FirstInv, SharedAfter, Over
<1> QED BY <1>1, <1>2, <1>3 DEF QuietAt, Early, Reachable

\* A step that gives nobody a session and opens no connection.
LEMMA SharedStays ==
  ASSUME IInv, FirstInv, UNCHANGED <<prof, sessOf>>, overlapped \subseteq overlapped',
         \A k \in Svc : Over(k) => Over(k)'
  PROVE  SharedAfter'
BY DEF FirstInv, SharedAfter, ClientOf

LEMMA ConnectFirst ==
  ASSUME IInv, FirstInv, NEW i \in Svc, NEW p \in Profiles, Connect(i, p)
  PROVE  FirstInv'
<1>1. /\ phase[i] = "idle" /\ prof' = [prof EXCEPT ![i] = p]
      /\ UNCHANGED <<sessOf, sess, tree, queued, first>>
  BY DEF Connect
<1>2. PICK q \in {"refused", "accepted"} : phase' = [phase EXCEPT ![i] = q]
  BY DEF Connect, Refuse, auth, Goto
<1>3. overlapped \subseteq overlapped'
  BY DEF Connect, Refuse, auth
<1>4. /\ \A j \in Svc : phase'[j] = IF j = i THEN q ELSE phase[j]
      /\ \A j \in Svc : prof'[j] = IF j = i THEN p ELSE prof[j]
  BY <1>1, <1>2, OldTypes DEF ConnState
<1>5. sessOf[i] = 0 /\ sessOf'[i] = 0 /\ i # 0
  BY <1>1, ServiceNumbers DEF IInv, SessionsOK, Early
<1>6. Elsewhere(i)
  BY <1>1, <1>3, <1>4 DEF Elsewhere
<1>7. QuietAt(i)'
  BY <1>1, <1>4, <1>5 DEF FirstInv, QuietAt, Early
<1>8. SharedAfter'
  <2> SUFFICES ASSUME NEW j \in Svc, NEW k \in Svc, j # k, sessOf[j] = k, ~ Over(k)'
               PROVE  ClientOf(k)' \in overlapped'
    BY <1>1 DEF SharedAfter
  <2>1. k # i
    BY <1>5, ServiceNumbers DEF IInv, SessionsOK
  <2> QED BY <1>3, <1>4, <2>1 DEF FirstInv, SharedAfter, Over, ClientOf
<1> QED BY <1>6, <1>7, <1>8, OthersQuiet DEF FirstInv

\* Getting a session: a stored one whose service is open is a sign of overlap.
LEMMA GettingFirst ==
  ASSUME IInv, FirstInv, NEW i \in Svc, NEW p \in {"looked", "session"},
         phase[i] \in {"accepted", "looked"}, phase' = [phase EXCEPT ![i] = p],
         UNCHANGED <<prof, overlapped, tree, queued, first>>,
         \/ UNCHANGED <<sessOf, sess>>
         \/ sessOf[i] = 0 /\ (Takes(i) \/ Makes(i))
  PROVE  FirstInv'
<1>1. \A j \in Svc : phase'[j] = IF j = i THEN p ELSE phase[j]
  BY OldTypes DEF ConnState
<1>2. \A j \in Svc : Over(j)' <=> Over(j)
  BY <1>1 DEF Over
<1>3. first[i] = "" /\ i \notin queued /\ i \notin tree
  BY DEF FirstInv, QuietAt, Early, IInv, TreeOK, TreeAt
<1>4. ClientOf(i) \in Clients /\ phase[i] # "idle" /\ i # 0
  BY ServiceNumbers, ConnectionAssumption DEF IInv, Types, ClientOf
<1>5. CASE UNCHANGED <<sessOf, sess>>
  <2>1. Elsewhere(i)
    BY <1>1, <1>5 DEF Elsewhere
  <2>2. SharedAfter'
    BY <1>2, <1>5, SharedStays
  <2>3. QuietAt(i)'
    <3>1. sessOf[i] = i => ~ sess[i].topic \/ ClientOf(i) \in overlapped
      BY <1>4, <1>5 DEF FirstInv, QuietAt, IInv, SessionsOK, Early
    <3> QED BY <1>1, <1>3, <1>5, <3>1 DEF QuietAt, ClientOf, Early
  <2> QED BY <2>1, <2>2, <2>3, OthersQuiet DEF FirstInv
<1>6. CASE sessOf[i] = 0 /\ Takes(i)
  <2>1. \A j \in Svc : sessOf'[j] = IF j = i THEN store[ClientOf(i)] ELSE sessOf[j]
    BY <1>6, OldTypes DEF Takes, ConnState
  <2>2. store[ClientOf(i)] \in Svc /\ store[ClientOf(i)] # i /\ ClientOf(store[ClientOf(i)]) = ClientOf(i)
    BY <1>4, <1>6, ServiceNumbers, OldTypes DEF Takes, IInv, StoreOK, ConnState
  <2>3. Elsewhere(i)
    BY <1>1, <1>6, <2>1 DEF Elsewhere, Takes
  <2>4. QuietAt(i)'
    BY <1>1, <1>3, <2>1, <2>2 DEF QuietAt, Early
  <2>5. SharedAfter'
    <3> SUFFICES ASSUME NEW j \in Svc, NEW k \in Svc, j # k, sessOf'[j] = k, ~ Over(k)
                 PROVE  ClientOf(k) \in overlapped
      BY <1>2 DEF SharedAfter, ClientOf
    <3>1. CASE j # i
      BY <2>1, <3>1 DEF FirstInv, SharedAfter
    <3>2. CASE j = i
      <4>1. k = store[ClientOf(i)] /\ ~ Over(i)
        BY <2>1, <3>2 DEF Over
      <4> QED BY <2>2, <4>1 DEF IInv, OverlapKnown
    <3> QED BY <3>1, <3>2
  <2> QED BY <2>3, <2>4, <2>5, OthersQuiet DEF FirstInv
<1>7. CASE sessOf[i] = 0 /\ Makes(i)
  <2>1. \A j \in Svc : sessOf'[j] = IF j = i THEN i ELSE sessOf[j]
    BY <1>7, OldTypes DEF Makes, ConnState
  <2>2. /\ \A j \in Svc : j # i => sess'[j] = sess[j]
        /\ ~ sess'[i].topic
    BY <1>7, OldTypes DEF Makes, ConnState, NewSession
  <2>3. Elsewhere(i)
    BY <1>1, <2>1, <2>2 DEF Elsewhere
  <2>4. QuietAt(i)'
    BY <1>1, <1>3, <2>1, <2>2 DEF QuietAt, Early
  <2>5. \A j \in Svc : sessOf[j] # i
    BY <1>4, <1>7 DEF IInv, SessionsOK
  <2>6. SharedAfter'
    BY <1>2, <2>1, <2>5 DEF FirstInv, SharedAfter, ClientOf
  <2> QED BY <2>3, <2>4, <2>6, OthersQuiet DEF FirstInv
<1> QED BY <1>5, <1>6, <1>7

LEMMA SessionFirst ==
  ASSUME IInv, FirstInv, NEW i \in Svc, LookUp(i) \/ getSession(i)
  PROVE  FirstInv'
<1>1. CASE LookUp(i)
  <2>1. /\ phase[i] = "accepted" /\ phase' = [phase EXCEPT ![i] = "looked"]
        /\ UNCHANGED <<prof, tree, queued, first, overlapped>>
    BY <1>1 DEF LookUp, Goto
  <2>2. sessOf[i] = 0
    BY <2>1 DEF IInv, SessionsOK, Early
  <2>3. UNCHANGED <<sessOf, sess>> \/ Takes(i) \/ Makes(i)
    BY <1>1 DEF LookUp, Takes, Makes
  <2> QED BY <2>1, <2>2, <2>3, GettingFirst
<1>2. CASE getSession(i)
  <2>1. /\ phase[i] = "looked" /\ phase' = [phase EXCEPT ![i] = "session"]
        /\ UNCHANGED <<prof, tree, queued, first, overlapped, expired>> /\ GetOrCreate(i)
    BY <1>2 DEF getSession, Goto, history
  <2>2. sessOf[i] = 0 => ~ prof[i].clean
    BY <2>1 DEF IInv, SessionsOK
  <2>3. UNCHANGED <<sessOf, sess>> \/ (sessOf[i] = 0 /\ (Takes(i) \/ Makes(i)))
    BY <2>1, <2>2 DEF GetOrCreate, Takes, Makes
  <2> QED BY <2>1, <2>3, GettingFirst
<1> QED BY <1>1, <1>2

\* A step of a service that has a session needs to be right for itself only.
LEMMA ServingFirst ==
  ASSUME IInv, FirstInv, NEW i \in Svc, NEW p \in Served, phase[i] \in Served, phase[i] # "stopped",
         phase' = [phase EXCEPT ![i] = p], UNCHANGED <<prof, sessOf, overlapped>>,
         tree' \in {tree, tree \cup {i}, tree \ {i}},
         \A k \in Svc : first'[k] = first[k] \/ k = i,
         \A k \in Svc : sess'[k].topic => sess[k].topic \/ sessOf[i] = k,
         \A k \in queued' : k \in queued \/ (k \in tree /\ phase[k] \in Reachable),
         QuietAt(i)'
  PROVE  FirstInv'
<1>1. \A k \in Svc : phase'[k] = IF k = i THEN p ELSE phase[k]
  BY OldTypes DEF ConnState
<1>2. \A k \in Svc : Over(k) => Over(k)'
  BY <1>1 DEF Over, Served
<1>3. Elsewhere(i)
  BY <1>1 DEF Elsewhere
<1>4. SharedAfter'
  BY <1>2, SharedStays
<1> QED BY <1>3, <1>4, OthersQuiet DEF FirstInv

\* Where a service of an own session stands once it serves.
LEMMA QuietSelf ==
  ASSUME IInv, FirstInv, NEW i \in Svc, phase[i] \in Served \ {"session"}, sessOf[i] = i, ClientOf(i) \notin overlapped
  PROVE  \/ first[i] = "CONNACK"
         \/ /\ first[i] = "" /\ i \notin queued /\ phase[i] \notin {"running", "subscribing"}
            /\ phase[i] = "recovered" => i \notin tree
BY DEF FirstInv, QuietAt

\* The messages of a publish go to subscribers that can take them.
LEMMA ReachedOnly ==
  ASSUME IInv, NEW S \in SUBSET tree, NEW k \in Reached(S)
  PROVE  k \in queued \/ (k \in tree /\ phase[k] \in Reachable)
BY DEF Reached, Reachable

LEMMA StartingFirst ==
  ASSUME IInv, FirstInv, NEW i \in Svc, recoverSub(i) \/ start(i)
  PROVE  FirstInv'
<1> USE DEF Goto, history
<1>1. CASE recoverSub(i)
  <2>1. /\ phase[i] = "session" /\ phase' = [phase EXCEPT ![i] = "recovered"]
        /\ tree' = IF SessionOf(i).topic THEN tree \cup {i} ELSE tree
        /\ UNCHANGED <<prof, sessOf, sess, queued, first, overlapped>>
    BY <1>1 DEF recoverSub
  <2>2. i \notin tree /\ first[i] = "" /\ i \notin queued
    BY <2>1 DEF IInv, TreeOK, TreeAt, FirstInv, QuietAt
  <2>3. QuietAt(i)'
    BY <2>1, <2>2, OldTypes DEF FirstInv, QuietAt, SessionOf, ClientOf, ConnState, Early
  <2> QED BY <2>1, <2>3, ServingFirst DEF Served
<1>2. CASE start(i)
  <2>1. PICK p \in {"running", "closing"} :
          /\ phase[i] = "recovered" /\ phase' = [phase EXCEPT ![i] = p]
          /\ UNCHANGED <<prof, sessOf, sess, tree, queued, overlapped>>
          /\ \/ p = "running" /\ Write(i, "CONNACK")
             \/ p = "closing" /\ UNCHANGED first
    BY <1>2 DEF start
  <2>2. /\ \A k \in Svc : first'[k] = first[k] \/ k = i
        /\ first[i] = "" => (first'[i] = IF p = "running" THEN "CONNACK" ELSE "")
        /\ first[i] = "CONNACK" => first'[i] = "CONNACK"
    BY <2>1, OldTypes DEF Write, ConnState
  <2>3. phase'[i] = p
    BY <2>1, OldTypes DEF ConnState
  <2>4. QuietAt(i)'
    BY <2>1, <2>2, <2>3, QuietSelf DEF QuietAt, ClientOf, Early, Served
  <2> QED BY <2>1, <2>2, <2>4, ServingFirst DEF Served
<1> QED BY <1>1, <1>2

LEMMA ProcessorFirst ==
  ASSUME IInv, FirstInv, NEW i \in Svc,
         \/ processSubscribe(i) \/ AddTopic(i) \/ processUnsubscribe(i) \/ onPublish(i) \/ processorEnds(i)
         \/ \E code \in {"normal", "with will"}, e \in Intervals : Disconnect(i, code, e)
  PROVE  FirstInv'
<1>1. PICK p \in {"running", "subscribing", "closing"} :
        /\ phase[i] \in {"running", "subscribing"} /\ phase' = [phase EXCEPT ![i] = p]
        /\ UNCHANGED <<prof, sessOf, first, overlapped>> /\ tree' \in {tree, tree \cup {i}, tree \ {i}}
  <2> USE DEF Goto, history
  <2>1. CASE UNCHANGED phase /\ phase[i] = "running"
    <3>1. phase' = [phase EXCEPT ![i] = "running"]
      BY <2>1, OldTypes DEF ConnState
    <3> QED BY <2>1, <3>1 DEF processSubscribe, AddTopic, processUnsubscribe, onPublish, processorEnds, Disconnect
  <2>2. CASE ~ (UNCHANGED phase /\ phase[i] = "running")
    BY <2>2 DEF processSubscribe, AddTopic, processUnsubscribe, onPublish, processorEnds, Disconnect
  <2> QED BY <2>1, <2>2
<1>2. sessOf[i] \in Svc /\ phase[i] \in Served /\ phase[i] \notin {"stopped", "session"} /\ p \in Served
  BY <1>1, HasSession DEF Served
<1>3. phase'[i] = p
  BY <1>1, OldTypes DEF ConnState
<1>4. \A k \in Svc : sess'[k].topic => sess[k].topic \/ sessOf[i] = k
  <2>1. CASE UNCHANGED sess
    BY <2>1
  <2>2. CASE AddTopic(i) \/ processUnsubscribe(i)
    BY <1>2, <2>2, OldTypes DEF AddTopic, processUnsubscribe, ConnState
  <2>3. CASE \E code \in {"normal", "with will"}, e \in Intervals : Disconnect(i, code, e)
    <3>1. PICK code \in {"normal", "with will"}, e \in Intervals : Disconnect(i, code, e)
      BY <2>3
    <3>2. PICK r \in SessionType : sess' = [sess EXCEPT ![sessOf[i]] = r] /\ r.topic = sess[sessOf[i]].topic
      BY <3>1, DisconnectRecord, Zenon
    <3> QED BY <1>2, <3>2, OldTypes DEF ConnState
  <2> QED BY <2>1, <2>2, <2>3 DEF processSubscribe, onPublish, processorEnds
<1>5. \A k \in queued' : k \in queued \/ (k \in tree /\ phase[k] \in Reachable)
  <2>1. CASE UNCHANGED queued
    BY <2>1
  <2>2. CASE onPublish(i)
    BY <2>2, ReachedOnly DEF onPublish
  <2> QED BY <2>1, <2>2 DEF processSubscribe, AddTopic, processUnsubscribe, processorEnds, Disconnect
<1>6. QuietAt(i)'
  BY <1>1, <1>2, <1>3, QuietSelf DEF QuietAt, ClientOf, Early
<1> QED BY <1>1, <1>2, <1>4, <1>5, <1>6, ServingFirst

LEMMA StopFirst ==
  ASSUME IInv, FirstInv, NEW i \in Svc, unSubAll(i) \/ stopWill(i) \/ stopSave(i)
  PROVE  FirstInv'
<1>1. PICK p \in {"unsubscribed", "willed", "stopped"} :
        /\ phase[i] \in {"closing", "unsubscribed", "willed"} /\ phase' = [phase EXCEPT ![i] = p]
        /\ UNCHANGED <<prof, sessOf, first, overlapped>> /\ tree' \in {tree, tree \cup {i}, tree \ {i}}
        /\ queued' \subseteq queued
  BY DEF unSubAll, stopWill, stopSave, Goto, history
<1>2. sessOf[i] \in Svc /\ phase[i] \in Served /\ phase[i] \notin {"stopped", "session"} /\ p \in Served
  BY <1>1, HasSession DEF Served
<1>3. phase'[i] = p
  BY <1>1, OldTypes DEF ConnState
<1>4. \A k \in Svc : sess'[k].topic => sess[k].topic \/ sessOf[i] = k
  <2>1. CASE UNCHANGED sess
    BY <2>1
  <2>2. CASE sess' = [sess EXCEPT ![sessOf[i]].offline = TRUE]
    BY <1>2, <2>2, OldTypes DEF ConnState
  <2> QED BY <2>1, <2>2 DEF unSubAll, stopWill, stopSave
<1>5. QuietAt(i)'
  BY <1>1, <1>2, <1>3, QuietSelf DEF QuietAt, ClientOf, Early
<1> QED BY <1>1, <1>2, <1>4, <1>5, ServingFirst

LEMMA QueuesFirst ==
  ASSUME IInv, FirstInv, NEW i \in Svc,
         \/ sender(i) \/ GoRuns(i) \/ TimerFires(i)
         \/ \E kind \in {"go", "timer"} : FnPublishes(i, kind)
  PROVE  FirstInv'
<1>1. UNCHANGED <<prof, phase, sessOf, sess, tree, overlapped>>
  BY DEF sender, GoRuns, TimerFires, FnPublishes, history
<1>2. SharedAfter'
  BY <1>1, SharedStays DEF Over
<1>3. ASSUME NEW k \in Svc PROVE QuietAt(k)'
  <2>1. CASE sender(i) /\ k = i
    <3>1. i \in queued /\ first'[i] = (IF first[i] = "" THEN "PUBLISH" ELSE first[i])
      BY <2>1, OldTypes DEF sender, Write, ConnState
    <3> QED BY <1>1, <2>1, <3>1 DEF FirstInv, QuietAt, ClientOf, sender
  <2>2. CASE ~ (sender(i) /\ k = i)
    <3>1. first'[k] = first[k]
      BY <2>2, OldTypes DEF sender, Write, GoRuns, TimerFires, FnPublishes, ConnState
    <3>2. k \in queued' => k \in queued \/ (k \in tree /\ phase[k] \in Reachable)
      BY ReachedOnly DEF sender, GoRuns, TimerFires, FnPublishes
    <3> QED BY <1>1, <3>1, <3>2 DEF FirstInv, QuietAt, ClientOf, Reachable, Early
  <2> QED BY <2>1, <2>2
<1> QED BY <1>2, <1>3 DEF FirstInv

LEMMA NextFirst == IInv /\ FirstInv /\ [Next]_vars => FirstInv'
<1> SUFFICES ASSUME IInv, FirstInv, [Next]_vars PROVE FirstInv'
  OBVIOUS
<1>1. ASSUME NEW k \in Svc, Handle(k) \/ processorEnds(k) PROVE FirstInv'
  BY <1>1, ConnectFirst, ProcessorFirst DEF Handle
<1>2. ASSUME NEW k \in Svc, Goes(k) PROVE FirstInv'
  BY <1>2, SessionFirst, StartingFirst, ProcessorFirst, QueuesFirst, StopFirst DEF Goes
<1>3. ASSUME NEW k \in Svc, Timers(k) PROVE FirstInv'
  BY <1>3, QueuesFirst DEF Timers
<1>4. CASE UNCHANGED vars
  BY <1>4 DEF vars, history, FirstInv, SharedAfter, QuietAt, ClientOf, Over
<1> QED BY <1>1, <1>2, <1>3, <1>4 DEF Next

LEMMA InitFirst == Init => FirstInv
BY ServiceNumbers DEF Init, FirstInv, SharedAfter, QuietAt, Over, Early

-----------------------------------------------------------------------------
(* Wills *)

Ending == {"closing", "unsubscribed", "willed", "stopped"}
Attached == Served \ {"stopped"}
Later(k) == prof[sessOf[k]].will = "later"

\* The wills of a service that were published or are on their way: in a
\* goroutine, at a timer or within Fn.
One(b) == IF b THEN 1 ELSE 0
Units(k) == sent[k] + One(k \in gos) + One(k \in entries)
              + One(<<k, "go">> \in firing) + One(<<k, "timer">> \in firing)

WillVars ==
  /\ sent \in [Svc -> Nat] /\ left \in [Svc -> {"", "normal", "with will"}]
  /\ hasSendWill \in [Svc -> BOOLEAN]

\* A will is started at the end of a connection only.
Begun == \A k \in Svc : phase[k] \notin Ending => Units(k) = 0 /\ left[k] = ""

\* What is registered for a client is the delayed will of a connection of its own.
Registered ==
  \A c \in Clients, k \in Svc : ids[c] = k => ClientOf(k) = c /\ phase[k] \in Ending /\ Later(k)

\* Every timer is registered, and only the open connection can register one,
\* as long as connections do not overlap.
EntriesOK == \A k \in entries : ClientOf(k) \notin overlapped => ids[ClientOf(k)] = k
FreshIds ==
  \A k \in Svc : phase[k] \in Attached /\ ClientOf(k) \notin overlapped => ids[ClientOf(k)] \in {0, k}

\* How many wills a service may have started, by the way it ended and how far
\* stop has got.
CountAt(k) ==
  \/ ClientOf(k) \in overlapped
  \/ left[k] = "" /\ Units(k) = 0
  \/ left[k] = "" /\ Units(k) = 1 /\ phase[k] \in {"willed", "stopped"}
  \/ left[k] = "normal" /\ Units(k) = 0 /\ ~ SessionOf(k).will
  \/ left[k] = "with will" /\ Later(k)
  \/ left[k] = "with will" /\ ~ Later(k) /\ Units(k) = 0
  \/ left[k] = "with will" /\ ~ Later(k) /\ Units(k) = 1 /\ hasSendWill[k]

WillInv ==
  WillVars /\ Begun /\ Registered /\ EntriesOK /\ FreshIds /\ \A k \in Svc : CountAt(k)

LEMMA UnitsCount ==
  ASSUME WillVars, NEW k \in Svc
  PROVE  /\ Units(k) \in Nat /\ sent[k] <= Units(k)
         /\ k \in gos \/ k \in entries \/ <<k, "go">> \in firing \/ <<k, "timer">> \in firing => Units(k) > 0
<1> DEFINE a == One(k \in gos)  b == One(k \in entries)
           c == One(<<k, "go">> \in firing)  d == One(<<k, "timer">> \in firing)
<1>1. a \in {0, 1} /\ b \in {0, 1} /\ c \in {0, 1} /\ d \in {0, 1}
  BY DEF One
<1>2. (k \in gos => a = 1) /\ (k \in entries => b = 1) /\ (<<k, "go">> \in firing => c = 1)
      /\ (<<k, "timer">> \in firing => d = 1)
  BY DEF One
<1>3. Units(k) = sent[k] + a + b + c + d /\ sent[k] \in Nat
  BY DEF Units, WillVars
<1> HIDE DEF a, b, c, d
<1> QED BY <1>1, <1>2, <1>3

\* The same of the next state.
LEMMA UnitsLater ==
  ASSUME WillVars', NEW k \in Svc
  PROVE  Units(k)' \in Nat
<1> DEFINE a == One(k \in gos')  b == One(k \in entries')
           c == One(<<k, "go">> \in firing')  d == One(<<k, "timer">> \in firing')
<1>1. a \in {0, 1} /\ b \in {0, 1} /\ c \in {0, 1} /\ d \in {0, 1}
  BY DEF One
<1>2. Units(k)' = sent'[k] + a + b + c + d /\ sent'[k] \in Nat
  BY DEF Units, WillVars
<1> HIDE DEF a, b, c, d
<1> QED BY <1>1, <1>2

\* Units do not grow when nothing is added, or when one is handed on.
LEMMA FewerUnits ==
  ASSUME WillVars, NEW k \in Svc, sent'[k] = sent[k], k \in gos' => k \in gos, k \in entries' => k \in entries,
         <<k, "go">> \in firing' => <<k, "go">> \in firing, <<k, "timer">> \in firing' => <<k, "timer">> \in firing
  PROVE  Units(k)' <= Units(k)
<1> DEFINE a == One(k \in gos)  b == One(k \in entries)
           c == One(<<k, "go">> \in firing)  d == One(<<k, "timer">> \in firing)
           aa == One(k \in gos')  bb == One(k \in entries')
           cc == One(<<k, "go">> \in firing')  dd == One(<<k, "timer">> \in firing')
<1>1. a \in {0, 1} /\ b \in {0, 1} /\ c \in {0, 1} /\ d \in {0, 1}
  BY DEF One
<1>2. aa \in {0, 1} /\ bb \in {0, 1} /\ cc \in {0, 1} /\ dd \in {0, 1}
  BY DEF One
<1>3. aa <= a /\ bb <= b /\ cc <= c /\ dd <= d
  BY DEF One
<1>4. Units(k) = sent[k] + a + b + c + d /\ Units(k)' = sent'[k] + aa + bb + cc + dd /\ sent[k] \in Nat
  BY DEF Units, WillVars
<1> HIDE DEF a, b, c, d, aa, bb, cc, dd
<1> QED BY <1>1, <1>2, <1>3, <1>4

LEMMA UnitsMove ==
  ASSUME WillVars, NEW k \in Svc,
         \/ /\ k \in gos /\ k \notin gos' /\ <<k, "go">> \in firing' /\ sent'[k] = sent[k]
            /\ <<k, "timer">> \in firing' <=> <<k, "timer">> \in firing
            /\ k \in entries' => k \in entries
         \/ /\ k \in entries /\ k \notin entries' /\ <<k, "timer">> \in firing' /\ sent'[k] = sent[k]
            /\ <<k, "go">> \in firing' <=> <<k, "go">> \in firing
            /\ k \in gos' <=> k \in gos
         \/ /\ <<k, "go">> \in firing /\ <<k, "go">> \notin firing' /\ sent'[k] \in {sent[k], sent[k] + 1}
            /\ <<k, "timer">> \in firing' <=> <<k, "timer">> \in firing
            /\ (k \in gos' <=> k \in gos) /\ (k \in entries' => k \in entries)
         \/ /\ <<k, "timer">> \in firing /\ <<k, "timer">> \notin firing' /\ sent'[k] \in {sent[k], sent[k] + 1}
            /\ <<k, "go">> \in firing' <=> <<k, "go">> \in firing
            /\ (k \in gos' <=> k \in gos) /\ (k \in entries' => k \in entries)
  PROVE  Units(k)' <= Units(k)
<1> DEFINE a == One(k \in gos)  b == One(k \in entries)
           c == One(<<k, "go">> \in firing)  d == One(<<k, "timer">> \in firing)
           aa == One(k \in gos')  bb == One(k \in entries')
           cc == One(<<k, "go">> \in firing')  dd == One(<<k, "timer">> \in firing')
<1>1. a \in {0, 1} /\ b \in {0, 1} /\ c \in {0, 1} /\ d \in {0, 1}
  BY DEF One
<1>2. aa \in {0, 1} /\ bb \in {0, 1} /\ cc \in {0, 1} /\ dd \in {0, 1}
  BY DEF One
<1>3. \/ a = 1 /\ aa = 0 /\ bb <= b /\ cc = 1 /\ dd = d /\ sent'[k] = sent[k]
      \/ b = 1 /\ bb = 0 /\ aa = a /\ dd = 1 /\ cc = c /\ sent'[k] = sent[k]
      \/ c = 1 /\ cc = 0 /\ aa = a /\ bb <= b /\ dd = d /\ sent'[k] \in {sent[k], sent[k] + 1}
      \/ d = 1 /\ dd = 0 /\ aa = a /\ bb <= b /\ cc = c /\ sent'[k] \in {sent[k], sent[k] + 1}
  BY DEF One
<1>4. Units(k) = sent[k] + a + b + c + d /\ Units(k)' = sent'[k] + aa + bb + cc + dd /\ sent[k] \in Nat
  BY DEF Units, WillVars
<1> HIDE DEF a, b, c, d, aa, bb, cc, dd
<1> QED BY <1>1, <1>2, <1>3, <1>4

\* A session that is in use belongs to a service with a CONNECT.
LEMMA UsedSession ==
  ASSUME IInv, NEW k \in Svc, sessOf[k] # 0
  PROVE  sessOf[k] \in Svc /\ phase[sessOf[k]] # "idle" /\ phase[k] # "idle"
<1>1. sessOf[k] \in Svc
  BY ServiceNumbers, OldTypes DEF ConnState
<1>2. sessOf[sessOf[k]] # 0
  BY <1>1 DEF IInv, SessionsOK
<1> QED BY <1>1, <1>2 DEF IInv, SessionsOK, Early

LEMMA EndingHasSession ==
  ASSUME IInv, NEW k \in Svc, phase[k] \in Ending \/ phase[k] \in Attached
  PROVE  sessOf[k] # 0
BY DEF IInv, SessionsOK, Ending, Attached, Served

\* Wills are those of connections that end or have ended.
LEMMA UnitsEnding ==
  ASSUME IInv, WillInv, NEW k \in Svc, Units(k) > 0
  PROVE  phase[k] \in Ending
<1>1. Units(k) \in Nat
  BY UnitsCount DEF WillInv
<1>2. phase[k] \notin Ending => Units(k) = 0
  BY DEF WillInv, Begun
<1> QED BY <1>1, <1>2

LEMMA EntryEnding ==
  ASSUME IInv, WillInv, NEW k \in entries
  PROVE  k \in Svc /\ phase[k] \in Ending
<1>1. k \in Svc
  BY OldTypes DEF WillState
<1>2. Units(k) > 0
  BY <1>1, UnitsCount DEF WillInv
<1> QED BY <1>1, <1>2, UnitsEnding

\* What every step leaves of the services that have a session, as far as wills
\* are concerned: a connection ends for good, and no session gets a will back.
SameServices ==
  /\ \A k \in Svc : phase[k] # "idle" => prof'[k] = prof[k]
  /\ \A k \in Svc : sessOf[k] # 0 =>
       sessOf'[k] = sessOf[k] /\ (sess'[sessOf[k]].will => sess[sessOf[k]].will)
  /\ overlapped \subseteq overlapped'
  /\ \A k \in Svc : /\ phase[k] = "idle" => phase'[k] \notin Attached
                    /\ phase[k] \in Ending => phase'[k] \in Ending
                    /\ phase[k] \in {"willed", "stopped"} => phase'[k] \in {"willed", "stopped"}

LEMMA SameWills ==
  ASSUME IInv, SameServices, NEW k \in Svc
  PROVE  /\ phase[k] # "idle" => ClientOf(k)' = ClientOf(k)
         /\ sessOf[k] # 0 => Later(k)' = Later(k) /\ (SessionOf(k)'.will => SessionOf(k).will)
         /\ phase[k] \in Ending => phase[k] # "idle" /\ sessOf[k] # 0
<1>1. phase[k] # "idle" => ClientOf(k)' = ClientOf(k)
  BY DEF SameServices, ClientOf
<1>2. ASSUME sessOf[k] # 0
      PROVE  Later(k)' = Later(k) /\ (SessionOf(k)'.will => SessionOf(k).will)
  BY <1>2, UsedSession DEF SameServices, Later, SessionOf
<1> QED BY <1>1, <1>2, EndingHasSession DEF Ending

\* The entry of client c is removed, or all entries stay.
Unregisters(c) ==
  \/ UNCHANGED <<ids, entries, hasSendWill>>
  \/ /\ c \in Clients /\ ids[c] # 0
     /\ ids' = [ids EXCEPT ![c] = 0] /\ entries' = entries \ {ids[c]}
     /\ UNCHANGED hasSendWill \/ hasSendWill' = [hasSendWill EXCEPT ![ids[c]] = FALSE]

\* A step that starts no will.
LEMMA WillStep ==
  ASSUME IInv, WillInv, SameServices, UNCHANGED left, NEW c, Unregisters(c), sent' \in [Svc -> Nat],
         \A k \in Svc : phase'[k] \in Attached => phase[k] \in Attached \/ ids'[ClientOf(k)] = 0,
         \A k \in Svc : Units(k)' <= Units(k) \/ (ClientOf(k) \in overlapped /\ phase[k] \in Ending)
  PROVE  WillInv'
<1>1. WillVars'
  BY DEF WillInv, WillVars, Unregisters
<1>2. ids \in [Clients -> Svc \cup {0}] /\ 0 \notin Svc
  BY ServiceNumbers, OldTypes DEF WillState
<1>3. \A d \in Clients : ids'[d] = ids[d] \/ (d = c /\ ids'[d] = 0 /\ entries' = entries \ {ids[c]})
  BY <1>2 DEF Unregisters
<1>4. \A k \in Svc : hasSendWill'[k] = hasSendWill[k] \/ Later(k)
  BY <1>2 DEF Unregisters, WillInv, WillVars, Registered
<1>5. \A k \in Svc : Units(k) \in Nat /\ Units(k)' \in Nat
  <2>1. \A k \in Svc : Units(k) \in Nat
    BY UnitsCount DEF WillInv
  <2>2. \A k \in Svc : Units(k)' \in Nat
    BY <1>1, UnitsLater
  <2> QED BY <2>1, <2>2
<1>6. ASSUME NEW k \in Svc, phase[k] \notin Ending PROVE Units(k)' = 0 /\ left'[k] = ""
  <2>1. Units(k) = 0 /\ left[k] = ""
    BY <1>6 DEF WillInv, Begun
  <2>2. Units(k)' <= Units(k)
    BY <1>6
  <2>3. Units(k)' \in Nat
    BY <1>5
  <2>4. left'[k] = ""
    BY <2>1
  <2>5. \A u, v \in Nat : u = 0 /\ v <= u => v = 0
    OBVIOUS
  <2>6. Units(k) \in Nat
    BY <1>5
  <2>7. Units(k)' = 0
    BY <2>1, <2>2, <2>3, <2>5, <2>6, Zenon
  <2> QED BY <2>4, <2>7
<1>7. Begun'
  BY <1>6 DEF Begun, SameServices
<1>8. Registered'
  BY <1>2, <1>3, SameWills DEF WillInv, Registered, SameServices
<1>9. EntriesOK'
  <2> SUFFICES ASSUME NEW k \in entries', ClientOf(k)' \notin overlapped'
               PROVE  ids'[ClientOf(k)'] = k
    BY DEF EntriesOK
  <2>1. k \in entries
    BY DEF Unregisters
  <2>2. k \in Svc /\ phase[k] \in Ending /\ ClientOf(k)' = ClientOf(k) /\ ClientOf(k) \in Clients
    BY <2>1, EntryEnding, SameWills, ConnectionAssumption DEF IInv, Types, ClientOf
  <2>3. ids[ClientOf(k)] = k
    BY <2>1, <2>2 DEF WillInv, EntriesOK, SameServices
  <2> QED BY <1>3, <2>2, <2>3
<1>10. FreshIds'
  <2> SUFFICES ASSUME NEW k \in Svc, phase'[k] \in Attached, ClientOf(k)' \notin overlapped'
               PROVE  ids'[ClientOf(k)'] \in {0, k}
    BY DEF FreshIds
  <2>1. ClientOf(k)' = ClientOf(k) /\ ClientOf(k) \in Clients
    BY SameWills, ConnectionAssumption DEF IInv, Types, ClientOf, SameServices
  <2> QED BY <1>3, <2>1 DEF WillInv, FreshIds, SameServices
<1>11. ASSUME NEW k \in Svc PROVE CountAt(k)'
  <2>1. CASE phase[k] \in Ending
    <3>1. /\ ClientOf(k)' = ClientOf(k) /\ Later(k)' = Later(k) /\ (SessionOf(k)'.will => SessionOf(k).will)
          /\ Units(k)' <= Units(k) \/ ClientOf(k) \in overlapped
          /\ left'[k] = left[k] /\ (hasSendWill'[k] = hasSendWill[k] \/ Later(k))
          /\ ClientOf(k) \in overlapped => ClientOf(k) \in overlapped'
          /\ phase[k] \in {"willed", "stopped"} => phase'[k] \in {"willed", "stopped"}
      BY <1>4, <2>1, SameWills DEF SameServices
    <3>2. CountAt(k) /\ Units(k) \in Nat /\ Units(k)' \in Nat
      BY <1>5 DEF WillInv
    <3>3. \/ ClientOf(k) \in overlapped
          \/ (Units(k) = 0 => Units(k)' = 0) /\ (Units(k) = 1 => Units(k)' \in {0, 1})
      BY <3>1, <3>2
    <3> QED BY <3>1, <3>2, <3>3 DEF CountAt
  <2>2. CASE phase[k] \notin Ending
    BY <1>6, <2>2 DEF CountAt
  <2> QED BY <2>1, <2>2
<1> QED BY <1>1, <1>7, <1>8, <1>9, <1>10, <1>11 DEF WillInv

\* A step that has nothing to do with wills.
LEMMA CalmStep ==
  ASSUME IInv, WillInv, SameServices, UNCHANGED <<wills, firing, sent, left>>,
         \A k \in Svc : phase'[k] \in Attached => phase[k] \in Attached
  PROVE  WillInv'
<1>1. UNCHANGED <<ids, entries, gos, hasSendWill>> /\ \A k \in Svc : Units(k)' = Units(k)
  BY DEF wills, cron, Units
<1>2. ASSUME NEW k \in Svc PROVE Units(k)' <= Units(k)
  <2>1. Units(k) \in Nat
    BY UnitsCount DEF WillInv
  <2>2. Units(k)' = Units(k)
    BY <1>1
  <2> QED BY <2>1, <2>2
<1>3. Unregisters(0) /\ sent' \in [Svc -> Nat]
  BY <1>1 DEF Unregisters, WillInv, WillVars
<1> QED BY <1>1, <1>2, <1>3, WillStep

\* A step of service i from one phase to a later one, with its session.
LEMMA SameFrom ==
  ASSUME IInv, NEW i \in Svc, phase[i] \in Served \ {"stopped"},
         NEW p \in Served, phase' = [phase EXCEPT ![i] = p], UNCHANGED <<prof, sessOf, overlapped>>,
         \A s \in Svc : sess'[s].will => sess[s].will,
         \/ phase[i] \notin Ending
         \/ phase[i] \in {"closing", "unsubscribed"} /\ p \in Ending
         \/ p \in {"willed", "stopped"}
  PROVE  SameServices /\ \A k \in Svc : phase'[k] \in Attached => phase[k] \in Attached
<1>1. \A k \in Svc : phase'[k] = IF k = i THEN p ELSE phase[k]
  BY OldTypes DEF ConnState
<1>2. \A k \in Svc : sessOf[k] # 0 => (sess'[sessOf[k]].will => sess[sessOf[k]].will)
  BY UsedSession
<1> QED BY <1>1, <1>2 DEF SameServices, Attached, Ending, Served

LEMMA ConnectWills ==
  ASSUME IInv, WillInv, NEW i \in Svc, NEW p \in Profiles, Connect(i, p)
  PROVE  WillInv'
<1>1. /\ phase[i] = "idle" /\ prof' = [prof EXCEPT ![i] = p] /\ overlapped \subseteq overlapped'
      /\ UNCHANGED <<sessOf, sess, wills, firing, sent, left>>
  BY DEF Connect, Refuse, auth
<1>2. PICK q \in {"refused", "accepted"} : phase' = [phase EXCEPT ![i] = q]
  BY DEF Connect, Refuse, auth, Goto
<1>3. /\ \A j \in Svc : phase'[j] = IF j = i THEN q ELSE phase[j]
      /\ \A j \in Svc : j # i => prof'[j] = prof[j]
  BY <1>1, <1>2, OldTypes DEF ConnState
<1>4. SameServices /\ \A k \in Svc : phase'[k] \in Attached => phase[k] \in Attached
  BY <1>1, <1>3 DEF SameServices, Attached, Served, Ending
<1> QED BY <1>1, <1>4, CalmStep

\* On its way to a session a service changes no other's.
LEMMA GettingSame ==
  ASSUME IInv, NEW i \in Svc, NEW p \in {"looked", "session"}, phase[i] \in {"accepted", "looked"},
         phase' = [phase EXCEPT ![i] = p], UNCHANGED <<prof, overlapped>>,
         \/ UNCHANGED <<sessOf, sess>>
         \/ sessOf[i] = 0 /\ (Takes(i) \/ Makes(i))
  PROVE  /\ SameServices
         /\ \A k \in Svc : phase'[k] \in Attached => phase[k] \in Attached \/ (k = i /\ p = "session")
<1>1. \A j \in Svc : phase'[j] = IF j = i THEN p ELSE phase[j]
  BY OldTypes DEF ConnState
<1>2. \A k \in Svc : sessOf[k] # 0 => sessOf'[k] = sessOf[k] /\ sess'[sessOf[k]] = sess[sessOf[k]]
  <2>1. CASE UNCHANGED <<sessOf, sess>>
    BY <2>1
  <2>2. CASE sessOf[i] = 0 /\ (Takes(i) \/ Makes(i))
    <3> SUFFICES ASSUME NEW k \in Svc, sessOf[k] # 0
                 PROVE  sessOf'[k] = sessOf[k] /\ sess'[sessOf[k]] = sess[sessOf[k]]
      OBVIOUS
    <3>1. k # i /\ sessOf[k] \in Svc /\ sessOf[k] # i
      BY <2>2, UsedSession DEF IInv, SessionsOK
    <3> QED BY <2>2, <3>1, OldTypes DEF Takes, Makes, ConnState
  <2> QED BY <2>1, <2>2
<1> QED BY <1>1, <1>2 DEF SameServices, Attached, Served, Ending

\* Cancel is the removal of the entry of the service's client.
LEMMA CancelUnregisters ==
  ASSUME IInv, WillInv, NEW i \in Svc, ClientOf(i) \in Clients, Cancel(i)
  PROVE  Unregisters(ClientOf(i)) /\ ids'[ClientOf(i)] = 0 /\ entries' \subseteq entries
<1>1. ids[ClientOf(i)] = 0 => UNCHANGED cron
  BY DEF Cancel
<1>2. ids \in [Clients -> Svc \cup {0}]
  BY ServiceNumbers, OldTypes DEF WillState
<1> QED BY <1>1, <1>2 DEF Cancel, Unregisters, cron

LEMMA SessionWills ==
  ASSUME IInv, WillInv, NEW i \in Svc, LookUp(i) \/ getSession(i)
  PROVE  WillInv'
<1>1. CASE LookUp(i)
  <2>1. /\ phase[i] = "accepted" /\ phase' = [phase EXCEPT ![i] = "looked"]
        /\ UNCHANGED <<prof, overlapped, wills, firing, sent, left>>
    BY <1>1 DEF LookUp, Goto
  <2>2. sessOf[i] = 0
    BY <2>1 DEF IInv, SessionsOK, Early
  <2>3. UNCHANGED <<sessOf, sess>> \/ Takes(i) \/ Makes(i)
    BY <1>1 DEF LookUp, Takes, Makes
  <2>4. SameServices /\ \A k \in Svc : phase'[k] \in Attached => phase[k] \in Attached
    BY <2>1, <2>2, <2>3, GettingSame
  <2> QED BY <2>1, <2>4, CalmStep
<1>2. CASE getSession(i)
  <2>1. /\ phase[i] = "looked" /\ phase' = [phase EXCEPT ![i] = "session"]
        /\ UNCHANGED <<prof, overlapped, expired, gos, firing, sent, left>> /\ GetOrCreate(i) /\ Cancel(i)
    BY <1>2 DEF getSession, Goto, history
  <2>2. sessOf[i] = 0 => ~ prof[i].clean
    BY <2>1 DEF IInv, SessionsOK
  <2>3. UNCHANGED <<sessOf, sess>> \/ (sessOf[i] = 0 /\ (Takes(i) \/ Makes(i)))
    BY <2>1, <2>2 DEF GetOrCreate, Takes, Makes
  <2>4. SameServices /\ \A k \in Svc : phase'[k] \in Attached => phase[k] \in Attached \/ k = i
    BY <2>1, <2>3, GettingSame
  <2>5. ClientOf(i) \in Clients
    BY <2>1, ConnectionAssumption DEF IInv, Types, ClientOf
  <2>6. Unregisters(ClientOf(i)) /\ ids'[ClientOf(i)] = 0 /\ entries' \subseteq entries
    BY <2>1, <2>5, CancelUnregisters
  <2>7. \A k \in Svc : Units(k)' <= Units(k)
    BY <2>1, <2>6, FewerUnits DEF WillInv
  <2>8. sent' \in [Svc -> Nat]
    BY <2>1 DEF WillInv, WillVars
  <2> QED BY <2>1, <2>4, <2>6, <2>7, <2>8, WillStep
<1> QED BY <1>1, <1>2

\* A timer or goroutine that begins Fn hands its will on.
LEMMA FnBegins ==
  ASSUME IInv, WillInv, NEW i \in Svc, GoRuns(i) \/ TimerFires(i)
  PROVE  WillInv'
<1>1. /\ UNCHANGED <<prof, phase, sessOf, sess, sent, left, overlapped>> /\ Cancel(i)
      /\ phase[i] \in Ending
  <2>1. Units(i) > 0
    BY UnitsCount DEF WillInv, GoRuns, TimerFires
  <2>2. phase[i] \in Ending
    BY <2>1, UnitsEnding
  <2> QED BY <2>2 DEF GoRuns, TimerFires, history
<1>2. ClientOf(i) \in Clients
  BY <1>1, ConnectionAssumption DEF IInv, Types, ClientOf, Ending
<1>3. Unregisters(ClientOf(i)) /\ ids'[ClientOf(i)] = 0 /\ entries' \subseteq entries
  BY <1>1, <1>2, CancelUnregisters
<1>4. SameServices
  BY <1>1 DEF SameServices, Attached, Ending, Served
<1>5. ASSUME NEW k \in Svc
      PROVE  Units(k)' <= Units(k) \/ (ClientOf(k) \in overlapped /\ phase[k] \in Ending)
  <2>1. CASE k # i
    <3>1. (k \in gos' => k \in gos) /\ (<<k, "go">> \in firing' => <<k, "go">> \in firing)
          /\ (<<k, "timer">> \in firing' => <<k, "timer">> \in firing) /\ (k \in entries' => k \in entries)
          /\ sent'[k] = sent[k]
      BY <1>1, <1>3, <2>1 DEF GoRuns, TimerFires
    <3> QED BY <3>1, FewerUnits DEF WillInv
  <2>2. CASE k = i /\ GoRuns(i)
    <3>1. k \in gos /\ k \notin gos' /\ <<k, "go">> \in firing'
          /\ (<<k, "timer">> \in firing' <=> <<k, "timer">> \in firing) /\ (k \in entries' => k \in entries)
          /\ sent'[k] = sent[k]
      BY <1>1, <1>3, <2>2 DEF GoRuns
    <3> QED BY <3>1, UnitsMove DEF WillInv
  <2>3. CASE k = i /\ TimerFires(i) /\ ClientOf(i) \notin overlapped
    <3>1. ids[ClientOf(i)] = i /\ i # 0
      BY <2>3, ServiceNumbers DEF TimerFires, WillInv, EntriesOK
    <3>2. k \in entries /\ k \notin entries'
      BY <1>1, <2>3, <3>1 DEF TimerFires, Cancel
    <3>3. /\ <<k, "timer">> \in firing' /\ (k \in gos' <=> k \in gos)
          /\ <<k, "go">> \in firing' <=> <<k, "go">> \in firing
          /\ sent'[k] = sent[k]
      BY <1>1, <2>3 DEF TimerFires
    <3> QED BY <3>2, <3>3, UnitsMove DEF WillInv
  <2> QED BY <1>1, <2>1, <2>2, <2>3
<1>6. sent' \in [Svc -> Nat]
  BY <1>1 DEF WillInv, WillVars
<1> QED BY <1>1, <1>3, <1>4, <1>5, <1>6, WillStep

\* The end of Fn, and of the timer's job, which removes what is registered.
LEMMA FnEnds ==
  ASSUME IInv, WillInv, NEW i \in Svc, NEW kind \in {"go", "timer"}, FnPublishes(i, kind)
  PROVE  WillInv'
<1>1. /\ UNCHANGED <<prof, phase, sessOf, sess, left, overlapped, gos, hasSendWill>>
      /\ <<i, kind>> \in firing /\ firing' = firing \ {<<i, kind>>}
      /\ sent' = [sent EXCEPT ![i] = IF @ < Enough(i) THEN @ + 1 ELSE @]
  BY DEF FnPublishes, history
<1>2. phase[i] \in Ending /\ ClientOf(i) \in Clients
  <2>1. Units(i) > 0
    BY <1>1, UnitsCount DEF WillInv
  <2>2. phase[i] \in Ending
    BY <2>1, UnitsEnding
  <2> QED BY <2>2, ConnectionAssumption DEF IInv, Types, ClientOf, Ending
<1>3. Unregisters(ClientOf(i)) /\ entries' \subseteq entries
  <2>1. \/ UNCHANGED <<ids, entries>>
        \/ /\ ids[ClientOf(i)] # 0 /\ ids' = [ids EXCEPT ![ClientOf(i)] = 0]
           /\ entries' = entries \ {ids[ClientOf(i)]}
    BY DEF FnPublishes
  <2> QED BY <1>1, <1>2, <2>1 DEF Unregisters
<1>4. SameServices
  BY <1>1 DEF SameServices, Attached, Ending, Served
<1>5. /\ sent' \in [Svc -> Nat] /\ sent'[i] \in {sent[i], sent[i] + 1}
      /\ \A k \in Svc : k # i => sent'[k] = sent[k]
  <2> DEFINE v == IF sent[i] < Enough(i) THEN sent[i] + 1 ELSE sent[i]
  <2>1. sent \in [Svc -> Nat] /\ sent' = [sent EXCEPT ![i] = v]
    BY <1>1 DEF WillInv, WillVars
  <2>2. v \in {sent[i], sent[i] + 1} /\ v \in Nat
    BY <2>1
  <2> HIDE DEF v
  <2> QED BY <2>1, <2>2
<1>6. ASSUME NEW k \in Svc PROVE Units(k)' <= Units(k)
  <2>1. CASE k # i
    BY <1>1, <1>3, <1>5, <2>1, FewerUnits DEF WillInv
  <2>2. CASE k = i
    BY <1>1, <1>3, <1>5, <2>2, UnitsMove DEF WillInv
  <2> QED BY <2>1, <2>2
<1> QED BY <1>1, <1>3, <1>4, <1>5, <1>6, WillStep

\* Service i ends, a step further, and may start its will: with a delay over
\* whatever entry its client had, which without an overlap can only be its own.
LEMMA EndStep ==
  ASSUME IInv, WillInv, NEW i \in Svc, SameServices, sessOf[i] # 0,
         phase[i] \in Attached, phase'[i] \in Ending, \A k \in Svc : phase'[k] \in Attached => phase[k] \in Attached,
         UNCHANGED <<firing, sent, overlapped>>, left' \in [Svc -> {"", "normal", "with will"}],
         \A k \in Svc : k # i => left'[k] = left[k],
         \/ UNCHANGED wills
         \/ /\ hasSendWill' = [hasSendWill EXCEPT ![i] = TRUE]
            /\ (Later(i) /\ AddJob(i)) \/ (~ Later(i) /\ GoFn(i)),
         CountAt(i)'
  PROVE  WillInv'
<1>1. ClientOf(i) \in Clients /\ phase[i] # "idle" /\ i # 0
  BY ServiceNumbers, ConnectionAssumption DEF IInv, Types, ClientOf, Attached, Served
<1>2. /\ ids \in [Clients -> Svc \cup {0}]
      /\ \A d \in Clients : ids'[d] = ids[d] \/ (d = ClientOf(i) /\ ids'[d] = i /\ Later(i))
      /\ entries' = entries \/ (entries' = entries \cup {i} /\ ids'[ClientOf(i)] = i)
  BY <1>1, ServiceNumbers, OldTypes DEF AddJob, GoFn, wills, cron, WillState
<1>3. ASSUME NEW k \in Svc, k # i PROVE Units(k)' = Units(k)
  <2>1. (k \in gos' <=> k \in gos) /\ (k \in entries' <=> k \in entries)
    BY <1>3 DEF AddJob, GoFn, wills, cron
  <2>2. One(k \in gos') = One(k \in gos) /\ One(k \in entries') = One(k \in entries)
    BY <2>1 DEF One
  <2>3. UNCHANGED <<firing, sent>>
    OBVIOUS
  <2> QED BY <2>2, <2>3 DEF Units
<1>4. \A k \in Svc : k # i => hasSendWill'[k] = hasSendWill[k]
  BY DEF WillInv, WillVars, wills, cron
<1>5. WillVars'
  BY DEF WillInv, WillVars, wills, cron
<1>6. Begun'
  BY <1>3 DEF WillInv, Begun, SameServices
<1>7. Registered'
  <2> SUFFICES ASSUME NEW d \in Clients, NEW k \in Svc, ids'[d] = k
               PROVE  ClientOf(k)' = d /\ phase'[k] \in Ending /\ Later(k)'
    BY DEF Registered
  <2>1. CASE ids'[d] = ids[d]
    BY <2>1, SameWills DEF WillInv, Registered, SameServices
  <2>2. CASE d = ClientOf(i) /\ ids'[d] = i /\ Later(i)
    BY <1>1, <2>2, SameWills
  <2> QED BY <1>2, <2>1, <2>2
<1>8. \A k \in Svc : k # i /\ phase[k] \in Attached /\ ClientOf(k) = ClientOf(i) => ClientOf(i) \in overlapped
  BY DEF IInv, OverlapKnown, Over, Attached, Served
<1>9. EntriesOK'
  <2> SUFFICES ASSUME NEW k \in entries', ClientOf(k)' \notin overlapped
               PROVE  ids'[ClientOf(k)'] = k
    BY DEF EntriesOK
  <2>1. CASE k = i
    <3>1. k \in entries => ids[ClientOf(i)] = i
      BY <1>1, <2>1, SameWills DEF WillInv, EntriesOK
    <3> QED BY <1>1, <1>2, <2>1, <3>1, SameWills
  <2>2. CASE k # i
    <3>1. k \in entries
      BY <2>2 DEF AddJob, GoFn, wills, cron
    <3>2. k \in Svc /\ phase[k] \in Ending /\ ClientOf(k)' = ClientOf(k) /\ ClientOf(k) \in Clients
      BY <3>1, EntryEnding, SameWills, ConnectionAssumption DEF IInv, Types, ClientOf
    <3>3. ids[ClientOf(k)] = k /\ k # 0
      BY <3>1, <3>2, ServiceNumbers DEF WillInv, EntriesOK
    <3>4. ClientOf(k) # ClientOf(i)
      BY <2>2, <3>2, <3>3 DEF WillInv, FreshIds
    <3> QED BY <1>2, <3>2, <3>3, <3>4
  <2> QED BY <2>1, <2>2
<1>10. FreshIds'
  <2> SUFFICES ASSUME NEW k \in Svc, phase'[k] \in Attached, ClientOf(k)' \notin overlapped
               PROVE  ids'[ClientOf(k)'] \in {0, k}
    BY DEF FreshIds
  <2>1. ClientOf(k)' = ClientOf(k) /\ ClientOf(k) \in Clients /\ phase[k] \in Attached
    BY SameWills, ConnectionAssumption DEF IInv, Types, ClientOf, SameServices
  <2> QED BY <1>2, <1>8, <2>1 DEF WillInv, FreshIds
<1>11. ASSUME NEW k \in Svc, k # i PROVE CountAt(k)'
  <2>1. CASE phase[k] \in Ending
    <3>1. /\ ClientOf(k)' = ClientOf(k) /\ Later(k)' = Later(k) /\ (SessionOf(k)'.will => SessionOf(k).will)
          /\ Units(k)' = Units(k) /\ left'[k] = left[k] /\ hasSendWill'[k] = hasSendWill[k]
          /\ phase[k] \in {"willed", "stopped"} => phase'[k] \in {"willed", "stopped"}
      BY <1>3, <1>4, <1>11, <2>1, SameWills DEF SameServices
    <3>2. CountAt(k)
      BY DEF WillInv
    <3> QED BY <3>1, <3>2 DEF CountAt
  <2>2. CASE phase[k] \notin Ending
    BY <1>3, <1>11, <2>2 DEF WillInv, Begun, CountAt
  <2> QED BY <2>1, <2>2
<1> QED BY <1>5, <1>6, <1>7, <1>9, <1>10, <1>11 DEF WillInv

\* A start adds one will.
LEMMA UnitsStart ==
  ASSUME WillVars, NEW i \in Svc, UNCHANGED <<firing, sent>>, AddJob(i) \/ GoFn(i), Units(i) = 0
  PROVE  Units(i)' = 1
<1>1. i \notin gos /\ i \notin entries /\ <<i, "go">> \notin firing /\ <<i, "timer">> \notin firing
  BY UnitsCount
<1>2. sent[i] = 0
  <2>1. sent[i] <= Units(i)
    BY UnitsCount
  <2>2. sent[i] \in Nat
    BY DEF WillVars
  <2>3. sent[i] <= 0
    BY <2>1
  <2> QED BY <2>2, <2>3
<1>3. \/ One(i \in gos') = 0 /\ One(i \in entries') = 1
      \/ One(i \in gos') = 1 /\ One(i \in entries') = 0
  BY <1>1 DEF One, AddJob, GoFn
<1>4. sent'[i] = 0 /\ One(<<i, "go">> \in firing') = 0 /\ One(<<i, "timer">> \in firing') = 0
  BY <1>1, <1>2 DEF One
<1> QED BY <1>3, <1>4 DEF Units

\* A step of service i with its session that has nothing to do with wills.
LEMMA CalmFrom ==
  ASSUME IInv, WillInv, NEW i \in Svc, phase[i] \in Served \ {"stopped"},
         NEW p \in Served, phase' = [phase EXCEPT ![i] = p], UNCHANGED <<prof, sessOf, overlapped>>,
         \A s \in Svc : sess'[s].will => sess[s].will,
         \/ phase[i] \notin Ending
         \/ phase[i] \in {"closing", "unsubscribed"} /\ p \in Ending
         \/ p \in {"willed", "stopped"},
         UNCHANGED <<wills, firing, sent, left>>
  PROVE  WillInv'
BY SameFrom, CalmStep

\* A flag of a session changes, and not the one for its will.
LEMMA WillsStay ==
  ASSUME IInv, NEW s \in Svc, NEW b \in BOOLEAN,
         sess' = [sess EXCEPT ![s].topic = b] \/ sess' = [sess EXCEPT ![s].offline = b]
  PROVE  \A z \in Svc : sess'[z].will => sess[z].will
<1>1. sess \in [Svc -> SessionType]
  BY OldTypes DEF ConnState, SessionType
<1>2. \A z \in Svc : z # s => sess'[z] = sess[z]
  BY <1>1
<1>3. sess'[s] = [sess[s] EXCEPT !.topic = b] \/ sess'[s] = [sess[s] EXCEPT !.offline = b]
  BY <1>1
<1>4. sess'[s].will = sess[s].will
  BY <1>1, <1>3 DEF SessionType
<1> QED BY <1>2, <1>4

LEMMA StartingWills ==
  ASSUME IInv, WillInv, NEW i \in Svc, recoverSub(i) \/ start(i)
  PROVE  WillInv'
<1>1. CASE recoverSub(i)
  <2>1. /\ phase[i] = "session" /\ phase' = [phase EXCEPT ![i] = "recovered"]
        /\ UNCHANGED <<prof, sessOf, sess, overlapped, wills, firing, sent, left>>
    BY <1>1 DEF recoverSub, Goto, history
  <2> QED BY <2>1, CalmFrom DEF Served, Ending
<1>2. CASE start(i)
  <2>1. PICK p \in {"running", "closing"} :
          /\ phase[i] = "recovered" /\ phase' = [phase EXCEPT ![i] = p]
          /\ UNCHANGED <<prof, sessOf, sess, overlapped, wills, firing, sent, left>>
    BY <1>2 DEF start, Goto, history
  <2> QED BY <2>1, CalmFrom DEF Served, Ending
<1> QED BY <1>1, <1>2

LEMMA ProcessorWills ==
  ASSUME IInv, WillInv, NEW i \in Svc,
         processSubscribe(i) \/ AddTopic(i) \/ processUnsubscribe(i) \/ onPublish(i) \/ processorEnds(i)
  PROVE  WillInv'
<1>1. /\ phase[i] \in {"running", "subscribing"} /\ sessOf[i] \in Svc
      /\ UNCHANGED <<prof, sessOf, overlapped, wills, firing, sent, left>>
  <2>1. phase[i] \in {"running", "subscribing"}
    BY DEF processSubscribe, AddTopic, processUnsubscribe, onPublish, processorEnds
  <2>2. UNCHANGED <<prof, sessOf, overlapped, wills, firing, sent, left>>
    BY DEF processSubscribe, AddTopic, processUnsubscribe, onPublish, processorEnds, history
  <2> QED BY <2>1, <2>2, HasSession DEF Served
<1>2. \A z \in Svc : sess'[z].will => sess[z].will
  <2>1. CASE UNCHANGED sess
    BY <2>1
  <2>2. CASE AddTopic(i) \/ processUnsubscribe(i)
    BY <1>1, <2>2, WillsStay DEF AddTopic, processUnsubscribe
  <2> QED BY <2>1, <2>2 DEF processSubscribe, onPublish, processorEnds
<1>3. \E p \in {"running", "subscribing", "closing"} : phase' = [phase EXCEPT ![i] = p]
  <2>1. CASE UNCHANGED phase
    BY <1>1, <2>1, OldTypes DEF ConnState
  <2>2. CASE \E p \in {"running", "subscribing", "closing"} : Goto(i, p)
    BY <2>2 DEF Goto
  <2> QED BY <2>1, <2>2 DEF processSubscribe, AddTopic, processUnsubscribe, onPublish, processorEnds
<1>4. PICK p \in {"running", "subscribing", "closing"} : phase' = [phase EXCEPT ![i] = p]
  BY <1>3
<1> QED BY <1>1, <1>2, <1>4, CalmFrom DEF Served, Ending

\* The steps of stop but the one for the will, and the sender.
LEMMA StoppingWills ==
  ASSUME IInv, WillInv, NEW i \in Svc, unSubAll(i) \/ stopSave(i) \/ sender(i)
  PROVE  WillInv'
<1>1. CASE unSubAll(i)
  <2>1. /\ phase[i] = "closing" /\ phase' = [phase EXCEPT ![i] = "unsubscribed"]
        /\ UNCHANGED <<prof, sessOf, sess, overlapped, wills, firing, sent, left>>
    BY <1>1 DEF unSubAll, Goto, history
  <2> QED BY <2>1, CalmFrom DEF Served, Ending
<1>2. CASE stopSave(i)
  <2>1. /\ phase[i] = "willed" /\ phase' = [phase EXCEPT ![i] = "stopped"]
        /\ UNCHANGED <<prof, sessOf, overlapped, wills, firing, sent, left>>
    BY <1>2 DEF stopSave, Goto, history
  <2>2. sessOf[i] \in Svc
    BY <2>1, HasSession DEF Served
  <2>3. \A z \in Svc : sess'[z].will => sess[z].will
    <3>1. CASE UNCHANGED sess
      BY <3>1
    <3>2. CASE sess' = [sess EXCEPT ![sessOf[i]].offline = TRUE]
      BY <2>2, <3>2, WillsStay
    <3> QED BY <1>2, <3>1, <3>2 DEF stopSave
  <2> QED BY <2>1, <2>3, CalmFrom DEF Served, Ending
<1>3. CASE sender(i)
  <2>1. UNCHANGED <<prof, phase, sessOf, sess, overlapped, wills, firing, sent, left>>
    BY <1>3 DEF sender, history
  <2>2. SameServices /\ \A k \in Svc : phase'[k] \in Attached => phase[k] \in Attached
    BY <2>1 DEF SameServices, Attached, Ending, Served
  <2> QED BY <2>1, <2>2, CalmStep
<1> QED BY <1>1, <1>2, <1>3

LEMMA DisconnectWills ==
  ASSUME IInv, WillInv, NEW i \in Svc, NEW code \in {"normal", "with will"}, NEW e \in Intervals,
         Disconnect(i, code, e)
  PROVE  WillInv'
<1>1. /\ phase[i] = "running" /\ phase' = [phase EXCEPT ![i] = "closing"]
      /\ UNCHANGED <<prof, sessOf, firing, sent, overlapped>>
      /\ left' = [left EXCEPT ![i] = IF Enough(i) = 2 THEN code ELSE @]
      /\ IF code = "with will" THEN sendWillMsg(i) ELSE UNCHANGED wills
  BY DEF Disconnect, Goto
<1>2. sessOf[i] \in Svc /\ sessOf[i] # 0
  BY <1>1, HasSession, ServiceNumbers DEF Served
<1>3. PICK r \in SessionType :
        /\ sess' = [sess EXCEPT ![sessOf[i]] = r] /\ r.topic = sess[sessOf[i]].topic
        /\ r.will = (code = "with will" /\ sess[sessOf[i]].will)
  BY DisconnectRecord
<1>4. sess' = [sess EXCEPT ![sessOf[i]] = r] /\ (r.will => code = "with will" /\ sess[sessOf[i]].will)
  BY <1>3
<1>5. SessionOf(i)'.will => code = "with will"
  BY <1>1, <1>2, <1>4, OldTypes DEF SessionOf, ConnState
<1>6. \A s \in Svc : sess'[s].will => sess[s].will
  BY <1>2, <1>4, OldTypes DEF ConnState
<1>7. SameServices /\ \A k \in Svc : phase'[k] \in Attached => phase[k] \in Attached
  BY <1>1, <1>6, SameFrom DEF Served, Ending
<1>8. phase[i] \in Attached /\ phase'[i] \in Ending
  BY <1>1, OldTypes DEF Attached, Served, Ending, ConnState
<1>9. Units(i) = 0 /\ left[i] = ""
  BY <1>1 DEF WillInv, Begun, Ending
<1>10. /\ left' \in [Svc -> {"", "normal", "with will"}] /\ \A k \in Svc : k # i => left'[k] = left[k]
       /\ ClientOf(i) \notin overlapped => left'[i] = code
  BY <1>1 DEF WillInv, WillVars, Enough
<1>11. ClientOf(i)' = ClientOf(i) /\ Later(i)' = Later(i)
  BY <1>1 DEF ClientOf, Later
<1>12. CASE UNCHANGED wills
  <2>1. Units(i)' = Units(i)
    BY <1>1, <1>12 DEF Units, wills, cron
  <2>2. Units(i)' = 0
    BY <1>9, <2>1
  <2>3. CountAt(i)'
    BY <1>1, <1>5, <1>10, <1>11, <2>2 DEF CountAt
  <2> QED BY <1>1, <1>2, <1>7, <1>8, <1>10, <1>12, <2>3, EndStep
<1>13. CASE code = "with will" /\ SessionOf(i).will /\ ~ hasSendWill[i]
  <2>1. /\ hasSendWill' = [hasSendWill EXCEPT ![i] = TRUE]
        /\ (Later(i) /\ AddJob(i)) \/ (~ Later(i) /\ GoFn(i))
    BY <1>1, <1>13 DEF sendWillMsg, Later
  <2>2. Units(i)' = 1
    BY <1>1, <1>9, <2>1, UnitsStart DEF WillInv
  <2>3. hasSendWill'[i] = TRUE
    BY <2>1 DEF WillInv, WillVars
  <2>4. CountAt(i)'
    BY <1>1, <1>10, <1>11, <1>13, <2>2, <2>3 DEF CountAt
  <2> QED BY <1>1, <1>2, <1>7, <1>8, <1>10, <2>1, <2>4, EndStep
<1> QED BY <1>1, <1>12, <1>13 DEF sendWillMsg

\* stop publishes a will only if the DISCONNECT has not done it.
LEMMA StopWills ==
  ASSUME IInv, WillInv, NEW i \in Svc, stopWill(i)
  PROVE  WillInv'
<1>1. /\ phase[i] = "unsubscribed" /\ phase' = [phase EXCEPT ![i] = "willed"]
      /\ UNCHANGED <<prof, sessOf, sess, overlapped, firing, sent, left>>
      /\ IF SessionOf(i).flag THEN sendWillMsg(i) ELSE UNCHANGED wills
  BY DEF stopWill, Goto, history
<1>2. CASE UNCHANGED wills
  BY <1>1, <1>2, CalmFrom DEF Served, Ending
<1>3. CASE SessionOf(i).will /\ ~ hasSendWill[i] /\ ~ UNCHANGED wills
  <2>1. /\ hasSendWill' = [hasSendWill EXCEPT ![i] = TRUE]
        /\ (Later(i) /\ AddJob(i)) \/ (~ Later(i) /\ GoFn(i))
    BY <1>1, <1>3 DEF sendWillMsg, Later
  <2>2. SameServices /\ \A k \in Svc : phase'[k] \in Attached => phase[k] \in Attached
    BY <1>1, SameFrom DEF Served, Ending
  <2>3. /\ phase[i] \in Attached /\ phase'[i] = "willed" /\ phase'[i] \in Ending
        /\ sessOf[i] # 0
    BY <1>1, HasSession, ServiceNumbers, OldTypes DEF Attached, Served, Ending, ConnState
  <2>4. ClientOf(i)' = ClientOf(i) /\ Later(i)' = Later(i)
    BY <1>1 DEF ClientOf, Later
  <2>5. hasSendWill'[i] = TRUE
    BY <2>1 DEF WillInv, WillVars
  <2>6. Units(i) = 0 => Units(i)' = 1
    BY <1>1, <2>1, UnitsStart DEF WillInv
  <2>7. CountAt(i)'
    <3>1. \/ ClientOf(i) \in overlapped
          \/ left[i] = "" /\ Units(i) = 0
          \/ left[i] = "with will" /\ Later(i)
          \/ left[i] = "with will" /\ ~ Later(i) /\ Units(i) = 0
      BY <1>1, <1>3 DEF WillInv, CountAt
    <3> QED BY <1>1, <2>3, <2>4, <2>5, <2>6, <3>1 DEF CountAt
  <2>8. left' \in [Svc -> {"", "normal", "with will"}] /\ \A k \in Svc : left'[k] = left[k]
    BY <1>1 DEF WillInv, WillVars
  <2> QED BY <1>1, <2>1, <2>2, <2>3, <2>7, <2>8, EndStep
<1> QED BY <1>1, <1>2, <1>3 DEF sendWillMsg

LEMMA NextWills == IInv /\ WillInv /\ [Next]_vars => WillInv'
<1> SUFFICES ASSUME IInv, WillInv, [Next]_vars PROVE WillInv'
  OBVIOUS
<1>1. ASSUME NEW i \in Svc, Handle(i) PROVE WillInv'
  <2>1. ASSUME NEW p \in Profiles, Connect(i, p) PROVE WillInv'
    BY <2>1, ConnectWills
  <2>2. ASSUME NEW code \in {"normal", "with will"}, NEW e \in Intervals, Disconnect(i, code, e)
        PROVE  WillInv'
    BY <2>2, DisconnectWills
  <2> QED BY <1>1, <2>1, <2>2, ProcessorWills DEF Handle
<1>2. ASSUME NEW i \in Svc, processorEnds(i) PROVE WillInv'
  BY <1>2, ProcessorWills
<1>3. ASSUME NEW i \in Svc, Goes(i) PROVE WillInv'
  BY <1>3, SessionWills, StartingWills, ProcessorWills, StopWills, StoppingWills DEF Goes
<1>4. ASSUME NEW i \in Svc, Timers(i) PROVE WillInv'
  BY <1>4, FnBegins, FnEnds DEF Timers
<1>5. CASE UNCHANGED vars
  <2>1. UNCHANGED <<prof, phase, sessOf, sess, overlapped, wills, firing, sent, left>>
    BY <1>5 DEF vars, history
  <2>2. SameServices /\ \A k \in Svc : phase'[k] \in Attached => phase[k] \in Attached
    BY <2>1 DEF SameServices, Attached, Ending, Served
  <2> QED BY <2>1, <2>2, CalmStep
<1> QED BY <1>1, <1>2, <1>3, <1>4, <1>5 DEF Next

LEMMA InitWills == Init => WillInv
<1> SUFFICES ASSUME Init PROVE WillInv
  OBVIOUS
<1>1. \A k \in Svc : Units(k) = 0 /\ left[k] = "" /\ phase[k] = "idle"
  <2> SUFFICES ASSUME NEW k \in Svc PROVE Units(k) = 0 /\ left[k] = "" /\ phase[k] = "idle"
    OBVIOUS
  <2>1. One(k \in gos) = 0 /\ One(k \in entries) = 0
    BY DEF Init, One
  <2>2. One(<<k, "go">> \in firing) = 0 /\ One(<<k, "timer">> \in firing) = 0
    BY DEF Init, One
  <2>3. sent[k] = 0 /\ left[k] = "" /\ phase[k] = "idle"
    BY DEF Init
  <2>4. Units(k) = 0 + 0 + 0 + 0 + 0
    BY <2>1, <2>2, <2>3, Zenon DEF Units
  <2>5. 0 + 0 + 0 + 0 + 0 = 0
    OBVIOUS
  <2> QED BY <2>3, <2>4, <2>5, Zenon
<1>2. WillVars
  BY DEF Init, WillVars
<1>3. Registered /\ EntriesOK /\ FreshIds
  BY ServiceNumbers DEF Init, Registered, EntriesOK, FreshIds, Attached, Served
<1> QED BY <1>1, <1>2, <1>3 DEF WillInv, Begun, CountAt

-----------------------------------------------------------------------------
(* Theorems *)

\* A connection never gets the session of another client, a clean one, or one
\* that was found expired, in spite of getSession's two looks at the store;
\* with any number of connections, as long as those of the client took turns.
THEOREM SessionsContinue == Spec => []SessionContinuity
<1>1. IInv => SessionContinuity
  BY ServiceNumbers DEF IInv, SessionsOK, ExpiryOK, SessionContinuity
<1> QED BY <1>1, InitInv, NextInv, PTL DEF Spec

\* Whoever is connected is in the topic tree for what its session lists, and of
\* those who are not connected only persistent sessions are: a clean session
\* takes its subscriptions with it, however it ends.
THEOREM TreeIsRight == Spec => []TreeFollowsSessions
<1>1. IInv => TreeFollowsSessions
  <2> SUFFICES ASSUME IInv PROVE TreeFollowsSessions
    OBVIOUS
  <2>1. TypeOK
    BY DEF IInv, Types
  <2>2. StaleOnlyPersistent
    BY <2>1 DEF IInv, TreeOK, TreeAt, StaleOnlyPersistent, Stale, TypeOK
  <2>3. Subscribed
    BY DEF IInv, TreeOK, TreeAt, Subscribed
  <2> QED BY <2>1, <2>2, <2>3 DEF TreeFollowsSessions
<1> QED BY <1>1, InitInv, NextInv, PTL DEF Spec

\* The CONNACK comes before every PUBLISH for a client whose session is new:
\* nobody can have subscribed for it, although start subscribes a resumed
\* session before it writes the CONNACK past the ring.
THEOREM ConnackComesFirst == Spec => []ConnackFirst
<1>1. FirstInv => ConnackFirst
  BY DEF FirstInv, QuietAt, ConnackFirst
<1> QED BY <1>1, InitInv, NextInv, InitFirst, NextFirst, PTL DEF Spec

\* However stop, DISCONNECT, goroutines and timers interleave, a will is
\* published at most once, and never after a normal DISCONNECT; but for
\* overlapping connections, and for a delayed will whose timer fires between
\* a DISCONNECT with will and the end of stop, which starts it again.
THEOREM WillsOnce == Spec => []WillOnce
<1>1. \A n \in Nat : n <= 0 => n <= 1
  OBVIOUS
<1>2. WillInv => WillOnce
  <2> SUFFICES ASSUME WillInv, NEW k \in Svc, ClientOf(k) \notin overlapped,
                      ~ (left[k] = "with will" /\ Later(k))
               PROVE  sent[k] <= (IF left[k] = "normal" THEN 0 ELSE 1)
    BY DEF WillOnce, Later
  <2>1. Units(k) = 0 \/ (Units(k) = 1 /\ left[k] # "normal")
    BY DEF WillInv, CountAt
  <2>2. sent[k] \in Nat
    BY DEF WillInv, WillVars
  <2>3. sent[k] <= Units(k)
    BY UnitsCount DEF WillInv
  <2>4. sent[k] <= 0 \/ (sent[k] <= 1 /\ left[k] # "normal")
    BY <2>1, <2>3, Zenon
  <2> QED BY <1>1, <2>2, <2>4, Zenon
<1> QED BY <1>2, InitInv, NextInv, InitWills, NextWills, PTL DEF Spec

\* No timer starts a will while a later connection of the client is served,
\* unless the two overlapped: getSession has cancelled it before, and no
\* timer runs that is not registered.
THEOREM NoWillOnReturn == Spec => NoWillWhenBack
<1> DEFINE Quiet(k) ==
      TimerFires(k) /\ ClientOf(k) \notin overlapped =>
        \A j \in Svc \ {k} : ClientOf(j) = ClientOf(k) /\ j > k =>
          phase[j] \notin {"session", "recovered", "running", "subscribing"}
<1>1. IInv /\ WillInv => \A k \in Svc : Quiet(k)
  <2> SUFFICES ASSUME WillInv, NEW k \in Svc, TimerFires(k), ClientOf(k) \notin overlapped,
                      NEW j \in Svc \ {k}, ClientOf(j) = ClientOf(k), phase[j] \in Attached
               PROVE  FALSE
    BY DEF Attached, Served
  <2>1. ids[ClientOf(k)] = k /\ k # 0
    BY ServiceNumbers DEF TimerFires, WillInv, EntriesOK
  <2>2. ids[ClientOf(k)] \in {0, j}
    BY DEF WillInv, FreshIds
  <2> QED BY <2>1, <2>2
<1>2. IInv /\ WillInv /\ [Next]_vars => [\A k \in Svc : Quiet(k)]_vars
  BY <1>1
<1> QED BY <1>2, InitInv, NextInv, InitWills, NextWills, PTL DEF Spec, NoWillWhenBack
=============================================================================
