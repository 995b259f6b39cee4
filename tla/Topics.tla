------------------------------- MODULE Topics -------------------------------
(***************************************************************************)
(* The topic manager (topic.go): it sends subscriptions to the plain, the  *)
(* shared or the system tree, keeps retained messages in a tree and in the *)
(* message store, and answers who is to be sent a message.  Every          *)
(* operation holds the lock of the one tree it works on, so operations are *)
(* atomic.  What the clients know is kept in history variables: live (who  *)
(* subscribed to which filter) and lost (which retained messages a longer  *)
(* topic took with it when it was cleared).                                *)
(***************************************************************************)
EXTENDS TopicTree

CONSTANTS Subs,      \* subscribers (the addresses of onPub functions)
          Qoses, MaxQos,
          Payloads,
          Workloads, \* what clients may ask for: filters, topics
          PubTopics, \* topics that are looked up
          Searches,  \* filters that retained messages are searched by
          MaxOps     \* bound: operations in a behaviour

IsSysSub(t) == Head(t) = "$sys" /\ Len(t) > 1
IsShareSub(t) == Head(t) = "$share" /\ Len(t) > 1
IsPlainSub(t) == ~ IsSysSub(t) /\ ~ IsShareSub(t)

\* A topic to publish to has a character and no wildcard (ValidTopic); no message
\* is none.  processSubscribe searches for the filters that the plain or the
\* system tree has accepted, empty levels and all.
ASSUME TopicsAssumption ==
  /\ MaxQos \in Nat /\ Qoses \subseteq Nat
  /\ \A w \in Workloads : \A t \in w.filters \cup w.topics : IsTopic(t)
  /\ \A w \in Workloads : \A t \in w.topics, m \in Payloads : [topic |-> t, payload |-> m] # NoMsg
  /\ \A t \in PubTopics : IsTopic(t) /\ t # <<"">> /\ Range(t) \cap ({SWC, MWC} \cup Malformed) = {}
  /\ {"$sys", "$share"} \subseteq Dollar
  /\ \A f \in Searches : IsTopic(f) /\ (Accepted(f) \/ IsSysSub(f))

Share == INSTANCE ShareTree
Sys == INSTANCE SysTree

VARIABLES sroot, share, sys, rroot, retainTable, live, lost, work, ops

trees == <<sroot, share, sys>>
retained == <<rroot, retainTable, lost>>
vars == <<trees, retained, live, work, ops>>

Init ==
  /\ sroot = Root(newSNode) /\ share = Root(Share!newSNode)
  /\ sys = Root(Sys!newRSNode) /\ rroot = Root(newRNode)
  /\ retainTable = <<>> /\ live = {} /\ lost = {}
  /\ work \in Workloads /\ ops = 0

\* "$share/{name}/{filter}": a name without wildcards, neither part empty.
ShareWellFormed(t) ==
  /\ Len(t) > 2 /\ From(t, 3) # <<"">>
  /\ t[2] \notin {"", SWC, MWC} \cup Malformed

ValidQos(q) == q \in 0 .. 2
Granted(q) == Min({q, MaxQos})
NextOp == ops < MaxOps /\ ops' = ops + 1 /\ UNCHANGED work

Entry(tree, group, f, s, q) ==
  [tree |-> tree, share |-> group, filter |-> f, path |-> PathOf(f), sub |-> s, qos |-> q]
SamePlace(e, d) ==
  <<e.tree, e.share, e.path, e.sub>> = <<d.tree, d.share, d.path, d.sub>>

\* A subscription that was accepted replaces the QoS of its place.
Joins(e) ==
  live' = IF Accepted(e.filter)
          THEN {e} \cup {[d EXCEPT !.qos = IF SamePlace(d, e) THEN e.qos ELSE @] :
                           d \in live \ {[e EXCEPT !.qos = q] : q \in 0 .. 2}}
          ELSE live
Leaves(e) == live' = {d \in live : ~ (Accepted(e.filter) /\ SamePlace(d, e))}

SubscribePlain(t, s, q) ==
  /\ IsPlainSub(t)
  /\ sroot' = sinsert(sroot, t, s, q)
  /\ Joins(Entry("plain", "", t, s, q)) /\ UNCHANGED <<share, sys>>

SubscribeSys(t, s, q) ==
  /\ IsSysSub(t)
  /\ sys' = Sys!sinsert(sys, Tail(t), s, q)
  /\ Joins(Entry("sys", "", Tail(t), s, q)) /\ UNCHANGED <<sroot, share>>

SubscribeShare(t, s, q) ==
  /\ IsShareSub(t) /\ ShareWellFormed(t)
  /\ share' = Share!sinsert(share, t[2], From(t, 3), s, q)
  /\ Joins(Entry("share", t[2], From(t, 3), s, q)) /\ UNCHANGED <<sroot, sys>>

Subscribe(t, s, q) ==
  /\ ValidQos(q) /\ NextOp
  /\ \/ SubscribePlain(t, s, Granted(q))
     \/ SubscribeSys(t, s, Granted(q))
     \/ SubscribeShare(t, s, Granted(q))
  /\ UNCHANGED retained

\* An ill-formed "$share/..." falls through to the plain tree, which refuses
\* its '$': nothing changes.
UnsubscribePlain(t, s) ==
  /\ ~ IsSysSub(t) /\ ~ (IsShareSub(t) /\ ShareWellFormed(t))
  /\ sroot' = sremove(sroot, t, s)
  /\ Leaves(Entry("plain", "", t, s, 0)) /\ UNCHANGED <<share, sys>>

UnsubscribeSys(t, s) ==
  /\ IsSysSub(t)
  /\ sys' = Sys!sremove(sys, Tail(t), s)
  /\ Leaves(Entry("sys", "", Tail(t), s, 0)) /\ UNCHANGED <<sroot, share>>

UnsubscribeShare(t, s) ==
  /\ IsShareSub(t) /\ ShareWellFormed(t)
  /\ share' = Share!sremove(share, t[2], From(t, 3), s)
  /\ Leaves(Entry("share", t[2], From(t, 3), s, 0)) /\ UNCHANGED <<sroot, sys>>

Unsubscribe(t, s) ==
  /\ NextOp
  /\ UnsubscribePlain(t, s) \/ UnsubscribeSys(t, s) \/ UnsubscribeShare(t, s)
  /\ UNCHANGED retained

Message(t, m) == [topic |-> t, payload |-> m]
StoreRetainMessage(t, m) == [u \in DOMAIN retainTable \cup {t} |-> IF u = t THEN Message(t, m) ELSE retainTable[u]]
ClearRetainMessage(t) == [u \in DOMAIN retainTable \ {t} |-> retainTable[u]]

\* The store first, then the tree, which may refuse the topic.
Retain(t, m) ==
  /\ NextOp
  /\ retainTable' = StoreRetainMessage(t, m)
  /\ rroot' = rinsert(rroot, t, Message(t, m))
  /\ lost' = lost \ {t}
  /\ UNCHANGED <<trees, live>>

\* Retain with an empty payload.
RetainClear(t) ==
  /\ NextOp
  /\ retainTable' = ClearRetainMessage(t)
  /\ rroot' = rremove(rroot, t)
  /\ lost' = lost \cup {u \in DOMAIN retainTable : Accepted(t) /\ IsStrictPrefix(PathOf(u), PathOf(t))}
  /\ UNCHANGED <<trees, live>>

Next ==
  \/ \E t \in work.filters, s \in Subs, q \in Qoses : Subscribe(t, s, q)
  \/ \E t \in work.filters, s \in Subs : Unsubscribe(t, s)
  \/ \E t \in work.topics, m \in Payloads : Retain(t, m)
  \/ \E t \in work.topics : RetainClear(t)

Spec == Init /\ [][Next]_vars

-----------------------------------------------------------------------------
(* Lookups: they change nothing.  Refused stands for an error. *)

Refused == {[error |-> Error]}

\* svc: a message of the system; name and onlyShare: which shared groups.
Subscribers(t, q, svc, name, onlyShare) ==
  LET s == Sys!smatch(sys, Tail(t))
      g == IF name = "" /\ ~ onlyShare THEN {} ELSE Share!smatch(share, t)
      n == IF onlyShare THEN {} ELSE smatch(sroot, t)
  IN  IF svc
      THEN IF ~ IsSysSub(t) \/ <<Error>> \in s THEN Refused ELSE Sys!matchQos(sys, s, q)
      ELSE IF Head(t) \in Dollar \/ <<Error>> \in g \cup n THEN Refused
           ELSE Share!matchQos(share, g, q, name) \cup matchQos(sroot, n, q)

AllSubInfo == Share!matchAll(share)
Retained(t) == rmatch(rroot, t)
-----------------------------------------------------------------------------
(* Properties *)

\* Trees are trees and their nodes hold what they should.
TypeOK ==
  /\ \A T \in {sroot, share, sys, rroot} : IsTree(T)
  /\ \A T \in {sroot, sys} : \A p \in DOMAIN T : T[p] \in [DOMAIN T[p] -> 0 .. MaxQos] /\ DOMAIN T[p] \subseteq Subs
  /\ \A p \in DOMAIN share : \A g \in DOMAIN share[p] : \A s \in DOMAIN share[p][g] : share[p][g][s] \in 0 .. MaxQos
  /\ \A p \in DOMAIN rroot : rroot[p] # NoMsg => rroot[p].payload \in Payloads

\* The matching rules of MQTT, which the code is measured against.
MqttMatch(f, t) ==
  LET n == Len(f)
  IN  IF f[n] = MWC
      THEN n <= Len(t) + 1 /\ \A i \in 1 .. n - 1 : f[i] \in {SWC, t[i]}
      ELSE n = Len(t) /\ \A i \in 1 .. n : f[i] \in {SWC, t[i]}

HasEmpty(t) == "" \in Range(t)
HasDollar(t) == Range(t) \cap Dollar # {}
LiveIn(tree) == {e \in live : e.tree = tree}
Plain(t, q) == Subscribers(t, q, FALSE, "", FALSE)
Groups(t, q) == Subscribers(t, q, FALSE, "", TRUE)
System(t, q) == Subscribers(<<"$sys">> \o t, q, TRUE, "", FALSE)

\* A search that ends at the empty last level of "a/" looks one level deeper,
\* where "a/+/#" has its '+'.
BeyondEmpty(f, t) == Last(t) = "" /\ Last(f) = MWC /\ Len(f) = Len(t) + 1

\* Nobody is left out: whoever subscribed to a filter that matches the topic
\* under the rules of MQTT is sent the message at the lower QoS, in the plain
\* tree directly, in the shared tree as one of those a group chooses from,
\* whatever was subscribed, updated, removed or refused before; but for filters
\* one level deeper than a topic with an empty last one.  The system tree, whose
\* search lacks two cases and passes lower QoS over, owes it only where neither
\* case applies.
NobodyMissed ==
  \A t \in PubTopics, q \in Qoses :
    LET plain == Plain(t, q)  groups == Groups(t, q)  system == System(t, q)
        Matching(tree) == {e \in LiveIn(tree) : MqttMatch(e.filter, t) /\ ~ BeyondEmpty(e.filter, t)}
    IN  /\ plain # Refused => \A e \in Matching("plain") :
             [path |-> e.path, sub |-> e.sub, qos |-> Min({q, e.qos})] \in plain
        /\ groups # Refused => \A e \in Matching("share") : \E slot \in groups :
             /\ slot.path = e.path /\ slot.share = e.share
             /\ [sub |-> e.sub, qos |-> Min({q, e.qos})] \in slot.from
        /\ system # Refused => \A e \in Matching("sys") :
             q <= e.qos /\ ~ HasEmpty(t)
             /\ ~ (Last(e.filter) = MWC /\ Len(e.filter) = Len(t) + 1) =>
               [path |-> e.path, sub |-> e.sub, qos |-> q] \in system

\* Nobody is sent what it did not ask for: each subscriber found, and each
\* member a group may choose, has a live subscription that matches, or an empty
\* level (which the code takes for '+', or drops at the end) is involved.
NobodyExtra ==
  \A t \in PubTopics, q \in Qoses :
    LET plain == Plain(t, q)  groups == Groups(t, q)  system == System(t, q)
        Asked(tree, d, p) ==
          \E e \in LiveIn(tree) :
            /\ e.sub = d.sub /\ e.path = p /\ d.qos = Min({q, e.qos})
            /\ MqttMatch(e.filter, t) \/ HasEmpty(e.filter) \/ HasEmpty(t)
    IN  /\ plain # Refused => \A d \in plain : Asked("plain", d, d.path)
        /\ groups # Refused => \A slot \in groups : \A d \in slot.from : Asked("share", d, slot.path)
        /\ system # Refused => \A d \in system : Asked("sys", d, d.path)

\* A lookup is refused, and nobody is sent the message, only for a topic with a
\* level that begins with '$'.
RefusedOnlyDollar ==
  \A t \in PubTopics :
    ~ HasDollar(t) => Plain(t, 1) # Refused /\ Groups(t, 1) # Refused /\ System(t, 1) # Refused

\* Lookups are exact: the trees are well formed, nobody is left out, nobody is
\* sent what it did not ask for, and no ordinary topic is refused.
LookupsExact == TypeOK /\ NobodyMissed /\ NobodyExtra /\ RefusedOnlyDollar

\* Where the filters of a set that are refused leave nodes behind.
RefusedPaths(filters) ==
  UNION {Prefixes(PathOf(f)) : f \in {g \in filters : ~ Accepted(g)}}

PlainAsked == {t \in work.filters : IsPlainSub(t)}
SysAsked == {Tail(t) : t \in {u \in work.filters : IsSysSub(u)}}
ShareAsked == {From(t, 3) : t \in {u \in work.filters : IsShareSub(u) /\ ShareWellFormed(u)}}

\* Nothing is left behind: a node without subscribers below it exists only on
\* the way to a filter that was refused half-way, so the trees do not grow with
\* the history of accepted subscriptions.
NoDeadBranches ==
  LET Busy(tree, Idle(_), p) == \E q \in Below(tree, p) : ~ Idle(tree[q])
  IN  /\ \A p \in DOMAIN sroot \ {<<>>} : Busy(sroot, HasNobody, p) \/ p \in RefusedPaths(PlainAsked)
      /\ \A p \in DOMAIN sys \ {<<>>} : Busy(sys, Sys!HasNobody, p) \/ p \in RefusedPaths(SysAsked)
      /\ \A p \in DOMAIN share \ {<<>>} : Busy(share, Share!HasNobody, p) \/ p \in RefusedPaths(ShareAsked)

\* The summary of shared subscriptions, meant for the moment the server stops,
\* names every group that has a member; a group that has none is still named only
\* while its node lives for the sake of others, or of what a refused filter left.
GroupsReported ==
  LET Member(i) == \E e \in LiveIn("share") : e.path = i.path /\ e.share = i.share
  IN  /\ \A e \in LiveIn("share") : [path |-> e.path, share |-> e.share] \in AllSubInfo
      /\ \A i \in AllSubInfo :
           \/ Member(i) \/ \E e \in LiveIn("share") : IsPrefix(i.path, e.path)
           \/ i.path \in RefusedPaths(ShareAsked)

Others(S, s) == {d \in S : d.sub # s}

\* One client's subscription or its end changes nothing for the others: whoever
\* else was sent the messages of a topic before is sent them after, unless the
\* topic has a level with '$' (then a new node can make the lookup fail).
Isolation ==
  [][\A s \in Subs :
       (\E t \in work.filters : Unsubscribe(t, s) \/ \E q \in Qoses : Subscribe(t, s, q)) =>
         \A t \in PubTopics : ~ HasDollar(t) => Others(Plain(t, 1), s)' = Others(Plain(t, 1), s)]_vars

\* What a subscriber is sent as retained is what the store holds: no cleared
\* message and no older payload comes out of the tree.
RetainedBacked ==
  \A p \in DOMAIN rroot : rroot[p] # NoMsg =>
    /\ rroot[p].topic \in DOMAIN retainTable
    /\ retainTable[rroot[p].topic] = rroot[p]

\* What the store holds is sent, unless the tree refuses the topic, another
\* topic is spelled the same in the tree, or a longer topic was cleared since it
\* was stored (which deletes the shorter ones on its way).
RetainedServed ==
  \A t \in DOMAIN retainTable :
    \/ ~ Accepted(t) \/ retainTable[t] \in Retained(t)
    \/ \E u \in work.topics \ {t} : Accepted(u) /\ PathOf(u) = PathOf(t)
    \/ t \in lost

\* The node q is found by the filter that the tree spells f; the empty filter
\* stands for the root.
Finds(f, q) == IF f = <<>> THEN q = <<>> ELSE MqttMatch(f, q)

\* A search for retained messages finds exactly those whose topic the filter
\* matches, of all that are in the tree, the filter as the tree spells it: an
\* empty level is '+', and dropped at the end.  A subscription to a system topic
\* gets an error instead (and the client is disconnected).
RetainedMatch ==
  \A f \in Searches :
    Retained(f) =
      IF Accepted(f)
      THEN {rroot[p] : p \in {q \in DOMAIN rroot : rroot[q] # NoMsg /\ Finds(PathOf(f), q)}}
      ELSE {NoMsg}

\* Retained messages are exact: what is in the tree is in the store, what is in
\* the store is served, and what is served matches.
RetainedExact == RetainedBacked /\ RetainedServed /\ RetainedMatch
=============================================================================
