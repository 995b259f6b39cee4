------------------------------ MODULE SysTree ------------------------------
(***************************************************************************)
(* The tree of subscriptions to system topics (mem_sys_topic.go).  It is   *)
(* searched without the cases of '#' for the parent level and of '+' for   *)
(* an empty last level.  Its retained messages have no caller.             *)
(***************************************************************************)
EXTENDS TopicLevels

\* The level function of insertions.
nextRTopicLevel(t) ==
  IF (Head(t) = MWC /\ Len(t) > 1) \/ Head(t) \in Malformed \cup Dollar THEN Error
  ELSE IF Head(t) = "" THEN SWC ELSE Head(t)

\* The level function of removals and searches.
nextTopicLevel(t) ==
  IF (Head(t) = MWC /\ Len(t) > 1) \/ Head(t) \in Malformed \cup Dollar THEN Error
  ELSE IF Head(t) = "" THEN SWC ELSE Head(t)

newRSNode == <<>>

\* Subscribers are compared by the address of their function.
equal(k1, k2) == k1 = k2

sinsert(tree, t, sub, qos) ==
  LET walk == Walk(nextRTopicLevel, t)
      grown == Grown(tree, walk.path, newRSNode)
  IN  IF walk.ok
      THEN [grown EXCEPT ![walk.path] =
              [s \in DOMAIN @ \cup {sub} |-> IF equal(s, sub) THEN qos ELSE @[s]]]
      ELSE grown

HasNobody(node) == DOMAIN node = {}

sremove(tree, t, sub) ==
  LET walk == Walk(nextTopicLevel, t)
      p == walk.path
      left == [tree EXCEPT ![p] = [s \in {r \in DOMAIN @ : ~ equal(r, sub)} |-> @[s]]]
  IN  IF walk.ok /\ p \in DOMAIN tree /\ sub \in DOMAIN tree[p]
      THEN Pruned(left, p, {q \in DOMAIN left : HasNobody(left[q])})
      ELSE tree

smatch(tree, t) ==
  LET visit[i \in 1 .. Len(t) + 1] == [p \in DOMAIN tree |->
        IF IsEmpty(From(t, i)) THEN {p}
        ELSE LET l == nextTopicLevel(From(t, i))
             IN  IF l = Error THEN {<<Error>>}
                 ELSE Child(tree, p, MWC) \cup
                      UNION {visit[i + 1][n] : n \in Child(tree, p, SWC) \cup Child(tree, p, l)}]
  IN  visit[1][<<>>]

\* A subscriber whose QoS is lower than the message's is passed over.
matchQos(tree, nodes, qos) ==
  UNION {{[path |-> p, sub |-> s, qos |-> qos] : s \in {r \in DOMAIN tree[p] : qos <= tree[p][r]}} :
           p \in nodes}
=============================================================================
