----------------------------- MODULE ShareTree -----------------------------
(***************************************************************************)
(* The tree of shared subscriptions (mem_share_topic.go): a node maps the  *)
(* names of its groups to their members and the QoS they were granted.     *)
(* Its retained messages have no caller and are left out.                  *)
(***************************************************************************)
EXTENDS TopicLevels

nextTopicLevel(t) ==
  IF (Head(t) = MWC /\ Len(t) > 1) \/ Head(t) \in Malformed \cup Dollar THEN Error
  ELSE IF Head(t) = "" THEN SWC ELSE Head(t)

PathOf(t) == Walk(nextTopicLevel, t).path
Accepted(t) == Walk(nextTopicLevel, t).ok

newSNode == <<>>    \* the function with no group

\* Subscribers are compared by the address of their function.
equal(k1, k2) == k1 = k2

Members(node, share) == IF share \in DOMAIN node THEN node[share] ELSE <<>>
SetMembers(node, share, members) ==
  [g \in DOMAIN node \cup {share} |-> IF g = share THEN members ELSE node[g]]

sinsert(tree, share, t, sub, qos) ==
  LET grown == Grown(tree, PathOf(t), newSNode)
      Joined(members) == [s \in DOMAIN members \cup {sub} |->
                            IF equal(s, sub) THEN qos ELSE members[s]]
  IN  IF Accepted(t)
      THEN [grown EXCEPT ![PathOf(t)] = SetMembers(@, share, Joined(Members(@, share)))]
      ELSE grown

HasNobody(node) == \A g \in DOMAIN node : DOMAIN node[g] = {}

\* A group without members stays until its node is deleted.
sremove(tree, share, t, sub) ==
  LET p == PathOf(t)
      Left(members) == [s \in {r \in DOMAIN members : ~ equal(r, sub)} |-> members[s]]
      left == [tree EXCEPT ![p] = SetMembers(@, share, Left(Members(@, share)))]
  IN  IF Accepted(t) /\ p \in DOMAIN tree /\ sub \in DOMAIN Members(tree[p], share)
      THEN Pruned(left, p, {q \in DOMAIN left : HasNobody(left[q])})
      ELSE tree

smatch(tree, t) ==
  LET visit[i \in 1 .. Len(t) + 1] == [p \in DOMAIN tree |->
        IF IsEmpty(From(t, i)) THEN {p} \cup Child(tree, p, MWC) \cup Child(tree, p, SWC)
        ELSE LET l == nextTopicLevel(From(t, i))
             IN  IF l = Error THEN {<<Error>>}
                 ELSE Child(tree, p, MWC) \cup
                      UNION {IF i < Len(t) THEN visit[i + 1][n]
                             ELSE {n} \cup Child(tree, n, MWC) :
                               n \in Child(tree, p, SWC) \cup Child(tree, p, l)}]
  IN  visit[1][<<>>]

\* Every group of every node that matches, or the groups called share, with
\* the members of which one, at random, is sent the message.
matchQos(tree, nodes, qos, share) ==
  {slot \in UNION {{[path |-> p, share |-> g,
                     from |-> {[sub |-> s, qos |-> Min({qos, tree[p][g][s]})] :
                                 s \in DOMAIN tree[p][g]}] :
                      g \in DOMAIN tree[p]} : p \in nodes} :
     slot.from # {} /\ share \in {"", slot.share}}

\* Faulty variant: only the first level of the tree is visited.
matchAllShallow(tree) ==
  UNION {{[path |-> p, share |-> g] : g \in DOMAIN tree[p]} : p \in {q \in DOMAIN tree : Len(q) = 1}}

\* Groups by topic, as the tree spells it; the root is not visited.
matchAll(tree) ==
  UNION {{[path |-> p, share |-> g] : g \in DOMAIN tree[p]} : p \in DOMAIN tree \ {<<>>}}
=============================================================================
