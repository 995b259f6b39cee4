----------------------------- MODULE TopicTree -----------------------------
(***************************************************************************)
(* The trees of topic.go: subscriptions (a node maps its subscribers to    *)
(* the QoS they were granted) and retained messages (a node holds at most  *)
(* one message).  The order of the subscribers of a node is left out.      *)
(***************************************************************************)
EXTENDS TopicLevels

CONSTANT NoMsg

\* The first level of a topic that is not empty.  An empty level becomes the
\* wildcard '+' (the caller goes on with the rest).
nextTopicLevel(t) ==
  IF (Head(t) = MWC /\ Len(t) > 1) \/ Head(t) \in Malformed \cup Dollar THEN Error
  ELSE IF Head(t) = "" THEN SWC ELSE Head(t)

PathOf(t) == Walk(nextTopicLevel, t).path
Accepted(t) == Walk(nextTopicLevel, t).ok

newSNode == <<>>    \* the function with no subscriber

\* Subscribers are compared by the address of their function.
equal(k1, k2) == k1 = k2

\* Nodes on the way are made before a bad level is met, and stay.
sinsert(tree, t, sub, qos) ==
  LET grown == Grown(tree, PathOf(t), newSNode)
  IN  IF Accepted(t)
      THEN [grown EXCEPT ![PathOf(t)] =
              [s \in DOMAIN @ \cup {sub} |-> IF equal(s, sub) THEN qos ELSE @[s]]]
      ELSE grown

Unsubscribed(node, sub) == [s \in {r \in DOMAIN node : ~ equal(r, sub)} |-> node[s]]
HasNobody(node) == DOMAIN node = {}

\* Faulty variant: a node without subscribers is deleted, children or not.
sremoveSubtree(tree, t, sub) ==
  LET p == PathOf(t)
      left == [tree EXCEPT ![p] = Unsubscribed(@, sub)]
      Gone == UNION {Below(left, q) : q \in {r \in Prefixes(p) \ {<<>>} : HasNobody(left[r])}}
  IN  IF Accepted(t) /\ p \in DOMAIN tree /\ sub \in DOMAIN tree[p]
      THEN [q \in DOMAIN left \ Gone |-> left[q]] ELSE tree

\* Faulty variant: only the last node is deleted, its idle parents stay.
sremoveLeaf(tree, t, sub) ==
  LET p == PathOf(t)
  IN  IF Accepted(t) /\ p \in DOMAIN tree /\ sub \in DOMAIN tree[p]
      THEN LET left == [tree EXCEPT ![p] = Unsubscribed(@, sub)]
           IN  IF Below(left, p) = {p} /\ HasNobody(left[p]) /\ p # <<>>
               THEN [q \in DOMAIN left \ {p} |-> left[q]] ELSE left
      ELSE tree

\* Without the topic or the subscriber it is an error and nothing changes.
sremove(tree, t, sub) ==
  LET p == PathOf(t)
      left == [tree EXCEPT ![p] = Unsubscribed(@, sub)]
  IN  IF Accepted(t) /\ p \in DOMAIN tree /\ sub \in DOMAIN tree[p]
      THEN Pruned(left, p, {q \in DOMAIN left : HasNobody(left[q])})
      ELSE tree

\* Faulty variant: '#' does not include its parent level.
smatchChildrenOnly(tree, t) ==
  LET visit[i \in 1 .. Len(t) + 1] == [p \in DOMAIN tree |->
        IF IsEmpty(From(t, i)) THEN {p} \cup Child(tree, p, MWC) \cup Child(tree, p, SWC)
        ELSE LET l == nextTopicLevel(From(t, i))
             IN  IF l = Error THEN {<<Error>>}
                 ELSE Child(tree, p, MWC) \cup
                      UNION {IF i < Len(t) THEN visit[i + 1][n] ELSE {n} :
                               n \in Child(tree, p, SWC) \cup Child(tree, p, l)}]
  IN  visit[1][<<>>]

\* The nodes whose subscribers a publish to t reaches; <<Error>> among them
\* when some branch of the search meets a level it refuses.
smatch(tree, t) ==
  LET visit[i \in 1 .. Len(t) + 1] == [p \in DOMAIN tree |->
        IF IsEmpty(From(t, i)) THEN {p} \cup Child(tree, p, MWC) \cup Child(tree, p, SWC)
        ELSE LET l == nextTopicLevel(From(t, i))
             IN  IF l = Error THEN {<<Error>>}
                 ELSE Child(tree, p, MWC) \cup
                      UNION {IF i < Len(t) THEN visit[i + 1][n]
                             ELSE {n} \cup Child(tree, n, MWC) :
                               n \in Child(tree, p, SWC) \cup Child(tree, p, l)}]
  IN  visit[1][<<>>]

\* A message goes out with the lower of its own and the granted QoS.
matchQos(tree, nodes, qos) ==
  UNION {{[path |-> p, sub |-> s, qos |-> Min({qos, tree[p][s]})] : s \in DOMAIN tree[p]} :
           p \in nodes}

newRNode == NoMsg

rinsert(tree, t, msg) ==
  LET grown == Grown(tree, PathOf(t), newRNode)
  IN  IF Accepted(t) THEN [grown EXCEPT ![PathOf(t)] = msg] ELSE grown

\* A node on the way without children is deleted, its own message or not.
rremove(tree, t) ==
  LET p == PathOf(t)
  IN  IF Accepted(t) /\ p \in DOMAIN tree
      THEN Pruned([tree EXCEPT ![p] = NoMsg], p, DOMAIN tree) ELSE tree

allRetained(tree, p) == {tree[q] : q \in Below(tree, p)} \ {NoMsg}

\* Faulty variant: '+' also takes the node it stands on.
rmatchHere(tree, t) ==
  LET visit[i \in 1 .. Len(t) + 1] == [p \in DOMAIN tree |->
        IF IsEmpty(From(t, i)) THEN {tree[p]} \ {NoMsg}
        ELSE LET l == nextTopicLevel(From(t, i))
             IN  CASE l = Error -> {NoMsg}
                   [] l = MWC -> allRetained(tree, p)
                   [] l = SWC -> UNION {visit[i + 1][q] : q \in {r \in Below(tree, p) : Len(r) <= Len(p) + 1}}
                   [] OTHER   -> UNION {visit[i + 1][q] : q \in Child(tree, p, l)}]
  IN  visit[1][<<>>]

\* The retained messages that a subscription to filter t is sent; NoMsg among
\* them when the search meets a level it refuses.
rmatch(tree, t) ==
  LET visit[i \in 1 .. Len(t) + 1] == [p \in DOMAIN tree |->
        IF IsEmpty(From(t, i)) THEN {tree[p]} \ {NoMsg}
        ELSE LET l == nextTopicLevel(From(t, i))
             IN  CASE l = Error -> {NoMsg}
                   [] l = MWC -> allRetained(tree, p)
                   [] l = SWC -> UNION {visit[i + 1][q] : q \in {r \in Below(tree, p) : Len(r) = Len(p) + 1}}
                   [] OTHER   -> UNION {visit[i + 1][q] : q \in Child(tree, p, l)}]
  IN  visit[1][<<>>]
=============================================================================
