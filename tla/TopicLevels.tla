---------------------------- MODULE TopicLevels ----------------------------
(***************************************************************************)
(* Topics as sequences of levels (the strings between the slashes) and     *)
(* trees as functions on paths: the domain of a tree is the set of its     *)
(* nodes, each named by the levels that lead to it, and <<>> is the root.  *)
(* "a/" is <<"a", "">>; the rest of a topic after its last level is <<>>,  *)
(* the rest after a last slash is <<"">>, and the code stops at both.      *)
(***************************************************************************)
EXTENDS Naturals, Sequences, FiniteSets, SequencesExt

CONSTANTS Levels,    \* the strings between slashes
          Dollar,    \* those that begin with '$'
          Malformed  \* those with a '#' or '+' that is not alone; not "+$x" and
                     \* "#$x", where the '$' makes nextTopicLevel forget it

SWC == "+"     \* single-level wildcard
MWC == "#"     \* multi-level wildcard
Error == "!"   \* what nextTopicLevel answers instead of a level

ASSUME LevelsAssumption ==
  /\ Dollar \cup Malformed \subseteq Levels /\ Error \notin Levels
  /\ {"", SWC, MWC} \subseteq Levels \ (Dollar \cup Malformed)

\* Topics and filters have a level, be it empty.
IsTopic(t) == t \in Seq(Levels) /\ t # <<>>

From(t, i) == SubSeq(t, i, Len(t))

\* len(topic) == 0
IsEmpty(t) == t \in {<<>>, <<"">>}

\* The nodes that a walk along t visits, taking each step with next, and
\* whether it gets to the end.
Walk(next(_), t) ==
  LET Bad == {i \in DOMAIN t : ~ IsEmpty(From(t, i)) /\ next(From(t, i)) = Error}
      End == Min(Bad \cup {i \in 1 .. Len(t) + 1 : IsEmpty(From(t, i))})
  IN  [path |-> [i \in 1 .. End - 1 |-> next(From(t, i))], ok |-> Bad = {}]

Child(tree, p, l) == {Append(p, l)} \cap DOMAIN tree
Below(tree, p) == {q \in DOMAIN tree : IsPrefix(p, q)}

\* The tree with a root only.
Root(new) == [q \in {<<>>} |-> new]

\* The tree after every missing node of path p has been made.
Grown(tree, p, new) ==
  [q \in DOMAIN tree \cup Prefixes(p) |->
     IF q \in DOMAIN tree THEN tree[q] ELSE new]

\* The tree after the nodes of path p have been visited from the last to the
\* first and each one that is idle and has no child left has been deleted.
Pruned(tree, p, idle) ==
  LET Gone == {q \in Prefixes(p) \ {<<>>} : Below(tree, q) \subseteq Prefixes(p) \cap idle}
  IN  [q \in DOMAIN tree \ Gone |-> tree[q]]

IsTree(tree) == <<>> \in DOMAIN tree /\ \A p \in DOMAIN tree : Prefixes(p) \subseteq DOMAIN tree
=============================================================================
