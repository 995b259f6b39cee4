---------------------------- MODULE AbstractMap -----------------------------
(***************************************************************************)
(* What SafeMap promises: one map, operations that take effect atomically, *)
(* and the result of each goroutine's last call.                           *)
(***************************************************************************)
CONSTANTS Goroutines, Keys, Vals, None

VARIABLES map, ret

Without(f, k) == [x \in DOMAIN f \ {k} |-> f[x]]
With(f, k, v) == [x \in DOMAIN f \cup {k} |-> IF x = k THEN v ELSE f[x]]
ValueAt(f, k) == IF k \in DOMAIN f THEN f[k] ELSE None

Init == map = [k \in {} |-> None] /\ ret = [g \in Goroutines |-> None]

Returns(g, v) == ret' = [ret EXCEPT ![g] = v]

Put(g, k, v) == map' = With(map, k, v) /\ Returns(g, None)
Remove(g, k) == map' = Without(map, k) /\ Returns(g, ValueAt(map, k))
Lookup(g, k) == map' = map /\ Returns(g, ValueAt(map, k))
PutIfAbsent(g, k, v) ==
  /\ k \notin DOMAIN map
  /\ map' = With(map, k, v) /\ Returns(g, v)
\* Range returns nothing and changes nothing.
Walk(g) == map' = map /\ Returns(g, None)

Next ==
  \E g \in Goroutines :
    \/ Walk(g)
    \/ \E k \in Keys :
         \/ Remove(g, k) \/ Lookup(g, k)
         \/ \E v \in Vals : Put(g, k, v) \/ PutIfAbsent(g, k, v)

Spec == Init /\ [][Next]_<<map, ret>>
=============================================================================
