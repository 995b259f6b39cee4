------------------------------ MODULE SafeMap -------------------------------
(***************************************************************************)
(* The map of util/collection/safe_map.go: two Go maps and two deletion    *)
(* counters behind a readers-writer lock.  New entries go to dirtyOld      *)
(* until it has seen too many deletions, then to dirtyNew; when what is    *)
(* left is small, it is copied and the roles change.  The server keeps its *)
(* services in one (svcs) and the session and message stores are made of   *)
(* them.                                                                   *)
(*                                                                         *)
(* A call is two steps: it starts, and it runs when the lock allows it.    *)
(* GetOrSet locks twice.  Range calls back under the read lock; Shutdown   *)
(* is the Range of Server.Shutdown, whose callback stops the service and   *)
(* so calls Del.                                                           *)
(***************************************************************************)
EXTENDS Integers, FiniteSets

CONSTANTS Goroutines, Keys, Vals, None,
          MaxDeletion, CopyThreshold,  \* 10000 and 1000 in the code
          Ops            \* the methods that are called

ASSUME SafeMapAssumption ==
  /\ MaxDeletion \in Nat /\ CopyThreshold \in Nat
  /\ Ops \subseteq {"Get", "Set", "Del", "GetOrSet", "Range", "Shutdown"}
  /\ None \notin Vals /\ None \notin Goroutines

VARIABLES dirtyOld, dirtyNew, deletionOld, deletionNew,
          writer,   \* the goroutine that holds lock.Lock
          readers,  \* the goroutines that hold lock.RLock across steps
          stage,    \* each goroutine: idle, or the part of the call it is in
          call,     \* the arguments of each goroutine's call
          todo,     \* the keys a goroutine's Range has not visited
          ret       \* the result of each goroutine's last call

data == <<dirtyOld, dirtyNew, deletionOld, deletionNew>>
mapVars == <<data, writer, readers, stage, call, todo, ret>>

NoCall == [op |-> "Get", key |-> None, val |-> None]

Empty == [k \in {} |-> None]
Without(f, k) == [x \in DOMAIN f \ {k} |-> f[x]]
With(f, k, v) == [x \in DOMAIN f \cup {k} |-> IF x = k THEN v ELSE f[x]]

\* The entries of f override those of g.
Over(f, g) == [x \in DOMAIN f \cup DOMAIN g |-> IF x \in DOMAIN f THEN f[x] ELSE g[x]]

MapInit ==
  /\ dirtyOld = Empty /\ dirtyNew = Empty /\ deletionOld = 0 /\ deletionNew = 0
  /\ writer = None /\ readers = {}
  /\ stage = [g \in Goroutines |-> "idle"]
  /\ call = [g \in Goroutines |-> NoCall]
  /\ todo = [g \in Goroutines |-> {}]
  /\ ret = [g \in Goroutines |-> None]

-----------------------------------------------------------------------------
(* Bodies, under the lock *)

Lookup(k) == IF k \in DOMAIN dirtyOld THEN dirtyOld[k]
             ELSE IF k \in DOMAIN dirtyNew THEN dirtyNew[k] ELSE None

\* Faulty variant: the entry of the other map stays.
StoreTwice(k, v) ==
  /\ IF deletionOld <= MaxDeletion
       THEN dirtyOld' = With(dirtyOld, k, v) /\ UNCHANGED dirtyNew
       ELSE dirtyNew' = With(dirtyNew, k, v) /\ UNCHANGED dirtyOld
  /\ UNCHANGED <<deletionOld, deletionNew>>

\* Set, and the second half of GetOrSet.
Store(k, v) ==
  IF deletionOld <= MaxDeletion
    THEN /\ dirtyOld' = With(dirtyOld, k, v)
         /\ dirtyNew' = Without(dirtyNew, k)
         /\ deletionNew' = IF k \in DOMAIN dirtyNew THEN deletionNew + 1 ELSE deletionNew
         /\ UNCHANGED deletionOld
    ELSE /\ dirtyNew' = With(dirtyNew, k, v)
         /\ dirtyOld' = Without(dirtyOld, k)
         /\ deletionOld' = IF k \in DOMAIN dirtyOld THEN deletionOld + 1 ELSE deletionOld
         /\ UNCHANGED deletionNew

\* del: the deletion itself, in whichever map has the key, ...
AfterDelete(k) ==
  LET inOld == k \in DOMAIN dirtyOld
      inNew == ~ inOld /\ k \in DOMAIN dirtyNew
  IN [old |-> Without(dirtyOld, k),
      new |-> IF inOld THEN dirtyNew ELSE Without(dirtyNew, k),
      dOld |-> IF inOld THEN deletionOld + 1 ELSE deletionOld,
      dNew |-> IF inNew THEN deletionNew + 1 ELSE deletionNew]

\* Faulty variant: what is left in dirtyOld is not copied.
FirstUncopied(s) ==
  IF s.dOld >= MaxDeletion /\ Cardinality(DOMAIN s.old) < CopyThreshold
    THEN [old |-> s.new, new |-> Empty, dOld |-> s.dNew, dNew |-> 0]
    ELSE s

\* ... the merge of a worn dirtyOld into dirtyNew, which takes its place, ...
AfterFirst(s) ==
  IF s.dOld >= MaxDeletion /\ Cardinality(DOMAIN s.old) < CopyThreshold
    THEN [old |-> Over(s.old, s.new), new |-> Empty, dOld |-> s.dNew, dNew |-> 0]
    ELSE s

\* ... and the merge of a worn dirtyNew into dirtyOld.
AfterSecond(s) ==
  IF s.dNew >= MaxDeletion /\ Cardinality(DOMAIN s.new) < CopyThreshold
    THEN [s EXCEPT !.old = Over(s.new, s.old), !.new = Empty, !.dNew = 0]
    ELSE s

Delete(k) ==
  LET s == AfterSecond(AfterFirst(AfterDelete(k)))
  IN /\ dirtyOld' = s.old /\ dirtyNew' = s.new
     /\ deletionOld' = s.dOld /\ deletionNew' = s.dNew

-----------------------------------------------------------------------------
(* Calls *)

CanWrite == writer = None /\ readers = {}
CanRead == writer = None

Goto(g, p) == stage' = [stage EXCEPT ![g] = p]

Return(g, v) ==
  /\ Goto(g, "idle")
  /\ call' = [call EXCEPT ![g] = NoCall]
  /\ ret' = [ret EXCEPT ![g] = v]

\* The arguments a method takes.
Walks == {"Range", "Shutdown"}
KeysOf(o) == IF o \in Walks THEN {None} ELSE Keys
ValsOf(o) == IF o \in {"Set", "GetOrSet"} THEN Vals ELSE {None}

Start(g) ==
  /\ stage[g] = "idle" /\ Goto(g, "called")
  /\ \E o \in Ops : \E k \in KeysOf(o), v \in ValsOf(o) :
       call' = [call EXCEPT ![g] = [op |-> o, key |-> k, val |-> v]]
  /\ UNCHANGED <<data, writer, readers, todo, ret>>

Get(g) ==
  /\ stage[g] = "called" /\ call[g].op = "Get" /\ CanRead
  /\ Return(g, Lookup(call[g].key))
  /\ UNCHANGED <<data, writer, readers, todo>>

Set(g) ==
  /\ stage[g] = "called" /\ call[g].op = "Set" /\ CanWrite
  /\ Store(call[g].key, call[g].val)
  /\ Return(g, None)
  /\ UNCHANGED <<writer, readers, todo>>

\* Del and GetDel differ in what they return.
Del(g) ==
  /\ stage[g] = "called" /\ call[g].op = "Del" /\ CanWrite
  /\ Delete(call[g].key)
  /\ Return(g, Lookup(call[g].key))
  /\ UNCHANGED <<writer, readers, todo>>

\* GetOrSet: a Get; when it misses, the write lock and a second look, which
\* returns without the unlock when the key has appeared meanwhile.
GetOrSetLooks(g) ==
  /\ stage[g] = "called" /\ call[g].op = "GetOrSet" /\ CanRead
  /\ IF Lookup(call[g].key) # None
       THEN Return(g, Lookup(call[g].key))
       ELSE Goto(g, "locks") /\ UNCHANGED <<call, ret>>
  /\ UNCHANGED <<data, writer, readers, todo>>

GetOrSetFinds(g) ==
  /\ stage[g] = "locks" /\ CanWrite
  /\ Lookup(call[g].key) # None
  /\ writer' = g
  /\ Return(g, Lookup(call[g].key))
  /\ UNCHANGED <<data, readers, todo>>

GetOrSetStores(g) ==
  /\ stage[g] = "locks" /\ CanWrite
  /\ Lookup(call[g].key) = None
  /\ Store(call[g].key, call[g].val)
  /\ Return(g, call[g].val)
  /\ UNCHANGED <<writer, readers, todo>>

RangeStarts(g) ==
  /\ stage[g] = "called" /\ call[g].op \in Walks /\ CanRead
  /\ readers' = readers \cup {g}
  /\ todo' = [todo EXCEPT ![g] = DOMAIN dirtyOld \cup DOMAIN dirtyNew]
  /\ Goto(g, "ranges")
  /\ UNCHANGED <<data, writer, call, ret>>

\* One callback; dirtyOld comes first.  The callback of Shutdown stops the
\* service, whose deferred function deletes it from the same map: its Lock
\* waits for the readers, of which this Range is one.
RangeVisits(g, k) ==
  /\ stage[g] = "ranges" /\ k \in todo[g]
  /\ k \in DOMAIN dirtyOld \/ todo[g] \cap DOMAIN dirtyOld = {}
  /\ IF call[g].op = "Shutdown" THEN CanWrite /\ Delete(k) ELSE UNCHANGED data
  /\ todo' = [todo EXCEPT ![g] = @ \ {k}]
  /\ UNCHANGED <<writer, readers, stage, call, ret>>

\* Faulty variant: the read lock is kept.
RangeKeepsLock(g) ==
  /\ stage[g] = "ranges" /\ todo[g] = {}
  /\ Return(g, None)
  /\ UNCHANGED <<data, writer, readers, todo>>

RangeEnds(g) ==
  /\ stage[g] = "ranges" /\ todo[g] = {}
  /\ readers' = readers \ {g} /\ Return(g, None)
  /\ UNCHANGED <<data, writer, todo>>

Runs(g) ==
  \/ Get(g) \/ Set(g) \/ Del(g)
  \/ GetOrSetLooks(g) \/ GetOrSetFinds(g) \/ GetOrSetStores(g)
  \/ RangeStarts(g) \/ (\E k \in Keys : RangeVisits(g, k)) \/ RangeEnds(g)

MapNext == \E g \in Goroutines : Start(g) \/ Runs(g)

MapSpec == MapInit /\ [][MapNext]_mapVars

\* sync.RWMutex starves neither readers nor writers: a waiting Lock keeps new
\* readers out.
MapFairness == \A g \in Goroutines : SF_mapVars(Runs(g))

FairMapSpec == MapSpec /\ MapFairness

-----------------------------------------------------------------------------
(* Properties *)

\* The variables have their types.
MapTypeOK ==
  /\ DOMAIN dirtyOld \subseteq Keys /\ dirtyOld \in [DOMAIN dirtyOld -> Vals]
  /\ DOMAIN dirtyNew \subseteq Keys /\ dirtyNew \in [DOMAIN dirtyNew -> Vals]
  /\ deletionOld \in Nat /\ deletionNew \in Nat
  /\ writer \in Goroutines \cup {None} /\ readers \subseteq Goroutines
  /\ stage \in [Goroutines -> {"idle", "called", "locks", "ranges"}]
  /\ call \in [Goroutines -> [op : Ops \cup {"Get"}, key : Keys \cup {None},
                              val : Vals \cup {None}]]
  /\ todo \in [Goroutines -> SUBSET Keys]
  /\ ret \in [Goroutines -> Vals \cup {None}]

\* A key is in one of the two maps only, so no stale value comes back when
\* the maps are merged.
OneHome == DOMAIN dirtyOld \cap DOMAIN dirtyNew = {}

\* Range visits a snapshot: while a goroutine is inside Range, what it has
\* not visited is still in the map.
RangeStable ==
  \A g \in Goroutines :
    stage[g] = "ranges" => todo[g] \subseteq DOMAIN dirtyOld \cup DOMAIN dirtyNew

\* The two maps are well formed and disjoint, and stand still under a Range.
MapsSound == MapTypeOK /\ OneHome /\ RangeStable

Abstract == INSTANCE AbstractMap WITH map <- Over(dirtyOld, dirtyNew)

\* The two maps, their counters and their merges implement one map: no entry
\* is lost, revived or changed by a merge.
ImplementsMap == Abstract!Spec

\* A Shutdown that has come to a service.
ShutdownAtService ==
  \E g \in Goroutines : stage[g] = "ranges" /\ call[g].op = "Shutdown" /\ todo[g] # {}

\* Two things only leave a call waiting for ever: a GetOrSet that lost the
\* race for its key and kept the write lock, and a Shutdown that found a
\* service in the map.  Otherwise every call returns, Shutdown too.
CallsReturn ==
  [](writer = None /\ ~ ShutdownAtService)
    => \A g \in Goroutines : stage[g] # "idle" ~> stage[g] = "idle"

\* Not kept by the code: Shutdown gets past its Range, "terminates the server
\* by shutting down all the client connections and closing the listener".
ShutdownReturns ==
  \A g \in Goroutines :
    (stage[g] # "idle" /\ call[g].op = "Shutdown") ~> stage[g] = "idle"
=============================================================================
