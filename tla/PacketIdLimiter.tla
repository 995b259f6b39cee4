-------------------------- MODULE PacketIdLimiter ---------------------------
(***************************************************************************)
(* The packet-identifier limiter of util/pkid: identifiers 1 .. Limit are  *)
(* handed out round robin, at most Limit at a time; a caller that finds    *)
(* none waits on a condition variable.  Every method body runs under       *)
(* cond.L; cond.Signal() is called after the unlock and is a step of its   *)
(* own.  sync.Cond wakes waiters in the order of their Wait; a woken       *)
(* goroutine re-acquires the lock and tests the loop condition again, and  *)
(* another caller may get there first.                                     *)
(***************************************************************************)
EXTENDS Integers, Sequences, FiniteSets

CONSTANTS Limit,      \* Receive Maximum of the client, a uint16
          Pollers,    \* goroutines that call PollPacketIDs (one per publisher)
          Releasers,  \* goroutines that call Release, BatchRelease and Close
          Maxes,      \* the arguments of PollPacketIDs
          BatchSizes, \* sizes of the lists given to BatchRelease (none: {})
          CanClose,   \* whether Close is called
          Restored,   \* identifiers marked by MarkUsedLocked on a reconnect
          Stale       \* identifiers that are released again when not in use

MaxUint16 == 65535

ASSUME LimitAssumption == Limit \in Nat /\ Limit <= MaxUint16

ASSUME CallsAssumption == /\ Maxes \subseteq Nat \ {0}
                          /\ Restored \subseteq 1 .. Limit
                          /\ Stale \subseteq 1 .. Limit
                          /\ Pollers \cap Releasers = {}

VARIABLES used,     \* the number of identifiers in use
          exit,     \* the limiter is closed
          freePid,  \* where the search for a free identifier starts
          bits,     \* the identifiers whose bit is set in lockedPid
          notify,   \* the waiters of the condition variable, oldest first
          pc,       \* poller: idle, waiting or woken; releaser: idle or signal
          want,     \* the argument of a poller's call in progress
          held      \* history: identifiers handed out and not released

vars == <<used, exit, freePid, bits, notify, pc, want, held>>

-----------------------------------------------------------------------------
(* Bitmap (bitmap.go) *)

\* NewBitmap(limit + 1): the sum and the rounding up to whole bytes are
\* uint16 arithmetic.
BitmapSize ==
  LET s == (Limit + 1) % (MaxUint16 + 1)
  IN IF s = 0 \/ s >= MaxUint16 THEN MaxUint16
     ELSE IF s % 8 # 0 THEN (s + (8 - (s % 8))) % (MaxUint16 + 1)
     ELSE s

\* Set returns without effect for an offset beyond the size.
BitsSet(b, ids) == b \cup {i \in ids : i <= BitmapSize}

\* Faulty variant: the bit of a released identifier stays set.
BitsLeft(b, ids) == b

BitsCleared(b, ids) == b \ {i \in ids : i <= BitmapSize}

\* Get(i) = 1; beyond the size it is 0.
Locked(i) == i <= BitmapSize /\ i \in bits

-----------------------------------------------------------------------------
Init ==
  /\ used = Cardinality(Restored)
  /\ bits = BitsSet({}, Restored)
  /\ held = Restored
  /\ exit = FALSE
  /\ freePid = 1
  /\ notify = <<>>
  /\ pc = [g \in Pollers \cup Releasers |-> "idle"]
  /\ want = [c \in Pollers |-> 0]

Smaller(a, b) == IF a < b THEN a ELSE b

\* Faulty variant: the search does not wrap.
PlainSucc(i) == i + 1

Succ(i) == IF i = Limit THEN 1 ELSE i + 1

\* The identifier d places after freePid, going round, and the distance of
\* an identifier from freePid.
IdAt(d) == IF freePid + d <= Limit THEN freePid + d ELSE freePid + d - Limit
Distance(i) == IF i >= freePid THEN i - freePid ELSE i - freePid + Limit

\* What the allocation loop has taken when it has walked to distance d.
Taken(d) == {i \in 1 .. Limit : ~ Locked(i) /\ Distance(i) <= d}

\* The distance at which the loop takes its n-th identifier.
Walk(n) ==
  CHOOSE d \in 0 .. Limit - 1 : Cardinality(Taken(d)) = n /\ ~ Locked(IdAt(d))

\* The body of PollPacketIDs under the lock: wait, give up or allocate.
Block(c, max) ==
  /\ used >= Limit /\ ~ exit
  /\ notify' = Append(notify, c)
  /\ pc' = [pc EXCEPT ![c] = "waiting"]
  /\ want' = [want EXCEPT ![c] = max]
  /\ UNCHANGED <<used, exit, freePid, bits, held>>

GiveUp(c) ==
  /\ exit
  /\ pc' = [pc EXCEPT ![c] = "idle"]
  /\ UNCHANGED <<used, exit, freePid, bits, notify, want, held>>

Allocate(c, max) ==
  /\ used < Limit /\ ~ exit
  /\ LET n == Smaller(max, Limit - used)
         d == Walk(n)
         S == Taken(d)
     IN /\ d \in 0 .. Limit - 1 /\ Cardinality(S) = n  \* the loop ends
        /\ used' = used + n
        /\ bits' = BitsSet(bits, S)
        /\ freePid' = Succ(IdAt(d))
        /\ held' = held \cup S
  /\ pc' = [pc EXCEPT ![c] = "idle"]
  /\ UNCHANGED <<exit, notify, want>>

Body(c, max) == Block(c, max) \/ GiveUp(c) \/ Allocate(c, max)

PollPacketIDs(c, max) == pc[c] = "idle" /\ Body(c, max)

\* A waiter that was signalled re-acquires the lock and tests the condition.
Resume(c) == pc[c] = "woken" /\ Body(c, want[c])

\* Faulty variant: nobody is signalled.
ReleaseSilently(r, ids) ==
  /\ pc[r] = "idle"
  /\ LET freed == {i \in ids : Locked(i)}
     IN /\ bits' = BitsCleared(bits, freed)
        /\ used' = used - Cardinality(freed)
        /\ held' = held \ ids
  /\ UNCHANGED <<exit, freePid, notify, pc, want>>

\* releaseLocked for every identifier of the list, then the unlock; the
\* signal is still to come.  Release is the list of one.
ReleaseAll(r, ids) ==
  /\ pc[r] = "idle"
  /\ LET freed == {i \in ids : Locked(i)}
     IN /\ bits' = BitsCleared(bits, freed)
        /\ used' = used - Cardinality(freed)
        /\ held' = held \ ids
  /\ pc' = [pc EXCEPT ![r] = "signal"]
  /\ UNCHANGED <<exit, freePid, notify, want>>

Release(r, id) == ReleaseAll(r, {id})
BatchRelease(r, ids) == ReleaseAll(r, ids)

Close(r) ==
  /\ CanClose /\ pc[r] = "idle"
  /\ exit' = TRUE
  /\ pc' = [pc EXCEPT ![r] = "signal"]
  /\ UNCHANGED <<used, freePid, bits, notify, want, held>>

\* Faulty variant: the waiter that is woken stays in the list.
SignalKeepsWaiter(r) ==
  /\ pc[r] = "signal"
  /\ pc' = IF notify = <<>> THEN [pc EXCEPT ![r] = "idle"]
           ELSE [pc EXCEPT ![r] = "idle", ![Head(notify)] = "woken"]
  /\ UNCHANGED <<used, exit, freePid, bits, notify, want, held>>

\* cond.Signal(): wakes the oldest waiter, if there is one.
Signal(r) ==
  /\ pc[r] = "signal"
  /\ IF notify = <<>>
       THEN notify' = notify /\ pc' = [pc EXCEPT ![r] = "idle"]
       ELSE /\ notify' = Tail(notify)
            /\ pc' = [pc EXCEPT ![r] = "idle", ![Head(notify)] = "woken"]
  /\ UNCHANGED <<used, exit, freePid, bits, want, held>>

PollerStep(c) == Resume(c) \/ \E max \in Maxes : PollPacketIDs(c, max)
ReleaserStep(r) ==
  \/ \E id \in held \cup Stale : Release(r, id)
  \/ \E ids \in SUBSET (held \cup Stale) :
       Cardinality(ids) \in BatchSizes /\ BatchRelease(r, ids)
  \/ Close(r)
  \/ Signal(r)

Next == (\E c \in Pollers : PollerStep(c)) \/ (\E r \in Releasers : ReleaserStep(r))

Spec == Init /\ [][Next]_vars

\* The scheduler eventually runs a woken goroutine and one that is between
\* its unlock and its Signal.  Nobody is obliged to poll or to release.
Fairness == /\ \A c \in Pollers : WF_vars(Resume(c))
            /\ \A r \in Releasers : WF_vars(Signal(r))

FairSpec == Spec /\ Fairness

-----------------------------------------------------------------------------
(* Properties *)

\* The fields have their types and freePid is an identifier.
TypeOK ==
  /\ used \in Nat /\ used <= MaxUint16
  /\ exit \in BOOLEAN
  /\ freePid \in Nat /\ (Limit > 0 => freePid \in 1 .. Limit)
  /\ bits \subseteq 1 .. Limit
  /\ held \subseteq 1 .. Limit
  /\ notify \in Seq(Pollers)
  /\ pc \in [Pollers \cup Releasers -> {"idle", "waiting", "woken", "signal"}]
  /\ want \in [Pollers -> Nat]

\* The bitmap records exactly the identifiers that are out ("marks them as
\* used for a client") and the counter counts them, so at most Limit are in
\* flight ("always less or equal than receive maximum").
Accounted == held = bits /\ used = Cardinality(held) /\ used <= Limit

\* The notify list holds exactly the goroutines that wait, each once.
WaitersListed ==
  /\ \A i, j \in 1 .. Len(notify) : notify[i] = notify[j] => i = j
  /\ \A c \in Pollers : pc[c] = "waiting" <=> \E i \in 1 .. Len(notify) : notify[i] = c

\* No caller sleeps while all identifiers are free, unless a wake-up is on
\* its way: Release and BatchRelease signal after every change, and a caller
\* that barged in and took the identifier brings the next signal itself.
NoneSleepIdle ==
  (used = 0 /\ ~ exit /\ Limit > 0 /\ \E c \in Pollers : pc[c] = "waiting")
    => \E g \in Pollers \cup Releasers : pc[g] \in {"woken", "signal"}

-----------------------------------------------------------------------------
(* What the code does not keep; README.md has the instances that show it. *)

\* A caller does not stay blocked while identifiers stay available or the
\* limiter stays closed: "the call will be blocked until at least one packet id
\* is available or the limiter has been closed".
PollReturns ==
  \A c \in Pollers :
    (pc[c] = "waiting" /\ (used < Limit \/ exit))
      ~> (pc[c] # "waiting" \/ (used >= Limit /\ ~ exit))
=============================================================================
