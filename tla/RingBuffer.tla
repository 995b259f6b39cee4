----------------------------- MODULE RingBuffer -----------------------------
(***************************************************************************)
(* The byte ring of broker/core/service/v1/buffer.go as GCore uses it      *)
(* (operator.go): one producer, one consumer and the goroutines that close *)
(* it.                                                                     *)
(*                                                                         *)
(*   direction = "in":  the receiver runs ReadFrom(conn), the processor    *)
(*     calls ReadWait for the fixed header, ReadWait for the whole packet  *)
(*     and ReadCommit (peekMessageSize, peekMessage), and then handles the *)
(*     message, whose dbuf is still a slice of the ring (header.decode);   *)
(*   direction = "out": the publishers call writeMessage one at a time     *)
(*     (wmu), the sender runs WriteTo(conn).                               *)
(*                                                                         *)
(* The cursors and the done flag are atomics: each load and store is a     *)
(* step.  "Lock; Broadcast; Unlock" is one step that needs the mutex free. *)
(* A byte of the stream is its position in it, so a byte read at the wrong *)
(* place, too early or overwritten shows.                                  *)
(***************************************************************************)
EXTENDS Integers

CONSTANTS Size,       \* len(buf.buf)
          Block,      \* defaultReadBlockSize = defaultWriteBlockSize
          Header,     \* the bytes of the fixed header peekMessageSize waits for
          Lens,       \* the lengths of the packets
          Closers,    \* other goroutines that call Close (GCore.Close)
          Directions, \* which of a connection's two rings: "in", "out"
          MaxSeq      \* bound: positions of the stream that are modelled

ASSUME RingAssumption ==
  /\ Size \in Nat \ {0} /\ Block \in 1 .. Size /\ Header \in 1 .. Size
  /\ Lens \subseteq Nat \ {0} /\ MaxSeq \in Nat
  /\ Directions \subseteq {"in", "out"}
  /\ "producer" \notin Closers /\ "consumer" \notin Closers

VARIABLES pseq,     \* position of the producer
          gate,     \* pseq.gate: the consumer position the producer last saw
          cseq,     \* position of the consumer
          bytes,    \* buf.buf
          done,     \* the buffer is closed
          pmu,      \* owner of pcond.L
          cmu,      \* owner of ccond.L
          pp, want, op,      \* producer: control point, its n, what n is for
          cp, got, need,     \* consumer: control point, the ppos it loaded, its n
          stage,    \* what a ReadWait of the processor is for: header or packet
          closing,  \* where each goroutine is in Close
          direction \* which ring this is; it never changes

prod == <<pseq, gate, pp, want, op>>
cons == <<cseq, cp, got, need, stage>>
ring == <<prod, cons, bytes, done, pmu, cmu, closing>>
vars == <<ring, direction>>

Procs == {"producer", "consumer"} \cup Closers
Free == "free"

index(s) == s % Size

Init ==
  /\ pseq = 0 /\ gate = 0 /\ cseq = 0
  /\ bytes = [i \in 0 .. Size - 1 |-> -1]
  /\ done = FALSE /\ pmu = Free /\ cmu = Free
  /\ pp = "idle" /\ want = 0 /\ op = "reserve"
  /\ cp = "idle" /\ got = 0 /\ need = 0 /\ stage = "header"
  /\ closing = [x \in Procs |-> "no"]
  /\ direction \in Directions

-----------------------------------------------------------------------------
(* Producer *)

\* An error return.  ReadFrom closes the buffer (deferred); writeMessage
\* reports the error to its caller, which may write again.
ProducerFails ==
  IF direction = "in"
    THEN pp' = "stopped" /\ closing' = [closing EXCEPT !["producer"] = "store"]
    ELSE pp' = "idle" /\ UNCHANGED closing

\* waitForWriteSpace(n), the part before the lock: the closed test and the
\* test of the cached gate.
Request(n, o) ==
  /\ IF done
       THEN ProducerFails /\ UNCHANGED <<want, op>>
       ELSE /\ want' = n /\ op' = o
            /\ pp' = IF pseq + n - Size > gate \/ gate > pseq THEN "lock" ELSE "granted"
            /\ UNCHANGED closing
  /\ UNCHANGED <<pseq, gate, cons, bytes, done, pmu, cmu>>

\* ReadFrom asks for a block, writeMessage for the length of its message.
StartWrite ==
  /\ pp = "idle"
  /\ \E n \in IF direction = "in" THEN {Block} ELSE Lens :
       pseq + n <= MaxSeq /\ Request(n, "reserve")

WaitLock ==
  /\ pp \in {"lock", "woken"} /\ pmu = Free
  /\ pmu' = "producer" /\ pp' = "test"
  /\ UNCHANGED <<pseq, gate, want, op, cons, bytes, done, cmu, closing>>

\* Faulty variant: the space is one byte short.
WaitTestOffByOne ==
  /\ pp = "test"
  /\ IF pseq + want - Size - 1 > cseq
       THEN pp' = "isDone" /\ UNCHANGED <<gate, pmu>>
       ELSE pp' = "granted" /\ gate' = cseq /\ pmu' = Free
  /\ UNCHANGED <<pseq, want, op, cons, bytes, done, cmu, closing>>

WaitTest ==
  /\ pp = "test"
  /\ IF pseq + want - Size > cseq
       THEN pp' = "isDone" /\ UNCHANGED <<gate, pmu>>
       ELSE pp' = "granted" /\ gate' = cseq /\ pmu' = Free
  /\ UNCHANGED <<pseq, want, op, cons, bytes, done, cmu, closing>>

\* The closed test inside the loop returns with pcond.L held.
WaitDone ==
  /\ pp = "isDone"
  /\ IF done THEN ProducerFails ELSE pp' = "wait" /\ UNCHANGED closing
  /\ UNCHANGED <<pseq, gate, want, op, cons, bytes, done, pmu, cmu>>

WaitSleep ==
  /\ pp = "wait"
  /\ pp' = "asleep" /\ pmu' = Free
  /\ UNCHANGED <<pseq, gate, want, op, cons, bytes, done, cmu, closing>>

\* The next k bytes of the stream are stored from pseq on.
Store(k) ==
  bytes' = [i \in 0 .. Size - 1 |->
              IF \E s \in pseq .. pseq + k - 1 : index(s) = i
                THEN CHOOSE s \in pseq .. pseq + k - 1 : index(s) = i
                ELSE bytes[i]]

\* WriteWait's second result: the space goes round the end of the ring.
Wraps == index(pseq) + want > Size

\* r.Read of ReadFrom: some bytes, at most to the end of the ring, ...
ConnRead ==
  /\ direction = "in" /\ pp = "granted" /\ op = "reserve"
  /\ \E k \in 1 .. want :
       /\ index(pseq) + k <= Size
       /\ Store(k) /\ want' = k
  /\ pp' = "stored"
  /\ UNCHANGED <<pseq, gate, op, cons, done, pmu, cmu, closing>>

\* ... or an error: end of file, a broken connection or the read deadline;
\* for writeMessage, a message that Encode rejects.
NothingStored ==
  /\ pp = "granted" /\ op = "reserve"
  /\ ProducerFails
  /\ UNCHANGED <<pseq, gate, want, op, cons, bytes, done, pmu, cmu>>

\* writeMessage encodes in place when the space does not wrap; otherwise it
\* encodes into outTmp and calls Write, which asks again and copies.
Encode ==
  /\ direction = "out" /\ pp = "granted" /\ op = "reserve" /\ ~ Wraps
  /\ Store(want) /\ pp' = "stored"
  /\ UNCHANGED <<pseq, gate, want, op, cons, done, pmu, cmu, closing>>

CallWrite ==
  /\ direction = "out" /\ pp = "granted" /\ op = "reserve" /\ Wraps
  /\ Request(want, "write")

RingCopy ==
  /\ pp = "granted" /\ op = "write"
  /\ Store(want) /\ pp' = "set"
  /\ UNCHANGED <<pseq, gate, want, op, cons, done, pmu, cmu, closing>>

\* WriteCommit asks for the space again before it moves the cursor.
CallWriteCommit == pp = "stored" /\ Request(want, "commit")

Committed ==
  /\ pp = "granted" /\ op = "commit"
  /\ pp' = "set"
  /\ UNCHANGED <<pseq, gate, want, op, cons, bytes, done, pmu, cmu, closing>>

SetPseq ==
  /\ pp = "set"
  /\ pseq' = pseq + want /\ pp' = "notify"
  /\ UNCHANGED <<gate, want, op, cons, bytes, done, pmu, cmu, closing>>

WakeConsumer == cp' = IF cp = "asleep" THEN "woken" ELSE cp
WakeProducer == pp' = IF pp = "asleep" THEN "woken" ELSE pp

NotifyConsumer ==
  /\ pp = "notify" /\ cmu = Free
  /\ WakeConsumer /\ pp' = "idle"
  /\ UNCHANGED <<pseq, gate, want, op, cseq, got, need, stage, bytes, done, pmu, cmu, closing>>

-----------------------------------------------------------------------------
(* Consumer *)

ConsumerStops(how) ==
  cp' = how /\ closing' = [closing EXCEPT !["consumer"] = "store"]

\* ReadWait(n) waits for n bytes, ReadPeek for one.  ppos is loaded before
\* the lock is taken.
LoadPseq(n, st) ==
  /\ IF n > Size                          \* bufio.ErrBufferFull
       THEN ConsumerStops("stopped") /\ UNCHANGED <<got, need, stage>>
       ELSE /\ cp' = "lock" /\ got' = pseq /\ need' = n /\ stage' = st
            /\ UNCHANGED closing
  /\ UNCHANGED <<cseq, prod, bytes, done, pmu, cmu>>

\* peekMessageSize asks for the fixed header; WriteTo tests done and peeks.
StartRead ==
  /\ cp = "idle" /\ (direction = "in" \/ ~ done)
  /\ LoadPseq(IF direction = "in" THEN Header ELSE 1, "header")

\* The consumer returns without touching a lock: WriteTo's own closed test
\* and a failed write; the processor's closed and quota tests, a malformed
\* or too long header, a packet that does not decode and the error of one
\* that was handled.
ConsumerQuits ==
  /\ cp \in {"idle", "have", "process"}
  /\ (direction = "out" /\ cp = "idle") => done
  /\ ConsumerStops("stopped")
  /\ UNCHANGED <<cseq, got, need, stage, prod, bytes, done, pmu, cmu>>

ReadLock ==
  /\ cp = "lock" /\ cmu = Free
  /\ cmu' = "consumer" /\ cp' = "test"
  /\ UNCHANGED <<cseq, got, need, stage, prod, bytes, done, pmu, closing>>

ReadTest ==
  /\ cp = "test"
  /\ IF cseq + need > got
       THEN cp' = "isDone" /\ UNCHANGED cmu
       ELSE cp' = "have" /\ cmu' = Free
  /\ UNCHANGED <<cseq, got, need, stage, prod, bytes, done, pmu, closing>>

\* The closed test inside the loop returns with ccond.L held.
ReadDone ==
  /\ cp = "isDone"
  /\ IF done THEN ConsumerStops("eof") ELSE cp' = "wait" /\ UNCHANGED closing
  /\ UNCHANGED <<cseq, got, need, stage, prod, bytes, done, pmu, cmu>>

ReadSleep ==
  /\ cp = "wait"
  /\ cp' = "asleep" /\ cmu' = Free
  /\ UNCHANGED <<cseq, got, need, stage, prod, bytes, done, pmu, closing>>

ReadWoken ==
  /\ cp = "woken" /\ cmu = Free
  /\ cmu' = "consumer" /\ got' = pseq /\ cp' = "test"
  /\ UNCHANGED <<cseq, need, stage, prod, bytes, done, pmu, closing>>

\* peekMessageSize has the header: peekMessage waits for the whole packet.
PeekMessage ==
  /\ direction = "in" /\ cp = "have" /\ stage = "header"
  /\ \E n \in Lens : n >= need /\ LoadPseq(n, "packet")

\* ReadCommit(m).
ReadCommit(m) ==
  /\ cp = "have"
  /\ IF cseq + m <= pseq
       THEN cseq' = cseq + m /\ cp' = "notify" /\ UNCHANGED closing
       ELSE ConsumerStops("stopped") /\ UNCHANGED cseq
  /\ UNCHANGED <<got, need, stage, prod, bytes, done, pmu, cmu>>

\* peekMessage has decoded the packet.
CommitMessage == direction = "in" /\ stage = "packet" /\ ReadCommit(need)

\* w.Write of WriteTo has sent what ReadPeek returned, at most a block.
Peeked == IF got - cseq < Block THEN got - cseq ELSE Block

ConnWrite == direction = "out" /\ ReadCommit(Peeked)

\* The caller of ReadCommit goes on: the processor has a message to handle.
Returned == IF direction = "in" THEN "process" ELSE "idle"

\* Faulty variant: the broadcast is missing.
NotifyNobody ==
  /\ cp = "notify" /\ pmu = Free
  /\ cp' = Returned
  /\ UNCHANGED <<prod, cseq, got, need, stage, bytes, done, pmu, cmu, closing>>

NotifyProducer ==
  /\ cp = "notify" /\ pmu = Free
  /\ WakeProducer /\ cp' = Returned
  /\ UNCHANGED <<pseq, gate, want, op, cseq, got, need, stage, bytes, done, pmu, cmu, closing>>

\* processIncoming and the middleware have handled the message, reading its
\* fields and its dbuf.
Processed ==
  /\ cp = "process" /\ cp' = "idle"
  /\ UNCHANGED <<prod, cseq, got, need, stage, bytes, done, pmu, cmu, closing>>

-----------------------------------------------------------------------------
(* Close *)

StartClose(x) ==
  /\ closing[x] = "no"
  /\ closing' = [closing EXCEPT ![x] = "store"]
  /\ UNCHANGED <<prod, cons, bytes, done, pmu, cmu>>

CloseStore(x) ==
  /\ closing[x] = "store"
  /\ done' = TRUE
  /\ closing' = [closing EXCEPT ![x] = "wakeProducer"]
  /\ UNCHANGED <<prod, cons, bytes, pmu, cmu>>

\* Faulty variant: the producer is not woken.
CloseSkipsProducer(x) ==
  /\ closing[x] = "wakeProducer" /\ pmu = Free
  /\ closing' = [closing EXCEPT ![x] = "wakeConsumer"]
  /\ UNCHANGED <<prod, cons, bytes, done, pmu, cmu>>

CloseWakeProducer(x) ==
  /\ closing[x] = "wakeProducer" /\ pmu = Free
  /\ WakeProducer
  /\ closing' = [closing EXCEPT ![x] = "wakeConsumer"]
  /\ UNCHANGED <<pseq, gate, want, op, cons, bytes, done, pmu, cmu>>

\* ccond is broadcast under pcond.L.
CloseWakeConsumer(x) ==
  /\ closing[x] = "wakeConsumer" /\ pmu = Free
  /\ WakeConsumer
  /\ closing' = [closing EXCEPT ![x] = "closed"]
  /\ UNCHANGED <<cseq, got, need, stage, prod, bytes, done, pmu, cmu>>

-----------------------------------------------------------------------------
WaitForWriteSpace == WaitLock \/ WaitTest \/ WaitDone \/ WaitSleep
ProducerRuns ==
  \/ WaitForWriteSpace \/ ConnRead \/ NothingStored \/ Encode \/ CallWrite
  \/ RingCopy \/ CallWriteCommit \/ Committed \/ SetPseq \/ NotifyConsumer

ReadWaits == ReadLock \/ ReadTest \/ ReadDone \/ ReadSleep \/ ReadWoken
ConsumerRuns ==
  \/ StartRead \/ ReadWaits \/ ConsumerQuits \/ PeekMessage \/ CommitMessage
  \/ ConnWrite \/ NotifyProducer \/ Processed

CloserRuns(x) == CloseStore(x) \/ CloseWakeProducer(x) \/ CloseWakeConsumer(x)

Next ==
  /\ \/ StartWrite \/ ProducerRuns \/ ConsumerRuns
     \/ \E x \in Closers : StartClose(x)
     \/ \E x \in Procs : CloserRuns(x)
  /\ UNCHANGED direction

Spec == Init /\ [][Next]_vars

\* The Go scheduler runs every goroutine that can run; conn.Read and
\* conn.Write return because both carry a deadline.  Nobody is obliged to
\* publish or to close; the receiver goes round its loop.
Fairness ==
  /\ WF_ring(ProducerRuns) /\ WF_ring(ConsumerRuns)
  /\ WF_ring(direction = "in" /\ StartWrite)
  /\ \A x \in Procs : WF_ring(CloserRuns(x))

FairSpec == Spec /\ Fairness

-----------------------------------------------------------------------------
(* Properties *)

ProducerPoints == {"idle", "lock", "test", "isDone", "wait", "asleep", "woken",
                   "granted", "stored", "set", "notify", "stopped"}
ConsumerPoints == {"idle", "lock", "test", "isDone", "wait", "asleep", "woken",
                   "have", "notify", "process", "eof", "stopped"}

\* The variables have their types, and pcond.L and ccond.L are held by the
\* one goroutine that waits on the condition.
TypeOK ==
  /\ pseq \in Nat /\ cseq \in Nat /\ gate \in Nat
  /\ want \in Nat /\ got \in Nat /\ need \in Nat
  /\ bytes \in [0 .. Size - 1 -> Int]
  /\ done \in BOOLEAN
  /\ pmu \in {Free, "producer"} /\ cmu \in {Free, "consumer"}
  /\ pp \in ProducerPoints /\ cp \in ConsumerPoints
  /\ op \in {"reserve", "write", "commit"} /\ stage \in {"header", "packet"}
  /\ closing \in [Procs -> {"no", "store", "wakeProducer", "wakeConsumer", "closed"}]

\* Every byte between the two cursors is in its place, even while the
\* producer is storing the next ones on the strength of a cached gate: "we
\* would overwrite some of the unread data ... so we wait".
UnreadIntact ==
  /\ cseq <= pseq /\ pseq <= cseq + Size
  /\ \A s \in cseq .. pseq - 1 : bytes[index(s)] = s

\* What the consumer was promised is there when it uses it: the slice of
\* ReadWait or ReadPeek lies between the cursors, so ReadCommit succeeds.
PeekedIsThere == cp = "have" => cseq + need <= got /\ got <= pseq

\* A stream passes through the buffer unharmed: the state is well formed, no
\* byte is overwritten before it is committed and no promised byte is missing,
\* whenever Close comes.  What happens to the bytes of a message after their
\* commit is the subject of MessageIntact.
BytesIntact == TypeOK /\ UnreadIntact /\ PeekedIsThere

BothAsleep == pp = "asleep" /\ cp = "asleep"

\* The producer waits for room and the consumer for bytes that only fit in
\* that room.
Starving == BothAsleep /\ cseq + need > pseq

\* Only long packets starve the two sides: one on its way in that leaves no
\* room for a block while it is incomplete (ReadFrom asks for whole blocks),
\* one on its way out that is longer than the ring.
OnlyLongStarve ==
  Starving => IF direction = "in" THEN need + Block > Size + 1 ELSE want > Size

\* A producer that sleeps wakes up when there is room or the buffer closes:
\* the pcond broadcasts of ReadCommit and Close are not missed.
ProducerWakes ==
  (pp = "asleep" /\ (done \/ pseq + want <= cseq + Size)) ~> pp # "asleep"

-----------------------------------------------------------------------------
(* What the code does not keep; README.md has the instances that show it. *)

\* A packet that fits the buffer arrives: ReadWait refuses what is longer
\* than the ring and otherwise "waits until there is enough".
FittingArrives == Starving => need > Size

\* The message the processor holds after ReadCommit; one that goes round the
\* end of the ring was copied to buf.tmp, any other is a slice of the ring.
HoldsRing ==
  /\ direction = "in" /\ cp \in {"notify", "process"}
  /\ index(cseq - need) + need <= Size

\* A decoded message keeps its bytes as long as it is in use: "The byte slice
\* MUST NOT be modified during the duration of this message being available".
MessageIntact ==
  HoldsRing => \A s \in cseq - need .. cseq - 1 : bytes[index(s)] = s

\* The producer does not wait for room while the consumer sleeps on bytes
\* that are there: ReadPeek and ReadWait wait until there is some data.
NoMissedBytes == ~ (BothAsleep /\ cseq + need <= pseq)

\* The processor takes every packet that was received before the end of the
\* stream: it stops with EOF only when the next packet is not complete.
InputDrained == cp = "eof" => cseq + need > pseq

\* A consumer that sleeps wakes up when the buffer closes.
CloseWakes == (done /\ cp = "asleep") ~> cp # "asleep"

\* Close returns, for every goroutine that calls it.
CloseReturns ==
  \A x \in Procs : closing[x] = "store" ~> closing[x] = "closed"
=============================================================================
