# Verification of the MQTT 5 broker

TLA+ models of the broker's own logic (package `broker`, package `util`),
checked with TLC on small instances.  Every safety property that a passing run
checks is also proved with TLAPS for every instance.  Paths below are relative to `src/`.

## 1. The system

One TCP connection is served by one `service` (`broker/core/service/v1`).  Three
goroutines run for it: the *receiver* copies bytes from the connection into the
incoming ring, the *processor* takes packets out of that ring and handles them,
the *sender* copies the outgoing ring to the connection.  A PUBLISH that the
processor accepts is matched against the topic tree; for every subscriber the
**publisher's** processor calls the `onPub` of the subscriber's service, so the
quota, the packet identifiers, the acknowledgement queues and the outgoing ring
of a service are used by many goroutines.

| component | state | operations | used by |
|---|---|---|---|
| acknowledgement queue, `impl/session/mem_ackqueue.go` | ring of entries, head/tail/count, map identifier → slot, ping entry | `Wait`, `Ack`, `Acked`, growth | processor (`pub2in`, `pub1ack`, `pub2out`), publishers (`Wait`) |
| packet identifier limiter, `util/pkid` | bitmap, counter, next free identifier, condition variable | `PollPacketIDs`, `Release`, `BatchRelease`, `Close`, `MarkUsedLocked` | publishers |
| byte ring, `core/service/v1/buffer.go` | bytes, two cursors, cached gate, done flag, two condition variables | `ReadFrom`, `WriteTo`, `ReadWait`, `ReadPeek`, `ReadCommit`, `WriteWait`, `Write`, `WriteCommit`, `Close` | receiver, processor, sender, publishers |
| connection core, `operator.go` | the two rings, `wmu`, `outTmp` | `receiver`, `sender`, `peekMessageSize`, `peekMessage`, `writeMessage`, `Close` | service |
| service, `service.go`, `process.go` | session, limiter, quota, topics | `processIncoming`, `processPublish`, `processAcked`, `processSubscribe`, `onPub`, `publish`, `start`, `stop` | server, other services |
| send quota, `pipiline.go` | counter, flag | `ReqQuota`, `AddQuota` | publishers, processor |
| safe map, `util/collection/safe_map.go` | two Go maps, two deletion counters, lock | `Get`, `Set`, `GetOrSet`, `Del`, `GetDel`, `Range` | server (`svcs`), stores |
| server, `server.go` | services, session manager | accept, authenticate, `getSession`, `Shutdown` | main |
| session, stores, `impl/session`, `impl/store` | queues, topics, will, offline messages | create, resume, remove | server, service |
| topic tree, shared and system topics, `impl/topic` | two trees of levels, retained messages | `Subscribe`, `Unsubscribe`, `Subscribers`, `Retain`, `Retained` | service |
| delay tasks, `util/cron` | timers by identifier | `Run`, `Cancel` | service (delayed will) |
| codec, `core/message` | the fields of a message, its dirty mark, the bytes it was decoded from | setters, length computation, encode, decode | all |

What is hard here: the ring is used by two or more goroutines with atomics and
two condition variables; a publisher's steps (quota, identifier, queue, write)
interleave with other publishers' and with the acknowledgements; queues outlive
a connection while the limiter and the rings do not; connections break between
any two packets of an exchange; several waits are ended by one signal.  A new
connection of a client does not end the old one, so sessions, subscriptions and
wills are used by two services; wills are sent by goroutines and by timers that
fire while the client comes back.  The service of a session that is kept stays in
the topic tree when its connection has ended, and publishers go on calling its
`onPub`.  A message that was decoded is a view of the ring it came from and is sent
again from its old bytes unless a setter has marked it dirty.
`PROJECT.json` lists these hazards line by line, with the properties that cover
them.

Correctness, per component: an acknowledgement finds its own message and
messages leave in order (queue); an identifier in flight is never handed out,
and a waiter is woken (limiter); bytes arrive once, in order and intact, and the
two sides never wait for each other (ring); QoS 2 is exactly once and in order,
nothing acknowledged is lost (incoming); a message counts as delivered when the
client said so, and only then (outgoing); at most Receive Maximum messages are
in flight (quota); the two maps behave as one (safe map); a message reaches
exactly the matching subscriptions, and retained messages are those last
published (topic trees); a session goes to its own client and only while it has
not expired, a will is sent at most once and not after the client is back, the
CONNACK comes first (connection); what is encoded is what is decoded, with the
length announced (codec).

## 2. Modules

Each module is a translation of the code that `map` in `PROJECT.json` names; the
header comment says what a step is and what is abstracted.  Definitions whose
comment starts with "Faulty variant" are deliberately wrong copies of the
definition after them; `mutants` in `PROJECT.json` uses them to show that every
property can fail.

* **AckOps** – what `Wait`, `Ack` and `Acked` do to a queue seen as a list of
  entries.  **AckFifo** – the state machine over that list: the promise.
  **AckQueue** – the code: slots, `head`, `tail`, `count`, the mask, the map from
  identifier to slot, `grow`.  **MCAckQueue** gives the packet types.
  **AckQueueProofs** has the proofs.  Identifiers and messages are small sets; an
  entry keeps type, state, identifier, message and acknowledgement type.  The
  methods hold the queue's mutex, so each is one action.
* **PacketIdLimiter** – bitmap with its uint16 arithmetic, allocation loop
  (as the set it takes), waiting and signalling.  A method body is one step under
  `cond.L`; `Signal` comes after the unlock and is a step of its own; a woken
  goroutine competes for the lock.  `MarkUsedLocked`, which nobody calls, is the
  constant `Restored`.  **SharedStateProofs**.
* **RingBuffer** – the ring with its producer, its consumer and the closing
  goroutines.  Each atomic load or store, each lock, test, sleep and broadcast is
  a step.  `direction` chooses receiver/processor or writers/sender.  Bytes are
  positions in the stream.  The processor commits a packet and then handles it, which
  is a step of its own: the message still refers to the committed bytes.
  **RingBufferProofs**.
* **SafeMap**, **AbstractMap** – the two maps with their merges, and the one map
  they stand for, return values included.  Calls start and then run when the
  lock lets them; `GetOrSet` takes the lock twice, `Range` holds it across
  callbacks.  `Shutdown` is the call that `Server.Shutdown` makes: a `Range` whose
  callback deletes.  **SharedStateProofs**.
* **Inflow** (`MCInflow`) – incoming QoS 1 and 2: the handlers of `process.go`
  step by step, `pub2in` as a list of AckOps (which AckQueue is shown to
  implement), both directions of the connection, and a client of one of two kinds
  (`trusting`): one that keeps its state and resends, and one that goes by the
  CONNACK, which always says that there is no session, gives up what it has not
  finished and numbers anew.  The histories `givenUp` and `shadowed` record what such a
  client gave up and which messages met an identifier that `pub2in` held for
  another.  A client that keeps its state at one reconnect and gives it up at the next is
  not modelled.  **InflowProofs**.
* **Outflow** (`MCOutflow`) – outgoing QoS 1 and 2: `onPub` and `publish` step by
  step for several publishers, retained messages, the acknowledgement handlers,
  the client, disconnects and reconnects.  There is a service for each connection, with
  a limiter of its own (a counter, since nothing is ever released), and one session
  with its queues.  A publish calls a list of `onPub` functions, of the running service
  and of stopped ones, which are still subscribed (`todo`); a call of a stopped one
  takes an identifier of the old limiter, queues its entry in the session and then
  either panics on the cleared `gCore`, which ends the publisher's processor, or, while
  `stop` has not got there, writes to nobody.  `cut` is the history of the identifiers that
  a disconnect cut off or a stopped service queued something under, `Shared` are the identifiers that a
  retained message brings along and somebody else uses: the properties speak of
  all others.  **OutflowProofs**.
* **SendQuota** – `ReqQuota`/`AddQuota` atomic by atomic, with the calls of
  `onPub`, `streamController` and the acknowledgement handlers.
  **SharedStateProofs**.
* **TopicLevels** – topics as sequences of levels, trees as functions on paths.
  **TopicTree**, **ShareTree**, **SysTree** – the recursive methods of the three
  kinds of trees (`sinsert`, `sremove`, `smatch`, `rinsert`, `rremove`,
  `rmatch`), each with the level function and the omissions of its file.
  **Topics** (`MCTopics`) – the topic manager: which tree an operation goes to,
  granted QoS, the retained tree beside the message store.  Each operation holds
  a tree's lock and is one action; the properties compare the answers with the
  matching rules of MQTT, written down independently, over a history of who
  subscribed to what; `lost` records which retained messages the clearing of a longer
  topic deleted from the tree.  Levels are strings, taken as wholes, the set `Levels` a
  constant, of which `Dollar` begin with `$` and `Malformed` hold a wildcard that is
  not alone (save `+$x` and `#$x`, which `nextTopicLevel` accepts since the `$` resets its
  state); the order in which a node lists its subscribers is left out.
  **TopicsProofs**.
* **Connection** (`MCConnection`) – `handleConnection` from the CONNECT to the
  end of `stop`, for several connections that may overlap: authentication by its
  outcome, `getSession` with the two looks at the store, `start`, `recoverSub`,
  the CONNACK, SUBSCRIBE and publishing, DISCONNECT, `stop` statement by
  statement, wills by goroutine or by repeating timer (`cron.go`,
  `delay_task.go`).  `tree` is the set of services that are subscribed; `crashed`
  is the broker after a panic that nothing recovers.  There is one topic; the ring is
  reduced to whether a PUBLISH waits in it.  **ConnectionProofs**.
* **PacketFormat** – sizes of fields, variable byte integers, user properties,
  the fixed header.  **PublishCodec**, **ConnectCodec**, **SubscribeCodec** – for
  each packet type its setters, `build` (the lengths computed ahead), the fields
  its encoders write, its decoder.  **Codec** (`MCCodec`) – the life of one message:
  built, encoded, tampered with, decoded, changed, encoded again from new or from
  old bytes.  The lengths of strings, topics and payloads, the user properties and the
  reason codes that setters are called with are constants.  **CodecProofs**.  A
  string is its length, a packet the set of its fields with values and sizes.  Each
  decoder reads in the order of its encoder, but it finds the end of the properties by
  looking for identifiers and not by their length; so the order in which it looks
  (`ConnectOrder` and its kin) is modelled where bytes behind the properties can be taken
  for one more (`Mistaken`), and where a property comes again behind others (`again`).
  What becomes of a packet in which the decoder has lost its place depends on all its
  bytes: it is `Misread`, with any outcome, and not followed further.

Inflow and Outflow compose the queue with its users: they extend AckOps, whose
operators are what the theorem `RefinesFifo` shows the ring to compute.  Topics
composes the trees with each other and with the store; Codec composes the packet
types.

## 3. Runs

`tlc -config X.cfg M`, each within a minute on two workers, Topics and
Connection in little more.  Some invariants are conjunctions of parts with a
definition and a comment of their own; the parts are in parentheses.

| run | checks | shows |
|---|---|---|
| AckQueue | TypeOK, RingConsistent, MapConsistent, ImplementsFifo | ring, cursors and identifier map agree through two growths, and the whole is a first-in-first-out list |
| PacketIdLimiter | TypeOK, Accounted, WaitersListed, NoneSleepIdle | identifiers are accounted for exactly with batch, stale and restored ones and Close; nobody sleeps on an idle limiter without a wake-up on its way |
| Ring | BytesIntact (TypeOK, UnreadIntact, PeekedIsThere), OnlyLongStarve, ProducerWakes | bytes are intact until they are committed, what the consumer was promised is there, the two sides starve each other only over long packets, a waiting producer wakes |
| SafeMap | MapsSound (MapTypeOK, OneHome, RangeStable), ImplementsMap, CallsReturn | the two maps implement one, calls return unless GetOrSet lost its race or Shutdown came to a service |
| Inflow | ExactlyOnce (TypeOK, OnceInOrder), NothingLost, AllPublished | exactly once and in order for QoS 2, with two breaks of the connection; for a client that keeps its state nothing is lost and everything is published; for one that goes by the CONNACK a message is lost only to an identifier that `pub2in` held for one the client had given up |
| Outflow | InFlightTracked (TypeOK, Tracked), CompletesRight, AllComplete | acknowledgements find their message, completion is right and comes in the end, with a stopped service that queues along; what that and a disconnect spoil is limited to the identifiers they used and, for AllComplete, to what waits behind their entries |
| SendQuota | OvercommitBounded, NoDebt | the racy counter never lets out more than the quota plus the refused messages, and denials leave no debt |
| Topics | LookupsExact (TypeOK, NobodyMissed, NobodyExtra, RefusedOnlyDollar), NoDeadBranches, GroupsReported, RetainedExact (RetainedBacked, RetainedServed, RetainedMatch), Isolation | lookups in the plain, shared and system trees are those of MQTT but for the deviations of section 6; removal leaves nothing behind and nobody else changed; tree and store of retained messages agree |
| Connection | TreeFollowsSessions (TypeOK, StaleOnlyPersistent, Subscribed), ConnackFirst, SessionContinuity, WillOnce, NoWillWhenBack, WillSettled | sessions go to the right client, subscriptions follow them, a will is sent once, not when the client is back, and in the end |
| Codec | LengthsRight (TypeOK, LengthHonest), RoundTrip, CacheFresh, ForbiddenRefused | thirteen packet types announce the length they write, are read as they were written, are not sent from stale bytes and are refused when forbidden, but for the messages listed in the module |
| RingAlias, OutflowLimit | MessageIntact, PublishersReturn – violated | what comments of the code promise and the code does not keep, see section 6, with five more configurations of this kind |

### Bounds

* AckQueue: an initial size of 1 and a largest of 4 (`MaxSize`; 256 and
  unbounded in the code) give two growths with three identifiers, with the entries at every
  rotation, which is where the copy and the map can go wrong.
* PacketIdLimiter: limit 3, three callers asking for 1 or 2, two releasers;
  the waiters' list gets two entries, and a caller barges in between signal and
  wake-up.  Batches have two identifiers.
* Ring: size 4, block 2, header 2; `MaxSeq` 9 lets the cursors go round the
  ring twice.  Each behaviour is of one of the two rings of a connection
  (`Directions`).  The packets have 1 to 5 bytes (on their way in at least the header):
  some fit a block, one leaves just room for a block, some wrap, one is as long as
  the ring and one longer.  One goroutine besides the two sides may call Close.
* SafeMap: `MaxDeletion` 1 and `CopyThreshold` 2 (10000 and 1000 in the code)
  with three keys: with fewer keys a worn map is always small enough to be
  merged and the second map is never used.  One value is enough: the code never
  looks at a value, and a stale value needs two copies of a key, which OneHome
  excludes.  SafeMapShutdown needs one service only.
* Inflow: four messages over two identifiers, so that identifiers are used
  again, one message that cannot be stored, and at most two breaks
  (`MaxDrops`), for either kind of client (`Trusts`).  A client that gives up can leave
  two entries in `pub2in` at a break and send its last message under either identifier.
  Message numbers are their order.
* Outflow: two publishers, Receive Maximum 2, three messages, the third a retained one
  under an identifier the limiter does not hand out, and one reconnect; a publish calls
  one `onPub` (`MaxCalls`), of the running or of the stopped service, and two
  publishers call both in every order.  OutflowLimit has Receive
  Maximum 1.  What more messages, publishers, calls and reconnects could do to the two
  invariants is settled by the proofs.
* SendQuota: three publishers, quota 2, two refused messages (`MaxRejects`).
* Topics: four operations (`MaxOps`) of two subscribers, on one tree at a time
  (`Workloads`; the trees share nothing but the manager), the plain tree in two
  workloads: filters with both wildcards, and filters with an empty level; an
  ill-formed and a `$` level, and filters that are prefixes of each other, are among
  all of them.  Retained messages are searched with twelve filters (`Searches`), among
  them ones with a leading, a last and only an empty level and one of `$sys`: whatever
  the trees accept a subscription to, `processSubscribe` also searches for.
  Four operations are subscribe, subscribe elsewhere, unsubscribe and one more to
  spoil it; every lookup is made in every state.  QoS 0 and 2 with a maximum of 1
  tell the asked, the granted and the lower one apart.
* Connection: two connections (`MaxServices`) of one client or two, with three
  CONNECT packets (`MCProfiles`): a client that keeps its session and has a
  delayed will, the same client starting clean with a will sent at once, and a
  second client like that.  Every step of one connection may fall between any two
  of the other, so they overlap or follow each other in every way; a publish
  reaches whatever the first connection left behind.  What a third could change
  for sessions and the tree is settled by the proofs.
* Codec: two calls of setters (`MaxSets`) before each encoding, on messages that
  start from templates; lengths 0, 1, 125 and 16384 around the boundaries
  where a variable byte integer grows and where the code treats zero specially, 300,
  5377, 2817 and 9729, whose first byte is the identifier of a property, and
  a payload with which the packet is longer than 268435455 bytes.  What more
  calls and other lengths could do is settled by the proofs.

The liveness runs use no symmetry; Topics, which has none, uses the symmetry of
subscribers and payloads.  Deadlock checking is off where the system may come to
rest: all messages handled, or the stream at `MaxSeq`, or everybody blocked
behind a lock that GetOrSet or Shutdown keeps (SafeMap), or all operations and
connections of the bound used up (Topics, Connection), or the message sent twice
(Codec).

### Fairness

Weak fairness for goroutines that can run (the Go scheduler) and for the network
calls, which carry deadlines.  Nobody is obliged to publish, subscribe, release,
close or break a connection.  SafeMap assumes strong fairness of a call, because
`sync.RWMutex` keeps new readers out while a writer waits.  In Inflow the client
reads its socket and comes back; in Outflow it answers what it received.  In
Connection a goroutine goes on and a timer that is due fires in the end, unless the
broker has gone down; no client is obliged to connect, to disconnect or to come
back.

## 4. Proofs

`tlapm M.tla` for the modules whose name ends in `Proofs`.

* **AckQueueProofs** – `TypeCorrect`, `QueueConsistent`, `MapIsInverse`,
  `RefinesFifo`.  The
  inductive invariant is the conjunction TypeOK ∧ RingConsistent ∧ MapConsistent:
  the map is needed to know which slot `insert` and `Ack` touch, the ring to know
  that the map's slots are the live ones; neither is inductive alone.  The lemmas
  are about `index`, growth and the drained prefix.  Refinement maps the live
  slots, read from `head`, to the list of AckFifo.
* **RingBufferProofs** – `RingSafe`: BytesIntact for any size,
  block, lengths and set of closing goroutines.  The invariant adds what each
  control point of the producer and of the consumer knows about the cursors: the
  granted room lies behind the gate, the gate is not beyond the consumer, the
  loaded position is not beyond the producer, stored bytes are in place.  It speaks of
  bytes up to their commit; that a message keeps its bytes while it is handled is
  false (MessageIntact).  `NeverStarves`: OnlyLongStarve, with no assumption on
  lengths: two sides that wait for each other have a packet between them that is longer
  than the ring less a block, plus one (incoming), or than the ring (outgoing).
* **SharedStateProofs** – what goroutines share under a lock.
  *Limiter*: `LimiterSafe`, `LimiterTypeCorrect` and `WaitersAreListed`, from
  TypeOK ∧ Accounted ∧ WaitersListed, and `NoWakeupLost`, which adds that whoever
  waits has asked for at least one identifier (a woken caller that took none
  would use up the wake-up).  All four assume `BitmapCovers`, that the bitmap
  has a bit for every identifier; `BitmapLargeEnough` shows that this fails for
  six limits only, 65528 to 65533, because of the uint16 rounding.
  *Quota*: `QuotaKept` (OvercommitBounded), `ReceiveMaximumKept`
  (at most Quota in flight if the client refuses nothing) and
  `DenialsLeaveNoDebt`, for any number of publishers.  The invariant bounds the
  counter plus the messages in flight by the units that exist, counting the
  requests between their decrement and their reset.
  *Safe map*: `SoundMaps` (MapsSound) and `ImplementsOneMap`
  (ImplementsMap), for any keys, values, goroutines and thresholds.  The
  invariant is MapsSound, that every call under way has the arguments of its
  operation, and that the goroutines inside `Range` are the readers of the lock:
  without the last a writer could move what `Range` has yet to visit.  The
  refinement maps the two maps to their union; a merge is a stutter.
* **ConnectionProofs** – `SessionsContinue` (SessionContinuity) and `TreeIsRight`
  (TreeFollowsSessions), for any number of connections, where the run has two.
  A session is named after the service that created it and used by others only
  if both are persistent and of one client; the store lists persistent sessions
  under their own client; two open connections of a client are known to overlap;
  what was found expired is neither stored nor in use; and for each phase, who is
  in the tree.  SessionContinuity needs the store's part because `getSession`
  reads the store twice; the tree's part needs the overlaps, since two services
  that share a session also share the record of its topic.
  `ConnackComesFirst` (ConnackFirst): a session that is not resumed is new, a new
  session lists no topic, so nobody can subscribe it before the CONNACK, and the
  service of nobody else shares it without an overlap.  `WillsOnce` (WillOnce) and
  `NoWillOnReturn` (NoWillWhenBack): a will is a unit that is published, with the
  goroutine that publishes it, in a timer, or still with `stop`, and the invariant
  adds these up; timers are registered under the client, and without an overlap
  only the open connection can have registered one.
* **InflowProofs** – `QoS2ExactlyOnce` (ExactlyOnce) and `NothingIsLost`
  (NothingLost), for any number of messages, identifiers and breaks.  The
  invariant follows the packets: every unfinished exchange of the client has one
  packet on its way, or in the processor's hands, while the connection is up, and
  the packet is at the point where the client's record of the exchange is; `pub2in`
  lists messages in the order they were sent, all later than those published; what
  can still come for the first time is later than all of these, and PUBLISH packets
  are on the wire in order.  That gives ExactlyOnce for any client.  For a client that
  keeps its state, PUBRECs and PUBRELs are in order too, so that a PUBREL is always
  for the head of `pub2in`, and what was acknowledged is in the queue or published.
  For one that gives up, the entries of what it gave up stay in `pub2in`; a message
  that was stored is still in the queue, released, or published, and one that was not
  had come under an identifier of the queue whose message is older and given up.
  Together that is NothingLost, for both kinds.
* **OutflowProofs** – `AcknowledgementsFindEntries` (InFlightTracked) and
  `CompletesOnlyConfirmed` (CompletesRight), for any publishers, messages, Receive
  Maximum, identifiers of retained messages, lists of subscriptions and number of
  reconnects.  The
  invariant says of every identifier that is not confused: all that carries it has
  been given it on this connection, so the limiter and a retained message bring a
  fresh one; a publish of the running service that has not reached the client is the only
  packet with it; before `Wait` nothing is queued or held under it, after it exactly its
  own entry, unacknowledged; and an acknowledgement under way is for the message of the
  entry.  The last is what makes a final entry a confirmed one.  Of stopped services
  nothing is said but that what they queue is confused from then on; and without a
  connection nothing is under way and all that is queued or held is confused (`Offline`),
  so that a reconnect starts clean.
* **TopicsProofs** – for any levels, filters, topics, subscribers and number of
  operations.  `SubscriptionsInvariant`: each of the three subscription trees mirrors
  the live subscriptions of its kind – a subscriber is at the node of a path
  exactly when a live filter is spelled that way – and every node leads to a
  subscriber, or to where a filter was refused half-way.  `NoNodeLeftBehind`
  (NoDeadBranches), `SummaryOfGroups` (GroupsReported) and `ClientsAreIsolated`
  (Isolation) are read off it.  `LookupsAreExact` (LookupsExact) compares a search with
  the rule of MQTT: the recursive search is unrolled into layers, one for each level of
  the topic, each of which is shown to hold the nodes whose path matches the levels
  so far; a subscriber found is then one whose filter matches, and the mirror says
  which filters there are.  `RetainedInvariant` and `RetainedIsExact` (RetainedExact) do
  the same for retained messages: the tree holds only what is stored under the same
  topic, and all of it that is neither refused, nor spelled like another, nor lost to
  the clearing of a longer topic.  Induction over the levels is
  by the least counterexample (`LeastNumber`), stated about sets and functions: from it come
  `LayersExist`, that a search has layers, and `Downward`, that what a layer hands to the
  one before holds of the first.  The theorems about induction that the library has
  take an operator as a parameter, which these provers do not instantiate.
  `LevelsAssumption` says that the wildcards and the empty level are levels, well formed
  and without `$`, and that the mark of a failed search is none; `TopicsAssumption`
  that topics and filters have a level, that topics that are published have no
  wildcard, and that retained messages are searched with filters that a
  subscription was accepted for, in the plain tree (empty levels and all) or in the
  system tree.
* **CodecProofs** – `LengthsAreRight` (LengthsRight), `MessagesComeBack` (RoundTrip),
  `CachesAreFresh` (CacheFresh) and `ForgeriesAreRefused` (ForbiddenRefused), for
  messages that any number of setter calls has made, with strings up to 65535
  bytes, payloads and user properties of any length and lists of any number of
  topics and reason codes; numbers take the boundary values that `Values` lists.  The layers of the proof: the sum over the
  fields of a packet is additive (`TotalUnion`, from a table of partial sums, since
  the fold is defined by recursion over sets); every setter keeps the types of the fields and leaves
  the message clean only when it changes what CacheFresh excepts (`Setters`);
  for every type, both encoders write the same fields, and the length that `build`
  adds up by hand is the sum of their sizes (`Encoders`); reading what was written
  gives the message back (`PacketBack`), and each decoder judges it as Unreadable,
  Mistakable and Lossy say (`SentReads`); each decoder refuses a property that comes twice
  in a row and a zero (`RepeatedRefused`, `ZeroedRefused`), and SUBACK and UNSUBACK one
  that comes again.  The invariant `CInv` carries this through
  the life of a message: a packet under way was encoded from a message without a
  remaining length, since only then does an acknowledgement that seems to have
  none of its optional parts really have none; and a clean message says what its
  old bytes say.  `CodecAssumption` bounds strings by what `writeLPBytes` takes, and
  says that topics are not empty and reason codes are among those of the model.

Assumptions on constants are the named ASSUMEs of the modules, evaluated by TLC
in every run: besides those above, the sets of identifiers and packet types that a
queue is used with, the QoS levels, and in Inflow that the messages of a behaviour
are finite in number and numbered in the order they are sent.

Model-checked only: liveness (ProducerWakes, CallsReturn, AllPublished,
AllComplete, WillSettled) and what rests on ENABLED, which are beyond this prover.
Every invariant and every action property of the passing runs is a theorem, and both
refinements (ImplementsFifo, ImplementsMap) are.

## 5. Not modelled

* Configuration, logging, statistics, authentication stubs, websocket proxy,
  command line, the small wrappers of `waitgroup` and `gopool`: data or input and
  output without protocol state.
* Codec: the values of bytes, buffers that are too short or end too early, what becomes
  of a packet in which the decoder has lost its place, lengths of 2^32 and more, which
  the code cuts to 32 bits, and PINGREQ and PINGRESP, which have no body.
* Service: the client mode of `service.go` (`subscribe`, `unsubscribe`, `ping`
  as a client), offline messages (the broker never stores one), topic aliases,
  subscription identifiers, and `processPublish`'s refusals other than as the end of a
  connection.
* Inflow: a client that keeps its state at one reconnect and gives it up at another.
* Topics: topics that `ValidTopic` would refuse, which a PUBLISH with a topic alias can
  bring in (`publish.go:299`); the retained messages of the shared and the system tree, which have no
  caller, and `Close`, which drops the trees.
* In the modelled parts: `Read`, `Len`, `readMessage` of the ring, `UpQuota` and
  `UpLimit` of the quota have no caller; `Dels` and `Size` of the map are left
  out.  The two rings of a connection are checked one at a
  time; the packets the server writes past the ring are in Connection only.

## 6. What the code does not keep

A comment of the code says otherwise.  The first two are runs; the others are shown by
`tlc -config X.cfg M` with the configuration of the same name, of the modules
PacketIdLimiter, RingBuffer (two), SafeMap and MCInflow, which TLC finds violated.

| configuration | property | what happens |
|---|---|---|
| RingAlias | MessageIntact | `peekMessage` commits a message before it is handled (`operator.go:298-304`), and `header.decode` keeps the bytes of the ring as `dbuf` (`header.go:216`): the receiver stores the next packets over a PUBLISH that is encoded again from `dbuf` afterwards (`publish.go:363-369`, `process.go:693`). A packet that goes round the end of the ring was copied and is safe. `copyMsg` does the same to a pooled buffer: it gives it back while the copy still refers to it (`process.go:862-870`; not modelled) |
| OutflowLimit | PublishersReturn | nothing calls the limiter's `Release`; after Receive Maximum messages on a connection every publisher to that client blocks (`service.go:202`) |
| LimiterWake | PollReturns | Close and BatchRelease signal once (`pkid_set_limiter.go:58`, `:129`): of several waiters one is woken, the others sleep for ever |
| RingBlock | FittingArrives | a packet of the ring's own size, or longer than the ring less a block plus one, blocks both sides: `ReadFrom` wants a whole block of room (`buffer.go:136`), `ReadWait` the whole packet |
| RingMissed | NoMissedBytes | `ReadPeek` and `ReadWait` load the producer's position before they take `ccond.L` (`buffer.go:335`, `:402`); a commit and its broadcast in between are missed, the sender sleeps on bytes that are there, and the publishers behind it |
| SafeMapShutdown | ShutdownReturns | `Shutdown` stops services inside `svcs.Range`, and stopping one deletes it from `svcs`: a write lock inside the read lock (`server.go:155`, `service.go:447`) |
| InflowLoss | NeitherLoss | `getSession` resumes a session but never sets SessionPresent (`server.go:530`); a client that goes by it uses an identifier again that is still in `pub2in`, and its new message is taken for a duplicate, acknowledged and lost |

Others, found with the same modules; the instance that shows each is given.

| statement | instance | what happens |
|---|---|---|
| messages longer than the ring are refused | RingBuffer out, `Lens = {5}` | such a message sleeps for ever with `wmu` held (`operator.go:382`); OnlyLongStarve excepts it |
| InputDrained | RingBuffer in, no closers | a complete packet in the ring is answered with EOF at the end of the stream (`buffer.go:413`); the project's own list calls this done |
| CloseWakes | RingBuffer out, fair | `Close` broadcasts `ccond` under `pcond.L` and misses a consumer between test and sleep (`buffer.go:113`) |
| CloseReturns | RingBuffer in, fair | the error return inside the wait loop keeps the mutex (`buffer.go:580`), Close waits for it for ever |
| Accounted | PacketIdLimiter, `Limit = 65530` | the bitmap has size zero (`bitmap.go:17`); LimiterSafe assumes that this is not so |
| CallsReturn without the first part of its premise | SafeMap, `Ops = {"GetOrSet"}` | the loser of a race returns without unlocking (`safe_map.go:121`, `:125`) |
| NothingLost for every message | Inflow, one unencodable message | the error of `insert` is dropped, the message is acknowledged and lost (`mem_ackqueue.go:103`) |
| CompletesRight without `cut` | Outflow, one reconnect | a new message gets the identifier of a queued one, whose entry its acknowledgement finishes (`service.go:202`); the client may also still hold an unreleased message under it and take the new one for a duplicate |
| AllComplete without its last part | Outflow, one reconnect, `MaxCalls = 2` | a stopped service of a kept session stays subscribed (`service.go:477`); a later publish calls its `onPub`, which queues in the resumed session an entry that is never sent nor acknowledged (`service.go:202`, `:240`, `:249`): it stays, and with it all that are behind it; then the nil `gCore` panics |
| Tracked without `cut` | Outflow, `Qoses = {1}`, one reconnect, four messages | an acknowledged entry stuck behind another keeps a new message with its identifier out of the queue (`mem_ackqueue.go`, `insert`) and then leaves itself |
| Tracked without `Shared` | Outflow, `RetainedPid` equal to one the limiter hands out | a retained message goes out under its publisher's identifier, untracked (`process.go:637`) |
| QuotaRestored | SendQuota | the reset of a denied request erases a unit returned meanwhile (`pipiline.go:150`); a NoLocal message takes a unit that nothing returns (`service.go:190`) |
| NeverOvercommitted | SendQuota, `MaxRejects = 1` | a refused message returns its unit twice (`process.go:188`) |

The topic trees, the connection and the codec have deviations, which their
properties name and except, so that everything else is checked.

Topics (`MqttMatch` in Topics is the rule they deviate from):

* An empty level is inserted and looked up as `+`, and dropped at the end
  (`topic.go:574`); "a//b" and "a/+/b" are the same subscription.  So are the searches
  for retained messages: a SUBSCRIBE to "/b" is sent that of "x/b", one to "a/" that of
  "a".
* `processSubscribe` searches for the retained messages of a `$sys` filter in the plain
  tree, which refuses it: the subscription stays and the client is disconnected
  (`process.go:583-585`).
* Topics of a PUBLISH with a topic alias are not validated (`publish.go:299`): one with
  wildcards or empty levels is looked up, and retained, as it is (not modelled).
* The levels `+$x` and `#$x` are accepted, since the `$` resets the state of
  `nextTopicLevel` (`topic.go:610-616`).
* A filter that is refused half-way leaves its first nodes in the tree.
* A level that begins with `$` makes the whole lookup fail as soon as a branch
  leads there; a subscriber to "#" is not served either.
* Clearing the retained message of "a/b" deletes that of "a" from the tree, not
  from the store (`rremove`); a retained message with a `$` level is stored and
  never served.
* "a/+/#" does not serve the topic "a/": at an empty rest the search serves the "#" and the
  "+" below the node, and not the "#" below that "+" (`topic.go:367`).
* In the system tree "a/#" does not match "a", and a subscriber with a lower QoS
  than the message's is passed over.
* A group without members is still reported while its node lives, or because of what a
  refused filter left.

Connection:

* A second connection of a client does not end the first; the two share or
  overwrite the session (`overlapped` in the properties).  A resumed session keeps
  the old CONNECT and its will.  The stored session outlives a clean start
  (`server.go:515`).
* A persistent session stays subscribed when its service has stopped and cleared
  `gCore`.  A publisher that reaches it loses its own connection; a will of delay
  zero is published by a goroutine without `recover`, and the broker goes down
  (`process.go:302`, `crashed` in the model).
* The topics of a resumed session are subscribed before the CONNACK is written,
  past the ring, so a PUBLISH can precede it.
* A timer entry that is registered over is not removed and keeps firing; one that
  fires cancels itself and resets `hasSendWill`; a slow goroutine's `Cancel`, or the
  deferred `Remove` of a job, can remove the entry of a newer will.
* A refused authentication returns the result of writing the CONNACK, nil, and
  the connection goes on (`server.go`, `conAuth`).

Codec (`Miscounted`, `Unreadable`, `Mistakable` and `Lossy` in Codec list the messages):

* CONNECT and CONNACK miscount their length for some zero values (`maxPacketSize`
  0 and 1, an empty user name, password, will topic or will message whose flag is set,
  user properties of the will); CONNACK loses what follows `serverKeepAlive`, and
  a missing `sharedSubscriptionAvailable` stays 0.
* `build` drops the error of `SetRemainingLength`: a packet over 268435455 bytes goes out
  with the length the message had before, a new message with 0 (`header.go:123`); a
  DISCONNECT of that length without a reason code goes out as an empty one.
* UNSUBSCRIBE stops before the end of its topics (four topics of one character
  lose the last); DISCONNECT reads the session expiry from the beginning of the packet.
* PUBACK and its kin, SUBACK and UNSUBACK panic when the reason string is the last
  field; so does SUBSCRIBE after a subscription identifier without topics.
* The decoders ignore the property length and look for identifiers behind the last
  property there is.  A will topic of 256 to 511 bytes is read as a payload format
  indicator (`connect.go:1355`), a client identifier of 0x15xx bytes as an
  authentication method (`connect.go:1287`), a topic of a SUBSCRIBE of 0x0Bxx bytes as a
  subscription identifier (`subscribe.go:368`), one of 0x26xx bytes, in SUBSCRIBE and
  UNSUBSCRIBE, as a user property, a payload that begins with an identifier
  as that property; other lengths of client identifiers and will topics likewise.  The
  packet is then refused, or taken for another message.
* A property that is repeated behind others is refused by SUBACK and UNSUBACK only (as a
  reason code).  PUBLISH takes it for the beginning of the payload, SUBSCRIBE
  and CONNECT lose their place, and AUTH, CONNACK, PUBACK and its kin and
  DISCONNECT leave it unread.  DISCONNECT also takes one that is repeated at once.
* `SetRetain`, `SetDup` and `SetPacketId` of PUBLISH, `AddTopic` for a topic that
  is there, and a half-failed `AddReasonCodes` do not mark the message dirty: it
  is sent again from its old bytes.  This is how `pubFn`'s `SetRetain(false)`
  (`process.go:862`) never reaches a subscriber.

## 7. Plan

Done: the byte ring, the queues, the limiter, the quota, the safe map, both
directions of a publish, the topic trees, the connection, the codec; the proof of
every safety property that holds of these.  Left, in this order:

1. The two rings, the direct writes and the closing order of a connection in one
   module that composes RingBuffer.
2. Three overlapping connections in Connection (with three that take turns,
   950 thousand states, the safety properties hold).
