# The order book system in TLA+

This directory specifies the peer-to-peer replicated order book of this
repository. Five nodes each keep a limit order book, take orders from clients
over TCP, and exchange operations over a UDP gossip protocol; a bridge polls them
for a dashboard and replays market data. The modules here model the C++ node
from the order book to its TCP server and its peer table, and the bridge. TLC
checks them on small instances. TLAPS proves nearly all of their safety
properties for every size: any number of nodes, orders, operations and clients.

Paths are relative to the repository. "The code" is the C++ under `src/` and the
JavaScript under `frontend/`.

## The system

### Components

| Component | Code | State it keeps | Operations |
|---|---|---|---|
| Order book | `src/orderbook` | `orders_`, the table of all orders ever seen; `bids_` and `asks_`, ladders of price levels, each a queue of `Order*` with a cached `total_quantity` | add, cancel, market order, insert a replicated order, replicated cancel, snapshot, queries |
| Vector clock | `src/crdt/vector_clock.*` | a map from node id to counter | tick, merge, happens_before, is_concurrent |
| Replicated book | `src/crdt/crdt_orderbook.*` | the book, the clock, the operation log `op_log_`, the ids seen `seen_ops_` | local add, cancel and market order; apply a remote operation; the log; the operations since a clock |
| Gossip engine | `src/gossip/gossip_engine.*` | the peers with their liveness, `rr_index_`, `round_` | the gossip thread (round, heartbeat, peer timeout) and the receive thread (six message types) |
| Wythoff scheduler | `src/gossip/wythoff_scheduler.*` | none | the pair and the mode of a round |
| Message codec | `src/gossip/message.*` | none | serialize, deserialize |
| UDP transport | `src/network/udp_transport.*` | a socket | send, receive with timeout |
| Client handler | `src/api` | none | ADD, CANCEL, MARKET, BOOK, STATUS, METRICS |
| TCP server | `src/network/tcp_server.*` | listening socket, `running_`, detached client threads | accept, handle one request, stop |
| Lifecycle | `src/main.cpp`, `src/util/config.*` | `g_running` | start and stop everything |
| Bridge, replay | `frontend/server/index.js` | `nodeAlive`, `replay`, the WebSocket clients | poll nodes, forward commands, replay bars |
| Dashboard | `frontend/src` | the nodes' books and status, activity, histories | apply events, reconnect |
| Scripts | `scripts` | none | inject partitions, measure convergence |

### How they interact

A client's request reaches the replicated book through the TCP server and the
client handler, each in a thread of its own. A local operation ticks the clock,
changes the book, appends an operation stamped with the clock to the log, and
marks its id as seen, all under one mutex. The gossip thread sends the end of
the log (the last 20 operations) to one peer per round, or asks it for what this
node lacks; it also sends heartbeats and marks silent peers dead. The receive
thread applies the operations of a message one by one, taking the mutex for each,
and answers pulls with the operations the sender's clock does not cover. A
message from a peer that was marked dead makes this node ask it for the delta.
Nothing is acknowledged and nothing is written to disk. The bridge polls every
node with BOOK and STATUS twice a second, whether or not earlier polls are done.

### What is hard

- The book keeps the same facts in three places (table, queue, cached total)
  and changes them in five, and the match loop erases levels while it walks them.
- Operations arrive late, twice, out of order or not at all, through several
  peers at once.
- Two different things say what a node has: the ids it has seen and its clock.
  They agree only while operations arrive in causal order, and a restarted node
  counts its clock from 0 again.
- Three kinds of thread run between any two operations of a message, and between
  the two times a round takes the book's lock.
- Whom a node talks to depends on whom it takes for alive, and that depends on who
  talks to it.
- Requests arrive in pieces and break off; variables are read that were never
  written; threads are detached while the process shuts down.
- Polls overlap, time out and are answered after a replay has started or stopped.

`PROJECT.json` lists these hazards line by line with the properties that watch
them.

### What makes each component correct

- Order book: table and ladders describe the same live orders; cached totals are
  exact; a market order fills by price and then arrival; what has left the book
  never comes back.
- Vector clock: happens_before is causality.
- Replicated book: applying is idempotent; a clock counts only what is accounted
  for; the delta leaves out nothing; nodes with the same operations agree.
- Gossip engine: operations arrive in causal order; all of them arrive; the books
  see nothing but operations of other nodes; entries of the peer table keep naming
  a node at the host they lead to; nodes do not fall apart for good.
- Wythoff scheduler: every pair exchanges, in both modes, about equally often.
- Codec: decoding what was encoded gives it back, prices excepted.
- Client handler and TCP server: orders are taken as written, once; nothing invalid
  is; silent clients hold up nobody; shutdown completes.
- Bridge and dashboard: what is shown becomes what is; dead nodes are noticed; a
  replay has one timer and an end, and real books do not mix with its own.

## The modules

| Module | What it is |
|---|---|
| `LimitBook` | what an order book promises, as operators on a value: the ids it knows and the orders resting in it |
| `PriceTimePriority` | the abstract specification of one book: every operation takes effect at once |
| `OrderBook` | the C++ book: table, ladders, queues, totals, match loop |
| `VectorClock` | the clocks, as operators |
| `CRDTOrderBook` | one `LimitBook` value, clock, log and set of ids per node, over an arbitrary network |
| `CRDTRestart` | the same with nodes that stop and start again |
| `MessageCodec` | what messages look like on the wire and how they are read |
| `Gossip` | the gossip engine on top of `CRDTOrderBook`: threads, messages, lossy network |
| `Membership` | the peer tables and the choice of peers, under failing links and restarts |
| `WythoffScheduler` | the Wythoff schedule, round by round |
| `ClientHandler` | how a request is read, as operators on sequences of tokens |
| `TCPServer` | one node's server threads and shutdown on top of `CRDTOrderBook` |
| `Bridge` | the bridge's event loop with polls, replay and what the dashboard shows |
| `MC...` | instances for TLC, symmetry and bounds |
| `SetLemmas` | proved facts on finite sets: ranks, least members, induction, sums |
| `..._proofs` | the inductive invariants and the theorems of the module of that name |

They stack: `OrderBook` implements `PriceTimePriority`, which is made of the
operators of `LimitBook`; `CRDTOrderBook` uses those operators for the book of
each node; `Gossip`, `CRDTRestart`, `MessageCodec` and `TCPServer` extend
`CRDTOrderBook`, and `Gossip` is shown to implement it. `Membership` takes from
`WythoffScheduler` that every pair comes up again and again, and from
`CRDTOrderBook` that the delta to a node without gaps is complete.

A definition named `x_slip` is `x` with a plausible mistake (a dropped check, an
off-by-one, a forgotten update). The specifications do not use it. Put in place of
`x` it makes a run fail, which shows that the properties can notice: `PROJECT.json`
pairs every property with such a slip.

### OrderBook

`orders` is `orders_`; `levels["BUY"]` and `levels["SELL"]` are `bids_` and
`asks_`, maps from price to `[total_quantity, orders]`, where `orders` is the queue
of ids standing for `Order*`. Each public operation holds `mutex_` throughout and is
one action named as in the code, except `match_market_order`: that is its loop, one
`match_iteration` per pass of the inner loop, so that the invariants are checked
inside the loop too. `call` holds its arguments and locals (the iterator is `it`),
`fills` its result so far. While `call.running`, nothing else is enabled, as the
mutex is held. `answer`, `arrivals` and `before` are history: the fills of the last
market order, the ids in the order they were inserted, and the table when the
current match began.

`add_order` requires a new id: it is called with a fresh uuid.
`insert_replicated_order` and `apply_replicated_cancel` take any id in any state.
Prices and quantities are positive, which the client handler enforces
(`ValidOrdersOnly`). The branches of the code for the two sides are mirror images and
are one definition with the ladder's order (`Better`) as the parameter.

### CRDTOrderBook, CRDTRestart and MessageCodec

`book`, `clock`, `op_log`, `seen_ops` are the fields of each node; `issued`
counts the uuids given out. An operation is a record with the fields of
`Operation`, of which an order keeps id, side, price and quantity. One uuid names
both an order and the operation that adds it, where the code draws two. All public
methods are actions, whole: `local_cancel_order` ticks the clock even when the
order is already gone, as the code does, and `local_market_order` publishes
cancels for the fills that `has_order` no longer knows, which are none.

The network is `Deliver`: a node may apply any operation of another node's log.
Logs only grow, so whatever a message in flight may contain is in the sender's
log when it arrives; this covers every loss, delay, duplication and reordering.
`OnWire` is what serialization does to an operation: `write_double` truncates
the price. `Lossy` is the set of prices that lose a tick that way; 1.13, that is
11300 ticks, is one, and so is the 1.1299 it becomes.

`CRDTRestart` adds the end of a process and the start of the next: `main` makes an
empty book, log and clock under the old node id. The log of such a node is gone, and what
`Deliver` takes from it with it; `afloat` holds the operations of lost logs that are still
in datagrams, any part of the log (`restart`), until the last one with an operation is gone
(`Lost`). They arrive (`Arrives`) at any other node.

`MessageCodec` writes a message as a sequence of values with the number of bytes each
takes, because clocks are skipped by counting bytes. It reads the buffer as
`deserialize` does, field by field from a position. `WireKeepsMessages` shows that
`OnWire`, which the other modules use, is all that the wire does to a message.

### Gossip

`alive[n]` are the peers whose `is_alive` is set, `network` the datagrams in
flight, `handling[n]` the message the receive thread of `n` is busy with, `round[n]`
the round its gossip thread has begun. `receive`, `apply_next` (once per operation)
and `reply` are the receive thread; `do_gossip_round`, `send_round`, `heartbeat` and
`peer_timeout` the gossip thread; `Client` the local operations. A sent datagram may
be lost, a delivered one may stay and be delivered again. A push-pull round reads the
clock in `do_gossip_round` and the log in `send_round`, as the code takes the lock
twice; everything else may happen in between.

Two simplifications. Only messages that ask for something carry their clock, since no
receiver reads it in the others. The peer of a round is any that the strategy may pick
(any alive one for random and round robin, or any when all are marked dead; any at all
for Wythoff): which one it is, and how a peer is recognised, is the subject of
`Membership`.

### Membership and WythoffScheduler

`peers[n]` is `peers_`: entries with the id they go by, the node the address leads to,
and `is_alive`. `config` is what `main` read from the environment; nodes may share a host
in it. A message is matched to the first entry with its sender's id or source host, not
port, and overwrites the entry's id (`Heard`). `select_random_peer`,
`select_round_robin_peer` and `select_wythoff_peer` give the indices a node may turn to. A
round or heartbeat with the answer it gets is one step. A message from an entry taken for
dead makes the node ask at the entry's address for the delta (`Asks`), which need not be
the sender's if the host is shared; such `requests` are datagrams of their own, lost or
handled in `anti_entropy`. `partition` cuts any of the given sets of links, `heal` restores
them. `peer_timeout` may come over a cut link, to an entry that another one takes the
messages from, and, where `EarlyTimeouts` is set, at any time: 20 rounds fit in the timeout,
but nothing in the code says that one of them is for this node. Of the books only who has one
given update is kept, and a delta is complete: what a reused clock hides from it is the
subject of `CRDTRestart`.

`WythoffScheduler` steps through the rounds, with `pulled`, `pushed` and `coverage` as
history; `NextRound` is both `round_++` in `select_wythoff_peer` and the loop of
`coverage_matrix`. The golden ratio is 17711/10946, with which every floor and ceiling
is that of the irrational number for rounds below 10946.

### ClientHandler and TCPServer

A request is a sequence of tokens; a token is the word or the number that an extraction
would find. `handle` gives the set of calls a request may lead to: one, or several when a
variable it depends on was never written, which then has any value of `Garbage`. An
unwritten price, a `double`, may also be `NaN`, which no check by `<=` refuses; the model puts
it above all numbers. Once an order with that price is logged, `std::map` compares keys that
have no order, what the ladders do is undefined, and the client threads of the model end
(`Undefined`).
`TCPServer` has a thread per connection, which reads pieces of the client's script up to
a line end or the end of the connection and then calls `handler`; the accept thread; and
`main` from the signal through `gossip.stop()` and `tcp.stop()` to its return. STATUS and
METRICS read one figure per step (`report`), since each takes the lock anew.

### Bridge

`polls[n]` are the `pollNode` calls in flight, each with a BOOK and a STATUS request that
is sent, read by the node, or has a result: the whole answer, a part of it or null.
`timeout`, `end` and `error` are the callbacks of `sendTcp` with what follows them in
`pollNode`; `nodeAlive` and `replay` are the variables of that name, `intervals` the
intervals that are armed, `view` what the dashboard shows. A node's book is its version
since the node started. `crash`, `start`, `order_arrives` and `node_runs` are the node as
the bridge meets it.

## The runs

All bounds are in the `.cfg` files. Each run finishes within about three minutes.

| Run | Instance | Shows |
|---|---|---|
| `book` | 3 orders, prices 1 and 2, quantities 1 and 2 | types; `IndexConsistent`; `TotalsExact`; `SnapshotShowsTheBook`; `FillsRespectPriority`; `OrdersNeverComeBack`; the refinement `ImplementsPriceTimePriority` |
| `crdt` | 3 nodes, 3 client actions, market orders, two lossy prices | `NoOperationTwice`; `ClocksMeasureCausality`; `AntiEntropyComplete`; `BookFollowsLog`; `CausalNodesAgree`; `PriceDriftBounded`; `WireKeepsMessages` |
| `gossip` | 2 nodes, random strategy, 2 operations, 2 datagrams in flight | `OperationsArriveInOrder` |
| `gossip_liveness` | 2 nodes, Wythoff strategy, 2 operations, market orders, fair links | the same with clients on both nodes; `UpdatesPropagate`; the refinement `ImplementsReplication` |
| `membership` | 3 nodes, 4 configurations, any links, 2 failures or restarts, timeouts at any time | `PartitionsHeal` |
| `membership_hosts` | 3 nodes, two on one host or one called by its address, any links, 1 failure or restart, timeouts at any time | `EntriesNameTheirHost` |
| `wythoff` | 2 to 6 nodes, 10000 rounds | `EveryPairBothWays`; `UniformCoverage`; `PullsSkipAPair` |
| `server` | 2 clients with 4 scripts each | `CommandsAsWritten`; `ValidOrdersOnly`; `ReportsAddUp`; `StalledClientsHoldUpNobody`; `ShutdownCompletes` |
| `bridge` | 1 node, 2 polls in flight, 1 bar, seeks to 0 and past the end | `OneInterval`; `ReplayUndisturbed`; `DashboardCatchesUp`; `DeadNodesNoticed`; `ReplayEnds` |

One run of each module also checks its type invariant.

Why the bounds are enough.

- `book`: three orders at two prices give a queue of three, a queue of two beside another
  level, and three levels over both sides; quantities 1 and 2 give partial fills, exact
  fills, a fill across orders and a fill across levels.
- `crdt`: three nodes and three actions give an operation that reaches a node through a
  third one, concurrent operations, an order whose add and cancel travel apart, a
  duplicate cancel by two nodes, and a tick that belongs to no operation. `OnlyTopBids`
  lets clients buy at the one price that loses a tick on each of two hops; prices and
  sides do not matter to clocks and logs.
- `gossip`: two operations give overlapping pushes, a request racing a push, and
  duplicates that arrive after what followed them; two datagrams in flight are the least
  that can be reordered. Its constraints cut what adds states and no order of arrival:
  clients only buy, at one node (`OnlyBids`, `OneTrader`); heartbeats are left out, since
  any message revives its sender (`NoHeartbeats`); one node at a time suspects the other,
  one at a time is inside a round (`OneSuspects`, `OneRound`); and nothing is explored
  after every operation has arrived (`Unsettled`), when nothing is applied any more.
  `gossip_liveness` has clients at both nodes, heartbeats and mutual suspicion, with one
  datagram in flight.
- `membership`: with three nodes any set of links may fail, so a node can be cut off, lose
  one link, or all can; two failures let a second partition or a restart meet tables that
  the first has left behind. One configuration calls a node by its address, so that ranks
  computed at the start and ids learnt later disagree. Requests for the delta are all lost
  (`MaxRequests` is 0): nothing obliges them to arrive, and what one does to the tables and
  the update a heartbeat and a round do too.
- `membership_hosts`: two nodes at one host and one elsewhere are the least with which a
  message can be matched to the wrong entry and its id could wander to another host. One
  request in flight is what goes to the wrong address.
- `wythoff`: the code's cluster has 5 nodes. `MaxLaps` and `MaxSpread` are what these
  10000 rounds keep to; they are bounds on the schedule, not taken from the code.
- `server`: the scripts cover every command, missing numbers, a second line in the same
  request, and hang-ups inside every token. Values found in unset variables are one that
  passes the checks, one that does not, and, for a price, NaN.
- `bridge`: nodes are polled independently, so one is enough; two polls are the least that
  can overtake each other. One bar with a speed of 2 clamps the last tick, and the end of
  the data is reached from the start and by seeking.

`FewActs` in `crdt` and `gossip_liveness` caps ticks of the clocks. A liveness property
checked under a constraint is checked for the behaviours that stay within it; as clients
are never obliged to act, these are all behaviours with no more actions than that.

### Fairness

- `Gossip`: the receive thread keeps going (`apply_next`, `reply`: `receive_loop` and
  `handle_message` have no other exit), and no link fails for ever: each node hears rounds
  of each other again and again. That combines what the code does, a round every
  `gossip_interval_ms` for as long as the node runs, with what has to be assumed of the
  network and of the choice of peers: with two nodes the one peer is always eligible.
  Nothing is assumed of clients, heartbeats, timeouts, pulls or requests for the delta, so
  what arrives arrives by rounds alone.
- `Membership`: every node takes rounds (`gossip_loop`); a random choice comes to every peer
  it may pick, and the Wythoff schedule to every peer it may pick with a push
  (`EveryPairBothWays`); partitions end. Round robin is given no choice at all: its next
  peer is determined. Restarts, failures, requests for the delta and heartbeats are never
  obliged to happen.
- `TCPServer`: the accept thread and `main` keep going, since `accept` times out after a
  second and `main` polls its flag; a client thread keeps going once its client has sent
  everything or hung up. Clients need do nothing.
- `Bridge`: the interval of the polls fires, and so does each interval of a replay, unless it
  is cleared: the fairness is that of one handle (`replayTick(i)`), and one that is cleared
  and armed again under another handle may never have fired. `setReplaySpeed` does that, so
  `ReplayEnds` assumes in its statement that from some time on nobody changes the speed or
  the position. A connection makes progress until its timer fires, which the
  timer guarantees. Users, crashes and starts are free, and `DashboardCatchesUp` assumes in
  its statement that nodes stay up and that, from some time on, no timer fires.
- `OrderBook`, `CRDTOrderBook`, `CRDTRestart` and `WythoffScheduler` assume none.

### Where the code does something else than its documentation says

Each of these runs checks one statement of a comment or the README, and TLC finds a
behaviour of the code that breaks it.

| Run | Statement | What happens |
|---|---|---|
| `crdt_restart` | `README.md:79`, "the recovering node requests the full operation delta from its neighbors" | a node that takes an order before it has caught up counts a tick it had used before the restart; the operation of that tick is in no delta for it |
| `gossip_window` | `README.md:3`, "Updates propagate through the network" | an operation that left the push window before it was heard never arrives; the clock of a later operation hides it from the delta |
| `membership_halves` | `README.md:3`, "Updates propagate through the network until all nodes converge to the same book" | four nodes cut into halves for longer than the peer timeout never meet again under the random strategy: each half has a peer alive and turns only to that. Three nodes cannot be cut so that both parts keep an alive peer, and `membership` shows that they heal |

`gossip_window` needs a log that outgrows the push window between two rounds a peer
hears. The window is 20 operations in the code (`gossip_engine.cpp:152`) and the
constant `MaxGossipOps` here; this run sets it to 1, so that 2 operations outgrow
it, where `gossip` and `gossip_liveness` set it to 2. The pair shows that the window is
what the protocol's correctness rests on.

Met while modelling, and not the subject of a run:

- `local_market_order` publishes a cancel for a filled order only if the book has forgotten
  it (`crdt_orderbook.cpp:67`), and the book forgets none. So the comment above it,
  "Generate cancel ops for fully filled orders so other nodes learn about them", is not true
  of the code: a filled order stays on all other nodes, and can be filled there again.
- Where nodes share a host (`SEED_PEERS` is a list of `host:port`), the first entry for it
  takes the messages of all of them (`gossip_engine.cpp:191`) and goes by the id of whoever
  sent last. A request for the delta that follows then goes to the wrong node. All that is
  left to say of an entry's id is `EntriesNameTheirHost`.
- A request that ends before its price leaves a `double` unwritten (`client_handler.cpp:19`).
  If that is a NaN, `price <= 0` (line 29) is false of it, and the order is taken if the
  unwritten quantity happens to be positive. `ValidOrdersOnly` allows for just this.
- Orders of one price queue as they arrive on each node (`orderbook.cpp:186`);
  timestamps are carried and not used, though `README.md:69` says "conflicts are resolved
  by timestamp with node ID as tiebreaker". Two nodes with the same operations may fill
  orders in different orders. They hold the same orders in the end (`CausalNodesAgree`).
- A price that loses a tick on the wire (`message.cpp:36`) differs between nodes for good;
  `PriceDriftBounded` says by how much at most.
- A cancel that overtakes its order, which a push window too small for both permits, is
  dropped and marked as seen, and the order then rests for good.
- A node that dies during a replay is recorded as dead without telling the dashboard
  (`index.js:507`), which goes on showing it alive after the replay. A node that accepts
  connections and never answers counts as alive.
- The comment at `index.js:487` says that polling happens "only when not replaying";
  polls go on, and only their results are held back (`ReplayUndisturbed`).

## The proofs

TLC shows a property on an instance; the theorems below hold for every value of the
constants that the assumptions allow. Every safety property that a run checks is proved,
except two, named below. The proofs of a module are in `<module>_proofs`, those of
`VectorClock`, `CRDTRestart` and `MessageCodec` in `CRDTOrderBook_proofs`.

| Module | Theorem | States | Property |
|---|---|---|---|
| `OrderBook` | `TypeCorrect` | types; nothing is filled beyond its quantity | `TypeOK` |
| | `IndexesAgree` | table and ladders hold the same live orders, inside a match too | `IndexConsistent` |
| | `TotalsAreExact` | every cached total is the sum of its queue | `TotalsExact` |
| | `PriorityRespected` | a fill goes to the order nothing precedes | `FillsRespectPriority` |
| | `NoOrderComesBack` | what is filled or cancelled stays so | `OrdersNeverComeBack` |
| | `SnapshotsAreTrue` | a snapshot of any depth shows the best levels and what rests there | `SnapshotShowsTheBook` |
| | `BookKeepsItsPromise` | `OrderBook` implements `PriceTimePriority` | `ImplementsPriceTimePriority` |
| `VectorClock` | `BeforeIsAnOrder` | happens_before is a strict order | |
| | `MergeIsAJoin` | merge is the least upper bound, in any order and any number of times | |
| `CRDTOrderBook` | `TypeCorrect` | types | `TypeOK` |
| | `AppliedOnce` | no operation is in a log twice | `NoOperationTwice` |
| | `ClocksAreCausal` | happens_before is causality | `ClocksMeasureCausality` |
| | `DeltaIsComplete` | the delta leaves out nothing a node without gaps lacks | `AntiEntropyComplete` |
| | `CancelledForGood` | a book is what its log says | `BookFollowsLog` |
| | `ReplicasConverge` | nodes that know the same operations hold the same orders | `CausalNodesAgree` |
| | `DriftIsBounded` | a price loses at most one tick per other node | `PriceDriftBounded` |
| `CRDTRestart` | `RestartsKeepBooks` | logs and books are right after restarts too | `TypeOK`, `NoOperationTwice`, `BookFollowsLog` |
| | `DeltaAfterRestart` | a node that caught up before it traded is sent all it lacks | `AntiEntropyComplete`, `DeltaIsFull` |
| `MessageCodec` | `WireIsFaithful` | the reader gets what was written, but for prices | `WireKeepsMessages` |
| `Gossip` | `GossipTypeCorrect` | types | `GossipTypeOK` |
| | `GossipReplicates` | the engine implements `CRDTOrderBook` | `ImplementsReplication` |
| | `ArrivalWithinWindow` | operations arrive in causal order | `OperationsArriveInOrder` |
| | `EnginesConverge` | engines that know the same operations hold the same orders | |
| `Membership` | `MembershipTypeCorrect` | types | `TypeOK` |
| | `EntriesStayAtTheirHost` | an entry keeps the name or the id of a node at its host | `EntriesNameTheirHost` |
| | `NeverSplitForGood` | no failures leave groups that ignore each other | (`NoLastingSplit`, no run) |
| `WythoffScheduler` | `ScheduleTypeCorrect` | types | `TypeOK` |
| | `OneCandidateIsEnough` | `is_in_beatty_phi` decides membership in the Beatty sequence | |
| | `PullsAlwaysSkip` | a pull skips one pair, a push none | `PullsSkipAPair` |
| `TCPServer` | `ServerTypeCorrect` | types | `ServerTypeOK` |
| | `ServerKeepsABook` | the server's steps are steps of `CRDTOrderBook` until a price is no number | |
| | `ValidOrders` | no order with a price or quantity of zero or below; none whose price is no number but where none was written | `ValidOrdersOnly` |
| | `ReportsTrue` | the figures of STATUS and METRICS agree | `ReportsAddUp` |
| | `CommandsWritten` | one operation per OK, and the order the client wrote | `CommandsAsWritten` |
| `Bridge` | `BridgeTypeCorrect` | types | `TypeOK` |
| | `ReplayHasOneInterval` | a running replay has one interval, a stopped one none | `OneInterval` |
| | `ReplayIsUndisturbed` | late polls do not put real books among a replay's | `ReplayUndisturbed` |

### What is assumed

Prices and quantities are positive naturals (`PriceAssumption`, `QuantityAssumption`);
the client handler sees to that, which is `ValidOrders`, unless a price is never written.
The sets of nodes and of
connections are finite. `LossyAssumption` says that a price that loses a tick is still a
price. `HostsAssumption` says that a seed list calls no node by the name or the address of
another host; nodes may share one. `NaNAssumption` and `GarbageAssumption` put NaN above
every number a client writes or a variable holds. The golden ratio
of `WythoffScheduler` is good for rounds below its denominator and clusters of 2 to 46 nodes
(`RoundAssumption`, `NumNodesAssumption`). A script of a client has the end of a line in it
(`ScriptsAssumption`), since one without is read until the client leaves. A `TCPServer` is
that of one node.

Some theorems have a hypothesis of their own, and for each a run shows or the code says
why.

- `ArrivalWithinWindow` and `EnginesConverge` have `[][PushesSuffice]_<<vars, engine>>`: no
  push goes out to a node that lacks an operation the push leaves out. `gossip_window`
  shows that an operation may be lost for good without it. Nothing in the code sees to it:
  it holds of a peer that has every operation but the sender's last 20, and of one that was
  away for longer only if a delta reaches it before the next push does.
- `DeltaAfterRestart` has `[][TradesCaughtUp]_vars`: a node takes commands of its clients only
  while its clock counts every tick of its own that an operation in a log or a datagram
  counts. The code accepts clients at once, and `crdt_restart` shows what comes of it.
- `NeverSplitForGood` has more than two nodes, each on a host of its own (`OwnHosts`), and the
  Wythoff strategy in every configuration. `membership_halves` shows that four nodes can be
  split under another. Two nodes that share a host may go by the same id in a table, and
  the schedule then knows one of them only.
- The theorems on `TCPServer` have `AnyNumber`: `Price` and `Quantity` are all positive
  numbers, as a client may write any. NaN is one of them, as the checks do not tell it from
  one. `ServerKeepsABook` has `[]~Undefined`, that no order with this price is taken.

### The order book

`TypeCorrect`, `IndexesAgree`, `PriorityRespected` and `NoOrderComesBack` rest on one
inductive invariant, `IInv`. To `TypeOK` and `IndexConsistent` it adds what makes them
inductive and what the priority of fills needs:

- `ArrivalsListOrders`: the history lists every order of the table once;
- `QueuesInArrivalOrder`: every queue is sorted by arrival, so its front is the
  earliest order of its price;
- `LaddersSearchable`: every nonempty set of a ladder's prices has a best one, so
  that `begin()` and `++it` exist (the set of prices may be infinite);
- `IteratorAtBest`: while a match has quantity left, its iterator is at the best
  level of the ladder it walks, because every level before it has been erased.

`StepKeepsInvariant` has one lemma per kind of step: insertion, cancellation, the
start of a match, an iteration, its return. Cancellation and an iteration that uses
an order up both take an order out of its queue and share `RemovalKeepsBook`.
`PriorityRespected` follows from the last two parts of `IInv`: the order an
iteration fills is the front of the best level. `NoOrderComesBack` needs
`IndexConsistent`, so that an iteration never fills an order that is not live.

`TotalsExact` is inductive together with `IInv`: a step changes one summand of one level
and the total by as much (`SumChanges`). `SnapshotsAreTrue` adds up the summands of a level
in two orders, that of the queue and that of the table.

The refinement maps the table to the abstract book (`BookValue`): during a match to the table
as it was `before`, so that the match takes effect at once when it returns. Its invariant is
`MatchFollowsPriority`: the fills so far are the first fills that priority gives, the table is
that of before less those fills, and as long as quantity is left everything filled so far is
exhausted. `MatchIsComplete` concludes that a match that returns has filled what
`PriceTimePriority` says, and `FillReflects` that the book is then what it says.

### The replicated book

`TypeOK` needs that clocks and logs hold only operations that were issued (`Shape`,
`IdsIssued`). The rest of the argument has three parts.

- Causality. Copies of an operation differ in the price at most, so `CausalInv` is about
  stamps, what they share. A clock that counts an operation counts all that the operation's
  own clock does; nobody counts more of a node than it does itself; and a node counts an
  operation of another only because some operation it has did (`Learnt`). `ClocksAreCausal`
  and `DeltaIsComplete` follow.
- Drift. An operation has lost no more ticks than it has holders besides its origin
  (`DriftInv`): each delivery adds a holder, and truncation takes one tick at most.
- Convergence. A cancel happens after the add of its order (`OrderInv`), so a log in causal
  order has the two in this order. A market order, and a cancel of what is already gone, tick
  the clock and publish nothing; such a tick never gets an operation (`TicksInv`), and a node
  without one keeps every order that its log adds and does not cancel afterwards (`KeepInv`).
  Two nodes that know operations of the same ids have copies of them that differ by ticks at
  most (`CopiesInv`, `CopiesNearby`), so two such nodes keep the same orders.
- Restarts. A node that has lost its log no longer counts all that its operations elsewhere
  count, so `CausalInv` does not survive. What does is `RestartInv`: no two operations share
  an id or count each other, a clock that counts an operation counts all that the
  operation's does, and what a node counts, even of itself, an operation in its log does.
  A tick of a node that has `CaughtUp` is one nobody has counted, which keeps it so; a tick
  used twice makes two operations that count each other. Being caught up is about `afloat`
  too: an operation of an earlier life that only a datagram still carries counts as well.

### The wire

`WireIsFaithful` is about positions. What lies in a buffer lies there one part after the other
(`Holds`, `HoldsParts`, `HoldsAll`), so each field of a clock, an operation and a message
is found where the reader looks for it. A reader gets past a clock by its size in bytes: every
field has at least one, so the bytes up to a position grow with it and only one position fits
(`SkipsOver`). The operations follow by induction, each starting where the one before it
ended. A clock is read back only if it has its node's key, since the reader puts that in:
`OwnKeys` says so of the nodes' clocks, `CausalInv` of those of operations. The functions
that the model defines by recursion, and that a `CHOOSE` therefore stands for, exist by
`Recursion`.

### The gossip engine

`GossipShape` says that whatever is in flight or in a handler was taken from its sender's log,
so that applying it is a `Deliver` of `CRDTOrderBook`; `GossipReplicates` then goes action by
action. `ArrivalWithinWindow` rests on `OrderedInv`: logs are in causal order (`InOrder`); a message
with operations carries, for each of them, what came before it, unless its receiver has that
already (`Carries`); and a request shows a clock that its sender still covers (`Asked`), so that
what the answer leaves out the receiver has. The push window is a tail of the log, so a push
carries what came before its operations as far as the window goes, and `PushesSuffice` says
the receiver has the rest (`RecentFollows`). What the receiver has when the datagram is made it
still has when it arrives. `EnginesConverge` puts this and `Convergence` together:
`ReplicasConverge` takes causal delivery as a premise, and the engine provides it.

### The peer tables, the schedule, the server, the bridge

- `Membership`: `MembershipInv` says that a table keeps the addresses it was made with, and that
  each entry goes by the name of its host or by the id of a node there: a message that is
  matched by its host comes from there, and one that is matched by its id meets an entry
  that has that id for the same reason (`HostIds`). For `NeverSplitForGood`: the Wythoff
  schedule leaves out at most one peer, so whoever has two nodes or more on the other side
  turns to one of them, and of three nodes or more somebody does.
- `WythoffScheduler`: `PullsAlwaysSkip` is arithmetic on floor and ceiling of a rational.
- `TCPServer`: `ConnInv` ties each thread to what its client has sent. `ReportInv` says which
  figures a report has got so far, in the order in which it gets them (`FieldsGot`), and how
  those that are there go together, with each other and with the log (`FiguresAgree`).
  `CommandsAsWritten` is inductive with them, and so is `NaNsExcused`, that each order whose
  price is no number has a client who left the price out: a first line of three tokens is
  read whole unless the client breaks off (`FirstLineIsRead`), and a price that was read
  is a number (`WrittenPriceIsNumber`).
- `Bridge`: `BridgeInv` is `TypeOK` with `OneInterval`.

`SetLemmas` holds what several of them need: the members of a finite set of integers have the
ranks 1 to n; induction over numbers and over the parts of a finite set, stated over a set where
the library's theorems take an operator; and that the community modules' sum over a finite set,
which is a recursive function, exists, and how it changes with its summands.

### What is only model-checked

- `EveryPairBothWays` and `UniformCoverage`: they depend on the numbers the schedule gives in
  the 10000 rounds of the run, and their bounds are those of that run.
- Everything under fairness, which is out of the prover's reach: `UpdatesPropagate`,
  `PartitionsHeal`, `StalledClientsHoldUpNobody`, `ShutdownCompletes`, `DashboardCatchesUp`,
  `DeadNodesNoticed`, `ReplayEnds`.

`NoLastingSplit` is the other way round, proved and in no run: with three nodes a node alone on
one side of a split decides it, so it says something from four nodes on, where
`membership_halves` shows that it takes the Wythoff strategy.

## Not modelled

- Logging, uuid generation (taken to give distinct ids), formatting of responses and
  their parsers in the bridge, CSV loading, container setup, scripts other than the
  partition: they hold no state that the other parts depend on. The numbers of a
  synthetic book and the rendering of the dashboard are pure output.
- The dashboard hook's reconnect: at most one socket exists at a time, and its cleanup
  marks the hook dead before it closes it.
- Malformed datagrams and `Reader::check`: every datagram here was written by `serialize`.
- A sum of quantities beyond 64 bits: quantities are natural numbers, in the proofs too.
- Doubles: all arithmetic of the schedule is exact here, so nothing is checked of how the two
  products `round * PHI` and `k * PHI` are rounded; a double first gives another integer beyond 100
  million rounds, which is 4 months at 10 a second. `get_phase_offset` only sets how long a
  node sleeps.
- What the ladders do once they hold a price that is no number: `std::map` with keys that
  have no order. `TCPServer`'s client threads end there, and the other modules have prices
  that are numbers.
- What detached client threads do after `main` has returned: they use a destroyed book,
  which has no meaning to model. `TCPServer` ends there.
- Growth of `op_log_` and `orders_`, which the code accepts.
