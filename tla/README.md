# A formal model of the trading engine

TLA+ modules, TLC configurations and TLAPS proofs for the matching engine in
this repository. The modules are translated from the C++ source; source paths
below are relative to the repository root.

## 1. The system

| Component | State | Operations | Interacts with | What makes it correct |
|---|---|---|---|---|
| `OrderBook` | two sorted vectors of price levels, each with a queue of orders; STP policy; trade id counter | `addOrder`, `cancelOrder`, `replaceOrder`, `matchOrder`, `applyFill`, queries | owned by one `MatchingEngine`; orders live in `OrderPool` | never crossed, price-time priority, no quantity lost or invented, FOK all or nothing, no self trade under STP |
| `OrderQueue`, `OrderPool` | pointer array with head and tail; slots, free list, allocation bitmap | `push_back`, `pop_front`, `erase_at`, `at`; `allocate`, `deallocate` | every queue of a book shares one pool | a queue is a sequence; no slot leaks or is freed twice |
| `MatchingEngine` | state (READY, RECOVERING, HALTED), priority counter, sequence counter | `processOrder`, `cancelOrder`, `replaceOrder`, `restore*`, `applyFill` | calls the book, then publishes events to `MarketDataPublisher` (and so to `Journal`) | what is announced is what happened; priorities are never reused |
| `RingBuffer` | slots, `head_`, `tail_` | `push` (producer), `pop` (consumer) | between `submitOrder` and `consumerLoop` | FIFO, no data race on a slot |
| `ConcurrentMatchingEngine` | `running_`, thread, mutex, counters, policy | `start`, `stop`, `submitOrder`, `consumerLoop` | ring and engine | accepted orders are handled once, in order; stop drains and returns |
| `ShardedMatchingEngine`, `SymbolTable` | shards, symbol to shard map, frozen flag | `registerSymbol`, `freeze`, `startAll`, `stopAll`, `submitOrder` | one `ConcurrentMatchingEngine` per shard | an order reaches the shard of its symbol, and symbols do not mix |
| `Journal`, `JournalRingBuffer` | record ring, writer thread, counters, health, file | `onEvent`, `flush`, `sync`, writer loop, fail-stop | subscriber of the publisher; read by `Recovery` | what `flush` reports is written; failure stops the engine |
| `Recovery` | last sequence, largest priority, counts | `replay` | calls `restoreOrder`, `restoreCancel`, `applyFill` of a new engine | the recovered book is the book before the crash |
| `ShardedJournalManager` | one journal and one sequence counter per shard | open, `recoverShard`, `syncAll` | `Journal`, `Recovery` | a recovered shard goes on with the next sequence number |
| `RiskEngine` | limits, reference prices, positions, reservations | `validate`, `validateReplace`, `on*`, `restore*` | called around the matching of an order; not wired to the engine yet | it agrees with the book, bounds exposure, and restoring reproduces it |
| `TradeLogger` | bounded queue, worker, flags | `log`, `stop`, worker loop | receives trades | accepted trades are written; `stop` returns |
| `MarketDataPublisher` | copy-on-write subscriber list | `subscribe`, `unsubscribe`, `publish` | engine to journal | every subscriber sees every event in order |

Hard behaviours: replaces that interact with partial fills and with self-trade
prevention; the matching loop modifying the containers it walks; pool
exhaustion; two lock-free rings; start and stop against a running producer;
flush against the writer; crashes between the events of one operation and in
the middle of a record. `PROJECT.json` lists each with its line under
`hazards`.

## 2. Modules

| Module | Models | Status |
|---|---|---|
| `OrderBook` | `src/OrderBook.cpp`, `include/OrderBook.h`, `Order.h`, `Trade.h` | complete with `Recovery` (`applyFill`) |
| `MatchingEngine` (extends `OrderBook`) | `src/MatchingEngine.cpp`, `include/MatchingEngine.h` | with `Recovery` (the recovery entry points) all but the unhealthy journal in `isHealthy` |
| `MCMatchingEngine` | symmetry for TLC | |
| `MatchingEngineProofs` | theorems about the two | every property of the two runs but `MatchingEnds`, and the argument for that |
| `OrderQueue` | `include/OrderQueue.h`, `include/OrderPool.h` | complete |
| `PooledQueues` | what the queues promise: sequences with a common limit | abstract |
| `MCOrderQueue` | symmetry for TLC | |
| `OrderQueueProofs` | theorems about the queues and their refinement | every property of the run |
| `RingBuffer` | `src/RingBuffer.cpp` | complete |
| `BoundedFifo` | what a ring promises: a bounded FIFO queue | abstract |
| `ConcurrentMatchingEngine` (extends `RingBuffer`) | `src/ConcurrentMatchingEngine.cpp` | complete |
| `ConcurrentMatchingEngineProofs` | theorems about the ring and about the engine on it | every safety property of the run |
| `ShardedEngine` | `src/ShardedEngine.cpp`, `include/SymbolId.h` | complete |
| `ShardedEngineProofs` | theorems about routing and order | every property of the run |
| `JournalRing` | `src/JournalRingBuffer.cpp` | complete |
| `Journal` (extends `JournalRing`) | `src/Journal.cpp` | complete but for the bytes of a record |
| `DurableLog` | what a journal promises: the file is a gapless prefix of the events | abstract |
| `JournalProofs` | theorems about the journal and its refinement | every safety property of the run |
| `Recovery` (extends `MatchingEngine`) | `src/Recovery.cpp`, recovery in `src/MatchingEngine.cpp`, `OrderBook::applyFill`, `recoverShard` | complete |
| `RecoveryProofs` (extends `MatchingEngineProofs`) | theorems about the engine with its journal, crashes and recovery | every property of the run |
| `MCRecovery`, `MCRiskEngine` | symmetry for TLC | |
| `RiskEngine` | `src/RiskEngine.cpp` | all but the price band |
| `RiskEngineProofs` | theorems about the risk engine | every property of the run |
| `TradeLogger` | `src/TradeLogger.cpp` | complete |
| `TradeLoggerProofs` | theorems about the logger | every safety property of the run |

### Book and engine

`book[side][price]` is the queue of a level, oldest order first. The code keeps
a sorted vector of levels and erases a level with its last order, so "level
exists" is "queue is not empty" and `front()` is the best such price. Queues
are sequences, which is what `OrderQueue` is shown to implement.

An operation is one call on one thread; the model cuts it into the places
`pc = idle, begin, purge, match, done`, one step per loop iteration:

- `ProcessOrder`, `CancelOrder`, `ReplaceOrder` start an operation: health
  gate, search, priority value, and for a replace one of its four cases
  (refused, cancel, reduced in place, erased and matched again).
- `RejectFOK`, `EnterLoop`, `StpCancelNewest`, `StpCancelOldest`,
  `StpCancelBoth` are the exits of the gates in front of the loop; `PurgeOwn`
  and `PurgeEnd` are CANCEL_BOTH erasing own orders one by one.
- `PopFilled`, `ExecuteTrade`, `TradeThrows` and `EndMatch` are the loop. In
  `TradeThrows` the `Trade` constructor refuses two equal ids after both
  quantities were reduced.
- `PublishEvent` hands one event to the publisher, `Return` ends the operation.
- `PriorityExhausted` is the end of the priority counter, which halts the engine.

`isHealthy` also asks the journal (`src/MatchingEngine.cpp:34`); that clause is
left out, so the engine of the model takes orders which the code refuses once
its journal has failed.

`filled` and `used` are ghost variables. A call that the code refuses without
changing anything is a stuttering step. Prices are integers in units of
`1 / SubTick` tick; `doubleToTicks` keeps the rounding of the code.

### Queues and pool

Pointers are slot numbers. `push_back` compacts or grows the array before it
allocates, as the code does, so that a push that throws has still moved the
array. Compaction leaves stale pointers behind the tail, as `std::move` of raw
pointers does. `OrderBook` relies on the refinement to `PooledQueues` (queues are
sequences with a common limit; a push that throws changes none of them) and, for
`addOrder` failing only when the book holds `PoolCapacity` orders, on `NoLeak`:
the slots in use are exactly those held by a queue.

### Ring and concurrent engine

`push` and `pop` are cut at each access to what the other thread touches: the
load of the other index, the copy of the slot, the store of the own index. The
other index is loaded with acquire and stored with release, so a load that
returns an older value is a load that happened earlier in the interleaving.
`ConcurrentMatchingEngine` conjoins these steps with `submitOrder` and
`consumerLoop`; `running_`, `policy_` and the mutex are separate steps, so that a
stop can come between any two of them. `processOrder` is a step that is counted
(it returned) or not (it threw). `accepted`, `handled` and `due` are ghosts.
`stop` called from the consumer thread is not modelled: nothing the consumer
runs can call it, because the engine inside is private and has no publisher.

### Sharded engine

The owner registers symbols, starts the shards and stops them one by one; a
client submits. A shard is what `ConcurrentMatchingEngine` and `RingBuffer` are
shown to be: a bounded queue, a consumer that drains it before it is joined,
and a `running_` flag that is read before the push. `submitOrder` is therefore
two steps (`SubmitRouted`, `Push`), and an order pushed into a stopped shard
waits there for the next start. A shard's book knows no symbols; one price and
quantity 1 are enough to see who trades with whom.

### Journal

`JournalRing` has the same shape as `RingBuffer` with the other way of telling
full from empty: free-running unsigned counters, reduced to a slot on access, and
every slot used. Their difference is taken modulo `Modulus` (2^64 in the code).
`Start` lets a behaviour begin just before the counters wrap.

`Journal` conjoins its steps with the threads that use it. The engine thread is
in `owner`: `idle`, `push` (inside `tryPush`), `full` (about to fail-stop),
`count` (the ring has the record and `queued_records_` does not count it yet).
The writer is in `writer`: `test` (the predicate of `queue_cv_`), `asleep`,
`pop`, `write`, `count`, `notify`, `fail`, `exit`. Each flushing thread is in
`caller[f]`. What is done under `flush_mutex_` or `file_mutex_` is one step; the
flag `flush_waiter_present_` is set, cleared and read outside the mutex and has
steps of its own. A condition variable is what a notification does: a sleeper
tests again, anyone else misses it. Writes may fail before or after some bytes,
and `fdatasync` may fail. The destructor runs when every other call has
returned, as destructors must.

The refinement `JournalIsLog` maps this to `DurableLog`: events are accepted or
dropped in order, nothing is accepted after a drop, and the file is a prefix of
what was accepted. A record in the ring counts as accepted before
`queued_records_` does.

### Recovery

`Recovery` runs the engine of `MatchingEngine` with a journal as its subscriber:
`Journalled` is `PublishEvent` with the record it appends and the sequence
number it takes. From `Journal` it takes that a crash leaves a prefix of the
records, perhaps with a torn one behind it; `Crash` keeps any prefix. `replay`
works alone on a new engine, so it is one step: `processRecord` for one record
after the other. The journal reopens the file behind a torn record without cutting
it off, so the bytes of that record run into the next ones; `Replays` gives
every outcome. A recovered engine goes on, and may crash again. The ghost `filled`
starts again with what the recovered orders had traded.

### Risk engine

The program does not call the risk engine yet. The order of its calls is the
lifecycle its header prescribes (`include/RiskEngine.h:51-63`), and their
arguments are the events of the engine: `Replace` is a cancelled event with what
was left, then trades, then an accepted event. `live` follows the `on*` calls and
`replayed` the `restore*` calls for the same events; `Restart` puts the second in
the place of the first. `positions` has a zero entry where the code has none.

The book is that of `src/OrderBook.cpp` without prices and with self-trade
prevention off: which orders meet, and whether a replace keeps its price, is
open. A replace that lowers the quantity at the same price keeps the order in
its place (`inPlace`), also with nothing left (`KeepEmpty`); matching drops such
an order when it comes to it (`PopEmpty`), without an event. So the book and the
risk engine do not hold the same orders: `TracksBook` is about the orders with
something left, and `checkInvariant`, which counts all (`src/RiskEngine.cpp:546`),
is false while there is another one. Cancelling it publishes quantity 0, which
`applyCancelled` does not accept: the live call returns false and changes
nothing, the restore call marks the engine corrupt. The ghost `voided` says that
this has happened; `RestoreReproduces` says that nothing else corrupts the
restored engine. All calls test `state_corrupt_` first, so the model does not
keep what a corrupt engine holds (`CorruptEngine`). Allocation is assumed not to
fail.

### Trade logger

What `log`, `stop` and `workerLoop` do under `mtx_` is one step each. `cv_` is
modelled by what a notification does: a worker that sleeps tests its predicate
again, and a notification to a worker that does not sleep is lost. `file_` is a
buffered `ofstream`: a write puts the trade in `buffered` and any part of that
into `file` (`Spill`); the flush of `stop` empties it. A write may fail at any
time, which sets `error_`, and so may the flush (`StopFlushFails`), which does
not: the stream does not throw, so the handler at `src/TradeLogger.cpp:62` is
never reached. `StopDrains` therefore speaks of the state of the stream (`bad`).
`stop` has one caller at a time (the owner, then the destructor). After a write error with trades still queued the worker
goes round its loop for ever: the inner loop stops at the error, and no exit is
taken while the queue is not empty. `stop` then never returns from `join`;
`LoggerStops` and `LoggedEventually` therefore speak of behaviours without a
write error.

## 3. Runs

| Run | Checks | Shows |
|---|---|---|
| `engine_none` | `TypeOK`, `BookUncrossed`, `FilledMatchesTrades`, `RestingUnique`, `SweepOrdered`, `QueuesAreFIFO` | the book without STP, quantities up to 3 (a partly filled order can be reduced in place, reduced to what it filled, and refused), up to the last priority value |
| `engine_stp` | `NoSelfTrade`, `FOKAtomic`, `AcceptedRests`, `MatchingEnds` | two traders, the policy changed at any time, ids reused (so the `Trade` constructor throws in the middle of matching), a pool smaller than the number of orders |
| `queues` | `NoLeak`, `QueuesAreSequences` | two queues on three slots: growth, compaction, erasure, exhaustion |
| `concurrent` | `NothingLost`, `NeverTerminates`, `NoSlotRace`, `RingIsFifo`, `DrainOnStop`, `StopReturns`, `SubmitReturns` | two controllers, one producer, every policy, restarts, over the step-level ring |
| `sharded` | `SymbolIsolation`, `SymbolOrder` | two shards, up to three symbols, restarts, a client that submits all the time |
| `logger` | `LoggedInOrder`, `StopDrains`, `LoggedEventually`, `LoggerStops` | two logging threads, a full queue, write errors, a flush that fails, stop and a second stop |
| `journal` | `NoJournalSlotRace`, `FlushHonest`, `LossBounded`, `CloseDrains`, `SyncHonest`, `JournalIsLog`, `FlushReturns`, `CloseReturns` | one thread that flushes and one that syncs, failing writes and syncs, a full ring, counters that wrap, every sync policy and changes between them, destruction |
| `recovery` | `ReplayAccepts`, `RecoveredBook`, `RestingUnique` | two crashes at any event or inside a record, the engine going on in between |
| `risk` | `TracksBook`, `RestoreReproduces`, `ExposureBounded`, `RefusedAgainstPosition` | two traders, limits that change, partial fills, replaces in place and by matching again, orders with nothing left, restarts |
| `fok_oldest` | `FOKAlwaysAtomic`, violated | see below |
| `stop_race` | `DrainedWhenStopped`, violated | see below |
| `replay_rejected` | `PrioritiesIncrease`, violated | see below |

`MatchingEnds` is termination without fairness: inside the loops of
`matchOrder` no step fails to lower a measure (phase, then orders in the book
plus quantity left), and the run has no deadlock.

Bounds. Three orders are the smallest number with two orders of one side in a
queue and an aggressor, two prices the smallest with a better and a worse
level, quantity 2 (3 in `engine_none`) the smallest with partial fills and
replaces between filled and full quantity. `PriorityMax` stands for
`UINT64_MAX`. `concurrent`: a ring of four slots is full with three orders, so
that queued orders could change places, and five accepted orders, numbered as
they come (`Numbered`), make it wrap; larger rings are covered by the theorems.
`stop_race` needs no more than a ring of two. `MaxAccepted` and `MaxDropped` bound
the submissions of a behaviour. `MaxLogged`
is one more than `MaxQueue`, enough to meet a full queue. `journal`: three
records overfill a ring of two and a fourth comes after the one dropped; they
wrap counters that begin at 2 of 4. `setSyncPolicy` is called with each policy and
with n 0, which counts as 1, and 2, at any moment until the second event is
handed over (`PolicyUntil`), so that a policy is set and replaced with written
records that are not durable, and three more records come after it. The smallest case of the shared flag is two flushers. `recovery`: no
operation starts with four records in the file, and the one in progress may
add more; the second crash can cut what was appended behind the torn record of
the first. `risk`: limits 1 and 2 against quantities up to 2, so that a limit
is met and missed by one, and `IntMax` = 4, the least that `HasRoom` (section 4)
allows; `MaxRefusals` bounds how often `onOrderResting` may
refuse. `sharded`: three symbols on two shards share one, four orders fill a
queue of two and cross.
`engine_none`, `recovery` and `risk` do not check deadlock: with all ids used or
a bound reached the client has nothing left to do; nor does `journal`, which
ends with its destructor. Symmetry is used for ids, traders, queues and order
contents, which the code only compares or copies, and only in runs without
liveness properties.

Fairness. `concurrent`: weak fairness of
the consumer loop, of a submit that has begun and of a controller inside
`start` or `stop`, that is, of threads the scheduler runs; the
mutex is assumed nothing of, since no property says that a waiting controller
gets it. `logger`: weak
fairness of the worker and of a `stop` that has begun. `journal`: weak fairness
of an `onEvent`, a flush and a destructor that have begun, and of the writer.
No fairness makes anyone submit, log, start, stop, flush or destroy.

### Where code and documentation disagree

Shown by a run that expects a violation:

- **FOK under CANCEL_OLDEST** (`fok_oldest`). `README.md` says "FOK atomicity
  guarantee (fully fill or nothing)". The gate counts the trader's own resting
  order, which self-trade prevention then removes: the order is partly filled.
- **Drain on stop** (`stop_race`). `submitOrder` reads `running_`, then pushes.
  When `stop` and the consumer's last look at the ring come in between, it
  returns true for an order that stays in the ring. `NothingLost` shows that a
  later `start` picks it up, and `DrainOnStop` that orders accepted before
  `stop` took effect are never affected.
- **Replay of a replace** (`replay_rejected`). A replace that lowers the
  quantity keeps its priority and is journalled as a cancel and a new order.
  Recovery demands increasing priorities and halts the engine.

The properties of the passing runs leave out these cases of the code, each
where it says so:

- Under CANCEL_OLDEST only the first own order is removed; a second one trades
  with the incoming order (`NoSelfTrade` speaks of the other two policies).
- An order that CANCEL_NEWEST or CANCEL_BOTH cancelled, and one for which the
  pool had no slot, is published, and journalled, as accepted
  (`AcceptedRests`).
- A replace down to exactly the filled quantity leaves an order with nothing to
  trade in its level, whose price is the best price. Cancelling or replacing it
  writes a record that replay refuses, because the recovered book dropped the
  order with its last fill (`Clean` in `Recovery`).
- Two flushers share `flush_waiter_present_`. The first to finish clears it while
  the other may sleep, and the writer notifies nobody until it exits
  (`FlushReturns`), although `Journal.h:170` says that the lost wake-up window
  is closed.
- A torn record is not cut off when the journal reopens the file. What is
  appended behind it either makes the next replay halt or is silently ignored
  (`Replays`; `Clean` asks for a file without a torn record).
- What self-trade prevention removes from the book is not journalled, so the
  recovered book has it again (the policy of the `recovery` run is NONE). Prices
  between ticks come back rounded, and trade ids start at 1 again.
- `onOrderResting` compares the working quantity alone with the position limit:
  an order of a trader with a position on the other side can pass `validate`,
  rest in the book, and be refused (`RefusedAgainstPosition`). The fills of an
  aggressor never enter its position, although `RiskEngine.h:164` calls that the
  "executed net position".
- `checkInvariant` is false, and a cancel closes the restored risk engine for
  good, when a replace has reduced an order to what it had traded (`TracksBook`
  and `RestoreReproduces` name the case).
- A flush that fails when the logger stops is not reported (`StopDrains`).
- With more symbols than shards, two symbols share a book and trade with each
  other, where `README.md` promises "Deterministic per-symbol state isolation"
  (`SymbolIsolation` speaks of at most as many symbols as shards).

## 4. Proofs

The theorems hold for all values of the constants that satisfy the assumptions
named in the modules, which TLC evaluates on every run:

- `BookAssumption`, `EngineAssumption`: prices and the largest quantity are
  positive, and there are finitely many prices (a `double` has finitely many
  values);
- `RingAssumption`: at least two slots; `QueueAssumption`: an array is never
  created empty;
- `ConcurrentAssumption`: no controller is called `"none"`, the value of `lock`
  while the mutex is free;
- `JournalRingAssumption`: the range of the counters is a multiple of the
  capacity and at least twice as large, as a power of two below 2^64 makes sure;
- `ShardedAssumption`, `LoggerAssumption`, `RiskAssumption`: sizes are positive.

Some theorems state a further hypothesis. `FillsAccounted`, `RestingOrdersUnique`,
`QueuesStayFIFO` and the theorems of `RecoveryProofs` are about clients that
do not reuse ids (`FreshIds`; the code does not check). Those of
`RecoveryProofs` also need `WholeTicks` (a price between two ticks comes back
rounded) and `PoolHasRoom` (an order for which the pool has no slot is
journalled as accepted); the instance TLC checks satisfies all three
(`InstanceAssumption`). The theorems of
`RiskEngineProofs` need `HasRoom`: every position limit is below `INT64_MAX` by
what refused orders may add. Without it a restored fill could overflow, which
the code answers by marking the engine corrupt.

Quantities are counted, not summed: `Quantity` of a book, the slots held in
`NoLeak` and `Total`, and the working quantity in `Tracks` are cardinalities of
sets of units or entries. That is the same number, and what a step does to it is
a statement about sets, while a fold would need induction over data.

### `MatchingEngineProofs`

- `TypeCorrect`: `TypeOK` is inductive. The step that needs care is the replace:
  `qty - AlreadyFilled(o)` stays in `0 .. MaxQty` because `ReplaceRefused` guards
  it.
- `NeverCrossed`: only `EndMatch` opens a price level (`OnlyRestingOpensLevels`),
  and its guard says that no opposite level is crossed; every other step only
  shrinks the set of levels.
- `FillsAccounted` and `RestingOrdersUnique`, for clients that do not reuse
  ids. Neither property is inductive: a trade changes `filled` of two ids, so
  one must know that no other entry, and not the order in flight, has them.
  `Identities` adds this: entries differ pairwise in id and in priority
  (`NoClash`), the order in flight is not in the book and, until it has come to
  rest, clashes with no entry (`InFlightApart`), every entry is accounted for,
  and ids not used yet have traded nothing. Each action is shown to give every
  entry of the new book a different entry of the old one as its origin
  (`Inherits`), or to be one of the three that add or move an order.
- `SweepsInOrder`: the property relates every pair of trades of an operation and
  the book they leave. The invariant `Sweep` adds that the incoming order never
  has the id of an order it traded with (`NotItself`). A new trade is at the
  front, and every earlier one, by the invariant, at no worse a price than any
  level that is left; an order that is gone stays gone because only the incoming
  order joins the book (`GoneStays`).
- `QueuesStayFIFO`: each step is an erasure, a change in place or an append of
  one queue; `Identities` makes the places of an order unique.
- `SelfTradesPrevented` and `FillOrKill`: both gates of `matchOrder` look at the
  whole book once, before the loop. `CallInv` says what holds between the phases
  of a call and `GateInv` that what the gates found (`canFullyFill`, no
  `wouldSelfTrade`) stays true while the loop consumes the book. For FOK that is
  a count: a trade takes as many units from the crossed quantity as from the
  order.
- `AnnouncedRests`: needs that every order is in the queue of its side and price
  (`InPlace`).
- `MatchingComesNearer`: every step of the loops lowers the orders in the book
  plus the quantity left, or leaves the loop. This is the argument of
  `MatchingEnds` for every book; the property itself uses `ENABLED`.

### `OrderQueueProofs`

`QueueInv`: the slots of all places of all queues are different and allocated
(`PlacesOwn`), and what lies above `next` in the free list is exactly the slots
that are not allocated, each once (`FreeRest`). `PoolNeverLeaks` is the count of
that bijection. `QueuesImplementSequences` maps queue `q` to the contents of its
places; growth and compaction do not change them although they move pointers.

### `ConcurrentMatchingEngineProofs`

- `RingTypeCorrect` and `RingRaceFree` from the invariant `RingInv`: after its
  test, the producer still has room, whatever the consumer did since
  (`ProducerHasRoom`), and the consumer still has an order
  (`ConsumerHasOrder`). Both rest on `Succ` being injective on slots.
- `RingImplementsFifo`: `push` takes effect at the store of `tail_`, `pop` at its
  copy of the slot. `WriteOutside`, `TailAppends` and `HeadDrops` say what the
  three steps that matter do to the contents; the remainder by the capacity is
  removed first (`SlotValue`).
- `EngineUsesRing`: every step of the engine is a step of the ring or leaves it
  alone, so `EngineRingIsFifo` is a corollary.
- `RestartsAreSafe` from `ControlInv`: the mutex lets one controller decide at a
  time, and a consumer exists exactly from a start to the join that ends it.
- `EngineLosesNothing`: handled orders, the one in the consumer's hand and the
  ring are what was accepted. `StopDrainsRing` adds `DueInv`: a consumer leaves
  only after it has found the ring empty, and has then handled all that the
  waiting stop must see handled.

### `ShardedEngineProofs`

`SymbolsIsolated` from `RoutingInv` (whatever a shard queues or has traded is of
symbols that map to it, and ids below the number of shards map apart) and
`SymbolsInOrder` from `OrderInv` (queues are sorted by submission, behind what
was processed).

### `JournalProofs`

`FlowInv` follows a record from the event to the file: the file is a prefix of
the events, then the record in the writer's hand, then the ring, with the slots
between the two counters reduced modulo the capacity. From it, with one more
part each: `JournalSlotsSafe`, `FlushTellsTruth` (`FlushInv`: a flush waits for
all that had returned before it), `SyncTellsTruth`, `CrashLossBounded`
(`SyncInv`: `since` bounds what is not durable), `DestructorDrains` (`ExitInv`)
and the refinement `JournalImplementsLog`. The counters need that a capacity
that divides the range commutes with wrapping (`RemainderUnique`).

### `TradeLoggerProofs`

`LoggerInv`: file, buffer, hand and queue together are what was accepted; a worker
that has left without an error left nothing in the queue; an error means that
the stream is bad; and a stop that has returned left a bad stream or an empty
buffer.
`LoggerKeepsOrder` and `LoggerStopDrains` follow.

### `RiskEngineProofs`

All four properties of the run from `RiskInv`. Its parts: `Shape` (the book, of
which `Rested` is what has something left, and that the restored engine is
corrupt exactly when an order with nothing left has been cancelled), `Tracking`
(an engine that is not corrupt tracks `Rested`), `InStep` (the two agree unless
an order was refused),
`Within` (the exposure with what is left of the order being matched is within
`max_position_`: established by `validate` or `validateReplace`, kept by every
trade), and `Bounded`. The last one is there for the restored engine: it takes
orders that the live one refused, so its exposures may pass the limit, and a
fill must still fit an `int64`. `BoundedBy(x, y)` says by how much: x in the
live engine, which has taken refused orders over at restarts, y more in the
restored one, together at most `MaxQty` for each refusal. The theorems are
`ReservationsTrackBook`, `RestoreIsFaithful`, `LimitHolds` and
`RefusalsAgainstPosition`.

### `RecoveryProofs`

`JournalReplays`, `BookIsRecovered` and `RecoveredOrdersUnique` state the three
properties of the run for all orders, prices and traders and for histories and
numbers of crashes of any length. Neither of the first two is inductive. In the
middle of an operation the book is ahead of the file: a trade has changed it and
its record is not published yet. The invariant is therefore about `Whole`, the
file with the records of all that has happened (`Happened`) and is not sent yet:

- `Followed`: replay of `Whole` is accepted and gives the live orders of the book
  as it is now, and the next sequence number is the one the journal will use.
  Each step that changes the book is shown to add exactly the record that does
  the same in replay: a cancel and `restoreCancel` (`CancelFollows`), a trade and
  `applyFill` (`FillFollows`), a resting order and `restoreOrder` (`NewFollows`).
  Popping a filled order adds none and needs none (`PopFollows`): replay dropped
  the order with its last fill.
- `Tracked`: every beginning of `Whole` is accepted and uncrossed, because a crash
  may leave any of them, and every id in it has been used, so that a new order
  meets no record of its id.
- While the engine runs, `TypeOK`, `CallInv` and `Identities` of
  `MatchingEngineProofs`; before replay, a new engine (`Fresh`). After a replay
  that failed only the shape of the book and `NoClash` are left, and the engine
  takes no order.

A replace that keeps its place announces its priority a second time. `Clean`
leaves such a file out, and the proof shows that it does (`SamePriorityUnclean`).

`ReplayWellFormed` is what holds of a replay whatever is in the file, torn and
rejected ones included: no two orders share an id or a priority, each has
something left and a `NEW_ORDER` record of its own, and no priority is above the
largest one seen. From it follows that the recovered engine may go on with
`getNextPrioritySequence` (`RecoverKeeps`), and `RecoveredOrdersUnique` holds for
files that are not clean too.

Replay recurses over the file and the live part of a queue over the queue. The
library's induction theorems take a predicate as a parameter, which the provers
cannot instantiate; `SetInduction` and `SequenceInduction` state induction with a
set instead, derived from the well-foundedness of the natural numbers. With them
the recursions are shown to exist, to be unique and to go one step further with
one more element (`ApplyAppend`, `LiveAppend`), and nothing else of them is used.

### Only model-checked

- Liveness (`StopReturns`, `SubmitReturns`, `LoggedEventually`, `LoggerStops`,
  `FlushReturns`, `CloseReturns`), because the prover does not handle fairness,
  and `MatchingEnds`, which uses `ENABLED`.

## 5. What is left

Every safety invariant and every safety action property of the runs is a
theorem, except `MatchingEnds` (see above). The hazards of `PROJECT.json`
without a property are: prices between ticks, trade ids that repeat after
recovery, concurrent calls of `TradeLogger::stop`, and a subscriber that is
called after its `unsubscribe` has returned. A model of
`MarketDataPublisher` would cover the last one.

## 6. Not modelled

- `MarketDataPublisher`: an immutable list of subscribers that is replaced under a
  mutex. Nothing outside the tests subscribes or unsubscribes.
- The price band of `RiskEngine`, a comparison of floating-point numbers.
- Concurrent calls of `TradeLogger::stop`, which would join one thread twice.
- `syncAll` and the paths of `ShardedJournalManager`.
- Printing, timestamps, the byte layout and checksum of records beyond what
  replay tells apart, the file header, `src/main.cpp` and the benchmark.
