# A TLA+ model of the trading bot's order and safety core

The repository is a crypto trading bot: some 480 source files of Python and
Rust under `src/backend`, most of them self-contained modules of about 500
lines. Four fifths of them are numerical (indicators, volatility models,
learning, optimisation). What can go wrong in ways a test hardly reaches is in
the rest: the code that keeps the state of orders, the flags that stop trading,
the code that moves between venues, the locks, logs, queues and limits beneath them.
This project models that part.

## Inventory

Every directory of the source is a component in `PROJECT.json`. Those with state
that several actors share, and the order they are modelled in:

| component | state it keeps | operations | who interacts | what makes it correct |
|---|---|---|---|---|
| OMS state machine, `oms/state_machine.rs` | per order: state, bounded history, in-transition flag; a map of orders; two counters | create, process an event, transition on the `Arc`, force a state, clean up terminal orders | threads, under `RwLock`s and atomics | one transition at a time; declared moves only; a history that is the path; counters that count; no live order dropped |
| order manager, `execution/order_manager.py` | orders, two indices, one asyncio lock | create, submit, acknowledge, reject, cancel, fill | coroutines; the SOUL logger is awaited under the lock | every call returns; failures are logged once; the indices find what they index |
| bracket order, `oms/bracket_order.rs` | state, three child ids, two executed flags, a try-lock | set ids, execute stop loss, execute take profit | threads, atomics only | one leg executes, once; the stop loss does execute; the bracket goes live |
| OCO manager, `oms/oco_manager.py` | groups of two legs, an index by order id, a cancellation queue | create under a limit, assign ids, handle fills and cancellations, clean up | threads, the event loop, the exchange | the other leg is cancelled; beliefs agree with the exchange; the limit holds |
| circuit breaker, `stress/circuit_breaker.rs` | state, trip time, trip count, lockout flag | trip, reset, half-open, lock out, release, check, emergency stop, resume | threads, four independent atomics | an open breaker blocks; openings are counted; lockouts hold and can be lifted |
| failover, `venues/failover_state_machine.rs` | state, counters and active venue per id, in five locked maps | register, process an event | threads | no deadlock between the maps' locks; no lost event |
| write-ahead log, `persistence/wal_manager.rs` | file, mapping, position, sequence number | append, rotate, replay, restart | crashes | what was logged is replayed |
| checkpoint daemon, `persistence/checkpoint_daemon.rs` | running flag, request channel | start, stop, request | tasks | it can be stopped and started |
| graceful shutdown, `orchestration/graceful_shutdown.rs` | request flag, phase, worker count, handlers | request, register, execute | threads, signals | phases go forward; handlers run once |
| ring buffers, `ipc/ring_buffer.py` | head, tail, state, slots | push, pop, shutdown | a producer or several, one consumer | items come out once and in order |
| message broker, `events/message_broker.py` | queue, subscriptions, dead letters | publish, subscribe, start, stop | coroutines | accepted messages are delivered or dead-lettered |
| readers-writer locks, `concurrency/rw_locks.py` | readers, waiting writers, the active writer; holds per thread | acquire, release, time out | threads, under one condition variable | writers exclude; no wake-up is lost; every acquisition returns |
| rate limiter, `exchanges/rate_limiter.py` | tokens, time of the last refill | acquire, with a timeout or with back-off | threads, the clock | a burst is bounded |
| order book, `websockets/orderbook_manager.py` | levels, last update id, state | snapshot, delta, trim | a connection that loses, repeats and reorders | the book is the exchange's while nothing was missed |
| reconciliation, `oms/reconciliation_engine.py` | internal and exchange snapshots, drifts | reconcile, resolve, flatten | a thread, the OMS, the exchange | no false desync |
| capital reserve, `portfolio/capital_reserver.py` | balance, pending deployments | deploy, confirm, replenish | one thread | money is counted once |

The components hardly call each other: each file defines its own order type. The
interactions that matter are inside a component, between its callers, and with
the exchange and the clock, which the models include.

## Plan

1. *Done:* the order core: `OmsStateMachine` with `OrderLifecycle`, `OrderManager`,
   `BracketOrder`, `OcoManager`, `CircuitBreaker`; proofs about all of them.
2. *Done:* what the core stands on: `ReadWriteLock` and `ReentrantLock`, `RingBuffer`
   with `BoundedFifo`, `MessageBroker`, `RateLimiter`, `OrderBook`, `WriteAheadLog`,
   `CheckpointDaemon`, `GracefulShutdown`, `FailoverStateMachine`; proofs about
   all of them.
3. *Ahead:* `Reconciliation` (snapshots against a moving exchange), `CapitalReserve`; the
   event store, command bus and snapshots of `cqrs/`, the network fallback and orphan
   resolver of `recovery/`, the limiters of `venues/`, the connectors of
   `websockets/`, the process supervisor, the legging risk shield.
4. *Proofs ahead:* every safety property and every refinement that a passing run checks
   is a theorem. Liveness stays with TLC; the components of item 3 get their proofs as
   they are modelled.

The modules are written for proofs as well as for TLC: constants carry named
assumptions, every operation is an action, no operator is recursive. A module that
others instantiate states what it needs of its constants as `ParametersOK`, which is
an ASSUME of the `MC` module that uses it and all that the proofs know of them.

## Modules

A variable has the name of the field it stands for where there is one, with the
source's name in its comment; an action has the name of the operation or of the
part of it that runs without interruption.

### `OmsStateMachine`, over `OmsOrderStates`

`oms/state_machine.rs`. The unit of interleaving is one access to shared memory
or one critical section. `transition` is `SwapWins` or `SwapLoses` (the swap on
`is_transitioning`), `Apply` or `Refuse` (`do_transition`, which holds the write
lock of the state from reading it to recording the move), and `ReleaseFlag`.
`process_event` begins with the look-up, `ProcessEvent`, and goes on with
`UncountActive` and `CountTerminal`; a caller that holds the `Arc` starts with
`CallTransition`. `cleanup_terminal_orders` keeps the map's lock but reads the
states one by one, each under the lock of its order: `VisitOrder`.

The rules are two tables, as in the source: `EventTable` is the match on event
and state, `ValidMoves` the `matches!` of `is_valid_transition`; an event is
accepted when both agree (`Successors`). Event payloads, timestamps and error
texts are left out.

`OrderLifecycle` is what the machine promises: orders are created, and move as
the enumeration `StateTransition` declares, "any" being read with the rule that
a terminal state is never left. `OmsStateMachine` implements it with
`known <- created`.

### `OrderManager`

`execution/order_manager.py` on one event loop. A coroutine is atomic between
awaits that really suspend, and those are the wait for `_lock` when taken
(first come, first served) and the SOUL logger. `add_fill` calls `transition`
while it holds the lock; the model keeps what asyncio does: the task queues
behind itself.

### `BracketOrder`

`oms/bracket_order.rs`, one bracket, one atomic access a step. Stores of the two
child ids go through a store buffer per thread, since Release and Acquire do not
order a store before a later load of another location, on x86 either. Read-modify-write
operations wait for the thread's buffer. Either leg may be executed whether its order
has been registered or not, as in the code, and the load of the other leg's id
(`AskCancellation`) is a step after the store of the flag (`MarkExecuted`). Callers outside
may report a cancellation through the public `transition_state` (`ReportState`);
FullyFilled is left to the execution of a leg, as an outer caller who stores it vouches
for it and `FilledMeansExecuted` would be about that caller.

### `OcoManager`

`oms/oco_manager.py` with the exchange. Creation is three steps because the
limit is checked and the group registered under separate holdings of the lock.
The handlers hold the group's lock throughout and are one step each; reports are
a set, so they arrive in any order, and a report for an unknown order is lost.
They run before `initialize_async` has made the cancellation queue, where the counterpart
is marked and nothing queued, and after it (`initialized`). `OffLoop` adds handlers on
threads that have no event loop, where `asyncio.create_task` raises after the mark
(`HandleFullFillRaises`). A fill carries the status its reporter gives it, which is
FILLED by default, also of a partial fill (`Reported`). The user's callback changes
nothing itself; the calls it makes of the manager are steps of their own.
The exchange places, executes and cancels orders
and issues reports; nothing else is assumed of it (`placed`, `open`, `unfilled`,
`reports` are its state). Ids are assigned once the orders have been placed.

### `CircuitBreaker`

`stress/circuit_breaker.rs`. Each load and store of the four atomics is a step;
`pc` names the next one. `openings` and `released` are auxiliary: they record how
often the state became Open and whether a lockout was released, and no action
reads them.

### `ReadWriteLock` and `ReentrantLock`

`concurrency/rw_locks.py`. `RWLock` is one condition variable; a step is one holding
of its mutex. `notify_all` makes every sleeper a thread that will look again
(`Woken`); a timer may end a wait, also of a thread that has just been woken.
`ReentrantRWLock` keeps the holds of each thread around it, in critical sections of
their own, which is why `BeginReleaseRead` and what follows it are separate steps.

### `RingBuffer`, over `BoundedFifo`

`ipc/ring_buffer.py`, one producer and one consumer. The steps are the accesses to
what the two share: the check of the other's counter, the slot, the own counter.
`BoundedFifo` is what users of the buffer count on, with one item fewer than
there are slots.

### `MessageBroker`

`events/message_broker.py` for one message type on one event loop. A coroutine is
atomic up to a `put` into the full queue, a `get` from the empty one, and the call of
an actor after each callback: there the others subscribe, unsubscribe, stop and start.
The list that a loop goes through is the live one while it is the registry's
(`live`), as `subscribe` appends in place and `unsubscribe` replaces. Subscribers in
`Filtering` have a filter, which may let a message pass, decline it (`Decline`) or raise
(`FilterRaises`): the code calls it outside the `try`, so that ends the routing of the
message. `failed`, `declined` and `raised` are auxiliary and record what became of a delivery.

### `RateLimiter`

`exchanges/rate_limiter.py`, one bucket. Time passes in steps that refill `Rate`
tokens; the three ways to ask differ in how they wait between attempts.

### `OrderBook`

`websockets/orderbook_manager.py`, one side of one book. The exchange numbers its
updates; the network is the choice of any update or snapshot so far, in any order and
as often as it likes.

### `WriteAheadLog`

`persistence/wal_manager.rs`. Each operation on the file system is a step; it may fail, and
the process may die between any two. Which file the mapping is of (`mapped`) is a variable
of its own, since a mapping follows its file through a rename and is replaced only by
an `init_mmap` that succeeds. `replaced` is auxiliary: what an archive has lost.
A file that was extended to its maximal size and one
that was not are told apart (`extended`), since the length of the file is where an
opened log begins to write. An archive's name is the second it was made in.

### `CheckpointDaemon` and `GracefulShutdown`

`persistence/checkpoint_daemon.rs`: the flag, the receiver that `start` takes out, the
bounded channel and the spawned task with its timer. A checkpoint is what
`checkpoint_counter` counts: the counter is bumped (line 266) before the append to the log,
whose error the loop ignores (line 192). `orchestration/graceful_shutdown.rs`:
the swap on the request flag, the phases of `execute_shutdown` and of whoever requests
a shutdown meanwhile, the count of workers and the mutex of the handlers.

### `FailoverStateMachine`

`venues/failover_state_machine.rs`. An id may be registered again, which resets it.
`process_event` reads, decides, writes, switches and
counts under one lock after another; every one of these is a step. The locks of the
two counts are variables because `update_counters` and `register` take one while they
hold another; those of the other maps are held across a step by `register` alone
(`MapsFree`). Decisions read the counts of the id 0, as the code does
(`get_failure_count(0)`): `Zero`.

## Runs

Each `MC*` module instantiates a module, or several; each `.cfg` is a run of
`PROJECT.json`. Every property of a passing run has a mutant: a definition of the model
changed as a slip in the code would change it (`\* Mutant:` in the modules), under
which TLC finds the property violated.

`MCGuards`, `MCConcurrency` and `MCServices` put components side by side that share no state. A
variable `subject` says which of them runs: as a step of one changes nothing that
another sees, every behaviour of each is explored, and their product is not.

Passing runs:

| run | instance | what it shows |
|---|---|---|
| `oms_managed` | 2 orders, 2 threads, all events | `CountersExact`, `NoLiveOrderLost`, `ResultStillTrue`, `ImplementsLifecycle` |
| `oms_recovery` | 1 order, 2 threads, forced states, calls on the `Arc` | `OneTransitionAtATime`, `HistoryIsThePath`, `EveryCallReturns` |
| `order_manager` | 2 orders, 2 tasks, fills 0 to 2 of 2 | `FailureLoggedOnce`, `IndicesFind`, `LockHeldForAReason`; `CallsReturnOrFillHangs`: but for the nested lock nothing blocks |
| `bracket` | 3 threads, both legs | `OneExecutorAtATime`, `LegExecutesOnce`, `FilledMeansExecuted`, `LiveMeansPlaced`, `SomeLegExecutes` |
| `guards` | OCO: 2 groups of quantity 2, 2 creators, limit 1, with and without the queue, `OffLoop`; breaker: 3 threads, all operations | `EndsAreTrue`, `GivenUpForAFill`, `OvershootBounded`; `EveryOpeningCounted`, `LockoutAfterMaxTrips` |
| `concurrency` | locks: 3 threads, 2 holds each; ring: 4 slots, 6 items; broker: 2 messages, 2 subscribers, 2 loops, a queue of 1 | `Exclusion`, `WritersSleepForAReason`, `EveryAcquireReturns`; `OneWriter`; `ImplementsFifo`; `NobodyIsSkipped`: nobody but behind a filter that raised |
| `services` | log: 2 records a file, 4 appends; daemon: 2 tasks, channel of 2; shutdown: 3 callers, 2 workers; limiter: 2 callers, weights 1 and 3 of 3 tokens; book: 3 prices, depth 2, 3 updates; failover: 2 threads | `AckedIsOnDisk`: or its archive was replaced; `AcceptedIsMade`; `CleanupWaitsForWorkers`; `BurstBounded`; `BookIsTheExchanges`; `EventsReturnOrEmbrace`: but for the order of two locks nothing blocks |

Violations, each of something the source says of itself; `PROJECT.json` quotes the
line under "findings":

| run | statement | what happens |
|---|---|---|
| `order_manager_fill` | a fill is added | `add_fill` waits for its own lock |
| `nested_lock` | the lock excludes writers while a thread holds it for reading | the release of an inner hold gives up the read lock, and a writer enters |
| `oco_counterpart` | a fill ensures that the counterpart is cancelled | without a queue the counterpart is marked and nothing is queued, and nothing will be |
| `wal_replay` | no data is lost | no record verifies, as the checksum is computed in one way and checked in another |
| `failover_completes` | the switch to the backup comes to an end | FailingOver is left by no event but a latency spike in emergency mode |

### Beyond the runs

The models have behaviours that no run asks about and a maintainer should know:

* `state_machine.rs:257-269` and `:327-353` disagree: a partially filled order cannot be
  cancelled, though line 112 declares it; a Timeout expires Working orders only;
  ModifyConfirmed never brings an order back from InFlight. A transition made on the
  `Arc` is not counted (`:446`), and an event that comes while another is processed is
  refused and not kept (`:227`).
* `order_manager.py:307`: two orders created within one millisecond share a client id,
  so `IndicesFind` promises only one of them.
* `bracket_order.rs`: both legs may execute, one after the other, as each path checks
  its own flag (`:196`); the stop loss, which is to trigger at once (`:6`), gives up when
  the other path has the try-lock (`:155`); a state stored late (`:117`) overwrites a
  newer one: TPActiveSLActive even replaces FullyFilled, if its thread validated before the
  execution and stores after it; two threads that store one child id each may both miss the other's, and
  nobody makes the bracket live.
* `oco_manager.py`: two creators pass one check of the limit, hence `OvershootBounded`;
  no group ever counts as completed for the clean-up (`:504`, against `:139`), so a
  manager that has reached its limit stays there;
  besides the missing queue (`oco_counterpart`), without an event loop a leg is marked
  PENDING_CANCEL and its cancellation never queued (`:447`); a partial fill that is
  handled late makes a leg that was FILLED less than filled again (`:327`), and one
  reported with the default status is FILLED with something left (`:285`); a queued cancellation is not sent (`:172`), so the leg may execute;
  a fill that comes before the ids are assigned is lost (`:302`); the exposure of a
  half-cancelled group forgets its open order (`:484`).
* `circuit_breaker.rs`: trip and reset interleaved leave the breaker Open with a time of
  zero or an old one, which reads as cooled down (`:212`); a probe between the two stores
  of `trip` half-opens at once; `resume_trading` (`:453`) asks for the opposite of the
  state it is to resume from, so it never lifts a lockout, but one that begins between its
  check and its release is lifted.
* `rw_locks.py`: waiting writers hold readers back only while nobody reads (`:117`), so
  readers that overlap keep a writer out until its time-out, which is the
  starvation that lines 73 to 77 rule out.
* `ring_buffer.py`: `MultiProducerRingBuffer` (`:422-490`) accepts one push ever, as
  all its slots start at zero where each should start at its index, and two of its
  producers may add and subtract at once; shutting a buffer down never makes it refuse a push.
* `message_broker.py`: `put` (`:305`) waits and never raises QueueFull, so publishers hang
  at the limit and the dead-letter queue does not get what is too much; a filter that
  raises (`:407`) takes the message from every later subscriber, where line 399 routes it
  "to all matching subscribers", and puts it on no dead-letter queue.
* `rate_limiter.py`: a bucket that is full lets up to MaxTokens and a whole refill through
  in one window, more than the limit that lines 108 and 121 promise to stay below; line 58
  passes `threading.Lock` to `isinstance`, which before Python 3.13 is a function.
* `orderbook_manager.py:177-216`: a gap sets the book STALE and the same call sets it
  READY, so nobody asks for a new snapshot; deltas are accepted before the first one;
  levels that were trimmed do not come back when a better one goes.
* `wal_manager.rs`: two rotations within one second give one archive the place of
  the other (`:351`), and acknowledged records go with it; when `init_mmap` fails at the
  end of a rotation (`:373`), the mapping is still of the archive and the position zero,
  so the next append writes over the first record of the archive before it writes to the
  new file, and returns Ok; when a rotation fails after its rename, every later append
  fails or rotates again; the first append after a restart always rotates, since the
  length of the file is its maximal size.
* `checkpoint_daemon.rs`: a checkpoint that could not be appended is counted like any
  other (`:266`, `:192`), and the timer fires at once when the task starts, which the test
  that counts checkpoints (`:470`) does not expect; a daemon that was stopped cannot be started
  again, and the attempt leaves `running` set (`:156`).
* `graceful_shutdown.rs`: a request that sets its phase late takes the phase back from
  Terminated, and a second `execute_shutdown` runs the handlers again.
* `failover_state_machine.rs`: a decision on a state that was read before another event
  overwrites Emergency (`:146`); thresholds count the failures of the id 0; a failure and
  a success, or a success and a registration, that take the two locks of the counts in
  opposite orders block each other for ever (`:319`).

### Bounds

* *Threads and tasks.* Two threads exhibit every pairwise race; three are used
  where a third party can come in between (lock, try-lock, counter). Under the
  in-transition flag only one thread at a time does anything to an order.
* *Orders and groups.* They interact through the counters, the map, the limit and
  the indices only, so two are enough to show a mix-up. With two creators, two
  groups already overshoot a limit of one.
* *`MaxPlaced`* is 1 in `guards`: one group is traded at the exchange while the other is
  created and counts for the limit. A handler touches its own group and appends to the
  queue, so two traded groups do what one does, side by side.
* *`Quantity`* 2 lets a leg or an order fill in part and then in full.
* *`MaxStateHistory`* is 3 where the history matters (32 in the code): it fills,
  overflows and wraps within a few moves; elsewhere 1 keeps the state small.
* *`CountModulus`* stands for 2^64. It is 8 where counters matter, more than
  the orders there are, and 1 in runs that are not about them.
* *Clock.* `MaxTime` lets one cooldown pass in `guards`, and lets two orders have the
  same or different client ids in `order_manager`.
* *`CountBound`* limits the trips of a run. In `guards` it is `MaxTrips`; a thread that
  has begun is not stopped by it, so the lockout is reached and overshot.
* *Locks, ring, broker.* A third thread is the one that comes between a release and
  the thread it woke. Four slots and six items make the ring full, empty and wrapped
  around. `MaxJoins` lets both subscribers join, or one leave and join again, while a
  loop is under way; with a queue of one, publishers wait. One of the two subscribers has a
  filter, so each may come before or behind it.
* *Log.* Files of two records and four appends rotate twice; `MaxTime` has a second
  for each, and two may fall into one. Crashes and failing calls are not bounded.
* *Daemon.* Four requests overfill a channel of two and leave room for a stop, and one
  scheduled checkpoint comes in at every point.
* *Limiter.* The horizon lets an emptied bucket fill up, and one that is full idle.
* *Book.* Three prices on a depth of two trim once and show the level that is missed.
* *Failover.* One id, which is 0: with more the counts that decisions read would not
  be its own, and the locks are the same. Counts saturate at the thresholds.
* *Deadlock* is checked except where ids are finitely many or the system really
  stops; each such `.cfg` says which.

### Fairness

Weak fairness is assumed of the steps of calls in progress, never of the
decision to make a call: a thread the scheduler runs goes on, and no modelled
step waits for another thread but for a lock. `OrderManager` adds that the
logger returns (with a logger that hangs every call hangs, by the code's
choice). `BracketOrder` adds that store buffers drain. `ReadWriteLock` adds that time-outs
pass and holders let go. `FailoverStateMachine` assumes that a lock that is free again
and again is got (strong fairness of a thread's next step: the mutexes are fair enough for
that), and `failover_completes` that every event keeps coming: it gives the
property every chance, and it fails all the same.

## Proofs

`OmsStateMachine_proofs` proves, for any finite set of orders, any set of threads,
any history bound and any modulus:

* `TypeCorrect`: `TypeOK`, together with `CallOK`: a call that is past its first step
  works on an order that had been created, and a cleaner is a thread that is
  cleaning. The second half is what the types of the next states need.
* `MutualExclusion`: `OneTransitionAtATime`. It is inductive relative to the types:
  only a thread that finds the flag down enters, and a thread leaves by lowering it.
* `AuditTrail`: `HistoryIsThePath`. `RememberPath` shows that a record starting where the
  kept path ends extends it, also when the oldest record is dropped; every action
  that changes a state records the change in the same step.
* `Refinement`: `ImplementsLifecycle`, when nothing is forced. `SuccessorsDeclared`
  shows that whatever both tables accept, `StateTransition` declares.
* `CleanupKeepsLiveOrders`: `NoLiveOrderLost`, when nothing is forced: an order leaves
  the map in a terminal state, and by `StepMoves` no step leads out of one.
* `ResultsStay`: `ResultStillTrue`, when nothing is forced. While the flag is up nobody
  else moves the order, by mutual exclusion; when it is down, only a call that ended
  the order is still to count, and `StepMoves` says that such an order stays.
* `CountersAreExact`: `CountersExact`. `CallsApart` says that calls that owe the
  counters an update have each an order to themselves, so that `CountsFit` bounds what
  is owed by the orders there are; then each step adds or takes one member of one of the
  sets that are counted (`CreateOrderGains` to `ApplyEnds`), or none (`OthersUncounted`).

The assumptions are those of the module (the bounds are positive, `None` is no
order) and, for the last four, `ForcedStates = {}`: `force_transition` is for
recovery, and may move an order anywhere by design. `CountersAreExact` needs two more,
which are where the code counts right: transitions go through the manager
(`~DirectAccess`), as one made on the `Arc` is not counted, and there are fewer orders
than a counter can count, 2^64 in the code. `oms_managed` is an instance of all three.

`OrderManager_proofs` proves, for any orders and tasks, any quantity and any clock:

* `TypesKept`, `LockIsHeldForAReason`: `TypeOK`, `LockHeldForAReason`. `LockInv` is the lock
  with its queue: who holds it is in the logger or in `add_fill`, who waits stands in
  the queue once. `Joins` and `Leaves` are about queues of that sort.
* `FailuresAreLoggedOnce`: `FailureLoggedOnce`. Logging goes with the move into a failed
  state, and the table of transitions has no way out of one.
* `IndicesAlwaysFind`: `IndicesFind`. `IndexInv` adds that what the index by client id holds
  is an order of that id: a later order of the same millisecond takes the entry over.

`BracketOrder_proofs` proves, for any set of threads and any legs:

* `TypeCorrect`: `TypeOK`, and that an executing thread's leg is one that is called for.
* `MutualExclusion`: `OneExecutorAtATime`. `LockSteps` sums up what each action does to
  the lock and the place of its thread; the induction is over those four shapes.
* `FilledAfterExecution`, `SingleExecution`: `FilledMeansExecuted`, `LegExecutesOnce`. The
  strengthening `Marks` says that between the second check and the mark the leg
  is still unexecuted, which needs mutual exclusion, and that from the mark to the
  store of FullyFilled it is executed.
* `LiveAfterPlacement`: `LiveMeansPlaced`. `SeesGrows` shows that an id a thread has seen
  stays visible to it while it moves from buffer to memory; `Published`, that a
  thread wants the bracket live only when it sees both ids.

`OcoManager_proofs` proves, for any finite sets of groups and creators, any limit and
any quantity, with and without the cancellation queue and handlers off the event loop:

* `TypeCorrect`: `TypeOK`, by way of `CreatingOK`: a creator about to activate has a
  group in hand.
* `EndsTrue`, `GivenUpOnlyForAFill`: `EndsAreTrue`, `GivenUpForAFill`. `Beliefs` is the
  invariant: reports say what happened (`ReportsTrue`), an open order has something
  left to execute (`OpenUnfilled`), and only of placed orders is anything said
  (`EndsPlaced`). `HandlerSays` shows that a handler says of an order what its report
  says and nothing new of others; `OverIsOver`, that the exchange never takes an end
  back. That is why the order of the reports does not matter.
* `CounterpartIsAsked`: the conditions under which the statement that `oco_counterpart`
  refutes does hold: every handler runs on the event loop (`~OffLoop`), and the queue is
  made before any order is indexed (`QueueFirst`). The code ensures neither.
* `OvershootIsBounded`: `OvershootBounded`. The check passes only under the limit,
  with at most all creators past theirs; registering turns a check into a group.

`CircuitBreaker_proofs` proves, for any finite set of threads and any numbers:

* `TypeCorrect`: `TypeOK`.
* `OpeningsCounted`: `EveryOpeningCounted`. `CountingSteps` shows that two steps alone touch
  the numbers, and each of them moves one thread into or out of the set counted.
* `TripsLockOut`: `LockoutAfterMaxTrips`, inductive as it stands.

`Concurrency_proofs` proves about the locks, for any finite set of threads, with and
without writer preference:

* `WritersExclude`: `Exclusion`. A thread looks at `readers` and `writerActive`, so
  the invariant adds that they count the threads (`CountsExact`, also a theorem).
* `WritersAreWoken`: `WritersSleepForAReason`. A writer goes to sleep under the condition,
  and whatever ends it, the last reader or a writer, wakes everybody.
* `WritersExcludeWriters`: `OneWriter`, for any nesting. That readers are counted is false
  of the nested lock (`nested_lock`), so the proof relies on the flag of the writer alone:
  it is up while a thread writes, and a release lowers it only in the hands of its writer.

About the ring buffer, for any data and any capacity, it proves that it is a queue:
`RingIsAFifo`, `ImplementsFifo`. Indices in use are less than the capacity apart,
so `Apart` gives them different slots; `Pushing` and `Popping` say what each side may still
rely on between its check and its last step.

About the broker, for any messages, loops, subscribers and queue size, it proves
`NobodySkipped`: `NobodyIsSkipped`. `OnePlace` says that a message is in one place at a
time, so one loop at most has it; `Progress`, that everybody who is owed it is in the list
that loop goes through, and everybody before its position is served: has it, failed
on it or declined it, unless a filter raised on the message. That is what
appending at the end and replacing on removal are for: a list that is gone through
grows at its end or stays. `GoneAreServed` is what follows when the list is done.

`Services_proofs` proves:

* `AcknowledgedStays`: `AckedIsOnDisk`, for any size of the log, with any crashes and
  failing calls. `AtTheEnd` says that a write goes behind the last record of the log or a
  rotation comes before it; `MappingFits`, where it goes in an archive that is still mapped; `Unacked`, that what
  is being appended is not acknowledged yet.
* `NothingIsLost`: `acked \subseteq OnDisk`, with nothing excepted, under `SafeRotations`:
  no rotation renames in the second of the last one, and none fails in its `init_mmap`.
  The code does not ensure it; the theorem says that nothing else can lose a record.
* `BurstsBounded`: `BurstBounded`, for any callers, weights and rates. A bucket knows its
  tokens as of its last refill; `Ledger` is the bound as of then, and that nothing was
  granted since.
* `AcceptedAreMade`: `AcceptedIsMade`, for any tasks and any channel size. While the loop
  runs, the checkpoints counted and the requests that are due, those before the first
  stop in the channel, are what was accepted and scheduled.
* `CleanupWaits`: `CleanupWaitsForWorkers`, for any finite set of workers. The count is
  the number of workers at work, and once a shutdown is requested none of those it
  waits for begins anew.
* `BookMirrorsExchange`: `BookIsTheExchanges`, for any prices, depth and updates.
  A missed update differs in its number, an old one is told by it, and `Mirrors` says what
  trimming leaves of the exchange's levels.

The two modules end with the type invariants of their runs, `ConcurrencyTypes` and
`ServicesTypes`: as the components share no variable, a step keeps the types of the
one it is in, for the reasons above, and of the others because it leaves them alone.
What this needs beyond the above: `NestedCounts`, that the nested lock counts at most the
readers there are; `Room`, the limits of the broker; and `FailoverInv`, that a thread about to
decide or to write a state has one in hand.

Only model-checked: the liveness properties, `EveryCallReturns`, `CallsReturnOrFillHangs`,
`SomeLegExecutes`, `EveryAcquireReturns` and `EventsReturnOrEmbrace`. They rest on fairness, hence
on ENABLED, which is out of the prover's reach. The violation runs are counterexamples and have
nothing to prove.

## Not modelled

The numerical four fifths, logging and metrics, security, and the parts of the plan
that are still ahead: `PROJECT.json` gives the reason for each directory. In the
modelled files: prices, sizes, fees and timestamps unless a decision reads them;
read-only queries; the per-asset breakers of `circuit_breaker.rs`, whose code uses a
variable it does not declare (lines 349 and 364); `transmute` of the state number in
`bracket_order.rs` (line 91), which is read as the enumeration it stands for;
`MultiProducerRingBuffer`; `set_enabled` of the write-ahead log, which is for testing and has
no caller; a thread that asks `ReentrantRWLock` for the write lock while it reads, which
waits for itself until its time-out; the statistics of locks, broker, limiter and daemon; the
manager of order books. In `wal_manager.rs` and `checkpoint_daemon.rs` some
expressions do not compile as they stand (`set_len(..)?` in a function of another error
type, a use of a moved value, `?` on what is no Result): they are read as what
they are plainly meant to be. The drifts that `oms/reconciliation_engine.py` (line 374)
reports for orders in flight depend on what its callers pass as snapshots, for which
the source has no caller.
