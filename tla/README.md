# Verification of the trading bot's order and exposure path

TLA+ models of the part of this repository where a mistake costs money and a
unit test hardly looks: how the exposure of an order is reserved, filled and
released in memory and in SQLite, how the external paper venue's own record
decides whether new orders may be admitted, how the execution engine's threads
send, cancel and stop, how the internal paper venue and the router that reads its
reports agree, which market data may be traded on, and how the operator's API
starts and stops the paper process. TLC checks the models on small
instances; TLAPS proves the safety properties of those runs for every instance, some
of them under a hypothesis that "What is proved" names.

## The system

The process (`main.py`, class `SovereignHeartbeat`) is one spine and a rim of
evidence writers:

    market data -> main_loop -> decision_compiler -> ExecutionEngine -> OrderRouter -> venue
                        |             |                   |                 |
                     RiskGuard   ExposureManager     threads, queue    ReservationLifecycleCoordinator
                                                                            |
                                                               ExposureManager + StateStore

| component | state it keeps | operations | interacts by | hard behaviour |
|---|---|---|---|---|
| `StateStore` (`app/state/state_store.py`) | SQLite tables: `order_id_mappings`, `reservation_ledger`, `reservation_fill_progress`, `reservation_release_tombstones`, broker inventory | one transaction per call | calls from any thread | a call may fail; two calls are not atomic together |
| `ExposureManager` (`app/risk/exposure_manager.py`) | `_reservations`, inventory, the admission flag `_broker_inventory_reconciled` | open, fill, release, hydrate, portfolio gate | RLock around memory only | memory and tables move apart in between |
| `ReservationLifecycleCoordinator` (`app/risk/reservation_lifecycle_coordinator.py`) | none of its own | `on_order_acknowledged`, `on_partial_fill`, `on_full_fill`, `on_terminal_non_fill`, `reconcile_broker_inventory` | called by the router | several threads, no lock |
| `OrderRouter` (`app/execution/order_router.py`) | `_active_order_id_mappings`, pending orders, caches | submit, cancel, poll, post-ack, startup and shutdown reconciliation | HTTP to the venue, calls to the above | lost replies, reads taken at different times, restart |
| `ExecutionEngine` (`app/execution/engine.py`) | queue of admitted signals, pending orders, cancel-once set | submit, sweep, monitor, emergency liquidation | three threads, guard callbacks | admission is checked at the queue, not at the venue; `stop` joins nothing |
| `RiskGuard` (`app/risk/guard.py`) | trading state, latched stops | assess, update pending orders, callbacks | an RLock held over the callbacks | lock order, sweeps inside sweeps |
| `PaperBroker` (`app/execution/paper_broker.py`) | cash and inventory reserves, open orders, positions, matching heap, reports, snapshot | submit, replace, cancel, match, expire, restore | called by the router | reserve arithmetic over partial fills, a crash in the middle of a round |
| `OrderRouter`'s internal paper path | report cursor, status cache, pending orders, mappings | submit and match, sync, poll, cancel | reads the broker's reports, writes reservations | no lock in either: two threads copy and apply the same reports, and undo one another's updates of the broker's sums |
| `MarketFeeds` (`app/data/market_feeds.py`) | transport state and generation, execution truth, provider status, tasks | start, activate, fail over, check health, stop | callbacks of the clients, one event loop | late callbacks, a failure during an activation, cancellation |
| `BatchedAlpacaPollingClient` (`app/data/polling_client.py`) | circuit, consecutive failures, request budget | poll, request, retry, stop | workers on one event loop | late answers, half-open probe, Retry-After |
| `OperatorPaperSupervisor` (`app/api/operator_paper_supervisor.py`) | session, process handle, session store | start, stop, status, reconcile, shutdown, load at startup | HTTP handlers on a thread pool, a child process | a restart at any step, a child that outlives the API |
| decision, strategies, brain | numeric windows | evaluate | direct calls | none for a model checker: sequential arithmetic |
| read-only API, telemetry, replay, panel | evidence files | read, report | files, HTTP | outside the trading path |

What makes each of them correct:

* the reservation lifecycle: one decision is on the books at most once; memory
  never shows a fill the journal lacks; a crash at any step loses no exposure of
  a live order and revives none of an ended one;
* the gateway: admission is open only while everything live at the venue is
  reserved; a reservation is freed only by the end of its order; a restart
  recovers what the venue knows;
* the engine: nothing is submitted after a halt, an order is canceled at most
  once, sweeps terminate, no lock cycle with the guard;
* the paper venue: reserves cover what is open, positions and reports agree across a
  crash, an order ends once and its reservation is told how;
* the feeds: what may be traded on comes from the active transport, which runs; a lost
  one is replaced or the run ends; the circuit respects the provider and closes again;
* the supervisor: one paper process at a time, none forgotten, and a session that is
  over does not block the next.

`PROJECT.json` lists the components with their status and the hazards with the
line at which each bites.

## The modules

    DurableReservation          what the durable tables promise (abstract)
      ^ implemented by                        ^ implemented by
    ReservationLifecycle  EXTENDS ReservationStore      GatewayOrders
      ^ MCReservationLifecycle                ^ MCGatewayOrders, GatewayOrders_proofs
      ^ ReservationLifecycle_proofs
          ^ ReservationSerial_proofs
    ExecutionEngine   (the router as GatewayOrders shows it)
      ^ MCExecutionEngine, ExecutionEngine_proofs
    PaperRouter  EXTENDS PaperBroker
      ^ MCPaperRouter, PaperRouter_proofs
    FeedActivation                            RequestCircuit   (one client of FeedActivation)
      ^ MCFeedActivation,                       ^ MCRequestCircuit, RequestCircuit_proofs
        FeedActivation_proofs
    PaperSupervisor
      ^ MCPaperSupervisor, PaperSupervisor_proofs

**ReservationStore** is the three reservation tables. `UpsertAccepted`,
`RecordAccepted` and `TombstoneAccepted` are the conditions under which
`StateStore` accepts a write: a terminal row is not reopened, one active row per
dedupe key, no active row under a tombstone, no second journal row for a
cumulative quantity or key; a repeated key or tombstone answers TRUE and changes
nothing.

**ReservationLifecycle** is one call of the coordinator cut at every access to
memory or to a table. `pc[w]` is the step at which worker `w` stands and
`call[w]` holds its locals: `o_*` opens (`guarded_open_reservation`), `f_*`
fills (`guarded_apply_fill_to_reservation`), `r_*` releases
(`guarded_release_reservation`). A `Report*` action is the router's choice of
call for what it read. `Crash` drops memory and calls, `Restart` is the
bootstrap of `main.py` with `hydrate_reservations_from_ledger`. Any store call
may fail when `FaultyStore`. `venue` is external: how an order fills and ends.
Quantities are lots of the order's own step; an order may be for more than its
reservation (`OrderQty` > `Qty`), as after quantising down.

**GatewayOrders** is `OrderRouter` on the external paper path. `task` is the
reconciling thread: it submits (`Post`, `Register`, `Reserve`), reads the venue
one request at a time into `seen` (`ReadStatus`, `ReadOrders`, `ReadPositions`),
applies what it read (`BookFill`, `ApplyFill`, `ApplyRelease`, `MarkEnded`) and
reconciles the inventory (`ReconcileInventory`, `Confirm`); the same steps serve
a mapping at startup and at shutdown. `poll` is the other threads: a cancel's or
status poll's answer, applied by `MarkPolled`. `gate` is
`_broker_inventory_reconciled`; `Matches` is the comparison that
`reconcile_broker_inventory` and `ingest_reconciled_broker_inventory` make
between open orders, active mappings, active rows, memory and positions. The
coordinator's calls are single steps here, with the outcomes
ReservationLifecycle gives them; a crash inside one leaves what a failure of its
last writes leaves. Other refusals of the inventory (account flags, cash, prices, durable
read-back) are the disjunct of `Reconcile` that may refuse for reasons of its
own.

**ExecutionEngine** is `ExecutionEngine` and the part of `RiskGuard` that calls
back into it, one thread per program counter. `main` is the main loop, which admits
signals (`Admit`) and assesses the risk: `Assess` takes the guard's lock (`owner`) and
`Act` releases it, and in between `CheckFloor`, `CheckFuse` and `CheckOutage` run the
callbacks, a recalibration that cancels what is pending (`CancelNext`) or an emergency
(`EmergencyClear`, `EmergencyStop`, and `EmergencyCancel` by the pool). `exec` is the
executor: `ExecutorLoop` is its one look at `is_running`, `Get` the wait on the queue,
`Send` and `File` the two halves of `_execute_signal`. `sweep` is the sweeper with its
two passes. `pcv[t]` is `_cancel_pending_order_with_pcv`, cut where it gives up the
engine's lock or calls the router, as the main loop and the sweeper each run it. The
monitor thread and latency are left out: they close admission, and `Admit` may
always be refused. The router is reduced to `Status`, `CancelAcked` and `CancelFails`
with the mapping that GatewayOrders maintains. An exception out of the router after it
has acknowledged an order is not modelled.

**PaperBroker** is the internal venue. `book` is what `open_orders`, `reserved_cash`,
the reserved and owned quantities and `execution_reports` hold, `queue` the client ids on
the matching heap, `disk` the last snapshot. `Submit`, `Cancel` and `Replace` are single
calls; a matching round (`process_matching_detailed`) is cut after every order it takes
off the heap (`Take...`), with `Expire` and `EndRound` behind it, so that a crash
(`CrashAndRestore`) or a caller on another thread may come in between. `Matched` is
`_attempt_match` for a market that lets the order fill `n`; `Filled`, `Ended`, `Reserve`
and `Release` are `_execute_fill`, `_expire_or_cancel`, `_reserve_for_order` and
`_release_reservation`. `Filled` is `Booked`, the new position, and then `Settled`, what is
released and reported. `Submit` and `Cancel` take the book whose sums the caller has read
(`b`); a caller without rivals has read `book` itself.

**PaperRouter** puts `OrderRouter`'s paper path and the engine's threads on top of it.
The executor sends an order and drives one round (`Send`, `Drive`, `Match`, `Driven`,
`Return`); a watcher, the main loop or the sweeper, polls and cancels
(`Poll`, `Claim`, `CancelOpen`, `CancelGone`, `Mark`, `Look`). All of them go through
`_sync_paper_reports`, cut where another thread may come in: `SyncRead` copies the
reports behind the cursor, `SyncTake` looks up the pending order, `SyncApply` writes the
end to reservation, cache and mapping, `SyncEnd` moves the cursor to the end of the list
as it then is.

Neither the router's paper path nor the broker takes a lock. What an order is and has
filled belongs to one thread at a time, since a watcher only cancels orders that wait in
the engine, which have been through the round of their own submission. The sums are
shared: `reserved_cash`, and the position of a symbol with the quantity reserved in it.
Each update reads a sum and writes back what it made of it, so it is two steps:
`ReadToReserve` and `Send` for a submission, `ReadToFill`, `BookFill`, `ReadToSettle` and
`SettleFill` for a fill, `ReadToRelease` and `CancelOpen` for a cancel. `copy[t]` is what
thread `t` has read (`Reads`), `Recalled` the book with these sums in place of its own, and
`lost` names the sums that a thread wrote after another had changed them (`Writes`). A
cancelled sale puts back the whole position, with the quantity owned that it has read.
When the broker is not `routed` it stands alone and one caller uses
all of its calls, as the broker's own tests do.

**FeedActivation** is `MarketFeeds` on the event loop of `main.py`; a step ends at an
await. `task` holds main (`Start`, the wait, `Leaves`, `Gathers`, `Stopped`) and the
failover tasks (`FailsOver`); both share the activation (`Activate`, `Succeeds`,
`Raises`, `SeedRefused`) and the stop of the old clients (`Release`, `Halts`, `Goes`).
A client calls back at any time while its tasks run (`up`), also after it was let
go (`held`): `Delivers`, `RefusesTrade`, `Reports`. `Current` is the check by generation
and provider that a callback passes or not. `truth` is `_execution_truth_active`; `Lost`
withdraws it. `Swallows` is the cancellation that the stop of a polling client takes for
its own.

**RequestCircuit** is the REST client that FeedActivation sees as one client: the
workers of a poll, their requests with retries, and `_circuit_state`. `Admit`, `Probe`
and `Refuse` are the check at the head of `_request`, `Send` the slot of the budget,
`Succeeds`, `RateLimited`, `Rejected`, `Malformed` and `Errs` the kinds of answer, `Leaves`
with `Unresolved` its `finally` clause. Time passes in ticks.

**PaperSupervisor** is `OperatorPaperSupervisor` with its session store and its children.
A request is cut at every call that polls, signals, launches or waits for a process and
at every write of the store; `_refresh_process_state`, with which each begins, is `Poll`
and `Apply`. `Restart` is the death of the API process and what `__init__` and
`_reconcile_latest_session_on_startup` find: `Adopt`, `FindGone`, `LeaveUnknown`.

**DurableReservation** is the promise both implement: a reservation opens
once per decision, its durable fill only grows, it ends complete or released,
and nothing happens afterwards.

Definitions named `X_Something` just before an `X` are faults: each is the code
as a plausible bug would make it. No specification uses them; they record which
mistake each property catches.

## The runs

| run | asks | instance | answer |
|---|---|---|---|
| ResGateway | memory, ledger, journal and tombstones agree through failures and crashes; the tables implement DurableReservation | two orders of one decision, one thread, orders of 4 over reservations of 2, failing store, one crash | holds (504k states) |
| ResDuplicateReport | is a repeated fill applied once? | one order, two threads | violated, finding |
| GwOrders | open admission covers every live order; nothing freed before its end; the tables implement DurableReservation | one order of 2, failing reads and writes, one crash, one shutdown | holds (170k) |
| GwConflict | one order's reconciliation does not hide another's conflict | two orders, failing reads, one crash | holds (337k) |
| GwLostReply | is admission covered when a reply is lost? | one order, lost replies only | violated, finding |
| GwRestart | does an orderly restart reopen admission? | one order, one shutdown, no failure | violated, finding |
| ExEngine | an order is canceled once, tracked until it ends and then forgotten; sweeps end; a fuse stops the engine | one order, failing calls, an operator who stops the engine, under fairness | holds (474k) |
| ExAbsolute | does the fuse stop everything? | one order, nothing fails | violated, finding |
| PaperPath | reserves, positions and reports agree; an order ends once and its end is known everywhere | two orders of every kind; either two threads on the router's broker, each update of a sum a read and a write, or one caller with a replacement and a crash | holds (2.40M, orders symmetric) |
| FeedSwitch | what may be traded on is the active transport's; a lost one is replaced or the run ends; stop ends | a stream with its REST fallback, two books and two candles, two failover tasks, one cancellation, under fairness | holds (15k) |
| RestCircuit | a Retry-After is kept, an open circuit lets little through, and it closes again | three workers, four batches, two retries, threshold 3, Retry-After of 1 or 2 over a cooldown of 1, under fairness | holds (56k) |
| PaperSerial | a second or forgotten process only behind a refused start; a session that is over stops blocking | one request at a time, three sessions, the API process dies twice, under fairness | holds (21k) |

Bounds. Two reservations of one dedupe key are the smallest set in which the
dedupe rules can go wrong, and reservations of different keys share no state.
Quantity 2 separates empty, partial and complete; `OrderQty` 4 adds fills
beyond the reservation, twice. One crash reaches every step, and what a second one finds
is what the first left, because a restart leaves the same kinds of state as a crash. Two
gateway orders are one being reconciled and one that is not. The counters `crashes`,
`stops`, `replaces` and `restarts` bound nothing else.

In ExecutionEngine orders meet only in the queue, so one order shows everything but
what a second waiting signal does, which `OneLateOrderHolds` proves. `age` has three
values, below and above the sweeper's limit and above the limit for unknown
statuses; the guard's limit is the sweeper's (both 5 seconds in `main.py`). An order
ages, ends and is sent once, so no counter needs a bound.

PaperPath draws what an order asks for from `Asks` in MCPaperRouter: both sides, market and
limit, every time in force, quantity 2, which fills in one round or in two; two orders on
one symbol share a position and a reserve, and two threads are enough for one to undo
what the other wrote. One replacement is enough for a reserve that outlasts its order,
and prices 1 and 2 make it dearer or cheaper. FeedSwitch has no bound on activations: a provider that failed is not
selected again, so there are at most two. Two failover tasks are one more than ever run.
In RestCircuit a provider that is `sick` may answer anything; three requests let two late
answers meet a probe. Three sessions are a process, the refusal that
hides it and the start after that; a fourth adds another of these.

`CHECK_DEADLOCK FALSE` is set where the system really may stop: all orders have ended (gateway,
paper), the event loop has closed (feeds), or the store is full (supervisor).
`GwConflict` and `PaperPath` use the symmetry of the orders and check no liveness.

Fairness. Four runs check liveness.

* ExEngine: the main loop finishes an assessment it began, the sweeper and a cancel go on
  (weak fairness of `Assessment`, `Sweeper`, `Cancellation`). The sweeper needs the
  guard's lock in `Update`, which an assessment holds once in a candle, so it gets it at
  last (strong fairness of `Update`); and a status that is asked in every sweep is
  answered at last (strong fairness of `Answered`): a venue that never answers again
  leaves an order pending for good. Nothing is assumed of admission, of the executor, of
  the venue or of the operator.
* FeedSwitch: the event loop runs every task that is ready, a client starts or does not,
  stops, and reports the value that was refused, and the health check comes back every
  second (weak fairness each). Nothing is assumed of the data or of the owner.
* RestCircuit: polls go on, a request gets its slot and its answer or a timeout, and time
  passes. That the provider recovers is not assumed: the property says what follows if it does.
* PaperSerial: handlers run on and a child's run is bounded in time (weak fairness); the
  panel polls the status and the operator reconciles again and again, also while other
  requests keep coming in between (strong fairness).

All other properties hold however the threads are scheduled.
`ConflictRevokes` is checked without failing writes: with them the first of the
two conflict marks may fail and the second succeed after the inventory, and the
property does not hold (the order is then reserved, and `AdmissionCovered` still
does). It is among the hazards.

What the runs rest on and a reader might trip over:

* `SecondChildIsMasked` and `NoChildForgotten` name the one way in which a second
  paper process can start: a start that is refused while one runs is stored as the latest
  session, so a restart looks at the refusal and not at the process. Without that clause
  neither property holds.
* `EndsAreSeen` speaks of orders that were not sent or cancelled while another thread was
  in `_sync_paper_reports` (`met`). For the others it does not hold: the cursor moves to
  the end of a list that grew, and a cancel may find its order's report already taken.
* `ReservationsCover` is an equality only while nothing was replaced: `replace_order`
  reserves the filled part of an order again and never gives it back.
* `ReservationsCover` and `PositionsMatchFills` speak of the sums that are not `lost`. For
  the others neither holds, and the run reaches them: a cancel reads the position of its
  symbol, the executor books a fill, and the cancel writes back the position without it.
  Nothing in the code rules this out and no document claims that it cannot be, so it is
  listed as a hazard and no run is about it. All that is not such a sum, the orders, what
  they filled and their ends, is checked in these states too.
* `RetryAfterKept` is about one client. A failover builds a new one, whose circuit is
  closed whatever the provider told the old one; and a request that waits for its slot
  when another is limited is sent all the same (`OncePerOpening` counts these).
* A half-open circuit may have two probes at once (see the hazards).

## What is proved

`ReservationLifecycle_proofs`, for every finite set of ids, every set of
workers, every quantity and every failure:

* `TypeCorrect`: `Spec => []TypeOK`. `TypeOK` is not inductive by itself: a
  worker that releases must have something to release, and one that records a
  fill must record a positive quantity, or the row it computes next is no row.
  `IInv` adds these two facts (`ControlOK`) and is proved step by step, one lemma per group
  of actions.
* `OneActivePerDedupeHolds`: each step of each worker is, for the tables, one
  accepted write or none (`NextIsStoreStep`), and an accepted write keeps the
  property.
* `JournalAdvancesHolds`: from the same reduction.

`ReservationSerial_proofs`, for calls that come one after the other (`Serial`: at most one
worker, the hypothesis of each theorem), any store call that fails and any number of
crashes. With two workers a repeated report is applied twice (the finding of
ResDuplicateReport) and memory and tables do part. `SInv` ties the step at which the worker
stands to memory and tables:

* `Together`: a terminal row accounts for its release, an open row shows no more than
  the journal and a row that was never written has no history (`RowsOK`), and a
  reservation that is held is `Backed`, by an open row without a tombstone and the
  journal's quantity, unless a call stands at one of `ApartSteps` (`MemoryOK`).
* `CallsOK`: what a call has established at each of its steps (`OpenKnows`, `FillKnows`,
  `ReleaseKnows`). It is needed because a call decides by what it read some steps earlier.

From it follow `WriteAheadHolds`, `MemoryCaughtUpHolds`, `MemoryBackedHolds`,
`NoForgottenExposureHolds` and `TerminalRowAccountsHolds`, and `ImplementsDurableHolds`:
each step is, for the tables, a step of DurableReservation or none.

`GatewayOrders_proofs`, for every finite set of orders, every quantity, lost
replies, failing reads and writes, and any number of crashes and shutdowns; one
lemma per action, each with one step per conjunct the action touches:

* `TypeCorrect`: `Spec => []TypeOK`. Not inductive by itself for two reasons. A
  status is read of posted orders only (an order that was refused or never posted
  has a status no read can hold), so `OrdersPosted` says that every mapping and
  every thread refers to posted orders. A fill adds one, so `VenueSound` says that
  a live order has something left to fill, and that an admitted order is not at
  the venue yet.
* `ReleasedOnlyAfterEndHolds`: `Spec => []ReleasedOnlyAfterEnd`. A release rests
  on a status read several steps earlier, while cancels, polls and fills go on.
  `ReadsHold` says that an order read as ended has ended, and that the release
  step is reached only by such an order.
* `AdmissionCoveredHolds`, when no reply is lost (the finding of GwLostReply is what
  happens otherwise): admission is opened after a venue that was read request by request,
  so `CoverInv` says that a live order that the reads have missed is one that they need not see
  (`SeenOpen`), that an open gate covers what is live (`GateCovers`), and that nothing
  is in flight while the process is down (`DownIsIdle`).
* `ConflictRevokesHolds`, when writes do not fail (see the second conflict mark among the
  hazards): `ConflictInv` says that the inventory sees the conflict that a boundary marked.
* `ImplementsDurableHolds`: every step is, for the tables, a step of DurableReservation or
  none, with all failures allowed. `DurableInv` says that the reservation that is held shows the
  journal's quantity and that an order that was not opened has no history.

`ExecutionEngine_proofs`, for every finite set of orders, with or without failing calls;
one lemma per thread, one step per action, and `Frame` for what an action leaves alone:

* `CancelOnceHolds`: `CancelsCounted` says that a thread about to send a cancel has
  claimed the order, that nothing was sent for it, and that the two threads have not
  claimed the same one.
* `OneLateOrderHolds`: `LateStopped` says that once an order was sent late the engine has
  stopped and the executor is past its wait, from which it does not start another.
* `FuseStopsHolds`: `FuseActed` says that while the engine runs under a fuse, either no
  signal got in since the start, or the main loop is on its way to stop it.
* `PendingCompleteHolds`: needs `WaitingUnmapped`, that a signal about to be sent has no
  mapping yet, or a lost reply would leave an active mapping that nobody tracks.
* `TypeCorrect`, with `ExecutorHasOrder` and `CancelHasOrder`: a thread has an order at
  the steps that use one.

`PaperSupervisor_proofs`, for every number of sessions, any number of restarts of the API
process and at most one request thread (`Serial`, the hypothesis of each theorem):

* `SecondChildIsMaskedHolds`, `NoChildForgottenHolds`: what the supervisor holds in memory
  says too little about the processes. `LiveBlocks` says that the session of a process
  that runs has a status that blocks a start; `HandleOfCurrent` that the handle is the one of
  the current session; `LaterRefused` that sessions after the current one were refused;
  `EarlierMasked` that one before it that still blocks is behind a refusal; `StartKnows`, `PollKnows` and `EndKnows` what a request has
  established at each of its steps. `IInv` is their conjunction, with the types.
* `ActiveIsHeldHolds`, `TypeCorrect`: from the same invariant.

`RequestCircuit_proofs`, for every set of workers, every threshold, number of retries,
cooldown and Retry-After:

* `RetryAfterKeptHolds`: the circuit of a limited client is not closed before its time, and
  every opening cools down for as long as it must (`OpeningCools`).
* `OncePerOpeningHolds`: only two steps put a request at the provider (`SentOnly`).
* `TypeCorrect`, with `AttemptLeft`: a request that backs off has an attempt left.

`FeedActivation_proofs`, for every list of providers, every set of data and of failover
tasks:

* `SoleActivatorHolds`: `StartingKnows` and `MainKnows` say in which phase of the transport
  each task can be at each of its steps, `FailoverKnown` which failover task is the current one.
* `TruthIsBackedHolds`: the client in use is the one of the active transport and runs
  (`HeldOfActive`, `HeldRuns`), and truth is only claimed in a phase in which it is held
  (`TruthKnows`). `NoneLeaks` says that no other client is left running.
* `CurrentDataHolds`, over the same invariant `IInv`: what is traded on came from the
  transport that is active, although data of the old one may arrive in between.
* `NoOverlapHolds`, `TypeCorrect`.

`PaperRouter_proofs`, for every finite set of orders, every set of requests and of watchers,
any number of replacements and crashes. Reserves are sums over the open orders; what a sum
does when an order enters, leaves or changes is proved first (`SumExists` and what
follows it), from the least set on which it would fail.

* `ReservationsCoverHolds`, `PositionsMatchFillsHolds`, `EndsOnceHolds`: `Sound(b)` says of
  a book that its reserves cover its open orders, that positions are the reported fills and
  that an order has one end. It is said of the book in memory and of the one on disk, since a
  crash brings the second back, and is proved of each operator of PaperBroker (`Placed`,
  `Ended`, `Filled`, `Matched`, ...) and then of each step. With two threads the book is
  `Plain` only: sound but for its sums. `Mended(book)`, the book with every sum set right, is
  sound, and is what the lemmas on the operators are cited for. `SumsKept` carries the
  sums: a sum that is not `lost` is right, and a write that does not add it to `lost` was
  made of what the sum still is, so it does to it what the operator does to the sum of the
  mended book. A fill that is booked and not yet reported is the one difference
  (`Unreported`).
* `ReleasedAsEndedHolds`: a thread applies a copy of the reports. `ControlInv` says
  that a copy is of reports that exist, and that the router's reports are only added to.
* `EndsAreSeenHolds`: `SeenInv` says, for an order that no other thread met, what the router
  knows of it at each step of the executor that sends it and of the watcher that cancels
  it (`Sending`, `Cancelling`), and that it knows everything when no thread works on it
  (`Settled`). `Course` says what the threads may be doing: one watcher cancels an
  order, an order that is still being sent is cancelled by none.
* `TypeCorrect`.

Assumed: the named `ASSUME`s of the modules (finite sets of ids, positive quantities and
prices, names that no id takes), which TLC evaluates in every run, and the hypotheses `Serial`,
`~LostReplies` and `~FaultyStore` where a theorem states them; ResGateway, GwOrders,
GwConflict and PaperSerial check the same properties under the same ones.
`OneActivePerDedupe`, `JournalAdvances`, `OneLateOrder` and `ActiveIsHeld` are proved and
no run checks them.

Only model-checked: liveness (`SweepEnds`, `EndedForgotten`, `LossIsResolved`, `RunEnds`,
`CircuitHeals`, `GoneUnblocks`), which with ENABLED is out of the prover's reach. What the
four findings violate is not proved, of course.

`MaxCum` is a CHOOSE over a bounded set and is reasoned about through `MaxCumFacts`,
whose proof uses the well-foundedness of the naturals.

## Not modelled

Of the components that are modelled:

* Decimal arithmetic beyond lots of one step, prices and notionals; the live broker paths
  (blocked by `live_blocked`); telemetry and TCA records.
* GatewayOrders: a submission that overlaps a shutdown (ReservationLifecycle has it); more
  than one submission in flight (the engine has one executor thread).
* PaperBroker: balances, fees and slippage, refusals of strict mode, venue sessions, the
  passive queue position, the journal, and a client id that is used again.
* FeedActivation: how the universe is ranked, the lock of a switch, symbols that are only
  observed, errors of the configuration, a second cancellation, a client whose stop raises.
* RequestCircuit: the rate of the request budget (its slots are there), and the clients that
  a failover replaces.
* PaperSupervisor: requests that overlap each other (a late poll may then turn an ended
  session back into a running one, see the hazards), a write of the session store that fails,
  which parts the session object from its row, and a process id that the system gives to
  another process. A start that the API refuses before the supervisor decides
  (`generic_refusal`) persists nothing and is no step.
* RiskGuard: `check_velocity_of_loss` is called by nothing, and neither is the trigger of
  `KillSwitch` outside tests; there is no behaviour of the program to model.

The other components are listed as not modelled in `PROJECT.json` with the reason. They
are most of the repository by size: evaluation of strategies and of the decision, which
is sequential arithmetic on one thread, and evidence, reports and read-only
views, which decide nothing. `main_loop.py` is in this class but for the calls that
ExecutionEngine and FeedActivation take from it.

Seen while modelling and not checked by a run: a failed hydration is logged and leaves the
lifecycle enabled (`main.py:1135`), and an open puts the reservation into memory
before its row, where the comment at `state_store.py:30` has it the other way round.

## Plan

Done: the reservation lifecycle, the gateway, the engine with the guard, the internal paper
path, the feeds, the request circuit, the supervisor; a theorem for each safety property
that a passing run checks. Left, in order of importance:

1. `GatewayOrders` with the shutdown overlapping a submission, and the liveness of admission.
2. `ExecutionEngine`: a run for the verification after a cancel, which polls what the
   cancel itself wrote (see the hazards).
3. PaperSupervisor with overlapping requests and with object and row apart; the rate of the
   request budget.
4. `InventoryProjection`: effective fills under corrections and busts and the FIFO
   allocation of sells as folds, checked against a declarative reference.
