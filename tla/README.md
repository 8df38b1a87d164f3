# TLA+ models of the signal-to-order layer

The repository turns target positions that Python strategies write into a
shared-memory ring into orders on Hyperliquid. The Rust process between the two
has a core thread that must not block, an edge (async tasks) that talks to the
venue, a writer thread that records the session, and a supervisor that has to
leave nothing behind when it stops. The modules here model the protocols between
those parts: what can interleave, what can be lost or come late, what is kept
over a crash, and what has to hold all the same. Pure parts (the plan of an order,
the allocation of a pass, the request budgets, the order of a replay) are
operators that the protocols use. Encodings, formatting and the arithmetic of
money are left out unless a property depends on them.

Paths are relative to `src/`; `R/` stands for `crates/axon-runtime/src/`, `X/` for
`crates/axon-execution/src/`, `S/` for `crates/axon-strategy/src/`, `H/` for
`crates/axon-provider-hyperliquid/src/`.

## 1. Inventory

| Component | State | Operations | Modelled by |
|---|---|---|---|
| Signal ring (`crates/axon-ipc/src/lib.rs`, `python/axon/signals/__init__.py`) | `head`, `tail`, slots in shared memory | push, pop, batched read, attach by a new producer | `SignalRing`, `BoundedFifo` |
| Runner and strategy context (`python/axon/live/runner.py`, `python/axon/strategy/context.py`) | outbox, sequence number | emit, flush, raise on backpressure | `SignalPath` |
| Signal reader (`S/reader.rs`), lazy attach (`R/intent.rs`) | sequence baseline, counters, records held over | attach, drain, admit | `SignalPath` |
| Target book (`S/book.rs`, `R/intent.rs`) | a claim per producer and symbol, re-quote counts, net sequence numbers | set, net, allocate, re-quote, expire by silence | `TargetBook`; abstracted in `IntentPipeline` |
| Planner (`S/planner.rs`, `crates/axon-providers/src/instrument.rs`) | none | plan | `Planner` |
| In-flight gate (`X/inflight.rs`) | one bit per symbol, one shared overflow word | claim, release, contains | `InFlight` |
| Intent pass, queue, pump (`R/intent.rs`) | held records, bounded channel, intent being submitted | poll (admit, plan, sweep, re-quote), send, pump, submit | `IntentPipeline`, `IntentSlots` |
| Guard, limits, marks (`X/guard.rs`, `X/limiter.rs`, `X/marks.rs`, `crates/axon-risk/src`) | prices by source, loss latch | check, place, cancel, observe a price | `RiskGate`, `MarkCache`, `OrderPath` |
| Loss limits, day book (`X/loss.rs`, `R/pnl.rs`, `R/daybook.rs`, `R/core.rs`) | the day's baseline in memory and on disk, the latch | judge, roll, store, load | `DayBook` |
| Request budgets (`H/governor.rs`) | sliding window of weights, address credits, throttle | try place, cancel, info; take the venue's reading | `RateGovernor` |
| Order tracker (`X/tracker.rs`) | orders, position, window of trade ids | ack, fill, update, adopt | `OrderTracker`; in `OrderPath` with `risk_position`; in `IntentPipeline` as the set of open orders |
| Reconciliation (`R/reconcile.rs`), websocket life (`H/ws/client.rs`) | the rows of a poll, its report | poll, compare, publish; drop, subscribe again | `Reconcile` over `OrderTracker` |
| Halt switch (`X/halt.rs`), dead-man's switch (`R/dms.rs`), shutdown (`R/session.rs`, `R/shutdown.rs`) | running, halted, stopped; deadline, failures; progress of the unwinding | halt, resume, stop; check, arm, sleep; join, sweep, disarm | `SessionSafety` |
| Core loop, bus, handler, market state (`R/core.rs`, `R/handler.rs`, `crates/axon-core/src`, `crates/axon-marketdata/src`) | bounded bus, top of book, clock | drain, apply, fan out | `MarketPath`; `Recording` for the timing of its passes |
| Market-data rings, beacon, monitor (`R/mdring.rs`, `crates/axon-ipc/src/beacon.rs`, `python/axon/parity/beacon.py`, `monitor.py`) | last slice, forming bar; a file written in place | publish, beat, snapshot, conclude | `MarketPath`, `Beacon` |
| Recording (`R/capture.rs`) and replay (`crates/axon-replay`) | hand-off queue, files and their names, size cap | tap, write, finish, abandon; release by time | `Recording`, `TapeReplay` |
| Health, self-test, features and models, encodings, Binance, provider traits, configuration, layouts | | | not modelled, section 7 |

How they interact. The websocket's reader and the poll put events on a bounded
bus. The core drains it, applies each event to the tracker, the prices, the
market-data rings and the recorder's taps, beats the beacon and runs
`IntentSource::poll`. A pass reads the ring, takes targets into the book, scales
them to budgets and limits, plans each symbol from the tracker's open orders,
claims it in the gate and puts an intent on a bounded queue. The pump (one edge
task) takes intents one at a time: cancels, then places through the halt switch,
the guard and the request budgets, records the reply in the tracker and releases
the symbol. The re-arm loop moves the venue's deadline and halts and resumes the
session; the supervisor stops pump, switch and loop in a fixed order.

What is hard in it, and the property that would notice:

* one target must not become two orders, with planner, pump and venue each a step
  behind the others: `OneIntentPerSymbol`, `RestingOrdersAreKnown`,
  `OneLiveOrderPerSymbol`, `ImplementsSlots`;
* a slot that is never given back silences a symbol; a held record must be
  neither lost nor starved nor acted on late or after a newer one:
  `NothingWaitsForEver`, `NoTargetLost`, `TargetsMoveForward`, `ActedTargetsAreFresh`;
* two processes in two languages write and read a ring whose counters wrap, either
  may be started again under the other, and the ring may be full: `RingInv`,
  `ImplementsFifo`, `HandoverInv`, `BackpressureKeepsOrder`, `EmittedIsRead`;
* several producers share one account, fall silent, and draw on one space of ids:
  `BookInv`, `AbandonedExposureIsUnwound`;
* limits are checked against what is known, then the order is away for a round
  trip, while frames, prices and replies come late or never: `LimitsInv`,
  `TrippedOnlyShrinks`, `PlansAreRight`;
* a loss must throw the switch across restarts, midnights and torn files:
  `LossesTrip`; a budget of requests is somebody else's count: `TheWindowIsExact`,
  `NoPlaceMeetsTheLimit`;
* frames are repeated, late, out of order, and lost with a socket: `AccountInv`,
  `SettledIsTheVenues`, `LossesAreMadeGoodOrReported`;
* prices have two sources and two clocks, rings refuse, a reader copies what is
  being written: `MarksServeTheGate`, `FeedInv`, `RoomMeansCurrent`,
  `BeaconInv`, `DeathIsNoticed`;
* a log is cut by a full queue, a failing disk or a kill, and is replayed later:
  `LogsInv`, `ReplayInv`, `ARecordingEnds`;
* protection is a deadline somebody else holds, while this process may freeze or
  fail to reach it, and its end is a race between tasks: `ProtectionInv`,
  `LeftOrdersAreProtected`, `NothingPlacedBehindTheSweep`, `ShutdownCompletes`.

`PROJECT.json` lists every hazard at its line.

## 2. Modules

```
InFlight -> IntentPipeline (-> IntentSlots)      SignalRing (-> BoundedFifo) -> SignalPath
Planner -> RiskGate -> DayBook -> OrderPath      TargetBook
              RateGovernor -----------^          OrderTracker -> Reconcile
Beacon, MarkCache -> MarketPath                  TapeReplay -> Recording
SessionSafety

IntentPipeline -> IntentPipelineProofs           SignalPath -> SignalPathProofs
SessionSafety -> SessionSafetyProofs             MarketPath -> MarketPathProofs
Recording -> RecordingProofs                     Reconcile -> ReconcileProofs
OrderPath -> OrderPathProofs                     TargetBook -> TargetBookProofs
```

`A -> B`: B extends A. In brackets: the abstract specification it implements.
The modules `MC...` give TLC its constants, the modules `...Proofs` hold theorems
(section 5). Each of the latter can be read and checked on its own: what
`OrderPathProofs`, `ReconcileProofs` and `TargetBookProofs` need of sums over finite sets
stands at the head of each.

**`InFlight`** is the gate. `Covered` symbols (index below `CAPACITY`) have a bit of
their own in `bits`; all others share `overflow`. The two atomics are one step each,
as in the code.

**`IntentPipeline`** is the path from a drained record to an order. `pc` is the
stage of the core in `poll`: `BeginPass` (held and drained records merged, the stop
check), `AdmitRecord` (stage 1), `PlanSymbol` (stage 3), `EndPlanning`, `SweepSymbol`,
`EndSweep` (order sweeper), `RequoteSymbol` (re-quote with its budget). A claim
(`Offer`) and the send that follows (`TrySend`) are separate steps, because the edge
can release in between. `epc` is the stage of the pump in `submit_intent`: `Receive`,
`CancelOne` (the order goes, is gone, or the cancel fails and it rests on; an error is
passed over, as in the code), `CancelsDone` (the halt check), `Place` with its four
outcomes, `Ack`, `Finish`. `survived` is a history variable: the orders that rest although
a cancel was sent for them. The venue closes orders whenever it likes (`VenueClose`) and announces on
`frames`, which the core applies between passes (`ApplyFrame`). The tracker's read
lock is held from the head of a pass to its end, so `Ack` waits for `pc = "idle"`.
Here the planner is free to return any plan its code can return for the working
orders it sees, and any open order may be past its lifetime; `Planner` and
`TargetBook` have what is left open here.

**`IntentSlots`** is what the path promises the venue with all that left out: each
symbol's slot is free, open or spent, an order is placed only under an open slot, and
only when every other order of the symbol that rests (`kept`) was asked to leave under that
slot in vain.

**`SignalRing`** has one step for every access to a counter of the other side and
for each half of a record's copy. `TryPush`, `CopyLoIn`, `CopyHiIn`, `Publish` are a
push; `TryPop`, `ReadSlot`, `CopyLoOut`, `CopyHiOut`, `ReleaseSlots` a pop of the Rust
consumer or a batch of the Python one (`Readers`). Rust wraps its counters
(`Modulus`); Python subtracts unbounded integers. `Restart` and `ZeroTail` are the
constructor of a new Python producer on an existing file. **`BoundedFifo`** is the
queue it implements while no producer is replaced.

**`SignalPath`** puts the runner on one end and the reader on the other. The runner's
event handler emits into the outbox (`Handle`), a flush pushes its head until the ring
is full (`Push`, `Pushed`, `PushRefused`) and raises past the limit; the core attaches
when there is a ring and drains up to a number of records in a pass (`BeginPass`,
`Pop`, `Take`, `EndDrain`), judges each by sequence number and age (`Admit`), and
acts on it, or holds it over (`Plan`). Either process is started again
(`RestartRunner`, `RestartCore`). A life of the runner numbers its targets from a `first_seq`
of its own (`FirstSeqs`): zero, which the code defaults to, or one above what its predecessor
used, which `python/axon/strategies/live_runner.py:668-678` asks for. `reused` is a history
variable: whether some life was started on numbers an earlier one had used. Time is the wall
clock of both.

**`Planner`**, **`RiskGate`**, **`DayBook`**, **`RateGovernor`** are the operators
`plan`, the guard's checks of one symbol and of the book, the loss judgement with the
baseline's life on disk, and the governor with its sliding window. **`OrderPath`**
composes them with the tracker: `PlanSymbol` queues a plan; `PumpCancel`,
`PumpPlace` (guard, governor, latch), `PumpHears`, `PumpDone` are the edge;
`VenueAccepts`, `VenueRefuses`, `Trade` are the venue; `OrderFrame` and `FillFrame`
reach the tracker in any order; `MarkMoves`, `Tick`, `StepBack`, `AskBudget`,
`HearBudget`, `Swing`, `PollAccount`, `Midnight`, `StatusPass`, `Restart` are its
surroundings. The quotes of a session may be locked, crossed or one-sided, on which the code
plans nothing (`Usable`). A `session` (a record in a set of them) says which limits, budgets and
events a behaviour has, so that one run explores several small worlds. Lots, ticks
and prices are small integers. `misread` and `stacked` are history variables: the
symbols where the gate could not see, or set off, what was at work when it let an order
pass, and those where an order of a tripped session joined another on its side
(section 6).

**`OrderTracker`** is `X/tracker.rs` for one instrument: the venue's truth (`venue`,
`trades`), the sources of news (`replies`, `fills`, `updates`, `rows`) each in its
own order, and the tracker's `orders`, `position` and window `seen`. `OnAck`,
`ApplyFill`, `ApplyUpdate`, `ApplyRow` are the handlers. A socket drops (`Drop`) and
takes what the bus does not hold yet; the next one (`Resubscribe`) replays recent
fills and no order updates. `overtaken` is a history variable: the orders whose news
arrived out of order, for which the code's promise is weaker (section 6).
**`Reconcile`** adds the poll: `AskOrders`, then `ReadAccount`, `AccountRefused` or
`AccountFails`, then `Publish` with what `diff` finds and with any part of the rows
lost to a full bus. An order told of within the grace is any subset (`young`).

**`MarkCache`**, **`Beacon`** and **`MarketPath`**: the handler's fan-out of a market
event to the mark cache, the slice ring and the bar ring, the beacon's stores one by
one (`BeatEvent`, `BeatCounters`, `BeatCount`), the reader's copy in two halves, and
what the monitor concludes from two snapshots (`PublisherState`).

**`TapeReplay`** has the two ways to walk recorded tapes, the watch on their order and
the release of signals by time. **`Recording`** has the core's taps, the bounded
hand-off, the writer thread, the size cap, `.partial` names, `finish` with its two
renames, abandonment and a kill; a replay of the logs it leaves is an operator.

**`TargetBook`** is the book of `S/book.rs` with the parts of a pass that depend on
what it holds: claims and their age, silence policies, exclusive and netted overlap,
the scaling to each producer's budget and to the book's limits, breadth, sequence
numbers, client ids, the order sweep and re-quotes. A pass is `Read`, `Allocate`, `PlanAll`.
Orders have a lifetime or none (`max_order_age_ms = 0`, with which neither the sweep nor the
re-quote runs); an order the sweep has asked for is not asked for again within another
lifetime. `Submit` cancels, any cancel may fail and leave its order at work beside the new
one, and nothing is placed while trading is halted (`Halt`: the switch, thrown and taken
back at any moment). `Reprice` takes a symbol's quote away, or makes it one on which what
is wanted cannot be expressed; an empty plan of the second kind is reported (`stranded`), of
the first it is not, as in the code. The price and the urgency of a target are left out; plans
go straight to the difference.

**`SessionSafety`** is the end of the session: the re-arm loop (`Check`, `ArmLands`,
`ArmReplied`, `ArmFails`, `Wake`), the pump reduced to its placements, the supervisor
(`BeginUnwind`, `Joined`, `SweepRead`, `SweepCancel`, `Disarm`, `Exit`) and the venue
with its deadline. A request, its effect and its reply are separate steps; an arm that
the client gives up on has reached the venue by then or never does. Every clock counts
down in one unit; `Tick` waits for whatever is due in the process, unless the process
is frozen (`Stalls`). An aborted pump runs on to its next await (`PumpDropped`).

## 3. Runs

| Run | Configuration | What it shows |
|---|---|---|
| `pipeline_contended` | 2 producers contend for 1 symbol (the first keeps it, the other is refused), 1 re-quote, sweep on, 2 orders, 3 drains, cancels that fail, every reply to a placement delivered; producers symmetric | the planner never works from an incomplete picture, two orders of a symbol rest only over a failed cancel, targets in order, refinement of `IntentSlots` |
| `pipeline_progress` | 1 producer, 2 symbols, replies may be lost, fair | gate truthful, one intent per symbol; no target lost, no slot kept, no held target starved |
| `pipeline_ghost_orders` | 1 symbol, 1 order | *violated*: finding 1 |
| `ring_fifo` | 4 slots, counters modulo 8, 10 records, both readers | a bounded queue, no torn record |
| `signal_path` | 1 slot, outbox of 1, up to 4 records, 3 of them of one life, of lifetime 2 over 3 instants; one restart of each process, the runner's on used numbers or on new ones | nothing lost, swapped or torn between the processes; what is acted on is fresh; counters mean what they say; what is emitted is read |
| `market_path` | 4 sessions: quotes with books and tickers, trades with a death of the process, bars, a watched publisher with a death | holes in the bars are marked, bars are final, the reader that makes room is current, prices serve the gate, a death is noticed |
| `order_path` | 8 sessions: exposure (2 and 3 orders), a tripped switch, two symbols with a book, budgets with a clock that steps back, a day, two days, a price that comes and goes; and 12 for the planner, with their grids and positions, and quotes that are usable, locked, crossed and one-sided | limits hold for what the venue may still fill; plans reach their target at a price that can be sent; the window of requests is exact; losses trip; after that only exits |
| `reconcile` | an order of ours of size 2 and another's of size 1, 3 events at the venue, 1 drop, polls for ever, a window of 2 trade ids | each execution counts once, orders in order agree with the venue, a gap is made good or reported |
| `recording` | 3 events in and out of order, 2 signals, a queue of 1, a cap, 1 fault (a write, a flush, a rename), an abandoned recorder or a kill at any time | no hole in a log, a named log is whole and of its session, a replay keeps the times, a recording ends |
| `target_book` | 2 producers; one symbol netted, with both silent, exclusive, without a lifetime, with a halt, a failed cancel and quotes that go or are too coarse; two symbols with every limit and with a missing price | one holder, ids of decisions, allocation within limits; what a silent producer leaves is worked off or reported, given a lifetime, a resumption and a quote |
| `netted_ids` | 1 session | *violated*: finding 2 |
| `session_unwind` | 1 order, unit of 10 s: lead 6, interval 2, the waits of 2.5 to 10 s rounded up to 1; 2 sweeps; failures, timeouts, freezes | protection while trading, nothing behind the sweep, the unwinding ends |

Several properties are conjunctions of named parts, one for each promise, and for
each fact the promises rest on: `RingInv`, `HandoverInv`, `CountersTellTheTruth`,
`FeedInv`, `BeaconInv`, `MarksServeTheGate`, `LimitsInv`, `PlansAreRight`,
`TheWindowIsExact`, `LossesTrip`, `LogsInv`, `ReplayInv`, `TrackerInv` (in `AccountInv`),
`ProtectionInv`, `BookInv`, `NothingWaitsForEver`. Each part has its own comment in
its module.

Bounds, and why they are enough.

* Pipeline. Two symbols are needed for the gate (a symbol held while another is
  planned) and for a queue of one to be full. Two producers make a claim meet
  another's. Three drains make a record that was held behind the first target meet a
  newer one; two orders make a replacement whose predecessor was filled, cancelled,
  or kept by a failed cancel, while it is still announced or swept.
* Ring. It goes round its slots more than twice and its counters wrap.
* `signal_path`. A ring and an outbox of one are full as often as they can be; three
  targets let a newer one wait behind a held one and a third expire; a fourth record
  leaves the second life of the runner at least one target of its own.
* `market_path`. A ring of one slot refuses whatever is not taken; two prices tell a
  changed market from an unchanged one; 2 is a price the wire cannot hold; four bars
  let a hole be one or two bars long.
* `order_path`. Two orders at a limit of two are the smallest that pass one at a time
  and could fail together; a third one replaces. The grids of the planner are
  enumerated: lots, ticks, minimums, bands, positions on both sides.
* `reconcile`. Size 2 is the smallest that has partial fills; three events are an
  order placed and filled in two parts, or placed and ended with another's beside
  it; a drop at any point takes any part of what they said.
* `recording`. Three events give an event behind its time and a bar ahead of it; a
  fault at any step leaves every mix of files.
* `target_book`. Three records over three intervals let each of two producers speak,
  fall silent and speak again, with ids that meet. In one session a cancel fails, at
  any moment, and trading is halted and resumed once, at any two; a venue that fails every
  cancel for ever is outside the liveness, and a poisoned lock is not modelled.
* `session_unwind`. The figures are the defaults of the configuration (lead 60 s,
  interval 20 s, venue timeout 10 s, join 5 s, retry after 5 s); rounding waits up
  makes protection run out sooner, never later. One order is enough: orders are
  independent of each other, and the sweep's race is between one placement and the
  read.

`signal_path` runs with `RestartsRace = FALSE`: a new producer does not reset the ring in
the middle of a pop (section 6 has what happens when it does). Every property of a
passing run has a mutant in the modules (comments `Mutant:`), a plausible slip in the
code under which TLC finds it violated.

`CHECK_DEADLOCK FALSE` is set where bounds on events, orders or records, or a session
that has ended, let the system stop; `target_book` runs for ever and is checked.

## 4. Fairness

* `IntentPipeline`: the core never blocks inside a pass, so its steps are weakly fair.
  The pump's are, because every call to the venue returns: the HTTP client has a
  timeout of ten seconds (`H/exchange/mod.rs:103-112`). `Ack` waits for a write lock
  that passes take and free again; `std::sync::RwLock` holds new readers back for a
  waiting writer, so it is strongly fair. `BeginPass` without new records is weakly
  fair: passes keep coming while market data does. None is assumed of the venue, of
  producers, of halts or of the sweep; the progress run has the sweep off, because
  with ages left open an over-age order could be asked for on every pass for ever,
  which `swept_at` rules out in the code.
* `SignalRing`: each side finishes what it began and the reader keeps popping.
* `SignalPath`: the core loops, and the runner is handed events and goes on with what
  it began. Restarts are not fair, and bounded.
* `MarketPath`: the monitor polls. Nothing is asked of the publisher, which may be dead.
* `Recording`: the core, the writer and the caller of `finish` each go on; a write may
  fail but returns.
* `TargetBook`: a pass goes on, time passes, and the edge gets its turn between
  passes (strongly fair: its lock is free again and again). The venue owes no fill, the market
  no quote and the operator no resumption: `AbandonedExposureIsUnwound` names the last two
  in its premise.
* `Reconcile`: the bus is drained, replies are recorded, the socket is opened again,
  polls come round. A reading is not refused, and the bus not full, every time:
  strong fairness of `ReadAccount` and `PublishAll`. The governor's window passes in a
  minute, and the poll's period is longer than the grace. `Drop` is bounded.
* `SessionSafety`: every task of the runtime is scheduled, every request ends in a
  reply or an error, and time passes. `BeginUnwind` on a signal, placements and the
  venue's effects are not fair.
* `OrderPath` states no liveness: whether a target is reached is the venue's choice.

## 5. Proofs

The theorems hold for every value of the constants their modules declare: any sets of
symbols, producers, orders and sessions, any capacity, lifetime, wait and bound. Each
`... == ASSUME` of a module is a condition on constants that the code has; what a
theorem assumes beyond it stands in its ASSUME and in the table.

| Theorem | States | Assumes |
|---|---|---|
| `IntentPipelineProofs!TypeCorrect` | `TypeOK` | |
| `OneIntentAtATime` | `OneIntentPerSymbol` | |
| `GateIsTruthful` | `GateNeverUnderReports` | every symbol has a bit (`Covered = Symbols`) |
| `TargetsInOrder` | `TargetsMoveForward` | |
| `TargetsAreNotLost` | `NoTargetLost` | no held record expires |
| `PlansSeeEveryOrder` | `RestingOrdersAreKnown` | no reply to a placement lost, every symbol has a bit |
| `OneOrderRests` | `OneLiveOrderPerSymbol` | the same |
| `CancelsCoverTheVenue` | `VenueInv` | no reply to a placement lost |
| `PipelineImplementsSlots` | `ImplementsSlots` (refinement) | no reply to a placement lost |
| `SignalPathProofs!RingIsSound` | `RingInv` | |
| `OutputMovesForward` | `DeliveredMovesForward` | |
| `RingImplementsFifo` | `ImplementsFifo` (refinement) | |
| `NothingIsTornOrTurned` | `HandoverInv` | no new producer resets the ring in the middle of a pop (`~RestartsRace`), which the code does not ensure |
| `TargetsAreActedOnFresh` | `ActedTargetsAreFresh` | the same |
| `BackpressureLosesNothing` | `BackpressureKeepsOrder` | the same |
| `CountersAreTrue` | `CountersTellTheTruth` | the same |
| `MarketPathProofs!FeedIsSound` | `FeedInv` | |
| `TheReaderIsCurrent` | `RoomMeansCurrent` | |
| `MarksAreKept` | `MarksServeTheGate` | |
| `SnapshotsAreNotStale` | `BeaconInv` | |
| `SessionSafetyProofs!SweepIsLast` | `NothingPlacedBehindTheSweep` | |
| `LeftBehindADeadline` | `LeftOrdersAreProtected` | no arm is counted that the venue refused in a good reply (`ArmsAreHonest`) |
| `SessionIsProtected` | `ProtectionInv` | the same, and `TimeoutsFit` |
| `RecordingProofs!LogsAreTrue` | `LogsInv` | |
| `AReplayIsTheSession` | `ReplayInv` | |
| `ReconcileProofs!AccountIsKept` | `AccountInv` | |
| `SettlesOnTheVenues` | `SettledIsTheVenues` | |
| `OrderPathProofs!TheLimitsHold` | `LimitsInv` | |
| `ATrippedSessionOnlyShrinks` | `TrippedOnlyShrinks` (action property) | |
| `EveryPlanIsRight` | `PlansAreRight` | |
| `TheWindowHolds` | `TheWindowIsExact` | |
| `TheReserveHolds` | `NoPlaceMeetsTheLimit` | |
| `LossesAreNotForgotten` | `LossesTrip` | |
| `PlansArriveAtTheirTarget` | of `Plan`: an order arrives at the target | a position on the lot (`Sound`) |
| `AnExitIsRefusedOnlyForItsPrice` | of `Objections`: nothing but its price stops an exit | the same; a known grid, a usable quote, no limit price |
| `TargetBookProofs!TheBookIsRight` | `BookInv` | |

The assumptions are the ones the runs make, and each leaves out something the code
does: section 6 names the lost reply, the shared word of the symbols past the
capacity, the restart during a pop and the refused arm. `ArmsAreHonest` is a formula about
a behaviour, and not a constant: `[][ArmReplied => landed]_vars`, so the theorems cover sessions
in which the venue refuses arms in the body of a good reply, up to the first such reply. `TimeoutsFit` says a request
is given up within an interval and the lead holds an arm, a sleep, a timeout and a
retry; the default configuration has it (60, 20, 10 and 5 seconds), and
`Config::validate` does not ask for it.

The arguments.

* **Gate.** `TypeInv` adds to `TypeOK` that the hand-off and the pump hold at most one
  intent each. `OneIntentPerSymbol` by itself is not inductive: a stage could send a
  second intent for a symbol that has one. The invariant says also that every
  outstanding intent of a covered symbol has its bit set (`SlotsClaimed`), that no two
  share a symbol, place by place (`SlotsDistinct`), and that what stage 1 or the sweep's
  scan found free is free still when the stage that relies on it gets there
  (`StagesSeeTheTruth`): only the core claims, once per symbol and stage, so a bit can
  only be cleared behind its back. `TargetsMoveForward` and `NoTargetLost` follow from
  `OrderInv`: of one producer and symbol at most one record is pending, it is newer than
  the one the book took, and no newer than the last drain.
* **Venue.** A cancel may fail and its order rest on, and the code places all the same
  (`R/intent.rs:2117`, and the documentation above it says so): "one order per symbol" is true but
  for those orders, which `survived` names, and whose next plan sees them and cancels them
  again. `VenueInv` follows an order from the plan to the wire. What rests at the
  venue is known to the tracker or in the pump's hand with its reply
  (`RestingAreKnownOrAcked`); the cancels of an intent that may still place cover
  whatever rests, and what they have been sent for and rests is in `survived`
  (`CancelsCoverWhatRests`), because the plan saw every order under the
  tracker's lock and no other intent of the symbol could place since (the gate's
  invariant); `DoneMeansGone` and `UnplacedAreFresh` keep ids apart. The refinement of
  `IntentSlots` then goes action by action.
* **Ring.** `RingInv` counts records, not counters: both counters are the lengths of
  what went in and came out modulo `Modulus`, the copies each side holds of the other's
  counter lag behind it (`CountersCount`), and between the two every slot holds the
  record of its number (`SlotsHoldTheRecords`). The lemmas on remainders say that
  counters less than `Capacity` apart are different slots even where they wrap.
* **Path.** A target's number is the counter it is pushed at (`OutboxIsWhatIsLeft`), on
  top of this life's `first_seq`, the
  records of this life of the runner are the newest of all (`ContentsAreEmitted`), and
  those between the counters lie whole in their slots (`SlotsHoldThisLife`); a pop holds
  the oldest of them, or nothing (`PopCopiesTheNext`). With these, sequence numbers,
  freshness and counters are statements about places in `emitted`. The proof of the
  counters failed first, and for a reason: "no more is missing than expired" held up to
  the run's bound of three targets and is false from four on (section 6). What holds,
  and is proved, is the bound for one jump: what was refused for its age, and the numbers
  below this life's first that nobody was given (`Unused`).
* **Feed and beacon.** `MeasuredIsDelivered` (the slice that changes are measured against
  is the last one handed out) and `FormingIsTheNewest` carry the bars' promises over
  refusals and deaths. For the beacon, the values of every beat only grow (`BeatsGrow`) and a
  copy's halves come from the log (`SnapshotsAreOfTheLog`), with the file between two
  stores described stage by stage.
* **Protection.** `ProtectionInv` is arithmetic of clocks: the deadline at the venue is
  never before the one the loop counts on (`VenueIsNotBehind`), and in each stage of the
  loop what is left covers the wait it is in (`RunningHasTimeLeft`), with room for one
  more failure (`RoomForAMiss`). The sweep is last because `stopped` is final and the
  pump is joined or aborted before the read (`WireIsAwaited`, `SweepLeavesTheOverdue`).
* **Recording.** Every record is written, counted as missed, in the writer's hand or in
  the queue (`EveryRecordIsSomewhere`), and until the recording stops what the writer
  holds and what waits for it is what the core handed over next (`TheQueueIsTheRest`):
  so nothing is ever written behind a hole. That the message which ends the recording
  is the last in the queue, with the core gone and the bus empty when it is a finish
  (`TheEndIsSaidOnce`, `TheThreadsKeepStep`), makes a file that gets its name whole;
  `TheNamesAreTaken` follows the two renames through failures, and a kill at any point.
* **Replay.** `ReadsInv` is what the core has noted of the signals it read: each was read
  at its release, which is the latest stamp of the events handed over before it
  (`Noted`, `TheClockIsTheEvents`), in passes at least an interval apart with no more
  than `MaxPerDrain` signals each (`ThePassSoFar`). A tape of which that holds is
  `Faithful`, and stays so when its events are put in the order of their stamps. The
  walk over a faithful tape is known in closed form: after every event the clock is the
  latest stamp so far, and a signal leaves the queue with the first event not before its
  release; so it is judged by its own time (`ReplayHolds`). That a tape can be put in the order
  of its stamps in one way only (`Earlier` is total, and an injection of a finite set
  into itself reaches all of it) settles what `EventTimeOrder` chooses, and with it when the watch's
  count of late arrivals is zero (`WatchHolds`).

* **Losses.** `LossInv` adds types to `LossesTrip`, whose second part carries the first:
  unless the day is spoiled, by a torn file or a clock that stepped back over midnight
  (section 6), the baseline in memory is the day's first reading, and the file says the same
  (`TheBaselineIsTheFirst`), so a restart takes up the day where it was. `Torn` is a
  record no reading can be, which is how `Load` knows it.
* **Requests.** The venue's count is never ahead of the governor's by more than what
  `missed` holds: requests that were sent uncharged, or charged before an older
  reading replaced the count. A reading under way lacks what went out since it was
  taken (`TheCountLagsByWhatIsMissed`).
  The reserve, subtracted from the ceiling for placements, is what pays for it. The
  window has no part in this.
* **Plans.** About the operators of `Planner`, with no state: what is on the lot is a
  multiple of it, rounding toward zero gives the nearest multiple, and the difference of
  two multiples needs no rounding. A position off the lot is in neither the
  theorems nor the run: the venue lets nobody hold one. `PlansAreRight` then needs of the
  state only that the position is on the lot: `PathInv` says that of every order and of
  all it has done.
* **Sums.** What is held, what may still fill, what a window weighs and what an account has
  executed are sums over sets that grow and change by one element at a time. The first
  lemmas of the modules that use them prove of `SumFunctionOnSet` what those steps need:
  one element more, one element changed, two sets, what adds nothing, comparison term by
  term, a shift of the index.
  The fold is unfolded once (`SomeFunctionAddsUp`, `SumOfSome`); every induction after that
  is by a smallest counterexample among the subsets of a finite set (`LeastSubset`), which
  needs no theorem with an operator for a parameter.
* **Exposure.** `LimitsInv` is about `Worst`, the position if one side's live orders all
  fill; the gate reads `RiskPosition`, which has fills that have not arrived yet among what
  is open and sets off one side against the other. The proof goes by what the path can
  still reach in a direction (`Reaches`): for every order the larger of what the venue and
  the tracker think it may add, and for an intent past the gate its wish. No step but
  passing the gate makes it larger (`ExposureInv`), and passing the gate brings it to what
  was checked, except where an order's fills or reply are not known or orders were set off:
  those symbols are `misread`. Breadth (`LegsInv`) counts symbols with anything seen, at
  work or on its way; gross (`GrossInv`) is the same bound weighed by the marks, for a
  price that does not move.
* **After the switch.** `TrippedOnlyShrinks` is an action property. What carries it is that
  an order sent after the switch is alone at work on its side and no larger than the
  venue's position, and that none like it can be on its way meanwhile (`LateInv`). The attempt
  to prove it found that the history variable `stacked` was too narrow: it had to cover an order
  that joins a late one after a restart has cleared the switch, too.
* **Window.** `Counts` says a governor's weight is the sum of its window and its charges are
  in order of time; `Covers` compares it with the history of all charges: what was charged
  since any moment that can still count weighs no less in the window than in the log
  (`Since`). A clock that steps back only makes the newest entry take what follows.
* **Account.** `CountInv` is that the position is the sum over the trades applied
  (`AppliedAddsUp`), that a trade applied is in the window of ids as long as any replay can
  bring it again (`SeenInv`), and that a trade is on its way, applied, or counted lost
  (`ChannelInv`, `LossesInv`). `OrdersInv` follows what each source can still say of an
  order: rows never run ahead of the updates (`SourceInv`, `ReportsInv`), what the
  tracker believes is one of them, and what came in order is complete (`BelievedInv`,
  `GaplessInv`).
* **Claims.** `OneHolder` and `IdsOfAKindDiffer` need to know what may still be read. A record
  that waits, on a ring or behind the gate, is newer than the claim it will replace, and no two
  are of one producer and symbol but for a carried one and its successor
  (`TheInboxIsNew`, `TheCarriedAreNew`); so whatever a pass reads moves a claim forward.
  `BookAt` says what the book is after any number of the pass's records, and `StatedIs` that it
  is that after the last. The number of an order for a producer's own target is then
  below the claim's whenever the symbol is planned again, or the stamp of the re-quote is
  later; a synthesized number is below the next one (`MintedAre`).
* **Allocation.** Scaling a quantity by a fraction and cutting the rest off errs by less than
  one unit (`PartIsSmall`), so a net errs by less than one for each contributor (`NetsAreNear`),
  and weighed and summed over the book by no more than `Slack` (`BooksAreNear`). The
  scaled gross is then at most `limit / weight` of the weight, without a division
  (`WithinTheLimit`). For breadth, the symbols that are let in have different ranks below the room
  that is left, so they are no more than that (`RanksDiffer`, `FewRanksBelow`). That the
  factors are still right when the plans use them is `AllocIs`: from `Allocate` to `PlanAll` the
  lock is held. The attempt to prove the budgets found that the property was too strong
  (section 6, behaviours).

`SessionsAssumption` of `OrderPath` says of a session that its limits, budgets and prices
are naturals and its lots and ticks positive, that a quote, if it is usable, leaves room
for a slip, and that it starts with positions in whole lots that its limits allow.
`TargetBookAssumption` says the same of limits, budgets and marks, that a producer owns
symbols that exist, and that a session lasts an interval and can tell its windows and
lifetimes from `MaxAge`.

Only model-checked: all liveness (`NothingWaitsForEver`, `EmittedIsRead`,
`DeathIsNoticed`, `LossesAreMadeGoodOrReported`, `ARecordingEnds`, `ShutdownCompletes`,
`AbandonedExposureIsUnwound`), which like ENABLED is out of the proof system's reach. Every
invariant and action property of the passing runs is a theorem, under the assumptions of
the table.

## 6. Where the code and its documents disagree

Shown by a run:

1. `X/tracker.rs:263` - a reply recorded after the order's terminal frame brings the
   order back to life; nothing closes it later. Line 20: "Terminal is terminal".
2. `S/planner.rs:1032` - a client id keeps the low half of the sequence number, and a
   netted target is tagged in its top bit: a netted order can take the id of a
   producer's own. `S/book.rs:60-62` says it never can.

Met while modelling, and excepted by name in the properties where they bite:

* `X/inflight.rs:142` - symbols past the capacity share one word; the release of one
  frees the others. The comment at 50-53 says it can never under-report. The theorems
  assume every symbol covered.
* `python/axon/signals/__init__.py:101` - a new producer resets a ring under a reader
  in the middle of a pop; the SAFETY comment in `crates/axon-ipc/src/lib.rs:443-446`
  says the bytes are stable.
* `X/tracker.rs:526` - a fill that arrives after the update that includes it is added
  on top; lines 554-559 say the order of arrival makes no difference (`overtaken`).
* `X/tracker.rs:343` - `risk_position` sets a live order off against a live one on the
  other side, and loses an order that filled before its fill frame, or whose reply was
  lost: `ExposureStaysInBounds` names the three. `X/guard.rs:38-42` counts resting
  orders as filled.
* `X/guard.rs:165-172` - a close that is quoted again while the previous exit is live
  is refused as not reducing; `max_order_qty` refuses exits, too.
* `R/capture.rs` ("One release rule") against `crates/axon-replay/examples/chain/mod.rs:592`:
  a bar that is recorded while it forms moves the replay's clock to its close, and
  signals are released early.
* `R/handler.rs:251-253` - a book with one side stamps the mid of the last two-sided
  quote with its own time; `X/marks.rs:82-83` says an age is the quote's.
* `H/exchange/mod.rs:276` - an arm refused in the body of an HTTP 200 counts as armed;
  `R/session.rs:33-36` says orders are accepted only once a re-arm has succeeded.
* `R/session.rs:1058` - the re-arm loop outlives the disarm and can arm again;
  `R/shutdown.rs:19-23` says why a deadline must not outlive the process.
* `R/shutdown.rs:94` - `cancel_all` is repeated until a pass returns without an error,
  where 13-15 says until a pass reports nothing left.
* `R/intent.rs:342` - the ring is said to be opened again after it goes away; it is
  opened once.
* `R/reconcile.rs:227-247` - a refused account reading is compared as an account
  without positions: drift is reported for every position we hold, and none when we
  hold nothing and the venue does. A later reading corrects it, which is why
  `LossesAreMadeGoodOrReported` asks for some reading to come through.
* `S/reader.rs:328` - a record that is refused for its age does not move the baseline,
  so the next one counts it as missing, and the one after that counts it again: three
  refused in a row are three missing, and a fourth makes six. Lines 92-94 say `gaps` is
  the number of distinct loss events and `missing` the records those jumps imply, while
  nothing was lost. `CountersTellTheTruth` bounds what one jump adds.
* `R/intent.rs:968` - a pass per event is what a replay does; the live core drains a
  burst and polls once (`R/core.rs:420`).

Behaviours worth knowing that contradict no document:

* At the tightest configuration that validation admits (lead 15 s, interval 5 s, with
  the client's timeout of 10 s) one timed-out re-arm can use up the lead;
  `session_unwind` shows that it is survived at the defaults.
* After a lost reply a tripped session's two exits can both fill and flip the position.
* An order the venue no longer has is reported by the poll and never closed in the
  tracker; `retire_terminal` has no caller.
* After a restart of the runner alone, on numbers its predecessor used (the default,
  `python/axon/strategy/context.py:190`), its records count as stale until they pass the old
  baseline. Started far enough above them, as `python/axon/strategies/live_runner.py:668-678` asks,
  none is refused, and the reader counts the numbers between as missing although nothing was lost.
  `CountersTellTheTruth` has both.
* A cancel that fails leaves its order at work beside the one that is placed
  (`R/intent.rs:2117`), until the next plan or sweep asks again.
* A share that a silent producer left is worked off by the re-quote alone, and
  `AbandonedExposureIsUnwound` has as its premise what that hangs on. With
  `max_order_age_ms = 0` it never runs (`R/intent.rs:894`, `1139`); it does not while trading is
  halted (`1372`); and a re-quote that finds no quote to price places nothing and is not counted
  (`1952-1963` counts what the grid cannot express). In each of these the share stays open and no
  counter says so. TLC finds the property violated without any one of them.
* On a locked, crossed or one-sided book nothing is planned, an exit neither (`S/planner.rs:163-170`).
* In the book, an exclusive claim is never given back; breadth counts positions and not
  resting orders; rounding can take a net one unit for each claim past its limit.
* A claim counts against its producer's budget when it is silent, too. If its symbol has no
  price, the producer's other claims are not scaled either and may pass the budget
  (`R/intent.rs:1490-1527`, "an unpriced book is not scaled at all"), even where the "flat"
  policy has taken the unpriced claim out of the net. `BudgetsHold` asks that all of a
  producer's claims have a price.
* The first rename of `finish` can fail and the second succeed: one file then bears its
  real name while the outcome says partial. A session that records no signals leaves
  an earlier session's signal log beside its own event log.
* The day's baseline is written in place; a torn file loads as none, and a clock that
  steps back over midnight starts the day again.

## 7. Not modelled, and why

* Assembly of a session, command line, `flatten`, configuration: sequential set-up
  code. The bounds that validation enforces are assumptions on constants. A session
  without the dead-man's switch has the re-arm steps absent.
* Venue encodings, signatures, websocket framing and backoff: I/O and formats.
* Health and latency: counters no decision reads.
* Features, models, research and backtests in Python, the offline self-test: numerical,
  single-threaded, checked by golden files.
* Record layouts: generated, and asserted at compile time.
* `crates/axon-provider-binance`: no order path is wired to it.
* The money of a fill, fees and funding, account snapshots in the tracker: sums that no
  decision here but the loss limits reads, and there they are one number.
* `check_batch` and `place_batch`, `retire_terminal`, `observe_rate_limited`: no caller
  outside tests.
* The stall watcher, the latency trace and the offline sink of `R/intent.rs`.

By lines these are most of the repository. What decides about an order, or about a
file that another process reads, is in a module.

## 8. Plan

Every invariant and action property of the passing runs is proved. What is left is what the
proof system does not reach, the liveness properties, and the components of section 7.
