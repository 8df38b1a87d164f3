------------------------------ MODULE OrderPath ------------------------------
(***************************************************************************)
(* The way of an order: planned on the core thread, queued, checked by the *)
(* risk gate against what the tracker believes, charged to the request     *)
(* budgets, sent; and what comes back, or does not.                        *)
(*   axon-runtime/src/intent.rs       pass (the plan), submit_intent, pump *)
(*   axon-execution/src/guard.rs, limiter.rs    the wrappers of the client *)
(*   axon-execution/src/tracker.rs    what the gate reads                  *)
(*   axon-runtime/src/reconcile.rs    the poll of the budgets              *)
(* IntentPipeline has the pass and the queue in full, OrderTracker the     *)
(* frames, SessionSafety the halt switch around this client.               *)
(***************************************************************************)
EXTENDS DayBook, RateGovernor

CONSTANTS
    Sessions    \* what a session may be, records of
                \*   held: the position it starts with, for each of its symbols
                \*   signals, quotes, planner, limits: what it plans and is allowed
                \*   marks: the prices a symbol may have, 0 for none
                \*   budget: its governor's configuration; paced: whether it matters
                \*   swings, stake: gains and losses, and a bound on their sum
                \*   trades: whether anything is filled
                \*   orders, requests, ticks, days: bounds on their numbers

(* What a strategy may ask, and at what quotes: locked, crossed and one-sided
   ones too.  A slip is a fraction of the price: it leaves a tick of a usable one.
   Without a grid a lot and a tick are units. *)
Asks(s) ==
    /\ s.signals \subseteq [target : Int, close : BOOLEAN, reduce : BOOLEAN, urgency : 0..3, limit : Nat]
    /\ s.quotes \subseteq {q \in [bid : Nat, ask : Nat] :
                            Usable(q) => q.bid >= s.planner.slip + s.planner.tick}
    /\ {s.planner.lot, s.planner.tick} \subseteq Nat \ {0}
    /\ {s.planner.slip, s.planner.minQty, s.planner.minNotional, s.planner.slack} \subseteq Nat
    /\ s.planner.precision \in {"known", "unknown"}
    /\ s.planner.precision = "unknown" => s.planner.lot = 1 /\ s.planner.tick = 1

(* A session starts with what its limits allow, in whole lots. *)
Starts(s) ==
    /\ IsFiniteSet(DOMAIN s.held) /\ s.held \in [DOMAIN s.held -> Int]
    /\ IsFiniteSet(s.marks) /\ s.marks \subseteq Nat
    /\ {s.limits.position, s.limits.symbols, s.limits.gross, s.limits.session, s.limits.day} \subseteq Nat
    /\ \A x \in DOMAIN s.held : Abs(s.held[x]) <= s.limits.position /\ s.held[x] % s.planner.lot = 0
    /\ s.limits.symbols > 0 => Cardinality({x \in DOMAIN s.held : s.held[x] # 0}) <= s.limits.symbols
    /\ s.limits.gross > 0 => \A mark \in s.marks :
            SumFunction([x \in DOMAIN s.held |-> Abs(s.held[x]) * mark]) <= s.limits.gross

Spends(s) ==
    /\ s.budget.span \in Nat \ {0} /\ s.ticks \in Nat \ {0}
    /\ {s.budget.ipLimit, s.budget.ipReserve, s.budget.limit, s.budget.reserve} \subseteq Nat

ASSUME SessionsAssumption ==
    \A s \in Sessions : Asks(s) /\ Starts(s) /\ Spends(s) /\ s.swings \subseteq Int

VARIABLES
    session,
    orders,     \* every order the venue accepted, with both sides' view of it
    queue,      \* intents, the head of them at the pump
    stage,      \* what the pump awaits
    marks,
    gov,
    clock,      \* wall clock, and the latest it ever was
    reading,    \* a count of the venue's on its way to the governor
    spent,      \* the venue's own count of requests
    log,        \* history: what was charged to the IP window, and when
    missed,     \* history: requests the governor's count lacks, and those since a
                \* reading that is on its way
    misread,    \* history: symbols the gate had too low a figure for, and whether
                \* the whole book was ever such
    stacked     \* history: symbols where an order joined another on its side whose
                \* fills were not all known, with the switch thrown or an order sent
                \* after it still at work

orderVars == <<orders, queue, stage, misread, stacked>>
budgetVars == <<gov, reading, spent, log, missed>>
vars == <<session, orderVars, marks, clock, budgetVars, moneyVars>>

Symbols == DOMAIN session.held
Ids(s) == {id \in 1..Len(orders) : orders[id].sym = s}

(* What the venue holds, and what it may yet come to hold. *)
Done == [id \in 1..Len(orders) |-> Signed(orders[id].side, orders[id].done)]
ToCome == [id \in 1..Len(orders) |-> Signed(orders[id].side, orders[id].qty - orders[id].done)]
Held(s) == session.held[s] + SumFunctionOnSet(Done, Ids(s))
Resting(s, side) == {id \in Ids(s) : orders[id].open /\ orders[id].side = side}
Worst(s, side) == Held(s) + SumFunctionOnSet(ToCome, Resting(s, side))

(* What the tracker holds, and its live orders. *)
Applied == [id \in 1..Len(orders) |-> Signed(orders[id].side, orders[id].applied)]
Seen(s) == session.held[s] + SumFunctionOnSet(Applied, Ids(s))
Tracked(s) == {id \in Ids(s) : orders[id].known /\ ~orders[id].ended}
Left(id) == AtLeastZero(orders[id].qty - orders[id].filled)

(* Mutant: the gate reads what is filled. *)
FilledPosition(s) == Seen(s)

(* risk_position: every tracked order filled in full. *)
Remaining(s) == [id \in Tracked(s) |-> Signed(orders[id].side, Left(id))]
RiskPosition(s) == Seen(s) + SumFunction(Remaining(s))

BookNow == [s \in Symbols |-> [qty |-> RiskPosition(s), mark |-> marks[s]]]

Init ==
    /\ session \in Sessions
    /\ orders = <<>> /\ queue = <<>> /\ stage = "idle"
    /\ marks \in [Symbols -> session.marks]
    /\ gov = FreshGovernor(session.budget.limit)
    /\ clock = [now |-> 1, peak |-> 1]
    /\ reading = {} /\ spent = 0 /\ log = <<>> /\ missed = [lacks |-> 0, since |-> 0]
    /\ misread = [symbols |-> {}, book |-> FALSE] /\ stacked = {}
    /\ MoneyInit

-----------------------------------------------------------------------------
(* The core thread.                                                        *)

(* project_working: an order another side told of has no terms. *)
Working(s) ==
    {[id |-> id, side |-> orders[id].side, price |-> orders[id].price, left |-> Left(id),
      reduce |-> orders[id].reduce, tif |-> orders[id].tif, vouched |-> orders[id].vouched] :
        id \in Tracked(s)}

Context(s, quote, aged) ==
    [position |-> Seen(s), quote |-> IF marks[s] = Unpriced THEN NoQuote ELSE quote,
     working |-> Working(s), aged |-> aged]

(* A pass plans a symbol with nothing in flight for a signal. *)
PlanSymbol(s) ==
    /\ \A i \in 1..Len(queue) : queue[i].sym # s
    /\ Len(orders) + Cardinality({i \in 1..Len(queue) : queue[i].orders # {}}) < session.orders
    /\ \E sig \in session.signals, quote \in session.quotes, aged \in BOOLEAN :
        LET plan == Plan(sig, Context(s, quote, aged), session.planner)
        IN  /\ plan.cancels # {} \/ plan.orders # {}
            /\ queue' = Append(queue, [sym |-> s, cancels |-> plan.cancels, orders |-> plan.orders, late |-> FALSE])
    /\ UNCHANGED <<session, orders, stage, misread, stacked, marks, clock, budgetVars, moneyVars>>

-----------------------------------------------------------------------------
(* Requests.  A request is charged to the governor on its way out and      *)
(* counted by the venue; a session whose budgets are too large to matter   *)
(* keeps no account of them.                                               *)

Send(charged, after) ==
    /\ spent < session.requests
    /\ gov' = after
    /\ log' = IF charged THEN Append(log, [at |-> clock.now, weight |-> 1]) ELSE log
    /\ spent' = spent + 1
    /\ missed' = [lacks |-> missed.lacks + (IF charged THEN 0 ELSE 1),
                  since |-> missed.since + (IF reading = {} THEN 0 ELSE 1)]
    /\ UNCHANGED reading

(* charge_cancel: informational, the cancel goes out in any case. *)
CancelRequest ==
    IF session.paced
    THEN Send(AdmitsCancel(gov, session.budget, clock.now), AfterCancel(gov, session.budget, clock.now))
    ELSE UNCHANGED budgetVars

Affordable == session.paced => AdmitsPlace(gov, session.budget, clock.now)

PlaceRequest ==
    /\ Affordable
    /\ IF session.paced THEN Send(TRUE, AfterPlace(gov, session.budget, clock.now))
       ELSE UNCHANGED budgetVars

-----------------------------------------------------------------------------
(* The pump: every cancel of an intent, then its order.                    *)

(* Why the tracker may fall short of what the venue can still make of the
   account: an order whose acceptance nobody told, an order whose update
   came before its fill, or a live order on the other side, which the sum
   sets off against the rest. *)
Untold(s) == \E id \in Ids(s) : ~orders[id].known /\ (orders[id].open \/ orders[id].applied < orders[id].done)
Overtaken(s) == \E id \in Ids(s) : orders[id].ahead /\ (orders[id].open \/ orders[id].applied < orders[id].done)
Opposed(s, side) == \E id \in Tracked(s) : orders[id].side # side
SetOff(s) == \E id \in Tracked(s) : Opposed(s, orders[id].side) \/ Seen(s) * Signed(orders[id].side, 1) < 0
Blind(s) == Untold(s) \/ Overtaken(s)

Misread(s, side) ==
    [symbols |-> misread.symbols \cup {x \in {s} : Blind(x) \/ Opposed(x, side)},
     book    |-> misread.book \/ Opposed(s, side) \/ \E x \in Symbols : Blind(x) \/ SetOff(x)]

(* Something on this side may still be filled, or was and is not known to. *)
Outstanding(s, side) ==
    \E id \in Ids(s) : orders[id].side = side /\ (orders[id].open \/ orders[id].applied < orders[id].done)

(* An order sent after the switch was thrown is at work. *)
LateOpen(s) == \E id \in Ids(s) : orders[id].late /\ orders[id].open

Here == Head(queue)
Wish == CHOOSE req \in Here.orders : TRUE

(* A cancel closes its order, or fails: the order is gone, or the request
   or its answer is lost.  Either way the pump goes on. *)
PumpCancel ==
    /\ queue # <<>> /\ stage = "idle"
    /\ \E id \in Here.cancels :
        /\ queue' = [queue EXCEPT ![1].cancels = @ \ {id}]
        /\ orders' \in {orders, [orders EXCEPT ![id].open = FALSE]}
    /\ CancelRequest
    /\ UNCHANGED <<session, stage, misread, stacked, marks, clock, moneyVars>>

Cleared == GateClears(session.limits, tripped, Here.sym, Wish, Seen(Here.sym), BookNow)

(* The order passes the gate and both budgets, and is on the wire. *)
PumpPlace ==
    /\ queue # <<>> /\ stage = "idle"
    /\ Here.cancels = {} /\ Here.orders # {}
    /\ Cleared
    /\ PlaceRequest
    /\ stage' = "sent"
    /\ misread' = Misread(Here.sym, Wish.side)
    /\ queue' = [queue EXCEPT ![1].late = tripped]
    /\ stacked' = IF (tripped \/ LateOpen(Here.sym)) /\ Outstanding(Here.sym, Wish.side)
                  THEN stacked \cup {Here.sym} ELSE stacked
    /\ UNCHANGED <<session, orders, marks, clock, moneyVars>>

(* Nothing left to place, or a wrapper refused it. *)
PumpDone ==
    /\ queue # <<>> /\ stage = "idle"
    /\ Here.cancels = {}
    /\ Here.orders # {} => ~(Cleared /\ Affordable)
    /\ queue' = Tail(queue)
    /\ UNCHANGED <<session, orders, stage, misread, stacked, marks, clock, budgetVars, moneyVars>>

(* on_ack: the order as it was sent, with nothing filled, whatever a frame
   told before; an order filled on arrival is kept as that. *)
OnAck(order, status) ==
    [order EXCEPT !.known = TRUE, !.vouched = TRUE, !.filled = 0, !.ended = (status = "filled"),
                  !.ahead = @ \/ (status = "filled" /\ order.applied < order.done)]

(* The answer, if it is not lost, is told to the tracker. *)
PumpHears ==
    /\ stage \in {"resting", "filled", "lost"}
    /\ orders' = IF stage = "lost" THEN orders ELSE [orders EXCEPT ![Len(orders)] = OnAck(@, stage)]
    /\ stage' = "idle"
    /\ queue' = Tail(queue)
    /\ UNCHANGED <<session, misread, stacked, marks, clock, budgetVars, moneyVars>>

-----------------------------------------------------------------------------
(* The venue and its frames.                                               *)

Lot == session.planner.lot

(* A reduce-only order takes nothing beyond the position. *)
Takes(s, req, qty) == req.reduce => Held(s) * Signed(req.side, 1) < 0 /\ qty <= Abs(Held(s))

(* The order rests, or is filled on arrival; the answer may be lost. *)
VenueAccepts ==
    /\ stage = "sent"
    /\ \E qty \in {0, Wish.qty} :
        /\ qty # 0 => session.trades /\ Wish.tif # "postOnly" /\ Takes(Here.sym, Wish, qty)
        /\ qty = 0 => Wish.tif # "ioc"
        /\ orders' = Append(orders,
             [sym |-> Here.sym, side |-> Wish.side, qty |-> Wish.qty, price |-> Wish.price,
              reduce |-> Wish.reduce, tif |-> Wish.tif, open |-> qty = 0, done |-> qty,
              known |-> FALSE, vouched |-> FALSE, filled |-> 0, ended |-> FALSE, applied |-> 0,
              ahead |-> FALSE, late |-> Here.late])
        /\ stage' \in {"lost", IF qty = 0 THEN "resting" ELSE "filled"}
    /\ UNCHANGED <<session, queue, misread, stacked, marks, clock, budgetVars, moneyVars>>

(* The order is refused, or never arrives. *)
VenueRefuses ==
    /\ stage = "sent"
    /\ stage' = "idle"
    /\ queue' = Tail(queue)
    /\ UNCHANGED <<session, orders, misread, stacked, marks, clock, budgetVars, moneyVars>>

Trade(id) ==
    /\ session.trades /\ orders[id].open
    /\ Takes(orders[id].sym, orders[id], Lot)
    /\ orders' = [orders EXCEPT ![id].done = @ + Lot,
                                ![id].open = orders[id].done + Lot < orders[id].qty]
    /\ UNCHANGED <<session, queue, stage, misread, stacked, marks, clock, budgetVars, moneyVars>>

(* An order update, from the stream or from a poll: a quantity only grows,
   an end stays, and an unknown order is adopted. *)
OrderFrame(id) ==
    LET o == orders[id]
    IN  /\ orders' = [orders EXCEPT ![id].known = TRUE,
                                    ![id].filled = Greatest(o.filled, o.done),
                                    ![id].ended = o.ended \/ ~o.open,
                                    ![id].ahead = o.ahead \/ o.applied < o.done]
        /\ orders' # orders
        /\ UNCHANGED <<session, queue, stage, misread, stacked, marks, clock, budgetVars, moneyVars>>

(* A fill: to the position in any case, and to the order if it is known. *)
FillFrame(id) ==
    LET o == orders[id]
    IN  /\ o.applied < o.done
        /\ orders' = [orders EXCEPT ![id].applied = o.applied + Lot,
                                    ![id].filled = IF o.known THEN o.filled + Lot ELSE o.filled,
                                    ![id].ended = o.ended \/ (o.known /\ o.filled + Lot >= o.qty)]
        /\ UNCHANGED <<session, queue, stage, misread, stacked, marks, clock, budgetVars, moneyVars>>

MarkMoves(s) ==
    /\ marks' \in {[marks EXCEPT ![s] = px] : px \in session.marks \ {marks[s]}}
    /\ UNCHANGED <<session, orderVars, clock, budgetVars, moneyVars>>

-----------------------------------------------------------------------------
(* Budgets and clocks.                                                     *)

Tick ==
    /\ clock.now < session.ticks
    /\ clock' = [now |-> clock.now + 1, peak |-> Greatest(clock.peak, clock.now + 1)]
    /\ UNCHANGED <<session, orderVars, marks, budgetVars, moneyVars>>

(* The wall clock is set back a little. *)
StepBack ==
    /\ clock.now = clock.peak /\ clock.now > 1 /\ session.paced
    /\ clock' = [clock EXCEPT !.now = @ - 1]
    /\ UNCHANGED <<session, orderVars, marks, budgetVars, moneyVars>>

InfoWeight == 2

(* refresh_rate_budget: the query is charged to the window, and the venue
   answers with its count; what is sent meanwhile is not in the answer. *)
AskBudget ==
    /\ session.paced /\ reading = {}
    /\ AdmitsInfo(gov, session.budget, clock.now, InfoWeight)
    /\ gov' = AfterInfo(gov, session.budget, clock.now, InfoWeight)
    /\ log' = Append(log, [at |-> clock.now, weight |-> InfoWeight])
    /\ reading' = {spent}
    /\ UNCHANGED <<session, orderVars, marks, clock, spent, missed, moneyVars>>

HearBudget ==
    /\ \E count \in reading : gov' = AfterReading(gov, session.budget, clock.now, count)
    /\ reading' = {}
    /\ missed' = [lacks |-> missed.since, since |-> 0]
    /\ UNCHANGED <<session, orderVars, marks, clock, spent, log, moneyVars>>

-----------------------------------------------------------------------------
(* Money.                                                                  *)

otherVars == <<session, orderVars, marks, clock, budgetVars>>

Swing ==
    /\ \E amount \in session.swings, kind \in {"realized", "marked"} :
        /\ Abs(equity + amount) <= session.stake
        /\ Abs(pnl[kind] + amount) <= session.stake
        /\ MoneyMoves(amount, kind)
    /\ UNCHANGED otherVars

PollAccount ==
    /\ session.days > 0
    /\ AccountRead
    /\ UNCHANGED otherVars

Midnight ==
    /\ \E to \in {date - 1, date + 1} \cap 1..session.days : DayTurns(to)
    /\ UNCHANGED otherVars

StatusPass ==
    /\ session.swings # {}
    /\ \E disk \in {"written", "kept", "torn"} :
        JudgeLoss(session.limits, \A s \in Symbols : Seen(s) # 0 => marks[s] # Unpriced, disk)
    /\ UNCHANGED otherVars

Restart ==
    /\ session.days > 0
    /\ MoneyRestarts
    /\ UNCHANGED otherVars

-----------------------------------------------------------------------------

Next ==
    \/ \E s \in Symbols : PlanSymbol(s) \/ MarkMoves(s)
    \/ PumpCancel \/ PumpPlace \/ PumpDone \/ PumpHears
    \/ VenueAccepts \/ VenueRefuses
    \/ \E id \in 1..Len(orders) : Trade(id) \/ OrderFrame(id) \/ FillFrame(id)
    \/ Tick \/ StepBack \/ AskBudget \/ HearBudget
    \/ Swing \/ PollAccount \/ Midnight \/ StatusPass \/ Restart

Spec == Init /\ [][Next]_vars

-----------------------------------------------------------------------------
(* What the path promises.                                                 *)

Sides == {"buy", "sell"}

Order ==
    [sym : Symbols, side : Sides, qty : Nat \ {0}, price : Nat, reduce : BOOLEAN,
     tif : {"postOnly", "gtc", "ioc"}, open : BOOLEAN, done : Nat, known : BOOLEAN,
     vouched : BOOLEAN, filled : Nat, ended : BOOLEAN, applied : Nat, ahead : BOOLEAN, late : BOOLEAN]

(* An order is filled no further than its size, told of no further than it
   is filled, and answered for only by its own answer; one order is on its
   way to the venue at most. *)
TypeOK ==
    /\ session \in Sessions
    /\ orders \in Seq(Order)
    /\ \A id \in 1..Len(orders) :
        /\ orders[id].applied <= orders[id].done /\ orders[id].done <= orders[id].qty
        /\ orders[id].open => orders[id].done < orders[id].qty
        /\ orders[id].vouched => orders[id].known
    /\ stage \in {"idle", "sent", "resting", "filled", "lost"}
    /\ stage # "idle" => queue # <<>> /\ Here.cancels = {} /\ Here.orders # {}
    /\ marks \in [Symbols -> session.marks]
    /\ clock.now \in 1..clock.peak /\ clock.peak <= session.ticks
    /\ gov.weight = Weight(gov.window) /\ gov.used \in Nat
    /\ reading \subseteq 0..spent
    /\ misread.symbols \subseteq Symbols /\ stacked \subseteq Symbols

(* guard.rs, tracker.rs:343: resting orders count as filled, so that orders
   which pass one at a time do not pass the limit together.  Whatever fills
   in whatever order, the position stays within the limit, unless an order
   was admitted while the answer to another was lost, or an update had come
   before its fill, or a live order on the other side was set off. *)
ExposureStaysInBounds ==
    \A s \in Symbols \ misread.symbols :
        /\ Worst(s, "buy") <= session.limits.position
        /\ Worst(s, "sell") >= -session.limits.position

(* portfolio.rs: the same for the book.  The instruments that carry a
   position or may come to are no more than it may have, and what they may
   come to weigh, at a price that does not move, is no more either; unless an
   order was admitted while the sum set one order off against another. *)
BookStaysInBounds ==
    LET limits == session.limits
        Reach(s) == Greatest(Abs(Worst(s, "buy")), Abs(Worst(s, "sell")))
    IN  ~misread.book =>
            /\ limits.symbols > 0 => Cardinality({s \in Symbols : Reach(s) # 0}) <= limits.symbols
            /\ limits.gross > 0 /\ Cardinality(session.marks) = 1 =>
                    SumFunction([s \in Symbols |-> Reach(s) * marks[s]]) <= limits.gross

(* guard.rs, loss.rs: once the switch is thrown, what was sent after it only
   takes the position towards flat, and never through it, unless an order
   joined another on its side whose fills were not all known, then or while
   it was at work. *)
TrippedOnlyShrinks ==
    [][\A s \in Symbols \ stacked :
        \A id \in Ids(s) :
            (orders[id].late /\ orders'[id].done > orders[id].done) =>
                Held(s) * Held(s)' >= 0 /\ Abs(Held(s)') < Abs(Held(s))]_vars

(* planner.rs: whatever the lot, an order takes the position to the point
   nearest the target that is on the lot, or for a reduce-only signal to the
   nearest of those between the position and flat. *)
ReachesItsTarget(req, sig, at, lot) ==
    LET asked  == IF sig.close THEN 0 ELSE sig.target
        onLot  == {n \in Least(asked, 0)..Greatest(asked, 0) : n % lot = 0}
        near   == CHOOSE n \in onLot : \A m \in onLot : Abs(asked - n) <= Abs(asked - m)
        within == Least(at, 0)..Greatest(at, 0)
        goal   == IF ReduceOnly(sig)
                  THEN CHOOSE n \in within : \A m \in within : Abs(near - n) <= Abs(near - m)
                  ELSE near
    IN  at + Signed(req.side, req.qty) = goal

(* planner.rs: the price sent is on the tick and never worse than the band,
   an order that is to trade now crosses the touch, and none is priced from a
   book that is locked, crossed or has one side. *)
HasASendablePrice(req, sig, quote, tick) ==
    /\ quote.bid > 0 /\ quote.bid < quote.ask
    /\ req.price > 0 /\ req.price % tick = 0
    /\ sig.limit # 0 => IF req.side = "buy" THEN req.price <= sig.limit ELSE req.price >= sig.limit
    /\ Marketable(sig) => Crosses(req.price, req.side, quote)

(* planner.rs: a position is never left behind because it is small.  With a
   usable market to price it in, a signal for zero that sets no band plans the
   order that takes it to flat. *)
LeavesIfAsked(planned, sig, at, s, quote) ==
    marks[s] # Unpriced /\ Usable(quote) /\ (sig.close \/ sig.target = 0) /\ sig.limit = 0
    /\ session.planner.precision = "known" /\ at # 0
    => \E req \in planned : at + Signed(req.side, req.qty) = 0

(* governor.rs: the window's sum is no less than what was charged in the
   last minute, also when the wall clock steps back. *)
WindowCountsEveryCharge ==
    LET recent == {i \in DOMAIN log : clock.peak < log[i].at + session.budget.span}
    IN  Prune(gov, session.budget, clock.peak).weight
            >= SumFunctionOnSet([i \in DOMAIN log |-> log[i].weight], recent)

(* governor.rs: a refusal for weight names the moment from which the request
   fits, and a moment earlier it does not. *)
RetryIsExact ==
    LET cfg == session.budget
        Over(g, weight, ceiling) == g.weight + weight - ceiling
    IN  \A weight \in 1..InfoWeight, ceiling \in {IpPlaceCeiling(cfg), cfg.ipLimit} :
            Over(gov, weight, ceiling) > 0 /\ weight <= ceiling =>
                \E at \in FreesAt(gov, cfg, Over(gov, weight, ceiling)) :
                    /\ Over(Prune(gov, cfg, at), weight, ceiling) <= 0
                    /\ Over(Prune(gov, cfg, at - 1), weight, ceiling) > 0

(* governor.rs: what the count of credits can lack is what was sent without a
   charge, or since the venue counted.  While a reading is on its way, it lacks
   what was sent since it was asked for. *)
TheCountLagsByWhatIsMissed ==
    /\ spent <= gov.used + missed.lacks
    /\ \A count \in reading : spent <= count + missed.since

(* daybook.rs, loss.rs: a loss beyond its limit has thrown the switch by the
   time the core has judged it, across restarts, midnights and a dead feed;
   it is measured against the day's first reading. *)
LossesTrip == JudgedLossesTrip(session.limits) /\ TheBaselineIsTheFirst

(* The limits of the gate, for a symbol and for the book. *)
LimitsInv == TypeOK /\ ExposureStaysInBounds /\ BookStaysInBounds

(* A plan is right in its quantity and in its price, and an exit has one. *)
PlansAreRight ==
    \A s \in Symbols, sig \in session.signals, quote \in session.quotes :
        \E planned \in {Plan(sig, Context(s, quote, TRUE), session.planner).orders} :
            /\ \A req \in planned :
                /\ ReachesItsTarget(req, sig, Seen(s), session.planner.lot)
                /\ HasASendablePrice(req, sig, quote, session.planner.tick)
            /\ LeavesIfAsked(planned, sig, Seen(s), s, quote)

(* The weight window neither forgets a charge nor keeps one too long, and the
   count of credits falls short of the venue's by no more than is known. *)
TheWindowIsExact == WindowCountsEveryCharge /\ RetryIsExact /\ TheCountLagsByWhatIsMissed

(* governor.rs: the reserve keeps placements off the venue's own limit, with
   a count that lags: as long as the requests it lacks are no more than the
   reserve, no placement goes out that the venue refuses for its budget. *)
NoPlaceMeetsTheLimit ==
    [][stage = "idle" /\ stage' = "sent" /\ session.paced
        /\ missed.lacks <= session.budget.reserve
        => spent < session.budget.limit]_vars
=============================================================================
