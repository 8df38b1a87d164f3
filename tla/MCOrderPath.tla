----------------------------- MODULE MCOrderPath -----------------------------
(* OrderPath on small sessions, each of which brings out one of its parts. *)
EXTENDS OrderPath

Signal(target) == [target |-> target, close |-> FALSE, reduce |-> FALSE, urgency |-> 1, limit |-> 0]
Close == [Signal(0) EXCEPT !.close = TRUE]

Coarse == [precision |-> "known", lot |-> 1, tick |-> 1, slip |-> 0, minQty |-> 0,
           minNotional |-> 0, slack |-> 0]
Boundless == [position |-> 100, notional |-> 1000, order |-> 100, gross |-> 0, net |-> 0,
              symbols |-> 0, session |-> 0, day |-> 0]
Ample == [span |-> 1, ipLimit |-> 100, ipReserve |-> 0, reserve |-> 0, bonus |-> 0, drip |-> 0, limit |-> 100]

Quiet == [held |-> [a |-> 0], signals |-> {}, quotes |-> {[bid |-> 1, ask |-> 2]}, planner |-> Coarse,
          limits |-> Boundless, marks |-> {1}, budget |-> Ample, paced |-> FALSE, orders |-> 0,
          requests |-> 0, ticks |-> 1, swings |-> {}, stake |-> 0, trades |-> TRUE, days |-> 0]

(* Targets within the limit and beyond it. *)
Exposed == [Quiet EXCEPT !.signals = {Signal(2), Signal(-2), Close}, !.orders = 2, !.limits.position = 2]
Churned == [Exposed EXCEPT !.signals = {Signal(1), Close}, !.orders = 3, !.limits.position = 1]

(* A loss that trips the switch. *)
Tripped == [Quiet EXCEPT !.held = [a |-> 1], !.signals = {Signal(2), Signal(-1)}, !.orders = 2,
    !.limits.session = 1, !.swings = {-2}, !.stake = 2]

(* Two instruments, one of which may be open. *)
Wide == [Quiet EXCEPT !.held = [a |-> 0, b |-> 0], !.orders = 2,
    !.signals = {[Signal(1) EXCEPT !.urgency = 0], [Close EXCEPT !.urgency = 3]},
    !.limits.symbols = 1, !.limits.gross = 2]

(* Lots, ticks, minimums and bands; quotes on the tick and off it, and locked,
   crossed and one-sided ones. *)
Grids == {[Coarse EXCEPT !.lot = 2, !.tick = 2, !.slip = 3, !.minQty = 4, !.slack = 50],
          [Coarse EXCEPT !.lot = 2, !.tick = 2, !.slip = 1, !.minNotional = 20],
          [Coarse EXCEPT !.precision = "unknown"]}
Asked == [target : {-5, 0, 3}, close : BOOLEAN, reduce : BOOLEAN, urgency : 0..3, limit : {0, 7, 9}]
Quotes == {[bid |-> 7, ask |-> 9], [bid |-> 8, ask |-> 9], [bid |-> 8, ask |-> 8],
           [bid |-> 9, ask |-> 8], [bid |-> 0, ask |-> 9]}
Planned == {[Quiet EXCEPT !.held = [a |-> at], !.signals = Asked, !.planner = grid, !.marks = {Unpriced, 8},
                !.quotes = Quotes, !.orders = 0]
            : at \in {-4, 0, 2, 6}, grid \in Grids}

(* Budgets of a few requests, and clocks. *)
Paced == [Quiet EXCEPT !.signals = {Signal(1)}, !.paced = TRUE, !.trades = FALSE, !.orders = 2,
    !.requests = 4, !.ticks = 3,
    !.budget = [span |-> 2, ipLimit |-> 4, ipReserve |-> 1, reserve |-> 1, bonus |-> 1, drip |-> 2, limit |-> 3]]

(* Gains and losses over midnights and restarts, and a position whose price
   comes and goes. *)
Daily == [Quiet EXCEPT !.held = [a |-> 1], !.swings = {-2, 2}, !.stake = 2, !.days = 1, !.limits.day = 1]
Overnight == [Daily EXCEPT !.swings = {-2}, !.days = 2]
Unsteady == [Quiet EXCEPT !.held = [a |-> 1], !.marks = {Unpriced, 1}, !.swings = {-2, 2}, !.stake = 4,
    !.limits.session = 3]

AllSessions == {Exposed, Churned, Tripped, Wide, Paced, Daily, Overnight, Unsteady} \cup Planned
=============================================================================
