---------------------------- MODULE MCTargetBook ----------------------------
(* Instances of TargetBook for TLC. *)
EXTENDS TargetBook

Ask(qty) == [qty |-> qty, flags |-> {}]
Close == [qty |-> 0, flags |-> {"close"}]
Shrink == [qty |-> 1, flags |-> {"reduce"}]

Hold == [onSilence |-> "Hold", window |-> Unbounded]
Flat == [onSilence |-> "Flat", window |-> 1]

(* Two producers of one symbol, without limits. *)
Shared == [policies |-> <<Hold, Flat>>, owns |-> <<{1}, {1}>>, budgets |-> <<Unbounded, Unbounded>>,
           overlap |-> "Net", marks |-> <<1>>, scaleToFit |-> FALSE, gross |-> Unbounded,
           net |-> Unbounded, symbols |-> Unbounded, lifetime |-> 1, sweepEvery |-> 1, requotes |-> 1,
           asks |-> {Ask(2), Close}, moods |-> {}, records |-> 3, ticks |-> 3, refusals |-> 0,
           failures |-> 0, halts |-> 0]

(* Both may fall silent, and the queue may be full. *)
Silenced == [Shared EXCEPT !.policies = <<Flat, Flat>>, !.asks = {Ask(2)}, !.records = 2, !.refusals = 1]
Exclusive == [Silenced EXCEPT !.overlap = "Exclusive", !.asks = {Ask(1), Shrink}]

(* Orders without a lifetime, which nothing sweeps and nothing re-quotes. *)
Unswept == [Silenced EXCEPT !.lifetime = Unbounded, !.refusals = 0]

(* What keeps an order from being placed, and a cancel from being heard. *)
Unruly == [Silenced EXCEPT !.records = 1, !.refusals = 0, !.failures = 1, !.halts = 2,
                           !.moods = {"closed", "coarse"}]

(* Two symbols and every limit, with prices and without; a silent claim may be
   the one that has none. *)
Limited == [Shared EXCEPT !.policies = <<Flat, Hold>>, !.owns = <<{1, 2}, {1}>>, !.budgets = <<30, Unbounded>>, !.requotes = 0,
            !.scaleToFit = TRUE, !.gross = 60, !.net = 25, !.symbols = 1,
            !.asks = {Ask(50), Ask(-35)}, !.records = 2, !.ticks = 2, !.sweepEvery = 2, !.lifetime = 2]
Markets == {<<1, 2>>, <<1, 0>>}

(* Two producers of which one speaks for itself, and then both. *)
Joined == {[Shared EXCEPT !.records = 2]}

AllSessions == {Shared, Silenced, Exclusive, Unswept, Unruly}
                  \cup {[Limited EXCEPT !.marks = marks] : marks \in Markets}
=============================================================================
