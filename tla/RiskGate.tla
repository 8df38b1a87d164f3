------------------------------ MODULE RiskGate ------------------------------
(***************************************************************************)
(* The checks an order passes before it reaches the venue:                 *)
(*   axon-risk/src/lib.rs, portfolio.rs    one symbol, and the whole book  *)
(*   axon-execution/src/guard.rs           GuardedClient::check_one        *)
(*   axon-execution/src/loss.rs            LossLimiter::judge              *)
(* Limits are a record position, notional, order, gross, net, symbols,     *)
(* session, day; of the last five 0 declares none.  A book maps a symbol   *)
(* to its projected qty and its mark, 0 for no usable price.  An optional  *)
(* reading is a set of at most one number.                                 *)
(***************************************************************************)
EXTENDS Planner, Functions

Unpriced == 0

(* Strictly off the position, and not through zero. *)
ReducesExposure(req, position) ==
    LET projected == position + Signed(req.side, req.qty)
    IN  /\ position # 0
        /\ \/ projected = 0
           \/ ((projected > 0) = (position > 0)) /\ (Abs(projected) < Abs(position))

(* RiskEngine::check, against the projected position. *)
EngineClears(limits, req, position, mark) ==
    LET projected == position + Signed(req.side, req.qty)
        flips     == position * projected < 0
    IN  /\ req.qty <= limits.order
        /\ IF req.reduce
           THEN Abs(projected) <= Abs(position) /\ ~flips
           ELSE Abs(projected) <= limits.position /\ Abs(projected) * mark <= limits.notional

OpenLegs(book) == {s \in DOMAIN book : book[s].qty # 0}
Priced(book) == \A s \in OpenLegs(book) : book[s].mark # Unpriced
Gross(book) == SumFunction([s \in DOMAIN book |-> Abs(book[s].qty) * book[s].mark])
Net(book) == Abs(SumFunction([s \in DOMAIN book |-> book[s].qty * book[s].mark]))

(* PortfolioExposure::apply, the order filled in full; its leg has the mark
   already. *)
WithOrder(book, s, req) == [book EXCEPT ![s].qty = @ + Signed(req.side, req.qty)]

(* PortfolioEngine::check: an order off its own leg passes whatever the
   totals; any other must not open one instrument too many, nor meet a total
   that is too large or unknown. *)
PortfolioClears(limits, s, req, book, held) ==
    LET after == WithOrder(book, s, req)
    IN  \/ ReducesExposure(req, held)
        \/ /\ limits.symbols > 0 /\ book[s].qty = 0 /\ req.qty # 0
                => Cardinality(OpenLegs(book)) < limits.symbols
           /\ limits.gross > 0 => Priced(after) /\ Gross(after) <= limits.gross
           /\ limits.net > 0 => Priced(after) /\ Net(after) <= limits.net

(* Mutant: the de-risk question is put to the projected position. *)
GateClearsByProjection(limits, tripped, s, req, held, book) ==
    /\ tripped => ReducesExposure(req, book[s].qty)
    /\ PortfolioClears(limits, s, req, book, book[s].qty)
    /\ book[s].mark # Unpriced \/ req.reduce
    /\ EngineClears(limits, req, book[s].qty, book[s].mark)

(* check_one: the loss switch, the book, a price, and the symbol's limits. *)
GateClears(limits, tripped, s, req, held, book) ==
    /\ tripped => ReducesExposure(req, held)
    /\ PortfolioClears(limits, s, req, book, held)
    /\ book[s].mark # Unpriced \/ req.reduce
    /\ EngineClears(limits, req, book[s].qty, book[s].mark)

(* LossLimiter::judge: a session whose bottom line is unknown is judged on
   what it has realized. *)
Breaches(limits, net, realized, dayLoss) ==
    \/ /\ limits.session > 0
       /\ \E figure \in IF net = {} THEN {realized} ELSE net : figure < -limits.session
    \/ (limits.day > 0 /\ \E loss \in dayLoss : loss > limits.day)
=============================================================================
