------------------------------- MODULE Planner -------------------------------
(***************************************************************************)
(* How a target becomes an order, and the risk gate the order must clear:  *)
(*   axon-strategy/src/planner.rs          Planner::plan                   *)
(*   axon-providers/src/instrument.rs      lots and ticks                  *)
(* Pure operators.  Quantities and prices are integers in units finer than *)
(* the venue's lot and tick.  A signal is a record                         *)
(*   target, close, reduce, urgency, limit  (limit: price band, 0 for none)*)
(* a configuration one of                                                  *)
(*   precision ("known" or "unknown"), lot, tick, slip, minQty,            *)
(*   minNotional, slack  (percent of the no-op band)                       *)
(* and a context one of position, quote, working (the live orders of the   *)
(* symbol), aged (whether the working order has outlived its bound).       *)
(***************************************************************************)
EXTENDS Integers, FiniteSets

Abs(n) == IF n < 0 THEN -n ELSE n
Least(a, b) == IF a < b THEN a ELSE b
Greatest(a, b) == IF a > b THEN a ELSE b
Clamp(n, low, high) == Greatest(low, Least(n, high))

Signed(side, qty) == IF side = "buy" THEN qty ELSE -qty

(* SizeGrid::quantize: toward zero. *)
Truncate(qty, lot) == IF qty < 0 THEN -((-qty) - ((-qty) % lot)) ELSE qty - (qty % lot)

(* PriceGrid::quantize: a marketable price moves into the market, a passive
   one away from it. *)
OnTick(px, side, marketable, tick) ==
    LET down == px - (px % tick)
    IN  IF px <= 0 \/ px % tick = 0 THEN px
        ELSE IF (side = "buy") = marketable THEN down + tick ELSE down

NoQuote == [bid |-> 0, ask |-> 0]

(* Both sides present, and neither locked nor crossed. *)
Usable(quote) == quote.bid > 0 /\ quote.ask > quote.bid

(* URGENCY_TABLE: what each level gives up. *)
Marketable(sig) == sig.urgency >= 2
Slips(sig) == sig.urgency >= 3
Tif(sig) == IF sig.urgency = 0 THEN "postOnly" ELSE IF Slips(sig) THEN "ioc" ELSE "gtc"

-----------------------------------------------------------------------------
(* How much.                                                               *)

ReduceOnly(sig) == sig.reduce \/ sig.close

(* The target is put on the lot, not the difference to it. *)
Goal(sig, cfg) ==
    LET asked == IF sig.close THEN 0 ELSE sig.target
    IN  IF cfg.precision = "known" THEN Truncate(asked, cfg.lot) ELSE asked

(* reduce_only_delta: what of it stays between the position and flat. *)
Shrinking(delta, position) ==
    Clamp(delta, Least(-position, 0), Greatest(-position, 0))

(* Mutant: the difference is put on the lot instead of the target. *)
DeltaOnTheLot(sig, position, cfg) ==
    LET asked == IF sig.close THEN 0 ELSE sig.target
        raw   == IF cfg.precision = "known" THEN Truncate(asked - position, cfg.lot) ELSE asked - position
    IN  IF ReduceOnly(sig) THEN Shrinking(raw, position) ELSE raw

Delta(sig, position, cfg) ==
    LET raw == Goal(sig, cfg) - position
    IN  IF ReduceOnly(sig) THEN Shrinking(raw, position) ELSE raw

Qty(sig, position, cfg) ==
    LET qty == Abs(Delta(sig, position, cfg))
    IN  IF cfg.precision = "known" THEN Truncate(qty, cfg.lot) ELSE qty

SideOf(sig, position, cfg) == IF Delta(sig, position, cfg) > 0 THEN "buy" ELSE "sell"

(* The order takes the position to exactly flat, whatever its flags say. *)
ClosesOut(sig, position, cfg) ==
    /\ position # 0
    /\ Goal(sig, cfg) = 0
    /\ Qty(sig, position, cfg) = Abs(position)

-----------------------------------------------------------------------------
(* At what price.                                                          *)

NearTouch(side, quote) == IF side = "buy" THEN quote.bid ELSE quote.ask
FarTouch(side, quote) == IF side = "buy" THEN quote.ask ELSE quote.bid
Anchor(sig, side, quote) == IF Marketable(sig) THEN FarTouch(side, quote) ELSE NearTouch(side, quote)

(* The band is a ceiling for a buy and a floor for a sell. *)
Banded(px, band, side) ==
    IF band = 0 THEN px ELSE IF side = "buy" THEN Least(px, band) ELSE Greatest(px, band)

Wanted(sig, side, quote, cfg) ==
    Banded(Anchor(sig, side, quote) + (IF Slips(sig) THEN Signed(side, cfg.slip) ELSE 0), sig.limit, side)

BandOnTick(sig, side, cfg) == OnTick(sig.limit, side, FALSE, cfg.tick)

(* With no grid only the venue's own touch is a price. *)
Price(sig, side, quote, cfg) ==
    IF cfg.precision = "unknown" THEN Anchor(sig, side, quote)
    ELSE Banded(OnTick(Wanted(sig, side, quote, cfg), side, Marketable(sig), cfg.tick),
                BandOnTick(sig, side, cfg), side)

Crosses(px, side, quote) ==
    IF side = "buy" THEN px >= quote.ask ELSE px <= quote.bid

-----------------------------------------------------------------------------
(* Whether at all.                                                         *)

(* Everything that speaks against an order; the code names the first. *)
Objections(sig, ctx, cfg) ==
    LET side  == SideOf(sig, ctx.position, cfg)
        qty   == Qty(sig, ctx.position, cfg)
        px    == Price(sig, side, ctx.quote, cfg)
        exits == ClosesOut(sig, ctx.position, cfg)
        grid  == cfg.precision = "known"
        Says(reason, holds) == IF holds THEN {reason} ELSE {}
    IN  Says("AlreadyAtTarget", Delta(sig, ctx.position, cfg) = 0)
        \cup Says("BelowLotSize", qty = 0)
        \cup Says("BelowMinQty", qty < cfg.minQty /\ ~exits)
        \cup Says("NoQuote", ~Usable(ctx.quote))
        \cup Says("BadPriceBand", sig.limit < 0)
        \cup Says("UnknownPrecision",
                  ~grid /\ \/ ~ReduceOnly(sig) \/ qty # Abs(ctx.position)
                           \/ Banded(px, sig.limit, side) # px)
        \cup Says("PriceNotRepresentable",
                  grid /\ (px <= 0 \/ (sig.limit > 0 /\ BandOnTick(sig, side, cfg) <= 0)))
        \cup Says("Unfillable", grid /\ Marketable(sig) /\ ~Crosses(px, side, ctx.quote))
        \cup Says("BelowMinNotional", grid /\ qty * px < cfg.minNotional /\ ~ReduceOnly(sig) /\ ~exits)

Request(sig, ctx, cfg) ==
    LET side == SideOf(sig, ctx.position, cfg)
    IN  [side |-> side, qty |-> Qty(sig, ctx.position, cfg), reduce |-> ReduceOnly(sig),
         price |-> Price(sig, side, ctx.quote, cfg), tif |-> Tif(sig)]

(* The order already working is this one, up to the no-op band: an order of
   unknown terms never is, and a reduce-only one has no band. *)
IsWorking(req, w, cfg) ==
    /\ w.vouched
    /\ <<w.side, w.price, w.reduce, w.tif>> = <<req.side, req.price, req.reduce, req.tif>>
    /\ \/ w.left = req.qty
       \/ /\ cfg.slack > 0 /\ ~req.reduce /\ w.left > 0
          /\ Abs(w.left - req.qty) * 100 <= cfg.slack * w.left

(* Whatever is working is cancelled, unless it alone is the order wanted. *)
Plan(sig, ctx, cfg) ==
    LET req == Request(sig, ctx, cfg)
    IN  IF Objections(sig, ctx, cfg) # {}
        THEN [cancels |-> {w.id : w \in ctx.working}, orders |-> {}]
        ELSE IF /\ Cardinality(ctx.working) = 1
                /\ ~ctx.aged
                /\ \E w \in ctx.working : IsWorking(req, w, cfg)
        THEN [cancels |-> {}, orders |-> {}]
        ELSE [cancels |-> {w.id : w \in ctx.working}, orders |-> {req}]
=============================================================================
