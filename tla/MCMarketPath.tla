----------------------------- MODULE MCMarketPath -----------------------------
(* Instances of MarketPath for TLC. *)
EXTENDS MarketPath

Session(feeds, prices, events, ticks) ==
    [feeds |-> feeds, monitored |-> FALSE, prices |-> prices, events |-> events,
     ticks |-> ticks, deaths |-> 0, slots |-> 1, drained |-> TRUE]

Quotes == Session({"bbo", "book", "ticker"}, {1, 2}, 3, 3)
Trades == [Session({"bbo", "trade"}, {1, 2}, 3, 3) EXCEPT !.deaths = 1]
Bars == Session({"candle"}, {}, 4, 1)
Watched == [Session({"trade"}, {1, 3}, 2, 1) EXCEPT
    !.monitored = TRUE, !.deaths = 1, !.slots = 2, !.drained = FALSE]

EverySession == {Quotes, Trades, Bars, Watched}
=============================================================================
