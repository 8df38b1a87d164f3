------------------------------ MODULE MarkCache ------------------------------
(***************************************************************************)
(* The price the pre-trade gate measures exposure in, and when a price     *)
(* stops counting: crates/axon-execution/src/marks.rs.  One symbol's entry *)
(* is a quote or NoQuote; the cache's own clock is handed in.              *)
(***************************************************************************)
EXTENDS Integers

CONSTANT MaxAge     \* age past which a price no longer counts

NoQuote == [px |-> 0, ts |-> 0, source |-> "none"]

VenueMark(px, ts) == [px |-> px, ts |-> ts, source |-> "mark"]
BookMid(px, ts) == [px |-> px, ts |-> ts, source |-> "mid"]

Later(a, b) == IF a >= b THEN a ELSE b      \* fetch_max

IsStale(ts, now) == now - ts > MaxAge

(* A quote replaces the one in the cache unless it is older, or is a mid and
   the venue's own mark still counts. *)
Supersedes(fresh, incumbent, now) ==
    /\ fresh.ts >= incumbent.ts
    /\ (fresh.source = "mid" /\ incumbent.source = "mark") => IsStale(incumbent.ts, now)

(* Mutant: a mid is as good as the venue's mark. *)
EntryTakesAnySource(fresh, incumbent, now) ==
    IF incumbent = NoQuote \/ fresh.ts >= incumbent.ts THEN fresh ELSE incumbent

(* set: a price is itself evidence of the time. *)
EntryAfterSet(fresh, incumbent, now) ==
    IF incumbent = NoQuote \/ Supersedes(fresh, incumbent, Later(now, fresh.ts))
    THEN fresh
    ELSE incumbent

(* quote, and get: an expired price is no price. *)
Usable(entry, now) == entry # NoQuote /\ ~IsStale(entry.ts, now)
=============================================================================
