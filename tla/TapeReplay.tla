----------------------------- MODULE TapeReplay -----------------------------
(***************************************************************************)
(* What a recorded session looks like when it is read back:                *)
(*   axon-replay/src/log.rs      OrderingWatch, the shape of a tape        *)
(*   axon-replay/src/replay.rs   the two traversals                        *)
(*   axon-runtime/src/capture.rs CapturedSignals, when a signal is due     *)
(*   axon-replay/examples/chain  the harness that polls along the tape     *)
(* Operators only.  An event is [ts, kind]; a recorded signal is           *)
(* [release], its number its place in the log.                             *)
(***************************************************************************)
EXTENDS Integers, Sequences

CONSTANTS
    Interval,       \* drain_interval_ms
    MaxPerDrain,
    Window          \* how long a bar's window is

ASSUME TapeAssumption == {Interval, MaxPerDrain, Window} \subseteq Nat \ {0}

None == -1          \* an Option that is not there; times are naturals

GreaterOf(a, b) == IF a > b THEN a ELSE b

\* A bar's event time is the end of its window, which is computed and not
\* observed: it does not move the core's clock.
Advances(e) == e.kind # "bar"

ClockAfter(clock, e) == IF Advances(e) THEN GreaterOf(clock, e.ts) ELSE clock

-----------------------------------------------------------------------------
(* The watch over capture order: how far it is from event-time order, how  *)
(* much of that a bar's stamp explains, and what the venue itself did.     *)

EmptyWatch == [high |-> None, markOpen |-> None, venueHigh |-> None,
               late |-> 0, behindDerived |-> 0, venueLate |-> 0]

\* The start of what the stamp stands for, when the venue did not set it: a
\* bar explains its own window, a receipt's stamp whatever came before.
MarkOpen(e) ==
    CASE e.kind = "bar" -> e.ts - Window
      [] e.kind = "ticker" -> 0
      [] OTHER -> None

Observed(w, e) ==
    LET late == w.high # None /\ e.ts < w.high
        venueLate == w.venueHigh # None /\ e.ts < w.venueHigh
        explained == late /\ w.markOpen # None /\ e.ts >= w.markOpen
        seen == IF late
                THEN [w EXCEPT !.late = @ + 1,
                               !.behindDerived = @ + (IF explained THEN 1 ELSE 0)]
                ELSE [w EXCEPT !.high = e.ts,
                               !.markOpen = MarkOpen(e)]
    IN  IF e.kind # "trade" THEN seen
        ELSE IF venueLate THEN [seen EXCEPT !.venueLate = @ + 1]
        ELSE [seen EXCEPT !.venueHigh = e.ts]

Watched(events) ==
    LET watch[k \in 0 .. Len(events)] ==
            IF k = 0 THEN EmptyWatch ELSE Observed(watch[k-1], events[k])
    IN  watch[Len(events)]

-----------------------------------------------------------------------------
(* The traversals.  In event time the queue breaks ties by push order,     *)
(* which is capture order.                                                 *)

Earlier(events, i, j) ==
    events[i].ts < events[j].ts \/ (events[i].ts = events[j].ts /\ i < j)

EventTimeOrder(events) ==
    LET order == CHOOSE p \in [DOMAIN events -> DOMAIN events] :
                    \A k, l \in DOMAIN events : k < l => Earlier(events, p[k], p[l])
    IN  [k \in DOMAIN events |-> events[order[k]]]

Traversed(events, order) ==
    IF order = "AsCaptured" THEN events ELSE EventTimeOrder(events)

-----------------------------------------------------------------------------
(* One replay.  After every event the harness tells the feed a time, asks  *)
(* for a pass if a signal is due, and the pass tells the feed the core's   *)
(* clock before it drains.                                                 *)

\* Mutant: due only once the clock is past its release.
DueStrictly(r, signals, feed) == r.next <= Len(signals) /\ signals[r.next].release < feed

Due(r, signals, feed) == r.next <= Len(signals) /\ signals[r.next].release <= feed

Gate(lastPass, now) == lastPass = None \/ now - lastPass >= Interval

\* How many of the records from the next one on a drain hands over: they are
\* released in order, and the first that is not due ends it.
Released(r, signals, feed) ==
    LET due(n) == \A i \in r.next .. r.next + n - 1 :
                    i <= Len(signals) /\ signals[i].release <= feed
    IN  CHOOSE n \in 0 .. MaxPerDrain :
            due(n) /\ \A m \in 0 .. MaxPerDrain : due(m) => m <= n

EmptyReplay == [clock |-> 0, feed |-> None, next |-> 1, lastPass |-> None, reads |-> <<>>]

ReplayStep(r, signals, at, e) ==
    LET clock == ClockAfter(r.clock, e)
        told == GreaterOf(r.feed, e.ts)
        passes == Due(r, signals, told) /\ Gate(r.lastPass, clock)
        feed == IF passes THEN GreaterOf(told, clock) ELSE told
        n == IF passes THEN Released(r, signals, feed) ELSE 0
    IN  [clock |-> clock, feed |-> feed, next |-> r.next + n,
         lastPass |-> IF passes THEN clock ELSE r.lastPass,
         reads |-> r.reads \o [k \in 1..n |-> [at |-> at, now |-> clock]]]

Replay(events, signals, order) ==
    LET tape == Traversed(events, order)
        run[k \in 0 .. Len(tape)] ==
            IF k = 0 THEN EmptyReplay ELSE ReplayStep(run[k-1], signals, k, tape[k])
    IN  run[Len(tape)].reads
=============================================================================
