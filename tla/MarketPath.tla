----------------------------- MODULE MarketPath -----------------------------
(***************************************************************************)
(* The way of market data through the core thread: a bounded bus, the      *)
(* handler's fan-out to market state, mark cache and market-data           *)
(* publisher, and the pass loop that beats the beacon.                     *)
(*   axon-core/src/bus.rs, event_loop.rs      the bus and the drain        *)
(*   axon-runtime/src/core.rs, handler.rs     the pass and the fan-out     *)
(*   axon-marketdata/src/processor.rs         books, quotes, trades        *)
(*   axon-runtime/src/quote.rs, mdring.rs     top of book, slices, bars    *)
(* The rings are their lengths and what they accepted; SignalRing models   *)
(* the copying.  One instrument, one bar interval.                         *)
(*                                                                         *)
(* A session subscribes to some channels and may have a monitor on its     *)
(* beacon; the beacon's stores are steps only where somebody reads them.   *)
(***************************************************************************)
EXTENDS Beacon, MarkCache

CONSTANTS
    Sessions,       \* what a session may be, records of
                    \*   feeds, monitored: the channels, and a monitor on the beacon
                    \*   prices, slots: the venue's prices, the slots of either ring
                    \*   drained: whether anybody takes records from the rings
                    \*   events, ticks, deaths: bounds on what the venue sends, on
                    \*   the wall clock and on restarts of the process
    Inexact,        \* prices the wire's scale of 10^-8 cannot hold
    BusCapacity,
    MaxLag,         \* bound: how late an event's own time may be
    MaxOpen,        \* bound: bar intervals
    MaxBeats        \* bound: beats before the stop flag is raised

ASSUME MarketPathAssumption ==
    /\ \A s \in Sessions :
            /\ s.feeds \subseteq {"bbo", "book", "trade", "ticker", "candle"}
            /\ s.prices \subseteq Nat \ {0}
            /\ s.ticks \in Nat \ {0}
            /\ {s.events, s.deaths, s.slots} \subseteq Nat
    /\ BusCapacity \in Nat \ {0}
    /\ {MaxAge, MaxLag, MaxBeats, MaxOpen} \subseteq Nat

VARIABLES
    session,    \* what this run of the process subscribes to
    crashes,    \* how often it died
    clock,      \* wall clock
    stopping,   \* the stop flag
    pc,         \* where the core thread is
    bus,
    offered,    \* events the venue has sent
    lastTs,     \* the core's event clock
    market,     \* the last quote, book, trade and ticker
    entry,      \* the symbol's entry in the mark cache
    marksNow,   \* the cache's clock
    last,       \* the slice "unchanged" is measured against
    delivered,  \* history: the last slice the ring accepted
    published,  \* records both rings accepted
    queued,     \* slices in the ring
    forming,    \* the bar still forming, or Absent
    lastOpen,   \* open time of the last bar delivered, 0 for none
    barLog,     \* history: the bars the bar ring accepted
    barsQueued,
    frames      \* history: the last frame handled for each open time, in order

marketVars == <<lastTs, market, entry, marksNow>>
sliceVars == <<last, delivered, queued>>
barVars == <<forming, lastOpen, barLog, barsQueued, frames>>
coreVars == <<marketVars, sliceVars, barVars, published>>
vars == <<session, crashes, clock, stopping, pc, bus, offered, coreVars, beaconVars>>

Absent == [px |-> 0, ts |-> 0]
NoSlice == [top |-> -1, trade |-> Absent, mark |-> 0]
NoBar == [open |-> 0, frame |-> 0, exact |-> TRUE]
NoMarket == [bbo |-> Absent, book |-> Absent, trade |-> Absent, ticker |-> Absent]

CoreInit ==
    /\ stopping = FALSE
    /\ bus = <<>>
    /\ lastTs = 0 /\ market = NoMarket
    /\ entry = NoQuote /\ marksNow = 0
    /\ last = NoSlice /\ delivered = NoSlice /\ queued = 0 /\ published = 0
    /\ forming = NoBar /\ lastOpen = 0 /\ barLog = <<>> /\ barsQueued = 0 /\ frames = <<>>

Init ==
    /\ session \in Sessions
    /\ crashes = 0 /\ clock = 1 /\ offered = 0
    /\ pc = IF session.monitored THEN "create" ELSE "pass"
    /\ CoreInit
    /\ BeaconInit

-----------------------------------------------------------------------------
(* The venue, at the edge: a send waits while the bus is full.  A book may *)
(* have one side only (price 0); a bar frame is of any interval.           *)

EventTimes == {t \in (clock - MaxLag)..clock : t > 0}

Events(kind) ==
    CASE kind = "candle" ->
            [kind : {kind}, open : 1..MaxOpen, frame : {offered + 1}, exact : BOOLEAN]
      [] kind = "book" -> [kind : {kind}, px : session.prices \cup {0}, ts : EventTimes]
      [] OTHER -> [kind : {kind}, px : session.prices, ts : EventTimes]

Send ==
    /\ offered < session.events
    /\ Len(bus) < BusCapacity
    /\ pc \notin {"stopped", "crashed"}
    /\ \E kind \in session.feeds : \E event \in Events(kind) : bus' = Append(bus, event)
    /\ offered' = offered + 1
    /\ UNCHANGED <<session, crashes, clock, stopping, pc, coreVars, beaconVars>>

Tick ==
    /\ clock < session.ticks
    /\ clock' = clock + 1
    /\ UNCHANGED <<session, crashes, stopping, pc, bus, offered, coreVars, beaconVars>>

-----------------------------------------------------------------------------
(* Market state and marks.                                                 *)

MarketAfter(event) ==
    IF event.kind = "candle" THEN market
    ELSE [market EXCEPT ![event.kind] = [px |-> event.px, ts |-> event.ts]]

(* The book's mid if it has both sides, else the last quote's. *)
Mid(m) == IF m.book.px # 0 THEN m.book ELSE m.bbo

(* update_marks: the price an event gives the cache, NoQuote for none.  A book
   with one side stamps the mid of the last quote with its own time. *)
MarkOf(event, m) ==
    CASE event.kind = "ticker" -> VenueMark(event.px, event.ts)
      [] event.kind = "bbo" -> BookMid(event.px, event.ts)
      [] event.kind = "book" /\ Mid(m).px # 0 -> BookMid(Mid(m).px, event.ts)
      [] OTHER -> NoQuote

MarksAfter(event, m) ==
    LET fresh == MarkOf(event, m)
    IN  IF fresh = NoQuote THEN UNCHANGED <<entry, marksNow>>
        ELSE /\ entry' = EntryAfterSet(fresh, entry, marksNow)
             /\ marksNow' = Later(marksNow, fresh.ts)

(* The quote if it is fresh at the event's time, else a two-sided book. *)
TopOfBook(m, now) ==
    IF m.bbo # Absent /\ now - m.bbo.ts <= MaxAge THEN m.bbo.px
    ELSE IF m.book.px # 0 /\ now - m.book.ts <= MaxAge THEN m.book.px
    ELSE 0

-----------------------------------------------------------------------------
(* Slices.                                                                 *)

(* A mark the wire cannot hold is left out; any other price drops the slice. *)
SliceOf(event, m) ==
    [top |-> TopOfBook(m, event.ts), trade |-> m.trade,
     mark |-> IF m.ticker.px \in Inexact THEN 0 ELSE m.ticker.px]

Exact(slice) == {slice.top, slice.trade.px} \cap Inexact = {}

(* Mutant: a slice the ring refused counts as delivered. *)
PublishSliceForgetsTheRefusal(slice) ==
    CASE ~Exact(slice) \/ slice = last -> UNCHANGED <<sliceVars, published>>
      [] OTHER -> /\ last' = slice
                  /\ IF queued < session.slots
                     THEN /\ delivered' = slice
                          /\ queued' = queued + 1
                          /\ published' = published + 1
                     ELSE UNCHANGED <<delivered, queued, published>>

PublishSlice(slice) ==
    IF Exact(slice) /\ slice # last /\ queued < session.slots
    THEN /\ last' = slice /\ delivered' = slice
         /\ queued' = queued + 1
         /\ published' = published + 1
    ELSE UNCHANGED <<sliceVars, published>>

-----------------------------------------------------------------------------
(* Bars: a frame replaces the bar it refines; the bar before is published  *)
(* when a frame of a later interval proves it closed.                      *)

Flag(open) ==
    IF lastOpen = 0 THEN "first"
    ELSE IF open # lastOpen + 1 THEN "gap"
    ELSE "none"

(* Mutant: the flag is measured against the last bar closed. *)
PublishBarMeasuresTheClosed(bar) ==
    /\ lastOpen' = bar.open
    /\ IF bar.exact /\ barsQueued < session.slots
       THEN /\ barLog' = Append(barLog, [open |-> bar.open, frame |-> bar.frame, flag |-> Flag(bar.open)])
            /\ barsQueued' = barsQueued + 1
            /\ published' = published + 1
       ELSE UNCHANGED <<barLog, barsQueued, published>>

(* A bar that is refused leaves lastOpen alone: the next one says "gap". *)
PublishBar(bar) ==
    IF bar.exact /\ barsQueued < session.slots
    THEN /\ barLog' = Append(barLog, [open |-> bar.open, frame |-> bar.frame, flag |-> Flag(bar.open)])
         /\ barsQueued' = barsQueued + 1
         /\ published' = published + 1
         /\ lastOpen' = bar.open
    ELSE UNCHANGED <<barLog, barsQueued, published, lastOpen>>

OnCandle(event) ==
    LET frame == [open |-> event.open, frame |-> event.frame, exact |-> event.exact]
        current == forming = NoBar \/ frame.open >= forming.open
    IN  /\ IF forming # NoBar /\ frame.open > forming.open
           THEN PublishBar(forming)
           ELSE UNCHANGED <<barLog, barsQueued, published, lastOpen>>
        /\ forming' = IF current THEN frame ELSE forming
        /\ frames' = Append(frames, frame)

-----------------------------------------------------------------------------
(* The core thread.                                                        *)

OnEvent(event) ==
    IF event.kind = "candle"
    THEN OnCandle(event) /\ UNCHANGED <<marketVars, sliceVars>>
    ELSE LET m == MarketAfter(event)
         IN  /\ lastTs' = Later(lastTs, event.ts)
             /\ market' = m
             /\ MarksAfter(event, m)
             /\ IF event.kind = "ticker" THEN UNCHANGED <<sliceVars, published>>
                ELSE PublishSlice(SliceOf(event, m))
             /\ UNCHANGED barVars

(* drain_available: every event that is on the bus. *)
Drain ==
    /\ pc = "pass" /\ bus # <<>>
    /\ bus' = Tail(bus)
    /\ OnEvent(Head(bus))
    /\ UNCHANGED <<session, crashes, clock, stopping, pc, offered, beaconVars>>

(* The end of the drain: one reading of the wall clock for the whole pass. *)
ObserveNow ==
    /\ pc = "pass" /\ bus = <<>>
    /\ session.monitored /\ ~stopping => file.beats < MaxBeats
    /\ marksNow' = Later(marksNow, clock)
    /\ pc' = CASE session.monitored -> "event"
               [] ~session.monitored /\ stopping -> "stopped"
               [] OTHER -> "pass"
    /\ UNCHANGED <<session, crashes, clock, stopping, bus, offered, lastTs, market, entry,
                   sliceVars, barVars, published, beaconVars>>

(* The beat of a pass, and after a stop the last one, marked as deliberate. *)
BeatEvent ==
    /\ pc \in {"event", "lastEvent"}
    /\ StoreEventTime(lastTs)
    /\ pc' = IF pc = "event" THEN "counters" ELSE "lastCounters"
    /\ UNCHANGED <<session, crashes, clock, stopping, bus, offered, coreVars>>

(* Mutant: the count is stored before the counters. *)
BeatCountersAfterTheCount ==
    /\ pc \in {"counters", "lastCounters"}
    /\ StoreCount(published)
    /\ pc' = IF pc = "counters" THEN "count" ELSE "lastCount"
    /\ UNCHANGED <<session, crashes, clock, stopping, bus, offered, coreVars>>

BeatCounters ==
    /\ pc \in {"counters", "lastCounters"}
    /\ StoreCounters(published, pc = "lastCounters")
    /\ pc' = IF pc = "counters" THEN "count" ELSE "lastCount"
    /\ UNCHANGED <<session, crashes, clock, stopping, bus, offered, coreVars>>

(* The stop flag is looked at once a pass, with the bus empty. *)
BeatCount ==
    /\ pc \in {"count", "lastCount"}
    /\ StoreCount(published)
    /\ pc' = CASE pc = "lastCount" -> "stopped"
               [] pc = "count" /\ stopping /\ bus = <<>> -> "lastEvent"
               [] OTHER -> "pass"
    /\ UNCHANGED <<session, crashes, clock, stopping, bus, offered, coreVars>>

Stop ==
    /\ ~stopping /\ pc \notin {"stopped", "crashed"}
    /\ stopping' = TRUE
    /\ UNCHANGED <<session, crashes, clock, pc, bus, offered, coreVars, beaconVars>>

-----------------------------------------------------------------------------
(* The process dies, and is started again on the same files.               *)

(* What was in memory is gone; rings and beacon are files. *)
Crash ==
    /\ pc \notin {"stopped", "crashed"}
    /\ crashes < session.deaths
    /\ crashes' = crashes + 1
    /\ pc' = "crashed"
    /\ stopping' = FALSE /\ bus' = <<>>
    /\ lastTs' = 0 /\ market' = NoMarket
    /\ entry' = NoQuote /\ marksNow' = 0
    /\ last' = NoSlice /\ published' = 0
    /\ forming' = NoBar /\ lastOpen' = 0
    /\ UNCHANGED <<session, clock, offered, delivered, queued, barLog, barsQueued, frames,
                   beaconVars>>

(* Both rings are truncated; the beacon keeps its bytes until create. *)
Restart ==
    /\ pc = "crashed"
    /\ pc' = IF session.monitored THEN "create" ELSE "pass"
    /\ delivered' = NoSlice /\ queued' = 0 /\ barLog' = <<>> /\ barsQueued' = 0 /\ frames' = <<>>
    /\ UNCHANGED <<session, crashes, clock, stopping, bus, offered, marketVars, last, published,
                   forming, lastOpen, beaconVars>>

Create ==
    /\ \/ pc = "create" /\ ClearCount /\ pc' = "create2"
       \/ pc = "create2" /\ ClearPayload /\ pc' = "create3"
       \/ pc = "create3" /\ StampHeader(crashes + 1) /\ pc' = "pass"
    /\ UNCHANGED <<session, crashes, clock, stopping, bus, offered, coreVars>>

-----------------------------------------------------------------------------
(* The Python side takes records, and the monitor reads the beacon.        *)

TakeSlice ==
    /\ session.drained /\ queued > 0
    /\ queued' = queued - 1
    /\ UNCHANGED <<session, crashes, clock, stopping, pc, bus, offered, marketVars, last, delivered,
                   barVars, published, beaconVars>>

TakeBar ==
    /\ session.drained /\ barsQueued > 0
    /\ barsQueued' = barsQueued - 1
    /\ UNCHANGED <<session, crashes, clock, stopping, pc, bus, offered, marketVars, sliceVars,
                   forming, lastOpen, barLog, frames, published, beaconVars>>

Author == IF pc \in {"crashed", "create", "create2", "create3"} THEN -1 ELSE crashes

Monitor ==
    /\ session.monitored
    /\ \/ ReadUnstamped
       \/ LoadHead(Author)
       \/ LoadTail(Author)
    /\ UNCHANGED <<session, crashes, clock, stopping, pc, bus, offered, coreVars>>

CoreStep == Drain \/ ObserveNow \/ BeatEvent \/ BeatCounters \/ BeatCount \/ Create
Next ==
    \/ Send \/ Tick \/ CoreStep \/ Stop \/ Crash \/ Restart
    \/ TakeSlice \/ TakeBar \/ Monitor

Spec == Init /\ [][Next]_vars

(* The monitor polls on every window; nothing is asked of the publisher. *)
FairSpec == Spec /\ WF_vars(Monitor)

-----------------------------------------------------------------------------
TypeOK ==
    /\ session \in Sessions
    /\ crashes \in 0..session.deaths
    /\ clock \in 1..session.ticks
    /\ stopping \in BOOLEAN
    /\ pc \in {"create", "create2", "create3", "pass", "event", "counters", "count",
              "lastEvent", "lastCounters", "lastCount", "stopped", "crashed"}
    /\ Len(bus) <= BusCapacity
    /\ offered \in 0..session.events
    /\ {lastTs, marksNow} \subseteq 0..session.ticks
    /\ market.ticker.px \in session.prices \cup {0}
    /\ entry.source \in {"none", "mark", "mid"}
    /\ {last.top, delivered.top} \subseteq session.prices \cup {0, -1}
    /\ {queued, barsQueued} \subseteq 0..session.slots
    /\ published \in 0..session.events
    /\ forming.open \in 0..MaxOpen /\ lastOpen \in 0..MaxOpen
    /\ Len(barLog) <= Len(frames)
    /\ file.published \in 0..(CounterModulus - 1)
    /\ verdict \in {"unknown", "restarted", "dead", "stopped", "starved", "quiet", "publishing"}

(* A payload field is at least as new as the beat count reported beside it,
   never older, however the loads of a snapshot and the stores of beats
   interleave (beacon.rs: "never older"). *)
PayloadIsNeverOlderThanItsCount ==
    (previous # Nothing /\ previous.session = crashes /\ previous.beats > 0) =>
        previous.counted >= beatLog[previous.beats]

(* The counters only grow while a process lives, each beat counts no less than
   the one before it, and the bytes of the counters are no older than the last
   beat, and of this beat when the count is about to be stored. *)
BeatsGrow ==
    /\ file.beats = Len(beatLog)
    /\ \A i, j \in 1..Len(beatLog) : i <= j => beatLog[i] <= beatLog[j]
    /\ pc = "create2" => beatLog = <<>>
    /\ pc \in {"count", "lastCount"} => file.counted = published
    /\ pc \notin {"crashed", "create", "create2"} =>
        /\ file.counted <= published
        /\ \A i \in 1..Len(beatLog) : beatLog[i] <= file.counted

(* Nobody beats where nobody watches. *)
UnwatchedIsBlank ==
    ~session.monitored =>
        file = BlankFile /\ beatLog = <<>> /\ pc \in {"pass", "stopped", "crashed"}

(* A snapshot of this session was begun, and taken, when the file was whole, and
   of a beat that had been stored. *)
SnapshotsAreOfTheLog ==
    \A snapshot \in {reading, previous} :
        snapshot # Nothing =>
        /\ snapshot.session \in -1..crashes
        /\ snapshot.session = crashes =>
            /\ Author = crashes
            /\ snapshot.beats \in 0..Len(beatLog)

(* The publisher's beats and the monitor's copies of them hang together: no
   payload is older than its count, and what that rests on. *)
BeaconInv ==
    /\ UnwatchedIsBlank
    /\ BeatsGrow
    /\ SnapshotsAreOfTheLog
    /\ PayloadIsNeverOlderThanItsCount

(* A publisher that is gone for good is reported, whatever the ring and the
   market's clock look like: "dead", or "stopped" if it died in its last beat. *)
DeathIsNoticed ==
    (session.monitored /\ pc = "crashed" /\ crashes = session.deaths /\ file.stamped) ~>
        (verdict \in {"dead", "stopped"} \/ pc # "crashed")

(* Whenever the ring has room, the event just handled leaves the reader's
   newest slice equal to the market: a state the full ring refused is sent
   again by the next event, although nothing has moved since. *)
RoomMeansCurrent ==
    [][ LET event == Head(bus)
            slice == SliceOf(event, market')
        IN  (/\ pc = "pass" /\ bus # <<>> /\ bus' = Tail(bus) /\ pc' = pc
             /\ event.kind \notin {"candle", "ticker"}
             /\ Exact(slice) /\ queued < session.slots)
            => delivered' = slice ]_vars

(* The bars a consumer gets say where their history has holes: the first is
   marked, an unmarked bar follows the one before it, a marked one does not,
   whatever the ring refused and the wire could not hold in between. *)
BarsTellTheirHoles ==
    \A i \in 1..Len(barLog) :
        /\ (barLog[i].flag = "first") <=> (i = 1)
        /\ i > 1 => /\ barLog[i].open > barLog[i - 1].open
                    /\ (barLog[i].flag = "none") <=> (barLog[i].open = barLog[i - 1].open + 1)

(* A bar is published once and is final: it is the newest frame of its
   interval among those that arrived before the interval closed. *)
PublishedBarsAreFinal ==
    \A i \in 1..Len(barLog) :
        LET bar == barLog[i]
            ofBar == {k \in 1..Len(frames) : frames[k].open = bar.open}
            later == {k \in 1..Len(frames) : frames[k].open > bar.open}
        IN  \E k \in ofBar :
                /\ frames[k].frame = bar.frame
                /\ \E l \in later : \A j \in ofBar : j > k => l < j
                /\ \A l \in later : l > k

(* A two-sided quote that is fresh leaves the gate a price it can use, however
   long the feed was silent and whatever source priced the symbol before. *)
AFreshMidIsUsable ==
    [][ LET event == Head(bus)
        IN  (/\ pc = "pass" /\ bus # <<>> /\ bus' = Tail(bus) /\ pc' = pc
             /\ event.kind = "bbo" /\ ~IsStale(event.ts, marksNow))
            => Usable(entry', marksNow') ]_vars

(* While the venue's own mark counts, no quote or book replaces it. *)
LiveMarkIsNotDisplaced ==
    [][ (entry.source = "mark" /\ entry'.source = "mid") => ~Usable(entry, marksNow') ]_vars

(* A process that is down remembers nothing of what it published. *)
DownIsBlank ==
    pc = "crashed" => last = NoSlice /\ forming = NoBar /\ lastOpen = 0 /\ published = 0

(* While the process lives: what the next slice is measured against is what the
   ring accepted last (mdring.rs, "unchanged"). *)
MeasuredIsDelivered == pc # "crashed" => last = delivered

(* While the process lives: the forming bar is the newest frame of the newest
   interval, and all that was published is of intervals before it. *)
FormingIsTheNewest ==
    pc # "crashed" =>
        /\ lastOpen = IF barLog = <<>> THEN 0 ELSE barLog[Len(barLog)].open
        /\ forming = NoBar => frames = <<>> /\ barLog = <<>>
        /\ forming # NoBar =>
            /\ lastOpen < forming.open
            /\ \A i \in 1..Len(frames) : frames[i].open <= forming.open
            /\ \E k \in 1..Len(frames) :
                    /\ frames[k] = forming
                    /\ \A j \in 1..Len(frames) : j > k => frames[j].open # forming.open

(* What the rings carry is in range, says where it has holes, and is final. *)
FeedInv ==
    /\ TypeOK
    /\ BarsTellTheirHoles
    /\ PublishedBarsAreFinal
    /\ DownIsBlank
    /\ MeasuredIsDelivered
    /\ FormingIsTheNewest

(* The two sources of a price serve the gate together: a fresh quote is always
   usable, and none takes the place of a mark that still counts (marks.rs). *)
MarksServeTheGate == AFreshMidIsUsable /\ LiveMarkIsNotDisplaced
=============================================================================
