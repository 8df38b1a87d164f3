--------------------------- MODULE MarketPathProofs --------------------------
(***************************************************************************)
(* Proofs about MarketPath and the Beacon it writes: for any set of        *)
(* sessions, any capacities and ages, any price the wire cannot hold.      *)
(***************************************************************************)
EXTENDS MarketPath, SequenceTheorems, TLAPS

(* What the constants are. *)
LEMMA Constants ==
    /\ \A s \in Sessions :
            /\ s.feeds \subseteq {"bbo", "book", "trade", "ticker", "candle"}
            /\ s.prices \subseteq Nat \ {0}
            /\ s.ticks \in Nat \ {0}
            /\ s.events \in Nat /\ s.deaths \in Nat /\ s.slots \in Nat
    /\ BusCapacity \in Nat /\ BusCapacity > 0
    /\ MaxAge \in Nat /\ MaxLag \in Nat /\ MaxBeats \in Nat /\ MaxOpen \in Nat
    /\ CounterModulus \in Nat /\ CounterModulus > 1
  BY MarketPathAssumption, BeaconAssumption

(* Appending to a sequence. *)
LEMMA Appended ==
    ASSUME NEW S, NEW q \in Seq(S), NEW x \in S
    PROVE  /\ Append(q, x) \in Seq(S)
           /\ Len(Append(q, x)) = Len(q) + 1
           /\ Append(q, x) # <<>>
           /\ \A i \in 1..Len(q) : Append(q, x)[i] = q[i]
           /\ Append(q, x)[Len(q) + 1] = x
           /\ Append(q, x)[Len(Append(q, x))] = x
  BY AppendProperties

(* Taking the first of a sequence. *)
LEMMA Shortened ==
    ASSUME NEW S, NEW q \in Seq(S), q # <<>>
    PROVE  /\ Tail(q) \in Seq(S) /\ Len(Tail(q)) = Len(q) - 1
           /\ Len(q) \in Nat /\ Len(q) >= 1
           /\ Head(q) \in S /\ Head(q) = q[1]
           /\ \A i \in 1..Len(Tail(q)) : Tail(q)[i] = q[i + 1]
  <1>1. Len(q) \in Nat /\ Len(q) # 0
    BY EmptySeq, LenProperties
  <1> QED
    BY <1>1, HeadTailProperties, ElementOfSeq

-----------------------------------------------------------------------------
(* Types, in five groups. *)

PriceKinds == {"bbo", "book", "trade", "ticker"}
Prices == session.prices \cup {0}
PriceEvents == [kind : PriceKinds, px : Nat, ts : Nat]
Candles == [kind : {"candle"}, open : 1..MaxOpen, frame : Nat, exact : BOOLEAN]
Stages == {"create", "create2", "create3", "pass", "event", "counters", "count",
           "lastEvent", "lastCounters", "lastCount", "stopped", "crashed"}

Arrivable(event) ==
    event.kind # "candle" => event.px \in Prices /\ event.ts <= clock

FlowOK ==
    /\ session \in Sessions
    /\ crashes \in 0..session.deaths
    /\ clock \in 1..session.ticks
    /\ stopping \in BOOLEAN
    /\ pc \in Stages
    /\ bus \in Seq(PriceEvents \cup Candles) /\ Len(bus) <= BusCapacity
    /\ \A i \in 1..Len(bus) : Arrivable(bus[i])
    /\ offered \in 0..session.events

Quotes == [px : Prices, ts : Nat]

MarketOK ==
    /\ lastTs \in 0..clock
    /\ market \in [PriceKinds -> Quotes]
    /\ entry \in [px : Nat, ts : Nat, source : {"none", "mark", "mid"}]
    /\ marksNow \in 0..clock
    /\ entry.source = "none" => entry = NoQuote

Slices == [top : Prices \cup {-1}, trade : Quotes, mark : Prices]

SlicesOK ==
    /\ last \in Slices /\ delivered \in Slices
    /\ queued \in 0..session.slots

Frames == [open : 0..MaxOpen, frame : Nat, exact : BOOLEAN]

BarsOK ==
    /\ forming \in Frames
    /\ lastOpen \in 0..MaxOpen
    /\ barLog \in Seq([open : 1..MaxOpen, frame : Nat, flag : {"first", "gap", "none"}])
    /\ frames \in Seq(Frames)
    /\ Len(barLog) <= Len(frames)
    /\ forming # NoBar => frames # <<>> /\ forming.open > 0
    /\ forming # NoBar => Len(barLog) < Len(frames)
    /\ barsQueued \in 0..session.slots

BeaconOK ==
    /\ file \in [stamped : BOOLEAN, pid : Nat, beats : Nat, lastEvent : Nat,
                 published : 0..(CounterModulus - 1), counted : Nat, stopped : BOOLEAN]
    /\ beatLog \in Seq(Nat)
    /\ verdict \in {"unknown", "restarted", "dead", "stopped", "starved", "quiet", "publishing"}

(* A record that was published was an event that was offered. *)
CountOK == published \in Nat /\ published + Len(bus) <= offered

TypesOK == FlowOK /\ MarketOK /\ SlicesOK /\ BarsOK /\ BeaconOK /\ CountOK

(* The groups are the type invariant. *)
LEMMA TypesAreTyped == TypesOK => TypeOK
  <1> SUFFICES ASSUME TypesOK PROVE TypeOK
    OBVIOUS
  <1>1. Len(bus) \in Nat
    BY LenProperties DEF TypesOK, FlowOK
  <1>2. session.ticks \in Nat /\ session.events \in Nat /\ session.deaths \in Nat
    BY Constants DEF TypesOK, FlowOK
  <1>3. published \in 0..session.events
    BY <1>1, <1>2 DEF TypesOK, FlowOK, CountOK
  <1>4. market.ticker.px \in session.prices \cup {0}
    BY DEF TypesOK, MarketOK, PriceKinds, Quotes, Prices
  <1>5. /\ lastTs \in 0..session.ticks /\ marksNow \in 0..session.ticks
        /\ entry.source \in {"none", "mark", "mid"}
    BY <1>2 DEF TypesOK, FlowOK, MarketOK
  <1>6. /\ last.top \in session.prices \cup {0, -1}
        /\ delivered.top \in session.prices \cup {0, -1}
        /\ queued \in 0..session.slots
    BY DEF TypesOK, SlicesOK, Slices, Prices
  <1>7. /\ barsQueued \in 0..session.slots
        /\ forming.open \in 0..MaxOpen /\ lastOpen \in 0..MaxOpen
        /\ Len(barLog) <= Len(frames)
    BY DEF TypesOK, BarsOK, Frames
  <1>8. /\ file.published \in 0..(CounterModulus - 1)
        /\ verdict \in {"unknown", "restarted", "dead", "stopped", "starved", "quiet", "publishing"}
    BY DEF TypesOK, BeaconOK
  <1> QED
    BY <1>2, <1>3, <1>4, <1>5, <1>6, <1>7, <1>8 DEF TypesOK, FlowOK, Stages, TypeOK

(* The initial state is typed. *)
LEMMA TypesInit == Init => TypesOK
  <1> SUFFICES ASSUME Init PROVE TypesOK
    OBVIOUS
  <1>1. Len(bus) = 0 /\ Len(barLog) = 0 /\ Len(frames) = 0
    BY EmptySeq DEF Init, CoreInit
  <1>a. /\ session \in Sessions /\ crashes = 0 /\ clock = 1 /\ offered = 0
        /\ stopping = FALSE /\ pc \in Stages /\ bus = <<>>
    BY DEF Init, CoreInit, Stages
  <1>b. /\ 1 \in 1..session.ticks /\ 0 \in 0..session.deaths /\ 0 \in 0..session.events
    BY <1>a, Constants
  <1>c. bus \in Seq(PriceEvents \cup Candles) /\ Len(bus) <= BusCapacity
    BY <1>1, <1>a, Constants, EmptySeq
  <1>d. \A i \in 1..Len(bus) : Arrivable(bus[i])
    BY <1>1
  <1>2. FlowOK
    <2>1. clock \in 1..session.ticks /\ crashes \in 0..session.deaths /\ offered \in 0..session.events
      BY <1>a, <1>b
    <2> QED
      BY <2>1, <1>a, <1>c, <1>d DEF FlowOK
  <1>3. MarketOK
    BY Constants DEF Init, CoreInit, MarketOK, NoMarket, Absent, NoQuote, PriceKinds, Quotes, Prices
  <1>4. SlicesOK
    BY Constants DEF Init, CoreInit, SlicesOK, NoSlice, Slices, Absent, Quotes, Prices
  <1>5. BarsOK
    BY <1>1, Constants, EmptySeq DEF Init, CoreInit, BarsOK, NoBar, Frames
  <1>6. BeaconOK
    BY Constants, EmptySeq DEF Init, BeaconInit, BeaconOK, BlankFile
  <1>7. CountOK
    BY <1>1 DEF Init, CoreInit, CountOK
  <1> QED
    BY <1>2, <1>3, <1>4, <1>5, <1>6, <1>7 DEF TypesOK

-----------------------------------------------------------------------------
(* Types are kept, group by group. *)

(* What arrives stays arrivable, a shorter bus too. *)
LEMMA ArrivableStays ==
    ASSUME FlowOK, session' = session, clock' \in Nat, clock <= clock'
    PROVE  \A event \in PriceEvents \cup Candles : Arrivable(event) => Arrivable(event)'
  BY Constants DEF FlowOK, Arrivable, Prices, PriceEvents, Candles

LEMMA FlowNext == FlowOK /\ [Next]_vars => FlowOK'
  <1> SUFFICES ASSUME FlowOK, [Next]_vars PROVE FlowOK'
    OBVIOUS
  <1>0. /\ session.ticks \in Nat /\ session.events \in Nat /\ session.deaths \in Nat
        /\ clock \in Nat /\ offered \in Nat /\ Len(bus) \in Nat
    BY Constants, LenProperties DEF FlowOK
  <1>1. CASE Send
    <2>1. PICK kind \in session.feeds : \E event \in Events(kind) : bus' = Append(bus, event)
      BY <1>1 DEF Send
    <2>2. PICK event \in Events(kind) : bus' = Append(bus, event)
      BY <2>1
    <2>3. kind \in PriceKinds \cup {"candle"}
      BY Constants DEF FlowOK, PriceKinds
    <2>4. event \in PriceEvents \cup Candles /\ Arrivable(event)
      <3>1. CASE kind = "candle"
        BY <2>2, <1>0, <3>1 DEF Events, Candles, Arrivable
      <3>2. CASE kind = "book"
        <4>1. event \in [kind : {"book"}, px : Prices, ts : EventTimes]
          BY <2>2, <3>2 DEF Events, Prices
        <4> QED
          BY <4>1, <1>0, Constants DEF EventTimes, PriceEvents, PriceKinds, Arrivable, FlowOK, Prices
      <3>3. CASE kind \in PriceKinds /\ kind # "book"
        <4>1. event \in [kind : {kind}, px : session.prices, ts : EventTimes]
          BY <2>2, <3>3 DEF Events, PriceKinds
        <4> QED
          BY <4>1, <3>3, <1>0, Constants DEF EventTimes, PriceEvents, PriceKinds, Arrivable, FlowOK, Prices
      <3> QED
        BY <2>3, <3>1, <3>2, <3>3
    <2>5. bus' \in Seq(PriceEvents \cup Candles) /\ Len(bus') = Len(bus) + 1
          /\ \A i \in 1..Len(bus') : Arrivable(bus'[i])
      BY <2>2, <2>4, <1>0, Appended DEF FlowOK
    <2>6. /\ Len(bus) < BusCapacity /\ offered < session.events /\ offered' = offered + 1
          /\ UNCHANGED <<session, crashes, clock, stopping, pc>>
      BY <1>1 DEF Send
    <2> QED
      BY <2>5, <2>6, <1>0, Constants DEF FlowOK, Arrivable, Prices
  <1>2. CASE Tick
    <2>1. session' = session /\ clock' \in Nat /\ clock <= clock' /\ bus' = bus
      BY <1>2, <1>0 DEF Tick
    <2>2. \A i \in 1..Len(bus) : bus[i] \in PriceEvents \cup Candles /\ Arrivable(bus[i])
      BY ElementOfSeq DEF FlowOK
    <2>3. \A i \in 1..Len(bus) : Arrivable(bus[i])'
      BY <2>1, <2>2 DEF FlowOK, Arrivable, Prices, PriceEvents, Candles
    <2> QED
      BY <1>2, <1>0, <2>1, <2>3 DEF FlowOK, Tick, Arrivable, Prices
  <1>3. CASE Drain
    <2>1. /\ bus # <<>> /\ bus' = Tail(bus)
          /\ UNCHANGED <<session, crashes, clock, stopping, pc, offered>>
      BY <1>3 DEF Drain
    <2>2. /\ bus' \in Seq(PriceEvents \cup Candles) /\ Len(bus') = Len(bus) - 1
          /\ \A i \in 1..Len(bus') : bus'[i] = bus[i + 1]
      BY <2>1, Shortened DEF FlowOK
    <2> QED
      BY <2>1, <2>2, <1>0, Constants DEF FlowOK, Arrivable, Prices
  <1>4. CASE Crash \/ Restart
    <2>1. Len(<<>>) = 0 /\ <<>> \in Seq(PriceEvents \cup Candles)
      BY EmptySeq
    <2>2. CASE Crash
      <3>1. /\ bus' \in Seq(PriceEvents \cup Candles) /\ Len(bus') = 0 /\ 0 <= BusCapacity
            /\ crashes' = crashes + 1 /\ crashes < session.deaths
            /\ pc' = "crashed" /\ stopping' = FALSE
            /\ UNCHANGED <<session, clock, offered>>
        BY <2>1, <2>2, Constants DEF Crash
      <3>2. \A i \in 1..Len(bus') : Arrivable(bus[i])'
        BY <3>1
      <3>3. crashes' \in 0..session'.deaths /\ Len(bus') <= BusCapacity
        BY <1>0, <3>1 DEF FlowOK
      <3> QED
        BY <3>1, <3>2, <3>3 DEF FlowOK, Stages
    <2>3. CASE Restart
      BY <2>3 DEF FlowOK, Restart, Stages, Arrivable, Prices
    <2> QED
      BY <1>4, <2>2, <2>3
  <1>5. CASE ObserveNow \/ BeatEvent \/ BeatCounters \/ BeatCount \/ Create \/ Stop
    <2>1. UNCHANGED <<session, crashes, clock, bus, offered>>
      BY <1>5 DEF ObserveNow, BeatEvent, BeatCounters, BeatCount, Create, Stop
    <2>2. pc' \in Stages /\ stopping' \in BOOLEAN
      BY <1>5 DEF ObserveNow, BeatEvent, BeatCounters, BeatCount, Create, Stop, FlowOK, Stages
    <2> QED
      BY <2>1, <2>2 DEF FlowOK, Arrivable, Prices
  <1>6. CASE TakeSlice \/ TakeBar \/ Monitor \/ UNCHANGED vars
    <2>1. UNCHANGED <<session, crashes, clock, stopping, pc, bus, offered>>
      BY <1>6 DEF TakeSlice, TakeBar, Monitor, vars
    <2> QED
      BY <2>1 DEF FlowOK, Arrivable, Prices
  <1> QED
    BY <1>1, <1>2, <1>3, <1>4, <1>5, <1>6 DEF Next, CoreStep

(* The event the core handles. *)
LEMMA HandledEvent ==
    ASSUME FlowOK, bus # <<>>
    PROVE  /\ Head(bus) \in PriceEvents \cup Candles
           /\ Arrivable(Head(bus))
           /\ Head(bus).kind = "candle" => Head(bus) \in Candles
           /\ Head(bus).kind # "candle" =>
                /\ Head(bus) \in PriceEvents /\ Head(bus).kind \in PriceKinds
                /\ Head(bus).px \in Prices
                /\ Head(bus).ts \in 0..clock
  <1>1. /\ Head(bus) \in PriceEvents \cup Candles /\ Arrivable(Head(bus))
    BY Shortened DEF FlowOK
  <1> QED
    BY <1>1, Constants DEF FlowOK, Arrivable, PriceEvents, Candles, PriceKinds

(* What leaves the market's state alone: everything but a drain, a reading of
   the wall clock and a death. *)
LEMMA MarketSteps ==
    [Next]_vars => \/ Drain /\ Head(bus).kind # "candle"
                   \/ ObserveNow
                   \/ Crash
                   \/ UNCHANGED marketVars
  <1>1. Drain /\ Head(bus).kind = "candle" => UNCHANGED marketVars
    BY DEF Drain, OnEvent
  <1>2. Send \/ Tick \/ BeatEvent \/ BeatCounters \/ BeatCount \/ Create \/ Stop => UNCHANGED marketVars
    BY DEF Send, Tick, BeatEvent, BeatCounters, BeatCount, Create, Stop, coreVars
  <1>3. Restart \/ TakeSlice \/ TakeBar \/ Monitor \/ UNCHANGED vars => UNCHANGED marketVars
    BY DEF Restart, TakeSlice, TakeBar, Monitor, vars, coreVars
  <1> QED
    BY <1>1, <1>2, <1>3 DEF Next, CoreStep

LEMMA MarketNext ==
    ASSUME FlowOK, FlowOK', MarketOK, [Next]_vars
    PROVE  MarketOK'
  <1>0. clock \in Nat /\ clock' \in Nat /\ clock <= clock' /\ session' = session
    <2>1. clock \in Nat /\ clock' \in Nat
      BY Constants DEF FlowOK
    <2>2. (clock' = clock \/ clock' = clock + 1) /\ session' = session
      BY DEF Next, CoreStep, Send, Tick, Drain, ObserveNow, BeatEvent, BeatCounters, BeatCount, Create,
             Stop, Crash, Restart, TakeSlice, TakeBar, Monitor, vars
    <2> QED
      BY <2>1, <2>2
  <1>1. CASE Drain /\ Head(bus).kind # "candle"
    <2> DEFINE event == Head(bus)
               m == MarketAfter(event)
               fresh == MarkOf(event, m)
    <2>1. /\ event.kind \in PriceKinds /\ event.px \in Prices /\ event.ts \in 0..clock
          /\ event.px \in Nat
      BY <1>1, HandledEvent DEF Drain, PriceEvents
    <2>2. /\ lastTs' = Later(lastTs, event.ts)
          /\ market' = m /\ MarksAfter(event, m)
      BY <1>1 DEF Drain, OnEvent
    <2>3. m \in [PriceKinds -> Quotes]
      BY <1>1, <2>1, <1>0 DEF MarketAfter, MarketOK, Quotes
    <2>4. lastTs' \in 0..clock'
      BY <2>1, <2>2, <1>0 DEF Later, MarketOK
    <2>5. \/ fresh = NoQuote
          \/ fresh \in [px : Nat, ts : 0..clock, source : {"mark", "mid"}]
      <3>1. Mid(m).px \in Nat
        BY <2>3, Constants DEF Mid, Quotes, Prices, FlowOK, PriceKinds
      <3> QED
        BY <2>1, <3>1 DEF MarkOf, VenueMark, BookMid
    <2>6. CASE fresh = NoQuote
      <3>1. UNCHANGED <<entry, marksNow>>
        BY <2>2, <2>6 DEF MarksAfter
      <3> QED
        BY <3>1, <2>2, <2>3, <2>4, <1>0 DEF MarketOK, Quotes, Prices
    <2>7. CASE fresh # NoQuote
      <3>1. entry' = EntryAfterSet(fresh, entry, marksNow) /\ marksNow' = Later(marksNow, fresh.ts)
        BY <2>2, <2>7 DEF MarksAfter
      <3>2. /\ fresh \in [px : Nat, ts : 0..clock, source : {"mark", "mid"}]
        BY <2>5, <2>7
      <3>3. entry' = fresh \/ entry' = entry
        BY <3>1 DEF EntryAfterSet
      <3>4. marksNow' \in 0..clock'
        BY <3>1, <3>2, <1>0 DEF Later, MarketOK
      <3>5. /\ entry' \in [px : Nat, ts : Nat, source : {"none", "mark", "mid"}]
            /\ entry'.source = "none" => entry' = NoQuote
        BY <3>2, <3>3, <1>0 DEF MarketOK
      <3> QED
        BY <3>4, <3>5, <2>2, <2>3, <2>4, <1>0 DEF MarketOK, Quotes, Prices
    <2> QED
      BY <2>6, <2>7
  <1>2. CASE ObserveNow
    BY <1>2, <1>0 DEF ObserveNow, MarketOK, Later, Quotes, Prices
  <1>3. CASE Crash
    BY <1>3, <1>0 DEF Crash, MarketOK, NoMarket, Absent, NoQuote, Quotes, Prices, PriceKinds
  <1>4. CASE UNCHANGED marketVars
    BY <1>4, <1>0 DEF marketVars, MarketOK, Quotes, Prices
  <1> QED
    BY <1>1, <1>2, <1>3, <1>4, MarketSteps

(* Which price is at the top of the book. *)
LEMMA TopIsAPrice ==
    ASSUME NEW m \in [PriceKinds -> Quotes], NEW now \in Nat
    PROVE  TopOfBook(m, now) \in Prices
  BY DEF TopOfBook, Quotes, PriceKinds, Prices

(* What leaves the slices alone. *)
LEMMA SliceSteps ==
    [Next]_vars => \/ Drain /\ Head(bus).kind \notin {"candle", "ticker"}
                   \/ Crash \/ Restart \/ TakeSlice
                   \/ UNCHANGED sliceVars
  <1>1. Drain /\ Head(bus).kind \in {"candle", "ticker"} => UNCHANGED sliceVars
    BY DEF Drain, OnEvent, sliceVars
  <1>2. Send \/ Tick \/ ObserveNow \/ BeatEvent \/ BeatCounters \/ BeatCount \/ Create \/ Stop
            => UNCHANGED sliceVars
    BY DEF Send, Tick, ObserveNow, BeatEvent, BeatCounters, BeatCount, Create, Stop, coreVars
  <1>3. TakeBar \/ Monitor \/ UNCHANGED vars => UNCHANGED sliceVars
    BY DEF TakeBar, Monitor, vars, coreVars
  <1> QED
    BY <1>1, <1>2, <1>3 DEF Next, CoreStep

(* The slice of an event is one the ring can carry. *)
LEMMA SliceIsTyped ==
    ASSUME NEW m \in [PriceKinds -> Quotes], NEW event \in PriceEvents
    PROVE  SliceOf(event, m) \in Slices
  BY TopIsAPrice DEF SliceOf, Slices, PriceEvents, Quotes, Prices, PriceKinds

LEMMA SessionStays == [Next]_vars => session' = session
  BY DEF Next, CoreStep, Send, Tick, Drain, ObserveNow, BeatEvent, BeatCounters, BeatCount, Create,
         Stop, Crash, Restart, TakeSlice, TakeBar, Monitor, vars

LEMMA SlicesNext ==
    ASSUME FlowOK, MarketOK, MarketOK', SlicesOK, [Next]_vars
    PROVE  SlicesOK'
  <1>0. session' = session /\ session.slots \in Nat
    BY SessionStays, Constants DEF FlowOK
  <1>1. CASE Drain /\ Head(bus).kind \notin {"candle", "ticker"}
    <2>1. /\ PublishSlice(SliceOf(Head(bus), market'))
      BY <1>1 DEF Drain, OnEvent
    <2>2. SliceOf(Head(bus), market') \in Slices
      <3>1. market' \in [PriceKinds -> Quotes]
        BY <1>0 DEF MarketOK, Quotes, Prices
      <3>2. Head(bus) \in PriceEvents
        BY <1>1, HandledEvent DEF Drain
      <3> QED
        BY <3>1, <3>2, SliceIsTyped
    <2> QED
      BY <2>1, <2>2, <1>0 DEF PublishSlice, SlicesOK, Slices, Prices, Quotes, sliceVars
  <1>2. CASE Crash \/ Restart
    BY <1>2, <1>0 DEF Crash, Restart, SlicesOK, Slices, NoSlice, Absent, Quotes, Prices
  <1>3. CASE TakeSlice
    BY <1>3, <1>0 DEF TakeSlice, SlicesOK, Slices, Quotes, Prices
  <1>4. CASE UNCHANGED sliceVars
    BY <1>4, <1>0 DEF sliceVars, SlicesOK, Slices, Quotes, Prices
  <1> QED
    BY <1>1, <1>2, <1>3, <1>4, SliceSteps

(* What leaves the bars alone. *)
LEMMA BarSteps ==
    [Next]_vars => \/ Drain /\ Head(bus).kind = "candle"
                   \/ Crash \/ Restart \/ TakeBar
                   \/ UNCHANGED barVars
  <1>1. Drain /\ Head(bus).kind # "candle" => UNCHANGED barVars
    BY DEF Drain, OnEvent
  <1>2. Send \/ Tick \/ ObserveNow \/ BeatEvent \/ BeatCounters \/ BeatCount \/ Create \/ Stop
            => UNCHANGED barVars
    BY DEF Send, Tick, ObserveNow, BeatEvent, BeatCounters, BeatCount, Create, Stop, coreVars
  <1>3. TakeSlice \/ Monitor \/ UNCHANGED vars => UNCHANGED barVars
    BY DEF TakeSlice, Monitor, vars, coreVars
  <1> QED
    BY <1>1, <1>2, <1>3 DEF Next, CoreStep

Logged == [open : 1..MaxOpen, frame : Nat, flag : {"first", "gap", "none"}]

(* The two things a frame can do: it refines the forming bar or is late, or
   it closes the forming bar, which the ring then takes or does not. *)
FrameOf(event) == [open |-> event.open, frame |-> event.frame, exact |-> event.exact]
LogOf(bar) == [open |-> bar.open, frame |-> bar.frame, flag |-> Flag(bar.open)]

LEMMA FrameIsHandled ==
    ASSUME FlowOK, BarsOK, Drain, Head(bus).kind = "candle"
    PROVE  /\ FrameOf(Head(bus)) \in Frames /\ FrameOf(Head(bus)).open >= 1
           /\ frames' = Append(frames, FrameOf(Head(bus)))
           /\ forming' = IF forming = NoBar \/ FrameOf(Head(bus)).open >= forming.open
                         THEN FrameOf(Head(bus)) ELSE forming
           /\ \/ UNCHANGED <<barLog, barsQueued, published, lastOpen>>
              \/ /\ forming # NoBar /\ FrameOf(Head(bus)).open > forming.open
                 /\ barsQueued < session.slots
                 /\ barLog' = Append(barLog, LogOf(forming))
                 /\ barsQueued' = barsQueued + 1
                 /\ published' = published + 1
                 /\ lastOpen' = forming.open
           /\ UNCHANGED <<pc, session>>
  <1>1. OnCandle(Head(bus)) /\ UNCHANGED <<pc, session>> /\ bus # <<>>
    BY DEF Drain, OnEvent
  <1>2. Head(bus) \in Candles
    BY <1>1, HandledEvent
  <1>3. FrameOf(Head(bus)) \in Frames /\ FrameOf(Head(bus)).open >= 1
    BY <1>2, Constants DEF FrameOf, Frames, Candles
  <1>4. forming' = IF forming = NoBar \/ FrameOf(Head(bus)).open >= forming.open
                   THEN FrameOf(Head(bus)) ELSE forming
    BY <1>1 DEF OnCandle, FrameOf
  <1>5. frames' = Append(frames, FrameOf(Head(bus)))
    BY <1>1 DEF OnCandle, FrameOf
  <1>6. \/ UNCHANGED <<barLog, barsQueued, published, lastOpen>>
        \/ /\ forming # NoBar /\ FrameOf(Head(bus)).open > forming.open
           /\ PublishBar(forming)
    BY <1>1 DEF OnCandle, FrameOf
  <1>7. PublishBar(forming) =>
            \/ UNCHANGED <<barLog, barsQueued, published, lastOpen>>
            \/ /\ barsQueued < session.slots
               /\ barLog' = Append(barLog, LogOf(forming))
               /\ barsQueued' = barsQueued + 1
               /\ published' = published + 1
               /\ lastOpen' = forming.open
    BY DEF PublishBar, LogOf
  <1> QED
    BY <1>1, <1>3, <1>4, <1>5, <1>6, <1>7

LEMMA LogIsTyped == BarsOK /\ forming # NoBar => LogOf(forming) \in Logged
  BY Constants DEF BarsOK, LogOf, Logged, Frames, Flag

LEMMA BarsNext ==
    ASSUME FlowOK, BarsOK, DownIsBlank, [Next]_vars
    PROVE  BarsOK'
  <1>0. session' = session /\ session.slots \in Nat /\ MaxOpen \in Nat
        /\ Len(barLog) \in Nat /\ Len(frames) \in Nat
    BY SessionStays, Constants, LenProperties DEF FlowOK, BarsOK
  <1>1. CASE Drain /\ Head(bus).kind = "candle"
    <2> DEFINE frame == FrameOf(Head(bus))
    <2>1. frame \in Frames /\ frame.open >= 1 /\ frames' = Append(frames, frame)
      BY <1>1, FrameIsHandled
    <2>2. frames' \in Seq(Frames) /\ frames' # <<>> /\ Len(frames') = Len(frames) + 1
      BY <2>1, Appended DEF BarsOK
    <2>3. forming' \in Frames /\ forming'.open > 0
      <3>1. forming' = frame \/ (forming # NoBar /\ forming' = forming)
        BY <1>1, FrameIsHandled
      <3> QED
        BY <3>1, <2>1 DEF BarsOK, Frames
    <2>4. CASE UNCHANGED <<barLog, barsQueued, lastOpen>>
      BY <2>2, <2>3, <2>4, <1>0 DEF BarsOK
    <2>5. CASE /\ forming # NoBar
               /\ barsQueued < session.slots
               /\ barLog' = Append(barLog, LogOf(forming))
               /\ barsQueued' = barsQueued + 1
               /\ lastOpen' = forming.open
      <3>1. barLog' \in Seq(Logged) /\ Len(barLog') = Len(barLog) + 1
        BY <2>5, LogIsTyped, Appended DEF BarsOK, Logged
      <3>2. lastOpen' \in 0..MaxOpen /\ barsQueued' \in 0..session'.slots
        BY <2>5, <1>0 DEF BarsOK, Frames
      <3>3. Len(barLog') < Len(frames')
        BY <2>2, <2>5, <3>1, <1>0 DEF BarsOK
      <3> QED
        BY <2>2, <2>3, <3>1, <3>2, <3>3, <1>0 DEF BarsOK, Logged
    <2> QED
      BY <2>4, <2>5, <1>1, FrameIsHandled
  <1>2. CASE Crash
    BY <1>2, <1>0 DEF Crash, BarsOK, NoBar, Frames
  <1>3. CASE Restart
    <2>1. Len(<<>>) = 0 /\ <<>> \in Seq(Logged) /\ <<>> \in Seq(Frames)
      BY EmptySeq
    <2>2. barLog' = <<>> /\ frames' = <<>> /\ barsQueued' = 0 /\ forming' = forming /\ lastOpen' = lastOpen
      BY <1>3 DEF Restart
    <2>3. forming = NoBar
      BY <1>3 DEF Restart, DownIsBlank
    <2> QED
      BY <1>0, <2>1, <2>2, <2>3 DEF BarsOK, Logged
  <1>4. CASE TakeBar
    BY <1>4, <1>0 DEF TakeBar, BarsOK
  <1>5. CASE UNCHANGED barVars
    BY <1>5, <1>0 DEF barVars, BarsOK
  <1> QED
    BY <1>1, <1>2, <1>3, <1>4, <1>5, BarSteps

(* A process that is down stays blank. *)
LEMMA DownNext ==
    ASSUME DownIsBlank, [Next]_vars
    PROVE  DownIsBlank'
  <1>1. CASE Crash
    BY <1>1 DEF Crash, DownIsBlank
  <1>2. CASE pc' # "crashed"
    BY <1>2 DEF DownIsBlank
  <1>3. CASE pc' = "crashed" /\ ~Crash
    <2>1. pc = "crashed" /\ UNCHANGED <<last, forming, lastOpen, published>>
      BY <1>3 DEF Next, CoreStep, Send, Tick, Drain, ObserveNow, BeatEvent, BeatCounters, BeatCount, Create,
         Stop, Restart, TakeSlice, TakeBar, Monitor, vars, coreVars, sliceVars, barVars
    <2> QED
      BY <2>1 DEF DownIsBlank
  <1> QED
    BY <1>1, <1>2, <1>3

(* What the monitor may conclude. *)
LEMMA VerdictIsTyped ==
    \A before, now :
        PublisherState(before, now) \in
            {"unknown", "restarted", "dead", "stopped", "starved", "quiet", "publishing"}
  BY DEF PublisherState

(* What touches the beacon. *)
LEMMA BeaconSteps ==
    [Next]_vars => \/ BeatEvent \/ BeatCounters \/ BeatCount \/ Create \/ Monitor
                   \/ UNCHANGED beaconVars
  BY DEF Next, CoreStep, Send, Tick, Drain, ObserveNow, Stop, Crash, Restart, TakeSlice, TakeBar, vars

Files == [stamped : BOOLEAN, pid : Nat, beats : Nat, lastEvent : Nat,
          published : 0..(CounterModulus - 1), counted : Nat, stopped : BOOLEAN]

LEMMA BeaconNext ==
    ASSUME FlowOK, MarketOK, BeaconOK, CountOK, [Next]_vars
    PROVE  BeaconOK'
  <1>0. lastTs \in Nat /\ published \in Nat /\ crashes \in Nat /\ file.beats \in Nat
    BY Constants DEF FlowOK, MarketOK, CountOK, BeaconOK
  <1>1. CASE BeatEvent
    BY <1>0, <1>1 DEF BeatEvent, StoreEventTime, readerVars, BeaconOK
  <1>2. CASE BeatCounters
    <2>1. published % CounterModulus \in 0..(CounterModulus - 1)
      BY <1>0, Constants
    <2> QED
      BY <1>0, <1>2, <2>1 DEF BeatCounters, StoreCounters, readerVars, BeaconOK
  <1>3. CASE BeatCount
    <2>1. Append(beatLog, published) \in Seq(Nat)
      BY <1>0, Appended DEF BeaconOK
    <2>2. /\ file' = [file EXCEPT !.beats = file.beats + 1] /\ verdict' = verdict
          /\ beatLog' = Append(beatLog, published)
      BY <1>3 DEF BeatCount, StoreCount, StoreBeats, readerVars
    <2>3. file' \in Files
      <3>1. file.beats + 1 \in Nat /\ file \in Files
        BY <1>0 DEF BeaconOK, Files
      <3> QED
        BY <2>2, <3>1 DEF Files
    <2> QED
      BY <2>1, <2>2, <2>3 DEF BeaconOK, Files
  <1>4. CASE Create
    <2>1. <<>> \in Seq(Nat)
      BY EmptySeq
    <2>2. verdict' = verdict /\ (beatLog' = <<>> \/ beatLog' = beatLog)
      BY <1>4 DEF Create, ClearCount, StoreBeats, ClearPayload, StampHeader, readerVars
    <2>3. \/ file' = [file EXCEPT !.beats = 0]
          \/ file' = [file EXCEPT !.lastEvent = 0, !.published = 0, !.counted = 0, !.stopped = FALSE]
          \/ file' = [file EXCEPT !.pid = crashes + 1, !.stamped = TRUE]
      BY <1>4 DEF Create, ClearCount, StoreBeats, ClearPayload, StampHeader
    <2>4. file' \in Files
      <3>1. crashes + 1 \in Nat /\ file \in Files /\ 0 \in 0..(CounterModulus - 1)
        BY <1>0, Constants DEF BeaconOK, Files
      <3>2. CASE file' = [file EXCEPT !.beats = 0]
        BY <3>1, <3>2 DEF Files
      <3>3. CASE file' = [file EXCEPT !.lastEvent = 0, !.published = 0, !.counted = 0, !.stopped = FALSE]
        BY <3>1, <3>3 DEF Files
      <3>4. CASE file' = [file EXCEPT !.pid = crashes + 1, !.stamped = TRUE]
        BY <3>1, <3>4 DEF Files
      <3> QED
        BY <2>3, <3>2, <3>3, <3>4
    <2> QED
      BY <2>1, <2>2, <2>4 DEF BeaconOK, Files
  <1>5. CASE Monitor
    BY <1>5, VerdictIsTyped DEF Monitor, ReadUnstamped, LoadHead, LoadTail, BeaconOK
  <1>6. CASE UNCHANGED beaconVars
    BY <1>6 DEF beaconVars, BeaconOK
  <1> QED
    BY <1>1, <1>2, <1>3, <1>4, <1>5, <1>6, BeaconSteps

(* A record counts once, and for an event that was offered. *)
LEMMA CountNext ==
    ASSUME FlowOK, FlowOK', BarsOK, CountOK, [Next]_vars
    PROVE  CountOK'
  <1>0. Len(bus) \in Nat /\ offered \in Nat /\ Len(bus') \in Nat
    BY Constants, LenProperties DEF FlowOK
  <1>1. CASE Send
    <2>1. PICK kind \in session.feeds : \E event \in Events(kind) : bus' = Append(bus, event)
      BY <1>1 DEF Send
    <2>2. Len(bus') = Len(bus) + 1
      BY <2>1, AppendProperties DEF FlowOK
    <2> QED
      BY <1>0, <1>1, <2>2 DEF Send, CountOK, coreVars
  <1>2. CASE Drain
    <2>1. bus # <<>> /\ bus' = Tail(bus) /\ offered' = offered /\ OnEvent(Head(bus))
      BY <1>2 DEF Drain
    <2>2. Len(bus') = Len(bus) - 1
      BY <2>1, Shortened DEF FlowOK
    <2>3. published' = published \/ published' = published + 1
      <3>1. CASE Head(bus).kind = "candle"
        BY <1>2, <3>1, FrameIsHandled
      <3>2. CASE Head(bus).kind # "candle"
        BY <2>1, <3>2 DEF OnEvent, PublishSlice
      <3> QED
        BY <3>1, <3>2
    <2> QED
      BY <1>0, <2>1, <2>2, <2>3 DEF CountOK
  <1>3. CASE Crash
    BY <1>0, <1>3, EmptySeq DEF Crash, CountOK
  <1>4. CASE ~Send /\ ~Drain /\ ~Crash
    <2>1. UNCHANGED <<bus, offered, published>>
      BY <1>4 DEF Next, CoreStep, Tick, ObserveNow, BeatEvent, BeatCounters, BeatCount, Create,
         Stop, Restart, TakeSlice, TakeBar, Monitor, vars, coreVars
    <2> QED
      BY <2>1 DEF CountOK
  <1> QED
    BY <1>1, <1>2, <1>3, <1>4

(* The two together. *)
Typed == TypesOK /\ DownIsBlank

LEMMA TypedInit == Init => Typed
  <1>1. Init => DownIsBlank
    BY DEF Init, CoreInit, DownIsBlank
  <1> QED
    BY <1>1, TypesInit DEF Typed

LEMMA TypedNext == Typed /\ [Next]_vars => Typed'
  <1> SUFFICES ASSUME Typed, [Next]_vars PROVE Typed'
    OBVIOUS
  <1>1. FlowOK'
    BY FlowNext DEF Typed, TypesOK
  <1>2. MarketOK'
    BY <1>1, MarketNext DEF Typed, TypesOK
  <1>3. SlicesOK'
    BY <1>2, SlicesNext DEF Typed, TypesOK
  <1>4. BarsOK'
    BY BarsNext DEF Typed, TypesOK
  <1>5. BeaconOK'
    BY BeaconNext DEF Typed, TypesOK
  <1>6. CountOK'
    BY <1>1, CountNext DEF Typed, TypesOK
  <1>7. DownIsBlank'
    BY DownNext DEF Typed
  <1> QED
    BY <1>1, <1>2, <1>3, <1>4, <1>5, <1>6, <1>7 DEF Typed, TypesOK

-----------------------------------------------------------------------------
(* Slices.                                                                 *)

LEMMA MeasuredNext ==
    ASSUME Typed, MeasuredIsDelivered, [Next]_vars
    PROVE  MeasuredIsDelivered'
  <1>1. CASE Drain /\ Head(bus).kind \notin {"candle", "ticker"}
    <2>1. PublishSlice(SliceOf(Head(bus), market')) /\ pc = "pass"
      BY <1>1 DEF Drain, OnEvent
    <2> QED
      BY <2>1 DEF PublishSlice, MeasuredIsDelivered, sliceVars
  <1>2. CASE Crash
    BY <1>2 DEF Crash, MeasuredIsDelivered
  <1>3. CASE Restart
    BY <1>3 DEF Restart, MeasuredIsDelivered, Typed, DownIsBlank
  <1>4. CASE TakeSlice
    BY <1>4 DEF TakeSlice, MeasuredIsDelivered
  <1>5. CASE UNCHANGED sliceVars /\ ~Restart
    <2>1. pc' # "crashed" => pc # "crashed"
      BY <1>5 DEF Next, CoreStep, Send, Tick, Drain, ObserveNow, BeatEvent, BeatCounters, BeatCount, Create,
         Stop, Crash, TakeSlice, TakeBar, Monitor, vars
    <2> QED
      BY <2>1, <1>5 DEF MeasuredIsDelivered, sliceVars
  <1> QED
    BY <1>1, <1>2, <1>3, <1>4, <1>5, SliceSteps

(* A step that shortens the bus and leaves the core where it is, is a drain. *)
LEMMA ShorterBusIsADrain ==
    ASSUME FlowOK, [Next]_vars, bus # <<>>, bus' = Tail(bus), pc' = pc, pc = "pass"
    PROVE  Drain
  <1>1. bus' # bus /\ Len(bus') = Len(bus) - 1 /\ Len(bus) \in Nat
    BY Shortened DEF FlowOK
  <1>2. CASE Send
    <2>1. PICK kind \in session.feeds : \E event \in Events(kind) : bus' = Append(bus, event)
      BY <1>2 DEF Send
    <2>2. Len(bus') = Len(bus) + 1
      BY <2>1, AppendProperties DEF FlowOK
    <2>3. \A n \in Nat : n - 1 # n + 1
      OBVIOUS
    <2> QED
      BY <1>1, <2>2, <2>3, Zenon
  <1>3. CASE ~Send
    BY <1>1, <1>3 DEF Next, CoreStep, Tick, ObserveNow, BeatEvent, BeatCounters, BeatCount, Create,
         Stop, Crash, Restart, TakeSlice, TakeBar, Monitor, vars
  <1> QED
    BY <1>2, <1>3

(* The step of RoomMeansCurrent. *)
LEMMA RoomStep ==
    ASSUME Typed, MeasuredIsDelivered, [Next]_vars,
           bus # <<>>, bus' = Tail(bus), pc' = pc, pc = "pass",
           Head(bus).kind \notin {"candle", "ticker"},
           Exact(SliceOf(Head(bus), market')), queued < session.slots
    PROVE  delivered' = SliceOf(Head(bus), market')
  <1>1. Drain
    BY ShorterBusIsADrain DEF Typed, TypesOK
  <1>2. PublishSlice(SliceOf(Head(bus), market'))
    BY <1>1 DEF Drain, OnEvent
  <1> QED
    BY <1>2 DEF PublishSlice, MeasuredIsDelivered, sliceVars

-----------------------------------------------------------------------------
(* Prices.                                                                 *)

(* What a price that is set leaves in the cache. *)
LEMMA FreshQuoteIsUsable ==
    ASSUME NEW fresh \in [px : Nat, ts : Nat, source : {"mark", "mid"}],
           entry \in [px : Nat, ts : Nat, source : {"none", "mark", "mid"}],
           entry.source = "none" => entry = NoQuote,
           marksNow \in Nat, ~IsStale(fresh.ts, marksNow)
    PROVE  Usable(EntryAfterSet(fresh, entry, marksNow), Later(marksNow, fresh.ts))
  <1>1. fresh # NoQuote
    BY DEF NoQuote
  <1> DEFINE after == EntryAfterSet(fresh, entry, marksNow)
             later == Later(marksNow, fresh.ts)
  <1>2. later \in Nat /\ ~IsStale(fresh.ts, later)
    BY Constants DEF Later, IsStale
  <1>3. CASE after = fresh
    BY <1>1, <1>2, <1>3 DEF Usable
  <1>4. CASE after = entry /\ entry # NoQuote /\ ~Supersedes(fresh, entry, later)
    <2>1. CASE entry.ts > fresh.ts
      BY <1>2, <1>4, <2>1, Constants DEF Usable, IsStale
    <2>2. CASE ~(entry.ts > fresh.ts)
      BY <1>4, <2>2 DEF Usable, Supersedes
    <2> QED
      BY <2>1, <2>2
  <1> QED
    BY <1>3, <1>4 DEF EntryAfterSet

LEMMA UsableStep ==
    ASSUME Typed, [Next]_vars,
           bus # <<>>, bus' = Tail(bus), pc' = pc, pc = "pass",
           Head(bus).kind = "bbo", ~IsStale(Head(bus).ts, marksNow)
    PROVE  Usable(entry', marksNow')
  <1>1. Drain
    BY ShorterBusIsADrain DEF Typed, TypesOK
  <1> DEFINE fresh == BookMid(Head(bus).px, Head(bus).ts)
  <1>2. MarksAfter(Head(bus), MarketAfter(Head(bus))) /\ Head(bus) \in PriceEvents
    BY <1>1, HandledEvent DEF Drain, OnEvent, Typed, TypesOK
  <1>3. fresh \in [px : Nat, ts : Nat, source : {"mark", "mid"}] /\ fresh.ts = Head(bus).ts
    BY <1>2 DEF BookMid, PriceEvents
  <1>4. MarkOf(Head(bus), MarketAfter(Head(bus))) = fresh /\ fresh # NoQuote
    BY DEF MarkOf, BookMid, NoQuote
  <1>5. entry' = EntryAfterSet(fresh, entry, marksNow) /\ marksNow' = Later(marksNow, fresh.ts)
    BY <1>2, <1>4 DEF MarksAfter
  <1>6. /\ entry \in [px : Nat, ts : Nat, source : {"none", "mark", "mid"}]
        /\ entry.source = "none" => entry = NoQuote
        /\ marksNow \in Nat
    BY Constants DEF Typed, TypesOK, MarketOK, FlowOK
  <1> QED
    BY <1>3, <1>5, <1>6, FreshQuoteIsUsable

LEMMA DisplacedStep ==
    ASSUME Typed, [Next]_vars, entry.source = "mark", entry'.source = "mid"
    PROVE  ~Usable(entry, marksNow')
  <1>1. CASE Drain /\ Head(bus).kind # "candle"
    <2> DEFINE fresh == MarkOf(Head(bus), MarketAfter(Head(bus)))
    <2>1. MarksAfter(Head(bus), MarketAfter(Head(bus)))
      BY <1>1 DEF Drain, OnEvent
    <2>2. fresh # NoQuote
      BY <2>1 DEF MarksAfter
    <2>3. entry' = EntryAfterSet(fresh, entry, marksNow) /\ marksNow' = Later(marksNow, fresh.ts)
      BY <2>1, <2>2 DEF MarksAfter
    <2>4. Supersedes(fresh, entry, Later(marksNow, fresh.ts)) /\ fresh.source = "mid"
      BY <2>3 DEF EntryAfterSet, NoQuote
    <2> QED
      BY <2>3, <2>4 DEF Supersedes, Usable
  <1>2. CASE ObserveNow
    BY <1>2 DEF ObserveNow
  <1>3. CASE Crash
    BY <1>3 DEF Crash, NoQuote
  <1>4. CASE UNCHANGED marketVars
    BY <1>4 DEF marketVars
  <1> QED
    BY <1>1, <1>2, <1>3, <1>4, MarketSteps

-----------------------------------------------------------------------------
(* Bars.                                                                   *)

(* The last bar of the log, as FormingIsTheNewest reads it. *)
LastOpenOf(log) == IF log = <<>> THEN 0 ELSE log[Len(log)].open

(* While the process lives, frames and bars only grow. *)
LEMMA FormingNext ==
    ASSUME Typed, FormingIsTheNewest, [Next]_vars
    PROVE  FormingIsTheNewest'
  <1>0. /\ FlowOK /\ BarsOK /\ DownIsBlank
        /\ Len(frames) \in Nat /\ Len(barLog) \in Nat
        /\ frames \in Seq(Frames) /\ forming \in Frames /\ lastOpen \in 0..MaxOpen
        /\ \A i \in 1..Len(frames) : frames[i] \in Frames
    BY LenProperties, ElementOfSeq DEF Typed, TypesOK, BarsOK
  <1>1. CASE Drain /\ Head(bus).kind = "candle"
    <2> DEFINE frame == FrameOf(Head(bus))
    <2>0. pc # "crashed"
      BY <1>1 DEF Drain
    <2>1. /\ frame \in Frames /\ frame.open >= 1 /\ frames' = Append(frames, frame)
          /\ forming' = IF forming = NoBar \/ frame.open >= forming.open THEN frame ELSE forming
      BY <1>0, <1>1, FrameIsHandled
    <2>2. /\ Len(frames') = Len(frames) + 1 /\ frames'[Len(frames) + 1] = frame
          /\ \A i \in 1..Len(frames) : frames'[i] = frames[i]
      BY <1>0, <2>1, Appended
    <2> HIDE DEF frame
    <2>3. frame.open \in Nat /\ forming.open \in Nat /\ frame # NoBar
      BY <2>1, <1>0 DEF Frames, NoBar
    <2>4. lastOpen' = LastOpenOf(barLog') /\ lastOpen' < forming'.open
      <3>1. CASE UNCHANGED <<barLog, lastOpen>>
        <4>1. lastOpen' = LastOpenOf(barLog')
          BY <3>1, <2>0 DEF FormingIsTheNewest, LastOpenOf
        <4>2. CASE forming = NoBar
          <5>1. barLog = <<>> /\ forming' = frame
            BY <4>2, <2>0, <2>1 DEF FormingIsTheNewest
          <5>2. lastOpen' = 0
            BY <5>1, <3>1, <4>1 DEF LastOpenOf
          <5> QED
            BY <4>1, <5>1, <5>2, <2>1, <2>3
        <4>3. CASE forming # NoBar
          <5>1. lastOpen < forming.open
            BY <4>3, <2>0 DEF FormingIsTheNewest
          <5>2. forming'.open >= forming.open /\ forming'.open \in Nat
            BY <4>3, <2>1, <2>3
          <5> QED
            BY <4>1, <5>1, <5>2, <3>1, <2>3, <1>0, Constants
        <4> QED
          BY <4>1, <4>2, <4>3
      <3>2. CASE /\ forming # NoBar /\ frame.open > forming.open
                 /\ barLog' = Append(barLog, LogOf(forming)) /\ lastOpen' = forming.open
        <4>1. barLog' # <<>> /\ barLog'[Len(barLog')] = LogOf(forming)
          <5>1. barLog \in Seq(Logged) /\ LogOf(forming) \in Logged
            BY <3>2, <1>0, LogIsTyped DEF BarsOK, Logged
          <5> QED
            BY <5>1, <3>2, Appended
        <4>2. lastOpen' = LastOpenOf(barLog')
          BY <3>2, <4>1 DEF LastOpenOf, LogOf
        <4>3. forming' = frame
          BY <3>2, <2>1, <2>3
        <4> QED
          BY <3>2, <4>2, <4>3
      <3> QED
        BY <3>1, <3>2, <1>0, <1>1, FrameIsHandled DEF frame
    <2>5. \A i \in 1..Len(frames') : frames'[i].open <= forming'.open
      <3>1. \A i \in 1..Len(frames) : forming # NoBar => frames[i].open <= forming.open
        BY <2>0 DEF FormingIsTheNewest
      <3>2. forming = NoBar => Len(frames) = 0
        BY <2>0, EmptySeq DEF FormingIsTheNewest
      <3>3. \A i \in 1..Len(frames) : frames[i].open \in Nat
        BY <1>0, Constants DEF Frames
      <3>4. ASSUME NEW i \in 1..Len(frames)
            PROVE  frames'[i].open <= forming'.open
        <4>1. forming # NoBar /\ frames[i].open <= forming.open /\ frames'[i] = frames[i]
          BY <3>1, <3>2, <2>2
        <4> QED
          BY <4>1, <3>3, <2>1, <2>3
      <3>5. frames'[Len(frames) + 1].open <= forming'.open
        BY <2>1, <2>2, <2>3
      <3> QED
        BY <3>4, <3>5, <2>2, <1>0
    <2>6. \E k \in 1..Len(frames') :
            /\ frames'[k] = forming'
            /\ \A j \in 1..Len(frames') : j > k => frames'[j].open # forming'.open
      <3>1. CASE forming' = frame
        <4>1. /\ Len(frames) + 1 \in 1..Len(frames')
              /\ \A j \in 1..Len(frames') : ~(j > Len(frames) + 1)
          BY <2>2, <1>0
        <4> QED
          BY <3>1, <4>1, <2>2
      <3>2. CASE forming' = forming /\ forming # NoBar /\ frame.open < forming.open
        <4>1. PICK k \in 1..Len(frames) :
                /\ frames[k] = forming
                /\ \A j \in 1..Len(frames) : j > k => frames[j].open # forming.open
          BY <3>2, <2>0 DEF FormingIsTheNewest
        <4>2. k \in 1..Len(frames') /\ frames'[k] = forming'
          BY <4>1, <3>2, <2>2, <1>0
        <4>3. ASSUME NEW j \in 1..Len(frames'), j > k
              PROVE  frames'[j].open # forming'.open
          <5>1. CASE j \in 1..Len(frames)
            BY <4>1, <4>3, <5>1, <3>2, <2>2
          <5>2. CASE j = Len(frames) + 1
            BY <5>2, <3>2, <2>2, <2>3
          <5> QED
            BY <5>1, <5>2, <2>2, <1>0
        <4> QED
          BY <4>2, <4>3
      <3> QED
        BY <3>1, <3>2, <2>1, <2>3
    <2>7. forming' # NoBar
      BY <2>1, <2>3 DEF NoBar
    <2> QED
      BY <2>4, <2>5, <2>6, <2>7 DEF FormingIsTheNewest, LastOpenOf
  <1>2. CASE Crash
    BY <1>2 DEF Crash, FormingIsTheNewest
  <1>3. CASE Restart
    BY <1>3, <1>0 DEF Restart, FormingIsTheNewest, DownIsBlank
  <1>4. CASE TakeBar
    BY <1>4 DEF TakeBar, FormingIsTheNewest
  <1>5. CASE UNCHANGED barVars /\ ~Restart
    <2>1. pc' # "crashed" => pc # "crashed"
      BY <1>5 DEF Next, CoreStep, Send, Tick, Drain, ObserveNow, BeatEvent, BeatCounters, BeatCount, Create,
         Stop, Crash, TakeSlice, TakeBar, Monitor, vars
    <2> QED
      BY <2>1, <1>5 DEF FormingIsTheNewest, barVars
  <1> QED
    BY <1>1, <1>2, <1>3, <1>4, <1>5, BarSteps

(* What the log says of its holes. *)
LEMMA HolesNext ==
    ASSUME Typed, FormingIsTheNewest, BarsTellTheirHoles, [Next]_vars
    PROVE  BarsTellTheirHoles'
  <1>0. FlowOK /\ BarsOK /\ Len(barLog) \in Nat /\ barLog \in Seq(Logged)
    BY LenProperties DEF Typed, TypesOK, BarsOK, Logged
  <1>1. CASE Drain /\ Head(bus).kind = "candle"
    <2>0. pc # "crashed"
      BY <1>1 DEF Drain
    <2>1. CASE barLog' = barLog
      BY <2>1 DEF BarsTellTheirHoles
    <2>2. CASE forming # NoBar /\ barLog' = Append(barLog, LogOf(forming))
      <3>1. /\ Len(barLog') = Len(barLog) + 1 /\ barLog'[Len(barLog) + 1] = LogOf(forming)
            /\ \A i \in 1..Len(barLog) : barLog'[i] = barLog[i]
        BY <2>2, <1>0, LogIsTyped, Appended
      <3>2. lastOpen < forming.open /\ lastOpen = LastOpenOf(barLog)
        BY <2>0, <2>2 DEF FormingIsTheNewest, LastOpenOf
      <3>3. /\ forming.open \in Nat /\ lastOpen \in Nat
            /\ \A i \in 1..Len(barLog) : barLog[i].open \in Nat /\ barLog[i].open > 0
        <4>1. forming.open \in Nat /\ lastOpen \in Nat
          BY <1>0, Constants DEF BarsOK, Frames
        <4>2. \A i \in 1..Len(barLog) : barLog[i] \in Logged
          BY <1>0, ElementOfSeq
        <4> QED
          BY <4>1, <4>2, Constants DEF Logged
      <3>4. CASE barLog = <<>>
        <4>1. Len(barLog) = 0 /\ lastOpen = 0
          BY <3>2, <3>4, EmptySeq DEF LastOpenOf
        <4>2. LogOf(forming).flag = "first"
          BY <4>1 DEF LogOf, Flag
        <4> QED
          BY <3>1, <4>1, <4>2 DEF BarsTellTheirHoles
      <3>5. CASE barLog # <<>>
        <4>1. Len(barLog) >= 1 /\ lastOpen = barLog[Len(barLog)].open
          BY <3>2, <3>5, <1>0, EmptySeq DEF LastOpenOf
        <4>2. lastOpen > 0
          BY <4>1, <3>3, <1>0
        <4>3. /\ LogOf(forming).flag = (IF forming.open # lastOpen + 1 THEN "gap" ELSE "none")
              /\ LogOf(forming).open = forming.open
          BY <4>2 DEF LogOf, Flag
        <4>4. ASSUME NEW i \in 1..Len(barLog')
              PROVE  /\ (barLog'[i].flag = "first") <=> (i = 1)
                     /\ i > 1 => /\ barLog'[i].open > barLog'[i - 1].open
                                 /\ (barLog'[i].flag = "none") <=> (barLog'[i].open = barLog'[i - 1].open + 1)
          <5>1. CASE i \in 1..Len(barLog)
            <6>1. barLog'[i] = barLog[i] /\ (i > 1 => barLog'[i - 1] = barLog[i - 1])
              BY <5>1, <3>1, <1>0
            <6> QED
              BY <5>1, <6>1 DEF BarsTellTheirHoles
          <5>2. CASE i = Len(barLog) + 1
            <6>1. /\ barLog'[i] = LogOf(forming) /\ i > 1 /\ i # 1
                  /\ barLog'[i - 1].open = lastOpen
              BY <5>2, <3>1, <4>1, <1>0
            <6> QED
              BY <6>1, <4>3, <3>2, <3>3
          <5> QED
            BY <5>1, <5>2, <3>1, <1>0
        <4> QED
          BY <4>4 DEF BarsTellTheirHoles
      <3> QED
        BY <3>4, <3>5
    <2> QED
      BY <2>1, <2>2, <1>0, <1>1, FrameIsHandled
  <1>2. CASE Restart
    <2>1. barLog' = <<>> /\ Len(<<>>) = 0
      BY <1>2, EmptySeq DEF Restart
    <2> QED
      BY <2>1 DEF BarsTellTheirHoles
  <1>3. CASE Crash \/ TakeBar \/ UNCHANGED barVars
    BY <1>3 DEF Crash, TakeBar, barVars, BarsTellTheirHoles
  <1> QED
    BY <1>1, <1>2, <1>3, BarSteps

(* One bar, in a history of frames. *)
IsFinal(bar, history) ==
    \E k \in 1..Len(history), l \in 1..Len(history) :
        /\ history[k].open = bar.open /\ history[k].frame = bar.frame
        /\ history[l].open > bar.open
        /\ \A j \in 1..Len(history) : history[j].open = bar.open /\ j > k => l < j
        /\ \A j \in 1..Len(history) : history[j].open > bar.open => j > k

LEMMA FinalMeans ==
    PublishedBarsAreFinal <=> \A i \in 1..Len(barLog) : IsFinal(barLog[i], frames)
  <1>1. ASSUME NEW i \in 1..Len(barLog), IsFinal(barLog[i], frames)
        PROVE  LET bar == barLog[i]
                   ofBar == {k \in 1..Len(frames) : frames[k].open = bar.open}
                   later == {k \in 1..Len(frames) : frames[k].open > bar.open}
               IN  \E k \in ofBar :
                        /\ frames[k].frame = bar.frame
                        /\ \E l \in later : \A j \in ofBar : j > k => l < j
                        /\ \A l \in later : l > k
    BY <1>1 DEF IsFinal
  <1>2. ASSUME NEW i \in 1..Len(barLog),
               LET bar == barLog[i]
                   ofBar == {k \in 1..Len(frames) : frames[k].open = bar.open}
                   later == {k \in 1..Len(frames) : frames[k].open > bar.open}
               IN  \E k \in ofBar :
                        /\ frames[k].frame = bar.frame
                        /\ \E l \in later : \A j \in ofBar : j > k => l < j
                        /\ \A l \in later : l > k
        PROVE  IsFinal(barLog[i], frames)
    BY <1>2 DEF IsFinal
  <1> QED
    BY <1>1, <1>2 DEF PublishedBarsAreFinal

(* A later frame takes nothing away. *)
LEMMA FinalStays ==
    ASSUME NEW bar, NEW history \in Seq(Frames), NEW frame \in Frames, IsFinal(bar, history)
    PROVE  IsFinal(bar, Append(history, frame))
  <1> DEFINE longer == Append(history, frame)
  <1>1. /\ Len(longer) = Len(history) + 1 /\ Len(history) \in Nat
        /\ \A i \in 1..Len(history) : longer[i] = history[i]
    BY Appended, LenProperties
  <1>2. PICK k \in 1..Len(history), l \in 1..Len(history) :
            /\ history[k].open = bar.open /\ history[k].frame = bar.frame
            /\ history[l].open > bar.open
            /\ \A j \in 1..Len(history) : history[j].open = bar.open /\ j > k => l < j
            /\ \A j \in 1..Len(history) : history[j].open > bar.open => j > k
    BY DEF IsFinal
  <1>3. k \in 1..Len(longer) /\ l \in 1..Len(longer) /\ longer[k] = history[k] /\ longer[l] = history[l]
    BY <1>1, <1>2
  <1>4. ASSUME NEW j \in 1..Len(longer)
        PROVE  /\ longer[j].open = bar.open /\ j > k => l < j
               /\ longer[j].open > bar.open => j > k
    <2>1. CASE j \in 1..Len(history)
      BY <1>1, <1>2, <2>1
    <2>2. CASE j = Len(history) + 1
      BY <1>1, <1>2, <2>2
    <2> QED
      BY <2>1, <2>2, <1>1
  <1> HIDE DEF longer
  <1>5. IsFinal(bar, longer)
    BY <1>2, <1>3, <1>4 DEF IsFinal
  <1> QED
    BY <1>5 DEF longer

LEMMA FinalNext ==
    ASSUME Typed, FormingIsTheNewest, PublishedBarsAreFinal, [Next]_vars
    PROVE  PublishedBarsAreFinal'
  <1>0. /\ FlowOK /\ BarsOK
        /\ Len(frames) \in Nat /\ Len(barLog) \in Nat
        /\ frames \in Seq(Frames) /\ barLog \in Seq(Logged) /\ forming \in Frames
        /\ \A i \in 1..Len(frames) : frames[i] \in Frames
        /\ \A i \in 1..Len(barLog) : IsFinal(barLog[i], frames)
    BY LenProperties, ElementOfSeq, FinalMeans DEF Typed, TypesOK, BarsOK, Logged
  <1>a. (\A i \in 1..Len(barLog) : IsFinal(barLog[i], frames))' => PublishedBarsAreFinal'
    BY FinalMeans, PTL
  <1>1. CASE Drain /\ Head(bus).kind = "candle"
    <2> DEFINE frame == FrameOf(Head(bus))
    <2>0. pc # "crashed"
      BY <1>1 DEF Drain
    <2>1. frame \in Frames /\ frames' = Append(frames, frame)
      BY <1>0, <1>1, FrameIsHandled
    <2>2. \A i \in 1..Len(barLog) : IsFinal(barLog[i], frames')
      BY <1>0, <2>1, FinalStays
    <2>3. CASE barLog' = barLog
      BY <2>2, <2>3, <1>a
    <2>4. CASE forming # NoBar /\ frame.open > forming.open /\ barLog' = Append(barLog, LogOf(forming))
      <3>1. /\ Len(barLog') = Len(barLog) + 1 /\ barLog'[Len(barLog) + 1] = LogOf(forming)
            /\ \A i \in 1..Len(barLog) : barLog'[i] = barLog[i]
        BY <2>4, <1>0, LogIsTyped, Appended
      <3>2. /\ Len(frames') = Len(frames) + 1 /\ frames'[Len(frames) + 1] = frame
            /\ \A i \in 1..Len(frames) : frames'[i] = frames[i]
        BY <2>1, <1>0, Appended
      <3>3. /\ forming.open \in Nat /\ frame.open \in Nat
            /\ \A i \in 1..Len(frames) : frames[i].open \in Nat
        BY <1>0, <2>1, Constants DEF Frames
      <3>4. PICK k \in 1..Len(frames) :
                /\ frames[k] = forming
                /\ \A j \in 1..Len(frames) : j > k => frames[j].open # forming.open
        BY <2>0, <2>4 DEF FormingIsTheNewest
      <3>5. \A i \in 1..Len(frames) : frames[i].open <= forming.open
        BY <2>0, <2>4 DEF FormingIsTheNewest
      <3>6. IsFinal(LogOf(forming), frames')
        <4>1. LogOf(forming).open = forming.open /\ LogOf(forming).frame = forming.frame
          BY DEF LogOf
        <4>2. /\ k \in 1..Len(frames') /\ Len(frames) + 1 \in 1..Len(frames')
              /\ frames'[k] = forming
          BY <3>2, <3>4, <1>0
        <4>3. frames'[Len(frames) + 1].open > forming.open
          BY <2>4, <3>2, <3>3
        <4>4. ASSUME NEW j \in 1..Len(frames')
              PROVE  /\ frames'[j].open = forming.open /\ j > k => Len(frames) + 1 < j
                     /\ frames'[j].open > forming.open => j > k
          <5>1. CASE j \in 1..Len(frames)
            BY <3>2, <3>3, <3>4, <3>5, <5>1
          <5>2. CASE j = Len(frames) + 1
            BY <2>4, <3>2, <3>3, <3>4, <5>2
          <5>3. j \in 1..Len(frames) \/ j = Len(frames) + 1
            BY <3>2, <1>0
          <5> QED
            BY <5>1, <5>2, <5>3, Zenon
        <4> QED
          BY <4>1, <4>2, <4>3, <4>4 DEF IsFinal
      <3>7. \A i \in 1..Len(barLog') : IsFinal(barLog'[i], frames')
        BY <2>2, <3>1, <3>6, <1>0
      <3> QED
        BY <3>7, <1>a
    <2> QED
      BY <2>3, <2>4, <1>0, <1>1, FrameIsHandled
  <1>2. CASE Restart
    <2>1. barLog' = <<>> /\ Len(<<>>) = 0
      BY <1>2, EmptySeq DEF Restart
    <2> QED
      BY <2>1, <1>a
  <1>3. CASE Crash \/ TakeBar \/ UNCHANGED barVars
    <2>1. barLog' = barLog /\ frames' = frames
      BY <1>3 DEF Crash, TakeBar, barVars
    <2> QED
      BY <2>1, <1>0, <1>a
  <1> QED
    BY <1>1, <1>2, <1>3, BarSteps

-----------------------------------------------------------------------------
(* The feed.                                                               *)

FeedInductive ==
    /\ Typed
    /\ MeasuredIsDelivered
    /\ FormingIsTheNewest
    /\ BarsTellTheirHoles
    /\ PublishedBarsAreFinal

LEMMA FeedInvariant == Spec => []FeedInductive
  <1>1. Init => FeedInductive
    <2> SUFFICES ASSUME Init PROVE FeedInductive
      OBVIOUS
    <2>1. barLog = <<>> /\ frames = <<>> /\ forming = NoBar /\ lastOpen = 0 /\ last = delivered
          /\ Len(<<>>) = 0
      BY EmptySeq DEF Init, CoreInit
    <2>2. MeasuredIsDelivered /\ FormingIsTheNewest
      BY <2>1 DEF MeasuredIsDelivered, FormingIsTheNewest
    <2>3. BarsTellTheirHoles /\ PublishedBarsAreFinal
      BY <2>1 DEF BarsTellTheirHoles, PublishedBarsAreFinal
    <2> QED
      BY <2>2, <2>3, TypedInit DEF FeedInductive
  <1>2. FeedInductive /\ [Next]_vars => FeedInductive'
    BY TypedNext, MeasuredNext, FormingNext, HolesNext, FinalNext DEF FeedInductive
  <1> QED
    BY <1>1, <1>2, PTL DEF Spec

(* What the rings carry is in range, says where it has holes, and is final:
   for any feeds, sizes of rings and intervals, whatever the rings refuse, the
   wire cannot hold or a death of the process takes. *)
THEOREM FeedIsSound == Spec => []FeedInv
  <1>1. FeedInductive => FeedInv
    BY TypesAreTyped DEF FeedInductive, Typed, FeedInv
  <1> QED
    BY <1>1, FeedInvariant, PTL

(* Whenever the ring has room, the event just handled leaves the reader's
   newest slice equal to the market. *)
THEOREM TheReaderIsCurrent == Spec => RoomMeansCurrent
  <1>1. FeedInductive /\ [Next]_vars =>
            [ LET event == Head(bus)
                  slice == SliceOf(event, market')
              IN  (/\ pc = "pass" /\ bus # <<>> /\ bus' = Tail(bus) /\ pc' = pc
                   /\ event.kind \notin {"candle", "ticker"}
                   /\ Exact(slice) /\ queued < session.slots)
                  => delivered' = slice ]_vars
    BY RoomStep DEF FeedInductive
  <1> QED
    BY <1>1, FeedInvariant, PTL DEF Spec, RoomMeansCurrent

(* A fresh quote leaves the gate a price it can use, and none takes the place
   of a mark that still counts. *)
THEOREM MarksAreKept == Spec => MarksServeTheGate
  <1>1. FeedInductive /\ [Next]_vars =>
            [ LET event == Head(bus)
              IN  (/\ pc = "pass" /\ bus # <<>> /\ bus' = Tail(bus) /\ pc' = pc
                   /\ event.kind = "bbo" /\ ~IsStale(event.ts, marksNow))
                  => Usable(entry', marksNow') ]_vars
    BY UsableStep DEF FeedInductive
  <1>2. FeedInductive /\ [Next]_vars =>
            [ (entry.source = "mark" /\ entry'.source = "mid") => ~Usable(entry, marksNow') ]_vars
    BY DisplacedStep DEF FeedInductive
  <1> QED
    BY <1>1, <1>2, FeedInvariant, PTL
    DEF Spec, MarksServeTheGate, AFreshMidIsUsable, LiveMarkIsNotDisplaced

-----------------------------------------------------------------------------
(* The beacon.                                                             *)

(* Between two stores of a beat nothing is published; while the process lives
   the counter only grows. *)
LEMMA CounterGrows ==
    ASSUME FlowOK, BarsOK, CountOK, [Next]_vars
    PROVE  /\ published' = published \/ published' = published + 1 \/ Crash
           /\ published' # published => Crash \/ (pc = "pass" /\ pc' = pc)
  <1>1. CASE Drain
    <2>1. published' = published \/ published' = published + 1
      <3>1. CASE Head(bus).kind = "candle"
        BY <1>1, <3>1, FrameIsHandled
      <3>2. CASE Head(bus).kind # "candle"
        BY <1>1, <3>2 DEF Drain, OnEvent, PublishSlice
      <3> QED
        BY <3>1, <3>2
    <2> QED
      BY <1>1, <2>1 DEF Drain
  <1>2. CASE ~Drain /\ ~Crash
    BY <1>2 DEF Next, CoreStep, Send, Tick, ObserveNow, BeatEvent, BeatCounters, BeatCount, Create,
         Stop, Restart, TakeSlice, TakeBar, Monitor, vars, coreVars
  <1> QED
    BY <1>1, <1>2

LEMMA UnwatchedNext ==
    ASSUME UnwatchedIsBlank, [Next]_vars
    PROVE  UnwatchedIsBlank'
  <1> SUFFICES ASSUME ~session.monitored PROVE UnwatchedIsBlank'
    BY SessionStays DEF UnwatchedIsBlank
  <1>1. file = BlankFile /\ beatLog = <<>> /\ pc \in {"pass", "stopped", "crashed"}
    BY DEF UnwatchedIsBlank
  <1>2. UNCHANGED <<file, beatLog>>
    BY <1>1 DEF Next, CoreStep, Send, Tick, Drain, ObserveNow, BeatEvent, BeatCounters, BeatCount, Create,
       Stop, Crash, Restart, TakeSlice, TakeBar, Monitor, ReadUnstamped, LoadHead, LoadTail, vars, beaconVars
  <1>3. pc' \in {"pass", "stopped", "crashed"}
    BY <1>1 DEF Next, CoreStep, Send, Tick, Drain, ObserveNow, BeatEvent, BeatCounters, BeatCount, Create,
       Stop, Crash, Restart, TakeSlice, TakeBar, Monitor, vars
  <1> QED
    BY <1>1, <1>2, <1>3 DEF UnwatchedIsBlank

LEMMA BeatsNext ==
    ASSUME Typed, UnwatchedIsBlank, BeatsGrow, [Next]_vars
    PROVE  BeatsGrow'
  <1>0. /\ FlowOK /\ BarsOK /\ BeaconOK /\ CountOK /\ DownIsBlank
        /\ published \in Nat /\ file \in Files /\ file.counted \in Nat
        /\ beatLog \in Seq(Nat) /\ Len(beatLog) \in Nat
        /\ \A i \in 1..Len(beatLog) : beatLog[i] \in Nat
    BY LenProperties, ElementOfSeq DEF Typed, TypesOK, BeaconOK, CountOK, Files
  <1>1. CASE BeatEvent
    <2>1. /\ file'.beats = file.beats /\ file'.counted = file.counted
          /\ beatLog' = beatLog /\ published' = published
          /\ pc \in {"event", "lastEvent"} /\ pc' \in {"counters", "lastCounters"}
      BY <1>0, <1>1 DEF BeatEvent, StoreEventTime, Files, coreVars
    <2> QED
      BY <2>1 DEF BeatsGrow
  <1>2. CASE BeatCounters
    <2>1. /\ file'.beats = file.beats /\ file'.counted = published
          /\ beatLog' = beatLog /\ published' = published
          /\ pc \in {"counters", "lastCounters"} /\ pc' \in {"count", "lastCount"}
      BY <1>0, <1>2 DEF BeatCounters, StoreCounters, Files, coreVars
    <2>2. \A i \in 1..Len(beatLog) : beatLog[i] <= published
      BY <2>1, <1>0 DEF BeatsGrow
    <2> QED
      BY <2>1, <2>2, <1>0 DEF BeatsGrow
  <1>3. CASE BeatCount
    <2>1. /\ file'.beats = file.beats + 1 /\ file'.counted = file.counted
          /\ beatLog' = Append(beatLog, published) /\ published' = published
          /\ pc \in {"count", "lastCount"} /\ pc' \in {"stopped", "lastEvent", "pass"}
      BY <1>0, <1>3 DEF BeatCount, StoreCount, StoreBeats, Files, coreVars
    <2>2. /\ Len(beatLog') = Len(beatLog) + 1 /\ beatLog'[Len(beatLog) + 1] = published
          /\ \A i \in 1..Len(beatLog) : beatLog'[i] = beatLog[i]
      BY <1>0, <2>1, Appended
    <2>3. file.counted = published /\ \A i \in 1..Len(beatLog) : beatLog[i] <= published
      BY <2>1 DEF BeatsGrow
    <2>4. file'.beats = Len(beatLog')
      BY <2>1, <2>2 DEF BeatsGrow
    <2>5. \A i \in 1..Len(beatLog') : beatLog'[i] <= published
      BY <2>2, <2>3, <1>0
    <2>6. ASSUME NEW i \in 1..Len(beatLog'), NEW j \in 1..Len(beatLog'), i <= j
          PROVE  beatLog'[i] <= beatLog'[j]
      <3>1. CASE j \in 1..Len(beatLog)
        <4>1. i \in 1..Len(beatLog)
          BY <2>6, <3>1
        <4> QED
          BY <2>2, <2>6, <3>1, <4>1 DEF BeatsGrow
      <3>2. CASE j = Len(beatLog) + 1
        BY <2>2, <2>5, <3>2
      <3> QED
        BY <3>1, <3>2, <2>2, <1>0
    <2>7. \A i, j \in 1..Len(beatLog') : i <= j => beatLog'[i] <= beatLog'[j]
      BY <2>6
    <2> QED
      BY <2>1, <2>3, <2>4, <2>5, <2>7, <1>0 DEF BeatsGrow
  <1>4. CASE Create
    <2>1. CASE pc = "create"
      <3>1. /\ file'.beats = 0 /\ beatLog' = <<>> /\ Len(beatLog') = 0 /\ pc' = "create2"
        BY <1>0, <1>4, <2>1, EmptySeq DEF Create, ClearCount, StoreBeats, Files
      <3> QED
        BY <3>1 DEF BeatsGrow
    <2>2. CASE pc = "create2"
      <3>1. /\ file'.beats = file.beats /\ file'.counted = 0 /\ beatLog' = beatLog
            /\ pc' = "create3" /\ published' = published
        BY <1>0, <1>4, <2>2 DEF Create, ClearPayload, Files, coreVars
      <3>2. beatLog = <<>> /\ Len(beatLog) = 0
        BY <2>2, EmptySeq DEF BeatsGrow
      <3> QED
        BY <3>1, <3>2, <1>0 DEF BeatsGrow
    <2>3. CASE pc = "create3"
      <3>1. /\ file'.beats = file.beats /\ file'.counted = file.counted /\ beatLog' = beatLog
            /\ pc' = "pass" /\ published' = published
        BY <1>0, <1>4, <2>3 DEF Create, StampHeader, Files, coreVars
      <3> QED
        BY <2>3, <3>1 DEF BeatsGrow
    <2> QED
      BY <1>4, <2>1, <2>2, <2>3 DEF Create
  <1>5. CASE Crash
    <2>1. pc' = "crashed" /\ UNCHANGED <<file, beatLog>>
      BY <1>5 DEF Crash, beaconVars
    <2> QED
      BY <2>1 DEF BeatsGrow
  <1>6. CASE Restart
    <2>1. pc = "crashed" /\ pc' \in {"create", "pass"} /\ (pc' = "pass" => ~session.monitored)
          /\ UNCHANGED <<file, beatLog, published>>
      BY <1>6 DEF Restart, beaconVars
    <2>2. CASE pc' = "create"
      BY <2>1, <2>2 DEF BeatsGrow
    <2>3. CASE ~session.monitored
      <3>1. file.counted = 0 /\ beatLog = <<>> /\ Len(beatLog) = 0 /\ pc' = "pass"
        BY <2>1, <2>3, <1>6, EmptySeq DEF UnwatchedIsBlank, BlankFile, Restart
      <3> QED
        BY <3>1, <2>1, <1>0 DEF BeatsGrow
    <2> QED
      BY <2>1, <2>2, <2>3
  <1>7. CASE UNCHANGED <<file, beatLog>> /\ ~Crash /\ ~Restart /\ ~Create /\ ~BeatCounters
    <2>1. /\ pc \in {"crashed", "create", "create2"} <=> pc' \in {"crashed", "create", "create2"}
          /\ pc' = "create2" => pc = "create2"
          /\ pc' \in {"count", "lastCount"} => pc = pc'
      BY <1>7 DEF Next, CoreStep, Send, Tick, Drain, ObserveNow, BeatEvent, BeatCount,
         Stop, TakeSlice, TakeBar, Monitor, vars
    <2>2. published' = published \/ (published' = published + 1 /\ pc = "pass")
      BY <1>0, <1>7, CounterGrows
    <2> QED
      BY <1>0, <1>7, <2>1, <2>2 DEF BeatsGrow
  <1>8. Monitor => UNCHANGED <<file, beatLog>>
    BY DEF Monitor, ReadUnstamped, LoadHead, LoadTail
  <1> QED
    BY <1>1, <1>2, <1>3, <1>4, <1>5, <1>6, <1>7, <1>8, BeaconSteps DEF beaconVars

(* Snapshots, begun and taken. *)
SnapshotOK(snapshot) ==
    snapshot # Nothing =>
        /\ snapshot.session \in -1..crashes
        /\ snapshot.session = crashes =>
            /\ Author = crashes
            /\ snapshot.beats \in 0..Len(beatLog)

LEMMA SnapshotsMean == SnapshotsAreOfTheLog <=> SnapshotOK(reading) /\ SnapshotOK(previous)
  BY DEF SnapshotsAreOfTheLog, SnapshotOK

(* The log only grows while there is an author, and an author stays until it
   dies. *)
LEMMA AuthorStays ==
    ASSUME Typed, [Next]_vars
    PROVE  /\ Crash => crashes' = crashes + 1
           /\ ~Crash => /\ crashes' = crashes
                        /\ Author = crashes => Author' = crashes /\ Len(beatLog) <= Len(beatLog')
           /\ ~Crash /\ Author = crashes =>
                \A i \in 1..Len(beatLog) : i \in 1..Len(beatLog') /\ beatLog'[i] = beatLog[i]
           /\ crashes \in Nat /\ Len(beatLog) \in Nat /\ Len(beatLog') \in Nat
  <1>0. crashes \in Nat /\ published \in Nat /\ beatLog \in Seq(Nat) /\ Len(beatLog) \in Nat
    BY Constants, LenProperties DEF Typed, TypesOK, FlowOK, BeaconOK, CountOK
  <1>1. Crash => crashes' = crashes + 1
    BY DEF Crash
  <1>2. ~Crash => crashes' = crashes
    BY DEF Next, CoreStep, Send, Tick, Drain, ObserveNow, BeatEvent, BeatCounters, BeatCount, Create,
       Stop, Restart, TakeSlice, TakeBar, Monitor, vars
  <1>3. Author = crashes <=> pc \notin {"crashed", "create", "create2", "create3"}
    BY <1>0 DEF Author
  <1>4. ASSUME ~Crash, Author = crashes PROVE Author' = crashes
    <2>1. pc' \notin {"crashed", "create", "create2", "create3"}
      BY <1>3, <1>4 DEF Next, CoreStep, Send, Tick, Drain, ObserveNow, BeatEvent, BeatCounters, BeatCount,
         Create, Stop, Restart, TakeSlice, TakeBar, Monitor, vars
    <2> QED
      BY <1>2, <1>4, <2>1 DEF Author
  <1>5. ASSUME ~Crash, Author = crashes
        PROVE  beatLog' = beatLog \/ beatLog' = Append(beatLog, published)
    <2>1. ~Create
      BY <1>3, <1>5 DEF Create
    <2> QED
      BY <2>1, BeaconSteps DEF BeatEvent, StoreEventTime, BeatCounters, StoreCounters, BeatCount, StoreCount,
         Monitor, ReadUnstamped, LoadHead, LoadTail, beaconVars
  <1>6. /\ Len(Append(beatLog, published)) = Len(beatLog) + 1
        /\ \A i \in 1..Len(beatLog) : Append(beatLog, published)[i] = beatLog[i]
    BY <1>0, Appended
  <1>7. Len(beatLog') \in Nat
    <2>1. BeaconOK'
      BY BeaconNext DEF Typed, TypesOK
    <2> QED
      BY <2>1, LenProperties DEF BeaconOK
  <1>8. ASSUME ~Crash, Author = crashes
        PROVE  /\ Len(beatLog) <= Len(beatLog')
               /\ \A i \in 1..Len(beatLog) : i \in 1..Len(beatLog') /\ beatLog'[i] = beatLog[i]
    <2>1. CASE beatLog' = beatLog
      BY <2>1, <1>0
    <2>2. CASE beatLog' = Append(beatLog, published)
      <3>1. Len(beatLog') = Len(beatLog) + 1 /\ \A i \in 1..Len(beatLog) : beatLog'[i] = beatLog[i]
        BY <2>2, <1>6
      <3> QED
        BY <3>1, <1>0
    <2> QED
      BY <2>1, <2>2, <1>5, <1>8
  <1> QED
    BY <1>0, <1>1, <1>2, <1>4, <1>7, <1>8

(* A snapshot that is kept keeps what it says. *)
LEMMA SnapshotKept ==
    ASSUME Typed, [Next]_vars, NEW snapshot, SnapshotOK(snapshot)
    PROVE  snapshot # Nothing =>
                /\ snapshot.session \in -1..crashes'
                /\ snapshot.session = crashes' =>
                        /\ ~Crash /\ snapshot.session = crashes /\ Author = crashes
                        /\ Author' = crashes'
                        /\ snapshot.beats \in 0..Len(beatLog) /\ snapshot.beats \in 0..Len(beatLog')
  <1> SUFFICES ASSUME snapshot # Nothing
               PROVE  /\ snapshot.session \in -1..crashes'
                      /\ snapshot.session = crashes' =>
                        /\ ~Crash /\ snapshot.session = crashes /\ Author = crashes
                        /\ Author' = crashes'
                        /\ snapshot.beats \in 0..Len(beatLog) /\ snapshot.beats \in 0..Len(beatLog')
    OBVIOUS
  <1>1. snapshot.session \in -1..crashes
    BY DEF SnapshotOK
  <1>2. CASE Crash
    BY <1>1, <1>2, AuthorStays
  <1>3. CASE ~Crash
    BY <1>1, <1>3, AuthorStays DEF SnapshotOK
  <1> QED
    BY <1>2, <1>3

(* The payload of a snapshot, beside its count. *)
PayloadOK ==
    (previous # Nothing /\ previous.session = crashes /\ previous.beats > 0) =>
        previous.counted >= beatLog[previous.beats]

LEMMA SnapshotsNext ==
    ASSUME Typed, BeatsGrow, SnapshotsAreOfTheLog, PayloadOK, [Next]_vars
    PROVE  SnapshotsAreOfTheLog' /\ PayloadOK'
  <1>0. /\ SnapshotOK(reading) /\ SnapshotOK(previous)
        /\ crashes \in Nat /\ file.beats \in Nat /\ file.counted \in Nat /\ Len(beatLog) \in Nat
        /\ \A i \in 1..Len(beatLog) : beatLog[i] \in Nat
    <2>1. SnapshotOK(reading) /\ SnapshotOK(previous)
      BY SnapshotsMean
    <2>2. crashes \in Nat
      BY Constants DEF Typed, TypesOK, FlowOK
    <2>3. file.beats \in Nat /\ file.counted \in Nat /\ beatLog \in Seq(Nat)
      BY DEF Typed, TypesOK, BeaconOK
    <2>4. Len(beatLog) \in Nat
      BY <2>3, LenProperties
    <2>5. \A i \in 1..Len(beatLog) : beatLog[i] \in Nat
      BY <2>3, ElementOfSeq
    <2> QED
      BY <2>1, <2>2, <2>3, <2>4, <2>5
  <1>a. (SnapshotOK(reading) /\ SnapshotOK(previous))' => SnapshotsAreOfTheLog'
    BY SnapshotsMean, PTL
  <1>1. CASE Monitor /\ LoadHead(Author)
    <2>1. /\ reading' = [beats |-> file.beats, pid |-> file.pid, lastEvent |-> file.lastEvent,
                         session |-> Author]
          /\ UNCHANGED <<crashes, pc, beatLog, previous>>
      BY <1>1 DEF Monitor, LoadHead
    <2>2. reading'.session = Author /\ reading'.beats = file.beats /\ Author' = Author
      BY <2>1 DEF Author
    <2>3. Author \in -1..crashes
      BY <1>0 DEF Author
    <2>4. file.beats \in 0..Len(beatLog)
      BY <1>0 DEF BeatsGrow
    <2>5. SnapshotOK(reading)'
      BY <2>1, <2>2, <2>3, <2>4 DEF SnapshotOK
    <2>6. SnapshotOK(previous)' /\ PayloadOK'
      BY <1>0, <2>1, <2>2 DEF SnapshotOK, PayloadOK
    <2> QED
      BY <2>5, <2>6, <1>a
  <1>2. CASE Monitor /\ LoadTail(Author)
    <2> DEFINE now == [beats |-> reading.beats, pid |-> reading.pid, lastEvent |-> reading.lastEvent,
                   published |-> file.published, stopped |-> file.stopped, counted |-> file.counted,
                   session |-> IF reading.session = Author THEN Author ELSE -1]
    <2>1. previous' = now /\ reading' = Nothing /\ reading # Nothing /\ UNCHANGED <<crashes, pc, beatLog>>
      BY <1>2 DEF Monitor, LoadTail
    <2>2. /\ now.session = (IF reading.session = Author THEN Author ELSE -1)
          /\ now.beats = reading.beats /\ now.counted = file.counted
      OBVIOUS
    <2> HIDE DEF now
    <2>3. Author' = Author /\ Author \in -1..crashes
      BY <1>0, <2>1 DEF Author
    <2>4. now.session \in -1..crashes
      BY <2>2, <2>3, <1>0
    <2>5. ASSUME now.session = crashes
          PROVE  /\ Author = crashes /\ now.beats \in 0..Len(beatLog)
                 /\ now.beats > 0 => now.counted >= beatLog[now.beats]
      <3>1. Author = crashes /\ reading.session = crashes
        BY <2>2, <2>5, <1>0
      <3>2. reading.beats \in 0..Len(beatLog)
        BY <3>1, <2>1, <1>0 DEF SnapshotOK
      <3>3. pc \notin {"crashed", "create", "create2"}
        BY <3>1, <1>0 DEF Author
      <3>4. \A i \in 1..Len(beatLog) : beatLog[i] <= file.counted
        BY <3>3 DEF BeatsGrow
      <3>5. ASSUME reading.beats > 0 PROVE file.counted >= beatLog[reading.beats]
        <4>1. reading.beats \in 1..Len(beatLog)
          BY <3>2, <3>5, <1>0
        <4>2. beatLog[reading.beats] <= file.counted /\ beatLog[reading.beats] \in Nat
          BY <4>1, <3>4, <1>0
        <4> QED
          BY <4>2, <1>0
      <3> QED
        BY <3>1, <3>2, <3>5, <2>2
    <2>6. SnapshotOK(previous)'
      BY <2>1, <2>3, <2>4, <2>5 DEF SnapshotOK
    <2>7. SnapshotOK(reading)'
      BY <2>1 DEF SnapshotOK
    <2>8. PayloadOK'
      BY <2>1, <2>5 DEF PayloadOK
    <2> QED
      BY <2>6, <2>7, <2>8, <1>a
  <1>3. CASE Monitor /\ ReadUnstamped
    <2>1. previous' = Nothing /\ UNCHANGED <<reading, crashes, pc, beatLog>>
      BY <1>3 DEF Monitor, ReadUnstamped
    <2>2. SnapshotOK(reading)' /\ SnapshotOK(previous)' /\ PayloadOK'
      BY <2>1, <1>0 DEF SnapshotOK, PayloadOK, Author
    <2> QED
      BY <2>2, <1>a
  <1>4. CASE UNCHANGED readerVars
    <2>1. reading' = reading /\ previous' = previous
      BY <1>4 DEF readerVars
    <2>2. SnapshotOK(reading)'
      BY <2>1, <1>0, SnapshotKept DEF SnapshotOK
    <2>3. SnapshotOK(previous)'
      BY <2>1, <1>0, SnapshotKept DEF SnapshotOK
    <2>4. PayloadOK'
      <3> SUFFICES ASSUME previous # Nothing, previous.session = crashes', previous.beats > 0
                   PROVE  previous.counted >= beatLog'[previous.beats]
        BY <2>1 DEF PayloadOK
      <3>1. ~Crash /\ previous.session = crashes /\ Author = crashes /\ previous.beats \in 0..Len(beatLog)
        BY <1>0, SnapshotKept
      <3>2. previous.beats \in 1..Len(beatLog)
        BY <3>1, <1>0
      <3>3. beatLog'[previous.beats] = beatLog[previous.beats]
        BY <3>1, <3>2, AuthorStays
      <3> QED
        BY <3>1, <3>3 DEF PayloadOK
    <2> QED
      BY <2>2, <2>3, <2>4, <1>a
  <1>5. Monitor \/ UNCHANGED readerVars
    <2>1. BeatEvent \/ BeatCounters \/ BeatCount \/ Create => UNCHANGED readerVars
      BY DEF BeatEvent, StoreEventTime, BeatCounters, StoreCounters, BeatCount, StoreCount, StoreBeats,
         Create, ClearCount, ClearPayload, StampHeader
    <2> QED
      BY <2>1, BeaconSteps DEF beaconVars, readerVars
  <1> QED
    BY <1>1, <1>2, <1>3, <1>4, <1>5 DEF Monitor

BeaconInductive ==
    /\ Typed /\ UnwatchedIsBlank /\ BeatsGrow /\ SnapshotsAreOfTheLog /\ PayloadOK

(* A snapshot of the beacon never shows counters older than the beat count it
   shows beside them, wherever the reader's copy falls among the stores of the
   beats, and whoever writes the file after a death. *)
THEOREM SnapshotsAreNotStale == Spec => []BeaconInv
  <1>1. Init => BeaconInductive
    <2> SUFFICES ASSUME Init PROVE BeaconInductive
      OBVIOUS
    <2>1. /\ file = BlankFile /\ beatLog = <<>> /\ Len(<<>>) = 0
          /\ reading = Nothing /\ previous = Nothing /\ published = 0
          /\ pc \in {"create", "pass"} /\ (pc = "create" => session.monitored)
      BY EmptySeq DEF Init, CoreInit, BeaconInit
    <2>2. UnwatchedIsBlank /\ BeatsGrow
      BY <2>1 DEF UnwatchedIsBlank, BeatsGrow, BlankFile
    <2>3. SnapshotsAreOfTheLog /\ PayloadOK
      BY <2>1 DEF SnapshotsAreOfTheLog, PayloadOK
    <2> QED
      BY <2>2, <2>3, TypedInit DEF BeaconInductive
  <1>2. BeaconInductive /\ [Next]_vars => BeaconInductive'
    BY TypedNext, UnwatchedNext, BeatsNext, SnapshotsNext DEF BeaconInductive
  <1>3. BeaconInductive => BeaconInv
    BY DEF BeaconInductive, BeaconInv, PayloadOK, PayloadIsNeverOlderThanItsCount
  <1> QED
    BY <1>1, <1>2, <1>3, PTL DEF Spec
=============================================================================
