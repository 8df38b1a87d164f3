----------------------------- MODULE Recording ------------------------------
(***************************************************************************)
(* The recording of a session and what a replay makes of it:               *)
(*   axon-runtime/src/capture.rs  the taps, the writer thread, the names   *)
(*   axon-runtime/src/core.rs     the core loop that hands records over    *)
(*   axon-runtime/src/session.rs  when a recording is begun and finished   *)
(* Three threads: the core, which must never wait for the disk; the        *)
(* writer; and the session's own, which begins and ends the recording.     *)
(* Earlier sessions recorded to the same path.                             *)
(***************************************************************************)
EXTENDS TapeReplay, SequencesExt

CONSTANTS
    Feed,               \* the events there may be, none before the first interval
    SignalLogs,         \* the values capture.signals may have
    Capacity,           \* of the hand-off queue
    MaxBytes,           \* the size cap in records, 0 for none
    MaxEvents,          \* bound: of a session
    MaxSignals,         \* bound: of a session
    MaxFaults           \* bound: failures of the file system, and kills

ASSUME RecordingAssumption ==
    /\ Feed \subseteq [ts : Nat, kind : {"trade", "ticker", "bar", "fill"}]
    /\ \A e \in Feed : e.ts >= Interval /\ e.ts >= Window
    /\ SignalLogs \subseteq BOOLEAN
    /\ Capacity \in Nat \ {0}
    /\ {MaxBytes, MaxEvents, MaxSignals, MaxFaults} \subseteq Nat

Files == {"events", "signals"}
Logs == {"none", "earlier", "ours"}

VARIABLES
    bus,        \* events published and not handled yet
    published,  \* history: how many
    ring,       \* how many signals wait to be read
    pushed,     \* history: how many were written
    core,       \* "drain", "read", "check" or "exited"
    clock,      \* the handler's last_ts
    lastPass,   \* when the intent source last ran, or None
    budget,     \* what its drain may still read
    release,    \* RecordingSource's high-water mark, or None
    handed,     \* history: what the core handed over, in order
    reads,      \* history: after how many events, and when, a signal was read
    queue,      \* the hand-off
    stopped,    \* why the recording ended early, or "no"
    missed,     \* the counter
    writer,     \* "none", "idle", "holds", "flush", "events", "signals", "ended"
    inHand,     \* the record the writer took off the queue
    finished,   \* it was told that the session reached its end
    closeError, \* its close went wrong
    written,    \* the records in the two files, in the order of writing
    final,      \* whose log has each file's real name: "ours", an "earlier"
                \* session's, or "none"
    wantsSignals,   \* capture.signals
    main,       \* "start", "clean events", "clean signals", "run", "stop",
                \* "join", "over"
    outcome,    \* what finish reports: "none", "final" or "partial"
    faults      \* how much has failed so far

feedVars == <<bus, published, ring, pushed>>
coreVars == <<core, clock, lastPass, budget, release, handed, reads>>
handVars == <<queue, stopped, missed>>
writerVars == <<writer, inHand, finished, closeError, written>>
mainVars == <<wantsSignals, main, outcome>>
vars == <<feedVars, coreVars, handVars, writerVars, final, mainVars, faults>>

Nothing == [kind |-> "nothing"]
Finish == [kind |-> "finish"]
Close == [kind |-> "close"]

Recorded == IF wantsSignals THEN Files ELSE {"events"}
OfKind(recs, kinds) ==
    LET chosen[n \in 0 .. Len(recs)] ==
            IF n = 0 THEN <<>>
            ELSE IF recs[n].kind \in kinds THEN Append(chosen[n-1], recs[n]) ELSE chosen[n-1]
    IN  chosen[Len(recs)]
SignalsIn(recs) == OfKind(recs, {"signal"})
EventsIn(recs) == OfKind(recs, {"trade", "ticker", "bar", "fill"})

\* What earlier sessions left under the two names is any of the four: both
\* logs, none, or one alone (recorded without signals, or killed between the
\* two renames; or the first of them failed).
Init ==
    /\ bus = <<>> /\ published = 0 /\ ring = 0 /\ pushed = 0
    /\ core = "exited" /\ clock = 0 /\ lastPass = None /\ budget = 0
    /\ release = None /\ handed = <<>> /\ reads = <<>>
    /\ queue = <<>> /\ stopped = "no" /\ missed = 0
    /\ writer = "none" /\ inHand = Nothing /\ finished = FALSE
    /\ closeError = FALSE /\ written = <<>>
    /\ final \in [Files -> {"none", "earlier"}]
    /\ wantsSignals \in SignalLogs
    /\ main = "start" /\ outcome = "none"
    /\ faults = 0

Fault == faults < MaxFaults /\ faults' = faults + 1

-----------------------------------------------------------------------------
(* The taps: what the core hands over, without ever waiting.               *)

HandOver(rec) ==
    /\ handed' = Append(handed, rec)
    /\ IF stopped # "no"
       THEN missed' = missed + 1 /\ UNCHANGED <<queue, stopped>>
       ELSE IF writer = "ended"
       THEN missed' = missed + 1 /\ stopped' = "WriteFailed" /\ UNCHANGED queue
       ELSE IF Len(queue) >= Capacity
       THEN missed' = missed + 1 /\ stopped' = "QueueFull" /\ UNCHANGED queue
       ELSE queue' = Append(queue, rec) /\ UNCHANGED <<stopped, missed>>

-----------------------------------------------------------------------------
(* The core loop: what is on the bus, then one pass, then the way out.     *)

Publish ==
    /\ main \in {"run", "stop"}
    /\ core # "exited"
    /\ published < MaxEvents
    /\ \E e \in Feed : bus' = Append(bus, e)
    /\ published' = published + 1
    /\ UNCHANGED <<ring, pushed, coreVars, handVars, writerVars, final, mainVars, faults>>

PushSignal ==
    /\ main \in {"run", "stop"}
    /\ core # "exited"
    /\ pushed < MaxSignals
    /\ ring' = ring + 1
    /\ pushed' = pushed + 1
    /\ UNCHANGED <<bus, published, coreVars, handVars, writerVars, final, mainVars, faults>>

Handle ==
    /\ core = "drain"
    /\ bus # <<>>
    /\ clock' = ClockAfter(clock, Head(bus))
    /\ HandOver(Head(bus))
    /\ bus' = Tail(bus)
    /\ UNCHANGED <<published, ring, pushed, core, lastPass, budget, release, reads>>

\* The drain found the bus empty: one pass, if the gate lets it.
Pass ==
    /\ core = "drain"
    /\ bus = <<>>
    /\ IF Gate(lastPass, clock)
       THEN /\ lastPass' = clock
            /\ release' = GreaterOf(release, clock)
            /\ budget' = MaxPerDrain
            /\ core' = "read"
       ELSE core' = "check" /\ UNCHANGED <<lastPass, release, budget>>
    /\ UNCHANGED <<feedVars, clock, handed, reads, handVars>>

EventsHanded == Len(EventsIn(handed))

ReadSignal ==
    /\ core = "read"
    /\ IF ring > 0 /\ budget > 0
       THEN /\ ring' = ring - 1
            /\ budget' = budget - 1
            /\ reads' = Append(reads, [at |-> EventsHanded, now |-> clock])
            /\ HandOver([kind |-> "signal", release |-> release])
            /\ UNCHANGED core
       ELSE /\ core' = "check"
            /\ UNCHANGED <<ring, budget, reads, handed, handVars>>
    /\ UNCHANGED <<bus, published, pushed, clock, lastPass, release>>

\* The loop ends with the stop flag set and the bus empty, not before.
CheckStop ==
    /\ core = "check"
    /\ core' = IF main # "run" /\ bus = <<>> THEN "exited" ELSE "drain"
    /\ UNCHANGED <<feedVars, clock, lastPass, budget, release, handed, reads, handVars>>

CoreStep ==
    /\ \/ Handle
       \/ Pass
       \/ ReadSignal
       \/ CheckStop
    /\ UNCHANGED <<writerVars, final, mainVars, faults>>

-----------------------------------------------------------------------------
(* The writer thread.                                                      *)

\* Mutant: a recording that has stopped skips everything still in the queue,
\* the message that ends it included.
TakeSwallowing ==
    /\ writer = "idle"
    /\ queue # <<>>
    /\ queue' = Tail(queue)
    /\ IF stopped # "no"
       THEN /\ missed' = missed + 1
            /\ UNCHANGED <<writer, inHand, finished>>
       ELSE /\ UNCHANGED missed
            /\ IF Head(queue) \in {Finish, Close}
               THEN /\ writer' = "flush"
                    /\ finished' = (Head(queue) = Finish)
                    /\ UNCHANGED inHand
               ELSE /\ writer' = "holds"
                    /\ inHand' = Head(queue)
                    /\ UNCHANGED finished
    /\ UNCHANGED <<stopped, closeError, written, final, faults>>

Take ==
    /\ writer = "idle"
    /\ queue # <<>>
    /\ queue' = Tail(queue)
    /\ IF Head(queue) \in {Finish, Close}
       THEN /\ writer' = "flush"
            /\ finished' = (Head(queue) = Finish)
            /\ UNCHANGED inHand
       ELSE /\ writer' = "holds"
            /\ inHand' = Head(queue)
            /\ UNCHANGED finished
    /\ UNCHANGED <<stopped, missed, closeError, written, final, faults>>

\* A signal that nobody wants recorded is counted as written and takes no room.
Stored(recs) == IF wantsSignals THEN recs ELSE EventsIn(recs)

AtTheCap == MaxBytes # 0 /\ Len(Stored(written)) >= MaxBytes

Latch(reason) == stopped' = IF stopped = "no" THEN reason ELSE stopped

Write ==
    /\ writer = "holds"
    /\ writer' = "idle"
    /\ inHand' = Nothing
    /\ \/ /\ stopped # "no"
          /\ missed' = missed + 1
          /\ UNCHANGED <<stopped, written, faults>>
       \/ /\ stopped = "no"
          /\ AtTheCap
          /\ Latch("SizeCap")
          /\ missed' = missed + 1
          /\ UNCHANGED <<written, faults>>
       \/ /\ stopped = "no"
          /\ ~AtTheCap
          /\ written' = Append(written, inHand)
          /\ UNCHANGED <<stopped, missed, faults>>
       \/ /\ stopped = "no"
          /\ ~AtTheCap
          /\ Fault
          /\ Latch("WriteFailed")
          /\ missed' = missed + 1
          /\ UNCHANGED written
    /\ UNCHANGED <<queue, finished, closeError, final>>

\* Mutant: a close that finds no stop latched takes the log for whole.
FlushTrusting ==
    /\ writer = "flush"
    /\ \/ /\ writer' = IF stopped = "no" THEN "events" ELSE "ended"
          /\ UNCHANGED <<closeError, faults>>
       \/ /\ Fault
          /\ writer' = "ended"
          /\ closeError' = TRUE
    /\ UNCHANGED <<handVars, inHand, finished, written, final>>

\* Both halves of the claim are required, and a flush that fails withdraws it.
Flush ==
    /\ writer = "flush"
    /\ \/ /\ writer' = IF finished /\ stopped = "no" THEN "events" ELSE "ended"
          /\ UNCHANGED <<closeError, faults>>
       \/ /\ Fault
          /\ writer' = "ended"
          /\ closeError' = TRUE
    /\ UNCHANGED <<handVars, inHand, finished, written, final>>

\* The two names are taken one after the other, and the second is tried even
\* when the first could not be had.
Rename(file, next) ==
    /\ writer = file
    /\ writer' = next
    /\ \/ /\ final' = [final EXCEPT ![file] = "ours"]
          /\ UNCHANGED <<closeError, faults>>
       \/ /\ Fault
          /\ closeError' = TRUE
          /\ UNCHANGED final
    /\ UNCHANGED <<handVars, inHand, finished, written>>

WriterStep ==
    /\ \/ Take
       \/ Write
       \/ Flush
       \/ Rename("events", IF wantsSignals THEN "signals" ELSE "ended")
       \/ Rename("signals", "ended")
    /\ UNCHANGED <<feedVars, coreVars, mainVars>>

-----------------------------------------------------------------------------
(* The session's own thread.                                               *)

\* Both partial files are created before anything is removed; a failure here
\* is fatal to the session.
Start ==
    /\ main = "start"
    /\ \/ main' = "clean events" /\ UNCHANGED faults
       \/ Fault /\ main' = "over"
    /\ UNCHANGED <<feedVars, coreVars, handVars, writerVars, final, wantsSignals, outcome>>

RemoveStale(file, here, next) ==
    /\ main = here
    /\ \/ /\ final' = [final EXCEPT ![file] = "none"]
          /\ main' = next
          /\ UNCHANGED faults
       \/ /\ Fault
          /\ final[file] # "none"
          /\ main' = "over"
          /\ UNCHANGED final
    /\ IF main' = "run"
       THEN writer' = "idle" /\ core' = "drain"
       ELSE UNCHANGED <<writer, core>>
    /\ UNCHANGED <<feedVars, clock, lastPass, budget, release, handed, reads, handVars>>
    /\ UNCHANGED <<inHand, finished, closeError, written, wantsSignals, outcome>>

RemoveStaleEvents ==
    RemoveStale("events", "clean events", IF wantsSignals THEN "clean signals" ELSE "run")
RemoveStaleSignals == RemoveStale("signals", "clean signals", "run")

RequestStop ==
    /\ main = "run"
    /\ main' = "stop"
    /\ UNCHANGED <<feedVars, coreVars, handVars, writerVars, final, wantsSignals,
                   outcome, faults>>

\* A blocking send; behind a writer that is gone it returns at once.
Send(msg) ==
    /\ \/ Len(queue) < Capacity /\ queue' = Append(queue, msg)
       \/ writer = "ended" /\ UNCHANGED queue
    /\ main' = "join"
    /\ UNCHANGED <<stopped, missed>>

FinishRecording ==
    /\ main = "stop"
    /\ core = "exited"
    /\ Send(Finish)
    /\ UNCHANGED <<feedVars, coreVars, writerVars, final, wantsSignals, outcome, faults>>

\* The recorder is dropped: an error or a panic unwinds the session, with the
\* core loop still going.
Abandon ==
    /\ main \in {"run", "stop"}
    /\ Fault
    /\ Send(Close)
    /\ UNCHANGED <<feedVars, coreVars, writerVars, final, wantsSignals, outcome>>

Join ==
    /\ main = "join"
    /\ writer = "ended"
    /\ main' = "over"
    /\ IF finished
       THEN /\ stopped' = IF closeError /\ stopped = "no" THEN "WriteFailed" ELSE stopped
            /\ outcome' = IF stopped' = "no" THEN "final" ELSE "partial"
       ELSE UNCHANGED <<stopped, outcome>>
    /\ core' = "exited"
    /\ UNCHANGED <<feedVars, clock, lastPass, budget, release, handed, reads, queue, missed,
                   writerVars, final, wantsSignals, faults>>

\* The process is killed, and its memory is gone: what is on the disk stays.
Kill ==
    /\ main # "over"
    /\ Fault
    /\ main' = "over"
    /\ core' = "exited"
    /\ writer' = "ended"
    /\ bus' = <<>> /\ queue' = <<>> /\ inHand' = Nothing
    /\ clock' = 0 /\ lastPass' = None /\ release' = None /\ budget' = 0
    /\ stopped' = "no" /\ missed' = 0
    /\ UNCHANGED <<published, ring, pushed, handed, reads, finished, closeError, written, final,
                   wantsSignals, outcome>>

MainStep ==
    \/ Start
    \/ RemoveStaleEvents
    \/ RemoveStaleSignals
    \/ FinishRecording
    \/ Join

Next ==
    \/ Publish
    \/ PushSignal
    \/ CoreStep
    \/ WriterStep
    \/ MainStep
    \/ RequestStop
    \/ Abandon
    \/ Kill

\* The threads are scheduled; that a session ends is nobody's duty.
Spec == Init /\ [][Next]_vars
             /\ WF_vars(CoreStep) /\ WF_vars(WriterStep) /\ WF_vars(MainStep)
-----------------------------------------------------------------------------
Stamps == {e.ts : e \in Feed} \cup {0}
Records == Feed \cup [kind : {"signal"}, release : Stamps \cup {None}]

TypeOK ==
    /\ published \in 0..MaxEvents /\ pushed \in 0..MaxSignals /\ ring \in 0..pushed
    /\ bus \in Seq(Feed) /\ Len(bus) <= published
    /\ handed \in Seq(Records) /\ written \in Seq(Records)
    /\ queue \in Seq(Records \cup {Finish, Close})
    /\ inHand \in Records \cup {Nothing}
    /\ {finished, closeError} \subseteq BOOLEAN
    /\ core \in {"drain", "read", "check", "exited"}
    /\ clock \in Stamps
    /\ lastPass \in Stamps \cup {None}
    /\ release = lastPass /\ lastPass <= clock
    /\ budget \in 0..MaxPerDrain
    /\ Len(handed) + Len(bus) + ring <= published + pushed
    /\ Len(reads) + ring <= pushed
    /\ Len(queue) <= Capacity
    /\ stopped \in {"no", "QueueFull", "WriteFailed", "SizeCap"}
    /\ missed \in 0 .. Len(handed)
    /\ writer \in {"none", "idle", "holds", "flush", "events", "signals", "ended"}
    /\ (writer = "holds") => (inHand # Nothing)
    /\ final \in [Files -> Logs]
    /\ wantsSignals \in SignalLogs
    /\ main \in {"start", "clean events", "clean signals", "run", "stop", "join", "over"}
    /\ outcome \in {"none", "final", "partial"}
    /\ faults \in 0..MaxFaults

\* A record is written, missed, in the writer's hand or in the queue; before the
\* recording stopped none is missed.
Ends == {i \in DOMAIN queue : queue[i] \in {Finish, Close}}
InHand == IF writer = "holds" THEN 1 ELSE 0
Known == Len(written) + missed + InHand + Len(queue) - (IF Ends = {} THEN 0 ELSE 1)

EveryRecordIsSomewhere ==
    /\ Known <= Len(handed)
    /\ main # "over" => Known = Len(handed)
    /\ stopped = "no" => missed = 0

\* And until then what the writer holds and what waits for it is what the core
\* handed over next, up to the message that ends the recording.
TheQueueIsTheRest ==
    (stopped = "no" /\ writer \in {"idle", "holds"}) =>
        /\ writer = "holds" => inHand = handed[Len(written) + 1]
        /\ \A i \in DOMAIN queue :
                (\A j \in 1..i : j \notin Ends) => queue[i] = handed[Len(written) + InHand + i]

\* The session's thread ends the recording once, with nothing behind a finish:
\* by then the core has exited with its bus empty.
TheEndIsSaidOnce ==
    /\ \A i, j \in Ends : i = j
    /\ Ends # {} => main = "join" /\ writer \in {"idle", "holds"}
    /\ \A i \in Ends : queue[i] = Finish => i = Len(queue) /\ core = "exited"
    /\ finished => writer \in {"flush", "events", "signals", "ended"} /\ queue = <<>>
    /\ finished => core = "exited" /\ bus = <<>>
    /\ (core = "exited" /\ main # "over") => bus = <<>>
    /\ core # "exited" => main \in {"run", "stop", "join"}

\* How far the session's thread and the writer are of each other.
TheThreadsKeepStep ==
    /\ main \in {"start", "clean events", "clean signals"} => writer = "none"
    /\ main \in {"run", "stop"} => writer \in {"idle", "holds"}
    /\ main = "join" => writer # "none"
    /\ main = "over" => writer \in {"none", "ended"}
    /\ writer = "none" => handed = <<>> /\ queue = <<>> /\ core = "exited"
    /\ outcome # "none" => main = "over"

\* Which of the names have been cleared and which taken.
TheNamesAreTaken ==
    /\ \A f \in Files : final[f] = "ours" => writer \in {"events", "signals", "ended"} /\ finished
    /\ main = "clean signals" => wantsSignals /\ final["events"] # "earlier"
    /\ writer \in {"events", "signals"} => finished /\ stopped = "no"
    /\ writer = "signals" => wantsSignals /\ (closeError \/ final["events"] = "ours")
    /\ (main = "join" /\ writer = "ended" /\ finished /\ stopped = "no" /\ ~closeError) =>
            \A f \in Recorded : final[f] = "ours"

\* What is on the disk is the beginning of the session, in both files at once:
\* whatever ended the recording, no record is written behind one that was lost
\* (capture.rs, "a prefix is a truthful recording, a gap is a lie").
ALogHasNoHole == IsPrefix(written, handed)

\* Nothing is lost unseen: what finish reports as written and as missed is
\* everything the core handed over, what was still queued included.
TheHoleIsCounted == outcome # "none" => Len(written) + missed = Len(handed)

\* A file under its real name is all of its session, from the first record to
\* the core's last, however the recording ended and whenever the process died.
ANamedLogIsWhole ==
    \A f \in Files : final[f] = "ours" =>
        written = handed /\ bus = <<>> /\ core = "exited"

\* No log of an earlier session waits under the name this one is writing for,
\* and a signal log beside this session's events is this session's.
NoEarlierLogInItsPlace ==
    /\ main \in {"run", "stop", "join"} => \A f \in Recorded : final[f] # "earlier"
    /\ (final["events"] = "ours" /\ wantsSignals) => final["signals"] # "earlier"

\* When finish says that the log has its name, every file has.
TheOutcomeFindsTheLogs ==
    outcome = "final" => \A f \in Recorded : final[f] = "ours"

-----------------------------------------------------------------------------
(* The replay of a session whose two logs are in place.                    *)

Replayable == main = "over" /\ outcome = "final" /\ wantsSignals

Tape == EventsIn(written)
Nows(rs) == [k \in DOMAIN rs |-> rs[k].now]

\* The harness judges every signal by the time the session judged it by, in
\* either traversal, and reads it no later along the tape it was captured on:
\* whichever way the events were batched on the bus, whatever came late.  Not
\* for a session that read signals before its first event.
ReplayedBy(order) ==
    LET replayed == Replay(Tape, SignalsIn(written), order)
    IN  /\ Nows(replayed) = Nows(reads)
        /\ order = "AsCaptured" => \A k \in DOMAIN reads : replayed[k].at <= reads[k].at

BeganWithTheMarket == \A k \in DOMAIN reads : reads[k].at > 0

AReplayKeepsTheTimes ==
    (Replayable /\ BeganWithTheMarket /\ \A k \in DOMAIN Tape : Advances(Tape[k])) =>
        ReplayedBy("AsCaptured") /\ ReplayedBy("EventTime")

\* The two traversals of a tape differ exactly when the watch counted a late
\* arrival, and what it blames on stamps or on the venue is part of that.
TheWatchTellsTheOrders ==
    main = "over" =>
        LET w == Watched(Tape)
        IN  /\ (w.late = 0) = (EventTimeOrder(Tape) = Tape)
            /\ w.behindDerived <= w.late /\ w.venueLate <= w.late
            /\ (\A k \in DOMAIN Tape : Tape[k].kind = "trade") => w.venueLate = w.late

\* A session that is told to stop, or dies in the middle, is done with its
\* recording in the end: nobody waits for a thread that waits for him.
ARecordingEnds == (main \in {"stop", "join"}) ~> (main = "over")

\* What the two files hold, under whichever name, is true; and what that rests
\* on, from the core's tap over the queue and the writer to the names.
LogsInv ==
    /\ TypeOK
    /\ ALogHasNoHole /\ TheHoleIsCounted
    /\ ANamedLogIsWhole /\ NoEarlierLogInItsPlace /\ TheOutcomeFindsTheLogs
    /\ EveryRecordIsSomewhere /\ TheQueueIsTheRest
    /\ TheEndIsSaidOnce /\ TheThreadsKeepStep /\ TheNamesAreTaken

\* A replay is the session again, and says in which order it could differ.
ReplayInv == AReplayKeepsTheTimes /\ TheWatchTellsTheOrders
=============================================================================
