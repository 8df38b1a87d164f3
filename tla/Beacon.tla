------------------------------- MODULE Beacon -------------------------------
(***************************************************************************)
(* The 64-byte sidecar that says a publisher of market data is alive when  *)
(* the ring cannot: crates/axon-ipc/src/beacon.rs writes it, the parity    *)
(* monitor of python/axon/parity reads it.  The writer's stores and the    *)
(* reader's loads are steps of their own: the fields of one snapshot may   *)
(* come from different beats.  Stores become visible in program order      *)
(* (x86-TSO), the beat count last with Release; it is loaded first.        *)
(*                                                                         *)
(* The counters are truncated to 32 bits and compared as differences.      *)
(***************************************************************************)
EXTENDS Integers, Sequences

CONSTANT CounterModulus     \* 2^32 in the code

ASSUME BeaconAssumption == CounterModulus \in Nat \ {0, 1}

VARIABLES
    file,       \* the fields in the mapped page; "counted" is no field of the
                \* code's: the counter before it is truncated
    reading,    \* the fields of the snapshot being taken, Nothing between two
    previous,   \* the last snapshot, or Nothing
    verdict,    \* what the monitor concluded from the last two
    beatLog     \* history: the payload each beat of the session counted

beaconVars == <<file, reading, previous, verdict, beatLog>>

Nothing == [beats |-> -1]

BlankFile == [stamped |-> FALSE, pid |-> 0, beats |-> 0, lastEvent |-> 0,
              published |-> 0, counted |-> 0, stopped |-> FALSE]

BeaconInit ==
    /\ file = BlankFile
    /\ reading = Nothing
    /\ previous = Nothing
    /\ verdict = "unknown"
    /\ beatLog = <<>>

readerVars == <<reading, previous, verdict>>

-----------------------------------------------------------------------------
(* The writer: create, and the stores of one beat.  "published" stands for *)
(* the five counters: slices and bars the rings accepted, and the others.  *)

StoreBeats(n) == file' = [file EXCEPT !.beats = n] /\ UNCHANGED readerVars

(* create: the file keeps its old bytes until each is stored over. *)
ClearCount == StoreBeats(0) /\ beatLog' = <<>>

ClearPayload ==
    /\ file' = [file EXCEPT !.lastEvent = 0, !.published = 0, !.counted = 0, !.stopped = FALSE]
    /\ UNCHANGED <<readerVars, beatLog>>

StampHeader(pid) ==
    /\ file' = [file EXCEPT !.pid = pid, !.stamped = TRUE]
    /\ UNCHANGED <<readerVars, beatLog>>

StoreEventTime(lastEvent) ==
    /\ file' = [file EXCEPT !.lastEvent = lastEvent]
    /\ UNCHANGED <<readerVars, beatLog>>

StoreCounters(published, stopped) ==
    /\ file' = [file EXCEPT !.published = published % CounterModulus,
                             !.counted = published, !.stopped = stopped]
    /\ UNCHANGED <<readerVars, beatLog>>

(* The store that publishes the beat. *)
StoreCount(published) ==
    /\ StoreBeats(file.beats + 1)
    /\ beatLog' = Append(beatLog, published)

-----------------------------------------------------------------------------
(* The reader.                                                             *)

Delta32(before, now) == (now - before) % CounterModulus

(* Mutant: the event clock is asked first. *)
EventClockFirst(before, now) ==
    IF now.pid # before.pid \/ now.beats < before.beats THEN "restarted"
    ELSE IF now.lastEvent <= before.lastEvent THEN "starved"
    ELSE IF now.beats = before.beats THEN IF now.stopped THEN "stopped" ELSE "dead"
    ELSE IF Delta32(before.published, now.published) # 0 THEN "publishing"
    ELSE "quiet"

(* publisher_state: the order of the questions is the design. *)
PublisherState(before, now) ==
    IF now.pid # before.pid \/ now.beats < before.beats THEN "restarted"
    ELSE IF now.beats = before.beats THEN IF now.stopped THEN "stopped" ELSE "dead"
    ELSE IF Delta32(before.published, now.published) # 0 THEN "publishing"
    ELSE IF now.lastEvent <= before.lastEvent THEN "starved"
    ELSE "quiet"

(* A file nobody has stamped is "not ready": the next reading is a first one. *)
ReadUnstamped ==
    /\ reading = Nothing /\ ~file.stamped
    /\ previous' = Nothing
    /\ verdict' = "unknown"
    /\ UNCHANGED <<file, reading, beatLog>>

(* The snapshot is one copy of the line, in two halves: the count and the event
   clock are in the first, the counters and flags in the second.  "session" is
   no field of the code's: which process the writer was. *)
LoadHead(session) ==
    /\ reading = Nothing /\ file.stamped
    /\ reading' = [beats |-> file.beats, pid |-> file.pid, lastEvent |-> file.lastEvent,
                   session |-> session]
    /\ UNCHANGED <<file, previous, verdict, beatLog>>

(* The rest of the snapshot, and the verdict on it: the first one has nothing
   to be compared with. *)
LoadTail(session) ==
    /\ reading # Nothing
    /\ LET now == [beats |-> reading.beats, pid |-> reading.pid, lastEvent |-> reading.lastEvent,
                   published |-> file.published, stopped |-> file.stopped, counted |-> file.counted,
                   session |-> IF reading.session = session THEN session ELSE -1]
       IN  /\ verdict' = IF previous = Nothing THEN "unknown" ELSE PublisherState(previous, now)
           /\ previous' = now
    /\ reading' = Nothing
    /\ UNCHANGED <<file, beatLog>>
=============================================================================
