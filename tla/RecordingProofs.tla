--------------------------- MODULE RecordingProofs ----------------------------
(***************************************************************************)
(* Proofs about Recording, for every feed, queue, size cap and number of   *)
(* events, signals and failures: what the two files hold, and under which  *)
(* name, is true (LogsInv); and a replay of them, along either order of    *)
(* the tape, is the session again (ReplayInv).                             *)
(***************************************************************************)
EXTENDS Recording, FiniteSetTheorems, WellFoundedInduction, SequenceTheorems, FunctionTheorems, TLAPS

-----------------------------------------------------------------------------
(* Numbers: every set of them has a least one.                             *)

LEMMA LeastNumber ==
    ASSUME NEW T \in SUBSET Nat, T # {}
    PROVE  \E m \in T : \A n \in T : m <= n
  <1> DEFINE R == {ss \in Nat \X Nat : ss[1] < ss[2]}
  <1>1. IsWellFoundedOn(R, Nat)
    BY NatLessThanWellFounded DEF OpToRel
  <1>2. PICK m \in T : \A n \in T : <<n, m>> \notin R
    <2> HIDE DEF R
    <2> QED
      BY <1>1, WFMin
  <1>3. ASSUME NEW n \in T
        PROVE  m <= n
    <2>1. <<n, m>> \in Nat \X Nat /\ <<n, m>>[1] = n /\ <<n, m>>[2] = m
      OBVIOUS
    <2>2. ~(n < m)
      BY <1>2, <2>1
    <2> QED
      BY <2>2
  <1> QED
    BY <1>3

Messages == Records \cup {Finish, Close}

(* What the constants are. *)
LEMMA Constants ==
    /\ Capacity \in Nat /\ Capacity > 0
    /\ MaxBytes \in Nat /\ MaxEvents \in Nat /\ MaxSignals \in Nat /\ MaxFaults \in Nat
    /\ MaxPerDrain \in Nat /\ Stamps \subseteq Nat /\ 0 \in Stamps
    /\ SignalLogs \subseteq BOOLEAN
  BY RecordingAssumption, TapeAssumption DEF Stamps

(* No record is a message of the session's thread, nor the empty hand. *)
LEMMA RecordsAreRecords ==
    ASSUME NEW r \in Records
    PROVE  r \notin {Finish, Close} /\ r # Nothing
  BY RecordingAssumption DEF Records, Finish, Close, Nothing

(* Appending to a sequence, and taking the first of one. *)
LEMMA Appended ==
    ASSUME NEW S, NEW q \in Seq(S), NEW x \in S
    PROVE  /\ Append(q, x) \in Seq(S) /\ Append(q, x) # <<>>
           /\ Len(Append(q, x)) = Len(q) + 1
           /\ \A i \in 1..Len(q) : Append(q, x)[i] = q[i]
           /\ Append(q, x)[Len(q) + 1] = x
  BY AppendProperties

LEMMA Shortened ==
    ASSUME NEW S, NEW q \in Seq(S), q # <<>>
    PROVE  /\ Tail(q) \in Seq(S) /\ Len(Tail(q)) = Len(q) - 1
           /\ Len(q) \in Nat /\ Len(q) >= 1
           /\ Head(q) \in S /\ Head(q) = q[1]
           /\ \A i \in 1..Len(Tail(q)) : Tail(q)[i] = q[i + 1]
  <1>1. Len(q) \in Nat /\ Len(q) # 0
    BY EmptySeq, LenProperties
  <1> QED
    BY <1>1, HeadTailProperties, ElementOfSeq

-----------------------------------------------------------------------------
(* Types, in the groups that steps leave alone together.                   *)

Listed(seq) == \E S : seq \in Seq(S)

CoreTypes ==
    /\ published \in 0..MaxEvents /\ pushed \in 0..MaxSignals /\ ring \in 0..pushed
    /\ bus \in Seq(Feed) /\ Len(bus) <= published
    /\ handed \in Seq(Records)
    /\ Len(handed) + Len(bus) + ring <= published + pushed
    /\ core \in {"drain", "read", "check", "exited"}
    /\ clock \in Stamps
    /\ lastPass \in Stamps \cup {None}
    /\ release = lastPass /\ lastPass <= clock
    /\ budget \in 0..MaxPerDrain
    /\ Listed(reads) /\ Len(reads) + ring <= pushed

WriterTypes ==
    /\ queue \in Seq(Messages) /\ Len(queue) <= Capacity
    /\ stopped \in {"no", "QueueFull", "WriteFailed", "SizeCap"}
    /\ missed \in Nat
    /\ writer \in {"none", "idle", "holds", "flush", "events", "signals", "ended"}
    /\ inHand \in Records \cup {Nothing}
    /\ writer = "holds" => inHand \in Records
    /\ finished \in BOOLEAN /\ closeError \in BOOLEAN
    /\ written \in Seq(Records)

MainTypes ==
    /\ final \in [Files -> Logs]
    /\ wantsSignals \in BOOLEAN /\ wantsSignals \in SignalLogs
    /\ main \in {"start", "clean events", "clean signals", "run", "stop", "join", "over"}
    /\ outcome \in {"none", "final", "partial"}
    /\ faults \in 0..MaxFaults

Types == CoreTypes /\ WriterTypes /\ MainTypes

(* A list that something is added to is one longer. *)
LEMMA ListedGrows ==
    ASSUME NEW seq, Listed(seq), NEW x
    PROVE  Listed(Append(seq, x)) /\ Len(seq) \in Nat /\ Len(Append(seq, x)) = Len(seq) + 1
  <1>1. PICK S : seq \in Seq(S)
    BY DEF Listed
  <1>2. seq \in Seq(S \cup {x})
    <2>1. \A i \in 1..Len(seq) : seq[i] \in S
      BY <1>1, ElementOfSeq
    <2>2. seq = [i \in 1..Len(seq) |-> seq[i]] /\ Len(seq) \in Nat
      BY <1>1, LenProperties
    <2> QED
      BY <2>1, <2>2, IsASeq
  <1>3. /\ Append(seq, x) \in Seq(S \cup {x}) /\ Len(Append(seq, x)) = Len(seq) + 1
    BY <1>2, AppendProperties
  <1> QED
    BY <1>1, <1>3, LenProperties DEF Listed

(* The lengths of a typed state. *)
LEMMA Lengths ==
    ASSUME Types
    PROVE  /\ Len(bus) \in Nat /\ Len(handed) \in Nat /\ Len(queue) \in Nat /\ Len(written) \in Nat
           /\ Len(reads) \in Nat /\ missed \in Nat
           /\ published \in Nat /\ pushed \in Nat /\ ring \in Nat
  BY Constants, LenProperties, ListedGrows DEF Types, CoreTypes, WriterTypes

(* A record that is handed over is queued, or missed. *)
Queues(rec) ==
    /\ stopped = "no" /\ writer # "ended" /\ Len(queue) < Capacity
    /\ queue' = Append(queue, rec) /\ stopped' = "no" /\ missed' = missed
Misses ==
    /\ queue' = queue /\ missed' = missed + 1 /\ stopped' # "no"
    /\ stopped' \in {"QueueFull", "WriteFailed", "SizeCap"}

LEMMA HandOverDoes ==
    ASSUME Types, NEW rec \in Records, HandOver(rec)
    PROVE  handed' = Append(handed, rec) /\ (Queues(rec) \/ Misses)
  <1>1. handed' = Append(handed, rec)
    BY DEF HandOver
  <1>2. CASE stopped # "no"
    BY <1>2 DEF HandOver, Misses, Types, WriterTypes
  <1>3. CASE stopped = "no" /\ writer = "ended"
    BY <1>3 DEF HandOver, Misses
  <1>4. CASE stopped = "no" /\ writer # "ended" /\ Len(queue) >= Capacity
    BY <1>4 DEF HandOver, Misses
  <1>5. CASE stopped = "no" /\ writer # "ended" /\ ~(Len(queue) >= Capacity)
    BY <1>5, Constants, Lengths DEF HandOver, Queues
  <1> QED
    BY <1>1, <1>2, <1>3, <1>4, <1>5

(* Where a step of the core leaves the core, and what it hands over. *)
LEMMA CoreStepDoes ==
    ASSUME Types, CoreStep
    PROVE  /\ CoreTypes'
           /\ UNCHANGED <<writerVars, final, mainVars, faults>>
           /\ core # "exited"
           /\ core' = "exited" => bus' = <<>>
           /\ \/ \E rec \in Records : HandOver(rec)
              \/ UNCHANGED <<handed, handVars>>
  <1>0. UNCHANGED <<writerVars, final, mainVars, faults>>
    BY DEF CoreStep
  <1>1. CASE Handle
    <2> DEFINE e == Head(bus)
    <2>1. /\ core = "drain" /\ clock' = ClockAfter(clock, e) /\ HandOver(e) /\ bus' = Tail(bus)
          /\ UNCHANGED <<published, ring, pushed, core, lastPass, budget, release, reads>>
      BY <1>1 DEF Handle
    <2>2. /\ e \in Feed /\ bus' \in Seq(Feed) /\ Len(bus') = Len(bus) - 1
      <3>1. bus \in Seq(Feed) /\ bus # <<>>
        BY <1>1 DEF Handle, Types, CoreTypes
      <3> QED
        BY <2>1, <3>1, Shortened
    <2> HIDE DEF e
    <2>3. e \in Records /\ e.ts \in Stamps
      BY <2>2 DEF Records, Stamps
    <2>4. handed' \in Seq(Records) /\ Len(handed') = Len(handed) + 1
      <3>1. handed' = Append(handed, e) /\ handed \in Seq(Records)
        BY <2>1, <2>3, HandOverDoes DEF Types, CoreTypes
      <3> QED
        BY <2>3, <3>1, Appended
    <2>5. clock' \in Stamps /\ clock <= clock'
      BY <2>1, <2>3, Constants DEF ClockAfter, GreaterOf, Types, CoreTypes
    <2>6. /\ lastPass' \in Stamps \cup {None} /\ release' = lastPass' /\ lastPass' <= clock'
      BY <2>1, <2>5, Constants DEF Types, CoreTypes, None
    <2>7. /\ published' \in 0..MaxEvents /\ pushed' \in 0..MaxSignals /\ ring' \in 0..pushed'
          /\ Len(bus') <= published'
          /\ Len(handed') + Len(bus') + ring' <= published' + pushed'
      BY <2>1, <2>2, <2>4, Lengths DEF Types, CoreTypes
    <2>8. CoreTypes'
      BY <2>1, <2>2, <2>4, <2>5, <2>6, <2>7 DEF Types, CoreTypes
    <2> QED
      BY <1>0, <2>1, <2>3, <2>8
  <1>2. CASE Pass
    <2>1. /\ core = "drain" /\ core' \in {"read", "check"}
          /\ UNCHANGED <<bus, published, ring, pushed, clock, handed, reads, handVars>>
          /\ \/ lastPass' = clock /\ release' = GreaterOf(release, clock) /\ budget' = MaxPerDrain
             \/ UNCHANGED <<lastPass, release, budget>>
      BY <1>2 DEF Pass, feedVars
    <2>2. lastPass' \in Stamps \cup {None} /\ release' = lastPass' /\ lastPass' <= clock
          /\ budget' \in 0..MaxPerDrain
      <3>1. /\ clock \in Nat /\ clock \in Stamps /\ lastPass \in Int /\ release = lastPass
            /\ lastPass <= clock
        BY Constants DEF Types, CoreTypes, None
      <3>2. GreaterOf(release, clock) = clock
        BY <3>1 DEF GreaterOf
      <3> QED
        BY <2>1, <3>1, <3>2, Constants DEF Types, CoreTypes
    <2>3. CoreTypes'
      BY <2>1, <2>2 DEF Types, CoreTypes
    <2> QED
      BY <1>0, <2>1, <2>3
  <1>3. CASE ReadSignal
    <2>1. /\ core = "read"
          /\ UNCHANGED <<bus, published, pushed, clock, lastPass, release>>
      BY <1>3 DEF ReadSignal
    <2>2. CASE ring > 0 /\ budget > 0
      <3> DEFINE rec == [kind |-> "signal", release |-> release]
      <3>1. /\ ring' = ring - 1 /\ budget' = budget - 1 /\ core' = core /\ HandOver(rec)
            /\ reads' = Append(reads, [at |-> EventsHanded, now |-> clock])
        BY <1>3, <2>2 DEF ReadSignal
      <3>2. rec \in Records
        BY DEF Records, Types, CoreTypes
      <3> HIDE DEF rec
      <3>3. handed' \in Seq(Records) /\ Len(handed') = Len(handed) + 1
        <4>1. handed' = Append(handed, rec) /\ handed \in Seq(Records)
          BY <3>1, <3>2, HandOverDoes DEF Types, CoreTypes
        <4> QED
          BY <3>2, <4>1, Appended
      <3>4. Listed(reads)' /\ Len(reads') = Len(reads) + 1
        BY <3>1, ListedGrows DEF Types, CoreTypes
      <3>5. /\ ring' \in 0..pushed' /\ budget' \in 0..MaxPerDrain
            /\ Len(handed') + Len(bus') + ring' <= published' + pushed'
            /\ Len(reads') + ring' <= pushed'
        BY <2>1, <2>2, <3>1, <3>3, <3>4, Lengths, Constants DEF Types, CoreTypes
      <3>6. CoreTypes'
        BY <2>1, <3>1, <3>3, <3>4, <3>5 DEF Types, CoreTypes
      <3> QED
        BY <1>0, <2>1, <3>1, <3>2, <3>6
    <2>3. CASE ~(ring > 0 /\ budget > 0)
      <3>1. core' = "check" /\ UNCHANGED <<ring, budget, reads, handed, handVars>>
        BY <1>3, <2>3 DEF ReadSignal
      <3>2. CoreTypes'
        BY <2>1, <3>1 DEF Types, CoreTypes
      <3> QED
        BY <1>0, <2>1, <3>1, <3>2
    <2> QED
      BY <2>2, <2>3
  <1>4. CASE CheckStop
    <2>1. /\ core = "check" /\ core' \in {"exited", "drain"} /\ (core' = "exited" => bus = <<>>)
          /\ UNCHANGED <<bus, published, ring, pushed, clock, lastPass, budget, release, handed,
                         reads, handVars>>
      BY <1>4 DEF CheckStop, feedVars
    <2>2. CoreTypes'
      BY <2>1 DEF Types, CoreTypes
    <2> QED
      BY <1>0, <2>1, <2>2
  <1> QED
    BY <1>1, <1>2, <1>3, <1>4 DEF CoreStep

(* What a step of the writer does to the queue and the record in hand. *)
TakesRecord ==
    /\ writer = "idle" /\ writer' = "holds"
    /\ queue # <<>> /\ queue' = Tail(queue) /\ Head(queue) \in Records /\ inHand' = Head(queue)
    /\ UNCHANGED <<stopped, missed, finished, closeError, written, final, faults>>
TakesEnd ==
    /\ writer = "idle" /\ writer' = "flush"
    /\ queue # <<>> /\ queue' = Tail(queue) /\ Head(queue) \in {Finish, Close}
    /\ finished' = (Head(queue) = Finish)
    /\ UNCHANGED <<stopped, missed, inHand, closeError, written, final, faults>>
Stores ==
    /\ writer = "holds" /\ writer' = "idle" /\ inHand' = Nothing
    /\ stopped = "no" /\ written' = Append(written, inHand)
    /\ UNCHANGED <<queue, stopped, missed, finished, closeError, final, faults>>
Drops ==
    /\ writer = "holds" /\ writer' = "idle" /\ inHand' = Nothing
    /\ stopped' # "no" /\ stopped' \in {"QueueFull", "WriteFailed", "SizeCap"}
    /\ missed' = missed + 1 /\ faults' \in 0..MaxFaults
    /\ UNCHANGED <<queue, finished, closeError, written, final>>
Closes ==
    /\ writer = "flush"
    /\ \/ /\ writer' = (IF finished /\ stopped = "no" THEN "events" ELSE "ended")
          /\ closeError' = closeError
       \/ writer' = "ended" /\ closeError' = TRUE
    /\ faults' \in 0..MaxFaults
    /\ UNCHANGED <<handVars, inHand, finished, written, final>>
Names(file) ==
    /\ writer = file
    /\ writer' = (IF file = "events" /\ wantsSignals THEN "signals" ELSE "ended")
    /\ \/ final' = [final EXCEPT ![file] = "ours"] /\ closeError' = closeError
       \/ final' = final /\ closeError' = TRUE
    /\ faults' \in 0..MaxFaults
    /\ UNCHANGED <<handVars, inHand, finished, written>>

LEMMA FaultsCount ==
    ASSUME Types, Fault \/ UNCHANGED faults
    PROVE  faults' \in 0..MaxFaults
  <1>1. faults \in 0..MaxFaults /\ MaxFaults \in Nat
    BY Constants DEF Types, MainTypes
  <1>2. CASE Fault
    BY <1>1, <1>2 DEF Fault
  <1>3. CASE faults' = faults
    BY <1>1, <1>3
  <1> QED
    BY <1>2, <1>3

LEMMA WriterStepDoes ==
    ASSUME Types, WriterStep
    PROVE  /\ UNCHANGED <<feedVars, coreVars, mainVars>>
           /\ \/ TakesRecord \/ TakesEnd \/ Stores \/ Drops \/ Closes
              \/ Names("events") \/ Names("signals")
  <1>0. UNCHANGED <<feedVars, coreVars, mainVars>>
    BY DEF WriterStep
  <1>1. CASE Take
    <2>1. /\ writer = "idle" /\ queue # <<>> /\ queue' = Tail(queue)
          /\ UNCHANGED <<stopped, missed, closeError, written, final, faults>>
      BY <1>1 DEF Take
    <2>2. Head(queue) \in Messages
      BY <2>1, Shortened DEF Types, WriterTypes
    <2>3. CASE Head(queue) \in {Finish, Close}
      <3>1. writer' = "flush" /\ finished' = (Head(queue) = Finish) /\ UNCHANGED inHand
        BY <1>1, <2>3 DEF Take
      <3>2. TakesEnd
        BY <2>1, <2>3, <3>1 DEF TakesEnd
      <3> QED
        BY <1>0, <3>2
    <2>4. CASE Head(queue) \notin {Finish, Close}
      <3>1. Head(queue) \in Records
        BY <2>2, <2>4 DEF Messages
      <3>2. writer' = "holds" /\ inHand' = Head(queue) /\ UNCHANGED finished
        BY <1>1, <2>4 DEF Take
      <3>3. TakesRecord
        BY <2>1, <3>1, <3>2 DEF TakesRecord
      <3> QED
        BY <1>0, <3>3
    <2> QED
      BY <2>3, <2>4
  <1>2. CASE Write
    <2>1. /\ writer = "holds" /\ writer' = "idle" /\ inHand' = Nothing
          /\ UNCHANGED <<queue, finished, closeError, final>>
      BY <1>2 DEF Write
    <2>2. \/ /\ stopped = "no" /\ written' = Append(written, inHand)
             /\ UNCHANGED <<stopped, missed, faults>>
          \/ /\ stopped' # "no" /\ stopped' \in {"QueueFull", "WriteFailed", "SizeCap"}
             /\ missed' = missed + 1 /\ faults' \in 0..MaxFaults
             /\ UNCHANGED written
      <3>1. stopped \in {"no", "QueueFull", "WriteFailed", "SizeCap"}
        BY DEF Types, WriterTypes
      <3> QED
        BY <1>2, <3>1, FaultsCount DEF Write, Latch
    <2> QED
      BY <1>0, <2>1, <2>2 DEF Stores, Drops
  <1>3. CASE Flush
    BY <1>0, <1>3, FaultsCount DEF Flush, Closes
  <1>4. CASE Rename("events", IF wantsSignals THEN "signals" ELSE "ended")
    <2>1. Names("events")
      BY <1>4, FaultsCount DEF Rename, Names
    <2> QED
      BY <1>0, <2>1
  <1>5. CASE Rename("signals", "ended")
    <2>1. Names("signals")
      BY <1>5, FaultsCount DEF Rename, Names
    <2> QED
      BY <1>0, <2>1
  <1> QED
    BY <1>1, <1>2, <1>3, <1>4, <1>5 DEF WriterStep

(* What the session's own thread does. *)
Clears(file) ==
    /\ main = (IF file = "events" THEN "clean events" ELSE "clean signals")
    /\ \/ /\ final' = [final EXCEPT ![file] = "none"]
          /\ main' = (IF file = "events" /\ wantsSignals THEN "clean signals" ELSE "run")
       \/ final' = final /\ main' = "over"
    /\ IF main' = "run" THEN writer' = "idle" /\ core' = "drain" ELSE UNCHANGED <<writer, core>>
    /\ faults' \in 0..MaxFaults
    /\ UNCHANGED <<feedVars, clock, lastPass, budget, release, handed, reads, handVars, inHand,
                   finished, closeError, written, wantsSignals, outcome>>

Says(msg) ==
    /\ main \in {"run", "stop"} /\ main' = "join"
    /\ msg = Finish => core = "exited"
    /\ \/ Len(queue) < Capacity /\ queue' = Append(queue, msg)
       \/ writer = "ended" /\ queue' = queue
    /\ faults' \in 0..MaxFaults
    /\ UNCHANGED <<stopped, missed, feedVars, coreVars, writerVars, final, wantsSignals, outcome>>

Quiet == UNCHANGED <<feedVars, coreVars, handVars, writerVars, final, wantsSignals, outcome>>

LEMMA MainDoes ==
    ASSUME Types, MainStep \/ RequestStop \/ Abandon
    PROVE  \/ Clears("events") \/ Clears("signals") \/ Says(Finish) \/ Says(Close) \/ Join
           \/ Quiet /\ main = "start" /\ main' \in {"clean events", "over"} /\ faults' \in 0..MaxFaults
           \/ Quiet /\ main = "run" /\ main' = "stop" /\ faults' = faults
  <1>1. CASE Start
    BY <1>1, FaultsCount DEF Start, Quiet
  <1>2. CASE RemoveStaleEvents
    <2>1. Clears("events")
      BY <1>2, FaultsCount DEF RemoveStaleEvents, RemoveStale, Clears
    <2> QED
      BY <2>1
  <1>3. CASE RemoveStaleSignals
    <2>1. Clears("signals")
      BY <1>3, FaultsCount DEF RemoveStaleSignals, RemoveStale, Clears
    <2> QED
      BY <2>1
  <1>4. CASE FinishRecording
    BY <1>4, FaultsCount DEF FinishRecording, Send, Says
  <1>5. CASE RequestStop
    BY <1>5 DEF RequestStop, Quiet
  <1>6. CASE Abandon
    BY <1>6, FaultsCount DEF Abandon, Send, Says, Finish, Close
  <1> QED
    BY <1>1, <1>2, <1>3, <1>4, <1>5, <1>6 DEF MainStep

(* The types hold at the start, and every step keeps them. *)
LEMMA TypesInit ==
    ASSUME Init
    PROVE  Types
  <1>1. <<>> \in Seq(Feed) /\ <<>> \in Seq(Records) /\ <<>> \in Seq(Messages) /\ Listed(<<>>)
        /\ Len(<<>>) = 0
    BY EmptySeq DEF Listed
  <1>2. CoreTypes
    BY <1>1, Constants DEF Init, CoreTypes, None
  <1>3. WriterTypes
    <2>1. /\ queue = <<>> /\ written = <<>> /\ stopped = "no" /\ missed = 0 /\ writer = "none"
          /\ inHand = Nothing /\ finished = FALSE /\ closeError = FALSE
      BY DEF Init
    <2>2. queue \in Seq(Messages) /\ Len(queue) <= Capacity /\ written \in Seq(Records)
      BY <1>1, <2>1, Constants
    <2>3. finished \in BOOLEAN /\ closeError \in BOOLEAN /\ inHand \in Records \cup {Nothing}
      BY <2>1
    <2> QED
      BY <2>1, <2>2, <2>3 DEF WriterTypes
  <1>4. MainTypes
    <2>1. final \in [Files -> Logs]
      BY DEF Init, Logs, Files
    <2>2. wantsSignals \in BOOLEAN /\ wantsSignals \in SignalLogs
      BY Constants DEF Init
    <2>3. faults \in 0..MaxFaults
      BY Constants DEF Init
    <2>4. main = "start" /\ outcome = "none"
      BY DEF Init
    <2> QED
      BY <2>1, <2>2, <2>3, <2>4 DEF MainTypes
  <1> QED
    BY <1>2, <1>3, <1>4 DEF Types

(* A message that joins the queue is one the queue may hold. *)
LEMMA QueueGrows ==
    ASSUME Types, NEW msg \in Messages, Len(queue) < Capacity, queue' = Append(queue, msg)
    PROVE  queue' \in Seq(Messages) /\ Len(queue') = Len(queue) + 1 /\ Len(queue') <= Capacity
  <1>1. queue \in Seq(Messages)
    BY DEF Types, WriterTypes
  <1>2. Append(queue, msg) \in Seq(Messages) /\ Len(Append(queue, msg)) = Len(queue) + 1
    BY <1>1, Appended
  <1> QED
    BY <1>2, Lengths, Constants

LEMMA QueueShrinks ==
    ASSUME Types, queue # <<>>, queue' = Tail(queue)
    PROVE  queue' \in Seq(Messages) /\ Len(queue') = Len(queue) - 1 /\ Len(queue') <= Capacity
  <1>1. queue \in Seq(Messages) /\ Len(queue) <= Capacity
    BY DEF Types, WriterTypes
  <1>2. Tail(queue) \in Seq(Messages) /\ Len(Tail(queue)) = Len(queue) - 1 /\ Len(queue) \in Nat
    BY <1>1, Shortened
  <1> QED
    BY <1>1, <1>2, Constants

LEMMA TypesCore ==
    ASSUME Types, CoreStep
    PROVE  Types'
  <1>1. CoreTypes' /\ UNCHANGED <<writerVars, final, mainVars, faults>>
    BY CoreStepDoes
  <1>2. MainTypes'
    BY <1>1 DEF Types, MainTypes, mainVars
  <1>3. WriterTypes'
    <2>1. CASE UNCHANGED <<handed, handVars>>
      BY <1>1, <2>1 DEF Types, WriterTypes, writerVars, handVars
    <2>2. ASSUME NEW rec \in Records, HandOver(rec)
          PROVE  WriterTypes'
      <3>1. CASE Queues(rec)
        <4>1. queue' \in Seq(Messages) /\ Len(queue') <= Capacity
          BY <3>1, QueueGrows DEF Queues, Messages
        <4>2. stopped' = "no" /\ missed' = missed
          BY <3>1 DEF Queues
        <4> QED
          BY <1>1, <4>1, <4>2 DEF Types, WriterTypes, writerVars
      <3>2. CASE Misses
        <4>1. missed' \in Nat /\ queue' = queue /\ stopped' \in {"QueueFull", "WriteFailed", "SizeCap"}
          BY <3>2, Lengths DEF Misses
        <4> QED
          BY <1>1, <4>1 DEF Types, WriterTypes, writerVars
      <3> QED
        BY <2>2, <3>1, <3>2, HandOverDoes
    <2> QED
      BY <2>1, <2>2, CoreStepDoes
  <1> QED
    BY <1>1, <1>2, <1>3 DEF Types

LEMMA TypesWriter ==
    ASSUME Types, WriterStep
    PROVE  Types'
  <1>1. CoreTypes' /\ UNCHANGED mainVars
    BY WriterStepDoes DEF Types, CoreTypes, feedVars, coreVars
  <1>2. ASSUME UNCHANGED final, faults' \in 0..MaxFaults
        PROVE  MainTypes'
    BY <1>1, <1>2 DEF Types, MainTypes, mainVars
  <1>3. faults' = faults => faults' \in 0..MaxFaults
    BY DEF Types, MainTypes
  <1>4. CASE TakesRecord
    <2>1. queue' \in Seq(Messages) /\ Len(queue') <= Capacity
      BY <1>4, QueueShrinks DEF TakesRecord
    <2>2. WriterTypes'
      BY <1>4, <2>1 DEF TakesRecord, Types, WriterTypes
    <2> QED
      BY <1>1, <1>2, <1>3, <1>4, <2>2 DEF TakesRecord, Types
  <1>5. CASE TakesEnd
    <2>1. queue' \in Seq(Messages) /\ Len(queue') <= Capacity
      BY <1>5, QueueShrinks DEF TakesEnd
    <2>2. WriterTypes'
      BY <1>5, <2>1 DEF TakesEnd, Types, WriterTypes
    <2> QED
      BY <1>1, <1>2, <1>3, <1>5, <2>2 DEF TakesEnd, Types
  <1>6. CASE Stores
    <2>1. written' \in Seq(Records)
      <3>1. written \in Seq(Records) /\ inHand \in Records
        BY <1>6 DEF Stores, Types, WriterTypes
      <3> QED
        BY <1>6, <3>1, Appended DEF Stores
    <2>2. WriterTypes'
      BY <1>6, <2>1 DEF Stores, Types, WriterTypes
    <2> QED
      BY <1>1, <1>2, <1>3, <1>6, <2>2 DEF Stores, Types
  <1>7. CASE Drops
    <2>1. WriterTypes'
      BY <1>7 DEF Drops, Types, WriterTypes
    <2> QED
      BY <1>1, <1>2, <1>7, <2>1 DEF Drops, Types
  <1>8. CASE Closes
    <2>1. WriterTypes'
      BY <1>8 DEF Closes, Types, WriterTypes, handVars
    <2> QED
      BY <1>1, <1>2, <1>8, <2>1 DEF Closes, Types
  <1>9. ASSUME NEW file \in Files, Names(file)
        PROVE  Types'
    <2>1. WriterTypes'
      BY <1>9 DEF Names, Types, WriterTypes, handVars
    <2>2. final' \in [Files -> Logs]
      BY <1>9 DEF Names, Types, MainTypes, Logs
    <2>3. faults' \in 0..MaxFaults
      BY <1>9 DEF Names
    <2>4. MainTypes'
      BY <1>1, <2>2, <2>3 DEF Types, MainTypes, mainVars
    <2> QED
      BY <1>1, <2>1, <2>4 DEF Types
  <1> QED
    BY <1>4, <1>5, <1>6, <1>7, <1>8, <1>9, WriterStepDoes DEF Files

LEMMA TypesMain ==
    ASSUME Types, MainStep \/ RequestStop \/ Abandon
    PROVE  Types'
  <1>1. ASSUME NEW file \in Files, Clears(file)
        PROVE  Types'
    <2>1. CoreTypes'
      BY <1>1 DEF Clears, Types, CoreTypes, feedVars
    <2>2. WriterTypes'
      BY <1>1 DEF Clears, Types, WriterTypes, handVars
    <2>3. final' \in [Files -> Logs]
      BY <1>1 DEF Clears, Types, MainTypes, Logs
    <2>4. MainTypes'
      BY <1>1, <2>3 DEF Clears, Types, MainTypes
    <2> QED
      BY <2>1, <2>2, <2>4 DEF Types
  <1>2. ASSUME NEW msg \in {Finish, Close}, Says(msg)
        PROVE  Types'
    <2>1. queue' \in Seq(Messages) /\ Len(queue') <= Capacity
      <3>1. msg \in Messages
        BY DEF Messages
      <3>2. CASE Len(queue) < Capacity /\ queue' = Append(queue, msg)
        BY <3>1, <3>2, QueueGrows
      <3>3. CASE queue' = queue
        BY <3>3 DEF Types, WriterTypes
      <3> QED
        BY <1>2, <3>2, <3>3 DEF Says
    <2>2. CoreTypes'
      BY <1>2 DEF Says, Types, CoreTypes, feedVars, coreVars
    <2>3. WriterTypes'
      BY <1>2, <2>1 DEF Says, Types, WriterTypes, writerVars
    <2>4. MainTypes'
      BY <1>2 DEF Says, Types, MainTypes
    <2> QED
      BY <2>2, <2>3, <2>4 DEF Types
  <1>3. CASE Join
    <2>1. /\ main' = "over" /\ core' = "exited"
          /\ stopped' \in {stopped, "WriteFailed"} /\ outcome' \in {outcome, "final", "partial"}
          /\ UNCHANGED <<feedVars, clock, lastPass, budget, release, handed, reads, queue, missed,
                         writerVars, final, wantsSignals, faults>>
      BY <1>3 DEF Join
    <2>2. CoreTypes'
      BY <2>1 DEF Types, CoreTypes, feedVars
    <2>3. WriterTypes'
      BY <2>1 DEF Types, WriterTypes, writerVars
    <2>4. MainTypes'
      BY <2>1 DEF Types, MainTypes
    <2> QED
      BY <2>2, <2>3, <2>4 DEF Types
  <1>4. CASE Quiet /\ main' \in {"clean events", "over", "stop"} /\ faults' \in 0..MaxFaults
    <2>1. CoreTypes' /\ WriterTypes'
      BY <1>4 DEF Quiet, Types, CoreTypes, WriterTypes, feedVars, coreVars, handVars, writerVars
    <2>2. MainTypes'
      BY <1>4 DEF Quiet, Types, MainTypes
    <2> QED
      BY <2>1, <2>2 DEF Types
  <1>5. faults' = faults => faults' \in 0..MaxFaults
    BY DEF Types, MainTypes
  <1> QED
    BY <1>1, <1>2, <1>3, <1>4, <1>5, MainDoes DEF Files

LEMMA TypesNext ==
    ASSUME Types, Next
    PROVE  Types'
  <1>1. CASE Publish
    <2>1. PICK e \in Feed : bus' = Append(bus, e)
      BY <1>1 DEF Publish
    <2>2. /\ published < MaxEvents /\ published' = published + 1
          /\ UNCHANGED <<ring, pushed, coreVars, handVars, writerVars, final, mainVars, faults>>
      BY <1>1 DEF Publish
    <2>3. bus' \in Seq(Feed) /\ Len(bus') = Len(bus) + 1
      <3>1. bus \in Seq(Feed)
        BY DEF Types, CoreTypes
      <3> QED
        BY <2>1, <3>1, Appended
    <2>4. /\ published' \in 0..MaxEvents /\ Len(bus') <= published'
          /\ Len(handed) + Len(bus') + ring <= published' + pushed
      BY <2>2, <2>3, Lengths, Constants DEF Types, CoreTypes
    <2>5. CoreTypes'
      BY <2>2, <2>3, <2>4 DEF Types, CoreTypes, coreVars
    <2>6. WriterTypes' /\ MainTypes'
      <3>1. WriterTypes'
        BY <2>2 DEF Types, WriterTypes, handVars, writerVars
      <3>2. MainTypes'
        BY <2>2 DEF Types, MainTypes, mainVars
      <3> QED
        BY <3>1, <3>2
    <2> QED
      BY <2>5, <2>6 DEF Types
  <1>2. CASE PushSignal
    <2>1. /\ pushed < MaxSignals /\ ring' = ring + 1 /\ pushed' = pushed + 1
          /\ UNCHANGED <<bus, published, coreVars, handVars, writerVars, final, mainVars, faults>>
      BY <1>2 DEF PushSignal
    <2>2. /\ pushed' \in 0..MaxSignals /\ ring' \in 0..pushed'
          /\ Len(handed) + Len(bus) + ring' <= published + pushed'
          /\ Len(reads) + ring' <= pushed'
      BY <2>1, Lengths, Constants DEF Types, CoreTypes
    <2>3. CoreTypes'
      BY <2>1, <2>2 DEF Types, CoreTypes, coreVars
    <2>4. WriterTypes' /\ MainTypes'
      <3>1. WriterTypes'
        BY <2>1 DEF Types, WriterTypes, handVars, writerVars
      <3>2. MainTypes'
        BY <2>1 DEF Types, MainTypes, mainVars
      <3> QED
        BY <3>1, <3>2
    <2> QED
      BY <2>3, <2>4 DEF Types
  <1>3. CASE Kill
    <2>1. /\ bus' = <<>> /\ queue' = <<>> /\ inHand' = Nothing /\ writer' = "ended"
          /\ core' = "exited" /\ main' = "over"
          /\ clock' = 0 /\ lastPass' = None /\ release' = None /\ budget' = 0
          /\ stopped' = "no" /\ missed' = 0 /\ Fault
          /\ UNCHANGED <<published, ring, pushed, handed, reads, finished, closeError, written,
                         final, wantsSignals, outcome>>
      BY <1>3 DEF Kill
    <2>2. <<>> \in Seq(Feed) /\ <<>> \in Seq(Messages) /\ Len(<<>>) = 0
      BY EmptySeq
    <2>3. /\ Len(<<>>) <= published /\ Len(handed) + Len(<<>>) + ring <= published + pushed
      BY <2>2, Lengths DEF Types, CoreTypes
    <2>4. CoreTypes'
      BY <2>1, <2>2, <2>3, Constants DEF Types, CoreTypes, None
    <2>5. WriterTypes'
      BY <2>1, <2>2, Constants DEF Types, WriterTypes
    <2>6. MainTypes'
      BY <2>1, FaultsCount DEF Types, MainTypes
    <2> QED
      BY <2>4, <2>5, <2>6 DEF Types
  <1> QED
    BY <1>1, <1>2, <1>3, TypesCore, TypesWriter, TypesMain DEF Next

-----------------------------------------------------------------------------
(* What is in the queue.                                                   *)

(* The places of a queue, and the messages among them that end it. *)
LEMMA Places ==
    ASSUME Types
    PROVE  /\ DOMAIN queue = 1..Len(queue)
           /\ Ends \subseteq 1..Len(queue)
           /\ Len(queue) = 0 => Ends = {} /\ queue = <<>>
           /\ \A i \in 1..Len(queue) : i \notin Ends => queue[i] \in Records
  <1>1. queue \in Seq(Messages)
    BY DEF Types, WriterTypes
  <1>2. DOMAIN queue = 1..Len(queue) /\ \A i \in 1..Len(queue) : queue[i] \in Messages
    BY <1>1, LenProperties, ElementOfSeq
  <1>3. Len(queue) = 0 => queue = <<>>
    BY <1>1, EmptySeq
  <1> QED
    BY <1>2, <1>3 DEF Ends, Messages

(* A record behind the queue is no end of it. *)
LEMMA EndsWithARecord ==
    ASSUME Types, NEW rec \in Records, queue' = Append(queue, rec)
    PROVE  Ends' = Ends
  <1>1. queue \in Seq(Messages) /\ rec \in Messages
    BY DEF Types, WriterTypes, Messages
  <1>2. queue' \in Seq(Messages) /\ Len(queue') = Len(queue) + 1 /\ queue'[Len(queue) + 1] = rec
        /\ \A i \in 1..Len(queue) : queue'[i] = queue[i]
    BY <1>1, Appended
  <1>3. DOMAIN queue = 1..Len(queue) /\ DOMAIN (queue') = 1..(Len(queue) + 1) /\ Len(queue) \in Nat
    BY <1>1, <1>2, LenProperties
  <1>4. rec \notin {Finish, Close}
    BY RecordsAreRecords
  <1> QED
    BY <1>2, <1>3, <1>4 DEF Ends

(* The message of the session's thread is. *)
LEMMA EndsWithAnEnd ==
    ASSUME Types, NEW msg \in {Finish, Close}, queue' = Append(queue, msg)
    PROVE  /\ Ends' = Ends \cup {Len(queue) + 1} /\ Len(queue') = Len(queue) + 1
           /\ queue'[Len(queue) + 1] = msg
           /\ \A i \in 1..Len(queue) : queue'[i] = queue[i]
  <1>1. queue \in Seq(Messages) /\ msg \in Messages
    BY DEF Types, WriterTypes, Messages
  <1>2. queue' \in Seq(Messages) /\ Len(queue') = Len(queue) + 1 /\ queue'[Len(queue) + 1] = msg
        /\ \A i \in 1..Len(queue) : queue'[i] = queue[i]
    BY <1>1, Appended
  <1>3. DOMAIN queue = 1..Len(queue) /\ DOMAIN (queue') = 1..(Len(queue) + 1) /\ Len(queue) \in Nat
    BY <1>1, <1>2, LenProperties
  <1> QED
    BY <1>2, <1>3 DEF Ends

(* Taking the first moves everything one place up. *)
LEMMA EndsOfTheTail ==
    ASSUME Types, queue # <<>>, queue' = Tail(queue)
    PROVE  /\ Ends' = {i \in 1..(Len(queue) - 1) : i + 1 \in Ends}
           /\ Len(queue') = Len(queue) - 1 /\ Len(queue) >= 1
           /\ Head(queue) = queue[1] /\ (1 \in Ends) = (Head(queue) \in {Finish, Close})
           /\ \A i \in 1..(Len(queue) - 1) : queue'[i] = queue[i + 1]
  <1>1. queue \in Seq(Messages)
    BY DEF Types, WriterTypes
  <1>2. /\ queue' \in Seq(Messages) /\ Len(queue') = Len(queue) - 1
        /\ Len(queue) \in Nat /\ Len(queue) >= 1 /\ Head(queue) = queue[1]
        /\ \A i \in 1..(Len(queue) - 1) : queue'[i] = queue[i + 1]
    BY <1>1, Shortened
  <1>3. DOMAIN queue = 1..Len(queue) /\ DOMAIN (queue') = 1..(Len(queue) - 1)
    BY <1>1, <1>2, LenProperties
  <1> QED
    BY <1>2, <1>3 DEF Ends

-----------------------------------------------------------------------------
(* The invariant.                                                          *)

Prefixed ==
    /\ Len(written) <= Len(handed)
    /\ \A i \in 1..Len(written) : written[i] = handed[i]

Ind ==
    /\ Types
    /\ Prefixed
    /\ EveryRecordIsSomewhere /\ TheQueueIsTheRest
    /\ TheEndIsSaidOnce /\ TheThreadsKeepStep
    /\ TheNamesAreTaken /\ ANamedLogIsWhole
    /\ NoEarlierLogInItsPlace /\ TheOutcomeFindsTheLogs
    /\ TheHoleIsCounted

(* It says that the logs are true. *)
LEMMA IndImpliesLogs ==
    ASSUME Ind
    PROVE  LogsInv
  <1>0. Types /\ Prefixed /\ EveryRecordIsSomewhere
    BY DEF Ind
  <1>1. TypeOK
    <2>1. missed \in 0..Len(handed)
      <3>1. Known <= Len(handed)
        BY <1>0 DEF EveryRecordIsSomewhere
      <3>2. Len(queue) - (IF Ends = {} THEN 0 ELSE 1) >= 0
        BY <1>0, Places, Lengths
      <3> QED
        BY <1>0, <3>1, <3>2, Lengths DEF Known, InHand
    <2>2. writer = "holds" => inHand # Nothing
      BY <1>0, RecordsAreRecords DEF Types, WriterTypes
    <2>3. queue \in Seq(Records \cup {Finish, Close}) /\ {finished, closeError} \subseteq BOOLEAN
      BY <1>0 DEF Types, WriterTypes, Messages
    <2> QED
      BY <1>0, <2>1, <2>2, <2>3 DEF Types, CoreTypes, WriterTypes, MainTypes, TypeOK
  <1>2. ALogHasNoHole
    <2>1. written \in Seq(Records) /\ handed \in Seq(Records) /\ Len(written) \in Nat
          /\ Len(handed) \in Nat
      BY <1>0, Lengths DEF Types, CoreTypes, WriterTypes
    <2>2. SubSeq(handed, 1, Len(written)) = written
      <3> DEFINE sub == SubSeq(handed, 1, Len(written))
      <3>1. /\ sub \in Seq(Records) /\ Len(sub) = Len(written)
            /\ \A i \in 1..Len(written) : sub[i] = handed[i]
        <4>1. \A i \in 1..Len(written) : handed[i] \in Records
          BY <1>0, <2>1, ElementOfSeq DEF Prefixed
        <4>2. sub = [i \in 1..Len(written) |-> handed[i]]
          BY <1>0, <2>1, SubSeqProperties DEF Prefixed
        <4> QED
          BY <2>1, <4>1, <4>2, IsASeq, LenProperties
      <3> QED
        BY <1>0, <2>1, <3>1, SeqEqual DEF Prefixed
    <2> QED
      BY <1>0, <2>1, <2>2 DEF Prefixed, ALogHasNoHole, IsPrefix
  <1> QED
    BY <1>1, <1>2 DEF Ind, LogsInv

LEMMA IndInit ==
    ASSUME Init
    PROVE  Ind
  <1>1. Types
    BY TypesInit
  <1>2. /\ handed = <<>> /\ queue = <<>> /\ written = <<>> /\ bus = <<>>
        /\ Len(<<>>) = 0 /\ DOMAIN <<>> = {}
    BY EmptySeq DEF Init
  <1>3. Ends = {}
    BY <1>2 DEF Ends
  <1>4. /\ main = "start" /\ writer = "none" /\ core = "exited" /\ outcome = "none"
        /\ missed = 0 /\ stopped = "no" /\ finished = FALSE
        /\ \A f \in Files : final[f] # "ours"
    BY DEF Init
  <1>5. Prefixed /\ EveryRecordIsSomewhere /\ TheQueueIsTheRest
    BY <1>2, <1>3, <1>4
       DEF Prefixed, EveryRecordIsSomewhere, Known, InHand, TheQueueIsTheRest
  <1>6. TheEndIsSaidOnce /\ TheThreadsKeepStep
    BY <1>2, <1>3, <1>4 DEF TheEndIsSaidOnce, TheThreadsKeepStep
  <1>7. TheNamesAreTaken /\ ANamedLogIsWhole
    BY <1>4 DEF TheNamesAreTaken, ANamedLogIsWhole
  <1>8. NoEarlierLogInItsPlace /\ TheOutcomeFindsTheLogs /\ TheHoleIsCounted
    BY <1>4 DEF NoEarlierLogInItsPlace, TheOutcomeFindsTheLogs, TheHoleIsCounted, Files
  <1> QED
    BY <1>1, <1>5, <1>6, <1>7, <1>8 DEF Ind

(* What a step that leaves the records and the threads' messages alone leaves true. *)
LEMMA SameHands ==
    ASSUME Ind, UNCHANGED <<handed, handVars, written, inHand>>,
           UNCHANGED writer \/ (writer = "none" /\ writer' = "idle")
    PROVE  /\ Ends' = Ends /\ InHand' = InHand /\ Known' = Known
           /\ Prefixed' /\ TheQueueIsTheRest'
  <1>1. Ends' = Ends /\ DOMAIN queue' = DOMAIN queue
    BY DEF Ends, handVars
  <1>2. InHand' = InHand
    BY DEF InHand
  <1>3. Known' = Known
    BY <1>1, <1>2 DEF Known, handVars
  <1>4. Prefixed'
    BY DEF Ind, Prefixed
  <1>5. TheQueueIsTheRest'
    <2>1. CASE writer' = writer
      BY <1>1, <1>2, <2>1 DEF Ind, TheQueueIsTheRest, handVars
    <2>2. CASE writer = "none" /\ writer' = "idle"
      <3>1. queue' = <<>>
        BY <2>2 DEF Ind, TheThreadsKeepStep, handVars
      <3> QED
        BY <2>2, <3>1, EmptySeq DEF TheQueueIsTheRest
    <2> QED
      BY <2>1, <2>2
  <1> QED
    BY <1>1, <1>2, <1>3, <1>4, <1>5

(* While the core runs, the recording is not over. *)
LEMMA CoreRuns ==
    ASSUME Ind, core # "exited"
    PROVE  /\ main \in {"run", "stop", "join"} /\ main # "over"
           /\ finished = FALSE /\ outcome = "none" /\ writer # "none"
           /\ writer \notin {"events", "signals"}
           /\ \A f \in Files : final[f] # "ours"
  <1>1. main \in {"run", "stop", "join"} /\ finished = FALSE
    BY DEF Ind, TheEndIsSaidOnce, Types, WriterTypes
  <1>2. outcome = "none" /\ writer # "none"
    BY <1>1 DEF Ind, TheThreadsKeepStep, Types, MainTypes
  <1>3. \A f \in Files : final[f] # "ours"
    BY <1>1 DEF Ind, TheNamesAreTaken
  <1> QED
    BY <1>1, <1>2, <1>3 DEF Ind, TheNamesAreTaken

LEMMA IndFeed ==
    ASSUME Ind, Publish \/ PushSignal
    PROVE  Ind'
  <1>1. /\ core # "exited"
        /\ UNCHANGED <<coreVars, handVars, writerVars, final, mainVars, faults>>
    BY DEF Publish, PushSignal
  <1>2. UNCHANGED <<core, handed, queue, stopped, missed, writer, inHand, finished, closeError,
                    written, final, wantsSignals, main, outcome>>
    BY <1>1 DEF coreVars, handVars, writerVars, mainVars
  <1>3. Types'
    BY TypesNext DEF Ind, Next
  <1>4. Ends' = Ends /\ Known' = Known /\ Prefixed' /\ TheQueueIsTheRest'
    BY <1>1, <1>2, SameHands
  <1>5. finished = FALSE /\ outcome = "none" /\ \A f \in Files : final[f] # "ours"
    BY <1>1, CoreRuns
  <1>6. EveryRecordIsSomewhere' /\ TheHoleIsCounted'
    BY <1>2, <1>4, <1>5 DEF Ind, EveryRecordIsSomewhere, TheHoleIsCounted
  <1>7. TheEndIsSaidOnce'
    BY <1>1, <1>2, <1>4, <1>5 DEF Ind, TheEndIsSaidOnce
  <1>8. TheThreadsKeepStep'
    BY <1>2 DEF Ind, TheThreadsKeepStep
  <1>9. TheNamesAreTaken'
    BY <1>2 DEF Ind, TheNamesAreTaken, Recorded
  <1>10. ANamedLogIsWhole' /\ TheOutcomeFindsTheLogs'
    BY <1>2, <1>5 DEF ANamedLogIsWhole, TheOutcomeFindsTheLogs
  <1>11. NoEarlierLogInItsPlace'
    BY <1>2 DEF Ind, NoEarlierLogInItsPlace, Recorded
  <1> QED
    BY <1>3, <1>4, <1>6, <1>7, <1>8, <1>9, <1>10, <1>11 DEF Ind

(* A record that is handed over. *)
LEMMA HandedOver ==
    ASSUME Ind, Types', core # "exited", NEW rec \in Records, HandOver(rec),
           UNCHANGED <<writerVars, final, mainVars, faults>>
    PROVE  /\ Prefixed' /\ EveryRecordIsSomewhere' /\ TheQueueIsTheRest'
           /\ (Ends' = Ends /\ (queue' = queue \/ queue' = Append(queue, rec)))
           /\ \A i \in Ends : queue'[i] # Finish
  <1>0. Types /\ UNCHANGED <<writer, inHand, written, main, finished>>
    BY DEF Ind, writerVars, mainVars
  <1>1. /\ handed' = Append(handed, rec) /\ (Queues(rec) \/ Misses)
    BY <1>0, HandOverDoes
  <1>2. /\ Len(handed') = Len(handed) + 1 /\ handed'[Len(handed) + 1] = rec
        /\ \A i \in 1..Len(handed) : handed'[i] = handed[i]
    <2>1. handed \in Seq(Records)
      BY <1>0 DEF Types, CoreTypes
    <2> QED
      BY <1>1, <2>1, Appended
  <1>3. Prefixed'
    BY <1>0, <1>2, Lengths DEF Ind, Prefixed
  <1>4. main # "over" /\ Known = Len(handed) /\ InHand' = InHand /\ InHand \in {0, 1}
    BY <1>0, CoreRuns DEF Ind, EveryRecordIsSomewhere, InHand
  <1>5. \A i \in Ends : queue[i] # Finish
    BY DEF Ind, TheEndIsSaidOnce
  <1>6. CASE Queues(rec)
    <2>1. /\ stopped = "no" /\ queue' = Append(queue, rec) /\ stopped' = "no" /\ missed' = missed
      BY <1>6 DEF Queues
    <2>2. missed = 0
      BY <2>1 DEF Ind, EveryRecordIsSomewhere
    <2>3. Ends' = Ends
      BY <1>0, <2>1, EndsWithARecord
    <2>4. /\ Len(queue') = Len(queue) + 1 /\ queue'[Len(queue) + 1] = rec
          /\ \A i \in 1..Len(queue) : queue'[i] = queue[i]
          /\ DOMAIN queue = 1..Len(queue) /\ DOMAIN queue' = 1..(Len(queue) + 1)
      <3>1. queue \in Seq(Messages) /\ rec \in Messages /\ queue' \in Seq(Messages)
        BY <1>0 DEF Types, WriterTypes, Messages
      <3> QED
        BY <2>1, <3>1, Appended, LenProperties
    <2>5. Known' = Known + 1
      <3> DEFINE mark == IF Ends = {} THEN 0 ELSE 1
      <3>1. mark \in Int /\ Known = Len(written) + missed + InHand + Len(queue) - mark
        BY DEF Known
      <3>2. Known' = Len(written) + missed + InHand + (Len(queue) + 1) - mark
        BY <1>0, <1>4, <2>1, <2>3, <2>4 DEF Known
      <3>3. Len(written) \in Int /\ missed \in Int /\ InHand \in Int /\ Len(queue) \in Int
        BY <1>0, <1>4, Lengths
      <3> HIDE DEF mark
      <3> QED
        BY <3>1, <3>2, <3>3
    <2>6. EveryRecordIsSomewhere'
      BY <1>0, <1>2, <1>4, <2>1, <2>2, <2>5, Lengths DEF EveryRecordIsSomewhere
    <2>7. TheQueueIsTheRest'
      <3> SUFFICES ASSUME writer \in {"idle", "holds"}
                   PROVE  /\ writer = "holds" => inHand = handed'[Len(written) + 1]
                          /\ \A i \in 1..(Len(queue) + 1) :
                                (\A j \in 1..i : j \notin Ends) =>
                                    queue'[i] = handed'[Len(written) + InHand + i]
        BY <1>0, <1>4, <2>3, <2>4 DEF TheQueueIsTheRest
      <3>1. /\ writer = "holds" => inHand = handed[Len(written) + 1]
            /\ \A i \in 1..Len(queue) :
                  (\A j \in 1..i : j \notin Ends) =>
                      queue[i] = handed[Len(written) + InHand + i]
        BY <2>1, <2>4 DEF Ind, TheQueueIsTheRest
      <3>2. Len(written) + InHand + Len(queue) - (IF Ends = {} THEN 0 ELSE 1) = Len(handed)
        BY <1>0, <1>4, <2>2, Lengths DEF Known
      <3>3. Ends # {} => Len(queue) >= 1
        BY <1>0, Places, Lengths
      <3>4. writer = "holds" => Len(written) + 1 \in 1..Len(handed)
        BY <1>0, <3>2, <3>3, Lengths DEF InHand
      <3>5. ASSUME NEW i \in 1..(Len(queue) + 1), \A j \in 1..i : j \notin Ends
            PROVE  queue'[i] = handed'[Len(written) + InHand + i]
        <4>1. CASE i = Len(queue) + 1
          <5>1. Ends = {}
            BY <1>0, <3>5, <4>1, Places, Lengths
          <5>2. Len(written) + InHand + i = Len(handed) + 1
            BY <1>0, <1>4, <3>2, <4>1, <5>1, Lengths
          <5> QED
            BY <1>2, <2>4, <4>1, <5>2
        <4>2. CASE i \in 1..Len(queue)
          <5>1. Len(written) + InHand + i \in 1..Len(handed)
            <6>1. Ends = {} \/ i < Len(queue)
              BY <1>0, <3>5, <4>2, Places, Lengths
            <6> QED
              BY <1>0, <1>4, <3>2, <4>2, <6>1, Lengths
          <5> QED
            BY <1>2, <2>4, <3>1, <3>5, <4>2, <5>1
        <4> QED
          BY <1>0, <4>1, <4>2, Lengths
      <3> QED
        BY <1>2, <3>1, <3>4, <3>5
    <2>8. \A i \in Ends : queue'[i] # Finish
      BY <1>0, <1>5, <2>4, Places
    <2> QED
      BY <1>3, <2>1, <2>3, <2>6, <2>7, <2>8
  <1>7. CASE Misses
    <2>1. queue' = queue /\ missed' = missed + 1 /\ stopped' # "no"
      BY <1>7 DEF Misses
    <2>2. Ends' = Ends
      BY <2>1 DEF Ends
    <2>3. Known' = Known + 1
      <3> DEFINE mark == IF Ends = {} THEN 0 ELSE 1
      <3>1. mark \in Int /\ Known = Len(written) + missed + InHand + Len(queue) - mark
        BY DEF Known
      <3>2. Known' = Len(written) + (missed + 1) + InHand + Len(queue) - mark
        BY <1>0, <1>4, <2>1, <2>2 DEF Known
      <3>3. Len(written) \in Int /\ missed \in Int /\ InHand \in Int /\ Len(queue) \in Int
        BY <1>0, <1>4, Lengths
      <3> HIDE DEF mark
      <3> QED
        BY <3>1, <3>2, <3>3
    <2>4. EveryRecordIsSomewhere'
      BY <1>0, <1>2, <1>4, <2>1, <2>3, Lengths DEF EveryRecordIsSomewhere
    <2>5. TheQueueIsTheRest'
      BY <2>1 DEF TheQueueIsTheRest
    <2> QED
      BY <1>3, <1>5, <2>1, <2>2, <2>4, <2>5
  <1> QED
    BY <1>1, <1>6, <1>7

LEMMA IndCore ==
    ASSUME Ind, CoreStep
    PROVE  Ind'
  <1>1. /\ core # "exited" /\ (core' = "exited" => bus' = <<>>)
        /\ UNCHANGED <<writerVars, final, mainVars, faults>>
        /\ (\E rec \in Records : HandOver(rec)) \/ UNCHANGED <<handed, handVars>>
    BY CoreStepDoes DEF Ind
  <1>2. UNCHANGED <<writer, inHand, finished, closeError, written, final, wantsSignals, main, outcome>>
    BY <1>1 DEF writerVars, mainVars
  <1>3. Types'
    BY TypesCore DEF Ind
  <1>4. /\ main \in {"run", "stop", "join"} /\ main # "over" /\ finished = FALSE
        /\ outcome = "none" /\ writer # "none" /\ writer \notin {"events", "signals"}
        /\ \A f \in Files : final[f] # "ours"
    BY <1>1, CoreRuns
  <1>5. /\ Prefixed' /\ EveryRecordIsSomewhere' /\ TheQueueIsTheRest'
        /\ Ends' = Ends /\ \A i \in Ends : queue'[i] # Finish
    <2>1. CASE \E rec \in Records : HandOver(rec)
      BY <1>1, <1>3, <2>1, HandedOver
    <2>2. CASE UNCHANGED <<handed, handVars>>
      <3>1. Ends' = Ends /\ Known' = Known /\ Prefixed' /\ TheQueueIsTheRest'
        BY <1>2, <2>2, SameHands
      <3>2. EveryRecordIsSomewhere'
        BY <1>2, <2>2, <3>1 DEF Ind, EveryRecordIsSomewhere, handVars
      <3>3. \A i \in Ends : queue'[i] # Finish
        BY <1>1, <2>2 DEF Ind, TheEndIsSaidOnce, handVars
      <3> QED
        BY <3>1, <3>2, <3>3
    <2> QED
      BY <1>1, <2>1, <2>2
  <1>6. TheEndIsSaidOnce'
    BY <1>1, <1>2, <1>4, <1>5 DEF Ind, TheEndIsSaidOnce
  <1>7. TheThreadsKeepStep'
    BY <1>2, <1>4 DEF Ind, TheThreadsKeepStep
  <1>8. TheNamesAreTaken'
    BY <1>2, <1>4 DEF TheNamesAreTaken
  <1>9. ANamedLogIsWhole' /\ TheOutcomeFindsTheLogs' /\ TheHoleIsCounted'
    BY <1>2, <1>4 DEF ANamedLogIsWhole, TheOutcomeFindsTheLogs, TheHoleIsCounted
  <1>10. NoEarlierLogInItsPlace'
    BY <1>2 DEF Ind, NoEarlierLogInItsPlace, Recorded
  <1> QED
    BY <1>3, <1>5, <1>6, <1>7, <1>8, <1>9, <1>10 DEF Ind

(* While the writer works on the records, too. *)
LEMMA WriterWorks ==
    ASSUME Ind, writer \in {"idle", "holds"}
    PROVE  /\ main \in {"run", "stop", "join"} /\ finished = FALSE /\ outcome = "none"
           /\ \A f \in Files : final[f] # "ours"
           /\ Known = Len(handed)
  <1>1. main \in {"run", "stop", "join"} /\ finished = FALSE
    BY DEF Ind, TheEndIsSaidOnce, TheThreadsKeepStep, Types, MainTypes, WriterTypes
  <1> QED
    BY <1>1 DEF Ind, TheThreadsKeepStep, TheNamesAreTaken, EveryRecordIsSomewhere, Types, MainTypes

(* The parts that are about the names and the outcome, for a step of the writer
   that takes no name and finishes nothing. *)
LEMMA NoNameTaken ==
    ASSUME Ind, UNCHANGED <<coreVars, mainVars, final, finished>>,
           writer \in {"idle", "holds"}, writer' \in {"idle", "holds"}
    PROVE  /\ TheThreadsKeepStep' /\ TheNamesAreTaken' /\ ANamedLogIsWhole'
           /\ NoEarlierLogInItsPlace' /\ TheOutcomeFindsTheLogs' /\ TheHoleIsCounted'
  <1>1. UNCHANGED <<core, handed, wantsSignals, main, outcome>>
    BY DEF coreVars, mainVars
  <1>2. /\ main \in {"run", "stop", "join"} /\ outcome = "none"
        /\ \A f \in Files : final[f] # "ours"
    BY WriterWorks
  <1>3. TheThreadsKeepStep' /\ TheNamesAreTaken'
    BY <1>1, <1>2 DEF TheThreadsKeepStep, TheNamesAreTaken
  <1>4. ANamedLogIsWhole' /\ TheOutcomeFindsTheLogs' /\ TheHoleIsCounted'
    BY <1>1, <1>2 DEF ANamedLogIsWhole, TheOutcomeFindsTheLogs, TheHoleIsCounted
  <1>5. NoEarlierLogInItsPlace'
    BY <1>1 DEF Ind, NoEarlierLogInItsPlace, Recorded
  <1> QED
    BY <1>3, <1>4, <1>5

LEMMA IndTakesRecord ==
    ASSUME Ind, Types', TakesRecord, UNCHANGED <<feedVars, coreVars, mainVars>>
    PROVE  Ind'
  <1>1. /\ writer = "idle" /\ writer' = "holds" /\ queue # <<>> /\ queue' = Tail(queue)
        /\ inHand' = Head(queue) /\ Head(queue) \in Records
        /\ UNCHANGED <<stopped, missed, finished, written, final, bus, core, handed, main>>
    BY DEF TakesRecord, feedVars, coreVars, mainVars
  <1>2. Types
    BY DEF Ind
  <1>3. /\ main \in {"run", "stop", "join"} /\ finished = FALSE /\ Known = Len(handed)
    BY <1>1, WriterWorks
  <1>4. /\ Ends' = {i \in 1..(Len(queue) - 1) : i + 1 \in Ends} /\ 1 \notin Ends
        /\ Len(queue') = Len(queue) - 1 /\ Len(queue) >= 1 /\ inHand' = queue[1]
        /\ \A i \in 1..(Len(queue) - 1) : queue'[i] = queue[i + 1]
    BY <1>1, <1>2, EndsOfTheTail, RecordsAreRecords
  <1>5. DOMAIN queue = 1..Len(queue) /\ Ends \subseteq 1..Len(queue)
        /\ DOMAIN queue' = 1..(Len(queue) - 1)
    <2>1. queue' \in Seq(Messages)
      BY DEF Types, WriterTypes
    <2> QED
      BY <1>2, <1>4, <2>1, Places, LenProperties
  <1>6. (Ends' = {}) = (Ends = {})
    <2>1. ASSUME Ends # {}
          PROVE  Ends' # {}
      <3>1. PICK i \in Ends : i \in 1..Len(queue) /\ i # 1
        BY <1>4, <1>5, <2>1
      <3>2. i - 1 \in 1..(Len(queue) - 1) /\ (i - 1) + 1 = i
        BY <1>2, <3>1, Lengths
      <3> QED
        BY <1>4, <3>1, <3>2
    <2> QED
      BY <1>4, <2>1
  <1>7. Known' = Known
    <2> DEFINE mark == IF Ends = {} THEN 0 ELSE 1
    <2>1. mark \in Int /\ Known = Len(written) + missed + 0 + Len(queue) - mark
      BY <1>1 DEF Known, InHand
    <2>2. Known' = Len(written) + missed + 1 + (Len(queue) - 1) - mark
      BY <1>1, <1>4, <1>6 DEF Known, InHand
    <2>3. Len(written) \in Int /\ missed \in Int /\ Len(queue) \in Int
      BY <1>2, Lengths
    <2> HIDE DEF mark
    <2> QED
      BY <2>1, <2>2, <2>3
  <1>8. Prefixed' /\ EveryRecordIsSomewhere'
    BY <1>1, <1>3, <1>7 DEF Ind, Prefixed, EveryRecordIsSomewhere
  <1>9. TheQueueIsTheRest'
    <2> SUFFICES ASSUME stopped = "no"
                 PROVE  /\ queue[1] = handed[Len(written) + 1]
                        /\ \A i \in 1..(Len(queue) - 1) :
                              (\A j \in 1..i : j \notin Ends') =>
                                  queue[i + 1] = handed[Len(written) + 1 + i]
      BY <1>1, <1>4, <1>5 DEF TheQueueIsTheRest, InHand
    <2>1. \A i \in 1..Len(queue) :
            (\A j \in 1..i : j \notin Ends) => queue[i] = handed[Len(written) + 0 + i]
      BY <1>1, <1>5 DEF Ind, TheQueueIsTheRest, InHand
    <2>2. queue[1] = handed[Len(written) + 1]
      <3>1. 1 \in 1..Len(queue) /\ \A j \in 1..1 : j \notin Ends
        BY <1>2, <1>4, Lengths
      <3>2. Len(written) + 0 + 1 = Len(written) + 1
        BY <1>2, Lengths
      <3>3. queue[1] = handed[Len(written) + 0 + 1]
        BY <2>1, <3>1
      <3> QED
        BY <3>2, <3>3
    <2>3. ASSUME NEW i \in 1..(Len(queue) - 1), \A j \in 1..i : j \notin Ends'
          PROVE  queue[i + 1] = handed[Len(written) + 1 + i]
      <3>1. \A j \in 1..(i + 1) : j \notin Ends
        <4> SUFFICES ASSUME NEW j \in 1..(i + 1), j \in Ends
                     PROVE  FALSE
          OBVIOUS
        <4>1. j # 1
          BY <1>4
        <4>2. j - 1 \in 1..i /\ j - 1 \in 1..(Len(queue) - 1) /\ (j - 1) + 1 = j
          BY <1>2, <4>1, Lengths
        <4> QED
          BY <1>4, <2>3, <4>2
      <3>2. /\ i + 1 \in 1..Len(queue)
            /\ Len(written) + 0 + (i + 1) = Len(written) + 1 + i
        BY <1>2, Lengths
      <3> QED
        BY <2>1, <3>1, <3>2
    <2> QED
      BY <2>2, <2>3
  <1>10. TheEndIsSaidOnce'
    <2>1. \A i \in Ends' : /\ i + 1 \in Ends /\ i \in 1..(Len(queue) - 1)
                           /\ queue'[i] = queue[i + 1]
      BY <1>4
    <2>2. \A i, j \in Ends' : i = j
      <3> SUFFICES ASSUME NEW i \in Ends', NEW j \in Ends'
                   PROVE  i = j
        OBVIOUS
      <3>1. i + 1 = j + 1
        BY <2>1 DEF Ind, TheEndIsSaidOnce
      <3>2. i \in Int /\ j \in Int
        BY <2>1
      <3> QED
        BY <3>1, <3>2
    <2>3. \A i \in Ends' : queue'[i] = Finish => i = Len(queue') /\ core = "exited"
      <3> SUFFICES ASSUME NEW i \in Ends', queue'[i] = Finish
                   PROVE  i = Len(queue') /\ core = "exited"
        OBVIOUS
      <3>1. i + 1 = Len(queue) /\ core = "exited"
        BY <2>1 DEF Ind, TheEndIsSaidOnce
      <3>2. i \in Int
        BY <2>1
      <3> QED
        BY <1>4, <3>1, <3>2
    <2>4. Ends' # {} => main = "join"
      BY <1>6 DEF Ind, TheEndIsSaidOnce
    <2> QED
      BY <1>1, <1>3, <2>2, <2>3, <2>4 DEF Ind, TheEndIsSaidOnce
  <1>11. /\ TheThreadsKeepStep' /\ TheNamesAreTaken' /\ ANamedLogIsWhole'
         /\ NoEarlierLogInItsPlace' /\ TheOutcomeFindsTheLogs' /\ TheHoleIsCounted'
    BY <1>1, NoNameTaken
  <1> QED
    BY <1>8, <1>9, <1>10, <1>11 DEF Ind

LEMMA IndTakesEnd ==
    ASSUME Ind, Types', TakesEnd, UNCHANGED <<feedVars, coreVars, mainVars>>
    PROVE  Ind'
  <1>1. /\ writer = "idle" /\ writer' = "flush" /\ queue # <<>> /\ queue' = Tail(queue)
        /\ Head(queue) \in {Finish, Close} /\ finished' = (Head(queue) = Finish)
        /\ UNCHANGED <<stopped, missed, inHand, closeError, written, final, bus, core, handed,
                       wantsSignals, main, outcome>>
    BY DEF TakesEnd, feedVars, coreVars, mainVars
  <1>2. Types
    BY DEF Ind
  <1>3. /\ main \in {"run", "stop", "join"} /\ outcome = "none" /\ Known = Len(handed)
        /\ \A f \in Files : final[f] # "ours"
    BY <1>1, WriterWorks
  <1>4. /\ Ends' = {i \in 1..(Len(queue) - 1) : i + 1 \in Ends} /\ 1 \in Ends
        /\ Len(queue') = Len(queue) - 1 /\ Len(queue) >= 1 /\ Head(queue) = queue[1]
    BY <1>1, <1>2, EndsOfTheTail
  <1>5. main = "join"
    BY <1>4 DEF Ind, TheEndIsSaidOnce
  <1>6. Ends' = {}
    <2> SUFFICES ASSUME NEW i \in Ends'
                 PROVE  FALSE
      OBVIOUS
    <2>1. i \in 1..(Len(queue) - 1) /\ i + 1 \in Ends
      BY <1>4
    <2>2. i + 1 = 1
      BY <1>4, <2>1 DEF Ind, TheEndIsSaidOnce
    <2> QED
      BY <2>1, <2>2
  <1>7. Known' = Known
    <2>1. Known = Len(written) + missed + 0 + Len(queue) - 1
      BY <1>1, <1>4 DEF Known, InHand
    <2>2. Known' = Len(written) + missed + 0 + (Len(queue) - 1) - 0
      BY <1>1, <1>4, <1>6 DEF Known, InHand
    <2>3. Len(written) \in Int /\ missed \in Int /\ Len(queue) \in Int
      BY <1>2, Lengths
    <2> QED
      BY <2>1, <2>2, <2>3
  <1>8. Prefixed' /\ EveryRecordIsSomewhere' /\ TheQueueIsTheRest'
    BY <1>1, <1>3, <1>7 DEF Ind, Prefixed, EveryRecordIsSomewhere, TheQueueIsTheRest
  <1>9. TheEndIsSaidOnce'
    <2>1. ASSUME finished'
          PROVE  queue' = <<>> /\ core = "exited" /\ bus = <<>>
      <3>1. queue[1] = Finish
        BY <1>1, <1>4, <2>1
      <3>2. 1 = Len(queue) /\ core = "exited"
        BY <1>4, <3>1 DEF Ind, TheEndIsSaidOnce
      <3>3. bus = <<>>
        BY <1>5, <3>2 DEF Ind, TheEndIsSaidOnce
      <3>4. Len(queue') = 0
        <4>1. Len(queue') = 1 - 1
          BY <1>4, <3>2, Zenon
        <4> QED
          BY <4>1
      <3>5. queue' = <<>>
        BY <3>4, EmptySeq DEF Types, WriterTypes
      <3> QED
        BY <3>2, <3>3, <3>5
    <2> QED
      BY <1>1, <1>6, <2>1 DEF Ind, TheEndIsSaidOnce
  <1>10. TheThreadsKeepStep' /\ TheNamesAreTaken'
    BY <1>1, <1>3, <1>5 DEF TheThreadsKeepStep, TheNamesAreTaken
  <1>11. ANamedLogIsWhole' /\ TheOutcomeFindsTheLogs' /\ TheHoleIsCounted'
    BY <1>1, <1>3 DEF ANamedLogIsWhole, TheOutcomeFindsTheLogs, TheHoleIsCounted
  <1>12. NoEarlierLogInItsPlace'
    BY <1>1 DEF Ind, NoEarlierLogInItsPlace, Recorded
  <1> QED
    BY <1>8, <1>9, <1>10, <1>11, <1>12 DEF Ind

LEMMA IndStores ==
    ASSUME Ind, Types', Stores, UNCHANGED <<feedVars, coreVars, mainVars>>
    PROVE  Ind'
  <1>1. /\ writer = "holds" /\ writer' = "idle" /\ stopped = "no"
        /\ written' = Append(written, inHand)
        /\ UNCHANGED <<queue, stopped, missed, finished, final, bus, core, handed, main>>
    BY DEF Stores, feedVars, coreVars, mainVars
  <1>2. Types
    BY DEF Ind
  <1>3. /\ main \in {"run", "stop", "join"} /\ finished = FALSE /\ Known = Len(handed)
    BY <1>1, WriterWorks
  <1>4. /\ Len(written') = Len(written) + 1 /\ written'[Len(written) + 1] = inHand
        /\ \A i \in 1..Len(written) : written'[i] = written[i]
    <2>1. written \in Seq(Records) /\ inHand \in Records
      BY <1>1, <1>2 DEF Types, WriterTypes
    <2> QED
      BY <1>1, <2>1, Appended
  <1>5. Ends' = Ends /\ DOMAIN queue' = DOMAIN queue
    BY <1>1 DEF Ends
  <1>6. Known' = Known /\ Len(written) + 1 <= Len(handed)
    <2> DEFINE mark == IF Ends = {} THEN 0 ELSE 1
    <2>1. mark \in {0, 1} /\ Known = Len(written) + missed + 1 + Len(queue) - mark
      BY <1>1 DEF Known, InHand
    <2>2. Known' = (Len(written) + 1) + missed + 0 + Len(queue) - mark
      BY <1>1, <1>4, <1>5 DEF Known, InHand
    <2>3. /\ Len(written) \in Nat /\ missed \in Nat /\ Len(queue) \in Nat /\ Len(handed) \in Nat
      BY <1>2, Lengths
    <2>4. Len(queue) - mark >= 0
      BY <1>2, <2>3, Places
    <2> HIDE DEF mark
    <2> QED
      BY <1>3, <2>1, <2>2, <2>3, <2>4
  <1>7. inHand = handed[Len(written) + 1]
    BY <1>1 DEF Ind, TheQueueIsTheRest
  <1>8. Prefixed'
    <2>1. ASSUME NEW i \in 1..(Len(written) + 1)
          PROVE  written'[i] = handed[i]
      <3>1. CASE i = Len(written) + 1
        BY <1>4, <1>7, <3>1
      <3>2. CASE i \in 1..Len(written)
        BY <1>4, <3>2 DEF Ind, Prefixed
      <3> QED
        BY <1>2, <3>1, <3>2, Lengths
    <2> QED
      BY <1>1, <1>4, <1>6, <2>1 DEF Prefixed
  <1>9. EveryRecordIsSomewhere'
    BY <1>1, <1>3, <1>6 DEF Ind, EveryRecordIsSomewhere
  <1>10. TheQueueIsTheRest'
    <2> SUFFICES ASSUME NEW i \in DOMAIN queue, \A j \in 1..i : j \notin Ends
                 PROVE  queue[i] = handed[(Len(written) + 1) + 0 + i]
      BY <1>1, <1>4, <1>5 DEF TheQueueIsTheRest, InHand
    <2>1. queue[i] = handed[Len(written) + 1 + i]
      BY <1>1 DEF Ind, TheQueueIsTheRest, InHand
    <2>2. Len(written) + 1 + i = (Len(written) + 1) + 0 + i
      BY <1>2, Lengths, Places
    <2> QED
      BY <2>1, <2>2
  <1>11. TheEndIsSaidOnce'
    BY <1>1, <1>3, <1>5 DEF Ind, TheEndIsSaidOnce
  <1>12. /\ TheThreadsKeepStep' /\ TheNamesAreTaken' /\ ANamedLogIsWhole'
         /\ NoEarlierLogInItsPlace' /\ TheOutcomeFindsTheLogs' /\ TheHoleIsCounted'
    BY <1>1, NoNameTaken
  <1> QED
    BY <1>8, <1>9, <1>10, <1>11, <1>12 DEF Ind

LEMMA IndDrops ==
    ASSUME Ind, Types', Drops, UNCHANGED <<feedVars, coreVars, mainVars>>
    PROVE  Ind'
  <1>1. /\ writer = "holds" /\ writer' = "idle" /\ stopped' # "no" /\ missed' = missed + 1
        /\ UNCHANGED <<queue, written, finished, final, bus, core, handed, main>>
    BY DEF Drops, feedVars, coreVars, mainVars
  <1>2. Types
    BY DEF Ind
  <1>3. /\ main \in {"run", "stop", "join"} /\ finished = FALSE /\ Known = Len(handed)
    BY <1>1, WriterWorks
  <1>4. Ends' = Ends
    BY <1>1 DEF Ends
  <1>5. Known' = Known
    <2> DEFINE mark == IF Ends = {} THEN 0 ELSE 1
    <2>1. mark \in Int /\ Known = Len(written) + missed + 1 + Len(queue) - mark
      BY <1>1 DEF Known, InHand
    <2>2. Known' = Len(written) + (missed + 1) + 0 + Len(queue) - mark
      BY <1>1, <1>4 DEF Known, InHand
    <2>3. Len(written) \in Int /\ missed \in Int /\ Len(queue) \in Int
      BY <1>2, Lengths
    <2> HIDE DEF mark
    <2> QED
      BY <2>1, <2>2, <2>3
  <1>6. Prefixed' /\ EveryRecordIsSomewhere' /\ TheQueueIsTheRest'
    BY <1>1, <1>3, <1>5 DEF Ind, Prefixed, EveryRecordIsSomewhere, TheQueueIsTheRest
  <1>7. TheEndIsSaidOnce'
    BY <1>1, <1>3, <1>4 DEF Ind, TheEndIsSaidOnce
  <1>8. /\ TheThreadsKeepStep' /\ TheNamesAreTaken' /\ ANamedLogIsWhole'
        /\ NoEarlierLogInItsPlace' /\ TheOutcomeFindsTheLogs' /\ TheHoleIsCounted'
    BY <1>1, NoNameTaken
  <1> QED
    BY <1>6, <1>7, <1>8 DEF Ind

(* The close, and the two names: the queue is no longer read. *)
LEMMA IndCloses ==
    ASSUME Ind, Types', Closes, UNCHANGED <<feedVars, coreVars, mainVars>>
    PROVE  Ind'
  <1>1. /\ writer = "flush" /\ writer' \in {"events", "ended"}
        /\ writer' = "events" => finished /\ stopped = "no"
        /\ (writer' = "ended" /\ finished /\ stopped = "no") => closeError' = TRUE
        /\ UNCHANGED <<queue, stopped, missed, inHand, finished, written, final, bus, core, handed,
                       wantsSignals, main, outcome>>
    BY DEF Closes, feedVars, coreVars, handVars, mainVars
  <1>2. main = "join" /\ outcome = "none" /\ \A f \in Files : final[f] # "ours"
    BY <1>1 DEF Ind, TheThreadsKeepStep, TheNamesAreTaken, Types, MainTypes
  <1>3. Ends' = Ends
    BY <1>1 DEF Ends
  <1>4. Known' = Known
    BY <1>1, <1>3 DEF Known, InHand
  <1>5. Prefixed' /\ EveryRecordIsSomewhere' /\ TheQueueIsTheRest'
    BY <1>1, <1>4 DEF Ind, Prefixed, EveryRecordIsSomewhere, TheQueueIsTheRest
  <1>6. TheEndIsSaidOnce'
    BY <1>1, <1>3 DEF Ind, TheEndIsSaidOnce
  <1>7. TheThreadsKeepStep' /\ TheNamesAreTaken'
    BY <1>1, <1>2 DEF TheThreadsKeepStep, TheNamesAreTaken
  <1>8. ANamedLogIsWhole' /\ TheOutcomeFindsTheLogs' /\ TheHoleIsCounted'
    BY <1>1, <1>2 DEF ANamedLogIsWhole, TheOutcomeFindsTheLogs, TheHoleIsCounted
  <1>9. NoEarlierLogInItsPlace'
    BY <1>1 DEF Ind, NoEarlierLogInItsPlace, Recorded
  <1> QED
    BY <1>5, <1>6, <1>7, <1>8, <1>9 DEF Ind

(* A finish without a stop has written everything. *)
LEMMA FinishedIsWhole ==
    ASSUME Ind, writer \in {"events", "signals"}
    PROVE  written = handed /\ bus = <<>> /\ core = "exited"
  <1>1. finished /\ stopped = "no" /\ missed = 0 /\ queue = <<>> /\ bus = <<>> /\ core = "exited"
    BY DEF Ind, TheNamesAreTaken, EveryRecordIsSomewhere, TheEndIsSaidOnce
  <1>2. Known = Len(handed)
    BY DEF Ind, TheThreadsKeepStep, EveryRecordIsSomewhere
  <1>3. Len(queue) = 0 /\ Ends = {}
    BY <1>1, EmptySeq DEF Ends
  <1>4. Known = Len(written) + 0 + 0 + 0 - 0
    BY <1>1, <1>3 DEF Known, InHand
  <1>5. Len(written) = Len(handed)
    BY <1>2, <1>4, Lengths DEF Ind
  <1>6. written = handed
    BY <1>5, SeqEqual DEF Ind, Prefixed, Types, CoreTypes, WriterTypes
  <1> QED
    BY <1>1, <1>6

LEMMA IndNames ==
    ASSUME Ind, Types', NEW file \in Files, Names(file), UNCHANGED <<feedVars, coreVars, mainVars>>
    PROVE  Ind'
  <1>1. /\ writer = file /\ writer' = (IF file = "events" /\ wantsSignals THEN "signals" ELSE "ended")
        /\ \/ final' = [final EXCEPT ![file] = "ours"] /\ closeError' = closeError
           \/ final' = final /\ closeError' = TRUE
        /\ UNCHANGED <<queue, stopped, missed, inHand, finished, written, bus, core, handed,
                       wantsSignals, main, outcome>>
    BY DEF Names, feedVars, coreVars, handVars, mainVars
  <1>2. final \in [Files -> Logs] /\ wantsSignals \in BOOLEAN
    BY DEF Ind, Types, MainTypes
  <1>3. /\ writer \in {"events", "signals"} /\ finished /\ stopped = "no"
        /\ main = "join" /\ outcome = "none"
    BY <1>1 DEF Files, Ind, TheThreadsKeepStep, TheNamesAreTaken, Types, MainTypes
  <1>4. written = handed /\ bus = <<>> /\ core = "exited"
    BY <1>3, FinishedIsWhole
  <1>5. \A f \in Files : final'[f] \in {"ours", final[f]}
    BY <1>1, <1>2
  <1>6. Ends' = Ends
    BY <1>1 DEF Ends
  <1>7. writer' \in {"signals", "ended"}
    BY <1>1
  <1>8. Known' = Known
    BY <1>1, <1>3, <1>6, <1>7 DEF Known, InHand
  <1>9. Prefixed' /\ EveryRecordIsSomewhere' /\ TheQueueIsTheRest'
    BY <1>1, <1>7, <1>8 DEF Ind, Prefixed, EveryRecordIsSomewhere, TheQueueIsTheRest
  <1>10. TheEndIsSaidOnce'
    BY <1>1, <1>3, <1>6, <1>7 DEF Ind, TheEndIsSaidOnce
  <1>11. TheThreadsKeepStep'
    BY <1>1, <1>3, <1>7 DEF TheThreadsKeepStep
  <1>12. TheNamesAreTaken'
    <2>1. file = "events" => closeError' \/ final'["events"] = "ours"
      BY <1>1, <1>2 DEF Files, Ind, Types, WriterTypes
    <2>2. writer' = "signals" => wantsSignals /\ (closeError' \/ final'["events"] = "ours")
      BY <1>1, <2>1
    <2>3. ASSUME writer' = "ended", ~closeError'
          PROVE  \A f \in Recorded : final'[f] = "ours"
      <3>1. final' = [final EXCEPT ![file] = "ours"] /\ ~closeError
        BY <1>1, <2>3
      <3>2. CASE file = "events"
        <4>1. Recorded = {"events"}
          BY <1>1, <2>3, <3>2 DEF Recorded
        <4> QED
          BY <1>2, <3>1, <3>2, <4>1 DEF Files
      <3>3. CASE file = "signals"
        <4>1. final["events"] = "ours"
          BY <1>1, <3>1, <3>3 DEF Ind, TheNamesAreTaken
        <4> QED
          BY <1>2, <3>1, <3>3, <4>1 DEF Files, Recorded
      <3> QED
        BY <3>2, <3>3 DEF Files
    <2>4. Recorded' = Recorded
      BY <1>1 DEF Recorded
    <2> QED
      BY <1>1, <1>3, <1>7, <2>2, <2>3, <2>4 DEF TheNamesAreTaken
  <1>13. ANamedLogIsWhole' /\ TheOutcomeFindsTheLogs' /\ TheHoleIsCounted'
    BY <1>1, <1>3, <1>4 DEF ANamedLogIsWhole, TheOutcomeFindsTheLogs, TheHoleIsCounted
  <1>14. NoEarlierLogInItsPlace'
    <2>1. \A f \in Recorded : final[f] # "earlier"
      BY <1>3 DEF Ind, NoEarlierLogInItsPlace
    <2>2. \A f \in Recorded : f \in Files
      BY DEF Recorded, Files
    <2>3. \A f \in Recorded : final'[f] # "earlier"
      BY <1>5, <2>1, <2>2
    <2>4. wantsSignals => "signals" \in Recorded
      BY DEF Recorded, Files
    <2>5. Recorded' = Recorded
      BY <1>1 DEF Recorded
    <2> QED
      BY <1>1, <2>3, <2>4, <2>5 DEF NoEarlierLogInItsPlace
  <1> QED
    BY <1>9, <1>10, <1>11, <1>12, <1>13, <1>14 DEF Ind

LEMMA IndWriter ==
    ASSUME Ind, WriterStep
    PROVE  Ind'
  <1>1. Types' /\ UNCHANGED <<feedVars, coreVars, mainVars>>
    BY TypesWriter, WriterStepDoes DEF Ind
  <1>2. \/ TakesRecord \/ TakesEnd \/ Stores \/ Drops \/ Closes
        \/ Names("events") \/ Names("signals")
    BY WriterStepDoes DEF Ind
  <1>3. "events" \in Files /\ "signals" \in Files
    BY DEF Files
  <1> QED
    BY <1>1, <1>2, <1>3, IndTakesRecord, IndTakesEnd, IndStores, IndDrops, IndCloses, IndNames

(* The session's thread: the names it clears before the two others are started. *)
LEMMA IndClears ==
    ASSUME Ind, Types', NEW file \in Files, Clears(file)
    PROVE  Ind'
  <1>1. /\ main = (IF file = "events" THEN "clean events" ELSE "clean signals")
        /\ \/ /\ final' = [final EXCEPT ![file] = "none"]
              /\ main' = (IF file = "events" /\ wantsSignals THEN "clean signals" ELSE "run")
           \/ final' = final /\ main' = "over"
        /\ IF main' = "run" THEN writer' = "idle" /\ core' = "drain" ELSE UNCHANGED <<writer, core>>
        /\ UNCHANGED <<bus, handed, handVars, queue, stopped, missed, inHand, finished, written,
                       wantsSignals, outcome>>
    BY DEF Clears, feedVars, handVars
  <1>2. /\ main \in {"clean events", "clean signals"} /\ writer = "none" /\ core = "exited"
        /\ handed = <<>> /\ queue = <<>> /\ finished = FALSE /\ outcome = "none"
        /\ \A f \in Files : final[f] # "ours"
    BY <1>1 DEF Files, Ind, TheThreadsKeepStep, TheEndIsSaidOnce, TheNamesAreTaken, Types,
                WriterTypes, MainTypes
  <1>3. writer' \in {"none", "idle"} /\ (writer' = writer \/ writer' = "idle")
    BY <1>1, <1>2
  <1>4. Ends' = Ends /\ Ends = {} /\ Known' = Known /\ Prefixed' /\ TheQueueIsTheRest'
    <2>1. Ends = {}
      <3>1. Len(queue) = 0
        BY <1>2, EmptySeq
      <3> QED
        BY <3>1, Places DEF Ind
    <2> QED
      BY <1>1, <1>2, <1>3, <2>1, SameHands
  <1>5. Known = Len(handed)
    BY <1>2 DEF Ind, EveryRecordIsSomewhere
  <1>6. EveryRecordIsSomewhere'
    BY <1>1, <1>4, <1>5 DEF Ind, EveryRecordIsSomewhere
  <1>7. main' \in {"clean signals", "run", "over"}
    BY <1>1
  <1>8. bus = <<>>
    BY <1>2 DEF Ind, TheEndIsSaidOnce
  <1>9. TheEndIsSaidOnce'
    BY <1>1, <1>2, <1>4, <1>8 DEF TheEndIsSaidOnce
  <1>10. TheThreadsKeepStep'
    BY <1>1, <1>2, <1>7 DEF TheThreadsKeepStep
  <1>11. final \in [Files -> Logs] /\ wantsSignals \in BOOLEAN
    BY DEF Ind, Types, MainTypes
  <1>12. \A f \in Files : final'[f] \in {"none", final[f]}
    BY <1>1, <1>11
  <1>13. TheNamesAreTaken'
    <2>1. main' = "clean signals" => wantsSignals /\ final'["events"] # "earlier"
      BY <1>1, <1>2, <1>11 DEF Files
    <2>2. writer' \in {"none", "idle"} /\ main' # "join" /\ \A f \in Files : final'[f] # "ours"
      BY <1>2, <1>3, <1>7, <1>12
    <2> QED
      BY <1>1, <2>1, <2>2 DEF TheNamesAreTaken
  <1>14. ANamedLogIsWhole' /\ TheOutcomeFindsTheLogs' /\ TheHoleIsCounted'
    BY <1>1, <1>2, <1>12 DEF ANamedLogIsWhole, TheOutcomeFindsTheLogs, TheHoleIsCounted
  <1>15. NoEarlierLogInItsPlace'
    <2>1. ASSUME main' = "run"
          PROVE  \A f \in Recorded : final'[f] # "earlier"
      <3>1. final' = [final EXCEPT ![file] = "none"]
        BY <1>1, <2>1
      <3>2. CASE file = "events"
        <4>1. Recorded = {"events"}
          BY <1>1, <1>11, <2>1, <3>2 DEF Recorded
        <4> QED
          BY <1>11, <3>1, <3>2, <4>1 DEF Files
      <3>3. CASE file = "signals"
        <4>1. final["events"] # "earlier"
          BY <1>1, <3>3 DEF Ind, TheNamesAreTaken
        <4> QED
          BY <1>11, <3>1, <3>3, <4>1 DEF Files, Recorded
      <3> QED
        BY <3>2, <3>3 DEF Files
    <2>2. Recorded' = Recorded
      BY <1>1 DEF Recorded
    <2>3. final'["events"] # "ours"
      BY <1>2, <1>12 DEF Files
    <2> QED
      BY <1>7, <2>1, <2>2, <2>3 DEF NoEarlierLogInItsPlace
  <1> QED
    BY <1>4, <1>6, <1>9, <1>10, <1>13, <1>14, <1>15 DEF Ind

(* The message that ends the recording. *)
LEMMA IndSays ==
    ASSUME Ind, Types', NEW msg \in {Finish, Close}, Says(msg)
    PROVE  Ind'
  <1>1. /\ main \in {"run", "stop"} /\ main' = "join" /\ (msg = Finish => core = "exited")
        /\ UNCHANGED <<stopped, missed, bus, core, handed, writer, inHand, finished, closeError,
                       written, final, wantsSignals, outcome>>
    BY DEF Says, feedVars, coreVars, writerVars
  <1>2. /\ writer \in {"idle", "holds"} /\ finished = FALSE /\ outcome = "none" /\ Ends = {}
        /\ Known = Len(handed) /\ \A f \in Files : final[f] # "ours"
    <2>1. writer \in {"idle", "holds"}
      BY <1>1 DEF Ind, TheThreadsKeepStep
    <2> QED
      BY <1>1, <2>1, WriterWorks DEF Ind, TheEndIsSaidOnce
  <1>3. queue' = Append(queue, msg)
    BY <1>2 DEF Says
  <1>4. Types
    BY DEF Ind
  <1>5. /\ Ends' = {Len(queue) + 1} /\ Len(queue') = Len(queue) + 1
        /\ queue'[Len(queue) + 1] = msg /\ \A i \in 1..Len(queue) : queue'[i] = queue[i]
    BY <1>2, <1>3, <1>4, EndsWithAnEnd
  <1>6. DOMAIN queue = 1..Len(queue) /\ DOMAIN queue' = 1..(Len(queue) + 1)
    BY <1>4, <1>5, LenProperties DEF Types, WriterTypes
  <1>7. Known' = Known
    <2>1. Known = Len(written) + missed + InHand + Len(queue) - 0
      BY <1>2 DEF Known
    <2>2. Known' = Len(written) + missed + InHand + (Len(queue) + 1) - 1
      BY <1>1, <1>5 DEF Known, InHand
    <2>3. Len(written) \in Int /\ missed \in Int /\ InHand \in Int /\ Len(queue) \in Int
      BY <1>4, Lengths DEF InHand
    <2> QED
      BY <2>1, <2>2, <2>3
  <1>8. Prefixed' /\ EveryRecordIsSomewhere'
    BY <1>1, <1>2, <1>7 DEF Ind, Prefixed, EveryRecordIsSomewhere
  <1>9. TheQueueIsTheRest'
    <2> SUFFICES ASSUME stopped = "no"
                 PROVE  /\ writer = "holds" => inHand = handed[Len(written) + 1]
                        /\ \A i \in 1..(Len(queue) + 1) :
                              (\A j \in 1..i : j \notin Ends') =>
                                  queue'[i] = handed[Len(written) + InHand + i]
      BY <1>1, <1>6 DEF TheQueueIsTheRest, InHand
    <2>1. /\ writer = "holds" => inHand = handed[Len(written) + 1]
          /\ \A i \in 1..Len(queue) : queue[i] = handed[Len(written) + InHand + i]
      BY <1>2, <1>6 DEF Ind, TheQueueIsTheRest
    <2>2. ASSUME NEW i \in 1..(Len(queue) + 1), \A j \in 1..i : j \notin Ends'
          PROVE  i \in 1..Len(queue)
      <3>1. i # Len(queue) + 1
        BY <1>4, <1>5, <2>2, Lengths
      <3> QED
        BY <1>4, <3>1, Lengths
    <2> QED
      BY <1>5, <2>1, <2>2
  <1>10. TheEndIsSaidOnce'
    BY <1>1, <1>2, <1>5 DEF Ind, TheEndIsSaidOnce
  <1>11. TheThreadsKeepStep' /\ TheNamesAreTaken'
    BY <1>1, <1>2 DEF TheThreadsKeepStep, TheNamesAreTaken
  <1>12. ANamedLogIsWhole' /\ TheOutcomeFindsTheLogs' /\ TheHoleIsCounted'
    BY <1>1, <1>2 DEF ANamedLogIsWhole, TheOutcomeFindsTheLogs, TheHoleIsCounted
  <1>13. NoEarlierLogInItsPlace'
    BY <1>1 DEF Ind, NoEarlierLogInItsPlace, Recorded
  <1> QED
    BY <1>8, <1>9, <1>10, <1>11, <1>12, <1>13 DEF Ind

LEMMA IndJoin ==
    ASSUME Ind, Types', Join
    PROVE  Ind'
  <1>1. /\ main = "join" /\ writer = "ended" /\ main' = "over" /\ core' = "exited"
        /\ UNCHANGED <<bus, handed, queue, missed, writer, inHand, finished, closeError, written,
                       final, wantsSignals>>
    BY DEF Join, feedVars, writerVars
  <1>2. /\ stopped' = "no" => stopped = "no"
        /\ outcome' # outcome => finished
        /\ outcome' = "final" => outcome = "final" \/ (finished /\ stopped = "no" /\ ~closeError)
    BY DEF Join
  <1>3. outcome = "none"
    BY <1>1 DEF Ind, TheThreadsKeepStep, Types, MainTypes
  <1>4. Ends' = Ends
    BY <1>1 DEF Ends
  <1>5. Known' = Known /\ Known = Len(handed)
    BY <1>1, <1>4 DEF Known, InHand, Ind, EveryRecordIsSomewhere
  <1>6. Prefixed' /\ EveryRecordIsSomewhere' /\ TheQueueIsTheRest'
    <2>1. Types
      BY DEF Ind
    <2> QED
      BY <1>1, <1>2, <1>5, <2>1, Lengths
         DEF Ind, Prefixed, EveryRecordIsSomewhere, TheQueueIsTheRest
  <1>7. TheEndIsSaidOnce'
    <2>1. Ends = {}
      BY <1>1 DEF Ind, TheEndIsSaidOnce
    <2> QED
      BY <1>1, <1>4, <2>1 DEF Ind, TheEndIsSaidOnce
  <1>8. TheThreadsKeepStep'
    BY <1>1 DEF TheThreadsKeepStep
  <1>9. TheNamesAreTaken' /\ ANamedLogIsWhole'
    BY <1>1 DEF Ind, TheNamesAreTaken, ANamedLogIsWhole
  <1>10. NoEarlierLogInItsPlace'
    BY <1>1 DEF Ind, NoEarlierLogInItsPlace
  <1>11. TheOutcomeFindsTheLogs'
    BY <1>1, <1>2, <1>3 DEF Ind, TheNamesAreTaken, TheOutcomeFindsTheLogs, Recorded
  <1>12. TheHoleIsCounted'
    <2> SUFFICES ASSUME finished
                 PROVE  Len(written) + missed = Len(handed)
      BY <1>1, <1>2, <1>3 DEF TheHoleIsCounted
    <2>1. Len(queue) = 0 /\ Ends = {}
      BY EmptySeq DEF Ind, TheEndIsSaidOnce, Ends
    <2>2. Known = Len(written) + missed + 0 + 0 - 0
      BY <1>1, <2>1 DEF Known, InHand
    <2> QED
      BY <1>5, <2>2, Lengths DEF Ind
  <1> QED
    BY <1>6, <1>7, <1>8, <1>9, <1>10, <1>11, <1>12 DEF Ind

LEMMA IndQuiet ==
    ASSUME Ind, Types', Quiet,
           \/ main = "start" /\ main' \in {"clean events", "over"}
           \/ main = "run" /\ main' = "stop"
    PROVE  Ind'
  <1>1. UNCHANGED <<handVars, bus, core, handed, queue, stopped, missed, writer, inHand, finished,
                    closeError, written, final, wantsSignals, outcome>>
    BY DEF Quiet, feedVars, coreVars, handVars, writerVars
  <1>2. Ends' = Ends /\ Known' = Known /\ Prefixed' /\ TheQueueIsTheRest'
    BY <1>1, SameHands
  <1>3. Known = Len(handed) /\ EveryRecordIsSomewhere'
    BY <1>1, <1>2 DEF Ind, EveryRecordIsSomewhere
  <1>4. main = "start" => core = "exited"
    BY DEF Ind, TheEndIsSaidOnce
  <1>5. TheEndIsSaidOnce'
    BY <1>1, <1>2, <1>4 DEF Ind, TheEndIsSaidOnce
  <1>6. TheThreadsKeepStep'
    BY <1>1 DEF Ind, TheThreadsKeepStep
  <1>7. TheNamesAreTaken' /\ ANamedLogIsWhole'
    BY <1>1 DEF Ind, TheNamesAreTaken, ANamedLogIsWhole
  <1>8. TheOutcomeFindsTheLogs' /\ TheHoleIsCounted'
    BY <1>1 DEF Ind, TheOutcomeFindsTheLogs, TheHoleIsCounted, Recorded
  <1>9. NoEarlierLogInItsPlace'
    BY <1>1 DEF Ind, NoEarlierLogInItsPlace, Recorded
  <1> QED
    BY <1>2, <1>3, <1>5, <1>6, <1>7, <1>8, <1>9 DEF Ind

LEMMA IndMain ==
    ASSUME Ind, MainStep \/ RequestStop \/ Abandon
    PROVE  Ind'
  <1>1. Types'
    BY TypesMain DEF Ind
  <1>2. \/ Clears("events") \/ Clears("signals") \/ Says(Finish) \/ Says(Close) \/ Join
        \/ Quiet /\ main = "start" /\ main' \in {"clean events", "over"}
        \/ Quiet /\ main = "run" /\ main' = "stop"
    BY MainDoes DEF Ind
  <1>3. "events" \in Files /\ "signals" \in Files
    BY DEF Files
  <1> QED
    BY <1>1, <1>2, <1>3, IndClears, IndSays, IndJoin, IndQuiet

(* The kill loses what is in memory, and nothing else. *)
LEMMA IndKill ==
    ASSUME Ind, Kill
    PROVE  Ind'
  <1>1. /\ main # "over" /\ main' = "over" /\ core' = "exited" /\ writer' = "ended"
        /\ bus' = <<>> /\ queue' = <<>> /\ stopped' = "no" /\ missed' = 0
        /\ UNCHANGED <<handed, finished, closeError, written, final, wantsSignals, outcome>>
    BY DEF Kill
  <1>2. Types'
    BY TypesNext DEF Ind, Next
  <1>3. outcome = "none"
    BY <1>1 DEF Ind, TheThreadsKeepStep, Types, MainTypes
  <1>4. Ends' = {} /\ Len(queue') = 0
    BY <1>1, EmptySeq DEF Ends
  <1>5. Known' = Len(written) + 0 + 0 + 0 - 0
    BY <1>1, <1>4 DEF Known, InHand
  <1>6. Prefixed' /\ EveryRecordIsSomewhere' /\ TheQueueIsTheRest'
    <2>1. Types
      BY DEF Ind
    <2> QED
      BY <1>1, <1>5, <2>1, Lengths
         DEF Ind, Prefixed, EveryRecordIsSomewhere, TheQueueIsTheRest
  <1>7. TheEndIsSaidOnce' /\ TheThreadsKeepStep'
    BY <1>1, <1>3, <1>4 DEF TheEndIsSaidOnce, TheThreadsKeepStep
  <1>8. TheNamesAreTaken' /\ ANamedLogIsWhole'
    BY <1>1 DEF Ind, TheNamesAreTaken, ANamedLogIsWhole
  <1>9. NoEarlierLogInItsPlace'
    BY <1>1 DEF Ind, NoEarlierLogInItsPlace
  <1>10. TheOutcomeFindsTheLogs' /\ TheHoleIsCounted'
    BY <1>1, <1>3 DEF TheOutcomeFindsTheLogs, TheHoleIsCounted
  <1> QED
    BY <1>2, <1>6, <1>7, <1>8, <1>9, <1>10 DEF Ind

LEMMA IndStutters ==
    ASSUME Ind, UNCHANGED vars
    PROVE  Ind'
  <1>1. UNCHANGED <<bus, published, ring, pushed, core, clock, lastPass, budget, release, handed,
                    reads, queue, stopped, missed, writer, inHand, finished, closeError, written,
                    final, wantsSignals, main, outcome, faults>>
    BY DEF vars, feedVars, coreVars, handVars, writerVars, mainVars
  <1>2. Types'
    <2>1. CoreTypes'
      BY <1>1 DEF Ind, Types, CoreTypes
    <2>2. WriterTypes'
      BY <1>1 DEF Ind, Types, WriterTypes
    <2>3. MainTypes'
      BY <1>1 DEF Ind, Types, MainTypes
    <2> QED
      BY <2>1, <2>2, <2>3 DEF Types
  <1>3. Ends' = Ends /\ Known' = Known /\ Prefixed' /\ TheQueueIsTheRest'
    BY <1>1, SameHands DEF handVars
  <1>4. EveryRecordIsSomewhere' /\ TheEndIsSaidOnce' /\ TheThreadsKeepStep'
    BY <1>1, <1>3 DEF Ind, EveryRecordIsSomewhere, TheEndIsSaidOnce, TheThreadsKeepStep
  <1>5. TheNamesAreTaken' /\ ANamedLogIsWhole' /\ NoEarlierLogInItsPlace'
    BY <1>1 DEF Ind, TheNamesAreTaken, ANamedLogIsWhole, NoEarlierLogInItsPlace, Recorded
  <1>6. TheOutcomeFindsTheLogs' /\ TheHoleIsCounted'
    BY <1>1 DEF Ind, TheOutcomeFindsTheLogs, TheHoleIsCounted, Recorded
  <1> QED
    BY <1>2, <1>3, <1>4, <1>5, <1>6 DEF Ind

(* The two files of a session are a beginning of what the core handed over,
   with no hole; a file under its real name is all of it, and no log of an
   earlier session waits in its place; what finish counts and reports is so.
   For every feed, queue, cap and number of failures, kills included. *)
THEOREM LogsAreTrue == Spec => []LogsInv
  <1>1. Init => Ind
    BY IndInit
  <1>2. Ind /\ [Next]_vars => Ind'
    BY IndFeed, IndCore, IndWriter, IndMain, IndKill, IndStutters DEF Next
  <1>3. Ind => LogsInv
    BY IndImpliesLogs
  <1> QED
    BY <1>1, <1>2, <1>3, PTL DEF Spec

-----------------------------------------------------------------------------
(* Walks: a recursion over the places of a sequence has the value at every *)
(* place that one step makes of the value before.                          *)

Steps(g, n, S) == \A k \in 1..n : \A x \in S : g[k][x] \in S

Walks(f, g, a, n, S) ==
    f \in [0..n -> S] /\ f[0] = a /\ \A k \in 1..n : f[k] = g[k][f[k - 1]]

LEMMA Walk ==
    ASSUME NEW S, NEW a \in S, NEW n \in Nat, NEW g, Steps(g, n, S)
    PROVE  \E f : Walks(f, g, a, n, S)
  <1> USE DEF Steps, Walks
  <1> DEFINE Goes(f, m) == Walks(f, g, a, m, S)
             bad == {m \in 0..n : ~\E f : Goes(f, m)}
  <1>1. SUFFICES ASSUME bad # {}
                 PROVE  FALSE
    <2>1. n \in 0..n /\ n \notin bad
      BY <1>1
    <2>2. PICK f : Goes(f, n)
      BY <2>1
    <2> QED
      BY <2>2
  <1>2. PICK m \in bad : \A k \in bad : m <= k
    <2>1. bad \in SUBSET Nat
      OBVIOUS
    <2> HIDE DEF bad
    <2> QED
      BY <1>1, <2>1, LeastNumber
  <1>3. CASE m = 0
    <2> DEFINE f == [k \in 0..0 |-> a]
    <2>1. Goes(f, 0)
      OBVIOUS
    <2> QED
      BY <1>2, <1>3, <2>1
  <1>4. CASE m # 0
    <2>1. m \in 1..n /\ m - 1 \in 0..n /\ ~(m <= m - 1)
      BY <1>2, <1>4
    <2>2. m - 1 \notin bad
      <3> HIDE DEF bad
      <3> QED
        BY <1>2, <2>1
    <2>3. PICK f : Goes(f, m - 1)
      BY <2>1, <2>2
    <2> DEFINE h == [k \in 0..m |-> IF k = m THEN g[m][f[m - 1]] ELSE f[k]]
    <2>4. f[m - 1] \in S /\ g[m][f[m - 1]] \in S
      BY <2>1, <2>3
    <2>5. h \in [0..m -> S] /\ h[0] = a
      BY <2>1, <2>3, <2>4
    <2>6. ASSUME NEW k \in 1..m
          PROVE  h[k] = g[k][h[k - 1]]
      <3>1. CASE k = m
        <4>1. h[m] = g[m][f[m - 1]] /\ h[m - 1] = f[m - 1]
          BY <2>1
        <4> QED
          BY <3>1, <4>1
      <3>2. CASE k # m
        <4>1. k \in 1..(m - 1) /\ h[k] = f[k] /\ h[k - 1] = f[k - 1]
          BY <2>1, <3>2
        <4> QED
          BY <2>3, <4>1
      <3> QED
        BY <3>1, <3>2
    <2>7. Goes(h, m)
      BY <2>5, <2>6
    <2> QED
      BY <1>2, <2>7
  <1> QED
    BY <1>3, <1>4

-----------------------------------------------------------------------------
(* The records of some kinds.                                              *)

Chooses(f, recs, kinds) ==
    f = [n \in 0..Len(recs) |->
            IF n = 0 THEN <<>>
            ELSE IF recs[n].kind \in kinds THEN Append(f[n-1], recs[n]) ELSE f[n-1]]

LEMMA ChosenUnfolds ==
    ASSUME NEW recs, NEW kinds
    PROVE  OfKind(recs, kinds) = (CHOOSE f : Chooses(f, recs, kinds))[Len(recs)]
  BY DEF OfKind, Chooses

LEMMA ChosenIs ==
    ASSUME NEW R, NEW recs \in Seq(R), NEW kinds
    PROVE  \E f : Chooses(f, recs, kinds) /\ OfKind(recs, kinds) = f[Len(recs)]
  <1> DEFINE n == Len(recs)
             S == Seq(R)
             g == [k \in 1..n |-> [s \in S |-> IF recs[k].kind \in kinds THEN Append(s, recs[k]) ELSE s]]
  <1>1. n \in Nat /\ \A k \in 1..n : recs[k] \in R
    BY LenProperties, ElementOfSeq
  <1>2. <<>> \in S
    BY EmptySeq
  <1>3. ASSUME NEW k \in 1..n, NEW s \in S
        PROVE  /\ g[k][s] = IF recs[k].kind \in kinds THEN Append(s, recs[k]) ELSE s
               /\ g[k][s] \in S
    <2>1. Append(s, recs[k]) \in S
      BY <1>1, AppendProperties
    <2> QED
      BY <2>1
  <1>4. PICK f \in [0..n -> S] : f[0] = <<>> /\ \A k \in 1..n : f[k] = g[k][f[k - 1]]
    <2> HIDE DEF n, S, g
    <2>1. Steps(g, n, S)
      BY <1>3 DEF Steps
    <2>2. PICK f : Walks(f, g, <<>>, n, S)
      BY <1>1, <1>2, <2>1, Walk
    <2> QED
      BY <2>2 DEF Walks
  <1>5. ASSUME NEW k \in 0..n
        PROVE  f[k] = IF k = 0 THEN <<>>
                      ELSE IF recs[k].kind \in kinds THEN Append(f[k - 1], recs[k]) ELSE f[k - 1]
    <2>1. CASE k = 0
      BY <1>4, <2>1
    <2>2. CASE k # 0
      <3>1. k \in 1..n /\ k - 1 \in 0..n
        BY <1>1, <2>2
      <3>2. f[k - 1] \in S
        BY <1>4, <3>1
      <3> HIDE DEF g, S
      <3> QED
        BY <1>3, <1>4, <2>2, <3>1, <3>2
    <2> QED
      BY <2>1, <2>2
  <1>6. Chooses(f, recs, kinds)
    <2>1. f = [k \in 0..n |-> f[k]]
      BY <1>4
    <2>2. f = [k \in 0..n |->
                  IF k = 0 THEN <<>>
                  ELSE IF recs[k].kind \in kinds THEN Append(f[k - 1], recs[k]) ELSE f[k - 1]]
      <3> HIDE DEF g, S, n
      <3> QED
        BY <1>5, <2>1
    <2> QED
      BY <2>2 DEF Chooses
  <1> QED
    BY <1>6, ChosenUnfolds

LEMMA ChosenAt ==
    ASSUME NEW recs, NEW kinds, NEW f, Chooses(f, recs, kinds), NEW k \in 0..Len(recs)
    PROVE  f[k] = IF k = 0 THEN <<>>
                  ELSE IF recs[k].kind \in kinds THEN Append(f[k - 1], recs[k]) ELSE f[k - 1]
  <1>1. f = [n \in 0..Len(recs) |->
              IF n = 0 THEN <<>>
              ELSE IF recs[n].kind \in kinds THEN Append(f[n-1], recs[n]) ELSE f[n-1]]
    BY DEF Chooses
  <1> QED
    BY <1>1

LEMMA ChosenFromNone ==
    ASSUME NEW kinds
    PROVE  OfKind(<<>>, kinds) = <<>>
  <1>1. <<>> \in Seq({}) /\ Len(<<>>) = 0 /\ 0 \in 0..0
    BY EmptySeq
  <1>2. PICK f : Chooses(f, <<>>, kinds) /\ OfKind(<<>>, kinds) = f[0]
    BY <1>1, ChosenIs
  <1> QED
    BY <1>1, <1>2, ChosenAt

(* What is appended is chosen, or it is not. *)
LEMMA ChosenFromMore ==
    ASSUME NEW R, NEW recs \in Seq(R), NEW x \in R, NEW kinds
    PROVE  OfKind(Append(recs, x), kinds) =
                IF x.kind \in kinds THEN Append(OfKind(recs, kinds), x) ELSE OfKind(recs, kinds)
  <1> DEFINE n == Len(recs)
             more == Append(recs, x)
  <1>1. /\ n \in Nat /\ more \in Seq(R) /\ Len(more) = n + 1 /\ more[n + 1] = x
        /\ \A i \in 1..n : more[i] = recs[i]
    BY LenProperties, AppendProperties
  <1>2. PICK f : Chooses(f, more, kinds) /\ OfKind(more, kinds) = f[n + 1]
    <2> HIDE DEF n, more
    <2> QED
      BY <1>1, ChosenIs
  <1>3. PICK g : Chooses(g, recs, kinds) /\ OfKind(recs, kinds) = g[n]
    BY ChosenIs
  <1>4. ASSUME NEW k \in 0..n
        PROVE  /\ k \in 0..Len(more)
               /\ f[k] = IF k = 0 THEN <<>>
                         ELSE IF recs[k].kind \in kinds THEN Append(f[k - 1], recs[k]) ELSE f[k - 1]
               /\ g[k] = IF k = 0 THEN <<>>
                         ELSE IF recs[k].kind \in kinds THEN Append(g[k - 1], recs[k]) ELSE g[k - 1]
    <2>1. k \in 0..Len(more) /\ (k # 0 => more[k] = recs[k])
      BY <1>1
    <2>2. f[k] = IF k = 0 THEN <<>>
                 ELSE IF more[k].kind \in kinds THEN Append(f[k - 1], more[k]) ELSE f[k - 1]
      <3> HIDE DEF more
      <3> QED
        BY <1>2, <2>1, ChosenAt
    <2>3. g[k] = IF k = 0 THEN <<>>
                 ELSE IF recs[k].kind \in kinds THEN Append(g[k - 1], recs[k]) ELSE g[k - 1]
      BY <1>3, ChosenAt
    <2> HIDE DEF more
    <2> QED
      BY <2>1, <2>2, <2>3
  <1> DEFINE bad == {k \in 0..n : f[k] # g[k]}
  <1>5. bad = {}
    <2> SUFFICES ASSUME bad # {}
                 PROVE  FALSE
      OBVIOUS
    <2>1. PICK m \in bad : \A k \in bad : m <= k
      <3>1. bad \in SUBSET Nat
        BY <1>1
      <3> HIDE DEF bad
      <3> QED
        BY <3>1, LeastNumber
    <2>2. m \in 0..n /\ m # 0
      BY <1>4, <2>1
    <2>3. m - 1 \in 0..n /\ ~(m <= m - 1)
      BY <1>1, <2>2
    <2>4. m - 1 \notin bad
      <3> HIDE DEF bad
      <3> QED
        BY <2>1, <2>3
    <2>5. f[m - 1] = g[m - 1]
      BY <2>3, <2>4
    <2>6. f[m] = g[m]
      <3> HIDE DEF bad, n, more
      <3> QED
        BY <1>4, <2>2, <2>5
    <2> QED
      BY <2>1, <2>6
  <1>6. f[n] = g[n]
    <2>1. n \in 0..n
      BY <1>1
    <2> QED
      BY <1>5, <2>1
  <1>7. f[n + 1] = IF x.kind \in kinds THEN Append(f[n], x) ELSE f[n]
    <2>1. n + 1 \in 0..Len(more) /\ n + 1 # 0 /\ (n + 1) - 1 = n
      BY <1>1
    <2> HIDE DEF n, more, bad
    <2> QED
      BY <1>1, <1>2, <2>1, ChosenAt
  <1> HIDE DEF n, bad
  <1> QED
    BY <1>2, <1>3, <1>6, <1>7

LEMMA ChosenAre ==
    ASSUME NEW R, NEW recs \in Seq(R), NEW kinds
    PROVE  OfKind(recs, kinds) \in Seq({r \in R : r.kind \in kinds})
  <1> DEFINE n == Len(recs)
             C == {r \in R : r.kind \in kinds}
  <1>1. n \in Nat /\ \A k \in 1..n : recs[k] \in R
    BY LenProperties, ElementOfSeq
  <1>2. PICK f : Chooses(f, recs, kinds) /\ OfKind(recs, kinds) = f[n]
    BY ChosenIs
  <1> DEFINE bad == {k \in 0..n : f[k] \notin Seq(C)}
  <1>3. bad = {}
    <2> SUFFICES ASSUME bad # {}
                 PROVE  FALSE
      OBVIOUS
    <2>1. PICK m \in bad : \A k \in bad : m <= k
      <3>1. bad \in SUBSET Nat
        BY <1>1
      <3> HIDE DEF bad
      <3> QED
        BY <3>1, LeastNumber
    <2>2. f[m] = IF m = 0 THEN <<>>
                 ELSE IF recs[m].kind \in kinds THEN Append(f[m - 1], recs[m]) ELSE f[m - 1]
      <3>1. m \in 0..Len(recs)
        BY <2>1
      <3> HIDE DEF bad
      <3> QED
        BY <1>2, <3>1, ChosenAt
    <2>3. CASE m = 0
      BY <2>1, <2>2, <2>3, EmptySeq
    <2>4. CASE m # 0
      <3>1. m \in 1..n /\ m - 1 \in 0..n /\ ~(m <= m - 1)
        BY <1>1, <2>1, <2>4
      <3>2. m - 1 \notin bad
        <4> HIDE DEF bad
        <4> QED
          BY <2>1, <3>1
      <3>3. f[m - 1] \in Seq(C)
        BY <3>1, <3>2
      <3>4. recs[m].kind \in kinds => recs[m] \in C
        BY <1>1, <3>1
      <3>5. f[m] \in Seq(C)
        <4> HIDE DEF bad, C
        <4> QED
          BY <2>2, <2>4, <3>3, <3>4, AppendProperties
      <3> QED
        BY <2>1, <3>5
    <2> QED
      BY <2>3, <2>4
  <1>4. n \in 0..n
    BY <1>1
  <1>5. f[n] \in Seq(C)
    BY <1>3, <1>4
  <1> QED
    BY <1>2, <1>5

-----------------------------------------------------------------------------
(* Event-time order.                                                       *)

Ranked(events, p, n) ==
    p \in [1..n -> 1..n] /\ \A k, l \in 1..n : k < l => Earlier(events, p[k], p[l])

(* Any tape can be put into it: the next event goes behind all that are not
   later. *)
LEMMA SomeRanking ==
    ASSUME NEW events, NEW n \in Nat, \A i \in 1..n : events[i].ts \in Int
    PROVE  \E p : Ranked(events, p, n)
  <1> DEFINE ts(i) == events[i].ts
             bad == {m \in 0..n : ~\E p : Ranked(events, p, m)}
  <1>1. SUFFICES ASSUME bad # {}
                 PROVE  FALSE
    <2>1. n \in 0..n /\ n \notin bad
      BY <1>1
    <2> QED
      BY <2>1
  <1>2. PICK m \in bad : \A k \in bad : m <= k
    <2>1. bad \in SUBSET Nat
      OBVIOUS
    <2> HIDE DEF bad
    <2> QED
      BY <1>1, <2>1, LeastNumber
  <1>3. CASE m = 0
    <2> DEFINE p == [k \in 1..0 |-> 0]
    <2>1. Ranked(events, p, 0)
      BY DEF Ranked
    <2> QED
      BY <1>2, <1>3, <2>1
  <1>4. CASE m # 0
    <2>1. m \in 1..n /\ m - 1 \in 0..n /\ ~(m <= m - 1)
      BY <1>2, <1>4
    <2>2. m - 1 \notin bad
      <3> HIDE DEF bad
      <3> QED
        BY <1>2, <2>1
    <2>3. PICK p : Ranked(events, p, m - 1)
      BY <2>1, <2>2
    <2>4. /\ p \in [1..(m - 1) -> 1..(m - 1)]
          /\ \A k, l \in 1..(m - 1) : k < l => Earlier(events, p[k], p[l])
      BY <2>3 DEF Ranked
    <2>5. \A k \in 1..(m - 1) : p[k] \in 1..(m - 1) /\ ts(p[k]) \in Int
      BY <2>1, <2>4
    <2>6. \A k, l \in 1..(m - 1) : k < l => ts(p[k]) < ts(p[l]) \/ (ts(p[k]) = ts(p[l]) /\ p[k] < p[l])
      BY <2>4 DEF Earlier
    <2>7. ts(m) \in Int
      BY <2>1
    <2> DEFINE later == {k \in 1..m : k = m \/ ts(p[k]) > ts(m)}
    <2>8. PICK cut \in later : \A k \in later : cut <= k
      <3>1. m \in later /\ later \in SUBSET Nat
        BY <2>1
      <3> HIDE DEF later
      <3> QED
        BY <3>1, LeastNumber
    <2>9. /\ cut \in 1..m
          /\ cut < m => ts(p[cut]) > ts(m)
          /\ \A k \in 1..(m - 1) : k < cut => ts(p[k]) <= ts(m)
      <3>1. cut \in 1..m /\ (cut = m \/ ts(p[cut]) > ts(m))
        BY <2>8
      <3>2. ASSUME NEW k \in 1..(m - 1), k < cut
            PROVE  ts(p[k]) <= ts(m)
        <4>1. k \notin later
          <5> HIDE DEF later
          <5> QED
            BY <2>8, <3>1, <3>2
        <4>2. k \in 1..m /\ k # m
          BY <2>1, <3>2
        <4>3. ~(ts(p[k]) > ts(m))
          BY <4>1, <4>2
        <4> HIDE DEF ts, later
        <4> QED
          BY <2>5, <2>7, <4>3
      <3> HIDE DEF ts, later
      <3> QED
        BY <3>1, <3>2
    <2> DEFINE q == [k \in 1..m |-> IF k < cut THEN p[k] ELSE IF k = cut THEN m ELSE p[k - 1]]
    <2>10. ASSUME NEW k \in 1..m
           PROVE  /\ k < cut => q[k] = p[k] /\ k \in 1..(m - 1)
                  /\ k = cut => q[k] = m
                  /\ k > cut => q[k] = p[k - 1] /\ k - 1 \in 1..(m - 1) /\ k - 1 >= cut
      <3> HIDE DEF ts, later
      <3> QED
        BY <2>1, <2>9
    <2>11. \A k \in 1..m : q[k] \in 1..m
      <3> HIDE DEF ts, later, q
      <3> QED
        BY <2>1, <2>5, <2>9, <2>10
    <2> DEFINE Before(i, j) == ts(i) < ts(j) \/ (ts(i) = ts(j) /\ i < j)
    <2>12. ASSUME NEW k \in 1..m, NEW l \in 1..m, k < l
           PROVE  Before(q[k], q[l])
      <3> HIDE DEF later, q
      <3>1. CASE l < cut
        BY <2>6, <2>9, <2>10, <2>12, <3>1
      <3>2. CASE l = cut
        <4>1. q[l] = m /\ q[k] = p[k] /\ k \in 1..(m - 1)
          BY <2>9, <2>10, <2>12, <3>2
        <4>2. ts(p[k]) <= ts(m) /\ p[k] < m /\ ts(p[k]) \in Int
          BY <2>1, <2>5, <2>9, <2>12, <3>2, <4>1
        <4> HIDE DEF ts
        <4> QED
          BY <2>7, <4>1, <4>2
      <3>3. CASE l > cut /\ k < cut
        <4>1. q[k] = p[k] /\ q[l] = p[l - 1] /\ k \in 1..(m - 1) /\ l - 1 \in 1..(m - 1) /\ k < l - 1
          BY <2>9, <2>10, <3>3
        <4> QED
          BY <2>6, <4>1
      <3>4. CASE l > cut /\ k = cut
        <4>1. q[k] = m /\ q[l] = p[l - 1] /\ l - 1 \in 1..(m - 1) /\ cut <= l - 1 /\ cut \in 1..(m - 1)
          BY <2>1, <2>9, <2>10, <3>4
        <4>2. ts(p[cut]) > ts(m)
          BY <2>1, <2>9, <4>1
        <4>3. ts(p[cut]) <= ts(p[l - 1])
          <5>1. CASE cut = l - 1
            BY <2>5, <4>1, <5>1
          <5>2. CASE cut # l - 1
            <6>1. cut < l - 1
              BY <4>1, <5>2
            <6> QED
              BY <2>5, <2>6, <4>1, <6>1
          <5> QED
            BY <5>1, <5>2
        <4>4. ts(p[cut]) \in Int /\ ts(p[l - 1]) \in Int
          BY <2>5, <4>1
        <4> HIDE DEF ts
        <4> QED
          BY <2>7, <4>1, <4>2, <4>3, <4>4
      <3>5. CASE k > cut
        <4>1. q[k] = p[k - 1] /\ q[l] = p[l - 1] /\ k - 1 \in 1..(m - 1) /\ l - 1 \in 1..(m - 1) /\ k - 1 < l - 1
          BY <2>9, <2>10, <2>12, <3>5
        <4> QED
          BY <2>6, <4>1
      <3> QED
        BY <2>9, <2>12, <3>1, <3>2, <3>3, <3>4, <3>5
    <2>13. Ranked(events, q, m)
      <3>1. q = [k \in 1..m |-> q[k]]
        OBVIOUS
      <3> HIDE DEF q, later
      <3>2. q \in [1..m -> 1..m]
        BY <2>11, <3>1
      <3> QED
        BY <2>12, <3>2 DEF Ranked, Earlier
    <2> HIDE DEF q, later
    <2> QED
      BY <1>2, <2>13
  <1> QED
    BY <1>3, <1>4

Stamped(events) == \E X : events \in Seq(X) /\ \A i \in 1..Len(events) : events[i].ts \in Nat

LEMMA TapeIs ==
    ASSUME NEW events, Stamped(events)
    PROVE  /\ Len(events) \in Nat /\ DOMAIN events = 1..Len(events)
           /\ events = [i \in 1..Len(events) |-> events[i]]
           /\ \A i \in 1..Len(events) : events[i].ts \in Nat /\ events[i].ts \in Int
  <1>1. PICK X : events \in Seq(X) /\ \A i \in 1..Len(events) : events[i].ts \in Nat
    BY DEF Stamped
  <1>2. Len(events) \in Nat /\ DOMAIN events = 1..Len(events) /\ events \in [1..Len(events) -> X]
    BY <1>1, LenProperties
  <1> QED
    BY <1>1, <1>2

LEMMA EventTimeOrderIs ==
    ASSUME NEW events, Stamped(events)
    PROVE  \E p : /\ Ranked(events, p, Len(events))
                  /\ EventTimeOrder(events) = [k \in 1..Len(events) |-> events[p[k]]]
  <1> DEFINE n == Len(events)
             order == CHOOSE p \in [1..n -> 1..n] :
                        \A k, l \in 1..n : k < l => Earlier(events, p[k], p[l])
  <1>1. n \in Nat /\ DOMAIN events = 1..n /\ \A i \in 1..n : events[i].ts \in Int
    BY TapeIs
  <1>2. EventTimeOrder(events) = [k \in 1..n |-> events[order[k]]]
    BY <1>1 DEF EventTimeOrder
  <1>3. \E p \in [1..n -> 1..n] : \A k, l \in 1..n : k < l => Earlier(events, p[k], p[l])
    <2>1. PICK p : Ranked(events, p, n)
      <3> HIDE DEF n
      <3> QED
        BY <1>1, SomeRanking
    <2> QED
      BY <2>1 DEF Ranked
  <1>4. Ranked(events, order, n)
    <2>1. order \in [1..n -> 1..n] /\ \A k, l \in 1..n : k < l => Earlier(events, order[k], order[l])
      BY <1>3
    <2> HIDE DEF order
    <2> QED
      BY <2>1 DEF Ranked
  <1> HIDE DEF order
  <1> QED
    BY <1>2, <1>4

(* Nothing is left out. *)
LEMMA RankedReachesAll ==
    ASSUME NEW events, Stamped(events), NEW p, Ranked(events, p, Len(events)),
           NEW i \in 1..Len(events)
    PROVE  \E k \in 1..Len(events) : p[k] = i
  <1> DEFINE D == 1..Len(events)
  <1>0. Len(events) \in Nat /\ \A h \in D : events[h].ts \in Int
    BY TapeIs
  <1>1. p \in [D -> D] /\ \A k, l \in D : k < l => Earlier(events, p[k], p[l])
    BY DEF Ranked
  <1>2. ASSUME NEW k \in D, NEW l \in D, p[k] = p[l]
        PROVE  k = l
    <2>1. p[k] \in D /\ events[p[k]].ts \in Int
      BY <1>0, <1>1
    <2>2. ~Earlier(events, p[k], p[l])
      BY <1>2, <2>1 DEF Earlier
    <2>3. ~Earlier(events, p[l], p[k])
      BY <1>2, <2>1 DEF Earlier
    <2> QED
      BY <1>1, <2>2, <2>3
  <1>3. IsFiniteSet(D)
    <2>1. Len(events) \in Int /\ 1 \in Int
      BY <1>0
    <2>2. IsFiniteSet(1..Len(events))
      BY <2>1, FS_Interval
    <2> QED
      BY <2>2
  <1>4. p \in Injection(D, D)
    <2> HIDE DEF D
    <2> QED
      BY <1>1, <1>2, Fun_IsInj
  <1>5. p \in Surjection(D, D)
    <2> HIDE DEF D
    <2> QED
      BY <1>3, <1>4, FS_Injection
  <1>6. \A t \in D : \E s \in D : p[s] = t
    <2> HIDE DEF D
    <2> QED
      BY <1>5, Fun_SurjectionProperties
  <1> QED
    BY <1>6

(* A tape in the order of its stamps stays as it is. *)
InOrder(events, n) == \A i, j \in 1..n : i < j => events[i].ts <= events[j].ts

LEMMA InOrderStays ==
    ASSUME NEW events, NEW n \in Nat, \A i \in 1..n : events[i].ts \in Int,
           NEW p, Ranked(events, p, n), InOrder(events, n), NEW k \in 1..n
    PROVE  p[k] = k
  <1>1. p \in [1..n -> 1..n] /\ \A i \in 1..n : p[i] \in 1..n
    BY DEF Ranked
  <1>2. ASSUME NEW i \in 1..n, NEW j \in 1..n, i < j
        PROVE  p[i] < p[j]
    <2>1. Earlier(events, p[i], p[j])
      BY <1>2 DEF Ranked
    <2>2. p[j] < p[i] => events[p[j]].ts <= events[p[i]].ts
      BY <1>1 DEF InOrder
    <2>3. events[p[i]].ts \in Int /\ events[p[j]].ts \in Int /\ p[i] \in Int /\ p[j] \in Int
      BY <1>1
    <2> QED
      BY <2>1, <2>2, <2>3 DEF Earlier
  <1> DEFINE low == {i \in 1..n : p[i] < i}
             high == {i \in 0..n : n - i \in 1..n /\ p[n - i] > n - i}
  <1>3. low = {}
    <2> SUFFICES ASSUME low # {}
                 PROVE  FALSE
      OBVIOUS
    <2>1. PICK m \in low : \A i \in low : m <= i
      <3>1. low \in SUBSET Nat
        OBVIOUS
      <3> HIDE DEF low
      <3> QED
        BY <3>1, LeastNumber
    <2>2. m \in 1..n /\ p[m] < m /\ p[m] \in 1..n
      BY <1>1, <2>1
    <2>3. m - 1 \in 1..n /\ m - 1 < m /\ ~(m <= m - 1)
      BY <2>2
    <2>4. m - 1 \notin low
      <3> HIDE DEF low
      <3> QED
        BY <2>1, <2>3
    <2>5. ~(p[m - 1] < m - 1) /\ p[m - 1] < p[m] /\ p[m - 1] \in 1..n
      BY <1>1, <1>2, <2>2, <2>3, <2>4
    <2> QED
      BY <2>2, <2>5
  <1>4. high = {}
    <2> SUFFICES ASSUME high # {}
                 PROVE  FALSE
      OBVIOUS
    <2>1. PICK m \in high : \A i \in high : m <= i
      <3>1. high \in SUBSET Nat
        OBVIOUS
      <3> HIDE DEF high
      <3> QED
        BY <3>1, LeastNumber
    <2>2. m \in 0..n /\ n - m \in 1..n /\ p[n - m] > n - m /\ p[n - m] \in 1..n
      BY <1>1, <2>1
    <2>3. m - 1 \in 0..n /\ n - (m - 1) \in 1..n /\ n - (m - 1) = (n - m) + 1 /\ ~(m <= m - 1)
      BY <2>2
    <2>4. m - 1 \notin high
      <3> HIDE DEF high
      <3> QED
        BY <2>1, <2>3
    <2>5. ~(p[n - (m - 1)] > n - (m - 1))
      BY <2>3, <2>4
    <2> DEFINE a == n - m
    <2>6. a \in 1..n /\ a + 1 \in 1..n /\ ~(p[a + 1] > a + 1)
      BY <2>2, <2>3, <2>5
    <2>7. p[a] < p[a + 1] /\ p[a] > a /\ p[a] \in 1..n /\ p[a + 1] \in 1..n
      <3>1. a < a + 1
        BY <2>6
      <3>2. p[a] > a
        BY <2>2
      <3> HIDE DEF a
      <3> QED
        BY <1>1, <1>2, <2>6, <3>1, <3>2
    <2> HIDE DEF a
    <2> QED
      BY <2>6, <2>7
  <1>5. ~(p[k] < k)
    BY <1>3
  <1>6. ~(p[k] > k)
    <2>1. n - k \in 0..n /\ n - (n - k) = k
      OBVIOUS
    <2>2. n - k \notin high
      BY <1>4
    <2> QED
      BY <2>1, <2>2
  <1> QED
    BY <1>1, <1>5, <1>6

(* So the two traversals differ on just the tapes with a late arrival. *)
LEMMA TraversalsAgree ==
    ASSUME NEW events, Stamped(events)
    PROVE  EventTimeOrder(events) = events <=> InOrder(events, Len(events))
  <1> DEFINE n == Len(events)
  <1>1. n \in Nat /\ events = [i \in 1..n |-> events[i]] /\ \A i \in 1..n : events[i].ts \in Int
    BY TapeIs
  <1>2. PICK p : Ranked(events, p, n) /\ EventTimeOrder(events) = [k \in 1..n |-> events[p[k]]]
    BY EventTimeOrderIs
  <1>3. ASSUME InOrder(events, n)
        PROVE  EventTimeOrder(events) = events
    <2>1. \A k \in 1..n : p[k] = k
      <3> HIDE DEF n
      <3> QED
        BY <1>1, <1>2, <1>3, InOrderStays
    <2>2. [k \in 1..n |-> events[p[k]]] = [k \in 1..n |-> events[k]]
      BY <2>1
    <2> HIDE DEF n
    <2> QED
      BY <1>1, <1>2, <2>2
  <1>4. ASSUME EventTimeOrder(events) = events
        PROVE  InOrder(events, n)
    <2>1. \A k \in 1..n : events[k] = events[p[k]]
      <3>1. events = [k \in 1..n |-> events[p[k]]]
        BY <1>2, <1>4
      <3> HIDE DEF n
      <3> QED
        BY <3>1
    <2>2. ASSUME NEW k \in 1..n, NEW l \in 1..n, k < l
          PROVE  events[k].ts <= events[l].ts
      <3>1. Earlier(events, p[k], p[l])
        BY <1>2, <2>2 DEF Ranked
      <3>2. events[k] = events[p[k]] /\ events[l] = events[p[l]]
        BY <2>1
      <3>3. events[k].ts < events[l].ts \/ events[k].ts = events[l].ts
        <4> HIDE DEF n
        <4> QED
          BY <3>1, <3>2 DEF Earlier
      <3>4. events[k].ts \in Int /\ events[l].ts \in Int
        BY <1>1
      <3> QED
        BY <3>3, <3>4
    <2> HIDE DEF n
    <2> QED
      BY <2>2 DEF InOrder
  <1> QED
    BY <1>3, <1>4

-----------------------------------------------------------------------------
(* The watch.                                                              *)

Watch == [high : Int, markOpen : Int, venueHigh : Int, late : Nat, behindDerived : Nat, venueLate : Nat]

LEMMA WatchFields ==
    ASSUME NEW w \in Watch, NEW x \in Int, NEW y \in Int, NEW b \in Nat, NEW c \in Nat
    PROVE  /\ [w EXCEPT !.late = c, !.behindDerived = b] \in Watch
           /\ [w EXCEPT !.high = x, !.markOpen = y] \in Watch
           /\ [w EXCEPT !.venueLate = c] =
                    [high |-> w.high, markOpen |-> w.markOpen, venueHigh |-> w.venueHigh,
                     late |-> w.late, behindDerived |-> w.behindDerived, venueLate |-> c]
           /\ [w EXCEPT !.venueHigh = x] =
                    [high |-> w.high, markOpen |-> w.markOpen, venueHigh |-> x, late |-> w.late,
                     behindDerived |-> w.behindDerived, venueLate |-> w.venueLate]
  <1>1. [w EXCEPT !.late = c, !.behindDerived = b] \in Watch
    BY ZenonT(30) DEF Watch
  <1>2. [w EXCEPT !.high = x, !.markOpen = y] \in Watch
    BY ZenonT(30) DEF Watch
  <1>3. [w EXCEPT !.venueLate = c] =
            [high |-> w.high, markOpen |-> w.markOpen, venueHigh |-> w.venueHigh,
             late |-> w.late, behindDerived |-> w.behindDerived, venueLate |-> c]
    BY DEF Watch
  <1>4. [w EXCEPT !.venueHigh = x] =
            [high |-> w.high, markOpen |-> w.markOpen, venueHigh |-> x, late |-> w.late,
             behindDerived |-> w.behindDerived, venueLate |-> w.venueLate]
    BY DEF Watch
  <1> QED
    BY <1>1, <1>2, <1>3, <1>4

LEMMA ObservedIs ==
    ASSUME NEW w \in Watch, NEW e, e.ts \in Nat
    PROVE  LET o     == Observed(w, e)
               late  == w.high # None /\ e.ts < w.high
               vlate == w.venueHigh # None /\ e.ts < w.venueHigh
           IN  /\ o \in Watch
               /\ late => o.high = w.high /\ o.late = w.late + 1
                          /\ o.behindDerived \in {w.behindDerived, w.behindDerived + 1}
               /\ ~late => o.high = e.ts /\ o.late = w.late /\ o.behindDerived = w.behindDerived
               /\ (e.kind = "trade" /\ ~vlate) => o.venueHigh = e.ts
               /\ ~(e.kind = "trade" /\ ~vlate) => o.venueHigh = w.venueHigh
               /\ (e.kind = "trade" /\ vlate) => o.venueLate = w.venueLate + 1
               /\ ~(e.kind = "trade" /\ vlate) => o.venueLate = w.venueLate
  <1> DEFINE late == w.high # None /\ e.ts < w.high
             vlate == w.venueHigh # None /\ e.ts < w.venueHigh
             explained == late /\ w.markOpen # None /\ e.ts >= w.markOpen
             behind == [w EXCEPT !.late = @ + 1, !.behindDerived = @ + (IF explained THEN 1 ELSE 0)]
             ahead == [w EXCEPT !.high = e.ts, !.markOpen = MarkOpen(e)]
             seen == IF late THEN behind ELSE ahead
             o == Observed(w, e)
  <1>1. MarkOpen(e) \in Int
    <2>1. Window \in Int /\ None \in Int
      BY TapeAssumption DEF None
    <2> QED
      BY <2>1 DEF MarkOpen
  <1>2. behind \in Watch /\ ahead \in Watch
    <2> DEFINE b == w.behindDerived + (IF explained THEN 1 ELSE 0)
               c == w.late + 1
    <2>1. b \in Nat /\ c \in Nat /\ e.ts \in Int
      BY DEF Watch
    <2>2. behind = [w EXCEPT !.late = c, !.behindDerived = b]
      OBVIOUS
    <2> HIDE DEF b, c
    <2>3. behind \in Watch
      <3> HIDE DEF behind
      <3> QED
        BY <1>1, <2>1, <2>2, WatchFields
    <2>4. ahead \in Watch
      BY <1>1, <2>1, WatchFields
    <2> QED
      BY <2>3, <2>4
  <1>3. o = IF e.kind # "trade" THEN seen
            ELSE IF vlate THEN [seen EXCEPT !.venueLate = @ + 1] ELSE [seen EXCEPT !.venueHigh = e.ts]
    BY DEF Observed
  <1>4. /\ late => seen.high = w.high /\ seen.late = w.late + 1
                   /\ seen.behindDerived \in {w.behindDerived, w.behindDerived + 1}
        /\ ~late => seen.high = e.ts /\ seen.late = w.late /\ seen.behindDerived = w.behindDerived
        /\ seen.venueHigh = w.venueHigh /\ seen.venueLate = w.venueLate
        /\ seen \in Watch
    <2>1. /\ behind.high = w.high /\ behind.late = w.late + 1
          /\ behind.behindDerived \in {w.behindDerived, w.behindDerived + 1}
          /\ behind.venueHigh = w.venueHigh /\ behind.venueLate = w.venueLate
      BY DEF Watch
    <2>2. /\ ahead.high = e.ts /\ ahead.late = w.late /\ ahead.behindDerived = w.behindDerived
          /\ ahead.venueHigh = w.venueHigh /\ ahead.venueLate = w.venueLate
      BY DEF Watch
    <2> HIDE DEF behind, ahead, late
    <2> QED
      BY <1>2, <2>1, <2>2
  <1> HIDE DEF seen, late, vlate
  <1>6. /\ o \in Watch
        /\ o.high = seen.high /\ o.late = seen.late /\ o.behindDerived = seen.behindDerived
        /\ (e.kind = "trade" /\ ~vlate) => o.venueHigh = e.ts
        /\ ~(e.kind = "trade" /\ ~vlate) => o.venueHigh = seen.venueHigh
        /\ (e.kind = "trade" /\ vlate) => o.venueLate = seen.venueLate + 1
        /\ ~(e.kind = "trade" /\ vlate) => o.venueLate = seen.venueLate
    <2> HIDE DEF o
    <2>1. CASE e.kind # "trade"
      BY <1>3, <1>4, <2>1
    <2> HIDE DEF seen
    <2> DEFINE down == [seen EXCEPT !.venueLate = @ + 1]
               up == [seen EXCEPT !.venueHigh = e.ts]
    <2>7. seen \in Watch /\ seen.venueLate + 1 \in Nat /\ e.ts \in Int
      BY <1>4 DEF Watch
    <2>4. /\ down \in Watch /\ down.high = seen.high /\ down.late = seen.late
          /\ down.behindDerived = seen.behindDerived /\ down.venueHigh = seen.venueHigh
          /\ down.venueLate = seen.venueLate + 1
      <3> DEFINE c == seen.venueLate + 1
      <3>1. c \in Nat /\ down = [seen EXCEPT !.venueLate = c]
        BY <2>7
      <3> HIDE DEF c, down
      <3>2. down = [high |-> seen.high, markOpen |-> seen.markOpen, venueHigh |-> seen.venueHigh,
                    late |-> seen.late, behindDerived |-> seen.behindDerived, venueLate |-> c]
        BY <2>7, <3>1, WatchFields
      <3>3. c = seen.venueLate + 1
        BY DEF c
      <3> QED
        BY <2>7, <3>1, <3>2, <3>3 DEF Watch
    <2>5. /\ up \in Watch /\ up.high = seen.high /\ up.late = seen.late
          /\ up.behindDerived = seen.behindDerived /\ up.venueHigh = e.ts
          /\ up.venueLate = seen.venueLate
      <3>1. up = [high |-> seen.high, markOpen |-> seen.markOpen, venueHigh |-> e.ts,
                  late |-> seen.late, behindDerived |-> seen.behindDerived,
                  venueLate |-> seen.venueLate]
        BY <2>7, WatchFields
      <3> HIDE DEF up
      <3> QED
        BY <2>7, <3>1 DEF Watch
    <2>6. o = IF e.kind # "trade" THEN seen ELSE IF vlate THEN down ELSE up
      BY <1>3
    <2> HIDE DEF down, up
    <2>2. CASE e.kind = "trade" /\ vlate
      BY <2>2, <2>4, <2>6
    <2>3. CASE e.kind = "trade" /\ ~vlate
      BY <2>3, <2>5, <2>6
    <2> QED
      BY <2>1, <2>2, <2>3
  <1> HIDE DEF o
  <1>7. /\ o \in Watch
        /\ late => o.high = w.high /\ o.late = w.late + 1
                   /\ o.behindDerived \in {w.behindDerived, w.behindDerived + 1}
        /\ ~late => o.high = e.ts /\ o.late = w.late /\ o.behindDerived = w.behindDerived
        /\ (e.kind = "trade" /\ ~vlate) => o.venueHigh = e.ts
        /\ ~(e.kind = "trade" /\ ~vlate) => o.venueHigh = w.venueHigh
        /\ (e.kind = "trade" /\ vlate) => o.venueLate = w.venueLate + 1
        /\ ~(e.kind = "trade" /\ vlate) => o.venueLate = w.venueLate
    BY <1>4, <1>6
  <1> QED
    BY <1>7 DEF o, late, vlate

(* After k events: its mark is the latest of them, and it has counted a late
   arrival unless they came in order. *)
WatchHolds(w, events, k) ==
    /\ w \in Watch
    /\ w.high >= None
    /\ (w.high = None) = (k = 0)
    /\ \A i \in 1..k : events[i].ts <= w.high
    /\ k > 0 => \E i \in 1..k : events[i].ts = w.high
    /\ w.late = 0 <=> InOrder(events, k)
    /\ w.behindDerived <= w.late /\ w.venueLate <= w.late /\ w.venueHigh <= w.high
    /\ (\A i \in 1..k : events[i].kind = "trade") => w.venueHigh = w.high /\ w.venueLate = w.late

LEMMA WatchStarts ==
    ASSUME NEW events
    PROVE  WatchHolds(EmptyWatch, events, 0)
  <1>1. EmptyWatch = [high |-> -1, markOpen |-> -1, venueHigh |-> -1, late |-> 0, behindDerived |-> 0, venueLate |-> 0]
    BY DEF EmptyWatch, None
  <1>2. EmptyWatch \in Watch
    BY <1>1 DEF Watch
  <1>3. InOrder(events, 0)
    BY DEF InOrder
  <1> QED
    BY <1>1, <1>2, <1>3 DEF WatchHolds, None

LEMMA WatchGoesOn ==
    ASSUME NEW events, NEW k \in Nat, k > 0, \A i \in 1..k : events[i].ts \in Nat,
           NEW w, WatchHolds(w, events, k - 1)
    PROVE  WatchHolds(Observed(w, events[k]), events, k)
  <1> DEFINE e == events[k]
             o == Observed(w, e)
             late == w.high # None /\ e.ts < w.high
             vlate == w.venueHigh # None /\ e.ts < w.venueHigh
  <1>1. /\ w \in Watch /\ e.ts \in Nat /\ w.high \in Int /\ w.venueHigh \in Int
        /\ w.late \in Nat /\ w.behindDerived \in Nat /\ w.venueLate \in Nat
    <2>1. k \in 1..k
      OBVIOUS
    <2> QED
      BY <2>1 DEF WatchHolds, Watch
  <1>2. /\ o \in Watch
        /\ late => o.high = w.high /\ o.late = w.late + 1
                   /\ o.behindDerived \in {w.behindDerived, w.behindDerived + 1}
        /\ ~late => o.high = e.ts /\ o.late = w.late /\ o.behindDerived = w.behindDerived
        /\ (e.kind = "trade" /\ ~vlate) => o.venueHigh = e.ts
        /\ ~(e.kind = "trade" /\ ~vlate) => o.venueHigh = w.venueHigh
        /\ (e.kind = "trade" /\ vlate) => o.venueLate = w.venueLate + 1
        /\ ~(e.kind = "trade" /\ vlate) => o.venueLate = w.venueLate
    <2> HIDE DEF e
    <2> QED
      BY <1>1, ObservedIs
  <1>3. /\ w.high >= -1
        /\ (w.high = -1) = (k - 1 = 0)
        /\ \A i \in 1..(k - 1) : events[i].ts <= w.high
        /\ k - 1 > 0 => \E i \in 1..(k - 1) : events[i].ts = w.high
        /\ w.late = 0 <=> InOrder(events, k - 1)
        /\ w.behindDerived <= w.late /\ w.venueLate <= w.late /\ w.venueHigh <= w.high
        /\ (\A i \in 1..(k - 1) : events[i].kind = "trade") => w.venueHigh = w.high /\ w.venueLate = w.late
    BY DEF WatchHolds, None
  <1>4. late <=> e.ts < w.high
    BY <1>1, <1>3 DEF None
  <1>5. vlate <=> e.ts < w.venueHigh
    BY <1>1 DEF None
  <1> HIDE DEF o, late, vlate
  <1>6. o.high >= w.high /\ o.high >= e.ts /\ o.high \in Nat
    <2> HIDE DEF e
    <2> QED
      BY <1>1, <1>2, <1>3, <1>4
  <1>7. \A i \in 1..k : events[i].ts <= o.high
    <2>1. ASSUME NEW i \in 1..k
          PROVE  events[i].ts <= o.high
      <3>1. CASE i = k
        BY <1>6, <3>1
      <3>2. CASE i # k
        <4>1. i \in 1..(k - 1) /\ events[i].ts \in Nat
          BY <3>2
        <4> QED
          BY <1>1, <1>3, <1>6, <4>1
      <3> QED
        BY <3>1, <3>2
    <2> QED
      BY <2>1
  <1>8. \E i \in 1..k : events[i].ts = o.high
    <2>1. CASE late
      <3>1. k - 1 > 0
        BY <1>1, <1>3, <1>4, <2>1
      <3>2. PICK i \in 1..(k - 1) : events[i].ts = w.high
        BY <1>3, <3>1
      <3> QED
        BY <1>2, <2>1, <3>2
    <2>2. CASE ~late
      BY <1>2, <2>2
    <2> QED
      BY <2>1, <2>2
  <1>9. o.late = 0 <=> InOrder(events, k)
    <2>1. InOrder(events, k) => InOrder(events, k - 1)
      BY DEF InOrder
    <2>2. ASSUME late
          PROVE  ~InOrder(events, k) /\ o.late # 0
      <3>1. k - 1 > 0
        BY <1>1, <1>3, <1>4, <2>2
      <3>2. PICK i \in 1..(k - 1) : events[i].ts = w.high
        BY <1>3, <3>1
      <3>3. i \in 1..k /\ k \in 1..k /\ i < k /\ ~(events[i].ts <= events[k].ts)
        BY <1>1, <1>4, <2>2, <3>2
      <3> QED
        BY <1>1, <1>2, <2>2, <3>3 DEF InOrder
    <2>3. ASSUME ~late, InOrder(events, k - 1)
          PROVE  InOrder(events, k)
      <3>1. ASSUME NEW i \in 1..k, NEW j \in 1..k, i < j
            PROVE  events[i].ts <= events[j].ts
        <4>1. CASE j = k
          <5>1. i \in 1..(k - 1) /\ events[i].ts <= w.high /\ events[i].ts \in Nat
            BY <1>3, <3>1, <4>1
          <5> QED
            BY <1>1, <1>4, <2>3, <4>1, <5>1
        <4>2. CASE j # k
          <5>1. i \in 1..(k - 1) /\ j \in 1..(k - 1)
            BY <3>1, <4>2
          <5> QED
            BY <2>3, <3>1, <5>1 DEF InOrder
        <4> QED
          BY <4>1, <4>2
      <3> QED
        BY <3>1 DEF InOrder
    <2> QED
      BY <1>2, <1>3, <2>1, <2>2, <2>3
  <1>10. o.behindDerived <= o.late /\ o.venueLate <= o.late /\ o.venueHigh <= o.high
    <2>1. vlate => late
      BY <1>1, <1>3, <1>4, <1>5
    <2> HIDE DEF e
    <2> QED
      BY <1>1, <1>2, <1>3, <1>6, <2>1
  <1>11. ASSUME \A i \in 1..k : events[i].kind = "trade"
         PROVE  o.venueHigh = o.high /\ o.venueLate = o.late
    <2>1. e.kind = "trade" /\ w.venueHigh = w.high /\ w.venueLate = w.late
      BY <1>3, <1>11
    <2>2. vlate <=> late
      BY <1>4, <1>5, <2>1
    <2> HIDE DEF e
    <2> QED
      BY <1>2, <2>1, <2>2
  <1>12. o.high >= None /\ o.high # None
    BY <1>6 DEF None
  <1>13. WatchHolds(o, events, k)
    BY <1>2, <1>7, <1>8, <1>9, <1>10, <1>11, <1>12 DEF WatchHolds
  <1> QED
    BY <1>13 DEF o

Watches(f, events) ==
    f = [k \in 0..Len(events) |-> IF k = 0 THEN EmptyWatch ELSE Observed(f[k-1], events[k])]

LEMMA WatchedIs ==
    ASSUME NEW events, Stamped(events)
    PROVE  WatchHolds(Watched(events), events, Len(events))
  <1> DEFINE n == Len(events)
             g == [k \in 1..n |-> [w \in Watch |-> Observed(w, events[k])]]
             walk == CHOOSE f : Watches(f, events)
  <1>1. n \in Nat /\ \A k \in 1..n : events[k].ts \in Nat
    BY TapeIs
  <1>2. EmptyWatch \in Watch
    BY WatchStarts DEF WatchHolds
  <1>3. ASSUME NEW k \in 1..n, NEW w \in Watch
        PROVE  g[k][w] = Observed(w, events[k]) /\ g[k][w] \in Watch
    <2>1. Observed(w, events[k]) \in Watch
      BY <1>1, ObservedIs
    <2> QED
      BY <2>1
  <1>4. PICK f \in [0..n -> Watch] : f[0] = EmptyWatch /\ \A k \in 1..n : f[k] = g[k][f[k - 1]]
    <2> HIDE DEF n, g
    <2>1. Steps(g, n, Watch)
      BY <1>3 DEF Steps
    <2>2. PICK f : Walks(f, g, EmptyWatch, n, Watch)
      BY <1>1, <1>2, <2>1, Walk
    <2> QED
      BY <2>2 DEF Walks
  <1>5. Watches(f, events)
    <2>1. ASSUME NEW k \in 0..n
          PROVE  f[k] = IF k = 0 THEN EmptyWatch ELSE Observed(f[k - 1], events[k])
      <3>1. CASE k = 0
        BY <1>4, <3>1
      <3>2. CASE k # 0
        <4>1. k \in 1..n /\ k - 1 \in 0..n
          BY <1>1, <3>2
        <4>2. f[k - 1] \in Watch
          BY <1>4, <4>1
        <4> HIDE DEF g, n
        <4> QED
          BY <1>3, <1>4, <3>2, <4>1, <4>2
      <3> QED
        BY <3>1, <3>2
    <2>2. f = [k \in 0..n |-> f[k]]
      BY <1>4
    <2>3. f = [k \in 0..n |-> IF k = 0 THEN EmptyWatch ELSE Observed(f[k - 1], events[k])]
      <3> HIDE DEF g, n
      <3> QED
        BY <2>1, <2>2
    <2> QED
      BY <2>3 DEF Watches
  <1>6. Watches(walk, events) /\ Watched(events) = walk[n]
    BY <1>5 DEF Watched, Watches
  <1>7. \A k \in 0..n : walk[k] = IF k = 0 THEN EmptyWatch ELSE Observed(walk[k - 1], events[k])
    <2> HIDE DEF walk
    <2>1. walk = [k \in 0..n |-> IF k = 0 THEN EmptyWatch ELSE Observed(walk[k - 1], events[k])]
      BY <1>6 DEF Watches
    <2> QED
      BY <2>1
  <1> HIDE DEF walk, g
  <1> DEFINE bad == {k \in 0..n : ~WatchHolds(walk[k], events, k)}
  <1>8. bad = {}
    <2> SUFFICES ASSUME bad # {}
                 PROVE  FALSE
      OBVIOUS
    <2>1. PICK m \in bad : \A k \in bad : m <= k
      <3>1. bad \in SUBSET Nat
        OBVIOUS
      <3> HIDE DEF bad
      <3> QED
        BY <3>1, LeastNumber
    <2>2. m # 0
      BY <1>7, <2>1, WatchStarts
    <2>3. m \in Nat /\ m > 0 /\ m \in 0..n /\ m - 1 \in 0..n /\ ~(m <= m - 1)
      BY <1>1, <2>1, <2>2
    <2>4. m - 1 \notin bad
      <3> HIDE DEF bad
      <3> QED
        BY <2>1, <2>3
    <2>5. WatchHolds(walk[m - 1], events, m - 1) /\ \A i \in 1..m : events[i].ts \in Nat
      BY <1>1, <2>3, <2>4
    <2>6. WatchHolds(Observed(walk[m - 1], events[m]), events, m)
      <3> HIDE DEF bad, n
      <3> QED
        BY <2>3, <2>5, WatchGoesOn
    <2> QED
      BY <1>7, <2>1, <2>2, <2>3, <2>6
  <1>9. n \in 0..n
    BY <1>1
  <1> QED
    BY <1>6, <1>8, <1>9

-----------------------------------------------------------------------------
(* A replay.                                                               *)

Reading == [at : Nat, now : Nat]
Replayed == [clock : Nat, feed : Int, next : Nat, lastPass : Int, reads : Seq(Reading)]

DueTo(r, signals, feed, n) ==
    \A i \in r.next .. r.next + n - 1 : i <= Len(signals) /\ signals[i].release <= feed

LEMMA ReleasedIs ==
    ASSUME NEW r, r.next \in Nat, NEW signals, NEW feed
    PROVE  LET n == Released(r, signals, feed)
           IN  /\ n \in 0..MaxPerDrain /\ DueTo(r, signals, feed, n)
               /\ \A m \in 0..MaxPerDrain : DueTo(r, signals, feed, m) => m <= n
  <1> DEFINE due(n) == DueTo(r, signals, feed, n)
             T == {x \in 0..MaxPerDrain : due(MaxPerDrain - x)}
             N == Released(r, signals, feed)
  <1>1. MaxPerDrain \in Nat
    BY TapeAssumption
  <1>2. due(0)
    BY DEF DueTo
  <1>3. PICK x \in T : \A y \in T : x <= y
    <2>1. MaxPerDrain - MaxPerDrain = 0 /\ MaxPerDrain \in 0..MaxPerDrain
      BY <1>1
    <2>2. T \in SUBSET Nat /\ MaxPerDrain \in T
      <3> HIDE DEF due
      <3> QED
        BY <1>2, <2>1
    <2> HIDE DEF T
    <2> QED
      BY <2>2, LeastNumber
  <1> DEFINE a == MaxPerDrain - x
  <1>4. a \in 0..MaxPerDrain /\ due(a)
    <2> HIDE DEF due
    <2> QED
      BY <1>1, <1>3
  <1>5. ASSUME NEW m \in 0..MaxPerDrain, due(m)
        PROVE  m <= a
    <2>1. MaxPerDrain - m \in 0..MaxPerDrain /\ MaxPerDrain - (MaxPerDrain - m) = m
      BY <1>1
    <2>2. MaxPerDrain - m \in T
      <3> HIDE DEF due
      <3> QED
        BY <1>5, <2>1
    <2>3. x <= MaxPerDrain - m /\ x \in 0..MaxPerDrain
      <3>1. x \in 0..MaxPerDrain
        BY <1>3
      <3> HIDE DEF T
      <3> QED
        BY <1>3, <2>2, <3>1
    <2> QED
      BY <1>1, <2>3
  <1> HIDE DEF a, due
  <1>6. N = CHOOSE n \in 0..MaxPerDrain : due(n) /\ \A m \in 0..MaxPerDrain : due(m) => m <= n
    BY DEF Released, due, DueTo
  <1>7. N \in 0..MaxPerDrain /\ due(N) /\ \A m \in 0..MaxPerDrain : due(m) => m <= N
    <2>1. \E n \in 0..MaxPerDrain : due(n) /\ \A m \in 0..MaxPerDrain : due(m) => m <= n
      BY <1>4, <1>5
    <2> HIDE DEF N
    <2> QED
      BY <1>6, <2>1
  <1> QED
    BY <1>7 DEF due

(* What a step does, part by part. *)
Told(r, e) == GreaterOf(r.feed, e.ts)
TimeAt(r, e) == ClockAfter(r.clock, e)
Passes(r, signals, e) == Due(r, signals, Told(r, e)) /\ Gate(r.lastPass, TimeAt(r, e))
Fed(r, signals, e) ==
    IF Passes(r, signals, e) THEN GreaterOf(Told(r, e), TimeAt(r, e)) ELSE Told(r, e)
ReadBy(r, signals, e) ==
    IF Passes(r, signals, e) THEN Released(r, signals, Fed(r, signals, e)) ELSE 0
Grown(q, n, at, time) == q \o [k \in 1..n |-> [at |-> at, now |-> time]]

GrewBy(more, q, n, at, time) ==
    /\ more \in Seq(Reading) /\ Len(q) \in Nat /\ Len(more) = Len(q) + n
    /\ \A j \in 1..Len(q) : more[j] = q[j]
    /\ \A j \in (Len(q) + 1)..(Len(q) + n) : more[j] = [at |-> at, now |-> time]

LEMMA ReadsGrow ==
    ASSUME NEW q \in Seq(Reading), NEW n \in Nat, NEW at \in Nat, NEW time \in Nat
    PROVE  GrewBy(Grown(q, n, at, time), q, n, at, time)
  <1> DEFINE t == [k \in 1..n |-> [at |-> at, now |-> time]]
             more == q \o t
  <1>1. [at |-> at, now |-> time] \in Reading
    BY DEF Reading
  <1>2. t \in Seq(Reading) /\ Len(t) = n
    <2>1. \A k \in 1..n : t[k] \in Reading
      BY <1>1
    <2>2. t \in Seq(Reading)
      BY <2>1, IsASeq
    <2>3. t \in [1..n -> Reading]
      BY <1>1
    <2>4. DOMAIN t = 1..Len(t) /\ Len(t) \in Nat /\ DOMAIN t = 1..n
      BY <2>2, <2>3, LenProperties
    <2>5. Len(t) = n
      <3> HIDE DEF t
      <3>1. 1..Len(t) = 1..n /\ Len(t) \in Nat
        BY <2>4
      <3> QED
        BY <3>1
    <2> QED
      BY <2>2, <2>5
  <1>3. \A k \in 1..n : t[k] = [at |-> at, now |-> time]
    OBVIOUS
  <1> HIDE DEF t
  <1>4. /\ more \in Seq(Reading) /\ Len(more) = Len(q) + n /\ Len(q) \in Nat
        /\ \A j \in 1..(Len(q) + n) : more[j] = IF j <= Len(q) THEN q[j] ELSE t[j - Len(q)]
    BY <1>2, ConcatProperties, LenProperties
  <1>5. ASSUME NEW j \in (Len(q) + 1)..(Len(q) + n)
        PROVE  more[j] = [at |-> at, now |-> time]
    <2>1. j \in 1..(Len(q) + n) /\ ~(j <= Len(q)) /\ j - Len(q) \in 1..n
      BY <1>4
    <2> HIDE DEF more
    <2> QED
      BY <1>3, <1>4, <2>1
  <1>6. \A j \in 1..Len(q) : more[j] = q[j]
    <2> HIDE DEF more
    <2> QED
      BY <1>4
  <1> QED
    BY <1>4, <1>5, <1>6 DEF t, Grown, GrewBy

LEMMA StepIs ==
    ASSUME NEW r \in Replayed, NEW signals, NEW at \in Nat, NEW e, e.ts \in Nat
    PROVE  LET s == ReplayStep(r, signals, at, e)
               n == ReadBy(r, signals, e)
           IN  /\ s \in Replayed /\ n \in Nat
               /\ s.clock = TimeAt(r, e) /\ s.feed = Fed(r, signals, e) /\ s.next = r.next + n
               /\ s.lastPass = IF Passes(r, signals, e) THEN TimeAt(r, e) ELSE r.lastPass
               /\ s.reads = Grown(r.reads, n, at, TimeAt(r, e))
  <1> DEFINE s == ReplayStep(r, signals, at, e)
             n == ReadBy(r, signals, e)
             time == TimeAt(r, e)
             feed == Fed(r, signals, e)
             last == IF Passes(r, signals, e) THEN TimeAt(r, e) ELSE r.lastPass
             got == Grown(r.reads, n, at, time)
  <1>1. r.clock \in Nat /\ r.feed \in Int /\ r.next \in Nat /\ r.lastPass \in Int /\ r.reads \in Seq(Reading)
    BY DEF Replayed
  <1>2. time \in Nat /\ Told(r, e) \in Int
    BY <1>1 DEF TimeAt, Told, ClockAfter, GreaterOf
  <1>3. s = [clock |-> time, feed |-> feed, next |-> r.next + n, lastPass |-> last, reads |-> got]
    BY DEF ReplayStep, TimeAt, Fed, ReadBy, Passes, Told, Grown
  <1>4. n \in Nat
    <2>1. Released(r, signals, feed) \in 0..MaxPerDrain
      <3> HIDE DEF feed
      <3> QED
        BY <1>1, ReleasedIs
    <2> HIDE DEF feed
    <2> QED
      BY <2>1, TapeAssumption DEF ReadBy, feed
  <1>5. feed \in Int
    BY <1>2 DEF Fed, GreaterOf
  <1>6. got \in Seq(Reading)
    <2> HIDE DEF n, time
    <2> QED
      BY <1>1, <1>2, <1>4, ReadsGrow DEF GrewBy
  <1>7. last \in Int
    BY <1>1, <1>2
  <1> HIDE DEF time, feed, n, got, last
  <1>8. s \in Replayed
    BY <1>1, <1>2, <1>3, <1>4, <1>5, <1>6, <1>7 DEF Replayed
  <1>9. s.clock = time /\ s.feed = feed /\ s.next = r.next + n /\ s.lastPass = last /\ s.reads = got
    BY <1>3
  <1> HIDE DEF s
  <1> QED
    BY <1>4, <1>8, <1>9 DEF s, time, feed, n, got, last

(* A session that can be replayed: every signal was released at a time the
   clock had, passes are an interval apart, and no pass read more than it may. *)
Faithful(events, signals) ==
    /\ Stamped(events) /\ Len(signals) \in Nat
    /\ \A i \in 1..Len(events) : Advances(events[i]) /\ events[i].ts > 0
    /\ \A j \in 1..Len(signals) :
        /\ signals[j].release \in Nat
        /\ \E i \in 1..Len(events) : /\ events[i].ts = signals[j].release
                                     /\ \A h \in 1..(i - 1) : events[h].ts <= signals[j].release
    /\ \A i, j \in 1..Len(signals) :
        i < j => \/ signals[i].release = signals[j].release /\ j - i < MaxPerDrain
                 \/ signals[j].release - signals[i].release >= Interval

(* After k events the clock is the latest of them, and what was released by
   then is read, each signal at its release and no later than the first event
   that is as late. *)
ReplayHolds(r, events, signals, k) ==
    /\ r \in Replayed
    /\ k = 0 => r.clock = 0 /\ r.feed = None
    /\ k > 0 => r.feed = r.clock
    /\ \A i \in 1..k : events[i].ts <= r.clock
    /\ k > 0 => \E i \in 1..k : events[i].ts = r.clock
    /\ r.next \in 1..(Len(signals) + 1)
    /\ \A j \in 1..(r.next - 1) : signals[j].release <= r.clock
    /\ \A j \in r.next..Len(signals) : signals[j].release > r.clock
    /\ r.lastPass = IF r.next = 1 THEN None ELSE signals[r.next - 1].release
    /\ Len(r.reads) = r.next - 1
    /\ \A j \in 1..(r.next - 1) :
        /\ r.reads[j].now = signals[j].release
        /\ \A i \in 1..Len(events) : events[i].ts >= signals[j].release => r.reads[j].at <= i

LEMMA ReplayStarts ==
    ASSUME NEW events, NEW signals, Faithful(events, signals)
    PROVE  ReplayHolds(EmptyReplay, events, signals, 0)
  <1>1. EmptyReplay = [clock |-> 0, feed |-> -1, next |-> 1, lastPass |-> -1, reads |-> <<>>]
    BY DEF EmptyReplay, None
  <1>2. <<>> \in Seq(Reading) /\ Len(<<>>) = 0
    BY EmptySeq
  <1>3. EmptyReplay \in Replayed
    BY <1>1, <1>2 DEF Replayed
  <1>4. \A j \in 1..Len(signals) : signals[j].release > 0
    <2>1. ASSUME NEW j \in 1..Len(signals)
          PROVE  signals[j].release > 0
      <3>1. PICK i \in 1..Len(events) : events[i].ts = signals[j].release
        BY DEF Faithful
      <3> QED
        BY <3>1 DEF Faithful
    <2> QED
      BY <2>1
  <1>5. Len(signals) \in Nat
    BY DEF Faithful
  <1> QED
    BY <1>1, <1>2, <1>3, <1>4, <1>5 DEF ReplayHolds, None

LEMMA FaithfulIs ==
    ASSUME NEW events, NEW signals, Faithful(events, signals)
    PROVE  /\ Len(events) \in Nat /\ Len(signals) \in Nat
           /\ \A i \in 1..Len(events) : events[i].ts \in Nat /\ events[i].ts > 0 /\ Advances(events[i])
           /\ \A j \in 1..Len(signals) : signals[j].release \in Nat
           /\ \A i, j \in 1..Len(signals) : i <= j => signals[i].release <= signals[j].release
  <1>1. Interval \in Nat /\ Interval > 0
    BY TapeAssumption
  <1>2. /\ Len(signals) \in Nat /\ \A j \in 1..Len(signals) : signals[j].release \in Nat
        /\ \A i \in 1..Len(events) : Advances(events[i]) /\ events[i].ts > 0
    BY DEF Faithful
  <1>3. Len(events) \in Nat /\ \A i \in 1..Len(events) : events[i].ts \in Nat
    BY TapeIs DEF Faithful
  <1>4. ASSUME NEW i \in 1..Len(signals), NEW j \in 1..Len(signals), i <= j
        PROVE  signals[i].release <= signals[j].release
    <2>1. CASE i = j
      BY <1>2, <2>1
    <2>2. CASE i < j
      <3>1. \/ signals[i].release = signals[j].release
            \/ signals[j].release - signals[i].release >= Interval
        BY <2>2 DEF Faithful
      <3>2. signals[i].release \in Nat /\ signals[j].release \in Nat
        BY <1>2
      <3> QED
        BY <1>1, <3>1, <3>2
    <2> QED
      BY <1>2, <1>4, <2>1, <2>2
  <1> QED
    BY <1>2, <1>3, <1>4

LEMMA ReplayGoesOn ==
    ASSUME NEW events, NEW signals, Faithful(events, signals),
           NEW k \in 1..Len(events), NEW r, ReplayHolds(r, events, signals, k - 1)
    PROVE  ReplayHolds(ReplayStep(r, signals, k, events[k]), events, signals, k)
  <1> DEFINE e == events[k]
             N == Len(signals)
             R(j) == signals[j].release
             time == TimeAt(r, e)
             passes == Passes(r, signals, e)
             feed == Fed(r, signals, e)
             n == ReadBy(r, signals, e)
             s == ReplayStep(r, signals, k, e)
  <1>1. /\ k \in Nat /\ k >= 1 /\ e.ts \in Nat /\ e.ts > 0 /\ Advances(e)
        /\ N \in Nat /\ \A j \in 1..N : R(j) \in Nat
        /\ \A i, j \in 1..N : i <= j => R(i) <= R(j)
        /\ \A i \in 1..Len(events) : events[i].ts \in Nat
    <2>1. k \in 1..Len(events)
      OBVIOUS
    <2> QED
      BY <2>1, FaithfulIs
  <1>2. /\ r \in Replayed /\ r.clock \in Nat /\ r.feed \in Int /\ r.next \in Nat /\ r.reads \in Seq(Reading)
        /\ (k - 1 = 0 => r.clock = 0 /\ r.feed = -1) /\ (k - 1 > 0 => r.feed = r.clock)
        /\ \A i \in 1..(k - 1) : events[i].ts <= r.clock
        /\ k - 1 > 0 => \E i \in 1..(k - 1) : events[i].ts = r.clock
        /\ r.next \in 1..(N + 1)
        /\ \A j \in 1..(r.next - 1) : R(j) <= r.clock
        /\ \A j \in r.next..N : R(j) > r.clock
        /\ r.lastPass = IF r.next = 1 THEN None ELSE R(r.next - 1)
        /\ Len(r.reads) = r.next - 1
        /\ \A j \in 1..(r.next - 1) :
            /\ r.reads[j].now = R(j)
            /\ \A i \in 1..Len(events) : events[i].ts >= R(j) => r.reads[j].at <= i
    BY DEF ReplayHolds, Replayed, None
  <1>3. /\ s \in Replayed /\ n \in Nat
        /\ s.clock = time /\ s.feed = feed /\ s.next = r.next + n
        /\ s.lastPass = (IF passes THEN time ELSE r.lastPass)
        /\ s.reads = Grown(r.reads, n, k, time)
    <2> HIDE DEF e
    <2> QED
      BY <1>1, <1>2, StepIs
  <1>4. /\ time \in Nat /\ time >= r.clock /\ time >= e.ts /\ time \in {r.clock, e.ts}
        /\ Told(r, e) = time
    <2>1. time = GreaterOf(r.clock, e.ts)
      BY <1>1 DEF TimeAt, ClockAfter
    <2>2. (r.feed = -1 /\ r.clock = 0) \/ r.feed = r.clock
      BY <1>1, <1>2
    <2> HIDE DEF e, time
    <2> QED
      BY <1>1, <1>2, <2>1, <2>2 DEF Told, GreaterOf
  <1>5. feed = time
    BY <1>4 DEF Fed, GreaterOf
  <1> HIDE DEF s, feed, time, passes, n, e, R, N
  <1>6. \A i \in 1..k : events[i].ts <= time
    <2>1. ASSUME NEW i \in 1..k
          PROVE  events[i].ts <= time
      <3>1. CASE i = k
        BY <1>4, <3>1 DEF e
      <3>2. CASE i # k
        <4>1. i \in 1..(k - 1) /\ i \in 1..Len(events)
          BY <3>2
        <4> QED
          BY <1>1, <1>2, <1>4, <4>1
      <3> QED
        BY <3>1, <3>2
    <2> QED
      BY <2>1
  <1>7. \E i \in 1..k : events[i].ts = time
    <2>1. CASE time = e.ts
      BY <2>1 DEF e
    <2>2. CASE time # e.ts
      <3>1. time = r.clock /\ k - 1 > 0
        BY <1>1, <1>2, <1>4, <2>2
      <3>2. PICK i \in 1..(k - 1) : events[i].ts = r.clock
        BY <1>2, <3>1
      <3> QED
        BY <3>1, <3>2
    <2> QED
      BY <2>1, <2>2
  \* A release that the clock has passed is one it has had.
  <1>8. ASSUME NEW j \in r.next..N, R(j) <= time
        PROVE  R(j) = time
    <2>1. j \in 1..N /\ R(j) \in Nat /\ R(j) > r.clock
      BY <1>1, <1>2, <1>8
    <2>2. time = e.ts
      BY <1>2, <1>4, <1>8, <2>1
    <2>3. PICK i \in 1..Len(events) :
              events[i].ts = R(j) /\ \A h \in 1..(i - 1) : events[h].ts <= R(j)
      BY <2>1 DEF Faithful, R, N
    <2>4. ~(i <= k - 1)
      <3>1. SUFFICES ASSUME i <= k - 1
                     PROVE  FALSE
        OBVIOUS
      <3>2. i \in 1..(k - 1)
        BY <3>1
      <3> QED
        BY <1>2, <2>1, <2>3, <3>2
    <2>5. CASE i = k
      BY <2>2, <2>3, <2>5 DEF e
    <2>6. CASE i > k
      <3>1. k \in 1..(i - 1)
        BY <2>6
      <3>2. e.ts <= R(j)
        BY <2>3, <3>1 DEF e
      <3> QED
        BY <1>4, <1>8, <2>1, <2>2, <3>2
    <2> QED
      BY <2>4, <2>5, <2>6
  <1>9. CASE r.next <= N /\ R(r.next) <= time
    <2> DEFINE a == r.next
    <2>0. a \in Nat /\ a >= 1 /\ a <= N + 1 /\ a <= N /\ N \in Nat
      BY <1>1, <1>2, <1>9
    <2>1. a \in r.next..N /\ a \in 1..N /\ R(a) = time /\ R(a) > r.clock
      <3>1. a \in r.next..N /\ a \in 1..N
        BY <1>2, <1>9
      <3> QED
        BY <1>2, <1>8, <1>9, <3>1
    <2>2. Due(r, signals, Told(r, e))
      BY <1>4, <1>9 DEF Due, N, R
    <2>3. Gate(r.lastPass, time)
      <3>1. CASE a = 1
        BY <1>2, <3>1 DEF Gate
      <3>2. CASE a # 1
        <4>1. a - 1 \in 1..N /\ a - 1 < a /\ a - 1 \in 1..(r.next - 1) /\ r.lastPass = R(a - 1)
          <5>1. r.next # 1 /\ a - 1 \in 1..N /\ a - 1 < a /\ a - 1 \in 1..(r.next - 1)
            BY <2>0, <3>2
          <5> HIDE DEF a
          <5> QED
            BY <1>2, <5>1 DEF a
        <4>2. R(a - 1) <= r.clock /\ R(a - 1) \in Nat /\ R(a) \in Nat
          BY <1>1, <1>2, <2>1, <4>1
        <4>3. R(a) - R(a - 1) >= Interval
          <5>1. \/ R(a - 1) = R(a)
                \/ R(a) - R(a - 1) >= Interval
            BY <2>1, <4>1 DEF Faithful, R, N
          <5> QED
            BY <1>2, <2>1, <4>2, <5>1
        <4> QED
          BY <2>1, <4>1, <4>3 DEF Gate
      <3> QED
        BY <3>1, <3>2
    <2>4. passes /\ n = Released(r, signals, time)
      BY <1>5, <2>2, <2>3 DEF passes, n, feed, time, Passes, ReadBy
    <2>5. /\ n \in 0..MaxPerDrain /\ DueTo(r, signals, time, n)
          /\ \A m \in 0..MaxPerDrain : DueTo(r, signals, time, m) => m <= n
      BY <1>2, <2>4, ReleasedIs
    <2>6. /\ \A i \in a..(a + n - 1) : i <= N /\ R(i) <= time
          /\ \A m \in 0..MaxPerDrain : (\A i \in a..(a + m - 1) : i <= N /\ R(i) <= time) => m <= n
      BY <2>5 DEF DueTo, N, R
    <2>7. MaxPerDrain \in Nat /\ MaxPerDrain >= 1 /\ Interval \in Nat /\ Interval > 0
      BY TapeAssumption
    <2>8. n >= 1
      <3>1. 1 \in 0..MaxPerDrain /\ \A i \in a..(a + 1 - 1) : i = a
        BY <1>2, <2>7
      <3> QED
        BY <1>9, <2>6, <3>1
    <2>9. \A j \in a..(a + n - 1) : j \in 1..N /\ R(j) = time
      <3>1. ASSUME NEW j \in a..(a + n - 1)
            PROVE  j \in 1..N /\ R(j) = time
        <4>1. j <= N /\ R(j) <= time /\ j \in r.next..N /\ j \in 1..N
          BY <1>2, <2>6, <3>1
        <4> QED
          BY <1>8, <4>1
      <3> QED
        BY <3>1
    <2>10. a + n - 1 \in a..(a + n - 1) /\ a + n \in 1..(N + 1)
      <3>1. a + n - 1 \in a..(a + n - 1)
        BY <2>0, <2>5, <2>7, <2>8
      <3>2. a + n - 1 \in 1..N
        BY <2>9, <3>1
      <3> QED
        BY <2>0, <2>5, <2>7, <2>8, <3>1, <3>2
    \* The pass reads all that its release stamps.
    <2>11. a + n <= N => R(a + n) > time
      <3> SUFFICES ASSUME a + n <= N, ~(R(a + n) > time)
                   PROVE  FALSE
        OBVIOUS
      <3>1. a + n \in 1..N /\ a + n \in r.next..N /\ a < a + n
        BY <2>0, <2>5, <2>7, <2>8, <2>10
      <3>2. R(a + n) \in Nat /\ R(a + n) <= time
        BY <1>1, <1>4, <3>1
      <3>3. R(a + n) = time
        BY <1>8, <3>1, <3>2
      <3>4. (a + n) - a < MaxPerDrain
        <4>1. \/ R(a) = R(a + n) /\ (a + n) - a < MaxPerDrain
              \/ R(a + n) - R(a) >= Interval
          BY <2>1, <3>1 DEF Faithful, R, N
        <4> QED
          BY <1>4, <2>1, <2>7, <3>3, <4>1
      <3>5. n + 1 \in 0..MaxPerDrain
        BY <1>2, <2>5, <2>7, <3>4
      <3>6. \A i \in a..(a + (n + 1) - 1) : i <= N /\ R(i) <= time
        <4>1. ASSUME NEW i \in a..(a + (n + 1) - 1)
              PROVE  i <= N /\ R(i) <= time
          <5>1. CASE i = a + n
            BY <3>1, <3>2, <5>1
          <5>2. CASE i # a + n
            <6>1. i \in a..(a + n - 1)
              BY <2>0, <2>5, <2>7, <3>5, <5>2
            <6> QED
              BY <2>6, <6>1
          <5> QED
            BY <5>1, <5>2
        <4> QED
          BY <4>1
      <3>7. n + 1 <= n
        BY <2>6, <3>5, <3>6
      <3> QED
        BY <2>5, <3>7
    <2>12. \A j \in 1..(a + n - 1) : R(j) <= time
      <3>1. ASSUME NEW j \in 1..(a + n - 1)
            PROVE  R(j) <= time
        <4>1. CASE j <= a - 1
          <5>1. j \in 1..(r.next - 1) /\ j \in 1..N /\ R(j) \in Nat
            BY <1>1, <1>2, <2>1, <4>1
          <5> QED
            BY <1>2, <1>4, <5>1
        <4>2. CASE ~(j <= a - 1)
          <5>1. j \in a..(a + n - 1)
            BY <1>2, <2>5, <4>2
          <5> QED
            BY <1>4, <2>9, <5>1
        <4> QED
          BY <4>1, <4>2
      <3> QED
        BY <3>1
    <2>13. \A j \in (a + n)..N : R(j) > time
      <3>1. ASSUME NEW j \in (a + n)..N
            PROVE  R(j) > time
        <4>1. a + n \in 1..N /\ j \in 1..N /\ a + n <= j /\ a + n <= N
          BY <1>1, <1>2, <2>5, <2>10
        <4>2. R(a + n) <= R(j) /\ R(a + n) \in Nat /\ R(j) \in Nat
          BY <1>1, <4>1
        <4> QED
          BY <1>4, <2>11, <4>1, <4>2
      <3> QED
        BY <3>1
    <2>14. /\ s.reads \in Seq(Reading) /\ Len(s.reads) = (a - 1) + n
           /\ \A j \in 1..(a - 1) : s.reads[j] = r.reads[j]
           /\ \A j \in a..(a + n - 1) : s.reads[j] = [at |-> k, now |-> time]
      <3>1. /\ s.reads \in Seq(Reading) /\ Len(s.reads) = Len(r.reads) + n
            /\ \A j \in 1..Len(r.reads) : s.reads[j] = r.reads[j]
            /\ \A j \in (Len(r.reads) + 1)..(Len(r.reads) + n) : s.reads[j] = [at |-> k, now |-> time]
        <4>1. k \in Nat /\ time \in Nat /\ n \in Nat /\ r.reads \in Seq(Reading)
          BY <1>1, <1>2, <1>3, <1>4
        <4>2. s.reads = Grown(r.reads, n, k, time)
          BY <1>3
        <4>3. GrewBy(s.reads, r.reads, n, k, time)
          BY <4>1, <4>2, ReadsGrow
        <4> QED
          BY <4>3 DEF GrewBy
      <3>2. (a - 1) + 1 = a /\ (a - 1) + n = a + n - 1
        BY <1>2, <2>5
      <3> QED
        BY <1>2, <1>3, <3>1, <3>2
    <2>15. ASSUME NEW j \in 1..(a + n - 1)
           PROVE  /\ s.reads[j].now = R(j)
                  /\ \A i \in 1..Len(events) : events[i].ts >= R(j) => s.reads[j].at <= i
      <3>1. CASE j <= a - 1
        <4>1. j \in 1..(a - 1)
          BY <3>1
        <4> QED
          BY <1>2, <2>14, <4>1
      <3>2. CASE ~(j <= a - 1)
        <4>1. j \in a..(a + n - 1)
          BY <1>2, <2>5, <3>2
        <4>2. s.reads[j].now = R(j) /\ s.reads[j].at = k /\ R(j) = time
          BY <2>9, <2>14, <4>1
        <4>3. ASSUME NEW i \in 1..Len(events), events[i].ts >= R(j)
              PROVE  k <= i
          <5>1. ~(i \in 1..(k - 1))
            <6> SUFFICES ASSUME i \in 1..(k - 1)
                         PROVE  FALSE
              OBVIOUS
            <6>1. events[i].ts <= r.clock /\ events[i].ts \in Nat
              BY <1>1, <1>2
            <6> QED
              BY <1>2, <1>4, <2>1, <4>2, <4>3, <6>1
          <5> QED
            BY <1>1, <5>1
        <4> QED
          BY <4>2, <4>3
      <3> QED
        BY <3>1, <3>2
    <2>16. s.next = a + n /\ s.next - 1 = a + n - 1 /\ s.next # 1
      BY <1>2, <1>3, <2>5, <2>8
    <2>17. s.lastPass = R(s.next - 1)
      BY <1>3, <2>4, <2>9, <2>10, <2>16
    <2>18. Len(s.reads) = s.next - 1
      BY <1>2, <2>5, <2>14, <2>16
    <2>19. ReplayHolds(s, events, signals, k)
      <3>1. /\ s \in Replayed /\ k # 0 /\ s.feed = s.clock /\ s.clock = time
            /\ s.next \in 1..(N + 1)
        BY <1>1, <1>3, <1>5, <2>10, <2>16
      <3>2. /\ \A j \in 1..(s.next - 1) : R(j) <= time
            /\ \A j \in s.next..N : R(j) > time
        BY <2>12, <2>13, <2>16
      <3>3. \A j \in 1..(s.next - 1) :
                /\ s.reads[j].now = R(j)
                /\ \A i \in 1..Len(events) : events[i].ts >= R(j) => s.reads[j].at <= i
        BY <2>15, <2>16
      <3> QED
        BY <1>6, <1>7, <2>16, <2>17, <2>18, <3>1, <3>2, <3>3 DEF ReplayHolds, N, R
    <2> QED
      BY <2>19 DEF s, e
  <1>10. CASE ~(r.next <= N /\ R(r.next) <= time)
    <2>1. ~passes /\ n = 0
      <3>1. ~Due(r, signals, Told(r, e))
        BY <1>4, <1>10 DEF Due, N, R
      <3> QED
        BY <3>1 DEF passes, n, Passes, ReadBy
    <2>2. s.next = r.next /\ s.lastPass = r.lastPass /\ s.clock = time /\ s.feed = time
      BY <1>2, <1>3, <1>5, <2>1
    <2>3. /\ s.reads \in Seq(Reading) /\ Len(s.reads) = r.next - 1
          /\ \A j \in 1..(r.next - 1) : s.reads[j] = r.reads[j]
      <3>1. /\ s.reads \in Seq(Reading) /\ Len(s.reads) = Len(r.reads) + n
            /\ \A j \in 1..Len(r.reads) : s.reads[j] = r.reads[j]
        <4>1. k \in Nat /\ time \in Nat /\ n \in Nat /\ r.reads \in Seq(Reading)
          BY <1>1, <1>2, <1>3, <1>4
        <4>2. s.reads = Grown(r.reads, n, k, time)
          BY <1>3
        <4>3. GrewBy(s.reads, r.reads, n, k, time)
          BY <4>1, <4>2, ReadsGrow
        <4> QED
          BY <4>3 DEF GrewBy
      <3> QED
        BY <1>2, <1>3, <2>1, <3>1
    <2>4. \A j \in 1..(r.next - 1) : R(j) <= time
      <3>1. ASSUME NEW j \in 1..(r.next - 1)
            PROVE  R(j) <= time
        <4>1. j \in 1..N /\ R(j) \in Nat
          BY <1>1, <1>2
        <4> QED
          BY <1>2, <1>4, <4>1
      <3> QED
        BY <3>1
    <2>5. \A j \in r.next..N : R(j) > time
      <3>1. ASSUME NEW j \in r.next..N
            PROVE  R(j) > time
        <4>1. r.next <= N /\ j \in 1..N /\ r.next \in 1..N
          BY <1>1, <1>2
        <4>2. R(r.next) <= R(j) /\ R(r.next) \in Nat /\ R(j) \in Nat
          BY <1>1, <4>1
        <4> QED
          BY <1>4, <1>10, <4>1, <4>2
      <3> QED
        BY <3>1
    <2>6. \A j \in 1..(r.next - 1) :
              /\ s.reads[j].now = R(j)
              /\ \A i \in 1..Len(events) : events[i].ts >= R(j) => s.reads[j].at <= i
      BY <1>2, <2>3
    <2>7. s \in Replayed /\ k # 0 /\ s.next \in 1..(N + 1)
      BY <1>1, <1>2, <1>3, <2>2
    <2>8. ReplayHolds(s, events, signals, k)
      BY <1>2, <1>6, <1>7, <2>2, <2>3, <2>4, <2>5, <2>6, <2>7 DEF ReplayHolds, N, R
    <2> QED
      BY <2>8 DEF s, e
  <1> QED
    BY <1>9, <1>10

(* The other traversal of a session that can be replayed is one as well. *)
LEMMA FaithfulInEventTime ==
    ASSUME NEW events, NEW signals, Faithful(events, signals)
    PROVE  Faithful(EventTimeOrder(events), signals)
  <1> DEFINE n == Len(events)
             tape == EventTimeOrder(events)
  <1>1. Stamped(events) /\ n \in Nat /\ \A i \in 1..n : events[i].ts \in Nat /\ events[i].ts \in Int
    BY TapeIs DEF Faithful
  <1>2. PICK p : Ranked(events, p, n) /\ tape = [k \in 1..n |-> events[p[k]]]
    BY <1>1, EventTimeOrderIs
  <1>3. \A k \in 1..n : p[k] \in 1..n /\ tape[k] = events[p[k]]
    BY <1>2 DEF Ranked
  <1>4. PICK X : events \in Seq(X)
    BY <1>1 DEF Stamped
  <1>5. tape \in Seq(X) /\ Len(tape) = n
    <2>1. \A k \in 1..n : events[p[k]] \in X
      BY <1>3, <1>4, ElementOfSeq
    <2> DEFINE t == [k \in 1..n |-> events[p[k]]]
    <2>2. t \in Seq(X) /\ t \in [1..n -> X]
      <3> HIDE DEF n
      <3> QED
        BY <1>1, <2>1, IsASeq
    <2>3. Len(t) \in Nat /\ DOMAIN t = 1..Len(t) /\ DOMAIN t = 1..n
      <3> HIDE DEF n
      <3> QED
        BY <2>2, LenProperties
    <2>4. Len(t) = n
      <3> HIDE DEF t, n
      <3>1. 1..Len(t) = 1..n /\ Len(t) \in Nat /\ n \in Nat
        BY <1>1, <2>3
      <3> QED
        BY <3>1
    <2> QED
      BY <1>2, <2>2, <2>4
  <1> HIDE DEF tape, n
  <1>6. Stamped(tape)
    <2>1. \A k \in 1..n : tape[k].ts \in Nat
      BY <1>1, <1>3
    <2> QED
      BY <1>5, <2>1 DEF Stamped
  <1>7. \A k \in 1..Len(tape) : Advances(tape[k]) /\ tape[k].ts > 0
    BY <1>3, <1>5 DEF Faithful, n
  <1>8. ASSUME NEW j \in 1..Len(signals)
        PROVE  \E k \in 1..Len(tape) : /\ tape[k].ts = signals[j].release
                                       /\ \A h \in 1..(k - 1) : tape[h].ts <= signals[j].release
    <2>1. PICK i \in 1..n : events[i].ts = signals[j].release
      BY DEF Faithful, n
    <2>2. PICK k \in 1..n : p[k] = i
      <3>1. Ranked(events, p, Len(events)) /\ i \in 1..Len(events)
        BY <1>2 DEF n
      <3>2. Stamped(events)
        BY DEF Faithful
      <3> QED
        BY <3>1, <3>2, RankedReachesAll DEF n
    <2>3. tape[k].ts = signals[j].release
      BY <1>3, <2>1, <2>2
    <2>4. ASSUME NEW h \in 1..(k - 1)
          PROVE  tape[h].ts <= signals[j].release
      <3>1. h \in 1..n /\ h < k
        BY <1>1
      <3>2. Earlier(events, p[h], p[k])
        BY <1>2, <3>1 DEF Ranked
      <3>3. events[p[h]].ts \in Int /\ events[p[k]].ts \in Int
        BY <1>1, <1>3, <3>1
      <3>4. events[p[h]].ts <= events[p[k]].ts
        BY <3>2, <3>3 DEF Earlier
      <3> QED
        BY <1>3, <2>3, <3>1, <3>4
    <2> QED
      BY <1>5, <2>3, <2>4
  <1>9. Faithful(tape, signals)
    BY <1>6, <1>7, <1>8 DEF Faithful
  <1> QED
    BY <1>9 DEF tape

Replays(f, tape, signals) ==
    f = [k \in 0..Len(tape) |->
            IF k = 0 THEN EmptyReplay ELSE ReplayStep(f[k-1], signals, k, tape[k])]

(* The walk along the tape. *)
LEMMA ReplayRuns ==
    ASSUME NEW tape, NEW signals, Stamped(tape)
    PROVE  \E f : Replays(f, tape, signals)
  <1> DEFINE n == Len(tape)
             g == [k \in 1..n |-> [r \in Replayed |-> ReplayStep(r, signals, k, tape[k])]]
  <1>1. n \in Nat /\ \A k \in 1..n : tape[k].ts \in Nat
    BY TapeIs
  <1>2. EmptyReplay \in Replayed
    <2>1. EmptyReplay = [clock |-> 0, feed |-> -1, next |-> 1, lastPass |-> -1, reads |-> <<>>]
      BY DEF EmptyReplay, None
    <2>2. <<>> \in Seq(Reading)
      BY EmptySeq
    <2> QED
      BY <2>1, <2>2 DEF Replayed
  <1>3. ASSUME NEW k \in 1..n, NEW r \in Replayed
        PROVE  g[k][r] = ReplayStep(r, signals, k, tape[k]) /\ g[k][r] \in Replayed
    <2>1. ReplayStep(r, signals, k, tape[k]) \in Replayed
      <3>1. k \in Nat /\ tape[k].ts \in Nat
        BY <1>1
      <3> QED
        BY <3>1, StepIs
    <2> QED
      BY <2>1
  <1>4. PICK f \in [0..n -> Replayed] : f[0] = EmptyReplay /\ \A k \in 1..n : f[k] = g[k][f[k - 1]]
    <2> HIDE DEF n, g
    <2>1. Steps(g, n, Replayed)
      BY <1>3 DEF Steps
    <2>2. PICK f : Walks(f, g, EmptyReplay, n, Replayed)
      BY <1>1, <1>2, <2>1, Walk
    <2> QED
      BY <2>2 DEF Walks
  <1>5. ASSUME NEW k \in 0..n
        PROVE  f[k] = IF k = 0 THEN EmptyReplay ELSE ReplayStep(f[k - 1], signals, k, tape[k])
    <2>1. CASE k = 0
      BY <1>4, <2>1
    <2>2. CASE k # 0
      <3>1. k \in 1..n /\ k - 1 \in 0..n
        BY <1>1, <2>2
      <3>2. f[k - 1] \in Replayed
        BY <1>4, <3>1
      <3> HIDE DEF g, n
      <3> QED
        BY <1>3, <1>4, <2>2, <3>1, <3>2
    <2> QED
      BY <2>1, <2>2
  <1>6. f = [k \in 0..n |-> f[k]]
    BY <1>4
  <1>7. f = [k \in 0..n |-> IF k = 0 THEN EmptyReplay ELSE ReplayStep(f[k - 1], signals, k, tape[k])]
    <2> HIDE DEF g, n
    <2> QED
      BY <1>5, <1>6
  <1> QED
    BY <1>7 DEF Replays

(* A faithful session is read again whole, each signal at its release and no
   later than the first event that is as late. *)
LEMMA ReplayIs ==
    ASSUME NEW events, NEW signals, NEW order, NEW tape, tape = Traversed(events, order),
           Faithful(tape, signals)
    PROVE  /\ Replay(events, signals, order) \in Seq(Reading)
           /\ Len(Replay(events, signals, order)) = Len(signals)
           /\ \A j \in 1..Len(signals) :
                /\ Replay(events, signals, order)[j].now = signals[j].release
                /\ \A i \in 1..Len(tape) :
                        tape[i].ts >= signals[j].release => Replay(events, signals, order)[j].at <= i
  <1> DEFINE n == Len(tape)
             walk == CHOOSE f : Replays(f, tape, signals)
  <1>1. n \in Nat /\ Len(signals) \in Nat
    BY FaithfulIs
  <1>2. Replays(walk, tape, signals)
    <2>1. \E f : Replays(f, tape, signals)
      BY ReplayRuns DEF Faithful
    <2> QED
      BY <2>1
  <1>3. Replay(events, signals, order) = walk[n].reads
    BY DEF Replay, Replays
  <1> HIDE DEF walk
  <1>4. \A k \in 0..n : walk[k] = IF k = 0 THEN EmptyReplay
                                  ELSE ReplayStep(walk[k - 1], signals, k, tape[k])
    <2>1. walk = [k \in 0..n |-> IF k = 0 THEN EmptyReplay
                                 ELSE ReplayStep(walk[k - 1], signals, k, tape[k])]
      BY <1>2 DEF Replays
    <2> QED
      BY <2>1
  <1> HIDE DEF n
  <1> DEFINE bad == {k \in 0..n : ~ReplayHolds(walk[k], tape, signals, k)}
  <1>5. bad = {}
    <2> SUFFICES ASSUME bad # {}
                 PROVE  FALSE
      OBVIOUS
    <2>1. PICK m \in bad : \A k \in bad : m <= k
      <3>1. bad \in SUBSET Nat
        BY <1>1
      <3> HIDE DEF bad
      <3> QED
        BY <3>1, LeastNumber
    <2>2. m # 0
      BY <1>4, <2>1, ReplayStarts
    <2>3. m \in 1..n /\ m \in 0..n /\ m - 1 \in 0..n /\ ~(m <= m - 1)
      BY <1>1, <2>1, <2>2
    <2>4. m - 1 \notin bad
      <3> HIDE DEF bad
      <3> QED
        BY <2>1, <2>3
    <2>5. ReplayHolds(walk[m - 1], tape, signals, m - 1)
      BY <2>3, <2>4
    <2>6. ReplayHolds(ReplayStep(walk[m - 1], signals, m, tape[m]), tape, signals, m)
      <3> HIDE DEF bad
      <3> QED
        BY <2>3, <2>5, ReplayGoesOn DEF n
    <2> QED
      BY <1>4, <2>1, <2>2, <2>3, <2>6
  <1>6. ReplayHolds(walk[n], tape, signals, n)
    BY <1>1, <1>5
  <1> DEFINE r == walk[n]
  <1>7. r.next = Len(signals) + 1
    <2>1. r.next \in 1..(Len(signals) + 1) /\ r.clock \in Nat
      BY <1>6 DEF ReplayHolds, Replayed
    <2>2. SUFFICES ASSUME r.next <= Len(signals)
                   PROVE  FALSE
      BY <1>1, <2>1
    <2>3. r.next \in r.next..Len(signals) /\ r.next \in 1..Len(signals)
      BY <1>1, <2>1, <2>2
    <2>4. signals[r.next].release > r.clock
      BY <1>6, <2>3 DEF ReplayHolds
    <2>5. PICK i \in 1..n : tape[i].ts = signals[r.next].release
      BY <2>3 DEF Faithful, n
    <2>6. tape[i].ts <= r.clock
      BY <1>6 DEF ReplayHolds
    <2>7. tape[i].ts \in Nat
      BY FaithfulIs DEF n
    <2> QED
      BY <2>1, <2>4, <2>5, <2>6, <2>7
  <1>8. /\ r.reads \in Seq(Reading) /\ Len(r.reads) = r.next - 1
        /\ \A j \in 1..(r.next - 1) :
            /\ r.reads[j].now = signals[j].release
            /\ \A i \in 1..Len(tape) : tape[i].ts >= signals[j].release => r.reads[j].at <= i
    BY <1>6 DEF ReplayHolds, Replayed
  <1>9. r.next - 1 = Len(signals)
    BY <1>1, <1>7
  <1> HIDE DEF r
  <1> QED
    BY <1>3, <1>8, <1>9 DEF r

-----------------------------------------------------------------------------
(* What the core notes of the signals it reads.                            *)

(* A time that the clock had after the first n events. *)
Latest(t, events, n) ==
    /\ \A i \in 1..n : Advances(events[i]) => events[i].ts <= t
    /\ t = 0 \/ \E i \in 1..n : events[i].ts = t

(* The signals that were handed over are those that were read, at the time
   they were read; passes are an interval apart and none reads too much. *)
Noted(rs, events, signals) ==
    /\ rs \in Seq(Reading) /\ events \in Seq(Feed) /\ Len(signals) = Len(rs)
    /\ \A k \in 1..Len(rs) :
        /\ signals[k].release = rs[k].now /\ rs[k].at \in 0..Len(events)
        /\ Latest(rs[k].now, events, rs[k].at)
    /\ \A i, j \in 1..Len(rs) :
        i < j => \/ rs[i].now = rs[j].now /\ j - i < MaxPerDrain
                 \/ rs[j].now - rs[i].now >= Interval

TheClockIsTheEvents ==
    main # "over" =>
        /\ Latest(clock, EventsIn(handed), EventsHanded)
        /\ \A k \in 1..Len(reads) : reads[k].now <= lastPass

ThePassSoFar ==
    core = "read" =>
        /\ lastPass = clock
        /\ \A k \in 1..Len(reads) :
            \/ reads[k].now = clock /\ Len(reads) - k < MaxPerDrain - budget
            \/ clock - reads[k].now >= Interval

ReadsInv ==
    /\ Noted(reads, EventsIn(handed), SignalsIn(handed))
    /\ TheClockIsTheEvents
    /\ ThePassSoFar

(* What handing a record over adds to the events and to the signals. *)
EventKinds == {"trade", "ticker", "bar", "fill"}

LEMMA FeedIs ==
    ASSUME NEW e \in Feed
    PROVE  e \in Records /\ e.kind \in EventKinds /\ e.kind \notin {"signal"} /\ e.ts \in Nat /\ e.ts > 0
  <1>1. e.kind \in EventKinds /\ e.ts \in Nat /\ e.ts >= Interval
    BY RecordingAssumption DEF EventKinds
  <1>2. Interval \in Nat /\ Interval > 0
    BY TapeAssumption
  <1> QED
    BY <1>1, <1>2 DEF Records, EventKinds

LEMMA EventsAre ==
    ASSUME NEW recs \in Seq(Records)
    PROVE  EventsIn(recs) \in Seq(Feed)
  <1>1. EventsIn(recs) \in Seq({r \in Records : r.kind \in EventKinds})
    BY ChosenAre DEF EventsIn, EventKinds
  <1>2. {r \in Records : r.kind \in EventKinds} \subseteq Feed
    BY DEF Records, EventKinds
  <1> DEFINE C == {r \in Records : r.kind \in EventKinds}
             s == EventsIn(recs)
  <1>3. Len(s) \in Nat /\ s = [i \in 1..Len(s) |-> s[i]] /\ \A i \in 1..Len(s) : s[i] \in C
    <2> HIDE DEF C, s
    <2> QED
      BY <1>1, LenProperties, ElementOfSeq DEF C, s
  <1>4. \A i \in 1..Len(s) : s[i] \in Feed
    <2> HIDE DEF s
    <2> QED
      BY <1>2, <1>3
  <1> HIDE DEF s
  <1>5. s \in Seq(Feed)
    BY <1>3, <1>4, IsASeq
  <1> QED
    BY <1>5 DEF s

LEMMA AnEventMore ==
    ASSUME NEW recs \in Seq(Records), NEW e \in Feed
    PROVE  /\ EventsIn(Append(recs, e)) = Append(EventsIn(recs), e)
           /\ SignalsIn(Append(recs, e)) = SignalsIn(recs)
  <1>1. e \in Records /\ e.kind \in {"trade", "ticker", "bar", "fill"} /\ e.kind \notin {"signal"}
    BY FeedIs DEF EventKinds
  <1> QED
    BY <1>1, ChosenFromMore DEF EventsIn, SignalsIn

LEMMA ASignalMore ==
    ASSUME NEW recs \in Seq(Records), NEW s \in Records, s.kind = "signal"
    PROVE  /\ EventsIn(Append(recs, s)) = EventsIn(recs)
           /\ SignalsIn(Append(recs, s)) = Append(SignalsIn(recs), s)
  BY ChosenFromMore DEF EventsIn, SignalsIn

(* The signals are a sequence. *)
LEMMA SignalsAre ==
    ASSUME NEW recs \in Seq(Records)
    PROVE  SignalsIn(recs) \in Seq(Records)
  <1>1. SignalsIn(recs) \in Seq({r \in Records : r.kind \in {"signal"}})
    BY ChosenAre DEF SignalsIn
  <1> DEFINE C == {r \in Records : r.kind \in {"signal"}}
             s == SignalsIn(recs)
  <1>2. Len(s) \in Nat /\ s = [i \in 1..Len(s) |-> s[i]] /\ \A i \in 1..Len(s) : s[i] \in C
    <2> HIDE DEF C, s
    <2> QED
      BY <1>1, LenProperties, ElementOfSeq DEF C, s
  <1>3. \A i \in 1..Len(s) : s[i] \in Records
    BY <1>2
  <1> HIDE DEF s
  <1>4. s \in Seq(Records)
    BY <1>2, <1>3, IsASeq
  <1> QED
    BY <1>4 DEF s

(* What was the latest stays it when an event is added behind. *)
LEMMA LatestStays ==
    ASSUME NEW events \in Seq(Feed), NEW e \in Feed, NEW t, NEW n \in 0..Len(events), Latest(t, events, n)
    PROVE  Latest(t, Append(events, e), n)
  <1>1. Len(events) \in Nat /\ \A i \in 1..Len(events) : Append(events, e)[i] = events[i]
    BY LenProperties, AppendProperties
  <1>2. \A i \in 1..n : Append(events, e)[i] = events[i]
    BY <1>1
  <1> QED
    BY <1>2 DEF Latest

LEMMA LatestAdvances ==
    ASSUME NEW events \in Seq(Feed), NEW e \in Feed, NEW t \in Nat, Latest(t, events, Len(events))
    PROVE  Latest(ClockAfter(t, e), Append(events, e), Len(Append(events, e)))
  <1> DEFINE n == Len(events)
             more == Append(events, e)
             u == ClockAfter(t, e)
  <1>1. /\ n \in Nat /\ Len(more) = n + 1 /\ more[n + 1] = e
        /\ \A i \in 1..n : more[i] = events[i] /\ events[i] \in Feed
    BY LenProperties, AppendProperties, ElementOfSeq
  <1>2. e.ts \in Nat /\ \A i \in 1..n : events[i].ts \in Nat
    BY <1>1, FeedIs
  <1>3. u \in Nat /\ u >= t /\ (Advances(e) => u >= e.ts) /\ (u = t \/ u = e.ts)
    BY <1>2 DEF ClockAfter, GreaterOf
  <1> HIDE DEF n, more, u
  <1>4. ASSUME NEW i \in 1..(n + 1), Advances(more[i])
        PROVE  more[i].ts <= u
    <2>1. CASE i = n + 1
      BY <1>1, <1>3, <1>4, <2>1
    <2>2. CASE i # n + 1
      <3>1. i \in 1..n /\ more[i] = events[i] /\ events[i].ts \in Nat
        BY <1>1, <1>2, <2>2
      <3>2. events[i].ts <= t
        BY <1>4, <3>1 DEF Latest, n
      <3> QED
        BY <1>3, <3>1, <3>2
    <2> QED
      BY <2>1, <2>2
  <1>5. u = 0 \/ \E i \in 1..(n + 1) : more[i].ts = u
    <2>1. CASE u = e.ts
      <3>1. n + 1 \in 1..(n + 1) /\ more[n + 1].ts = u
        BY <1>1, <2>1
      <3> QED
        BY <3>1
    <2>2. CASE u = t
      <3>1. CASE t = 0
        BY <2>2, <3>1
      <3>2. CASE t # 0
        <4>1. PICK i \in 1..n : events[i].ts = t
          BY <3>2 DEF Latest, n
        <4>2. i \in 1..(n + 1) /\ more[i].ts = u
          BY <1>1, <2>2, <4>1
        <4> QED
          BY <4>2
      <3> QED
        BY <3>1, <3>2
    <2> QED
      BY <1>3, <2>1, <2>2
  <1>6. Latest(u, more, n + 1)
    BY <1>4, <1>5 DEF Latest
  <1> QED
    BY <1>1, <1>6 DEF n, more, u

(* What is noted stays so when an event is handed over. *)
LEMMA NotedBehindAnEvent ==
    ASSUME NEW rs, NEW events, NEW signals, Noted(rs, events, signals), NEW e \in Feed
    PROVE  Noted(rs, Append(events, e), signals)
  <1>1. events \in Seq(Feed) /\ rs \in Seq(Reading) /\ Len(signals) = Len(rs)
    BY DEF Noted
  <1>2. Append(events, e) \in Seq(Feed) /\ Len(events) \in Nat /\ Len(Append(events, e)) = Len(events) + 1
    BY <1>1, AppendProperties, LenProperties
  <1>3. ASSUME NEW k \in 1..Len(rs)
        PROVE  /\ signals[k].release = rs[k].now /\ rs[k].at \in 0..Len(Append(events, e))
               /\ Latest(rs[k].now, Append(events, e), rs[k].at)
    <2>1. signals[k].release = rs[k].now /\ rs[k].at \in 0..Len(events) /\ Latest(rs[k].now, events, rs[k].at)
      BY DEF Noted
    <2>2. Latest(rs[k].now, Append(events, e), rs[k].at)
      BY <1>1, <2>1, LatestStays
    <2>3. rs[k].at \in 0..Len(Append(events, e))
      BY <1>2, <2>1
    <2> QED
      BY <2>1, <2>2, <2>3
  <1>4. \A i, j \in 1..Len(rs) :
            i < j => \/ rs[i].now = rs[j].now /\ j - i < MaxPerDrain
                     \/ rs[j].now - rs[i].now >= Interval
    BY DEF Noted
  <1> QED
    BY <1>1, <1>2, <1>3, <1>4 DEF Noted

LEMMA AReadingIs ==
    ASSUME NEW rs \in Seq(Reading), NEW k \in 1..Len(rs)
    PROVE  rs[k].now \in Nat /\ rs[k].at \in Nat
  <1>1. rs[k] \in Reading
    BY ElementOfSeq
  <1> QED
    BY <1>1 DEF Reading

(* And when a signal is read. *)
LEMMA NotedOneMore ==
    ASSUME NEW rs, NEW events, NEW signals, Noted(rs, events, signals), signals \in Seq(Records),
           NEW t \in Nat, NEW s \in Records, s.release = t, Latest(t, events, Len(events)),
           NEW budg \in 1..MaxPerDrain,
           \A k \in 1..Len(rs) : \/ rs[k].now = t /\ Len(rs) - k < MaxPerDrain - budg
                                 \/ t - rs[k].now >= Interval
    PROVE  LET more == Append(rs, [at |-> Len(events), now |-> t])
           IN  /\ Noted(more, events, Append(signals, s))
               /\ Len(more) = Len(rs) + 1 /\ more[Len(rs) + 1].now = t
               /\ \A k \in 1..Len(rs) : more[k] = rs[k]
               /\ \A k \in 1..Len(more) :
                    \/ more[k].now = t /\ Len(more) - k < MaxPerDrain - (budg - 1)
                    \/ t - more[k].now >= Interval
  <1> DEFINE x == [at |-> Len(events), now |-> t]
             more == Append(rs, x)
             n == Len(rs)
             sigs == Append(signals, s)
  <1>1. events \in Seq(Feed) /\ rs \in Seq(Reading) /\ Len(signals) = n /\ n \in Nat /\ Len(events) \in Nat
    BY LenProperties DEF Noted
  <1>2. x \in Reading /\ x.now = t /\ x.at = Len(events)
    BY <1>1 DEF Reading
  <1> HIDE DEF x
  <1>3. /\ more \in Seq(Reading) /\ Len(more) = n + 1 /\ more[n + 1] = x
        /\ \A k \in 1..n : more[k] = rs[k]
    BY <1>1, <1>2, AppendProperties
  <1>4. /\ Len(sigs) = n + 1 /\ sigs[n + 1] = s
        /\ \A k \in 1..n : sigs[k] = signals[k]
    BY <1>1, AppendProperties
  <1>5. \A k \in 1..n : rs[k].now \in Nat
    BY <1>1, AReadingIs DEF n
  <1>6. MaxPerDrain \in Nat /\ Interval \in Nat /\ Interval > 0
    BY TapeAssumption
  <1> HIDE DEF more, sigs, n
  <1>7. ASSUME NEW k \in 1..(n + 1)
        PROVE  /\ sigs[k].release = more[k].now /\ more[k].at \in 0..Len(events)
               /\ Latest(more[k].now, events, more[k].at)
    <2>1. CASE k = n + 1
      BY <1>1, <1>2, <1>3, <1>4, <2>1
    <2>2. CASE k # n + 1
      <3>1. k \in 1..n
        BY <1>1, <2>2
      <3>2. signals[k].release = rs[k].now /\ rs[k].at \in 0..Len(events) /\ Latest(rs[k].now, events, rs[k].at)
        BY <3>1 DEF Noted, n
      <3> QED
        BY <1>3, <1>4, <3>1, <3>2
    <2> QED
      BY <2>1, <2>2
  <1>8. ASSUME NEW i \in 1..(n + 1), NEW j \in 1..(n + 1), i < j
        PROVE  \/ more[i].now = more[j].now /\ j - i < MaxPerDrain
               \/ more[j].now - more[i].now >= Interval
    <2>1. i \in 1..n
      BY <1>1, <1>8
    <2>2. CASE j = n + 1
      <3>1. more[j].now = t /\ more[i].now = rs[i].now
        BY <1>2, <1>3, <2>1, <2>2
      <3>2. \/ rs[i].now = t /\ n - i < MaxPerDrain - budg
            \/ t - rs[i].now >= Interval
        BY <2>1 DEF n
      <3> QED
        BY <1>1, <1>6, <2>1, <2>2, <3>1, <3>2
    <2>3. CASE j # n + 1
      <3>1. j \in 1..n
        BY <1>1, <2>3
      <3>2. \/ rs[i].now = rs[j].now /\ j - i < MaxPerDrain
            \/ rs[j].now - rs[i].now >= Interval
        BY <1>8, <2>1, <3>1 DEF Noted, n
      <3> QED
        BY <1>3, <2>1, <3>1, <3>2
    <2> QED
      BY <2>2, <2>3
  <1>9. ASSUME NEW k \in 1..(n + 1)
        PROVE  \/ more[k].now = t /\ (n + 1) - k < MaxPerDrain - (budg - 1)
               \/ t - more[k].now >= Interval
    <2>1. CASE k = n + 1
      BY <1>1, <1>2, <1>3, <1>6, <2>1
    <2>2. CASE k # n + 1
      <3>1. k \in 1..n
        BY <1>1, <2>2
      <3>2. \/ rs[k].now = t /\ n - k < MaxPerDrain - budg
            \/ t - rs[k].now >= Interval
        BY <3>1 DEF n
      <3> QED
        BY <1>1, <1>3, <1>6, <3>1, <3>2
    <2> QED
      BY <2>1, <2>2
  <1>10. Noted(more, events, sigs)
    BY <1>1, <1>3, <1>4, <1>7, <1>8 DEF Noted
  <1>11. more[n + 1].now = t
    BY <1>2, <1>3
  <1> QED
    BY <1>3, <1>9, <1>10, <1>11 DEF more, n, sigs, x

LEMMA ReadsInit ==
    ASSUME Init
    PROVE  ReadsInv
  <1>1. /\ handed = <<>> /\ reads = <<>> /\ clock = 0 /\ core = "exited"
    BY DEF Init
  <1>2. EventsIn(handed) = <<>> /\ SignalsIn(handed) = <<>> /\ Len(<<>>) = 0 /\ <<>> \in Seq(Reading)
        /\ <<>> \in Seq(Feed)
    BY <1>1, ChosenFromNone, EmptySeq DEF EventsIn, SignalsIn
  <1>3. Noted(<<>>, <<>>, <<>>) /\ Latest(0, <<>>, 0)
    BY <1>2 DEF Noted, Latest
  <1>4. TheClockIsTheEvents
    BY <1>1, <1>2, <1>3 DEF TheClockIsTheEvents, EventsHanded
  <1> QED
    BY <1>1, <1>2, <1>3, <1>4 DEF ReadsInv, ThePassSoFar

(* The readings are of times. *)
LEMMA ReadingsAre ==
    ASSUME ReadsInv, Types
    PROVE  /\ reads \in Seq(Reading) /\ Len(reads) \in Nat /\ EventsIn(handed) \in Seq(Feed)
           /\ SignalsIn(handed) \in Seq(Records)
           /\ \A k \in 1..Len(reads) : reads[k].now \in Nat
           /\ clock \in Nat /\ lastPass \in Int /\ lastPass <= clock /\ budget \in 0..MaxPerDrain
           /\ release = lastPass /\ handed \in Seq(Records)
  <1>1. reads \in Seq(Reading) /\ EventsIn(handed) \in Seq(Feed)
    BY DEF ReadsInv, Noted
  <1>2. \A k \in 1..Len(reads) : reads[k].now \in Nat
    BY <1>1, AReadingIs
  <1>3. handed \in Seq(Records) /\ SignalsIn(handed) \in Seq(Records)
    BY SignalsAre DEF Types, CoreTypes
  <1>4. clock \in Nat /\ lastPass \in Int
    BY Constants DEF Types, CoreTypes, None
  <1> QED
    BY <1>1, <1>2, <1>3, <1>4, LenProperties DEF Types, CoreTypes

LEMMA ReadsHandle ==
    ASSUME ReadsInv, Types, Handle, main # "over", main' = main
    PROVE  ReadsInv'
  <1> DEFINE e == Head(bus)
  <1>1. /\ core = "drain" /\ core' = core /\ clock' = ClockAfter(clock, e) /\ HandOver(e)
        /\ lastPass' = lastPass /\ reads' = reads
    BY DEF Handle
  <1>2. e \in Feed
    BY Shortened DEF Handle, Types, CoreTypes
  <1> HIDE DEF e
  <1>3. e \in Records
    BY <1>2, FeedIs
  <1>4. handed' = Append(handed, e)
    BY <1>1 DEF HandOver
  <1> DEFINE EH == EventsIn(handed)
             SH == SignalsIn(handed)
  <1>5. EventsIn(handed') = Append(EH, e) /\ SignalsIn(handed') = SH /\ EH \in Seq(Feed)
    BY <1>2, <1>4, AnEventMore, ReadingsAre
  <1>6. Noted(reads, EH, SH) /\ Latest(clock, EH, Len(EH)) /\ clock \in Nat
        /\ \A k \in 1..Len(reads) : reads[k].now <= lastPass
    BY ReadingsAre DEF ReadsInv, TheClockIsTheEvents, EventsHanded
  <1> HIDE DEF EH, SH
  <1>7. Noted(reads, Append(EH, e), SH)
    BY <1>2, <1>6, NotedBehindAnEvent
  <1>8. Latest(clock', Append(EH, e), Len(Append(EH, e)))
    BY <1>1, <1>2, <1>5, <1>6, LatestAdvances
  <1>9. EventsHanded' = Len(Append(EH, e))
    BY <1>5 DEF EventsHanded
  <1>10. TheClockIsTheEvents'
    BY <1>1, <1>5, <1>6, <1>8, <1>9 DEF TheClockIsTheEvents
  <1>11. ThePassSoFar'
    BY <1>1 DEF ThePassSoFar
  <1>12. Noted(reads, EventsIn(handed), SignalsIn(handed))'
    BY <1>1, <1>5, <1>7
  <1> QED
    BY <1>10, <1>11, <1>12 DEF ReadsInv

LEMMA ReadsPass ==
    ASSUME ReadsInv, Types, Pass, main # "over", main' = main
    PROVE  ReadsInv'
  <1>1. UNCHANGED <<clock, handed, reads>>
    BY DEF Pass
  <1>2. EventsIn(handed)' = EventsIn(handed) /\ SignalsIn(handed)' = SignalsIn(handed)
        /\ EventsHanded' = EventsHanded
    BY <1>1 DEF EventsHanded
  <1>3. Noted(reads, EventsIn(handed), SignalsIn(handed))'
    BY <1>1, <1>2 DEF ReadsInv
  <1>4. Latest(clock, EventsIn(handed), EventsHanded)'
    BY <1>1, <1>2 DEF ReadsInv, TheClockIsTheEvents
  <1>5. \A k \in 1..Len(reads) : reads[k].now <= lastPass /\ reads[k].now \in Nat
    BY ReadingsAre DEF ReadsInv, TheClockIsTheEvents
  <1>6. clock \in Nat /\ lastPass \in Int /\ lastPass <= clock /\ MaxPerDrain \in Nat /\ Interval \in Nat
    BY ReadingsAre, TapeAssumption
  <1>7. CASE Gate(lastPass, clock)
    <2>1. lastPass' = clock /\ budget' = MaxPerDrain /\ core' = "read"
      BY <1>7 DEF Pass
    <2>2. lastPass = -1 \/ clock - lastPass >= Interval
      BY <1>7 DEF Gate, None
    <2>3. \A k \in 1..Len(reads) : reads[k].now <= clock /\ clock - reads[k].now >= Interval
      BY <1>5, <1>6, <2>2
    <2>4. TheClockIsTheEvents'
      BY <1>1, <1>4, <2>1, <2>3 DEF TheClockIsTheEvents
    <2>5. ThePassSoFar'
      BY <1>1, <2>1, <2>3 DEF ThePassSoFar
    <2> QED
      BY <1>3, <2>4, <2>5 DEF ReadsInv
  <1>8. CASE ~Gate(lastPass, clock)
    <2>1. core' = "check" /\ lastPass' = lastPass
      BY <1>8 DEF Pass
    <2>2. TheClockIsTheEvents'
      BY <1>1, <1>4, <1>5, <2>1 DEF TheClockIsTheEvents
    <2>3. ThePassSoFar'
      BY <2>1 DEF ThePassSoFar
    <2> QED
      BY <1>3, <2>2, <2>3 DEF ReadsInv
  <1> QED
    BY <1>7, <1>8

(* What the time and the readings say stays when they do. *)
LEMMA ReadsStay ==
    ASSUME ReadsInv, UNCHANGED <<handed, reads>>,
           main' = "over" \/ (main # "over" /\ UNCHANGED <<clock, lastPass>>),
           core' # "read" \/ UNCHANGED <<core, clock, lastPass, budget>>
    PROVE  ReadsInv'
  <1>1. EventsIn(handed)' = EventsIn(handed) /\ SignalsIn(handed)' = SignalsIn(handed)
        /\ EventsHanded' = EventsHanded
    BY DEF EventsHanded
  <1>2. Noted(reads, EventsIn(handed), SignalsIn(handed))'
    BY <1>1 DEF ReadsInv
  <1>3. TheClockIsTheEvents'
    BY <1>1 DEF ReadsInv, TheClockIsTheEvents
  <1>4. ThePassSoFar'
    BY DEF ReadsInv, ThePassSoFar
  <1> QED
    BY <1>2, <1>3, <1>4 DEF ReadsInv

LEMMA ReadsRead ==
    ASSUME ReadsInv, Types, ReadSignal, main # "over", main' = main
    PROVE  ReadsInv'
  <1>1. core = "read" /\ UNCHANGED <<clock, lastPass, release>>
    BY DEF ReadSignal
  <1>2. CASE ~(ring > 0 /\ budget > 0)
    <2>1. core' = "check" /\ UNCHANGED <<reads, handed>>
      BY <1>2 DEF ReadSignal
    <2> QED
      BY <1>1, <2>1, ReadsStay
  <1>3. CASE ring > 0 /\ budget > 0
    <2> DEFINE EH == EventsIn(handed)
               SH == SignalsIn(handed)
               s == [kind |-> "signal", release |-> release]
               x == [at |-> Len(EH), now |-> clock]
               more == Append(reads, x)
    <2>1. core' = core /\ budget' = budget - 1 /\ reads' = more /\ HandOver(s)
      BY <1>3 DEF ReadSignal, EventsHanded
    <2>2. s \in Records /\ s.kind = "signal" /\ s.release = release
      BY DEF Records, Types, CoreTypes
    <2> HIDE DEF s
    <2>3. handed' = Append(handed, s)
      BY <2>1 DEF HandOver
    <2>4. EventsIn(handed') = EH /\ SignalsIn(handed') = Append(SH, s)
      BY <2>2, <2>3, ASignalMore, ReadingsAre
    <2>5. /\ Noted(reads, EH, SH) /\ SH \in Seq(Records) /\ clock \in Nat
          /\ Latest(clock, EH, Len(EH)) /\ budget \in 1..MaxPerDrain
          /\ lastPass = clock /\ release = clock
          /\ \A k \in 1..Len(reads) : reads[k].now <= lastPass
          /\ \A k \in 1..Len(reads) :
                \/ reads[k].now = clock /\ Len(reads) - k < MaxPerDrain - budget
                \/ clock - reads[k].now >= Interval
          /\ Len(reads) \in Nat
      <3>1. MaxPerDrain \in Nat
        BY TapeAssumption
      <3> QED
        BY <1>1, <1>3, <3>1, ReadingsAre DEF ReadsInv, TheClockIsTheEvents, ThePassSoFar, EventsHanded
    <2> HIDE DEF EH, SH
    <2>6. /\ Noted(more, EH, Append(SH, s))
          /\ Len(more) = Len(reads) + 1 /\ more[Len(reads) + 1].now = clock
          /\ \A k \in 1..Len(reads) : more[k] = reads[k]
          /\ \A k \in 1..Len(more) :
                \/ more[k].now = clock /\ Len(more) - k < MaxPerDrain - (budget - 1)
                \/ clock - more[k].now >= Interval
      BY <2>2, <2>5, NotedOneMore
    <2> HIDE DEF more, x
    <2>7. Noted(reads, EventsIn(handed), SignalsIn(handed))'
      BY <2>1, <2>4, <2>6
    <2>8. \A k \in 1..Len(more) : more[k].now <= lastPass
      <3>1. ASSUME NEW k \in 1..Len(more)
            PROVE  more[k].now <= lastPass
        <4>1. CASE k = Len(reads) + 1
          BY <2>5, <2>6, <4>1
        <4>2. CASE k # Len(reads) + 1
          <5>1. k \in 1..Len(reads)
            BY <2>5, <2>6, <4>2
          <5> QED
            BY <2>5, <2>6, <5>1
        <4> QED
          BY <4>1, <4>2
      <3> QED
        BY <3>1
    <2>9. TheClockIsTheEvents'
      <3>1. EventsIn(handed)' = EH /\ EventsHanded' = Len(EH)
        BY <2>4 DEF EventsHanded
      <3> QED
        BY <1>1, <2>1, <2>5, <2>8, <3>1 DEF TheClockIsTheEvents
    <2>10. ThePassSoFar'
      BY <1>1, <2>1, <2>5, <2>6 DEF ThePassSoFar
    <2> QED
      BY <2>7, <2>9, <2>10 DEF ReadsInv
  <1> QED
    BY <1>2, <1>3

(* Every step keeps what the reads say. *)
LEMMA ReadsNext ==
    ASSUME Ind, ReadsInv, [Next]_vars
    PROVE  ReadsInv'
  <1>1. Types
    BY DEF Ind
  <1>2. CASE Publish \/ PushSignal
    <2>1. UNCHANGED <<core, clock, lastPass, budget, handed, reads, main>> /\ core # "exited"
      BY <1>2 DEF Publish, PushSignal, coreVars, mainVars
    <2> QED
      BY <2>1, CoreRuns, ReadsStay
  <1>3. CASE CoreStep
    <2>1. core # "exited" /\ main' = main
      BY <1>1, <1>3, CoreStepDoes DEF mainVars
    <2>2. main # "over"
      BY <2>1, CoreRuns
    <2>3. CASE CheckStop
      <3>1. core' \in {"exited", "drain"} /\ UNCHANGED <<clock, lastPass, handed, reads>>
        BY <2>3 DEF CheckStop
      <3> QED
        BY <2>1, <2>2, <3>1, ReadsStay
    <2> QED
      BY <1>1, <1>3, <2>1, <2>2, <2>3, ReadsHandle, ReadsPass, ReadsRead DEF CoreStep
  <1>4. CASE WriterStep
    <2>1. UNCHANGED <<core, clock, lastPass, budget, handed, reads, main>>
      BY <1>4 DEF WriterStep, coreVars, mainVars
    <2>2. CASE main = "over"
      BY <2>1, <2>2, ReadsStay
    <2>3. CASE main # "over"
      BY <2>1, <2>3, ReadsStay
    <2> QED
      BY <2>2, <2>3
  <1>5. CASE MainStep \/ RequestStop \/ Abandon
    <2>1. \/ Clears("events") \/ Clears("signals") \/ Says(Finish) \/ Says(Close) \/ Join
          \/ Quiet /\ main = "start" /\ main' \in {"clean events", "over"}
          \/ Quiet /\ main = "run" /\ main' = "stop"
      BY <1>1, <1>5, MainDoes
    <2>2. CASE Clears("events") \/ Clears("signals")
      <3>1. main # "over" /\ UNCHANGED <<clock, lastPass, budget, handed, reads>>
            /\ (core' = "drain" \/ core' = core)
        BY <2>2 DEF Clears
      <3> QED
        BY <3>1, ReadsStay
    <2>3. CASE Says(Finish) \/ Says(Close)
      <3>1. main # "over" /\ UNCHANGED <<core, clock, lastPass, budget, handed, reads>>
        BY <2>3 DEF Says, coreVars
      <3> QED
        BY <3>1, ReadsStay
    <2>4. CASE Join
      <3>1. main' = "over" /\ core' = "exited" /\ UNCHANGED <<handed, reads>>
        BY <2>4 DEF Join
      <3> QED
        BY <3>1, ReadsStay
    <2>5. CASE Quiet /\ main # "over"
      <3>1. UNCHANGED <<core, clock, lastPass, budget, handed, reads>>
        BY <2>5 DEF Quiet, coreVars
      <3> QED
        BY <2>5, <3>1, ReadsStay
    <2> QED
      BY <2>1, <2>2, <2>3, <2>4, <2>5
  <1>6. CASE Kill
    <2>1. main' = "over" /\ core' = "exited" /\ UNCHANGED <<handed, reads>>
      BY <1>6 DEF Kill
    <2> QED
      BY <2>1, ReadsStay
  <1>7. CASE UNCHANGED vars
    <2>1. UNCHANGED <<core, clock, lastPass, budget, handed, reads, main>>
      BY <1>7 DEF vars, coreVars, mainVars
    <2>2. CASE main = "over"
      BY <2>1, <2>2, ReadsStay
    <2>3. CASE main # "over"
      BY <2>1, <2>3, ReadsStay
    <2> QED
      BY <2>2, <2>3
  <1> QED
    BY <1>2, <1>3, <1>4, <1>5, <1>6, <1>7 DEF Next

-----------------------------------------------------------------------------
(* The replay.                                                             *)

LEMMA TheTapeIsStamped ==
    ASSUME NEW events \in Seq(Feed)
    PROVE  Stamped(events)
  <1>1. \A i \in 1..Len(events) : events[i].ts \in Nat
    BY ElementOfSeq, FeedIs
  <1> QED
    BY <1>1 DEF Stamped

(* What was noted can be replayed. *)
LEMMA NotedIsFaithful ==
    ASSUME NEW rs, NEW events, NEW signals, Noted(rs, events, signals),
           \A k \in 1..Len(rs) : rs[k].at > 0, \A i \in 1..Len(events) : Advances(events[i])
    PROVE  /\ Faithful(events, signals)
           /\ \A k \in 1..Len(rs) :
                \E i \in 1..Len(events) : i <= rs[k].at /\ events[i].ts >= signals[k].release
  <1>1. events \in Seq(Feed) /\ rs \in Seq(Reading) /\ Len(signals) = Len(rs) /\ Len(rs) \in Nat
        /\ Len(events) \in Nat
    BY LenProperties DEF Noted
  <1>2. \A i \in 1..Len(events) : events[i].ts \in Nat /\ events[i].ts > 0
    BY <1>1, ElementOfSeq, FeedIs
  <1>3. ASSUME NEW k \in 1..Len(rs)
        PROVE  /\ signals[k].release = rs[k].now /\ rs[k].now \in Nat
               /\ \E i \in 1..Len(events) :
                    /\ i <= rs[k].at /\ events[i].ts = rs[k].now
                    /\ \A h \in 1..(i - 1) : events[h].ts <= rs[k].now
    <2>1. /\ signals[k].release = rs[k].now /\ rs[k].at \in 0..Len(events) /\ rs[k].at > 0
          /\ Latest(rs[k].now, events, rs[k].at)
      BY DEF Noted
    <2>2. rs[k].now \in Nat
      BY <1>1, AReadingIs
    <2>3. \A i \in 1..rs[k].at : i \in 1..Len(events) /\ events[i].ts <= rs[k].now
      BY <1>1, <2>1 DEF Latest
    <2>4. rs[k].now # 0
      <3>1. 1 \in 1..rs[k].at
        BY <1>1, <2>1
      <3>2. events[1].ts <= rs[k].now /\ events[1].ts > 0 /\ events[1].ts \in Nat
        BY <1>2, <2>3, <3>1
      <3> QED
        BY <2>2, <3>2
    <2>5. PICK i \in 1..rs[k].at : events[i].ts = rs[k].now
      BY <2>1, <2>4 DEF Latest
    <2>6. i \in 1..Len(events) /\ i <= rs[k].at /\ \A h \in 1..(i - 1) : h \in 1..rs[k].at
      BY <1>1, <2>1, <2>3
    <2> QED
      BY <2>1, <2>2, <2>3, <2>5, <2>6
  <1>4. \A i, j \in 1..Len(rs) :
            i < j => \/ rs[i].now = rs[j].now /\ j - i < MaxPerDrain
                     \/ rs[j].now - rs[i].now >= Interval
    BY DEF Noted
  <1>5. Stamped(events)
    BY <1>1, TheTapeIsStamped
  <1>6. Faithful(events, signals)
    <2>1. \A j \in 1..Len(signals) :
            /\ signals[j].release \in Nat
            /\ \E i \in 1..Len(events) : /\ events[i].ts = signals[j].release
                                         /\ \A h \in 1..(i - 1) : events[h].ts <= signals[j].release
      BY <1>1, <1>3
    <2>2. \A i, j \in 1..Len(signals) :
            i < j => \/ signals[i].release = signals[j].release /\ j - i < MaxPerDrain
                     \/ signals[j].release - signals[i].release >= Interval
      BY <1>1, <1>3, <1>4
    <2> QED
      BY <1>1, <1>2, <1>5, <2>1, <2>2 DEF Faithful
  <1>7. ASSUME NEW k \in 1..Len(rs)
        PROVE  \E i \in 1..Len(events) : i <= rs[k].at /\ events[i].ts >= signals[k].release
    BY <1>2, <1>3
  <1> QED
    BY <1>6, <1>7

(* A replay that reads every signal at its release reads it when the session
   did. *)
LEMMA SameNows ==
    ASSUME NEW rs \in Seq(Reading), NEW qs \in Seq(Reading), Len(rs) = Len(qs),
           \A k \in 1..Len(qs) : rs[k].now = qs[k].now
    PROVE  Nows(rs) = Nows(qs)
  <1>1. DOMAIN rs = 1..Len(qs) /\ DOMAIN qs = 1..Len(qs)
    BY LenProperties
  <1> QED
    BY <1>1 DEF Nows

LEMMA ReplayFollows ==
    ASSUME Ind, ReadsInv
    PROVE  AReplayKeepsTheTimes
  <1> SUFFICES ASSUME Replayable, BeganWithTheMarket, \A k \in DOMAIN Tape : Advances(Tape[k])
               PROVE  ReplayedBy("AsCaptured") /\ ReplayedBy("EventTime")
    BY DEF AReplayKeepsTheTimes
  <1> DEFINE SH == SignalsIn(written)
             R(order) == Replay(Tape, SH, order)
  <1>1. written = handed
    <2>1. final["events"] = "ours"
      BY DEF Ind, Replayable, TheOutcomeFindsTheLogs, Recorded, Files
    <2> QED
      BY <2>1 DEF Ind, ANamedLogIsWhole, Files
  <1>2. Noted(reads, Tape, SH)
    BY <1>1 DEF ReadsInv, Tape
  <1>3. reads \in Seq(Reading) /\ Tape \in Seq(Feed) /\ Len(SH) = Len(reads)
    BY <1>2 DEF Noted
  <1>4. DOMAIN reads = 1..Len(reads) /\ DOMAIN Tape = 1..Len(Tape) /\ Len(reads) \in Nat
        /\ Len(Tape) \in Nat
    BY <1>3, LenProperties
  <1>5. (\A k \in 1..Len(reads) : reads[k].at > 0) /\ \A i \in 1..Len(Tape) : Advances(Tape[i])
    BY <1>4 DEF BeganWithTheMarket
  <1> HIDE DEF SH
  <1>6. /\ Faithful(Tape, SH)
        /\ \A k \in 1..Len(reads) :
              \E i \in 1..Len(Tape) : i <= reads[k].at /\ Tape[i].ts >= SH[k].release
    BY <1>2, <1>5, NotedIsFaithful
  <1>7. Faithful(EventTimeOrder(Tape), SH)
    BY <1>6, FaithfulInEventTime
  <1>8. \A k \in 1..Len(reads) : SH[k].release = reads[k].now /\ reads[k].at \in Nat
    BY <1>2, <1>3, AReadingIs DEF Noted
  <1>9. ASSUME NEW order, Faithful(Traversed(Tape, order), SH)
        PROVE  Nows(R(order)) = Nows(reads)
    <2>1. /\ R(order) \in Seq(Reading) /\ Len(R(order)) = Len(SH)
          /\ \A j \in 1..Len(SH) : R(order)[j].now = SH[j].release
      BY <1>9, ReplayIs
    <2> HIDE DEF R
    <2>2. Len(R(order)) = Len(reads) /\ \A k \in 1..Len(reads) : R(order)[k].now = reads[k].now
      BY <1>3, <1>8, <2>1
    <2> QED
      BY <1>3, <2>1, <2>2, SameNows
  <1>10. Traversed(Tape, "AsCaptured") = Tape /\ Traversed(Tape, "EventTime") = EventTimeOrder(Tape)
    BY DEF Traversed
  <1>11. \A k \in 1..Len(reads) : R("AsCaptured")[k].at <= reads[k].at
    <2>1. /\ R("AsCaptured") \in Seq(Reading) /\ Len(R("AsCaptured")) = Len(SH)
          /\ \A j \in 1..Len(SH) : \A i \in 1..Len(Tape) :
                Tape[i].ts >= SH[j].release => R("AsCaptured")[j].at <= i
      BY <1>6, <1>10, ReplayIs
    <2> HIDE DEF R
    <2>2. ASSUME NEW k \in 1..Len(reads)
          PROVE  R("AsCaptured")[k].at <= reads[k].at
      <3>1. PICK i \in 1..Len(Tape) : i <= reads[k].at /\ Tape[i].ts >= SH[k].release
        BY <1>6
      <3>2. R("AsCaptured")[k].at <= i
        BY <1>3, <2>1, <3>1
      <3>3. R("AsCaptured")[k].at \in Nat
        BY <1>3, <2>1, AReadingIs
      <3> QED
        BY <1>4, <1>8, <3>1, <3>2, <3>3
    <2> QED
      BY <2>2
  <1>12. Nows(R("AsCaptured")) = Nows(reads) /\ Nows(R("EventTime")) = Nows(reads)
    <2> HIDE DEF R
    <2> QED
      BY <1>6, <1>7, <1>9, <1>10
  <1>13. ReplayedBy("AsCaptured")
    BY <1>4, <1>11, <1>12 DEF ReplayedBy, SH
  <1>14. ReplayedBy("EventTime")
    BY <1>12 DEF ReplayedBy, SH
  <1> QED
    BY <1>13, <1>14

LEMMA WatchFollows ==
    ASSUME Types
    PROVE  TheWatchTellsTheOrders
  <1> DEFINE w == Watched(Tape)
             n == Len(Tape)
  <1>1. Tape \in Seq(Feed)
    BY EventsAre DEF Tape, Types, WriterTypes
  <1>2. Stamped(Tape) /\ DOMAIN Tape = 1..n
    BY <1>1, TheTapeIsStamped, LenProperties
  <1>3. WatchHolds(w, Tape, n)
    BY <1>2, WatchedIs
  <1>4. (EventTimeOrder(Tape) = Tape) <=> InOrder(Tape, n)
    BY <1>2, TraversalsAgree
  <1>5. /\ w.late = 0 <=> InOrder(Tape, n)
        /\ w.behindDerived <= w.late /\ w.venueLate <= w.late
        /\ (\A i \in 1..n : Tape[i].kind = "trade") => w.venueLate = w.late
    BY <1>3 DEF WatchHolds
  <1>6. (w.late = 0) = (EventTimeOrder(Tape) = Tape)
    BY <1>4, <1>5
  <1>7. (\A k \in DOMAIN Tape : Tape[k].kind = "trade") => w.venueLate = w.late
    BY <1>2, <1>5
  <1> HIDE DEF n
  <1> QED
    BY <1>5, <1>6, <1>7 DEF TheWatchTellsTheOrders

(* A replay of a session whose logs are in place judges every signal by the
   time the session judged it by, in either order of the tape, and reads it no
   later along the tape it was captured on; the two orders differ just when
   the watch says so.  For every feed, interval and drain. *)
THEOREM AReplayIsTheSession == Spec => []ReplayInv
  <1>1. Init => Ind /\ ReadsInv
    BY IndInit, ReadsInit
  <1>2. Ind /\ ReadsInv /\ [Next]_vars => Ind' /\ ReadsInv'
    <2>1. Ind /\ [Next]_vars => Ind'
      BY IndFeed, IndCore, IndWriter, IndMain, IndKill, IndStutters DEF Next
    <2> QED
      BY <2>1, ReadsNext
  <1>3. Ind /\ ReadsInv => ReplayInv
    <2>1. Ind => Types
      BY DEF Ind
    <2> QED
      BY <2>1, ReplayFollows, WatchFollows DEF ReplayInv
  <1> QED
    BY <1>1, <1>2, <1>3, PTL DEF Spec
=============================================================================
