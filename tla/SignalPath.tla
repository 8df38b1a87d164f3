----------------------------- MODULE SignalPath -----------------------------
(***************************************************************************)
(* The way of a target from the strategy to the planner, across the two    *)
(* processes and the ring between them:                                    *)
(*   python/axon/live/runner.py        the outbox and its backpressure     *)
(*   python/axon/strategy/context.py   sequence numbers and event times    *)
(*   axon-strategy/src/reader.rs       what the reader admits              *)
(*   axon-runtime/src/intent.rs        attaching, and holding a target     *)
(*                                     back while its symbol is in flight  *)
(* The ring's steps are SignalRing's.  One producer, one symbol; either    *)
(* process may die, anywhere but in the middle of the other's critical     *)
(* section (SignalRing says what happens then).                            *)
(***************************************************************************)
EXTENDS SignalRing

CONSTANTS
    FirstSeqs,          \* what --first-seq may say to each life of the runner
    Ttls,               \* what strategies ask for, 0 for the operator's ceiling
    Ceiling,            \* max_signal_age
    MaxPerDrain,
    MaxOutbox,
    MaxClock,           \* bound: event time
    MaxEmitted,         \* bound: targets of one life of the runner
    MaxCoreRestarts     \* bound

(* The runner is Python (runner.py), and so is its end of the ring. *)
ASSUME SignalPathAssumption ==
    /\ PythonProducer
    /\ FirstSeqs \in [0..MaxRestarts -> SUBSET Nat]
    /\ Ttls \subseteq Nat
    /\ {Ceiling, MaxPerDrain, MaxClock} \subseteq Nat \ {0}
    /\ {MaxOutbox, MaxEmitted, MaxCoreRestarts} \subseteq Nat

VARIABLES
    clock,      \* event time, as both processes see it
    runner,     \* "absent", "running", or "raised" after a BackpressureError
    first,      \* the number this life of the runner starts at
    reused,     \* history: some life started below the number its predecessor
                \* would have used next
    outbox,     \* emitted and not on the ring yet
    flushing,   \* in the loop of flush
    emitted,    \* history: what this life of the runner has emitted
    contents,   \* what the ring's record of each number says
    core,       \* "idle", "drain" or "plan"
    coreRestarts,
    attached,
    passNow,    \* the pass's event time
    budget,     \* how many records the drain may still take
    lastSeq,    \* the reader's baseline, -1 for none
    counts,     \* the reader's counters
    pass,       \* the newest target of the pass, or NoTarget
    carried,    \* the target held over from the last pass, or NoTarget
    acted       \* history: the last target acted on, and when

runnerVars == <<runner, first, reused, outbox, flushing, emitted>>
readerVars == <<lastSeq, counts>>
passVars == <<core, passNow, budget, pass, carried, acted>>
pathVars == <<clock, runnerVars, contents, coreRestarts, attached, readerVars, passVars>>
allVars == <<vars, pathVars>>

NoTarget == [seq |-> -1, life |-> 0, ts |-> 0, ttl |-> 0]
NoCounts == [accepted |-> 0, expired |-> 0, stale |-> 0, missing |-> 0]

PathInit ==
    /\ Init
    /\ clock = 1
    /\ runner = "absent" /\ first = 0 /\ reused = FALSE
    /\ outbox = <<>> /\ flushing = FALSE /\ emitted = <<>>
    /\ contents = <<>>
    /\ core = "idle" /\ coreRestarts = 0 /\ attached = FALSE
    /\ passNow = 0 /\ budget = 0
    /\ lastSeq = -1 /\ counts = NoCounts
    /\ pass = NoTarget /\ carried = NoTarget
    /\ acted = [target |-> NoTarget, at |-> 0]

Tick ==
    /\ clock < MaxClock
    /\ clock' = clock + 1
    /\ UNCHANGED <<vars, runnerVars, contents, coreRestarts, attached, readerVars, passVars>>

-----------------------------------------------------------------------------
(* The runner: one event at a time, and after each the outbox is flushed.  *)

(* It numbers its targets from first_seq on. *)
StartRunner ==
    /\ runner = "absent"
    /\ runner' = "running"
    /\ first' \in FirstSeqs[restarts]
    /\ UNCHANGED <<vars, clock, reused, outbox, flushing, emitted, contents, coreRestarts, attached,
                   readerVars, passVars>>

(* handle: the callback emits a target or nothing, stamped with the event's
   time.  After a BackpressureError only flush may be called again. *)
Handle ==
    /\ runner # "absent" /\ ~flushing /\ ppc = "idle"
    /\ \/ /\ runner = "running"
          /\ Len(emitted) < MaxEmitted /\ offered + Len(outbox) < MaxRecords
          /\ \E ttl \in Ttls :
                LET target == [seq |-> first + Len(emitted), life |-> restarts, ts |-> clock, ttl |-> ttl]
                IN  /\ outbox' = Append(outbox, target)
                    /\ emitted' = Append(emitted, target)
       \/ outbox # <<>> /\ UNCHANGED <<outbox, emitted>>
    /\ flushing' = TRUE
    /\ runner' = "running"
    /\ UNCHANGED <<vars, clock, first, reused, contents, coreRestarts, attached, readerVars,
                   passVars>>

(* Mutant: the newest target is pushed first. *)
PushNewest ==
    /\ flushing /\ outbox # <<>> /\ ~Full
    /\ TryPush
    /\ contents' = Append(contents, outbox[Len(outbox)])
    /\ UNCHANGED <<clock, runnerVars, coreRestarts, attached, readerVars, passVars>>

Push ==
    /\ flushing /\ outbox # <<>> /\ ~Full
    /\ TryPush
    /\ contents' = Append(contents, Head(outbox))
    /\ UNCHANGED <<clock, runnerVars, coreRestarts, attached, readerVars, passVars>>

(* The record is popped off the outbox once the ring has it. *)
Pushed ==
    /\ flushing /\ Publish
    /\ outbox' = Tail(outbox)
    /\ flushing' = (Len(outbox) > 1)
    /\ UNCHANGED <<clock, runner, first, reused, emitted, contents, coreRestarts, attached, readerVars, passVars>>

(* Mutant: a full ring costs a target; the next one supersedes it anyway. *)
PushRefusedDrops ==
    /\ flushing /\ ppc = "idle" /\ outbox # <<>> /\ Full
    /\ flushing' = FALSE
    /\ outbox' = Tail(outbox)
    /\ UNCHANGED <<vars, runner, clock, first, reused, emitted, contents, coreRestarts, attached,
                   readerVars, passVars>>

(* A full ring is backpressure; past the outbox's limit it is an error. *)
PushRefused ==
    /\ flushing /\ ppc = "idle" /\ outbox # <<>> /\ Full
    /\ flushing' = FALSE
    /\ runner' = IF Len(outbox) > MaxOutbox THEN "raised" ELSE "running"
    /\ UNCHANGED <<vars, clock, first, reused, outbox, emitted, contents, coreRestarts, attached,
                   readerVars, passVars>>

CopyIn == (CopyLoIn \/ CopyHiIn \/ ZeroTail) /\ UNCHANGED pathVars

(* The process dies with its outbox, and a new one starts on the ring's file,
   numbering its targets from its own first_seq: zero when nobody said, or, as
   --first-seq asks for, above the last number of the one before. *)
RestartRunner ==
    /\ runner # "absent"
    /\ Restart
    /\ first' \in FirstSeqs[restarts + 1]
    /\ reused' = (reused \/ first' < first + Len(emitted))
    /\ runner' = "running" /\ outbox' = <<>> /\ flushing' = FALSE /\ emitted' = <<>>
    /\ UNCHANGED <<clock, contents, coreRestarts, attached, readerVars, passVars>>

-----------------------------------------------------------------------------
(* The reader.                                                             *)

EffectiveTtl(ttl) == IF ttl = 0 \/ ttl > Ceiling THEN Ceiling ELSE ttl

StillFresh(target, now) == now - target.ts <= EffectiveTtl(target.ttl)

(* admit, and the pass's "newest target wins".  A gap is counted before the
   target's age is looked at; only an accepted one moves the baseline. *)
Admit(target, now) ==
    IF lastSeq # -1 /\ target.seq <= lastSeq
    THEN /\ counts' = [counts EXCEPT !.stale = @ + 1]
         /\ UNCHANGED <<lastSeq, pass>>
    ELSE LET skipped == IF lastSeq = -1 THEN 0 ELSE target.seq - lastSeq - 1
             fresh == StillFresh(target, now)
         IN  /\ pass' = IF fresh THEN target ELSE pass
             /\ lastSeq' = IF fresh THEN target.seq ELSE lastSeq
             /\ counts' = [counts EXCEPT !.missing = @ + skipped,
                                         !.accepted = IF fresh THEN @ + 1 ELSE @,
                                         !.expired = IF fresh THEN @ ELSE @ + 1]

-----------------------------------------------------------------------------
(* The core's pass.                                                        *)

(* Mutant: what was held back is not asked its age again. *)
BeginPassAsHeld ==
    /\ core = "idle" /\ cpc = "idle" /\ ppc # "zeroTail"
    /\ attached' = (attached \/ runner # "absent")
    /\ passNow' = clock
    /\ pass' = carried /\ carried' = NoTarget
    /\ budget' = IF attached' THEN MaxPerDrain ELSE 0
    /\ core' = "drain"
    /\ UNCHANGED <<vars, clock, runnerVars, contents, coreRestarts, readerVars, acted>>

(* Mutant: the ring is looked for once. *)
BeginPassTryingOnce ==
    /\ core = "idle" /\ cpc = "idle" /\ ppc # "zeroTail"
    /\ attached' = IF passNow = 0 THEN runner # "absent" ELSE attached
    /\ passNow' = clock
    /\ carried' = NoTarget /\ pass' = carried
    /\ budget' = IF attached' THEN MaxPerDrain ELSE 0
    /\ core' = "drain"
    /\ UNCHANGED <<vars, clock, runnerVars, contents, coreRestarts, readerVars, acted>>

(* The ring is attached to when there is one; what was held is aged again. *)
BeginPass ==
    /\ core = "idle" /\ cpc = "idle" /\ ppc # "zeroTail"
    /\ attached' = (attached \/ runner # "absent")
    /\ passNow' = clock
    /\ carried' = NoTarget
    /\ LET expired == carried # NoTarget /\ ~StillFresh(carried, clock)
       IN  /\ pass' = IF expired THEN NoTarget ELSE carried
           /\ counts' = [counts EXCEPT !.expired = IF expired THEN @ + 1 ELSE @]
    /\ budget' = IF attached' THEN MaxPerDrain ELSE 0
    /\ core' = "drain"
    /\ UNCHANGED <<vars, clock, runnerVars, contents, coreRestarts, lastSeq, acted>>

Pop ==
    /\ core = "drain" /\ budget > 0
    /\ TryPop("rust")
    /\ budget' = budget - 1
    /\ UNCHANGED <<clock, runnerVars, contents, coreRestarts, attached, readerVars,
                   core, passNow, pass, carried, acted>>

CopyOut == (CopyLoOut \/ CopyHiOut) /\ UNCHANGED pathVars

Take ==
    /\ ReleaseSlots
    /\ Admit(contents[out[1].lo], passNow)
    /\ UNCHANGED <<clock, runnerVars, contents, coreRestarts, attached, core, passNow, budget,
                   carried, acted>>

EndDrain ==
    /\ core = "drain" /\ cpc = "idle" /\ ppc # "zeroTail"
    /\ budget = 0 \/ Available("rust") = 0
    /\ core' = "plan"
    /\ UNCHANGED <<vars, clock, runnerVars, contents, coreRestarts, attached, readerVars,
                   passNow, budget, pass, carried, acted>>

(* The target is acted on, or held for the next pass while an intent of its
   symbol is outstanding. *)
Plan ==
    /\ core = "plan"
    /\ core' = "idle" /\ budget' = 0 /\ pass' = NoTarget
    /\ \/ pass = NoTarget /\ UNCHANGED <<carried, acted>>
       \/ pass # NoTarget /\ carried' = pass /\ UNCHANGED acted
       \/ pass # NoTarget /\ acted' = [target |-> pass, at |-> passNow] /\ UNCHANGED carried
    /\ UNCHANGED <<vars, clock, runnerVars, contents, coreRestarts, attached, readerVars, passNow>>

(* The core dies and comes back: it keeps nothing, and joins mid-stream. *)
RestartCore ==
    /\ coreRestarts < MaxCoreRestarts
    /\ coreRestarts' = coreRestarts + 1
    /\ core' = "idle" /\ attached' = FALSE /\ passNow' = 0 /\ budget' = 0
    /\ lastSeq' = -1 /\ counts' = NoCounts
    /\ pass' = NoTarget /\ carried' = NoTarget
    /\ acted' = [target |-> NoTarget, at |-> 0]
    /\ cpc' = "idle" /\ out' = <<>> /\ batch' = 0 /\ half' = 0
    /\ UNCHANGED <<head, tail, slots, producerVars, cTail, delivered, clock, runnerVars, contents>>

RunnerStep == Push \/ Pushed \/ PushRefused \/ CopyIn
CoreStep == BeginPass \/ Pop \/ CopyOut \/ Take \/ EndDrain \/ Plan

PathNext ==
    \/ Tick \/ StartRunner \/ Handle \/ RunnerStep \/ RestartRunner
    \/ CoreStep \/ RestartCore

PathSpec == PathInit /\ [][PathNext]_allVars

(* The core loops; the runner is handed events, and goes on with what it began. *)
FairPathSpec == PathSpec /\ WF_allVars(CoreStep) /\ WF_allVars(RunnerStep) /\ WF_allVars(Handle)

-----------------------------------------------------------------------------
Targets == [seq : Nat, life : 0..MaxRestarts, ts : 1..MaxClock, ttl : Ttls]

PathTypeOK ==
    /\ TypeOK
    /\ clock \in 1..MaxClock
    /\ runner \in {"absent", "running", "raised"}
    /\ first \in Nat
    /\ {outbox, emitted, contents} \subseteq Seq(Targets)
    /\ Len(outbox) <= Len(emitted) /\ Len(emitted) <= MaxEmitted
    /\ {flushing, attached, reused} \subseteq BOOLEAN
    /\ Len(contents) = offered
    /\ core \in {"idle", "drain", "plan"}
    /\ coreRestarts \in 0..MaxCoreRestarts
    /\ passNow \in 0..MaxClock /\ budget \in 0..MaxPerDrain
    /\ lastSeq \in Nat \cup {-1}
    /\ counts \in [accepted : 0..offered, expired : 0..offered, stale : 0..offered, missing : Nat]
    /\ {pass, carried, acted.target} \subseteq Targets \cup {NoTarget}

Pushing == ppc \in {"lo", "hi", "publish"}

(* How many targets of this life of the runner the ring was given, the one that
   is being pushed included, and how many records there were before them. *)
Given == IF Pushing THEN head + 1 ELSE head
Earlier == offered - Given

(* Backpressure loses nothing and swaps nothing: what this life of the runner
   gave the ring and what waits in the outbox are, in order, what the strategy
   emitted (runner.py: "It never drops a signal because the ring is full"). *)
BackpressureKeepsOrder ==
    LET waiting == IF Pushing THEN Tail(outbox) ELSE outbox
        all == Len(contents)
    IN  \E n \in 0..all :
            /\ \A i \in 1..all : contents[i].life = restarts <=> i > all - n
            /\ SubSeq(contents, all - n + 1, all) \o waiting = emitted

(* Targets are numbered as they are emitted, and go to the ring from the front of
   the outbox: a target's number is as far from the first one as the counter it
   is pushed at is from zero. *)
OutboxIsWhatIsLeft ==
    /\ \A k \in 1..Len(emitted) : emitted[k].seq = first + k - 1 /\ emitted[k].life = restarts
    /\ Len(emitted) = head + Len(outbox)
    /\ \A k \in 1..Len(outbox) : outbox[k] = emitted[head + k]
    /\ Pushing => flushing /\ outbox # <<>> /\ pHead = head /\ head + 1 < Modulus
    /\ runner = "absent" => head = 0 /\ restarts = 0 /\ emitted = <<>> /\ first = 0
    /\ ppc = "zeroTail" => head = 0 /\ ~flushing /\ restarts > 0

(* The records of this life are the newest ones, in the order of the emitted. *)
ContentsAreEmitted ==
    /\ Earlier >= 0
    /\ \A i \in 1..Earlier : contents[i].life < restarts
    /\ \A k \in 1..Given : contents[Earlier + k] = emitted[k]

(* Between the counters lies, in whole records, what this life published and the
   reader has not taken; what is being pushed goes into a slot of its own. *)
SlotsHoldThisLife ==
    /\ ppc # "zeroTail" =>
        /\ tail <= head /\ Given <= tail + Capacity
        /\ \A c \in tail..(head - 1) : slots[SlotOf(c)] = Whole(Earlier + c + 1)
    /\ ppc \in {"hi", "publish"} => slots[SlotOf(head)].lo = offered
    /\ ppc = "publish" => slots[SlotOf(head)].hi = offered

(* A pop copies the oldest record, while the core drains and nobody starts. *)
PopCopiesTheNext ==
    /\ cpc = "idle" => out = <<>>
    /\ cpc # "idle" =>
        /\ core = "drain" /\ ppc # "zeroTail"
        /\ cTail = tail /\ batch = 1 /\ tail < head
    /\ cpc \in {"lo", "hi"} => out = <<>>
    /\ cpc = "hi" => half = Earlier + tail + 1
    /\ cpc = "release" => out = <<Whole(Earlier + tail + 1)>>

(* How many records of this life the reader has taken: a ring that is being set
   up again has none, whatever its tail still says. *)
Taken == IF ppc = "zeroTail" THEN 0 ELSE tail

(* What was taken lies before what the ring still holds. *)
Passed == Earlier + Taken

TakenIsPast ==
    /\ Len(delivered) <= Passed
    /\ \A i \in 1..Len(delivered) : delivered[i].lo <= Passed

(* A target is refused as out of sequence only if a runner was started again at
   or below its predecessor's last number, which --first-seq warns of; while the
   numbers go up, no target is refused so, whoever was started again. *)
StaleMeansReused == counts.stale > 0 => reused

(* The numbers above the baseline that this life of the runner does not use. *)
Unused == IF lastSeq # -1 /\ first > lastSeq THEN first - lastSeq - 1 ELSE 0

(* The baseline is a number that was read, and between it and the next number
   lies nothing but what was refused for its age and what nobody uses. *)
BaselineIsBehind ==
    /\ ~reused => counts.stale = 0 /\ lastSeq < first + Taken
    /\ (ppc # "zeroTail" /\ lastSeq # -1) =>
            first + tail - 1 - lastSeq <= counts.expired + Unused

(* A record is counted once as it is taken, and a target that is held once more
   if it expires. *)
Held == IF pass = NoTarget /\ carried = NoTarget THEN 0 ELSE 1

CountsAddUp ==
    /\ counts.accepted <= Len(delivered)
    /\ counts.expired + counts.stale + Held <= Len(delivered)

(* A target is acted on inside its own window, however long it waited on the
   ring, in the outbox, or held back by the gate from pass to pass. *)
ActedTargetsAreFresh ==
    acted.target # NoTarget =>
        acted.at - acted.target.ts <=
            (IF acted.target.ttl = 0 \/ acted.target.ttl > Ceiling THEN Ceiling ELSE acted.target.ttl)

(* A pass holds a target that was fresh at its beginning, and only a pass does. *)
PassIsFresh ==
    /\ core = "idle" => pass = NoTarget
    /\ core # "idle" => carried = NoTarget
    /\ pass # NoTarget => StillFresh(pass, passNow)

(* What the strategy emitted reaches the reader: the outbox empties and so does
   the ring, however often the ring was full and whoever was started again. *)
EmittedIsRead == (outbox # <<>>) ~> (outbox = <<>> /\ head = tail)

(* A change of runners, or of cores, hands nothing over torn, and nothing old
   behind something new (signals/__init__.py: the ring is re-initialised); and
   what that rests on, from the emitted target to the reader's baseline. *)
HandoverInv ==
    /\ PathTypeOK
    /\ NoTornRecord
    /\ DeliveredMovesForward
    /\ OutboxIsWhatIsLeft
    /\ ContentsAreEmitted
    /\ SlotsHoldThisLife
    /\ PopCopiesTheNext
    /\ TakenIsPast
    /\ BaselineIsBehind
    /\ CountsAddUp
    /\ PassIsFresh

(* The gap counter never cries loss while a runner lives: what one jump calls
   missing was read and refused for its age, or lies between the baseline and
   this life's first number, where first_seq left a gap (and where what the life
   before had not got read yet is lost).  The counter adds up jumps that overlap:
   three records refused in a row are three missing, and a fourth makes six. *)
AJumpCountsTheExpired ==
    [][counts'.missing - counts.missing <= counts.expired + Unused]_allVars

(* The reader's counters tell the operator what happened: "missing" is no loss
   in transit from a running producer, and "stale" is a runner that was started
   on numbers its predecessor had used. *)
CountersTellTheTruth == []StaleMeansReused /\ AJumpCountsTheExpired
=============================================================================
