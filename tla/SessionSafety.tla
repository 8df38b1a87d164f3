---------------------------- MODULE SessionSafety ----------------------------
(***************************************************************************)
(* What protects the account from this process: the re-arm loop of the     *)
(* dead-man's switch (dms.rs), the halt switch (halt.rs), and the unwinding *)
(* of a session (session.rs: supervise, shutdown.rs: graceful_shutdown).   *)
(*                                                                         *)
(* Four parties interleave: the re-arm loop, the submit pump, the          *)
(* supervisor (main) and the venue, which holds the deadline.  A request   *)
(* and its effect at the venue are separate steps; so is the reply.        *)
(*                                                                         *)
(* Time is counted in one unit, and every clock is what is left of a wait, *)
(* so nothing grows.  The process acts when a wait is over, unless it      *)
(* stalls: then the venue's clock runs on without it.                      *)
(*                                                                         *)
(* A placement the client gave up on may still reach the venue; an arm it  *)
(* gives up on has reached it by then or never does.                       *)
(***************************************************************************)
EXTENDS Naturals, FiniteSets

CONSTANTS
    Orders,         \* the orders the session may place
    Lead,           \* safety.lead_ms
    Interval,       \* safety.rearm_interval_ms
    Retry,          \* the wait after a failure: a quarter of the interval
    Timeout,        \* of the venue client's requests
    JoinTime,       \* how long the supervisor waits for the pump
    SweepAttempts,  \* ShutdownOptions::sweep_attempts
    RefusedInBody,  \* the venue may refuse an arm with status "err" in a reply
                    \* that is otherwise a success
    Stalls          \* the process may be frozen for any time

ASSUME SafetyAssumption ==
    /\ {Lead, Interval, Retry, Timeout, JoinTime, SweepAttempts} \subseteq Nat \ {0}
    /\ 3 * Interval <= Lead         \* MIN_LEAD_TO_REARM_RATIO
    /\ Retry <= Interval
    /\ Timeout < Lead
    /\ {RefusedInBody, Stalls} \subseteq BOOLEAN

VARIABLES
    halt,           \* HaltSwitch
    loop,           \* where the re-arm loop is
    stamp,          \* what is left of the deadline the arm under way asks for
    landed,         \* whether the venue has taken that arm
    left,           \* DmsPolicy: protection left, by our clock
    armedOnce,      \* DmsPolicy: deadline_ms is Some
    failures,       \* DmsPolicy, not counted past the three that matter
    stallHalted,    \* DmsPolicy
    nap,            \* what is left of the sleep
    deadline,       \* the venue: what is left to the deadline, 0 for none
    order,          \* the venue's view of each order
    pump,           \* the submit task
    placing,        \* the order whose placement it awaits, at most one
    placeLeft,      \* what is left of that request's timeout
    overdue,        \* history: orders whose placement the client gave up on
    main,           \* where the supervisor is
    wait,           \* what is left of its wait
    found,          \* the open orders the sweep has read
    attempts,       \* sweeps begun
    disarmed,       \* ShutdownOutcome::disarmed
    fired,          \* history: the deadline passed and the venue cancelled all
    stalled         \* history: the process was late once

policyVars == <<left, armedOnce, failures, stallHalted>>
loopVars == <<loop, stamp, landed, nap, policyVars>>
pumpVars == <<pump, placing, placeLeft, overdue>>
mainVars == <<main, wait, found, attempts, disarmed>>
vars == <<halt, loopVars, deadline, order, pumpVars, mainVars, fired, stalled>>

TypeOK ==
    /\ halt \in {"running", "halted", "stopped"}
    /\ loop \in {"check", "arming", "asleep", "done", "gaveUp"}
    /\ stamp \in 0..Lead /\ left \in 0..Lead /\ deadline \in 0..Lead
    /\ landed \in BOOLEAN /\ armedOnce \in BOOLEAN /\ stallHalted \in BOOLEAN
    /\ disarmed \in BOOLEAN /\ fired \in BOOLEAN /\ stalled \in BOOLEAN
    /\ failures \in 0..3
    /\ nap \in 0..Interval
    /\ order \in [Orders -> {"new", "wire", "resting", "gone"}]
    /\ pump \in {"up", "exited", "aborting", "aborted"}
    /\ placing \subseteq Orders /\ Cardinality(placing) <= 1
    /\ placeLeft \in 0..Timeout
    /\ overdue \subseteq Orders
    /\ main \in {"running", "joining", "sweeping", "cancelling", "disarming", "stopping", "exited"}
    /\ wait \in Nat
    /\ found \subseteq Orders
    /\ attempts \in 0..SweepAttempts

(* The session starts halted, and the loop goes first. *)
Init ==
    /\ halt = "halted"
    /\ loop = "check" /\ stamp = 0 /\ landed = FALSE /\ nap = 0
    /\ left = 0 /\ armedOnce = FALSE /\ failures = 0 /\ stallHalted = FALSE
    /\ deadline = 0
    /\ order = [o \in Orders |-> "new"]
    /\ pump = "up" /\ placing = {} /\ placeLeft = 0 /\ overdue = {}
    /\ main = "running" /\ wait = 0 /\ found = {} /\ attempts = 0 /\ disarmed = FALSE
    /\ fired = FALSE /\ stalled = FALSE

Alive == main # "exited"
With(status) == {o \in Orders : order[o] = status}

(* HaltSwitch: a halt and a resume are compare-and-swaps, a stop is a store. *)
Halted == IF halt = "running" THEN "halted" ELSE halt

(* Mutant: resume stores. *)
ResumedByStore == "running"

Resumed == IF halt = "halted" THEN "running" ELSE halt
-----------------------------------------------------------------------------
(* The re-arm loop: dms::run over DmsPolicy.                               *)

(* The halt band: one interval or less of protection left. *)
HaltBand == left <= Interval

BeginArm ==
    /\ loop' = "arming"
    /\ stamp' = Lead
    /\ landed' = FALSE

(* Unprotected: halt, and the loop returns. *)
GiveUp ==
    /\ loop' = "gaveUp"
    /\ halt' = Halted

(* on_elapsed, on the clock, before every arm. *)
Check ==
    /\ Alive /\ loop = "check"
    /\ \/ /\ armedOnce /\ left = 0
          /\ GiveUp
          /\ UNCHANGED <<stamp, landed, stallHalted>>
       \/ /\ armedOnce /\ left > 0 /\ HaltBand /\ ~stallHalted
          /\ stallHalted' = TRUE
          /\ halt' = Halted
          /\ BeginArm
       \/ /\ ~armedOnce \/ ~HaltBand \/ (left > 0 /\ stallHalted)
          /\ BeginArm
          /\ UNCHANGED <<stallHalted, halt>>
    /\ UNCHANGED <<left, armedOnce, failures, nap, deadline, order, pumpVars, mainVars,
                   fired, stalled>>

(* The venue takes the arm: the deadline moves to what was asked for. *)
ArmLands ==
    /\ loop = "arming" /\ ~landed /\ stamp > 0
    /\ landed' = TRUE
    /\ deadline' = stamp
    /\ UNCHANGED <<halt, loop, stamp, nap, policyVars, order, pumpVars, mainVars, fired, stalled>>

(* on_armed: post_action reads the HTTP status, not the body's. *)
ArmReplied ==
    /\ Alive /\ loop = "arming"
    /\ landed \/ RefusedInBody
    /\ left' = stamp
    /\ armedOnce' = TRUE
    /\ failures' = 0
    /\ stallHalted' = FALSE
    /\ halt' = Resumed
    /\ loop' = "asleep"
    /\ nap' = Interval
    /\ stamp' = 0
    /\ landed' = FALSE
    /\ UNCHANGED <<deadline, order, pumpVars, mainVars, fired, stalled>>

(* Mutant: a failure waits as long as a success. *)
RetryNoSooner == Interval

RetryWait == Retry

(* on_failure: an error of any kind, at the latest the client's timeout, and
   whether or not the venue took the arm. *)
ArmFails ==
    /\ Alive /\ loop = "arming"
    /\ failures' = IF failures < 3 THEN failures + 1 ELSE 3
    /\ \/ /\ IF armedOnce THEN left = 0 ELSE failures' = 3
          /\ GiveUp
          /\ UNCHANGED nap
       \/ /\ IF armedOnce THEN left > 0 ELSE failures' < 3
          /\ halt' = IF ~armedOnce \/ HaltBand THEN Halted ELSE halt
          /\ loop' = "asleep"
          /\ nap' = RetryWait
    /\ stamp' = 0
    /\ landed' = FALSE
    /\ UNCHANGED <<left, armedOnce, stallHalted, deadline, order, pumpVars,
                   mainVars, fired, stalled>>

(* The select after an attempt: the stop signal is looked at first. *)
Wake ==
    /\ Alive /\ loop = "asleep"
    /\ \/ /\ main = "stopping"
          /\ loop' = "done"
       \/ /\ main # "stopping" /\ nap = 0
          /\ loop' = "check"
    /\ nap' = 0
    /\ UNCHANGED <<halt, stamp, landed, policyVars, deadline, order, pumpVars, mainVars,
                   fired, stalled>>

LoopStep == Check \/ ArmReplied \/ ArmFails \/ Wake

-----------------------------------------------------------------------------
(* The submit pump, reduced to its placements.                             *)

(* HaltableClient::place_order: the order is on its way from the check of the
   switch on. *)
BeginPlace(o) ==
    /\ Alive /\ pump \in {"up", "aborting"} /\ placing = {}
    /\ halt = "running"
    /\ order[o] = "new"
    /\ order' = [order EXCEPT ![o] = "wire"]
    /\ placing' = {o}
    /\ placeLeft' = Timeout
    /\ UNCHANGED <<halt, loopVars, deadline, pump, overdue, mainVars, fired, stalled>>

(* The venue has answered: the order rests, or is done, or was refused. *)
PlaceReplied(o) ==
    /\ Alive /\ o \in placing /\ order[o] # "wire"
    /\ placing' = {}
    /\ placeLeft' = 0
    /\ UNCHANGED <<halt, loopVars, deadline, order, pump, overdue, mainVars, fired, stalled>>

PlaceFails(o) ==
    /\ Alive /\ o \in placing
    /\ placing' = {}
    /\ placeLeft' = 0
    /\ overdue' = overdue \cup {o}
    /\ UNCHANGED <<halt, loopVars, deadline, order, pump, mainVars, fired, stalled>>

(* The stop is heard between two intents. *)
PumpExits ==
    /\ pump = "up" /\ placing = {}
    /\ main = "joining"
    /\ pump' = "exited"
    /\ UNCHANGED <<halt, loopVars, deadline, order, placing, placeLeft, overdue, mainVars,
                   fired, stalled>>

(* An aborted task runs on to its next await, on another thread than main's;
   the request it awaited is dropped, not recalled. *)
PumpDropped ==
    /\ Alive /\ pump = "aborting"
    /\ pump' = "aborted"
    /\ placing' = {}
    /\ placeLeft' = 0
    /\ UNCHANGED <<halt, loopVars, deadline, order, overdue, mainVars, fired, stalled>>

PumpStep == PumpExits \/ PumpDropped \/ \E o \in Orders : PlaceReplied(o) \/ PlaceFails(o)

-----------------------------------------------------------------------------
(* The supervisor.                                                         *)

(* A signal, or the loop's return. *)
BeginUnwind ==
    /\ main = "running"
    /\ main' = "joining"
    /\ wait' = JoinTime
    /\ UNCHANGED <<halt, loopVars, deadline, order, pumpVars, found, attempts, disarmed,
                   fired, stalled>>

(* The pump is gone, or it is aborted after the wait: then halt.stop() and
   the first sweep. *)
Joined ==
    /\ main = "joining"
    /\ pump = "exited" \/ wait = 0
    /\ pump' = IF pump = "exited" THEN "exited" ELSE "aborting"
    /\ halt' = "stopped"
    /\ main' = "sweeping"
    /\ wait' = Timeout
    /\ attempts' = 1
    /\ UNCHANGED <<loopVars, deadline, order, placing, placeLeft, overdue, found, disarmed,
                   fired, stalled>>

(* Mutant: the switch is disarmed whether or not the pump was stopped. *)
AlwaysDisarm ==
    /\ main' = "disarming"
    /\ UNCHANGED attempts

(* A sweep went through. *)
AfterSweep ==
    /\ main' = IF pump = "exited" THEN "disarming" ELSE "stopping"
    /\ UNCHANGED attempts

(* Mutant: failed sweeps are not counted. *)
SweepForEver ==
    /\ main' = "sweeping"
    /\ UNCHANGED attempts

(* A sweep failed: again, or leave the switch armed. *)
SweepAgain ==
    IF attempts < SweepAttempts
    THEN /\ main' = "sweeping"
         /\ attempts' = attempts + 1
    ELSE /\ main' = "stopping"
         /\ UNCHANGED attempts

(* cancel_all, first half: read the open orders. *)
SweepRead ==
    /\ main = "sweeping"
    /\ wait' = Timeout
    /\ \/ /\ With("resting") # {}
          /\ found' = With("resting")
          /\ main' = "cancelling"
          /\ UNCHANGED attempts
       \/ /\ With("resting") = {}
          /\ AfterSweep
          /\ UNCHANGED found
       \/ /\ SweepAgain             \* the read failed
          /\ UNCHANGED found
    /\ UNCHANGED <<halt, loopVars, deadline, order, pumpVars, disarmed, fired, stalled>>

(* cancel_all, second half: cancel what was read, and only that.  An error when
   every cancel was refused, or when the reply was lost, with the cancels done
   or not. *)
SweepCancel ==
    /\ main = "cancelling"
    /\ wait' = Timeout
    /\ found' = {}
    /\ LET down == found \cap With("resting")
           cancelled == [o \in Orders |-> IF o \in down THEN "gone" ELSE order[o]]
       IN  \/ /\ down # {}
              /\ order' = cancelled
              /\ AfterSweep
           \/ /\ order' \in {order, cancelled}
              /\ SweepAgain
    /\ UNCHANGED <<halt, loopVars, deadline, pumpVars, disarmed, fired, stalled>>

(* disarm: it reaches the venue or not, and the reply arrives or not. *)
Disarm ==
    /\ main = "disarming"
    /\ main' = "stopping"
    /\ wait' = Timeout
    /\ \/ /\ deadline' = 0
          /\ disarmed' \in BOOLEAN
       \/ /\ UNCHANGED deadline
          /\ disarmed' \in {FALSE, RefusedInBody}
    /\ UNCHANGED <<halt, loopVars, order, pumpVars, found, attempts, fired, stalled>>

(* The loop is told to stop only now, and waited for; then the process ends,
   with all it remembered.  A request under way may still reach the venue. *)
Exit ==
    /\ main = "stopping"
    /\ loop \in {"done", "gaveUp"} \/ wait = 0
    /\ main' = "exited"
    /\ left' = 0 /\ armedOnce' = FALSE /\ failures' = 0 /\ stallHalted' = FALSE
    /\ nap' = 0 /\ wait' = 0 /\ attempts' = 0
    /\ pump' = IF pump = "exited" THEN "exited" ELSE "aborted"
    /\ placing' = {} /\ placeLeft' = 0
    /\ UNCHANGED <<halt, loop, stamp, landed, deadline, order, overdue, found, disarmed,
                   fired, stalled>>

MainStep ==
    \/ (loop = "gaveUp" /\ BeginUnwind)
    \/ Joined \/ SweepRead \/ SweepCancel \/ Disarm \/ Exit

-----------------------------------------------------------------------------
(* The venue, and time.                                                    *)

(* A placement arrives, however late, or a resting order ends. *)
VenueOrder(o) ==
    /\ \/ /\ order[o] = "wire"
          /\ order' = [order EXCEPT ![o] = "resting"]
       \/ /\ order[o] \in {"wire", "resting"}
          /\ order' = [order EXCEPT ![o] = "gone"]
    /\ UNCHANGED <<halt, loopVars, deadline, pumpVars, mainVars, fired, stalled>>

(* A wait of the process is over. *)
Due ==
    /\ Alive
    /\ \/ loop = "check"
       \/ (loop = "asleep" /\ (nap = 0 \/ main = "stopping"))
       \/ (loop = "arming" /\ stamp + Timeout <= Lead)
       \/ (placing # {} /\ placeLeft = 0)
       \/ pump = "aborting"
       \/ (main = "running" /\ loop = "gaveUp")
       \/ (main # "running" /\ wait = 0)

Less(n) == IF n = 0 THEN 0 ELSE n - 1

Tick ==
    /\ Due => Stalls
    /\ stalled' = (stalled \/ Due)
    /\ stamp' = Less(stamp)
    /\ left' = Less(left)
    /\ nap' = Less(nap)
    /\ placeLeft' = Less(placeLeft)
    /\ wait' = Less(wait)
    /\ deadline' = Less(deadline)
    /\ fired' = (fired \/ deadline = 1)
    /\ order' = IF deadline = 1
                THEN [o \in Orders |-> IF order[o] = "resting" THEN "gone" ELSE order[o]]
                ELSE order
    /\ UNCHANGED <<halt, loop, landed, armedOnce, failures, stallHalted, pump, placing, overdue,
                   main, found, attempts, disarmed>>

Next ==
    \/ LoopStep \/ ArmLands
    \/ PumpStep \/ \E o \in Orders : BeginPlace(o) \/ VenueOrder(o)
    \/ BeginUnwind \/ MainStep
    \/ Tick

Spec == Init /\ [][Next]_vars

(* Every task is scheduled, every request ends, and time passes. *)
FairSpec ==
    /\ Spec
    /\ WF_vars(LoopStep)
    /\ WF_vars(PumpStep)
    /\ WF_vars(MainStep)
    /\ WF_vars(Tick)

-----------------------------------------------------------------------------
(* What the session promises.                                              *)

(* Arm before trading, halt before the deadline rather than at it (session.rs
   and dms.rs, module comments): while the session accepts orders and was never
   frozen, the venue holds a deadline. *)
AcceptingMeansProtected ==
    (halt = "running" /\ Alive /\ ~stalled) => deadline > 0

(* The lead is sized for a missed beat: a session that was armed once and was
   never frozen is not given up after one failed re-arm. *)
OneMissIsSurvived ==
    (loop = "gaveUp" /\ armedOnce /\ ~stalled) => failures >= 2

(* Once the sweep has begun no order is placed behind it, whatever the re-arm
   loop finds: stop is terminal. *)
NothingPlacedBehindTheSweep ==
    [][main \notin {"running", "joining"} =>
        \A o \in Orders : order[o] = "new" => order'[o] = "new"]_vars

(* What a process leaves at the venue is covered by a deadline there.  The
   exceptions: a placement the client had given up on, and a session whose
   deadline had passed already. *)
LeftOrdersAreProtected ==
    main = "exited" =>
        \A o \in With("wire") \cup With("resting") : deadline > 0 \/ o \in overdue \/ fired

(* The unwinding ends, whatever the venue answers. *)
ShutdownCompletes == main # "running" ~> main = "exited"

-----------------------------------------------------------------------------
(* Why they hold: the parts of an inductive invariant, as long as no arm is  *)
(* refused in the body of a success.                                         *)

(* What the code cannot see (exchange/mod.rs, arm_dead_mans_switch, which drops
   the body): that a good reply came from a venue that took the arm. *)
ArmsAreHonest == [][ArmReplied => landed]_vars

(* What the promises ask of the waits, and Config::validate does not check: a
   request is given up within an interval, and the lead has room for an arm,
   a sleep, an arm that times out and the retry's wait.  The defaults have it:
   60 s of lead, 20 s of interval, 10 s of timeout, 5 s before a retry. *)
TimeoutsFit ==
    /\ Timeout <= Interval
    /\ Interval + 2 * Timeout + Retry < Lead

(* The switch of a session that unwinds is stopped; one that runs was armed and
   has not been stalled since. *)
SwitchFollowsTheSession ==
    /\ main \notin {"running", "joining"} => halt = "stopped"
    /\ halt = "running" => armedOnce /\ ~stallHalted /\ loop \notin {"done", "gaveUp"}
    /\ ~Alive => ~armedOnce

(* The deadline at the venue is never before the one the loop counts on. *)
VenueIsNotBehind ==
    /\ loop = "arming" => left <= stamp
    /\ halt # "stopped" => left <= deadline
    /\ loop = "arming" /\ landed /\ halt # "stopped" => deadline = stamp

(* A session that accepts orders has protection left for the wait it is in. *)
RunningHasTimeLeft ==
    (Alive /\ ~stalled) =>
        /\ loop = "arming" => stamp + Timeout >= Lead
        /\ halt = "running" =>
              /\ loop = "check" => left > 0
              /\ loop = "asleep" => left > nap
              /\ loop = "arming" => left + Lead > stamp + Timeout

(* And before its second failure in a row a session has room for another. *)
RoomForAMiss ==
    LET AtLeast(least) ==
            /\ loop = "check" => left >= least
            /\ loop = "asleep" => left >= nap + least
            /\ loop = "arming" => left + Lead >= stamp + least
    IN  (armedOnce /\ ~stalled) =>
            /\ failures = 0 => AtLeast(Lead - Timeout - Interval)
            /\ failures = 1 => AtLeast(Lead - Interval - 2 * Timeout - Retry)

ClockInv ==
    /\ SwitchFollowsTheSession
    /\ VenueIsNotBehind
    /\ RunningHasTimeLeft
    /\ RoomForAMiss

(* Orders that are on the wire or at rest. *)
Remaining == With("wire") \cup With("resting")

(* A placement is awaited until it is answered or given up, or the pump is
   dropped, which only the supervisor does; a pump that exited awaits none. *)
WireIsAwaited ==
    /\ main \in {"running", "joining"} => pump \in {"up", "exited"}
    /\ pump # "aborted" => With("wire") \subseteq placing \cup overdue
    /\ pump = "exited" => placing = {}

(* Behind a pump that exited, the sweep leaves only what was given up on. *)
SweepLeavesTheOverdue ==
    /\ (main = "cancelling" /\ pump = "exited") => With("resting") \subseteq found \cup overdue
    /\ main = "disarming" => pump = "exited" /\ Remaining \subseteq overdue

(* Where an order was placed the venue holds a deadline, until it fires, or
   until the switch is disarmed behind that sweep. *)
PlacedUnderADeadline ==
    (halt = "running" \/ landed \/ \E o \in Orders : order[o] # "new") =>
        \/ deadline > 0
        \/ fired
        \/ main \in {"stopping", "exited"} /\ Remaining \subseteq overdue

UnwindInv == WireIsAwaited /\ SweepLeavesTheOverdue /\ PlacedUnderADeadline

(* The switch guards the session while it trades, and gives up on it neither
   too late nor too soon. *)
ProtectionInv ==
    /\ TypeOK
    /\ AcceptingMeansProtected
    /\ OneMissIsSurvived
    /\ ClockInv
    /\ UnwindInv
=============================================================================
