------------------------- MODULE SessionSafetyProofs -------------------------
(***************************************************************************)
(* Proofs about SessionSafety, for every number of orders and every choice *)
(* of lead, interval, retry, timeout and join time.                        *)
(***************************************************************************)
EXTENDS SessionSafety, FiniteSetTheorems, TLAPS

(* What the constants are. *)
LEMMA Constants ==
    /\ Lead \in Nat /\ Interval \in Nat /\ Retry \in Nat /\ Timeout \in Nat
    /\ JoinTime \in Nat /\ SweepAttempts \in Nat
    /\ Lead > 0 /\ Interval > 0 /\ Retry > 0 /\ Timeout > 0 /\ JoinTime > 0 /\ SweepAttempts > 0
    /\ 3 * Interval <= Lead /\ Retry <= Interval /\ Timeout < Lead
  BY SafetyAssumption

-----------------------------------------------------------------------------
(* Types, in three groups: what is true or false, what is counted or named,
   and the placement that is awaited. *)

FlagsOK ==
    /\ landed \in BOOLEAN /\ armedOnce \in BOOLEAN /\ stallHalted \in BOOLEAN
    /\ disarmed \in BOOLEAN /\ fired \in BOOLEAN /\ stalled \in BOOLEAN

ValuesOK ==
    /\ halt \in {"running", "halted", "stopped"}
    /\ loop \in {"check", "arming", "asleep", "done", "gaveUp"}
    /\ stamp \in 0..Lead /\ left \in 0..Lead /\ deadline \in 0..Lead
    /\ failures \in 0..3
    /\ nap \in 0..Interval
    /\ order \in [Orders -> {"new", "wire", "resting", "gone"}]
    /\ pump \in {"up", "exited", "aborting", "aborted"}
    /\ placeLeft \in 0..Timeout
    /\ overdue \subseteq Orders
    /\ main \in {"running", "joining", "sweeping", "cancelling", "disarming", "stopping", "exited"}
    /\ wait \in Nat
    /\ found \subseteq Orders
    /\ attempts \in 0..SweepAttempts

PlacingOK == placing = {} \/ \E o \in Orders : placing = {o}

TypesOK == FlagsOK /\ ValuesOK /\ PlacingOK

(* The groups are the type invariant. *)
LEMMA TypesAreTyped == TypesOK => TypeOK
  <1> SUFFICES ASSUME TypesOK PROVE TypeOK
    OBVIOUS
  <1>1. placing \subseteq Orders /\ Cardinality(placing) <= 1
    BY FS_EmptySet, FS_Singleton DEF TypesOK, PlacingOK
  <1> QED
    BY <1>1 DEF TypesOK, FlagsOK, ValuesOK, TypeOK

(* The initial state is typed. *)
LEMMA TypesInit == Init => TypesOK
  <1>1. Init => FlagsOK
    BY DEF Init, FlagsOK
  <1>2. Init => ValuesOK
    BY Constants DEF Init, ValuesOK
  <1>3. Init => PlacingOK
    BY DEF Init, PlacingOK
  <1> QED
    BY <1>1, <1>2, <1>3 DEF TypesOK

(* A step keeps what is true or false so. *)
LEMMA FlagsNext == FlagsOK /\ [Next]_vars => FlagsOK'
  <1> SUFFICES ASSUME FlagsOK, [Next]_vars PROVE FlagsOK'
    OBVIOUS
  <1> USE DEF FlagsOK
  <1>1. CASE Check
    BY <1>1 DEF Check, GiveUp, BeginArm, mainVars
  <1>2. CASE ArmLands \/ ArmReplied \/ ArmFails \/ Wake
    BY <1>2 DEF ArmLands, ArmReplied, ArmFails, Wake, policyVars, mainVars
  <1>3. CASE PumpStep \/ \E o \in Orders : BeginPlace(o) \/ VenueOrder(o)
    BY <1>3
    DEF PumpStep, PumpExits, PumpDropped, PlaceReplied, PlaceFails, BeginPlace, VenueOrder,
        loopVars, policyVars, mainVars
  <1>4. CASE BeginUnwind \/ Joined \/ SweepRead \/ SweepCancel
    BY <1>4 DEF BeginUnwind, Joined, SweepRead, SweepCancel, loopVars, policyVars
  <1>5. CASE Disarm
    BY <1>5, SafetyAssumption DEF Disarm, loopVars, policyVars
  <1>6. CASE Exit
    BY <1>6 DEF Exit
  <1>7. CASE Tick
    BY <1>7 DEF Tick, Due
  <1>8. CASE UNCHANGED vars
    BY <1>8 DEF vars, loopVars, policyVars, mainVars
  <1> QED
    BY <1>1, <1>2, <1>3, <1>4, <1>5, <1>6, <1>7, <1>8 DEF Next, LoopStep, MainStep

(* At most one placement stays awaited. *)
LEMMA PlacingNext == PlacingOK /\ [Next]_vars => PlacingOK'
  BY DEF PlacingOK, Next, LoopStep, PumpStep, MainStep, Check, ArmLands, ArmReplied, ArmFails,
         Wake, BeginPlace, PlaceReplied, PlaceFails, PumpExits, PumpDropped, BeginUnwind, Joined,
         SweepRead, SweepCancel, Disarm, Exit, VenueOrder, Tick, vars, pumpVars

(* A step keeps the clocks within their bounds. *)
LEMMA ValuesNext == ValuesOK /\ [Next]_vars => ValuesOK'
  <1> SUFFICES ASSUME ValuesOK, [Next]_vars PROVE ValuesOK'
    OBVIOUS
  <1> USE Constants DEF ValuesOK
  <1>1. CASE Check
    BY <1>1 DEF Check, GiveUp, BeginArm, Halted, pumpVars, mainVars
  <1>2. CASE ArmLands
    BY <1>2 DEF ArmLands, policyVars, pumpVars, mainVars
  <1>3. CASE ArmReplied
    BY <1>3 DEF ArmReplied, Resumed, pumpVars, mainVars
  <1>4. CASE ArmFails
    <2>1. failures' \in 0..3 /\ nap' \in 0..Interval /\ halt' \in {"running", "halted", "stopped"}
            /\ loop' \in {"gaveUp", "asleep"}
      BY <1>4 DEF ArmFails, GiveUp, Halted, RetryWait
    <2> QED
      BY <1>4, <2>1 DEF ArmFails, pumpVars, mainVars
  <1>5. CASE Wake
    BY <1>5 DEF Wake, policyVars, pumpVars, mainVars
  <1>6. ASSUME NEW o \in Orders, BeginPlace(o) \/ PlaceReplied(o) \/ PlaceFails(o) \/ VenueOrder(o)
        PROVE  ValuesOK'
    BY <1>6
    DEF BeginPlace, PlaceReplied, PlaceFails, VenueOrder, loopVars, policyVars, pumpVars, mainVars
  <1>7. CASE PumpExits \/ PumpDropped
    BY <1>7 DEF PumpExits, PumpDropped, loopVars, policyVars, mainVars
  <1>8. CASE BeginUnwind \/ Joined
    BY <1>8 DEF BeginUnwind, Joined, loopVars, policyVars, pumpVars
  <1>9. CASE SweepRead
    <2>1. found' \subseteq Orders /\ attempts' \in 0..SweepAttempts
            /\ main' \in {"sweeping", "cancelling", "disarming", "stopping"}
      BY <1>9 DEF SweepRead, AfterSweep, SweepAgain, With
    <2> QED
      BY <1>9, <2>1 DEF SweepRead, loopVars, policyVars, pumpVars
  <1>10. CASE SweepCancel
    <2>1. attempts' \in 0..SweepAttempts /\ main' \in {"sweeping", "disarming", "stopping"}
      BY <1>10 DEF SweepCancel, AfterSweep, SweepAgain
    <2>2. order' \in [Orders -> {"new", "wire", "resting", "gone"}]
      BY <1>10 DEF SweepCancel
    <2> QED
      BY <1>10, <2>1, <2>2 DEF SweepCancel, loopVars, policyVars, pumpVars
  <1>11. CASE Disarm
    <2>1. /\ deadline' = 0 \/ UNCHANGED deadline
          /\ main' = "stopping" /\ wait' = Timeout
          /\ UNCHANGED <<halt, loopVars, order, pumpVars, found, attempts>>
      BY <1>11, Zenon DEF Disarm
    <2> QED
      BY <2>1 DEF loopVars, policyVars, pumpVars
  <1>12. CASE Exit
    BY <1>12 DEF Exit
  <1>13. CASE Tick
    <2>1. /\ stamp' \in 0..Lead /\ left' \in 0..Lead /\ deadline' \in 0..Lead
          /\ nap' \in 0..Interval /\ placeLeft' \in 0..Timeout /\ wait' \in Nat
      BY <1>13 DEF Tick, Less
    <2>2. order' \in [Orders -> {"new", "wire", "resting", "gone"}]
      BY <1>13 DEF Tick
    <2> QED
      BY <1>13, <2>1, <2>2 DEF Tick
  <1>14. CASE UNCHANGED vars
    BY <1>14 DEF vars, loopVars, policyVars, pumpVars, mainVars
  <1> QED
    BY <1>1, <1>2, <1>3, <1>4, <1>5, <1>6, <1>7, <1>8, <1>9, <1>10, <1>11, <1>12, <1>13, <1>14
    DEF Next, LoopStep, PumpStep, MainStep

(* A step keeps the types. *)
LEMMA TypesNext == TypesOK /\ [Next]_vars => TypesOK'
  BY FlagsNext, ValuesNext, PlacingNext DEF TypesOK

-----------------------------------------------------------------------------
(* The switch. *)

(* A session that runs was armed, and one that unwinds is stopped. *)
LEMMA SwitchNext ==
    TypesOK /\ SwitchFollowsTheSession /\ [Next]_vars => SwitchFollowsTheSession'
  <1> SUFFICES ASSUME TypesOK, SwitchFollowsTheSession, [Next]_vars
               PROVE  SwitchFollowsTheSession'
    OBVIOUS
  <1> USE DEF SwitchFollowsTheSession, Alive
  <1>1. CASE Check
    BY <1>1 DEF Check, GiveUp, BeginArm, Halted, mainVars
  <1>2. CASE ArmLands
    BY <1>2 DEF ArmLands, policyVars, mainVars
  <1>3. CASE ArmReplied
    BY <1>3 DEF ArmReplied, Resumed, mainVars
  <1>4. CASE ArmFails
    BY <1>4 DEF ArmFails, GiveUp, Halted, mainVars
  <1>5. CASE Wake
    BY <1>5 DEF Wake, policyVars, mainVars
  <1>6. CASE PumpStep \/ \E o \in Orders : BeginPlace(o) \/ VenueOrder(o)
    BY <1>6
    DEF PumpStep, PumpExits, PumpDropped, PlaceReplied, PlaceFails, BeginPlace, VenueOrder,
        loopVars, policyVars, mainVars
  <1>7. CASE BeginUnwind \/ Joined
    BY <1>7 DEF BeginUnwind, Joined, loopVars, policyVars
  <1>8. CASE SweepRead \/ SweepCancel \/ Disarm
    <2>1. main \notin {"running", "joining", "exited"} /\ main' \notin {"running", "joining", "exited"}
      BY <1>8 DEF SweepRead, SweepCancel, Disarm, AfterSweep, SweepAgain
    <2>2. UNCHANGED <<halt, loopVars>>
      BY <1>8 DEF SweepRead, SweepCancel, Disarm
    <2> QED
      BY <2>1, <2>2 DEF loopVars, policyVars
  <1>9. CASE Exit
    BY <1>9 DEF Exit
  <1>10. CASE Tick
    BY <1>10 DEF Tick
  <1>11. CASE UNCHANGED vars
    BY <1>11 DEF vars, loopVars, policyVars, mainVars
  <1> QED
    BY <1>1, <1>2, <1>3, <1>4, <1>5, <1>6, <1>7, <1>8, <1>9, <1>10, <1>11
    DEF Next, LoopStep, MainStep

-----------------------------------------------------------------------------
(* The clocks. *)

(* The deadline at the venue is never before the one the loop counts on. *)
LEMMA HonestReply ==
    ASSUME ArmReplied, [ArmReplied => landed]_vars
    PROVE  landed
  <1>1. loop = "arming" /\ loop' = "asleep"
    BY DEF ArmReplied
  <1>2. vars' # vars
    BY <1>1 DEF vars, loopVars
  <1> QED
    BY <1>2

LEMMA VenueNext ==
    ASSUME [ArmReplied => landed]_vars
    PROVE  TypesOK /\ SwitchFollowsTheSession /\ VenueIsNotBehind /\ [Next]_vars
                => VenueIsNotBehind'
  <1> SUFFICES ASSUME TypesOK, SwitchFollowsTheSession, VenueIsNotBehind, [Next]_vars
               PROVE  VenueIsNotBehind'
    OBVIOUS
  <1>0. /\ stamp \in Nat /\ left \in Nat /\ deadline \in Nat /\ Lead \in Nat /\ left <= Lead
        /\ halt \in {"running", "halted", "stopped"}
    BY Constants DEF TypesOK, ValuesOK
  <1> USE DEF VenueIsNotBehind
  <1>1. CASE Check
    <2>1. (stamp' = Lead /\ loop' = "arming" /\ landed' = FALSE) \/ loop' = "gaveUp"
      BY <1>1 DEF Check, GiveUp, BeginArm
    <2>2. halt' # "stopped" => halt # "stopped"
      BY <1>0, <1>1 DEF Check, GiveUp, Halted
    <2>3. left' = left /\ deadline' = deadline
      BY <1>1 DEF Check
    <2> QED
      BY <1>0, <2>1, <2>2, <2>3
  <1>2. CASE ArmLands
    BY <1>0, <1>2 DEF ArmLands, policyVars
  <1>3. CASE ArmReplied
    <2>1. halt' # "stopped" => halt # "stopped"
      BY <1>0, <1>3 DEF ArmReplied, Resumed
    <2>2. loop = "arming" /\ landed /\ loop' = "asleep" /\ left' = stamp /\ deadline' = deadline
      BY <1>3, HonestReply DEF ArmReplied
    <2> QED
      BY <1>0, <2>1, <2>2
  <1>4. CASE ArmFails
    <2>1. halt' # "stopped" => halt # "stopped"
      BY <1>0, <1>4 DEF ArmFails, GiveUp, Halted
    <2>2. loop' # "arming" /\ left' = left /\ deadline' = deadline
      BY <1>4 DEF ArmFails, GiveUp
    <2> QED
      BY <2>1, <2>2
  <1>5. CASE Wake
    BY <1>5 DEF Wake, policyVars
  <1>6. CASE PumpStep \/ \E o \in Orders : BeginPlace(o) \/ VenueOrder(o)
    BY <1>6
    DEF PumpStep, PumpExits, PumpDropped, PlaceReplied, PlaceFails, BeginPlace, VenueOrder,
        loopVars, policyVars
  <1>7. CASE BeginUnwind \/ Joined \/ SweepRead \/ SweepCancel
    BY <1>7 DEF BeginUnwind, Joined, SweepRead, SweepCancel, loopVars, policyVars
  <1>8. CASE Disarm
    <2>1. halt = "stopped" /\ UNCHANGED <<halt, loopVars>>
      BY <1>8 DEF Disarm, SwitchFollowsTheSession
    <2> QED
      BY <2>1 DEF loopVars, policyVars
  <1>9. CASE Exit
    <2>1. halt = "stopped" /\ left' = 0 /\ UNCHANGED <<halt, loop, stamp, landed, deadline>>
      BY <1>9 DEF Exit, SwitchFollowsTheSession
    <2> QED
      BY <1>0, <2>1
  <1>10. CASE Tick
    BY <1>0, <1>10 DEF Tick, Less
  <1>11. CASE UNCHANGED vars
    BY <1>11 DEF vars, loopVars, policyVars
  <1> QED
    BY <1>1, <1>2, <1>3, <1>4, <1>5, <1>6, <1>7, <1>8, <1>9, <1>10, <1>11
    DEF Next, LoopStep, MainStep

(* What a tick does while the process is on time. *)
LEMMA TickOnTime ==
    ASSUME TypesOK, Tick, ~stalled'
    PROVE  /\ ~stalled /\ ~Due
           /\ UNCHANGED <<halt, loop, armedOnce, failures, stallHalted, main>>
           /\ (stamp = 0 /\ stamp' = 0) \/ (stamp > 0 /\ stamp' = stamp - 1)
           /\ (left = 0 /\ left' = 0) \/ (left > 0 /\ left' = left - 1)
           /\ (nap = 0 /\ nap' = 0) \/ (nap > 0 /\ nap' = nap - 1)
  <1>1. stamp \in Nat /\ left \in Nat /\ nap \in Nat
    BY Constants DEF TypesOK, ValuesOK
  <1>2. ~stalled /\ ~Due
    BY DEF Tick
  <1>3. UNCHANGED <<halt, loop, armedOnce, failures, stallHalted, main>>
    BY DEF Tick
  <1>4. stamp' = Less(stamp) /\ left' = Less(left) /\ nap' = Less(nap)
    BY DEF Tick
  <1> QED
    BY <1>1, <1>2, <1>3, <1>4 DEF Less

(* While the process is on time, a session that accepts orders has protection
   left for the wait it is in. *)
LEMMA RunningNext ==
    ASSUME TimeoutsFit
    PROVE  TypesOK /\ SwitchFollowsTheSession /\ RunningHasTimeLeft /\ [Next]_vars
                => RunningHasTimeLeft'
  <1> SUFFICES ASSUME TypesOK, SwitchFollowsTheSession, RunningHasTimeLeft, [Next]_vars,
                      Alive', ~stalled'
               PROVE  /\ loop' = "arming" => stamp' + Timeout >= Lead
                      /\ halt' = "running" =>
                            /\ loop' = "check" => left' > 0
                            /\ loop' = "asleep" => left' > nap'
                            /\ loop' = "arming" => left' + Lead > stamp' + Timeout
    BY DEF RunningHasTimeLeft
  <1>0. /\ stamp \in Nat /\ left \in Nat /\ nap \in Nat /\ left <= Lead /\ Timeout <= Interval
        /\ halt \in {"running", "halted", "stopped"}
    BY Constants DEF TypesOK, ValuesOK, TimeoutsFit
  <1>1. ASSUME UNCHANGED <<loop, stamp, left, nap, stalled>>, halt' = "running" => halt = "running",
               Alive
        PROVE  /\ loop' = "arming" => stamp' + Timeout >= Lead
               /\ halt' = "running" =>
                     /\ loop' = "check" => left' > 0
                     /\ loop' = "asleep" => left' > nap'
                     /\ loop' = "arming" => left' + Lead > stamp' + Timeout
    BY <1>1 DEF RunningHasTimeLeft
  <1>2. CASE Check
    <2>1. /\ stalled' = stalled /\ left' = left /\ loop = "check" /\ Alive
          /\ (loop' = "arming" /\ stamp' = Lead) \/ (loop' = "gaveUp" /\ halt' = Halted)
      BY <1>2 DEF Check, GiveUp, BeginArm
    <2>2. halt' = "running" => halt = "running" /\ (loop' = "arming" => left > Interval)
      <3>1. Halted # "running"
        BY DEF Halted
      <3>2. halt' = Halted \/ (UNCHANGED halt /\ (~armedOnce \/ ~HaltBand \/ stallHalted))
        BY <1>2, Zenon DEF Check, GiveUp
      <3>3. halt = "running" => armedOnce /\ ~stallHalted
        BY Zenon DEF SwitchFollowsTheSession
      <3>4. halt' = "running" => halt = "running" /\ ~HaltBand
        BY <3>1, <3>2, <3>3, Zenon
      <3> QED
        BY <1>0, <3>4, Constants DEF HaltBand
    <2>3. loop' = "gaveUp" => halt' # "running"
      BY <2>1 DEF Halted
    <2> QED
      BY <1>0, <2>1, <2>2, <2>3, Constants
  <1>3. CASE ArmLands
    BY <1>1, <1>3 DEF ArmLands, policyVars, mainVars, Alive
  <1>4. CASE ArmReplied
    <2>1. /\ stalled' = stalled /\ left' = stamp /\ loop = "arming" /\ Alive
          /\ loop' = "asleep" /\ nap' = Interval
      BY <1>4 DEF ArmReplied
    <2>2. stamp + Timeout >= Lead
      BY <2>1 DEF RunningHasTimeLeft
    <2> QED
      BY <1>0, <2>1, <2>2, Constants DEF TimeoutsFit
  <1>5. CASE ArmFails
    <2>1. /\ stalled' = stalled /\ left' = left /\ loop = "arming" /\ Alive
          /\ loop' = "asleep" => nap' = Retry
          /\ loop' \in {"asleep", "gaveUp"}
      BY <1>5 DEF ArmFails, GiveUp, RetryWait
    <2>2. halt' = "running" => loop' = "asleep" /\ left > Interval
      <3>1. Halted # "running"
        BY DEF Halted
      <3>2. \/ halt' = Halted
            \/ loop' = "asleep" /\ halt' = halt /\ armedOnce /\ ~HaltBand
        BY <1>5, Zenon DEF ArmFails, GiveUp
      <3>3. halt' = "running" => loop' = "asleep" /\ ~HaltBand
        BY <3>1, <3>2, Zenon
      <3> QED
        BY <1>0, <3>3, Constants DEF HaltBand
    <2> QED
      BY <1>0, <2>1, <2>2, Constants
  <1>6. CASE Wake
    <2>1. /\ stalled' = stalled /\ left' = left /\ loop = "asleep" /\ Alive /\ halt' = halt
          /\ loop' \in {"check", "done"}
      BY <1>6 DEF Wake, policyVars
    <2> QED
      BY <1>0, <2>1 DEF RunningHasTimeLeft
  <1>7. CASE PumpStep \/ \E o \in Orders : BeginPlace(o) \/ VenueOrder(o)
    BY <1>1, <1>7
    DEF PumpStep, PumpExits, PumpDropped, PlaceReplied, PlaceFails, BeginPlace, VenueOrder,
        loopVars, policyVars, mainVars, Alive
  <1>8. CASE BeginUnwind \/ Joined
    BY <1>1, <1>8 DEF BeginUnwind, Joined, loopVars, policyVars, Alive
  <1>9. CASE SweepRead \/ SweepCancel \/ Disarm
    <2>1. Alive /\ UNCHANGED <<halt, loopVars, stalled>>
      BY <1>9 DEF SweepRead, SweepCancel, Disarm, Alive
    <2> QED
      BY <1>1, <2>1 DEF loopVars, policyVars
  <1>10. CASE Exit
    BY <1>10 DEF Exit, Alive
  <1>11. CASE Tick
    <2>1. /\ ~stalled /\ ~Due /\ Alive
          /\ UNCHANGED <<halt, loop>>
          /\ (stamp = 0 /\ stamp' = 0) \/ (stamp > 0 /\ stamp' = stamp - 1)
          /\ (left = 0 /\ left' = 0) \/ (left > 0 /\ left' = left - 1)
          /\ (nap = 0 /\ nap' = 0) \/ (nap > 0 /\ nap' = nap - 1)
      BY <1>11, TickOnTime DEF Alive
    <2>2. /\ loop # "check"
          /\ loop = "asleep" => nap > 0
          /\ loop = "arming" => stamp + Timeout > Lead
      BY <1>0, <2>1, Constants DEF Due
    <2> QED
      BY <1>0, <2>1, <2>2, Constants DEF RunningHasTimeLeft
  <1>12. CASE UNCHANGED vars
    BY <1>1, <1>12 DEF vars, loopVars, policyVars, mainVars, Alive
  <1> QED
    BY <1>2, <1>3, <1>4, <1>5, <1>6, <1>7, <1>8, <1>9, <1>10, <1>11, <1>12
    DEF Next, LoopStep, MainStep

-----------------------------------------------------------------------------
(* One miss is survived. *)

(* The protection that is left, as RoomForAMiss counts it. *)
LeftAtLeast(least) ==
    /\ loop = "check" => left >= least
    /\ loop = "asleep" => left >= nap + least
    /\ loop = "arming" => left + Lead >= stamp + least

(* It is what RoomForAMiss says. *)
LEMMA RoomIs ==
    RoomForAMiss <=>
        ((armedOnce /\ ~stalled) =>
            /\ failures = 0 => LeftAtLeast(Lead - Timeout - Interval)
            /\ failures = 1 => LeftAtLeast(Lead - Interval - 2 * Timeout - Retry))
  BY DEF RoomForAMiss, LeftAtLeast

MissInv == RoomForAMiss /\ OneMissIsSurvived

(* While the process is on time, an armed session that gives up has failed
   twice in a row. *)
LEMMA MissNext ==
    ASSUME TimeoutsFit
    PROVE  /\ TypesOK /\ SwitchFollowsTheSession /\ RunningHasTimeLeft /\ MissInv /\ [Next]_vars
                => MissInv'
  <1> SUFFICES ASSUME TypesOK, SwitchFollowsTheSession, RunningHasTimeLeft, MissInv,
                      [Next]_vars, armedOnce', ~stalled'
               PROVE  /\ failures' = 0 => LeftAtLeast(Lead - Timeout - Interval)'
                      /\ failures' = 1 => LeftAtLeast(Lead - Interval - 2 * Timeout - Retry)'
                      /\ loop' = "gaveUp" => failures' >= 2
    <2>1. RoomForAMiss' <=>
            ((armedOnce /\ ~stalled) =>
                /\ failures = 0 => LeftAtLeast(Lead - Timeout - Interval)
                /\ failures = 1 => LeftAtLeast(Lead - Interval - 2 * Timeout - Retry))'
      BY RoomIs, PTL
    <2> QED
      BY <2>1 DEF MissInv, OneMissIsSurvived
  <1> DEFINE r0 == Lead - Timeout - Interval
             r1 == Lead - Interval - 2 * Timeout - Retry
             Goal == /\ failures' = 0 => LeftAtLeast(Lead - Timeout - Interval)'
                     /\ failures' = 1 => LeftAtLeast(Lead - Interval - 2 * Timeout - Retry)'
                     /\ loop' = "gaveUp" => failures' >= 2
  <1>0. /\ stamp \in Nat /\ left \in Nat /\ nap \in Nat /\ left <= Lead /\ failures \in 0..3
        /\ Lead \in Nat /\ Interval \in Nat /\ Timeout \in Nat /\ Retry \in Nat
        /\ r0 \in Int /\ r1 \in Int /\ r1 > 0 /\ r0 >= r1 + Timeout + Retry
    BY Constants DEF TypesOK, ValuesOK, TimeoutsFit
  <1>1. /\ armedOnce /\ ~stalled /\ failures = 0 => LeftAtLeast(r0)
        /\ armedOnce /\ ~stalled /\ failures = 1 => LeftAtLeast(r1)
        /\ armedOnce /\ ~stalled /\ loop = "gaveUp" => failures >= 2
    BY RoomIs DEF MissInv, OneMissIsSurvived
  <1>2. ASSUME UNCHANGED <<loop, stamp, left, nap, stalled, failures, armedOnce>>
        PROVE  Goal
    BY <1>1, <1>2 DEF LeftAtLeast
  <1> HIDE DEF r0, r1
  <1>3. CASE Check
    <2>1. /\ stalled' = stalled /\ left' = left /\ loop = "check" /\ failures' = failures
          /\ armedOnce' = armedOnce
      BY <1>3 DEF Check
    <2>2. \/ loop' = "arming" /\ stamp' = Lead
          \/ loop' = "gaveUp" /\ left = 0
      BY <1>3, Zenon DEF Check, GiveUp, BeginArm
    <2>3. /\ failures = 0 => left >= r0
          /\ failures = 1 => left >= r1
      BY <1>1, <2>1 DEF LeftAtLeast
    <2> QED
      BY <1>0, <2>1, <2>2, <2>3 DEF LeftAtLeast, r0, r1
  <1>4. CASE ArmLands
    BY <1>2, <1>4 DEF ArmLands, policyVars
  <1>5. CASE ArmReplied
    <2>1. /\ stalled' = stalled /\ left' = stamp /\ loop = "arming" /\ Alive
          /\ loop' = "asleep" /\ nap' = Interval /\ failures' = 0
      BY <1>5 DEF ArmReplied
    <2>2. stamp + Timeout >= Lead
      BY <2>1 DEF RunningHasTimeLeft
    <2> QED
      BY <1>0, <2>1, <2>2 DEF LeftAtLeast
  <1>6. CASE ArmFails
    <2>1. /\ stalled' = stalled /\ left' = left /\ loop = "arming" /\ Alive
          /\ armedOnce' = armedOnce
          /\ failures' = IF failures < 3 THEN failures + 1 ELSE 3
      BY <1>6 DEF ArmFails
    <2>2. \/ loop' = "asleep" /\ nap' = Retry
          \/ loop' = "gaveUp" /\ left = 0
      <3>1. armedOnce
        BY <2>1
      <3>2. \/ GiveUp /\ (IF armedOnce THEN left = 0 ELSE failures' = 3)
            \/ loop' = "asleep" /\ nap' = RetryWait
        BY <1>6, Zenon DEF ArmFails
      <3> QED
        BY <3>1, <3>2, Zenon DEF GiveUp, RetryWait
    <2>3. stamp + Timeout >= Lead
      BY <2>1 DEF RunningHasTimeLeft
    <2>4. failures = 0 => left + Lead >= stamp + r0
      BY <1>1, <2>1 DEF LeftAtLeast
    <2>5. failures = 0 => left >= Retry + r1
      BY <1>0, <2>3, <2>4 DEF r0, r1
    <2>6. failures' # 0 /\ (failures' = 1 => failures = 0)
      BY <1>0, <2>1
    <2>7. failures' >= 2 \/ failures' = 1
      BY <1>0, <2>1
    <2>8. failures' = 1 => loop' = "asleep" /\ left' >= nap' + r1
      BY <1>0, <2>1, <2>2, <2>5, <2>6
    <2> QED
      BY <2>6, <2>7, <2>8 DEF LeftAtLeast, r1
  <1>7. CASE Wake
    <2>1. /\ stalled' = stalled /\ left' = left /\ loop = "asleep" /\ failures' = failures
          /\ armedOnce' = armedOnce
          /\ loop' \in {"check", "done"}
      BY <1>7 DEF Wake, policyVars
    <2>2. /\ failures = 0 => left >= r0
          /\ failures = 1 => left >= r1
      BY <1>0, <1>1, <2>1 DEF LeftAtLeast
    <2> QED
      BY <2>1, <2>2 DEF LeftAtLeast, r0, r1
  <1>8. CASE PumpStep \/ \E o \in Orders : BeginPlace(o) \/ VenueOrder(o)
    BY <1>2, <1>8
    DEF PumpStep, PumpExits, PumpDropped, PlaceReplied, PlaceFails, BeginPlace, VenueOrder,
        loopVars, policyVars
  <1>9. CASE BeginUnwind \/ Joined
    BY <1>2, <1>9 DEF BeginUnwind, Joined, loopVars, policyVars
  <1>10. CASE SweepRead \/ SweepCancel \/ Disarm
    <2>1. UNCHANGED <<loopVars, stalled>>
      BY <1>10 DEF SweepRead, SweepCancel, Disarm
    <2> QED
      BY <1>2, <2>1 DEF loopVars, policyVars
  <1>11. CASE Exit
    BY <1>11 DEF Exit
  <1>12. CASE Tick
    <2>1. /\ ~stalled /\ ~Due
          /\ UNCHANGED <<loop, failures, armedOnce>>
          /\ (stamp = 0 /\ stamp' = 0) \/ (stamp > 0 /\ stamp' = stamp - 1)
          /\ (left = 0 /\ left' = 0) \/ (left > 0 /\ left' = left - 1)
          /\ (nap = 0 /\ nap' = 0) \/ (nap > 0 /\ nap' = nap - 1)
      BY <1>12, TickOnTime
    <2>2. /\ loop # "check"
          /\ loop = "asleep" => nap > 0
          /\ loop = "arming" => stamp > 0
      <3>1. Alive
        BY <2>1 DEF SwitchFollowsTheSession
      <3> QED
        BY <1>0, <2>1, <3>1, Constants DEF Due
    <2>3. /\ failures = 0 => LeftAtLeast(r0)
          /\ failures = 1 => LeftAtLeast(r1)
          /\ loop = "gaveUp" => failures >= 2
      BY <1>1, <2>1
    <2>4. ASSUME NEW least \in Int, least > 0, LeftAtLeast(least)
          PROVE  /\ loop' = "check" => left' >= least
                 /\ loop' = "asleep" => left' >= nap' + least
                 /\ loop' = "arming" => left' + Lead >= stamp' + least
      BY <1>0, <2>1, <2>2, <2>4 DEF LeftAtLeast
    <2> QED
      BY <1>0, <2>1, <2>3, <2>4 DEF LeftAtLeast, r0, r1
  <1>13. CASE UNCHANGED vars
    BY <1>2, <1>13 DEF vars, loopVars, policyVars
  <1> QED
    BY <1>3, <1>4, <1>5, <1>6, <1>7, <1>8, <1>9, <1>10, <1>11, <1>12, <1>13
    DEF Next, LoopStep, MainStep

-----------------------------------------------------------------------------
(* The unwinding. *)

(* What each party does to the orders: only the pump puts one on the wire, and
   only under a running switch; the venue and the sweep take them down. *)
LEMMA OrdersMove ==
    ASSUME TypesOK, [Next]_vars
    PROVE  /\ \A o \in Orders :
                \/ order'[o] = order[o]
                \/ order[o] = "new" /\ order'[o] = "wire" /\ placing' = {o} /\ halt = "running"
                \/ order[o] = "wire" /\ order'[o] \in {"resting", "gone"}
                \/ order[o] = "resting" /\ order'[o] = "gone"
           /\ order' \in [Orders -> {"new", "wire", "resting", "gone"}]
  <1>0. order \in [Orders -> {"new", "wire", "resting", "gone"}]
    BY DEF TypesOK, ValuesOK
  <1>1. order' \in [Orders -> {"new", "wire", "resting", "gone"}]
    BY TypesNext DEF TypesOK, ValuesOK
  <1>2. ASSUME order' = order
        PROVE  \A o \in Orders : order'[o] = order[o]
    BY <1>2
  <1>3. CASE LoopStep \/ ArmLands \/ BeginUnwind \/ UNCHANGED vars
    BY <1>1, <1>2, <1>3
    DEF LoopStep, Check, ArmLands, ArmReplied, ArmFails, Wake, BeginUnwind, vars
  <1>4. ASSUME NEW o \in Orders, BeginPlace(o)
        PROVE  /\ order[o] = "new" /\ order'[o] = "wire" /\ placing' = {o} /\ halt = "running"
               /\ \A p \in Orders : p # o => order'[p] = order[p]
    BY <1>0, <1>4 DEF BeginPlace
  <1>5. ASSUME NEW o \in Orders, VenueOrder(o)
        PROVE  /\ \/ order[o] = "wire" /\ order'[o] \in {"resting", "gone"}
                  \/ order[o] = "resting" /\ order'[o] = "gone"
               /\ \A p \in Orders : p # o => order'[p] = order[p]
    BY <1>0, <1>5 DEF VenueOrder
  <1>6. CASE PumpStep
    BY <1>1, <1>2, <1>6 DEF PumpStep, PumpExits, PumpDropped, PlaceReplied, PlaceFails
  <1>7. CASE Joined \/ SweepRead \/ Disarm \/ Exit
    BY <1>1, <1>2, <1>7 DEF Joined, SweepRead, Disarm, Exit
  <1>8. CASE SweepCancel
    <2>1. order' = order \/ order' = [o \in Orders |-> IF o \in found \cap With("resting")
                                                       THEN "gone" ELSE order[o]]
      BY <1>8 DEF SweepCancel
    <2> QED
      BY <1>0, <1>1, <2>1 DEF With
  <1>9. CASE Tick
    <2>1. order' = order \/ order' = [o \in Orders |-> IF order[o] = "resting"
                                                       THEN "gone" ELSE order[o]]
      BY <1>9 DEF Tick
    <2> QED
      BY <1>0, <1>1, <2>1
  <1> QED
    BY <1>1, <1>3, <1>4, <1>5, <1>6, <1>7, <1>8, <1>9 DEF Next, MainStep

(* Under a stopped switch no order goes on the wire: what remains can only
   shrink. *)
LEMMA RemainingShrinks ==
    ASSUME TypesOK, [Next]_vars, halt # "running"
    PROVE  /\ Remaining' \subseteq Remaining /\ With("wire")' \subseteq With("wire")
           /\ \A o \in Orders : order[o] = "new" => order'[o] = "new"
  <1>1. \A o \in Orders :
            \/ order'[o] = order[o]
            \/ order[o] = "wire" /\ order'[o] \in {"resting", "gone"}
            \/ order[o] = "resting" /\ order'[o] = "gone"
    BY OrdersMove
  <1>2. With("wire")' \subseteq With("wire")
    BY <1>1 DEF With
  <1>3. Remaining' \subseteq Remaining
    BY <1>1 DEF With, Remaining
  <1> QED
    BY <1>1, <1>2, <1>3

(* What the pump awaits and has given up on. *)
LEMMA WireNext == TypesOK /\ WireIsAwaited /\ [Next]_vars => WireIsAwaited'
  <1> SUFFICES ASSUME TypesOK, WireIsAwaited, [Next]_vars PROVE WireIsAwaited'
    OBVIOUS
  <1> USE DEF WireIsAwaited
  <1>1. \A o \in With("wire")' : o \in Orders /\ (o \in With("wire") \/ placing' = {o})
    BY OrdersMove DEF With
  <1>2. ASSUME UNCHANGED <<pump, placing, overdue>>,
               main' \in {"running", "joining"} => main \in {"running", "joining"}
        PROVE  WireIsAwaited'
    BY <1>1, <1>2
  <1>3. CASE LoopStep \/ ArmLands \/ BeginUnwind \/ Tick \/ UNCHANGED vars
    BY <1>2, <1>3
    DEF LoopStep, Check, ArmLands, ArmReplied, ArmFails, Wake, BeginUnwind, Tick, vars, pumpVars,
        mainVars
  <1>4. ASSUME NEW o \in Orders, BeginPlace(o)
        PROVE  WireIsAwaited'
    BY <1>1, <1>4 DEF BeginPlace, mainVars
  <1>5. ASSUME NEW o \in Orders, VenueOrder(o)
        PROVE  WireIsAwaited'
    BY <1>2, <1>5 DEF VenueOrder, pumpVars, mainVars
  <1>6. ASSUME NEW o \in Orders, PlaceReplied(o) \/ PlaceFails(o)
        PROVE  WireIsAwaited'
    <2>1. /\ placing = {o} /\ placing' = {} /\ pump' = pump /\ order' = order /\ main' = main
          /\ \/ order[o] # "wire" /\ overdue' = overdue
             \/ overdue' = overdue \cup {o}
      BY <1>6 DEF PlaceReplied, PlaceFails, TypesOK, PlacingOK, mainVars
    <2> QED
      BY <2>1 DEF With
  <1>7. CASE PumpExits
    <2>1. placing = {} /\ pump = "up" /\ UNCHANGED <<placing, overdue, order>>
      BY <1>7 DEF PumpExits
    <2> QED
      BY <1>7, <2>1 DEF PumpExits, With, mainVars
  <1>8. CASE PumpDropped
    BY <1>8 DEF PumpDropped, mainVars
  <1>9. CASE Joined
    <2>1. /\ main = "joining" /\ main' = "sweeping"
          /\ pump' = (IF pump = "exited" THEN "exited" ELSE "aborting")
          /\ UNCHANGED <<placing, overdue, order>>
      BY <1>9 DEF Joined
    <2> QED
      BY <2>1 DEF With
  <1>10. CASE SweepRead \/ SweepCancel \/ Disarm
    <2>1. UNCHANGED pumpVars /\ main' \notin {"running", "joining"}
      BY <1>10 DEF SweepRead, SweepCancel, Disarm, AfterSweep, SweepAgain
    <2> QED
      BY <1>2, <2>1 DEF pumpVars
  <1>11. CASE Exit
    <2>1. pump' = (IF pump = "exited" THEN "exited" ELSE "aborted") /\ placing' = {}
            /\ main' = "exited" /\ UNCHANGED <<overdue, order>>
      BY <1>11 DEF Exit
    <2> QED
      BY <2>1 DEF With
  <1> QED
    BY <1>3, <1>4, <1>5, <1>6, <1>7, <1>8, <1>9, <1>10, <1>11 DEF Next, PumpStep, MainStep

(* What is given up on stays so, and the supervisor only moves on. *)
LEMMA UnwindMoves ==
    ASSUME TypesOK, [Next]_vars
    PROVE  /\ overdue \subseteq overdue'
           /\ main \in {"stopping", "exited"} => main' \in {"stopping", "exited"}
           /\ main = "cancelling" => main' = "cancelling" \/ SweepCancel
           /\ main' = "cancelling" => main = "cancelling" \/ SweepRead
           /\ main = "cancelling" /\ main' = "cancelling" =>
                    UNCHANGED <<found, pump>> \/ pump' # "exited"
           /\ main' = "disarming" => main = "disarming" \/ SweepRead \/ SweepCancel
           /\ main = "disarming" /\ main' = "disarming" /\ pump = "exited" => pump' = "exited"
  <1>1. CASE LoopStep \/ ArmLands \/ UNCHANGED vars
    BY <1>1
    DEF LoopStep, Check, ArmLands, ArmReplied, ArmFails, Wake, vars, pumpVars, mainVars
  <1>2. CASE \E o \in Orders : BeginPlace(o) \/ VenueOrder(o) \/ PlaceReplied(o) \/ PlaceFails(o)
    BY <1>2 DEF BeginPlace, VenueOrder, PlaceReplied, PlaceFails, pumpVars, mainVars
  <1>3. CASE PumpExits \/ PumpDropped
    BY <1>3 DEF PumpExits, PumpDropped, mainVars
  <1>4. CASE BeginUnwind \/ Joined
    BY <1>4 DEF BeginUnwind, Joined, pumpVars
  <1>5. CASE SweepRead
    BY <1>5 DEF SweepRead, pumpVars
  <1>6. CASE SweepCancel
    BY <1>6 DEF SweepCancel, AfterSweep, SweepAgain, pumpVars
  <1>7. CASE Disarm
    <2>1. main = "disarming" /\ main' = "stopping" /\ overdue' = overdue
      BY <1>7 DEF Disarm, pumpVars
    <2> QED
      BY <2>1
  <1>8. CASE Exit
    BY <1>8 DEF Exit
  <1>9. CASE Tick
    BY <1>9 DEF Tick
  <1> QED
    BY <1>1, <1>2, <1>3, <1>4, <1>5, <1>6, <1>7, <1>8, <1>9 DEF Next, PumpStep, MainStep

(* Behind a pump that exited, the sweep leaves only what was given up on. *)
LEMMA SweepNext ==
    /\ TypesOK /\ SwitchFollowsTheSession /\ WireIsAwaited /\ SweepLeavesTheOverdue /\ [Next]_vars
        => SweepLeavesTheOverdue'
  <1> SUFFICES ASSUME TypesOK, SwitchFollowsTheSession, WireIsAwaited, SweepLeavesTheOverdue,
                      [Next]_vars
               PROVE  SweepLeavesTheOverdue'
    OBVIOUS
  <1>0. pump = "exited" => With("wire") \subseteq overdue
    BY DEF WireIsAwaited
  <1>1. ASSUME main' = "cancelling", pump' = "exited"
        PROVE  With("resting")' \subseteq found' \cup overdue'
    <2>1. CASE SweepRead
      BY <1>1, <2>1 DEF SweepRead, AfterSweep, SweepAgain, With
    <2>2. CASE main = "cancelling"
      <3>1. halt # "running" /\ UNCHANGED <<found, pump>> /\ overdue \subseteq overdue'
        BY <1>1, <2>2, UnwindMoves DEF SwitchFollowsTheSession
      <3>2. Remaining' \subseteq Remaining
        BY <3>1, RemainingShrinks
      <3>3. With("resting") \subseteq found \cup overdue /\ With("wire") \subseteq overdue
        BY <1>0, <1>1, <2>2, <3>1 DEF SweepLeavesTheOverdue
      <3> QED
        BY <3>1, <3>2, <3>3 DEF Remaining
    <2> QED
      BY <1>1, <2>1, <2>2, UnwindMoves
  <1>2. ASSUME main' = "disarming"
        PROVE  pump' = "exited" /\ Remaining' \subseteq overdue'
    <2>1. CASE main = "disarming"
      <3>1. /\ halt # "running" /\ pump = "exited" /\ Remaining \subseteq overdue
            /\ pump' = "exited" /\ overdue \subseteq overdue'
        BY <1>2, <2>1, UnwindMoves DEF SwitchFollowsTheSession, SweepLeavesTheOverdue
      <3> QED
        BY <3>1, RemainingShrinks
    <2>2. CASE SweepRead
      <3>1. With("resting") = {} /\ pump = "exited" /\ pump' = pump /\ overdue' = overdue
              /\ order' = order
        BY <1>2, <2>2 DEF SweepRead, AfterSweep, SweepAgain, pumpVars
      <3> QED
        BY <1>0, <3>1 DEF Remaining, With
    <2>3. CASE SweepCancel
      <3>1. /\ main = "cancelling" /\ pump = "exited" /\ pump' = pump /\ overdue' = overdue
            /\ order' = [o \in Orders |-> IF o \in found \cap With("resting")
                                          THEN "gone" ELSE order[o]]
        BY <1>2, <2>3 DEF SweepCancel, AfterSweep, SweepAgain, pumpVars
      <3>2. With("resting") \subseteq found \cup overdue /\ With("wire") \subseteq overdue
        BY <1>0, <3>1 DEF SweepLeavesTheOverdue
      <3>3. \A o \in Remaining' : o \in Remaining /\ ~(o \in found /\ o \in With("resting"))
        BY <3>1 DEF Remaining, With
      <3> QED
        BY <3>1, <3>2, <3>3 DEF Remaining
    <2> QED
      BY <1>2, <2>1, <2>2, <2>3, UnwindMoves
  <1> QED
    BY <1>1, <1>2 DEF SweepLeavesTheOverdue

(* Whether anything was placed, or may be. *)
Exposed == halt = "running" \/ landed \/ \E o \in Orders : order[o] # "new"
Guarded ==
    \/ deadline > 0
    \/ fired
    \/ main \in {"stopping", "exited"} /\ Remaining \subseteq overdue

(* Where an order was placed the venue holds a deadline, until it fires, or
   until the switch is disarmed behind a sweep that left nothing else. *)
LEMMA PlacedNext ==
    ASSUME [ArmReplied => landed]_vars
    PROVE  TypesOK /\ SwitchFollowsTheSession /\ SweepLeavesTheOverdue
            /\ PlacedUnderADeadline /\ [Next]_vars => PlacedUnderADeadline'
  <1> SUFFICES ASSUME TypesOK, SwitchFollowsTheSession, SweepLeavesTheOverdue,
                      PlacedUnderADeadline, [Next]_vars, Exposed'
               PROVE  Guarded'
    BY DEF PlacedUnderADeadline, Exposed, Guarded
  <1>0. deadline \in Nat /\ stamp \in Nat /\ (Exposed => Guarded)
    BY DEF TypesOK, ValuesOK, PlacedUnderADeadline, Exposed, Guarded
  <1>1. CASE ArmLands
    BY <1>0, <1>1 DEF ArmLands, Guarded
  <1>2. ASSUME ~ArmLands
        PROVE  Exposed
    <2>1. ASSUME NEW o \in Orders, order'[o] # "new", ~Exposed
          PROVE  FALSE
      BY <2>1, OrdersMove DEF Exposed
    <2>2. ASSUME halt' = "running", ~Exposed
          PROVE  FALSE
      <3>1. halt # "running" /\ ~landed
        BY <2>2 DEF Exposed
      <3>2. Halted # "running"
        BY <3>1 DEF Halted
      <3>3. ~ArmReplied
        BY <3>1, HonestReply
      <3>4. halt' = halt \/ halt' = Halted \/ halt' = "stopped"
        BY <3>3, Zenon
        DEF Next, LoopStep, PumpStep, MainStep, Check, GiveUp, ArmLands, ArmFails, Wake,
            BeginPlace, PlaceReplied, PlaceFails, PumpExits, PumpDropped, BeginUnwind, Joined,
            SweepRead, SweepCancel, Disarm, Exit, VenueOrder, Tick, vars
      <3> QED
        BY <2>2, <3>1, <3>2, <3>4
    <2>3. ASSUME landed', ~landed
          PROVE  FALSE
      <3>1. landed' = landed \/ ~landed'
        BY <1>2, Zenon
        DEF Next, LoopStep, PumpStep, MainStep, Check, GiveUp, BeginArm, ArmReplied, ArmFails,
            Wake, BeginPlace, PlaceReplied, PlaceFails, PumpExits, PumpDropped, BeginUnwind,
            Joined, SweepRead, SweepCancel, Disarm, Exit, VenueOrder, Tick, vars, loopVars
      <3> QED
        BY <2>3, <3>1, Zenon
    <2> QED
      BY <2>1, <2>2, <2>3 DEF Exposed
  <1>3. ASSUME Guarded, ~ArmLands
        PROVE  Guarded'
    <2>1. CASE main \in {"stopping", "exited"} /\ Remaining \subseteq overdue
      <3>1. halt # "running"
        BY <2>1 DEF SwitchFollowsTheSession
      <3> QED
        BY <2>1, <3>1, RemainingShrinks, UnwindMoves DEF Guarded
    <2>2. CASE fired
      <3>1. fired'
        <4>1. CASE Tick
          BY <2>2, <4>1, Zenon DEF Tick
        <4>2. CASE ~Tick
          BY <2>2, <4>2, <1>3, Zenon
          DEF Next, LoopStep, PumpStep, MainStep, Check, ArmReplied, ArmFails, Wake,
            BeginPlace, PlaceReplied, PlaceFails, PumpExits, PumpDropped, BeginUnwind, Joined,
            SweepRead, SweepCancel, Disarm, Exit, VenueOrder, vars
        <4> QED
          BY <4>1, <4>2
      <3> QED
        BY <3>1 DEF Guarded
    <2>3. CASE deadline > 0
      <3>1. CASE Tick
        <4>1. deadline' = Less(deadline) /\ (deadline = 1 => fired')
          BY <3>1 DEF Tick
        <4> QED
          BY <1>0, <2>3, <4>1 DEF Guarded, Less
      <3>2. CASE Disarm
        <4>1. main = "disarming" /\ main' = "stopping" /\ halt # "running"
          BY <3>2 DEF Disarm, SwitchFollowsTheSession
        <4>2. Remaining' \subseteq Remaining /\ Remaining \subseteq overdue /\ overdue \subseteq overdue'
          BY <4>1, RemainingShrinks, UnwindMoves DEF SweepLeavesTheOverdue
        <4> QED
          BY <4>1, <4>2 DEF Guarded
      <3>3. CASE ~Tick /\ ~Disarm
        <4>1. deadline' = deadline
          BY <1>3, <3>3, Zenon
          DEF Next, LoopStep, PumpStep, MainStep, Check, ArmReplied, ArmFails, Wake,
            BeginPlace, PlaceReplied, PlaceFails, PumpExits, PumpDropped, BeginUnwind, Joined,
            SweepRead, SweepCancel, Exit, VenueOrder, vars
        <4> QED
          BY <2>3, <4>1 DEF Guarded
      <3> QED
        BY <3>1, <3>2, <3>3
    <2> QED
      BY <1>3, <2>1, <2>2, <2>3 DEF Guarded
  <1> QED
    BY <1>0, <1>1, <1>2, <1>3

-----------------------------------------------------------------------------
(* The theorems. *)

(* The invariant of the orders, for every choice of the waits. *)
OrderlyInv == TypesOK /\ SwitchFollowsTheSession /\ WireIsAwaited /\ SweepLeavesTheOverdue

(* It holds in every reachable state. *)
LEMMA OrderlyInvariant == Spec => []OrderlyInv
  <1>1. Init => OrderlyInv
    <2> SUFFICES ASSUME Init PROVE OrderlyInv
      OBVIOUS
    <2>1. With("wire") = {}
      BY DEF Init, With
    <2> QED
      BY <2>1, TypesInit
      DEF Init, OrderlyInv, SwitchFollowsTheSession, WireIsAwaited, SweepLeavesTheOverdue, Alive
  <1>2. OrderlyInv /\ [Next]_vars => OrderlyInv'
    BY TypesNext, SwitchNext, WireNext, SweepNext DEF OrderlyInv
  <1> QED
    BY <1>1, <1>2, PTL DEF Spec

(* Nothing is placed behind the shutdown's sweep: once it has begun no order
   goes on the wire, whatever the re-arm loop finds, because stop is terminal
   (halt.rs) and comes before the first sweep. *)
THEOREM SweepIsLast == Spec => NothingPlacedBehindTheSweep
  <1> DEFINE NoneIsPlaced ==
        main \notin {"running", "joining"} =>
            \A o \in Orders : order[o] = "new" => order'[o] = "new"
  <1>1. OrderlyInv /\ [Next]_vars => [NoneIsPlaced]_vars
    BY RemainingShrinks DEF OrderlyInv, SwitchFollowsTheSession
  <1> QED
    BY <1>1, OrderlyInvariant, PTL DEF Spec, NothingPlacedBehindTheSweep

(* Nor is anything left unprotected: when the process has exited, an order on
   the wire or at rest is covered by a deadline at the venue, unless the client
   had given up on its placement, or the deadline has fired.  A good reply that
   hides a refused arm (exchange/mod.rs, arm_dead_mans_switch) is excepted. *)
THEOREM LeftBehindADeadline == Spec /\ ArmsAreHonest => []LeftOrdersAreProtected
  <1>1. Init => PlacedUnderADeadline
    BY DEF Init, PlacedUnderADeadline
  <1>2. OrderlyInv /\ PlacedUnderADeadline /\ [Next]_vars /\ [ArmReplied => landed]_vars
            => PlacedUnderADeadline'
    BY PlacedNext DEF OrderlyInv
  <1>3. PlacedUnderADeadline => LeftOrdersAreProtected
    BY DEF PlacedUnderADeadline, LeftOrdersAreProtected, Remaining, With
  <1> QED
    BY <1>1, <1>2, <1>3, OrderlyInvariant, PTL DEF Spec, ArmsAreHonest

(* The switch guards the session while it trades and gives up on it neither too
   late nor too soon: a session that accepts orders and was never frozen has a
   deadline at the venue, one failed re-arm does not end it, and the invariants
   this rests on hold.  It hangs on two things the code does not see to: the
   waits fit the lead (TimeoutsFit, which the defaults do and Config::validate
   does not ask), and no good reply hides a refused arm (exchange/mod.rs,
   arm_dead_mans_switch). *)
THEOREM SessionIsProtected ==
    ASSUME TimeoutsFit
    PROVE  Spec /\ ArmsAreHonest => []ProtectionInv
  <1> DEFINE Rest == VenueIsNotBehind /\ RunningHasTimeLeft /\ MissInv /\ PlacedUnderADeadline
  <1>1. Init => Rest
    <2> SUFFICES ASSUME Init PROVE Rest
      OBVIOUS
    <2>1. RoomForAMiss
      BY DEF Init, RoomForAMiss
    <2> QED
      BY <2>1, Constants
      DEF Init, VenueIsNotBehind, RunningHasTimeLeft, MissInv, OneMissIsSurvived,
          PlacedUnderADeadline
  <1>2. OrderlyInv /\ Rest /\ [Next]_vars /\ [ArmReplied => landed]_vars => Rest'
    BY VenueNext, RunningNext, MissNext, PlacedNext DEF OrderlyInv
  <1>3. OrderlyInv /\ Rest => ProtectionInv
    <2> SUFFICES ASSUME OrderlyInv, Rest PROVE ProtectionInv
      OBVIOUS
    <2>1. AcceptingMeansProtected
      <3> SUFFICES ASSUME halt = "running", Alive, ~stalled PROVE deadline > 0
        BY DEF AcceptingMeansProtected
      <3>1. /\ left \in Nat /\ nap \in Nat /\ stamp \in Nat /\ deadline \in Nat /\ left <= deadline
            /\ loop \in {"check", "arming", "asleep"}
        BY Constants
        DEF OrderlyInv, TypesOK, ValuesOK, SwitchFollowsTheSession, VenueIsNotBehind
      <3> QED
        BY <3>1, Constants DEF RunningHasTimeLeft
    <2> QED
      BY <2>1, TypesAreTyped
      DEF OrderlyInv, ProtectionInv, ClockInv, UnwindInv, MissInv
  <1> HIDE DEF Rest
  <1> QED
    BY <1>1, <1>2, <1>3, OrderlyInvariant, PTL DEF Spec, ArmsAreHonest
=============================================================================
