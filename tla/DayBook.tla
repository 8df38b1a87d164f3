------------------------------- MODULE DayBook -------------------------------
(***************************************************************************)
(* The money switch: the day's baseline on disk, and the latch the status  *)
(* pass throws when a declared loss is passed.                             *)
(*   axon-runtime/src/daybook.rs           DayBook                         *)
(*   axon-runtime/src/core.rs              judge_loss                      *)
(*   axon-execution/src/loss.rs            LossLimiter                     *)
(* Losing and winning, the account poll, the calendar and the disk are the *)
(* environment.  A baseline is a set of at most one record [date, equity]. *)
(***************************************************************************)
EXTENDS RiskGate

VARIABLES
    tripped,    \* the latch
    equity,     \* what the venue says the account is worth
    snapshot,   \* the last account reading the tracker holds, a set of at most one
    pnl,        \* what this process realized, and what its position is marked at
    date,       \* the UTC day
    file,       \* what the disk has
    baseline,   \* what the process has
    first,      \* history: the first reading anybody made on its day
    judged,     \* history: what the switch was last asked about, no loss to begin with
    spoiled     \* history: a write of the baseline failed, or the calendar stepped back

moneyVars == <<tripped, equity, snapshot, pnl, date, file, baseline, first, judged, spoiled>>

Torn == {[date |-> -1, equity |-> 0]}

MoneyInit ==
    /\ tripped = FALSE
    /\ equity = 0 /\ snapshot = {} /\ pnl = [realized |-> 0, marked |-> 0]
    /\ date = 1 /\ file = {} /\ baseline = {}
    /\ first = {} /\ judged = {[date |-> 1, equity |-> {}, session |-> 0]} /\ spoiled = FALSE

(* A trade is realized, or the market moves a position's value. *)
MoneyMoves(amount, kind) ==
    /\ equity' = equity + amount
    /\ pnl' = [pnl EXCEPT ![kind] = @ + amount]
    /\ UNCHANGED <<tripped, snapshot, date, file, baseline, first, judged, spoiled>>

AccountRead ==
    /\ snapshot' = {equity}
    /\ UNCHANGED <<tripped, equity, pnl, date, file, baseline, first, judged, spoiled>>

(* Midnight, or a wall clock set back over it. *)
DayTurns(to) ==
    /\ date' = to
    /\ spoiled' = (spoiled \/ to < date)
    /\ UNCHANGED <<tripped, equity, snapshot, pnl, file, baseline, first, judged>>

-----------------------------------------------------------------------------

(* The baseline of the day an equity is read: the one held, or this reading. *)
BaselineAt(reading) ==
    LET today == {b \in baseline : b.date = date}
    IN  IF today # {} THEN today ELSE {[date |-> date, equity |-> reading]}

(* The day's loss; the reading that establishes the baseline has none. *)
DayLoss(reading) ==
    {b.equity - reading : b \in {b \in baseline : b.date = date}}

(* persist: once a day; a failed write leaves the old file or half of one,
   and the session goes on with what it has in memory. *)
Persist(reading, disk) ==
    IF BaselineAt(reading) # baseline
    THEN /\ file' = IF disk = "kept" THEN file ELSE IF disk = "torn" THEN Torn ELSE BaselineAt(reading)
         /\ spoiled' = (spoiled \/ disk # "written")
    ELSE UNCHANGED <<file, spoiled>>

(* judge_loss on the status pass: without a reading of the account the day
   is not judged; the latch is never opened again. *)
JudgeLoss(limits, priced, disk) ==
    LET net  == IF priced THEN {pnl.realized + pnl.marked} ELSE {}
        loss == UNION {DayLoss(eq) : eq \in snapshot}
    IN  /\ tripped' = (tripped \/ Breaches(limits, net, pnl.realized, loss))
        /\ IF snapshot = {}
           THEN disk = "written" /\ UNCHANGED <<file, spoiled, baseline>>
           ELSE \E eq \in snapshot : Persist(eq, disk) /\ baseline' = BaselineAt(eq)
        /\ first' = IF snapshot = {} \/ \E f \in first : f.date = date THEN first
                    ELSE {[date |-> date, equity |-> eq] : eq \in snapshot}
        /\ judged' = {[date |-> date, equity |-> snapshot,
                       session |-> pnl.realized + (IF priced THEN pnl.marked ELSE 0)]}
        /\ UNCHANGED <<equity, snapshot, pnl, date>>

(* Mutant: the process starts without a look at the disk. *)
LoadNothing == {}

(* load: a file that does not parse is no baseline. *)
Load == IF file = Torn THEN {} ELSE file

(* The process dies and starts again; the latch was in memory. *)
MoneyRestarts ==
    /\ tripped' = FALSE
    /\ snapshot' = {}
    /\ pnl' = [pnl EXCEPT !.realized = 0]
    /\ baseline' = Load
    /\ judged' = {}
    /\ UNCHANGED <<equity, date, file, first, spoiled>>

-----------------------------------------------------------------------------

(* daybook.rs: the first reading anybody made on a day is the baseline of that
   day, in memory and on disk, across restarts and midnights, as long as the
   disk and the calendar held; no reading is of a day to come. *)
TheBaselineIsTheFirst ==
    ~spoiled =>
        /\ file = baseline
        /\ \A r \in first \cup baseline :
            r.date <= date /\ (r.date = date => r \in first \cap baseline)

(* Once the switch has been asked about a reading, a loss since the day's
   first reading beyond the day's limit has tripped it, however often the
   process was restarted in between (daybook.rs: a daily limit a restart
   clears is not a daily limit), as long as the disk and the calendar held;
   and so has the session's own loss, of which an unpriced position leaves
   the realized part (loss.rs: a dead feed does not switch the limit off). *)
JudgedLossesTrip(limits) ==
    \A j \in judged :
        \/ tripped
        \/ /\ limits.session > 0 => j.session >= -limits.session
           /\ limits.day > 0 /\ ~spoiled =>
                \A f \in first, eq \in j.equity : f.date = j.date => f.equity - eq <= limits.day
=============================================================================
