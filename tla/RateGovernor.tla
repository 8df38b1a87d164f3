---------------------------- MODULE RateGovernor ----------------------------
(***************************************************************************)
(* The venue's two request budgets as the session accounts for them:       *)
(*   axon-provider-hyperliquid/src/governor.rs    RateGovernor             *)
(* Operators on a governor, a record                                       *)
(*   window    charges [at, weight] of the per-IP window, oldest first     *)
(*   weight    their running sum                                           *)
(*   used, limit    address credits                                        *)
(*   throttle  while throttled, when a place may go out; 0 otherwise       *)
(* and a configuration span, ipLimit, ipReserve, reserve, bonus, drip.     *)
(* One request is one credit and weighs 1, or what the query weighs.       *)
(***************************************************************************)
EXTENDS Integers, Sequences, Functions

AtLeastZero(n) == IF n < 0 THEN 0 ELSE n

FreshGovernor(limit) == [window |-> <<>>, weight |-> 0, used |-> 0, limit |-> limit, throttle |-> 0]

Weight(charges) == SumFunction([i \in DOMAIN charges |-> charges[i].weight])

(* IpWindow::prune, from the front while the front has aged out. *)
Prune(g, cfg, now) ==
    LET young == {i \in 1..Len(g.window) : now < g.window[i].at + cfg.span}
        first == IF young = {} THEN Len(g.window) + 1 ELSE CHOOSE i \in young : \A j \in young : i <= j
        kept  == SubSeq(g.window, first, Len(g.window))
    IN  [g EXCEPT !.window = kept, !.weight = AtLeastZero(g.weight - Weight(SubSeq(g.window, 1, first - 1)))]

(* IpWindow::charge: a charge no later than the newest joins it, which keeps
   the window sorted when the clock steps back. *)
Charge(g, now, weight) ==
    LET n    == Len(g.window)
        with == IF n > 0 /\ g.window[n].at >= now
                THEN [g.window EXCEPT ![n].weight = @ + weight]
                ELSE Append(g.window, [at |-> now, weight |-> weight])
    IN  [g EXCEPT !.weight = @ + weight, !.window = with]

(* Mutant: one charge too few is waited for. *)
FreesAtTheNext(g, cfg, deficit) ==
    LET enough == {i \in 1..Len(g.window) : Weight(SubSeq(g.window, 1, i)) + 1 >= deficit}
    IN  {g.window[i].at + cfg.span : i \in {i \in enough : \A j \in enough : i <= j}}

(* IpWindow::frees_at: when that much weight will have aged out, if ever. *)
FreesAt(g, cfg, deficit) ==
    LET enough == {i \in 1..Len(g.window) : Weight(SubSeq(g.window, 1, i)) >= deficit}
    IN  {g.window[i].at + cfg.span : i \in {i \in enough : \A j \in enough : i <= j}}

(* Mutant: places may use every credit there is. *)
PlaceCeilingUnreserved(g, cfg) == g.limit

PlaceCeiling(g, cfg) == AtLeastZero(g.limit - cfg.reserve)
CancelCeiling(g, cfg) == IF g.limit + cfg.bonus < 2 * g.limit THEN g.limit + cfg.bonus ELSE 2 * g.limit
IpPlaceCeiling(cfg) == AtLeastZero(cfg.ipLimit - cfg.ipReserve)

(* try_action for a place: the drip, the credits, the window. *)
AdmitsPlace(g, cfg, now) ==
    LET pruned == Prune(g, cfg, now)
    IN  /\ g.throttle = 0 \/ now >= g.throttle
        /\ g.used + 1 <= PlaceCeiling(g, cfg)
        /\ pruned.weight + 1 <= IpPlaceCeiling(cfg)

(* ... for a cancel: no drip, and the whole of both budgets. *)
AdmitsCancel(g, cfg, now) ==
    /\ g.used + 1 <= CancelCeiling(g, cfg)
    /\ Prune(g, cfg, now).weight + 1 <= cfg.ipLimit

AdmitsInfo(g, cfg, now, weight) == Prune(g, cfg, now).weight + weight <= IpPlaceCeiling(cfg)

(* What an admitted place leaves; the drip starts again with each. *)
AfterPlace(g, cfg, now) ==
    [Charge(Prune(g, cfg, now), now, 1) EXCEPT
        !.used = @ + 1, !.throttle = IF @ = 0 THEN 0 ELSE now + cfg.drip]

(* charge_cancel: one that does not fit is not charged, and is sent. *)
AfterCancel(g, cfg, now) ==
    LET pruned == Prune(g, cfg, now)
    IN  IF AdmitsCancel(g, cfg, now) THEN [Charge(pruned, now, 1) EXCEPT !.used = @ + 1] ELSE pruned

AfterInfo(g, cfg, now, weight) ==
    LET pruned == Prune(g, cfg, now)
    IN  IF AdmitsInfo(g, cfg, now, weight) THEN Charge(pruned, now, weight) ELSE pruned

(* observe_rate_limit_status: the reading wins, and decides on the drip. *)
AfterReading(g, cfg, now, used) ==
    [g EXCEPT !.used = used, !.throttle = IF used < g.limit THEN 0 ELSE now + cfg.drip]
=============================================================================
