--------------------------- MODULE IntentPipeline ---------------------------
(***************************************************************************)
(* From accepted targets to orders at the venue: the core's intent pass    *)
(* (IntentSource::poll, with the order sweeper and the re-quote), the      *)
(* bounded queue, and the edge's submit pump, all of                       *)
(* crates/axon-runtime/src/intent.rs, over the gate of InFlight.           *)
(*                                                                         *)
(* Three threads interleave: the core (pc), the edge task (epc) and the    *)
(* venue with its websocket (live, frames).  The core holds the tracker's  *)
(* read lock from the start of a pass to its end (pc # "idle"); the edge   *)
(* needs the write lock to record an ack.                                  *)
(*                                                                         *)
(* Abstracted data: prices, sizes and ages.  The planner is free to choose *)
(* any plan its code can return for the working orders it is shown, and an *)
(* order or a record may be found over-age on any pass.  The sequence      *)
(* number of a record is the number of the pass that drained it: a drain   *)
(* keeps one record per producer and symbol.                               *)
(***************************************************************************)
EXTENDS InFlight, Sequences

CONSTANTS
    Strategies,     \* the producers of the session
    Owns,           \* declared universe: pairs <<strategy, symbol>>
    QueueCapacity,  \* IntentQueue::new(capacity), at least 1
    RequoteLimit,   \* re-quotes a silent target is given
    Exclusive,      \* Overlap::Exclusive: one producer per symbol
    SweepEnabled,   \* whether intent.max_order_age_ms sets a lifetime
    RecordsExpire,  \* whether a held record may outlive its window
    RepliesLost,    \* whether a placement may succeed and its reply be lost
    MaxDrains,      \* bound: passes that drain a record
    MaxOrders       \* bound: client order ids minted

ASSUME PipelineAssumption ==
    /\ Owns \subseteq Strategies \X Symbols
    /\ QueueCapacity \in Nat \ {0}
    /\ RequoteLimit \in Nat
    /\ {Exclusive, SweepEnabled, RecordsExpire, RepliesLost} \subseteq BOOLEAN
    /\ MaxDrains \in Nat
    /\ MaxOrders \in Nat

VARIABLES
    pc,         \* where the core is in a pass
    pass,       \* records of this pass that stage 1 has not looked at yet
    carried,    \* records held over for the next pass
    touched,    \* symbols a record of this pass spoke for
    todo,       \* symbols the current stage has still to handle
    sweepDue,   \* whether this pass sweeps and re-quotes
    doomed,     \* over-age orders the sweep of this pass cancels
    outgoing,   \* the intent claimed and not yet queued, at most one
    drains,     \* passes that drained a record
    claims,     \* TargetBook: newest record acted on, per producer and symbol
    requotes,   \* TargetBook: re-quotes since the symbol was last spoken for
    minted,     \* client order ids minted
    queue,      \* the bounded channel
    epc,        \* where the edge is with an intent
    cur,        \* the intent it is submitting, at most one
    toCancel,   \* the cancels of cur it has not sent yet
    live,       \* orders resting at the venue
    survived,   \* history: those of live that rest although a cancel was sent for them
    frames,     \* order frames on the bus, not yet applied
    working,    \* OrderTracker: open orders
    closed,     \* OrderTracker: orders it holds as terminal
    halt,       \* HaltSwitch
    stopping    \* stop_pump was notified

coreVars == <<pc, pass, carried, touched, todo, sweepDue, doomed, outgoing, drains>>
bookVars == <<claims, requotes, minted>>
edgeVars == <<epc, cur, toCancel>>
venueVars == <<live, survived, frames>>
trackerVars == <<working, closed>>
controlVars == <<halt, stopping>>
vars == <<gateVars, coreVars, bookVars, queue, edgeVars, venueVars, trackerVars, controlVars>>

Orders == [cloid: 1..MaxOrders, symbol: Symbols]
Records == [strategy: Strategies, symbol: Symbols, seq: 1..MaxDrains]
Kinds == {"plan", "sweep", "requote"}
Intents == [symbol: Symbols, kind: Kinds, cancels: SUBSET Orders, place: SUBSET Orders]
Frames == [kind: {"open", "done"}, order: Orders]

(* Mutant: the filter by symbol the wrong way round. *)
OrdersOfOthers(S, s) == {o \in S : o.symbol # s}

OrdersOf(S, s) == {o \in S : o.symbol = s}

(* The queue, the hand-off and the edge together: every intent that was
   claimed and has not been released. *)
Outstanding == outgoing \o queue \o cur

TypeOK ==
    /\ GateTypeOK
    /\ pc \in {"idle", "admit", "plan", "sweep", "requote"}
    /\ pass \subseteq Records
    /\ carried \subseteq Records
    /\ touched \subseteq Symbols
    /\ todo \subseteq Symbols
    /\ sweepDue \in BOOLEAN
    /\ doomed \subseteq Orders
    /\ outgoing \in Seq(Intents)
    /\ drains \in 0..MaxDrains
    /\ claims \in [Strategies \X Symbols -> 0..MaxDrains]
    /\ requotes \in [Symbols -> 0..RequoteLimit]
    /\ minted \in 0..MaxOrders
    /\ queue \in Seq(Intents)
    /\ epc \in {"poll", "cancel", "place", "ack", "ackFilled", "release", "exited"}
    /\ cur \in Seq(Intents)
    /\ toCancel \subseteq Orders
    /\ live \subseteq Orders
    /\ survived \subseteq Orders
    /\ frames \in Seq(Frames)
    /\ working \subseteq Orders
    /\ closed \subseteq Orders
    /\ halt \in {"running", "halted", "stopped"}
    /\ stopping \in BOOLEAN

Init ==
    /\ GateInit
    /\ pc = "idle"
    /\ pass = {} /\ carried = {} /\ touched = {} /\ todo = {} /\ doomed = {}
    /\ sweepDue = FALSE
    /\ outgoing = <<>> /\ queue = <<>> /\ cur = <<>>
    /\ drains = 0
    /\ claims = [c \in Strategies \X Symbols |-> 0]
    /\ requotes = [s \in Symbols |-> 0]
    /\ minted = 0
    /\ epc = "poll"
    /\ toCancel = {}
    /\ live = {} /\ survived = {} /\ frames = <<>>
    /\ working = {} /\ closed = {}
    /\ halt = "running"
    /\ stopping = FALSE

-----------------------------------------------------------------------------
(* The core: one pass of IntentSource::poll.                               *)

(* Mutant: the comparison of the sequence numbers the wrong way round. *)
SupersedesBackwards(new, old) ==
    new.strategy = old.strategy /\ new.symbol = old.symbol /\ new.seq < old.seq

(* A record of the same producer for the same symbol read later displaces
   an older one, held over or not. *)
Supersedes(new, old) == new.strategy = old.strategy /\ new.symbol = old.symbol

(* The head of poll: the held records that are still fresh go in first, then
   what each attached producer's reader admits.  A stopped session returns
   before it reads anything; a pass with nothing to do ends at once. *)
BeginPass(spoken, fresh, due) ==
    LET new  == {[strategy |-> c[1], symbol |-> c[2], seq |-> drains + 1] : c \in spoken}
        held == {r \in fresh : \A n \in new : ~Supersedes(n, r)}
        work == held \cup new
    IN  /\ pc = "idle"
        /\ halt # "stopped"
        /\ due => SweepEnabled
        /\ RecordsExpire \/ fresh = carried
        /\ spoken # {} => drains < MaxDrains
        /\ drains' = IF spoken = {} THEN drains ELSE drains + 1
        /\ pass' = work
        /\ carried' = {}
        /\ touched' = {}
        /\ sweepDue' = due
        /\ pc' = IF work = {} /\ ~due THEN "idle" ELSE "admit"
        /\ UNCHANGED <<gateVars, todo, doomed, outgoing, bookVars, queue, edgeVars,
                       venueVars, trackerVars, controlVars>>

(* Outside the producer's declared universe, or on a symbol another producer
   holds in a session where overlap is exclusive. *)
Refused(r) ==
    \/ <<r.strategy, r.symbol>> \notin Owns
    \/ Exclusive /\ \E p \in Strategies \ {r.strategy} : claims[<<p, r.symbol>>] # 0

(* Mutant: a record whose symbol is in flight is skipped, not held. *)
SkipRecord(r) == UNCHANGED carried

HoldRecord(r) == carried' = carried \cup {r}

(* Stage 1 for one record.  In flight: held for the next pass.  Refused:
   counted and dropped.  Otherwise the book takes it, the re-quote budget of
   the symbol resets and the symbol is planned below. *)
AdmitRecord(r) ==
    /\ pc = "admit"
    /\ r \in pass
    /\ pass' = pass \ {r}
    /\ \/ /\ Contains(r.symbol)
          /\ HoldRecord(r)
          /\ UNCHANGED <<touched, claims, requotes>>
       \/ /\ ~Contains(r.symbol)
          /\ Refused(r)
          /\ UNCHANGED <<carried, touched, claims, requotes>>
       \/ /\ ~Contains(r.symbol)
          /\ ~Refused(r)
          /\ claims' = [claims EXCEPT ![<<r.strategy, r.symbol>>] = r.seq]
          /\ requotes' = [requotes EXCEPT ![r.symbol] = 0]
          /\ touched' = touched \cup {r.symbol}
          /\ UNCHANGED carried
    /\ UNCHANGED <<gateVars, pc, todo, sweepDue, doomed, outgoing, drains, minted, queue,
                   edgeVars, venueVars, trackerVars, controlVars>>

BeginPlanning ==
    /\ pc = "admit"
    /\ pass = {}
    /\ pc' = "plan"
    /\ todo' = touched
    /\ UNCHANGED <<gateVars, pass, carried, touched, sweepDue, doomed, outgoing, drains,
                   bookVars, queue, edgeVars, venueVars, trackerVars, controlVars>>

(* IntentSink::send, first half: the claim comes before the send. *)
Offer(intent) ==
    /\ Claim(intent.symbol)
    /\ outgoing' = <<intent>>

(* A full channel drops the intent and gives the slot back; a dropped re-quote
   is not charged to the budget. *)
DropIntent(intent) ==
    /\ Release(intent.symbol)
    /\ requotes' = IF intent.kind = "requote" /\ requotes[intent.symbol] > 0
                   THEN [requotes EXCEPT ![intent.symbol] = @ - 1]
                   ELSE requotes

(* IntentSink::send, second half. *)
TrySend ==
    /\ outgoing # <<>>
    /\ LET intent == Head(outgoing)
       IN  \/ /\ Len(queue) < QueueCapacity
              /\ queue' = Append(queue, intent)
              /\ UNCHANGED <<gateVars, requotes>>
           \/ /\ Len(queue) >= QueueCapacity
              /\ DropIntent(intent)
              /\ UNCHANGED queue
    /\ outgoing' = <<>>
    /\ UNCHANGED <<pc, pass, carried, touched, todo, sweepDue, doomed, drains, claims, minted,
                   edgeVars, venueVars, trackerVars, controlVars>>

(* A new order for the symbol, under an id nobody used before: cloid_for is
   injective in (ts_event, seq, symbol). *)
NewOrder(s) == [cloid |-> minted + 1, symbol |-> s]

(* Stage 3 for one symbol.  The planner either leaves everything as it is
   (nothing working and nothing to place, or the one working order already
   is the order), or cancels every working order of the symbol, with or
   without a replacement. *)
PlanSymbol(s) ==
    /\ pc = "plan"
    /\ outgoing = <<>>
    /\ s \in todo
    /\ todo' = todo \ {s}
    /\ LET mine == OrdersOf(working, s)
       IN  \/ /\ \A o1, o2 \in mine : o1 = o2
              /\ UNCHANGED <<gateVars, outgoing, minted>>
           \/ /\ mine # {}
              /\ Offer([symbol |-> s, kind |-> "plan", cancels |-> mine, place |-> {}])
              /\ UNCHANGED minted
           \/ /\ minted < MaxOrders
              /\ Offer([symbol |-> s, kind |-> "plan", cancels |-> mine,
                        place |-> {NewOrder(s)}])
              /\ minted' = minted + 1
    /\ UNCHANGED <<pc, pass, carried, touched, sweepDue, doomed, drains, claims, requotes,
                   queue, edgeVars, venueVars, trackerVars, controlVars>>

(* After the plans: the sweep when it is due, else the end of the pass. The
   scan of the open orders takes those past their lifetime (old) that were
   not asked for lately, skipping symbols in flight or planned above. *)
EndPlanning(old) ==
    /\ pc = "plan"
    /\ outgoing = <<>>
    /\ todo = {}
    /\ pc' = IF sweepDue THEN "sweep" ELSE "idle"
    /\ doomed' = IF sweepDue
                 THEN {o \in old : ~Contains(o.symbol) /\ o.symbol \notin touched}
                 ELSE {}
    /\ touched' = IF sweepDue THEN touched ELSE {}
    /\ UNCHANGED <<gateVars, pass, carried, todo, sweepDue, outgoing, drains, bookVars,
                   queue, edgeVars, venueVars, trackerVars, controlVars>>

(* One cancel-only intent per symbol. *)
SweepSymbol(s) ==
    /\ pc = "sweep"
    /\ outgoing = <<>>
    /\ OrdersOf(doomed, s) # {}
    /\ Offer([symbol |-> s, kind |-> "sweep", cancels |-> OrdersOf(doomed, s), place |-> {}])
    /\ doomed' = doomed \ OrdersOf(doomed, s)
    /\ UNCHANGED <<pc, pass, carried, touched, todo, sweepDue, drains, bookVars, queue,
                   edgeVars, venueVars, trackerVars, controlVars>>

(* The re-quote looks at every claimed symbol, and only on a running session. *)
EndSweep ==
    /\ pc = "sweep"
    /\ outgoing = <<>>
    /\ doomed = {}
    /\ pc' = IF halt = "running" THEN "requote" ELSE "idle"
    /\ todo' = IF halt = "running"
               THEN {s \in Symbols : \E p \in Strategies : claims[<<p, s>>] # 0}
               ELSE {}
    /\ touched' = IF halt = "running" THEN touched ELSE {}
    /\ sweepDue' = FALSE
    /\ UNCHANGED <<gateVars, pass, carried, doomed, outgoing, drains,
                   bookVars, queue, edgeVars, venueVars, trackerVars, controlVars>>

(* Mutant: one re-quote too many. *)
HasBudgetOffByOne(s) == requotes[s] <= RequoteLimit

HasBudget(s) == requotes[s] < RequoteLimit

(* A held target nobody spoke for in this pass, with nothing in flight and
   nothing working, is quoted again until its budget is spent.  The planner
   may also find that nothing has to be ordered. *)
RequoteSymbol(s) ==
    /\ pc = "requote"
    /\ outgoing = <<>>
    /\ s \in todo
    /\ todo' = todo \ {s}
    /\ \/ UNCHANGED <<gateVars, outgoing, requotes, minted>>
       \/ /\ s \notin touched
          /\ ~Contains(s)
          /\ OrdersOf(working, s) = {}
          /\ HasBudget(s)
          /\ minted < MaxOrders
          /\ requotes' = [requotes EXCEPT ![s] = @ + 1]
          /\ Offer([symbol |-> s, kind |-> "requote", cancels |-> {},
                    place |-> {NewOrder(s)}])
          /\ minted' = minted + 1
    /\ UNCHANGED <<pc, pass, carried, touched, sweepDue, doomed, drains, claims, queue,
                   edgeVars, venueVars, trackerVars, controlVars>>

EndPass ==
    /\ pc = "requote"
    /\ outgoing = <<>>
    /\ todo = {}
    /\ pc' = "idle"
    /\ touched' = {}
    /\ UNCHANGED <<gateVars, pass, carried, todo, sweepDue, doomed, outgoing,
                   drains, bookVars, queue, edgeVars, venueVars, trackerVars, controlVars>>

Adopted(o) == IF o \in closed THEN working ELSE working \cup {o}

(* Between passes the core applies the next order frame to the tracker: an
   open order nobody knows is adopted, a terminal state closes a known one
   and is dropped for an unknown one. *)
ApplyFrame ==
    /\ pc = "idle"
    /\ frames # <<>>
    /\ LET o == Head(frames).order
       IN  \/ /\ Head(frames).kind = "open"
              /\ working' = Adopted(o)
              /\ UNCHANGED closed
           \/ /\ Head(frames).kind = "done"
              /\ working' = working \ {o}
              /\ closed' = IF o \in working THEN closed \cup {o} ELSE closed
    /\ frames' = Tail(frames)
    /\ UNCHANGED <<gateVars, coreVars, bookVars, queue, edgeVars, live, survived, controlVars>>

CoreStep ==
    \/ \E r \in pass : AdmitRecord(r)
    \/ BeginPlanning
    \/ \E s \in Symbols : PlanSymbol(s) \/ SweepSymbol(s) \/ RequoteSymbol(s)
    \/ TrySend
    \/ \E old \in SUBSET working : EndPlanning(old)
    \/ EndSweep
    \/ EndPass

-----------------------------------------------------------------------------
(* The edge: pump and submit_intent.                                       *)

Receive ==
    /\ epc = "poll"
    /\ queue # <<>>
    /\ cur' = <<Head(queue)>>
    /\ queue' = Tail(queue)
    /\ toCancel' = Head(queue).cancels
    /\ epc' = "cancel"
    /\ UNCHANGED <<gateVars, coreVars, bookVars, venueVars, trackerVars, controlVars>>

(* An order leaves the venue, and the venue says so. *)
LeavesVenue(o) ==
    /\ o \in live
    /\ live' = live \ {o}
    /\ survived' = survived \ {o}
    /\ frames' = Append(frames, [kind |-> "done", order |-> o])

(* Every cancel first.  The venue takes the order down, whether or not its
   reply arrives; or the order is gone already; or the cancel fails - at a
   wrapper of the client, on the way or at the venue - and the order rests on.
   An error of either kind is counted and passed over. *)
CancelOne(o) ==
    /\ epc = "cancel"
    /\ o \in toCancel
    /\ toCancel' = toCancel \ {o}
    /\ \/ LeavesVenue(o)
       \/ /\ o \notin live
          /\ UNCHANGED venueVars
       \/ /\ o \in live
          /\ survived' = survived \cup {o}
          /\ UNCHANGED <<live, frames>>
    /\ UNCHANGED <<gateVars, coreVars, bookVars, queue, epc, cur, trackerVars, controlVars>>

(* Mutant: the orders do not wait for the cancels. *)
PlaceWithoutWaiting ==
    /\ epc = "cancel"
    /\ epc' = IF Head(cur).place = {} \/ halt # "running" THEN "release" ELSE "place"
    /\ UNCHANGED <<gateVars, coreVars, bookVars, queue, cur, toCancel, venueVars,
                   trackerVars, controlVars>>

(* Then the orders, unless there are none or the session is halted. *)
CancelsDone ==
    /\ epc = "cancel"
    /\ toCancel = {}
    /\ epc' = IF Head(cur).place = {} \/ halt # "running" THEN "release" ELSE "place"
    /\ UNCHANGED <<gateVars, coreVars, bookVars, queue, cur, toCancel, venueVars,
                   trackerVars, controlVars>>

(* Mutant: only a fill is recorded. *)
RecordFillsOnly(outcome) == IF outcome = "filled" THEN "ackFilled" ELSE "release"

AfterReply(outcome) ==
    CASE outcome = "resting" -> "ack"
      [] outcome = "filled" -> "ackFilled"
      [] OTHER -> "release"

(* place_order: refused by a wrapper of the client or by the venue; resting
   there, in which case the venue also announces it; filled at once; or
   resting with the reply lost to the client's timeout, which reads here
   exactly as a refusal. *)
Place(outcome) ==
    /\ epc = "place"
    /\ outcome = "lost" => RepliesLost
    /\ IF outcome \in {"resting", "lost"}
       THEN /\ live' = live \cup Head(cur).place
            /\ \E o \in Head(cur).place :
                    frames' = Append(frames, [kind |-> "open", order |-> o])
            /\ UNCHANGED survived
       ELSE UNCHANGED venueVars
    /\ epc' = AfterReply(outcome)
    /\ UNCHANGED <<gateVars, coreVars, bookVars, queue, cur, toCancel, trackerVars, controlVars>>

(* on_ack under the tracker's write lock, which no pass holds: the order is
   entered as open, whatever the tracker held under its id, or as filled. *)
Ack ==
    /\ epc \in {"ack", "ackFilled"}
    /\ pc = "idle"
    /\ working' = IF epc = "ack" THEN working \cup Head(cur).place ELSE working
    /\ closed' = IF epc = "ack" THEN closed \ Head(cur).place ELSE closed \cup Head(cur).place
    /\ epc' = "release"
    /\ UNCHANGED <<gateVars, coreVars, bookVars, queue, cur, toCancel, venueVars, controlVars>>

(* Only now may the core plan for this symbol again. *)
Finish ==
    /\ epc = "release"
    /\ Release(Head(cur).symbol)
    /\ cur' = <<>>
    /\ epc' = "poll"
    /\ UNCHANGED <<coreVars, bookVars, queue, toCancel, venueVars, trackerVars, controlVars>>

(* The stop is heard only when the queue is empty. *)
PumpExit ==
    /\ epc = "poll"
    /\ queue = <<>>
    /\ stopping
    /\ epc' = "exited"
    /\ UNCHANGED <<gateVars, coreVars, bookVars, queue, cur, toCancel, venueVars,
                   trackerVars, controlVars>>

EdgeStep ==
    \/ Receive
    \/ \E o \in toCancel : CancelOne(o)
    \/ CancelsDone
    \/ \E outcome \in {"resting", "filled", "lost", "refused"} : Place(outcome)
    \/ Ack
    \/ Finish
    \/ PumpExit

-----------------------------------------------------------------------------
(* The venue and the session around the pipeline.                          *)

(* An order is filled, or cancelled by the venue. *)
VenueClose(o) ==
    /\ LeavesVenue(o)
    /\ UNCHANGED <<gateVars, coreVars, bookVars, queue, edgeVars, trackerVars, controlVars>>

HaltSession ==
    /\ halt = "running"
    /\ halt' = "halted"
    /\ UNCHANGED <<gateVars, coreVars, bookVars, queue, edgeVars, venueVars, trackerVars, stopping>>

ResumeSession ==
    /\ halt = "halted"
    /\ halt' = "running"
    /\ UNCHANGED <<gateVars, coreVars, bookVars, queue, edgeVars, venueVars, trackerVars, stopping>>

(* The session's unwinding: stop the pump, and once it has exited, stop the
   switch for good. *)
RequestStop ==
    /\ ~stopping
    /\ stopping' = TRUE
    /\ UNCHANGED <<gateVars, coreVars, bookVars, queue, edgeVars, venueVars, trackerVars, halt>>

StopSession ==
    /\ epc = "exited"
    /\ halt # "stopped"
    /\ halt' = "stopped"
    /\ UNCHANGED <<gateVars, coreVars, bookVars, queue, edgeVars, venueVars, trackerVars, stopping>>

Next ==
    \/ \E spoken \in SUBSET (Strategies \X Symbols), fresh \in SUBSET carried, due \in BOOLEAN :
            BeginPass(spoken, fresh, due)
    \/ ApplyFrame
    \/ CoreStep
    \/ EdgeStep
    \/ \E o \in live : VenueClose(o)
    \/ HaltSession
    \/ ResumeSession
    \/ RequestStop
    \/ StopSession

Spec == Init /\ [][Next]_vars

(* Every thread keeps running.  The venue client answers every call, if only
   with its ten-second timeout, and the core loop never blocks inside a pass.
   The edge waits for a write lock that the core takes and frees again on
   every pass: std's RwLock holds new readers back for a waiting writer, so an
   ack that is possible again and again does happen. *)
Fairness ==
    /\ WF_vars(CoreStep)
    /\ WF_vars(ApplyFrame)
    /\ WF_vars(EdgeStep)
    /\ SF_vars(Ack)

(* Passes keep coming while market data does. *)
PassesKeepComing ==
    WF_vars(\E fresh \in SUBSET carried : BeginPass({}, fresh, FALSE))

FairSpec == Spec /\ Fairness /\ PassesKeepComing

-----------------------------------------------------------------------------
(* What the pipeline promises.                                             *)

(* One intent at a time for one instrument (intent.rs, stage 1): a symbol
   with a bit of its own never has two intents between claim and release,
   whatever the pass, the sweep, the re-quote and the edge do in between. *)
OneIntentPerSymbol ==
    \A i, j \in 1..Len(Outstanding) :
        (Outstanding[i].symbol = Outstanding[j].symbol /\ Outstanding[i].symbol \in Covered)
            => i = j

(* The gate never under-reports: a symbol with an outstanding intent reads as
   in flight, so the core cannot plan for it again. *)
GateNeverUnderReports ==
    \A i \in 1..Len(Outstanding) : Contains(Outstanding[i].symbol)

(* The core plans only from a complete picture: once a symbol is not in flight,
   every order of it that rests at the venue is known to the tracker, so the
   next plan for it cancels them all (submit_intent's on_ack before release). *)
RestingOrdersAreKnown ==
    \A o \in live : Contains(o.symbol) \/ o \in working

(* One target does not become two orders: of a symbol at most one order rests,
   but for those whose cancel was sent and failed.  submit_intent names this
   one exception ("a venue erroring while an order still rests") and places
   all the same; the orders it leaves are what the risk gate has to count. *)
OneLiveOrderPerSymbol ==
    \A o1, o2 \in live \ survived : o1.symbol = o2.symbol => o1 = o2

(* Once every frame has been applied and no submit is under way, the tracker
   believes no order live that has left the venue.  The tracker's comments
   promise it (apply_update: "A terminal state must never be missed ... an
   order we believe is live when it is not is the dangerous direction"); the
   code does not keep it, because on_ack enters the order as open even when
   its terminal frame has been applied already. *)
NoGhostOrders ==
    (frames = <<>> /\ epc \in {"poll", "exited"}) => working \subseteq live

(* The targets of a producer for a symbol are acted on in the order it wrote
   them, although a record can be held over any number of passes. *)
TargetsMoveForward ==
    [][\A c \in Strategies \X Symbols : claims'[c] >= claims[c]]_vars

(* A record that was read is not lost: while none expires, it stays pending
   until the book takes it, it is refused, or a newer record of the same
   producer for the same symbol takes its place. *)
Pending == pass \cup carried
NoTargetLost ==
    [][\A r \in Pending \ Pending' :
            \/ claims'[<<r.strategy, r.symbol>>] = r.seq
            \/ Refused(r)
            \/ \E n \in Pending' : Supersedes(n, r) /\ n.seq > r.seq]_vars

-----------------------------------------------------------------------------
(* Why OneIntentPerSymbol and GateNeverUnderReports hold: the parts of an   *)
(* inductive invariant.                                                    *)

(* The hand-off and the edge hold at most one intent each, and the edge holds
   one exactly while it is at work on it. *)
OneInHand ==
    /\ Len(outgoing) <= 1
    /\ Len(cur) <= 1
    /\ cur = <<>> <=> epc \in {"poll", "exited"}

SameSlot(a, b) == a.symbol = b.symbol /\ a.symbol \in Covered

(* OneIntentPerSymbol, place by place. *)
SlotsDistinct ==
    /\ \A i, j \in 1..Len(queue) : SameSlot(queue[i], queue[j]) => i = j
    /\ \A i \in 1..Len(outgoing), j \in 1..Len(queue) : ~SameSlot(outgoing[i], queue[j])
    /\ \A i \in 1..Len(queue), j \in 1..Len(cur) : ~SameSlot(queue[i], cur[j])
    /\ \A i \in 1..Len(outgoing), j \in 1..Len(cur) : ~SameSlot(outgoing[i], cur[j])

ClaimedIn(seq) ==
    \A i \in 1..Len(seq) : seq[i].symbol \in Covered => seq[i].symbol \in bits

SlotsClaimed == ClaimedIn(outgoing) /\ ClaimedIn(queue) /\ ClaimedIn(cur)

(* Nothing becomes in flight behind the back of a stage: what stage 1 found
   free is still free when stage 3 plans it, and so for the sweep's scan. *)
StagesSeeTheTruth ==
    /\ pc = "admit" => touched \cap bits = {}
    /\ pc = "plan" => todo \cap bits = {}
    /\ pc = "sweep" => \A o \in doomed : o.symbol \notin bits

GateInv == OneInHand /\ SlotsDistinct /\ SlotsClaimed /\ StagesSeeTheTruth

(* Why TargetsMoveForward holds: of one producer and symbol at most one record
   is pending, and it is newer than what the book has taken. *)
PendingIsNewer ==
    \A r \in Pending :
        /\ r.seq > claims[<<r.strategy, r.symbol>>]
        /\ r.seq <= drains
        /\ \A q \in Pending : Supersedes(q, r) => q = r

ClaimsAreDrained == \A c \in Strategies \X Symbols : claims[c] <= drains

OrderInv == PendingIsNewer /\ ClaimsAreDrained /\ pass \cap carried = {}

(* Why the venue holds two orders of a symbol only over a cancel that failed,
   while the replies to placements arrive: the parts of an inductive invariant,
   each about the covered symbols only. *)
Waiting == {outgoing[i] : i \in 1..Len(outgoing)} \cup {queue[i] : i \in 1..Len(queue)}
AtEdge == {cur[i] : i \in 1..Len(cur)}
OnTheBus == {frames[i] : i \in 1..Len(frames)}

(* Every order in sight was minted, and an intent places at most one. *)
OrdersAreMinted ==
    /\ \A x \in Waiting \cup AtEdge : \A o \in x.place :
            o.symbol = x.symbol /\ o.cloid <= minted /\ x.place = {o}
    /\ \A o \in live : o.cloid <= minted
    /\ \A f \in OnTheBus : f.order.cloid <= minted

(* Before its placement an order is unknown to the venue and to the bus. *)
Fresh(x) ==
    x.symbol \in Covered =>
        /\ x.place \cap live = {}
        /\ \A f \in OnTheBus : f.order \notin x.place
UnplacedAreFresh ==
    /\ \A x \in Waiting : Fresh(x)
    /\ epc \in {"cancel", "place"} => \A x \in AtEdge : Fresh(x)

(* A terminal frame is about an order that left the venue for good. *)
DoneMeansGone ==
    \A f \in OnTheBus : f.kind = "done" /\ f.order.symbol \in Covered => f.order \notin live

(* An intent that places has a cancel for whatever rests of its symbol, and
   what still rests once that cancel was sent is an order it failed for. *)
RestingFor(x) == {o \in live : o.symbol = x.symbol /\ x.symbol \in Covered /\ x.place # {}}
CancelsCoverWhatRests ==
    /\ \A x \in Waiting : RestingFor(x) \subseteq x.cancels
    /\ epc = "cancel" => \A x \in AtEdge :
            /\ RestingFor(x) \subseteq x.cancels
            /\ RestingFor(x) \subseteq toCancel \cup survived
    /\ epc = "place" => \A x \in AtEdge :
            /\ RestingFor(x) \subseteq x.cancels \cap survived
            /\ x.place # {}
            /\ toCancel = {}

(* The tracker knows what rests, but for the order whose ack is under way. *)
RestingAreKnownOrAcked ==
    \A o \in live : o.symbol \in Covered =>
        o \in working \/ (epc = "ack" /\ \E x \in AtEdge : o \in x.place)

OneRestsPerSlot == \A o1, o2 \in live \ survived : SameSlot(o1, o2) => o1 = o2

(* Together: while the reply to every placement arrives, an order that rests is
   covered by the cancels of whatever is about to place, at each stage from the
   plan to the wire, so that two rest only where a cancel was sent and failed
   (intent.rs, submit_intent). *)
VenueInv ==
    /\ OrdersAreMinted
    /\ UnplacedAreFresh
    /\ DoneMeansGone
    /\ CancelsCoverWhatRests
    /\ RestingAreKnownOrAcked
    /\ OneRestsPerSlot

-----------------------------------------------------------------------------
(* The abstract promise: each covered symbol goes through the slots of
   IntentSlots.  A slot is open from the claim to the moment the placement was
   answered, spent until the release; what the intent at the edge has asked
   the venue to take down, and still rests, it was refused. *)
SlotOf(s) ==
    IF \A i \in 1..Len(Outstanding) : Outstanding[i].symbol # s THEN "free"
    ELSE IF cur # <<>> /\ Head(cur).symbol = s /\ epc \in {"ack", "ackFilled", "release"}
         THEN "spent"
         ELSE "open"

KeptResting ==
    IF cur # <<>> /\ epc \in {"cancel", "place"}
    THEN {o \in live \cap (Head(cur).cancels \ toCancel) :
            o.symbol = Head(cur).symbol /\ o.symbol \in Covered}
    ELSE {}

SymbolOfOrder(o) == o.symbol

SlotSpec == INSTANCE IntentSlots WITH
    Slots <- Covered,
    Orders <- {o \in Orders : o.symbol \in Covered},
    SymbolOf <- SymbolOfOrder,
    slot <- [s \in Covered |-> SlotOf(s)],
    resting <- {o \in live : o.symbol \in Covered},
    kept <- KeptResting

(* Once the reply to every placement arrives, the pipeline implements IntentSlots. *)
ImplementsSlots == SlotSpec!Spec

(* A slot never released is a symbol that never trades again (inflight.rs,
   release): every claim is released, unless the pump has exited. *)
SlotsAreReleased ==
    \A s \in Symbols : Contains(s) ~> (~Contains(s) \/ epc = "exited")

(* A held-over target gets its turn: it does not wait for ever behind the
   intents of its symbol. *)
HeldTargetsGetTheirTurn ==
    \A r \in Records : r \in carried ~> (r \notin Pending \/ epc = "exited")

(* Nothing waits for ever: a claimed slot comes free on every path the edge can
   take, and a target that was held back for it is asked about again. *)
NothingWaitsForEver == SlotsAreReleased /\ HeldTargetsGetTheirTurn
=============================================================================
