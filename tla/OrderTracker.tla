---------------------------- MODULE OrderTracker ----------------------------
(***************************************************************************)
(* crates/axon-execution/src/tracker.rs: what this process believes about  *)
(* the orders and the position of one instrument, rebuilt from four        *)
(* sources that nothing orders against each other: the reply to a          *)
(* placement, the fills channel, the order-update channel and the rows of  *)
(* the reconciliation poll.                                                *)
(*                                                                         *)
(* Each websocket channel keeps its own order.  A socket that drops loses  *)
(* what was under way on it; the next one replays recent fills and no      *)
(* order updates.  Reconcile has the poll and composes the two.            *)
(*                                                                         *)
(* Quantities are small integers; a price, a fee, a time-in-force and the  *)
(* money totals are left out.  An order is found by its client id or its   *)
(* venue id alike, so both maps are one function.                          *)
(***************************************************************************)
EXTENDS Integers, Sequences, Functions

CONSTANTS
    Orders,         \* order ids
    Foreign,        \* orders another process of the account places
    Sells,          \* the sell orders; the others buy
    Size,           \* the quantity of each order
    MaxSeenTrades,  \* the dedup window
    ReplayDepth,    \* most fills a reconnect replays, no more than the window
    MaxDrops,       \* bound: times the socket drops
    MaxEvents       \* bound: events at the venue

ASSUME TrackerAssumption ==
    /\ Foreign \subseteq Orders
    /\ Sells \subseteq Orders
    /\ Size \in [Orders -> Nat \ {0}]
    /\ MaxSeenTrades \in Nat \ {0}
    /\ ReplayDepth \in 0..MaxSeenTrades
    /\ MaxDrops \in Nat
    /\ MaxEvents \in Nat

VARIABLES
    venue,      \* the venue's truth about each order
    trades,     \* every execution, in order
    now,        \* the venue's clock
    link,       \* the socket: "up" or "down"
    replies,    \* placements whose reply is still to be recorded, with its status
    fills,      \* frames on the userFills channel
    updates,    \* frames on the orderUpdates channel
    rows,       \* the rows of the last poll, still to be applied
    orders,     \* the tracker's orders
    position,   \* the tracker's filled position
    seen,       \* the trade ids it remembers, oldest first
    drops,
    applied,    \* history: the trades that moved the position
    overtaken   \* history: orders whose news arrived out of order

venueVars == <<venue, trades, now>>
linkVars == <<link, fills, updates, drops>>
trackerVars == <<orders, position, seen, applied>>
accountVars == <<venueVars, replies, linkVars, rows, trackerVars, overtaken>>

Live == {"accepted", "resting", "partial"}
Terminal == {"filled", "cancelled"}

Times == 0..MaxEvents
TradeIds == 1..MaxEvents    \* a trade is an event

Fills == {f \in [trade: TradeIds, order: Orders, qty: Nat \ {0}, ts: Times] : f.qty <= Size[f.order]}
Updates == {u \in [order: Orders, status: {"resting"} \cup Terminal, left: Nat, ts: Times] :
                u.left <= Size[u.order]}
Replies == [order: Orders, status: {"resting", "filled"}]

Nobody == [status |-> "unknown", filled |-> 0, last |-> 0]

(* filled can run past the size: see InOrderNeverOverfilled. *)
Tracked == [status: {"unknown"} \cup Live \cup Terminal, filled: Nat, last: Times]

Signed(o, qty) == IF o \in Sells THEN -qty ELSE qty

(* The trades and order books of both sides, for one instrument. *)
VenueLive == {o \in Orders : venue[o].status = "live"}
Moves == [i \in 1..Len(trades) |-> Signed(trades[i].order, trades[i].qty)]
VenuePosition == SumFunction(Moves)
OpenOrders == {o \in Orders : orders[o].status \in Live}

TrackerTypeOK ==
    /\ venue \in [Orders -> [status: {"new", "live"} \cup Terminal, filled: Nat, placed: Times]]
    /\ \A o \in Orders : venue[o].filled <= IF venue[o].status = "new" THEN 0 ELSE Size[o]
    /\ trades \in Seq(Fills)
    /\ now \in Times
    /\ replies \subseteq Replies
    /\ fills \in Seq(Fills)
    /\ updates \in Seq(Updates)
    /\ rows \subseteq Updates
    /\ orders \in [Orders -> Tracked]
    /\ position \in Int
    /\ seen \in Seq(TradeIds) /\ Len(seen) <= MaxSeenTrades
    /\ link \in {"up", "down"}
    /\ drops \in 0..MaxDrops
    /\ applied \subseteq 1..Len(trades)
    /\ overtaken \subseteq Orders

TrackerInit ==
    /\ venue = [o \in Orders |-> [status |-> "new", filled |-> 0, placed |-> 0]]
    /\ trades = <<>> /\ now = 0
    /\ replies = {} /\ fills = <<>> /\ updates = <<>> /\ rows = {}
    /\ orders = [o \in Orders |-> Nobody]
    /\ position = 0
    /\ seen = <<>>
    /\ link = "up" /\ drops = 0
    /\ applied = {} /\ overtaken = {}

-----------------------------------------------------------------------------
(* The venue.                                                              *)

Left(o) == Size[o] - venue[o].filled

(* What the venue says while nobody listens is not said again. *)
Said(channel, frame) == IF link = "up" THEN Append(channel, frame) ELSE channel

(* The state of o after the event of this step, as an order update. *)
Report(o, status, left) == [order |-> o, status |-> status, left |-> left, ts |-> now + 1]

(* An order comes to rest.  Ours is answered; another process's is not. *)
PlaceResting(o) ==
    /\ venue[o].status = "new"
    /\ now' = now + 1
    /\ venue' = [venue EXCEPT ![o] = [status |-> "live", filled |-> 0, placed |-> now + 1]]
    /\ replies' = IF o \in Foreign THEN replies
                  ELSE replies \cup {[order |-> o, status |-> "resting"]}
    /\ updates' = Said(updates, Report(o, "resting", Size[o]))
    /\ UNCHANGED <<trades, link, fills, drops, rows, trackerVars, overtaken>>

Execute(o, qty) ==
    LET trade == [trade |-> Len(trades) + 1, order |-> o, qty |-> qty, ts |-> now + 1]
        done  == qty = Left(o)
    IN  /\ now' = now + 1
        /\ trades' = Append(trades, trade)
        /\ fills' = Said(fills, trade)
        /\ venue' = [venue EXCEPT ![o] = [status |-> IF done THEN "filled" ELSE "live",
                                          filled |-> @.filled + qty,
                                          placed |-> IF @.status = "new" THEN now + 1 ELSE @.placed]]
        /\ updates' = Said(updates, Report(o, IF done THEN "filled" ELSE "resting", Left(o) - qty))
        /\ UNCHANGED <<link, drops, rows, trackerVars, overtaken>>

(* An order that executes whole on arrival. *)
PlaceFilled(o) ==
    /\ venue[o].status = "new"
    /\ o \notin Foreign
    /\ Execute(o, Size[o])
    /\ replies' = replies \cup {[order |-> o, status |-> "filled"]}

Trade(o, qty) ==
    /\ venue[o].status = "live"
    /\ qty <= Left(o)
    /\ Execute(o, qty)
    /\ UNCHANGED replies

Cancel(o) ==
    /\ venue[o].status = "live"
    /\ now' = now + 1
    /\ venue' = [venue EXCEPT ![o].status = "cancelled"]
    /\ updates' = Said(updates, Report(o, "cancelled", Left(o)))
    /\ UNCHANGED <<trades, replies, link, fills, drops, rows, trackerVars, overtaken>>

(* The socket drops, with what was under way on it.  What the core's bus holds
   already is still to come. *)
Drop ==
    /\ link = "up"
    /\ drops < MaxDrops
    /\ drops' = drops + 1
    /\ link' = "down"
    /\ \E f \in 0..Len(fills), u \in 0..Len(updates) :
          /\ fills' = SubSeq(fills, 1, f)
          /\ updates' = SubSeq(updates, 1, u)
    /\ UNCHANGED <<venueVars, replies, rows, trackerVars, overtaken>>

(* A new socket subscribes to what the old one had: the fills channel begins
   with the most recent fills, the order updates with the next. *)
Resubscribe ==
    /\ link = "down"
    /\ link' = "up"
    /\ LET oldest == IF Len(trades) > ReplayDepth THEN Len(trades) - ReplayDepth ELSE 0
       IN  fills' = fills \o SubSeq(trades, oldest + 1, Len(trades))
    /\ UNCHANGED <<venueVars, replies, updates, drops, rows, trackerVars, overtaken>>

-----------------------------------------------------------------------------
(* The tracker.                                                            *)

Acked(reply) == [status |-> reply.status, filled |-> 0, last |-> 0]

(* on_ack overwrites whatever is known of the order, with nothing filled. *)
OnAck(reply) ==
    /\ reply \in replies
    /\ replies' = replies \ {reply}
    /\ orders' = [orders EXCEPT ![reply.order] = Acked(reply)]
    /\ UNCHANGED <<venueVars, linkVars, rows, position, seen, applied, overtaken>>

(* Mutant: only the latest trade is compared. *)
SeenLast(trade) == seen # <<>> /\ seen[Len(seen)] = trade

Seen(trade) == \E i \in 1..Len(seen) : seen[i] = trade

(* The fills on the channel that have not been applied yet; the others on it are
   replays. *)
OnTheChannel == {fills[j].trade : j \in DOMAIN fills}
Unapplied == {i \in OnTheChannel : ~Seen(i)}

(* History: a frame of an order overtakes the reply to its placement, or a
   report of it the fill it tells of (late). *)
Overtakes(o, late) ==
    overtaken' = IF late \/ \E reply \in replies : reply.order = o
                 THEN overtaken \cup {o} ELSE overtaken

(* remember_trade: the oldest id makes room in a full window. *)
Remember(trade) ==
    seen' = Append(IF Len(seen) >= MaxSeenTrades THEN Tail(seen) ELSE seen, trade)

(* A fill moves the position whether or not its order is known, and then the
   order: its running sum of fills decides whether it is done. *)
Attribute(f) ==
    LET o == orders[f.order]
    IN  IF o.status = "unknown" THEN o
        ELSE [status |-> IF o.filled + f.qty >= Size[f.order] THEN "filled"
                         ELSE IF o.status \in Terminal THEN o.status ELSE "partial",
              filled |-> o.filled + f.qty,
              last   |-> IF f.ts > o.last THEN f.ts ELSE o.last]

ApplyFill ==
    /\ fills # <<>>
    /\ LET f == Head(fills)
       IN  /\ Overtakes(f.order, FALSE)
           /\ IF Seen(f.trade)
              THEN UNCHANGED trackerVars
              ELSE /\ Remember(f.trade)
                   /\ position' = position + Signed(f.order, f.qty)
                   /\ orders' = [orders EXCEPT ![f.order] = Attribute(f)]
                   /\ applied' = applied \cup {f.trade}
    /\ fills' = Tail(fills)
    /\ UNCHANGED <<venueVars, replies, link, updates, drops, rows>>

GreaterOf(own, venues) == IF venues > own THEN venues ELSE own

(* Mutant: an order nobody here placed is ignored. *)
IgnoreUnknown(u) == Nobody

(* adopt: it enters with what the venue says. *)
Adopt(u) == [status |-> u.status, filled |-> Size[u.order] - u.left, last |-> u.ts]

(* What apply_update makes of an order: unknown ones are adopted while they
   live, finished ones stay finished, and the venue's filled quantity joins
   our own sum by the greater of the two. *)
Updated(u) ==
    LET o      == orders[u.order]
        venues == Size[u.order] - u.left
        filled == GreaterOf(o.filled, venues)
        status == IF u.status \in Terminal \/ u.ts >= o.last THEN u.status ELSE o.status
    IN  CASE o.status = "unknown" ->
                IF u.status \in Terminal THEN o
                ELSE Adopt(u)
          [] o.status \in Terminal -> o
          [] OTHER ->
                [status |-> IF filled >= Size[u.order] /\ status \notin Terminal THEN "filled" ELSE status,
                 filled |-> filled,
                 last   |-> IF u.ts > o.last THEN u.ts ELSE o.last]

(* The executions a report tells of that have not been applied as fills.  A row
   is as new as its poll, whatever its timestamp says. *)
FillsMissing(u) ==
    \E i \in 1..Len(trades) \ applied : trades[i].order = u.order /\ (trades[i].ts <= u.ts \/ u \in rows)

ApplyUpdate ==
    /\ updates # <<>>
    /\ Overtakes(Head(updates).order, FillsMissing(Head(updates)))
    /\ orders' = [orders EXCEPT ![Head(updates).order] = Updated(Head(updates))]
    /\ updates' = Tail(updates)
    /\ UNCHANGED <<venueVars, replies, link, fills, drops, rows, position, seen, applied>>

ApplyRow(u) ==
    /\ u \in rows
    /\ Overtakes(u.order, FillsMissing(u))
    /\ orders' = [orders EXCEPT ![u.order] = Updated(u)]
    /\ rows' = rows \ {u}
    /\ UNCHANGED <<venueVars, replies, linkVars, position, seen, applied>>

VenueStep ==
    \/ /\ now < MaxEvents
       /\ \E o \in Orders :
            \/ PlaceResting(o)
            \/ PlaceFilled(o)
            \/ \E qty \in 1..Size[o] : Trade(o, qty)
            \/ Cancel(o)
    \/ Drop

TrackerStep ==
    \/ \E reply \in replies : OnAck(reply)
    \/ ApplyFill
    \/ ApplyUpdate
    \/ \E u \in rows : ApplyRow(u)

-----------------------------------------------------------------------------
(* What the tracker promises.                                              *)

(* Fills that no frame under way tells of: a socket took them with it, and the
   next one has not replayed them. *)
Unheard == (1..Len(trades)) \ (applied \cup OnTheChannel)

(* Every execution counts once, however often it is sent: the position, the
   fills still to be applied and those nobody heard of add up to the venue's
   position. *)
PositionIsTheVenues ==
    position + SumFunctionOnSet(Moves, Unapplied) + SumFunctionOnSet(Moves, Unheard) = VenuePosition

(* An order is not believed more filled than the venue has filled it, whatever
   a reconnect replays or a poll repeats.  One that is, is taken for finished
   while it rests, and leaves both the exposure the risk gate counts and the
   cancel sweep.  An order whose news was overtaken is excepted: a fill that
   arrives after the report that includes it is added to it. *)
InOrderNeverOverfilled ==
    \A o \in Orders \ overtaken : orders[o].filled <= venue[o].filled

(* A resting order of ours is exposure from the moment its reply is recorded
   until it leaves the venue (failure mode 4). *)
OwnOrdersAreCounted ==
    \A o \in VenueLive \ (Foreign \cup overtaken) :
        o \in OpenOrders \/ \E reply \in replies : reply.order = o

(* Once everything that was sent has been applied, and nothing was lost with a
   socket, the open orders are the venue's, another process's included
   (failure mode 2). *)
SettledIsTheVenues ==
    (replies = {} /\ fills = <<>> /\ updates = <<>> /\ rows = {} /\ drops = 0)
        => \A o \in Orders \ overtaken : o \in OpenOrders <=> o \in VenueLive

(* What holds whatever order the frames came in: each execution counts once in
   the position and at most once in its order, and an order of ours that rests
   is on the book. *)
TrackerInv ==
    /\ TrackerTypeOK
    /\ PositionIsTheVenues
    /\ InOrderNeverOverfilled
    /\ OwnOrdersAreCounted
=============================================================================
