----------------------------- MODULE Reconcile ------------------------------
(***************************************************************************)
(* What a socket that drops takes with it, and who finds out:              *)
(*   axon-runtime/src/reconcile.rs                the poll and its report  *)
(*   axon-provider-hyperliquid/src/ws/client.rs   the socket               *)
(* The poll reads the account in two requests, each of which may be        *)
(* refused by the request budget, fail, or take its time, and compares     *)
(* them with what the tracker holds by then.  Its rows go to the core over *)
(* a bus that may be full.                                                 *)
(***************************************************************************)
EXTENDS OrderTracker

VARIABLES
    poll,       \* "sleep", "account" or "compare"
    open,       \* the order rows of the poll under way
    account,    \* the position it read, or Unread
    report      \* what the last poll found, until the next begins

pollVars == <<poll, open, account, report>>
vars == <<accountVars, pollVars>>

Unread == 0     \* what a refused reading is taken for: no position
Nothing == [missing |-> {}, drift |-> FALSE]

Init ==
    /\ TrackerInit
    /\ poll = "sleep" /\ open = {} /\ account = Unread
    /\ report = Nothing

-----------------------------------------------------------------------------

(* frontendOpenOrders: the orders at rest.  A row carries the placement's
   timestamp.  A request that is refused or fails ends the poll before it has
   begun. *)
AskOrders ==
    /\ poll = "sleep"
    /\ open' = {[order |-> o, status |-> "resting", left |-> Left(o), ts |-> venue[o].placed] :
                    o \in VenueLive}
    /\ poll' = "account"
    /\ report' = Nothing
    /\ UNCHANGED <<accountVars, account>>

(* clearinghouseState. *)
ReadAccount ==
    /\ poll = "account"
    /\ account' = VenuePosition
    /\ poll' = "compare"
    /\ UNCHANGED <<accountVars, open, report>>

(* The budget has no room for it, and the poll goes on without. *)
AccountRefused ==
    /\ poll = "account"
    /\ account' = Unread
    /\ poll' = "compare"
    /\ UNCHANGED <<accountVars, open, report>>

(* It fails, and so does the poll. *)
AccountFails ==
    /\ poll = "account"
    /\ poll' = "sleep" /\ open' = {}
    /\ UNCHANGED <<accountVars, account, report>>

(* diff: the open orders that the venue does not list, but for those told of
   within the grace (young); and whether the position is not the venue's. *)
Missing(young) == {o \in OpenOrders \ young : \A row \in open : row.order # o}
Difference(young) == [missing |-> Missing(young), drift |-> position # account]

(* publish, by try_send: rows that meet a full bus are dropped. *)
Publish(young, sent) ==
    /\ poll = "compare"
    /\ report' = Difference(young)
    /\ rows' = rows \cup sent
    /\ poll' = "sleep" /\ open' = {} /\ account' = Unread
    /\ UNCHANGED <<venueVars, replies, linkVars, trackerVars, overtaken>>

(* Mutant: only what the tracker knows is sent to it. *)
PublishKnown == Publish({}, {row \in open : orders[row.order].status # "unknown"})

PublishAll == Publish({}, open)

PollStep ==
    \/ AskOrders \/ ReadAccount \/ AccountRefused \/ AccountFails
    \/ PublishAll
    \/ \E young \in SUBSET OpenOrders, sent \in SUBSET open : Publish(young, sent)

Next ==
    \/ (VenueStep \/ Resubscribe \/ TrackerStep) /\ UNCHANGED pollVars
    \/ PollStep

Spec == Init /\ [][Next]_vars

(* The core drains its bus, each channel and each order's rows, and the edge
   records its replies; the socket is opened again, whatever became of the last
   one. *)
Drains ==
    /\ WF_fills(fills # <<>> /\ fills' = Tail(fills))
    /\ WF_updates(updates # <<>> /\ updates' = Tail(updates))
    /\ WF_replies(\E reply \in replies : replies' = replies \ {reply})
    /\ \A o \in Orders : WF_rows(\E u \in rows : u.order = o /\ rows' = rows \ {u})
    /\ WF_link(link = "down" /\ link' = "up")

(* The poll comes round for ever; its readings are not refused, the bus is not
   full and an order is not young for ever (session.rs gives the poll a period
   longer than the grace, the governor a window, the core its bus). *)
FairSpec ==
    /\ Spec
    /\ Drains
    /\ WF_vars(AskOrders) /\ SF_vars(ReadAccount) /\ SF_vars(PublishAll)

-----------------------------------------------------------------------------

TypeOK ==
    /\ TrackerTypeOK
    /\ poll \in {"sleep", "account", "compare"}
    /\ open \subseteq Updates /\ account \in Int
    /\ report \in [missing : SUBSET Orders, drift : BOOLEAN]

(* What the tracker promises, with a socket that drops and a poll that comes
   round for ever. *)
AccountInv == TypeOK /\ TrackerInv

(* The venue's orders at rest are on the book, whoever placed them; what is on
   the book and not at the venue is reported as missing, a position that is not
   the venue's as drift. *)
Accounted ==
    /\ VenueLive \subseteq OpenOrders \cup overtaken
    /\ OpenOrders \ VenueLive \subseteq report.missing
    /\ position # VenuePosition => report.drift

(* What a socket takes with it is made good or told of, sooner or later, however
   often a reading is refused or a row dropped (ws/client.rs: "Resting-order
   state missed during the gap still has to come from POST /info").  The events
   at the venue are bounded, so this is said of a venue that has gone quiet. *)
LossesAreMadeGoodOrReported == []<>Accounted
=============================================================================
