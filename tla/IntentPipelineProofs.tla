------------------------ MODULE IntentPipelineProofs ------------------------
(***************************************************************************)
(* Proofs about IntentPipeline, for every number of symbols, producers,    *)
(* queued intents, orders and passes: the gate and what is claimed from    *)
(* it, the targets, what rests at the venue, and that the pipeline         *)
(* implements IntentSlots.                                                 *)
(***************************************************************************)
EXTENDS IntentPipeline, SequenceTheorems, TLAPS

(* A sequence of at most one element is empty or that element. *)
LEMMA AtMostOne ==
    ASSUME NEW S, NEW seq \in Seq(S), Len(seq) <= 1
    PROVE  /\ seq # <<>> => Len(seq) = 1 /\ Head(seq) \in S /\ Head(seq) = seq[1]
           /\ seq = <<>> => Len(seq) = 0
  BY EmptySeq, HeadTailProperties

-----------------------------------------------------------------------------
(* Types, with the shape of the hand-off and of the edge, without which an
   action of the edge could not be typed. *)

TypeInv == TypeOK /\ OneInHand

(* The initial state is typed. *)
LEMMA TypeInvInit == Init => TypeInv
  <1> SUFFICES ASSUME Init PROVE TypeInv
    OBVIOUS
  <1>1. 1..MaxOrders \subseteq Nat /\ MaxDrains \in Nat /\ RequoteLimit \in Nat /\ MaxOrders \in Nat
    BY PipelineAssumption
  <1>2. claims \in [Strategies \X Symbols -> 0..MaxDrains]
    BY <1>1 DEF Init
  <1>3. requotes \in [Symbols -> 0..RequoteLimit]
    BY <1>1 DEF Init
  <1>4. <<>> \in Seq(Intents) /\ <<>> \in Seq(Frames) /\ Len(<<>>) = 0
    BY EmptySeq
  <1>5. GateTypeOK /\ OneInHand
    BY <1>4 DEF Init, GateInit, GateTypeOK, OneInHand
  <1>6. /\ pass \subseteq Records /\ carried \subseteq Records /\ doomed \subseteq Orders
        /\ toCancel \subseteq Orders /\ live \subseteq Orders
        /\ working \subseteq Orders /\ closed \subseteq Orders
    BY DEF Init
  <1>7. drains \in 0..MaxDrains /\ minted \in 0..MaxOrders
    BY <1>1 DEF Init
  <1> QED
    BY <1>2, <1>3, <1>4, <1>5, <1>6, <1>7 DEF Init, TypeInv, TypeOK

(* What a new intent and a claim for it do to the types. *)
LEMMA OfferTypes ==
    ASSUME GateTypeOK, NEW intent \in Intents, Offer(intent)
    PROVE  GateTypeOK' /\ outgoing' \in Seq(Intents) /\ Len(outgoing') <= 1
  BY DEF GateTypeOK, Offer, Claim

(* A release keeps the gate's types. *)
LEMMA ReleaseTypes ==
    ASSUME GateTypeOK, NEW s, Release(s)
    PROVE  GateTypeOK'
  BY DEF GateTypeOK, Release

(* The working orders of a symbol, and the next order to be minted, are orders. *)
LEMMA OpenOrders ==
    ASSUME TypeOK, NEW s \in Symbols
    PROVE  /\ OrdersOf(working, s) \in SUBSET Orders
           /\ OrdersOf(doomed, s) \in SUBSET Orders
           /\ minted < MaxOrders => NewOrder(s) \in Orders /\ minted + 1 \in 0..MaxOrders
  BY PipelineAssumption DEF TypeOK, OrdersOf, NewOrder, Orders

(* The types of an intent's fields. *)
LEMMA IntentFields ==
    ASSUME NEW i \in Intents
    PROVE  i.symbol \in Symbols /\ i.place \in SUBSET Orders /\ i.cancels \in SUBSET Orders
  BY DEF Intents

(* The intents in the hand-off, at the head of the queue and at the edge. *)
LEMMA HeadsInHand ==
    ASSUME TypeInv
    PROVE  /\ outgoing # <<>> => Head(outgoing) \in Intents
           /\ queue # <<>> => Head(queue) \in Intents /\ Tail(queue) \in Seq(Intents)
           /\ epc \notin {"poll", "exited"} => cur # <<>> /\ Head(cur) \in Intents
  <1>1. outgoing \in Seq(Intents) /\ queue \in Seq(Intents) /\ cur \in Seq(Intents)
    BY DEF TypeInv, TypeOK
  <1>2. epc \notin {"poll", "exited"} => cur # <<>>
    BY DEF TypeInv, OneInHand
  <1> QED
    BY <1>1, <1>2, HeadTailProperties

(* A frame put on the bus is typed. *)
LEMMA FrameTypes ==
    ASSUME TypeOK, NEW k \in {"open", "done"}, NEW o \in Orders
    PROVE  Append(frames, [kind |-> k, order |-> o]) \in Seq(Frames)
  <1>1. [kind |-> k, order |-> o] \in Frames /\ frames \in Seq(Frames)
    BY DEF TypeOK, Frames
  <1> QED
    BY <1>1, AppendProperties

(* An action keeps the types. *)
LEMMA TypeInvNext == TypeInv /\ [Next]_vars => TypeInv'
  <1> SUFFICES ASSUME TypeInv, [Next]_vars PROVE TypeInv'
    OBVIOUS
  <1>0. /\ GateTypeOK
        /\ MaxDrains \in Nat /\ RequoteLimit \in Nat /\ MaxOrders \in Nat
    BY PipelineAssumption DEF TypeInv, TypeOK
  <1> USE DEF TypeInv, TypeOK, OneInHand
  <1>1. ASSUME NEW spoken \in SUBSET (Strategies \X Symbols),
               NEW fresh \in SUBSET carried, NEW due \in BOOLEAN,
               BeginPass(spoken, fresh, due)
        PROVE  TypeInv'
    <2>1. drains' \in 0..MaxDrains /\ (spoken # {} => drains + 1 \in 1..MaxDrains)
      BY <1>1, PipelineAssumption DEF BeginPass
    <2>2. {[strategy |-> c[1], symbol |-> c[2], seq |-> drains + 1] : c \in spoken}
            \subseteq Records
      BY <2>1 DEF Records
    <2>3. pass' \subseteq Records
      BY <1>1, <2>2 DEF BeginPass
    <2>4. pc' \in {"idle", "admit"} /\ sweepDue' \in BOOLEAN /\ carried' = {} /\ touched' = {}
      BY <1>1 DEF BeginPass
    <2> QED
      BY <1>1, <2>1, <2>3, <2>4
      DEF BeginPass, GateTypeOK, gateVars, bookVars, edgeVars, venueVars, trackerVars,
          controlVars
  <1>2. ASSUME NEW r \in pass, AdmitRecord(r)
        PROVE  TypeInv'
    <2>1. r \in Records /\ r.strategy \in Strategies /\ r.symbol \in Symbols
            /\ r.seq \in 0..MaxDrains
      BY PipelineAssumption DEF Records
    <2>2. /\ claims' \in [Strategies \X Symbols -> 0..MaxDrains]
          /\ requotes' \in [Symbols -> 0..RequoteLimit]
      <3>1. /\ [claims EXCEPT ![<<r.strategy, r.symbol>>] = r.seq]
                 \in [Strategies \X Symbols -> 0..MaxDrains]
            /\ [requotes EXCEPT ![r.symbol] = 0] \in [Symbols -> 0..RequoteLimit]
        BY <1>0, <2>1
      <3> QED
        BY <1>2, <3>1 DEF AdmitRecord, HoldRecord
    <2>3. /\ pass' \subseteq Records /\ carried' \subseteq Records
          /\ touched' \subseteq Symbols
      BY <1>2, <2>1 DEF AdmitRecord, HoldRecord
    <2> QED
      BY <1>2, <2>2, <2>3
      DEF AdmitRecord, HoldRecord, GateTypeOK, gateVars, edgeVars, venueVars, trackerVars, controlVars
  <1>3. ASSUME BeginPlanning
        PROVE  TypeInv'
    BY <1>3
    DEF BeginPlanning, GateTypeOK, gateVars, coreVars, bookVars, edgeVars, venueVars, trackerVars, controlVars
  <1>4. ASSUME NEW s \in Symbols, PlanSymbol(s)
        PROVE  TypeInv'
    <2>1. GateTypeOK' /\ outgoing' \in Seq(Intents) /\ Len(outgoing') <= 1
      <3>1. CASE UNCHANGED <<gateVars, outgoing, minted>>
        BY <3>1 DEF gateVars, GateTypeOK
      <3>2. ASSUME NEW i \in Intents, Offer(i)
            PROVE  GateTypeOK' /\ outgoing' \in Seq(Intents) /\ Len(outgoing') <= 1
        BY <1>0, <3>2, OfferTypes
      <3>3. [symbol |-> s, kind |-> "plan", cancels |-> OrdersOf(working, s),
             place |-> {}] \in Intents
        BY OpenOrders DEF Intents, Kinds
      <3>4. minted < MaxOrders =>
              [symbol |-> s, kind |-> "plan", cancels |-> OrdersOf(working, s),
               place |-> {NewOrder(s)}] \in Intents
        BY OpenOrders DEF Intents, Kinds
      <3> QED
        BY <1>4, <3>1, <3>2, <3>3, <3>4 DEF PlanSymbol
    <2>2. minted' \in 0..MaxOrders
      BY <1>4, PipelineAssumption DEF PlanSymbol
    <2> QED
      BY <1>4, <2>1, <2>2
      DEF PlanSymbol, edgeVars, venueVars, trackerVars, controlVars
  <1>5. ASSUME NEW s \in Symbols, SweepSymbol(s)
        PROVE  TypeInv'
    <2>1. [symbol |-> s, kind |-> "sweep", cancels |-> OrdersOf(doomed, s),
           place |-> {}] \in Intents
      BY OpenOrders DEF Intents, Kinds
    <2>2. GateTypeOK' /\ outgoing' \in Seq(Intents) /\ Len(outgoing') <= 1
      BY <1>0, <1>5, <2>1, OfferTypes DEF SweepSymbol
    <2> QED
      BY <1>5, <2>2
      DEF SweepSymbol, bookVars, edgeVars, venueVars, trackerVars, controlVars
  <1>6. ASSUME NEW s \in Symbols, RequoteSymbol(s)
        PROVE  TypeInv'
    <2>1. minted < MaxOrders =>
            [symbol |-> s, kind |-> "requote", cancels |-> {},
             place |-> {NewOrder(s)}] \in Intents
      BY OpenOrders DEF Intents, Kinds
    <2>2. GateTypeOK' /\ outgoing' \in Seq(Intents) /\ Len(outgoing') <= 1
      BY <1>0, <1>6, <2>1, OfferTypes DEF RequoteSymbol, HasBudget, gateVars, GateTypeOK
    <2>3. minted' \in 0..MaxOrders /\ requotes' \in [Symbols -> 0..RequoteLimit]
      BY <1>0, <1>6 DEF RequoteSymbol, HasBudget
    <2> QED
      BY <1>6, <2>2, <2>3
      DEF RequoteSymbol, HasBudget, edgeVars, venueVars, trackerVars, controlVars
  <1>7. ASSUME TrySend
        PROVE  TypeInv'
    <2>1. Head(outgoing) \in Intents
      BY <1>7, HeadsInHand DEF TrySend, DropIntent
    <2>2. queue' \in Seq(Intents) /\ outgoing' \in Seq(Intents) /\ Len(outgoing') = 0
      <3>1. Append(queue, Head(outgoing)) \in Seq(Intents) /\ <<>> \in Seq(Intents)
              /\ Len(<<>>) = 0
        BY <2>1, AppendProperties, EmptySeq
      <3>2. queue' \in {queue, Append(queue, Head(outgoing))} /\ outgoing' = <<>>
        BY <1>7 DEF TrySend, DropIntent
      <3> QED
        BY <3>1, <3>2
    <2>3. GateTypeOK'
      BY <1>7, ReleaseTypes DEF TrySend, DropIntent, GateTypeOK, gateVars
    <2>4. requotes' \in [Symbols -> 0..RequoteLimit]
      <3>1. Head(outgoing).symbol \in Symbols
        BY <2>1, IntentFields
      <3>2. requotes[Head(outgoing).symbol] > 0 =>
              [requotes EXCEPT ![Head(outgoing).symbol] = @ - 1]
                \in [Symbols -> 0..RequoteLimit]
        BY <1>0, <3>1
      <3> QED
        BY <1>7, <3>2 DEF TrySend, DropIntent
    <2> QED
      BY <1>7, <2>2, <2>3, <2>4
      DEF TrySend, DropIntent, edgeVars, venueVars, trackerVars, controlVars
  <1>8. ASSUME NEW old \in SUBSET working, EndPlanning(old)
        PROVE  TypeInv'
    BY <1>8
    DEF EndPlanning, GateTypeOK, gateVars, coreVars, bookVars, edgeVars, venueVars, trackerVars, controlVars
  <1>9. CASE EndSweep
    BY <1>9
    DEF EndSweep, GateTypeOK, gateVars, coreVars, bookVars, edgeVars, venueVars, trackerVars, controlVars
  <1>10. CASE EndPass
    BY <1>10
    DEF EndPass, GateTypeOK, gateVars, coreVars, bookVars, edgeVars, venueVars, trackerVars, controlVars
  <1>11. CASE ApplyFrame
    <2>1. Head(frames) \in Frames /\ Tail(frames) \in Seq(Frames)
      BY <1>11, HeadTailProperties DEF ApplyFrame, Adopted
    <2>2. Head(frames).order \in Orders
      BY <2>1 DEF Frames
    <2>3. working' \in SUBSET Orders /\ closed' \in SUBSET Orders
      BY <1>11, <2>2 DEF ApplyFrame, Adopted
    <2> QED
      BY <1>11, <2>1, <2>3
      DEF ApplyFrame, Adopted, GateTypeOK, gateVars, coreVars, bookVars, edgeVars, venueVars, trackerVars, controlVars
  <1>12. CASE Receive
    <2>1. /\ Head(queue).cancels \in SUBSET Orders
          /\ Tail(queue) \in Seq(Intents)
          /\ Head(queue) \in Intents
      BY <1>12, HeadsInHand, IntentFields DEF Receive
    <2>2. cur' \in Seq(Intents) /\ Len(cur') = 1 /\ cur' # <<>>
      BY <1>12, <2>1 DEF Receive
    <2> QED
      BY <1>12, <2>1, <2>2
      DEF Receive, GateTypeOK, gateVars, coreVars, bookVars, edgeVars, venueVars, trackerVars, controlVars
  <1>13. ASSUME NEW o \in toCancel, CancelOne(o)
        PROVE  TypeInv'
    <2>1. /\ toCancel' \subseteq Orders /\ live' \subseteq Orders /\ survived' \subseteq Orders
          /\ frames' \in Seq(Frames)
      BY <1>13, FrameTypes DEF CancelOne, LeavesVenue, venueVars
    <2> QED
      BY <1>13, <2>1
      DEF CancelOne, GateTypeOK, gateVars, coreVars, bookVars, trackerVars, controlVars
  <1>14. CASE CancelsDone
    BY <1>14
    DEF CancelsDone, GateTypeOK, gateVars, coreVars, bookVars, edgeVars, venueVars, trackerVars, controlVars
  <1>15. ASSUME NEW outcome \in {"resting", "filled", "lost", "refused"}, Place(outcome)
        PROVE  TypeInv'
    <2>1. Head(cur).place \in SUBSET Orders /\ cur # <<>>
      BY <1>15, HeadsInHand, IntentFields DEF Place, AfterReply
    <2>2. live' \in SUBSET Orders /\ frames' \in Seq(Frames)
      BY <1>15, <2>1, FrameTypes DEF Place, AfterReply, venueVars
    <2>3. epc' \in {"ack", "ackFilled", "release"}
      BY <1>15 DEF Place, AfterReply
    <2> QED
      BY <1>15, <2>1, <2>2, <2>3
      DEF Place, AfterReply, GateTypeOK, gateVars, coreVars, bookVars, edgeVars, venueVars, trackerVars, controlVars
  <1>16. CASE Ack
    <2>1. Head(cur).place \in SUBSET Orders
      BY <1>16, HeadsInHand, IntentFields DEF Ack
    <2> QED
      BY <1>16, <2>1
      DEF Ack, GateTypeOK, gateVars, coreVars, bookVars, edgeVars, venueVars, trackerVars, controlVars
  <1>17. CASE Finish
    <2>1. GateTypeOK' /\ <<>> \in Seq(Intents)
      BY <1>17, ReleaseTypes, EmptySeq DEF Finish
    <2> QED
      BY <1>17, <2>1
      DEF Finish, coreVars, bookVars, venueVars, trackerVars, controlVars
  <1>18. CASE PumpExit
    BY <1>18
    DEF PumpExit, GateTypeOK, gateVars, coreVars, bookVars, edgeVars, venueVars, trackerVars, controlVars
  <1>19. ASSUME NEW o \in live, VenueClose(o)
        PROVE  TypeInv'
    BY <1>19, AppendProperties
    DEF VenueClose, LeavesVenue, Frames, GateTypeOK, gateVars, coreVars, bookVars, edgeVars, venueVars, trackerVars, controlVars
  <1>20. CASE HaltSession \/ ResumeSession \/ RequestStop \/ StopSession
    <2>1. halt' \in {"running", "halted", "stopped"} /\ stopping' \in BOOLEAN
      BY <1>20 DEF HaltSession, ResumeSession, RequestStop, StopSession
    <2>2. UNCHANGED <<gateVars, coreVars, bookVars, queue, edgeVars, venueVars, trackerVars>>
      BY <1>20 DEF HaltSession, ResumeSession, RequestStop, StopSession
    <2> QED
      BY <2>1, <2>2
      DEF GateTypeOK, gateVars, coreVars, bookVars, edgeVars, venueVars, trackerVars
  <1>21. CASE UNCHANGED vars
    BY <1>21
    DEF vars, GateTypeOK, gateVars, coreVars, bookVars, edgeVars, venueVars, trackerVars, controlVars
  <1> QED
    BY <1>1, <1>2, <1>3, <1>4, <1>5, <1>6, <1>7, <1>8, <1>9, <1>10, <1>11, <1>12, <1>13, <1>14, <1>15, <1>16, <1>17, <1>18, <1>19, <1>20, <1>21 DEF Next, CoreStep, EdgeStep

(* Every state variable has its type, whatever the sizes. *)
THEOREM TypeCorrect == Spec => []TypeOK
  <1>1. TypeInv => TypeOK
    BY DEF TypeInv
  <1> QED
    BY TypeInvInit, TypeInvNext, <1>1, PTL DEF Spec

-----------------------------------------------------------------------------
(* The gate.  A claim is made only for a symbol that is free, and a release
   only by whoever holds the one intent of its symbol. *)

SlotsInv == SlotsDistinct /\ SlotsClaimed

(* A claim for a free symbol. *)
LEMMA OfferKeepsSlots ==
    ASSUME TypeInv, SlotsInv, outgoing = <<>>,
           NEW intent \in Intents,
           intent.symbol \in Covered => intent.symbol \notin bits,
           Offer(intent), UNCHANGED <<queue, cur>>
    PROVE  SlotsInv'
  <1>1. outgoing' = <<intent>> /\ bits' = bits \cup ({intent.symbol} \cap Covered)
    BY DEF Offer, Claim
  <1>2. ClaimedIn(queue)' /\ ClaimedIn(cur)' /\ ClaimedIn(outgoing)'
    BY <1>1 DEF SlotsInv, SlotsClaimed, ClaimedIn
  <1>3. /\ \A j \in 1..Len(queue) : ~SameSlot(intent, queue[j])
        /\ \A j \in 1..Len(cur) : ~SameSlot(intent, cur[j])
    BY DEF SlotsInv, SlotsClaimed, ClaimedIn, SameSlot
  <1>4. SlotsDistinct'
    BY <1>1, <1>3 DEF SlotsInv, SlotsDistinct, SameSlot
  <1> QED
    BY <1>2, <1>4 DEF SlotsInv, SlotsClaimed

(* The intent in the hand-off joins the queue. *)
LEMMA EnqueueKeepsSlots ==
    ASSUME TypeInv, SlotsInv, outgoing # <<>>,
           queue' = Append(queue, Head(outgoing)), outgoing' = <<>>,
           UNCHANGED <<bits, cur>>
    PROVE  SlotsInv'
  <1> DEFINE x == Head(outgoing)
  <1>1. x \in Intents /\ Len(outgoing) = 1 /\ x = outgoing[1] /\ queue \in Seq(Intents)
          /\ cur \in Seq(Intents)
    BY AtMostOne DEF TypeInv, TypeOK, OneInHand
  <1>2. /\ Len(queue') = Len(queue) + 1 /\ Len(queue) \in Nat /\ Len(cur) \in Nat
        /\ \A i \in 1..Len(queue) : queue'[i] = queue[i]
        /\ queue'[Len(queue) + 1] = x
    BY <1>1, AppendProperties, EmptySeq
  <1>3. \A i \in 1..Len(queue') : i \in 1..Len(queue) \/ i = Len(queue) + 1
    BY <1>2
  <1>4. Len(outgoing') = 0
    BY EmptySeq
  <1>5. SlotsClaimed'
    BY <1>1, <1>2, <1>3, <1>4 DEF SlotsInv, SlotsClaimed, ClaimedIn
  <1>6. SlotsDistinct'
    <2>1. \A j \in 1..Len(queue) : ~SameSlot(x, queue[j]) /\ ~SameSlot(queue[j], x)
      BY <1>1 DEF SlotsInv, SlotsDistinct, SameSlot
    <2>2. \A j \in 1..Len(cur) : ~SameSlot(x, cur[j])
      BY <1>1 DEF SlotsInv, SlotsDistinct
    <2>3. \A i, j \in 1..Len(queue') : SameSlot(queue'[i], queue'[j]) => i = j
      BY <1>2, <1>3, <2>1 DEF SlotsInv, SlotsDistinct
    <2>4. \A i \in 1..Len(queue'), j \in 1..Len(cur) : ~SameSlot(queue'[i], cur[j])
      BY <1>2, <1>3, <2>2 DEF SlotsInv, SlotsDistinct
    <2> QED
      BY <1>4, <2>3, <2>4 DEF SlotsDistinct, SameSlot
  <1> QED
    BY <1>5, <1>6 DEF SlotsInv

(* The head of the queue moves to the idle edge. *)
LEMMA DequeueKeepsSlots ==
    ASSUME TypeInv, SlotsInv, queue # <<>>, cur = <<>>,
           queue' = Tail(queue), cur' = <<Head(queue)>>, UNCHANGED <<bits, outgoing>>
    PROVE  SlotsInv'
  <1> DEFINE x == Head(queue)
  <1>1. queue \in Seq(Intents) /\ outgoing \in Seq(Intents) /\ Len(queue) \in Nat \ {0}
    BY EmptySeq DEF TypeInv, TypeOK
  <1>2. /\ Len(queue') = Len(queue) - 1 /\ x = queue[1]
        /\ \A i \in 1..Len(queue') : queue'[i] = queue[i + 1] /\ i + 1 \in 1..Len(queue)
    BY <1>1, HeadTailProperties
  <1>3. Len(cur') = 1 /\ cur'[1] = x
    OBVIOUS
  <1>4. SlotsClaimed'
    BY <1>1, <1>2, <1>3 DEF SlotsInv, SlotsClaimed, ClaimedIn
  <1>5. SlotsDistinct'
    BY <1>1, <1>2, <1>3 DEF SlotsInv, SlotsDistinct, SameSlot
  <1> QED
    BY <1>4, <1>5 DEF SlotsInv

(* The hand-off or the edge gives up its intent and releases its symbol. *)
LEMMA ReleaseKeepsSlots ==
    ASSUME TypeInv, SlotsInv, UNCHANGED queue,
           \/ outgoing # <<>> /\ outgoing' = <<>> /\ UNCHANGED cur /\ Release(Head(outgoing).symbol)
           \/ cur # <<>> /\ cur' = <<>> /\ UNCHANGED outgoing /\ Release(Head(cur).symbol)
    PROVE  SlotsInv'
  <1>1. /\ outgoing \in Seq(Intents) /\ cur \in Seq(Intents) /\ queue \in Seq(Intents)
        /\ Len(<<>>) = 0
        /\ outgoing # <<>> => Len(outgoing) = 1 /\ Head(outgoing) = outgoing[1]
        /\ cur # <<>> => Len(cur) = 1 /\ Head(cur) = cur[1]
    BY AtMostOne, EmptySeq DEF TypeInv, TypeOK, OneInHand
  <1>2. SlotsDistinct'
    BY <1>1 DEF SlotsInv, SlotsDistinct, SameSlot
  <1>3. SlotsClaimed'
    BY <1>1 DEF SlotsInv, SlotsClaimed, ClaimedIn, SlotsDistinct, SameSlot, Release
  <1> QED
    BY <1>2, <1>3 DEF SlotsInv

(* Nothing is in flight in the initial state. *)
LEMMA GateInvInit == Init => SlotsInv /\ StagesSeeTheTruth
  <1>1. Init => \A seq \in {outgoing, queue, cur} : Len(seq) = 0
    BY EmptySeq DEF Init
  <1> QED
    BY <1>1
    DEF Init, GateInit, SlotsInv, SlotsDistinct, SlotsClaimed, ClaimedIn, StagesSeeTheTruth

(* An action keeps every covered symbol to one claimed slot: a new intent is
   only offered for a symbol whose bit is clear, and a bit is cleared together
   with the intent that set it. *)
LEMMA SlotsInvNext == TypeInv /\ SlotsInv /\ StagesSeeTheTruth /\ [Next]_vars => SlotsInv'
  <1> SUFFICES ASSUME TypeInv, SlotsInv, StagesSeeTheTruth, [Next]_vars
               PROVE  SlotsInv'
    OBVIOUS
  <1>1. ASSUME UNCHANGED <<bits, outgoing, queue, cur>>
        PROVE  SlotsInv'
    BY <1>1 DEF SlotsInv, SlotsDistinct, SlotsClaimed, ClaimedIn, SameSlot
  <1>2. ASSUME NEW s \in Symbols, PlanSymbol(s)
        PROVE  SlotsInv'
    <2>1. outgoing = <<>> /\ s \notin bits /\ UNCHANGED <<queue, cur>>
      BY <1>2 DEF PlanSymbol, StagesSeeTheTruth, edgeVars
    <2>2. CASE UNCHANGED <<gateVars, outgoing, minted>>
      BY <1>1, <2>1, <2>2 DEF gateVars
    <2>3. ASSUME NEW i \in Intents, i.symbol = s, Offer(i)
          PROVE  SlotsInv'
      BY <2>1, <2>3, OfferKeepsSlots
    <2>4. [symbol |-> s, kind |-> "plan", cancels |-> OrdersOf(working, s),
           place |-> {}] \in Intents
      BY OpenOrders DEF Intents, Kinds, TypeInv
    <2>5. minted < MaxOrders =>
            [symbol |-> s, kind |-> "plan", cancels |-> OrdersOf(working, s),
             place |-> {NewOrder(s)}] \in Intents
      BY OpenOrders DEF Intents, Kinds, TypeInv
    <2> QED
      BY <1>2, <2>2, <2>3, <2>4, <2>5 DEF PlanSymbol
  <1>3. ASSUME NEW s \in Symbols, SweepSymbol(s)
        PROVE  SlotsInv'
    <2> DEFINE i == [symbol |-> s, kind |-> "sweep", cancels |-> OrdersOf(doomed, s),
                     place |-> {}]
    <2>1. outgoing = <<>> /\ s \notin bits /\ UNCHANGED <<queue, cur>>
      BY <1>3 DEF SweepSymbol, StagesSeeTheTruth, edgeVars, OrdersOf
    <2>2. i \in Intents /\ i.symbol = s
      BY OpenOrders DEF Intents, Kinds, TypeInv
    <2>3. Offer(i)
      BY <1>3 DEF SweepSymbol
    <2> QED
      BY <2>1, <2>2, <2>3, OfferKeepsSlots
  <1>4. ASSUME NEW s \in Symbols, RequoteSymbol(s)
        PROVE  SlotsInv'
    <2> DEFINE i == [symbol |-> s, kind |-> "requote", cancels |-> {},
                     place |-> {NewOrder(s)}]
    <2>1. outgoing = <<>> /\ UNCHANGED <<queue, cur>>
      BY <1>4 DEF RequoteSymbol, HasBudget, edgeVars
    <2>2. CASE UNCHANGED <<gateVars, outgoing, requotes, minted>>
      BY <1>1, <2>1, <2>2 DEF gateVars
    <2>3. CASE minted < MaxOrders /\ ~Contains(s) /\ Offer(i)
      <3>1. i \in Intents /\ i.symbol = s
        BY <2>3, OpenOrders DEF Intents, Kinds, TypeInv
      <3>2. s \in Covered => s \notin bits
        BY <2>3 DEF Contains
      <3> QED
        BY <2>1, <2>3, <3>1, <3>2, OfferKeepsSlots
    <2> QED
      BY <1>4, <2>2, <2>3 DEF RequoteSymbol, HasBudget
  <1>5. CASE TrySend
    <2>1. CASE queue' = Append(queue, Head(outgoing)) /\ UNCHANGED gateVars
      BY <1>5, <2>1, EnqueueKeepsSlots DEF TrySend, DropIntent, edgeVars, gateVars
    <2>2. CASE Release(Head(outgoing).symbol) /\ UNCHANGED queue
      BY <1>5, <2>2, ReleaseKeepsSlots DEF TrySend, DropIntent, edgeVars
    <2> QED
      BY <1>5, <2>1, <2>2 DEF TrySend, DropIntent
  <1>6. CASE Receive
    <2>1. cur = <<>>
      BY <1>6 DEF Receive, TypeInv, OneInHand
    <2> QED
      BY <1>6, <2>1, DequeueKeepsSlots DEF Receive, gateVars, coreVars
  <1>7. CASE Finish
    <2>1. cur # <<>> /\ cur' = <<>> /\ UNCHANGED <<queue, outgoing>>
            /\ Release(Head(cur).symbol)
      BY <1>7, HeadsInHand DEF Finish, coreVars
    <2> QED
      BY <2>1, ReleaseKeepsSlots
  <1>8. CASE \/ \E spoken \in SUBSET (Strategies \X Symbols), fresh \in SUBSET carried,
                  due \in BOOLEAN : BeginPass(spoken, fresh, due)
             \/ \E r \in pass : AdmitRecord(r)
             \/ BeginPlanning
             \/ \E old \in SUBSET working : EndPlanning(old)
             \/ EndSweep \/ EndPass \/ ApplyFrame
    BY <1>1, <1>8
    DEF BeginPass, AdmitRecord, HoldRecord, BeginPlanning, EndPlanning, EndSweep, EndPass, ApplyFrame, Adopted,
        gateVars, coreVars, edgeVars
  <1>9. CASE \/ \E o \in toCancel : CancelOne(o)
             \/ CancelsDone
             \/ \E outcome \in {"resting", "filled", "lost", "refused"} : Place(outcome)
             \/ Ack \/ PumpExit
    BY <1>1, <1>9 DEF CancelOne, CancelsDone, Place, AfterReply, Ack, PumpExit, gateVars, coreVars
  <1>10. CASE \/ \E o \in live : VenueClose(o)
              \/ HaltSession \/ ResumeSession \/ RequestStop \/ StopSession
              \/ UNCHANGED vars
    BY <1>1, <1>10
    DEF VenueClose, HaltSession, ResumeSession, RequestStop, StopSession, vars,
        gateVars, coreVars, edgeVars
  <1> QED
    BY <1>2, <1>3, <1>4, <1>5, <1>6, <1>7, <1>8, <1>9, <1>10 DEF Next, CoreStep, EdgeStep

(* Only the core claims, so while it works through a stage no symbol becomes
   in flight but the one it has just handled. *)
LEMMA StagesNext ==
    TypeInv /\ StagesSeeTheTruth /\ [Next]_vars => StagesSeeTheTruth'
  <1> SUFFICES ASSUME TypeInv, StagesSeeTheTruth, [Next]_vars
               PROVE  StagesSeeTheTruth'
    OBVIOUS
  <1> USE DEF StagesSeeTheTruth
  <1>1. ASSUME bits' \subseteq bits, UNCHANGED <<pc, touched, todo, doomed>>
        PROVE  StagesSeeTheTruth'
    BY <1>1
  <1>2. ASSUME NEW spoken \in SUBSET (Strategies \X Symbols), NEW fresh \in SUBSET carried,
               NEW due \in BOOLEAN, BeginPass(spoken, fresh, due)
        PROVE  StagesSeeTheTruth'
    BY <1>2 DEF BeginPass
  <1>3. ASSUME NEW r \in pass, AdmitRecord(r)
        PROVE  StagesSeeTheTruth'
    <2>1. bits \subseteq Covered
      BY DEF TypeInv, TypeOK, GateTypeOK
    <2>2. touched' \cap bits = {}
      BY <1>3, <2>1 DEF AdmitRecord, HoldRecord, Contains
    <2> QED
      BY <1>3, <2>2 DEF AdmitRecord, HoldRecord, gateVars
  <1>4. CASE BeginPlanning
    BY <1>4 DEF BeginPlanning, gateVars
  <1>5. ASSUME NEW s \in Symbols, PlanSymbol(s)
        PROVE  StagesSeeTheTruth'
    BY <1>5 DEF PlanSymbol, Offer, Claim, gateVars
  <1>6. ASSUME NEW s \in Symbols, SweepSymbol(s)
        PROVE  StagesSeeTheTruth'
    BY <1>6 DEF SweepSymbol, Offer, Claim, OrdersOf
  <1>7. ASSUME NEW s \in Symbols, RequoteSymbol(s)
        PROVE  StagesSeeTheTruth'
    BY <1>7 DEF RequoteSymbol, HasBudget
  <1>8. CASE TrySend
    BY <1>1, <1>8 DEF TrySend, DropIntent, Release, gateVars
  <1>9. ASSUME NEW old \in SUBSET working, EndPlanning(old)
        PROVE  StagesSeeTheTruth'
    <2>1. bits \subseteq Covered
      BY DEF TypeInv, TypeOK, GateTypeOK
    <2> QED
      BY <1>9, <2>1 DEF EndPlanning, Contains, gateVars
  <1>10. CASE EndSweep \/ EndPass
    BY <1>10 DEF EndSweep, EndPass
  <1>11. CASE Finish
    BY <1>1, <1>11 DEF Finish, Release, coreVars
  <1>12. CASE \/ ApplyFrame \/ Receive \/ CancelsDone \/ Ack \/ PumpExit
              \/ \E o \in toCancel : CancelOne(o)
              \/ \E outcome \in {"resting", "filled", "lost", "refused"} : Place(outcome)
    BY <1>1, <1>12
    DEF ApplyFrame, Adopted, Receive, CancelsDone, Ack, PumpExit, CancelOne, Place, AfterReply, gateVars, coreVars
  <1>13. CASE \/ \E o \in live : VenueClose(o)
              \/ HaltSession \/ ResumeSession \/ RequestStop \/ StopSession
              \/ UNCHANGED vars
    BY <1>1, <1>13
    DEF VenueClose, HaltSession, ResumeSession, RequestStop, StopSession, vars, gateVars, coreVars
  <1> HIDE DEF StagesSeeTheTruth
  <1> QED
    BY <1>2, <1>3, <1>4, <1>5, <1>6, <1>7, <1>8, <1>9, <1>10, <1>11, <1>12, <1>13
    DEF Next, CoreStep, EdgeStep

GateInductive == TypeInv /\ SlotsInv /\ StagesSeeTheTruth

(* The inductive invariant of the gate holds in every reachable state. *)
LEMMA GateInvariant == Spec => []GateInductive
  <1>1. Init => GateInductive
    BY TypeInvInit, GateInvInit DEF GateInductive
  <1>2. GateInductive /\ [Next]_vars => GateInductive'
    BY TypeInvNext, SlotsInvNext, StagesNext DEF GateInductive
  <1> QED
    BY <1>1, <1>2, PTL DEF Spec

(* Where the outstanding intents sit. *)
LEMMA OutstandingAt ==
    ASSUME TypeInv
    PROVE  LET a == Len(outgoing)
               b == Len(outgoing) + Len(queue)
           IN  /\ a \in Nat /\ b \in Nat /\ a <= b
               /\ Len(Outstanding) = b + Len(cur)
               /\ \A i \in 1..Len(Outstanding) :
                    /\ i <= a => i \in 1..Len(outgoing) /\ Outstanding[i] = outgoing[i]
                    /\ i > a /\ i <= b =>
                            i - a \in 1..Len(queue) /\ Outstanding[i] = queue[i - a]
                    /\ i > b => i - b \in 1..Len(cur) /\ Outstanding[i] = cur[i - b]
  <1>1. outgoing \in Seq(Intents) /\ queue \in Seq(Intents) /\ cur \in Seq(Intents)
    BY DEF TypeInv, TypeOK
  <1>2. Len(outgoing) \in Nat /\ Len(queue) \in Nat /\ Len(cur) \in Nat
    BY <1>1
  <1> DEFINE front == outgoing \o queue
  <1>3. /\ front \in Seq(Intents) /\ Len(front) = Len(outgoing) + Len(queue)
        /\ \A i \in 1..Len(front) :
                front[i] = IF i <= Len(outgoing) THEN outgoing[i] ELSE queue[i - Len(outgoing)]
    BY <1>1, ConcatProperties
  <1>4. /\ Len(Outstanding) = Len(front) + Len(cur)
        /\ \A i \in 1..Len(Outstanding) :
                Outstanding[i] = IF i <= Len(front) THEN front[i] ELSE cur[i - Len(front)]
    BY <1>1, <1>3, ConcatProperties DEF Outstanding
  <1> HIDE DEF front
  <1> QED
    BY <1>2, <1>3, <1>4

(* One intent at a time for one instrument: whatever the numbers of symbols,
   producers and queue slots, a symbol with a bit of its own never has two
   intents between the claim and the release (intent.rs, stage 1). *)
THEOREM OneIntentAtATime == Spec => []OneIntentPerSymbol
  <1>1. GateInductive => OneIntentPerSymbol
    <2> SUFFICES ASSUME GateInductive,
                        NEW i \in 1..Len(Outstanding), NEW j \in 1..Len(Outstanding),
                        SameSlot(Outstanding[i], Outstanding[j])
                 PROVE  i = j
      BY DEF OneIntentPerSymbol, SameSlot
    <2>1. TypeInv /\ SlotsDistinct
      BY DEF GateInductive, SlotsInv
    <2> DEFINE a == Len(outgoing)
               b == Len(outgoing) + Len(queue)
    <2>2. Len(outgoing) <= 1 /\ Len(cur) <= 1 /\ Len(cur) \in Nat
      BY <2>1 DEF TypeInv, TypeOK, OneInHand
    <2>3. SameSlot(Outstanding[j], Outstanding[i])
      BY DEF SameSlot
    <2>4. CASE i <= a
      <3>1. i \in 1..Len(outgoing) /\ Outstanding[i] = outgoing[i]
        BY <2>1, <2>4, OutstandingAt
      <3>2. CASE j <= a
        BY <2>1, <2>2, <2>4, <3>2, OutstandingAt
      <3>3. CASE j > a /\ j <= b
        BY <2>1, <3>1, <3>3, OutstandingAt DEF SlotsDistinct
      <3>4. CASE j > b
        BY <2>1, <3>1, <3>4, OutstandingAt DEF SlotsDistinct
      <3> QED
        BY <2>1, <3>2, <3>3, <3>4, OutstandingAt
    <2>5. CASE i > a /\ i <= b
      BY <2>1, <2>2, <2>3, <2>5, OutstandingAt DEF SlotsDistinct
    <2>6. CASE i > b
      <3>1. i - b \in 1..Len(cur) /\ Outstanding[i] = cur[i - b]
        BY <2>1, <2>6, OutstandingAt
      <3>2. CASE j <= a
        BY <2>1, <2>3, <3>1, <3>2, OutstandingAt DEF SlotsDistinct
      <3>3. CASE j > a /\ j <= b
        BY <2>1, <2>3, <3>1, <3>3, OutstandingAt DEF SlotsDistinct
      <3>4. CASE j > b
        BY <2>1, <2>2, <3>1, <3>4, OutstandingAt
      <3> QED
        BY <2>1, <3>2, <3>3, <3>4, OutstandingAt
    <2> QED
      BY <2>1, <2>4, <2>5, <2>6, OutstandingAt
  <1> QED
    BY <1>1, GateInvariant, PTL

(* The gate never under-reports, once every symbol of the session has a bit of
   its own (all ids below InFlight::CAPACITY): an outstanding intent's symbol
   always reads as in flight. *)
THEOREM GateIsTruthful ==
    ASSUME Covered = Symbols
    PROVE  Spec => []GateNeverUnderReports
  <1>1. GateInductive => GateNeverUnderReports
    <2> SUFFICES ASSUME GateInductive, NEW i \in 1..Len(Outstanding)
                 PROVE  Contains(Outstanding[i].symbol)
      BY DEF GateNeverUnderReports
    <2>1. TypeInv /\ SlotsClaimed
      BY DEF GateInductive, SlotsInv
    <2>2. PICK x \in Intents : x = Outstanding[i] /\ (x.symbol \in Covered => x.symbol \in bits)
      <3>1. outgoing \in Seq(Intents) /\ queue \in Seq(Intents) /\ cur \in Seq(Intents)
        BY <2>1 DEF TypeInv, TypeOK
      <3>2. \A seq \in {outgoing, queue, cur} : \A k \in 1..Len(seq) :
                seq[k] \in Intents /\ (seq[k].symbol \in Covered => seq[k].symbol \in bits)
        BY <2>1, <3>1, ElementOfSeq DEF SlotsClaimed, ClaimedIn
      <3> QED
        BY <2>1, <3>2, OutstandingAt
    <2> QED
      BY <2>2, IntentFields DEF Contains
  <1> QED
    BY <1>1, GateInvariant, PTL

-----------------------------------------------------------------------------
(* The order of a producer's targets. *)

(* Nothing is pending and nothing claimed in the initial state. *)
LEMMA OrderInvInit == Init => OrderInv
  BY PipelineAssumption DEF Init, OrderInv, PendingIsNewer, ClaimsAreDrained, Pending

(* An action keeps what is pending newer than what was taken. *)
LEMMA OrderInvNext ==
    TypeInv /\ OrderInv /\ [Next]_vars =>
        OrderInv' /\ \A c \in Strategies \X Symbols : claims'[c] >= claims[c]
  <1> SUFFICES ASSUME TypeInv, OrderInv, [Next]_vars
               PROVE  OrderInv' /\ \A c \in Strategies \X Symbols : claims'[c] >= claims[c]
    OBVIOUS
  <1>0. /\ claims \in [Strategies \X Symbols -> Nat] /\ drains \in Nat
        /\ \A r \in Pending :
                /\ r \in Records /\ r.seq \in Nat
                /\ r.strategy \in Strategies /\ r.symbol \in Symbols
    BY PipelineAssumption DEF TypeInv, TypeOK, Pending, Records
  <1>1. ASSUME UNCHANGED <<pass, carried, claims, drains>>
        PROVE  OrderInv' /\ \A c \in Strategies \X Symbols : claims'[c] >= claims[c]
    BY <1>0, <1>1 DEF OrderInv, PendingIsNewer, ClaimsAreDrained, Pending
  <1>2. ASSUME NEW spoken \in SUBSET (Strategies \X Symbols), NEW fresh \in SUBSET carried,
               NEW due \in BOOLEAN, BeginPass(spoken, fresh, due)
        PROVE  OrderInv' /\ \A c \in Strategies \X Symbols : claims'[c] >= claims[c]
    <2> DEFINE new == {[strategy |-> c[1], symbol |-> c[2], seq |-> drains + 1] : c \in spoken}
    <2>1. claims' = claims /\ drains' \in {drains, drains + 1} /\ (spoken # {} => drains' = drains + 1)
      BY <1>2 DEF BeginPass, bookVars
    <2>2. \A q \in Pending' :
            q \in new \/ (q \in Pending /\ \A n \in new : ~Supersedes(n, q))
      <3>1. ASSUME NEW q \in Pending'
            PROVE  q \in new \/ (q \in Pending /\ \A n \in new : ~Supersedes(n, q))
        <4>1. q \in pass'
          BY <1>2 DEF BeginPass, Pending
        <4>2. q \in new \/ (q \in fresh /\ \A n \in new : ~Supersedes(n, q))
          BY <1>2, <4>1 DEF BeginPass
        <4> QED
          BY <4>2 DEF Pending
      <3> HIDE DEF new
      <3> QED
        BY <3>1
    <2>3. \A q \in new :
            /\ spoken # {} /\ q.seq = drains + 1
            /\ q.strategy \in Strategies /\ q.symbol \in Symbols
            /\ \A n \in new : Supersedes(n, q) => n = q
      BY DEF Supersedes
    <2> HIDE DEF new
    <2>4. \A q \in Pending' :
            q.seq > claims'[<<q.strategy, q.symbol>>] /\ q.seq <= drains'
      <3> SUFFICES ASSUME NEW q \in Pending'
                   PROVE  q.seq > claims'[<<q.strategy, q.symbol>>] /\ q.seq <= drains'
        OBVIOUS
      <3>1. CASE q \in new
        BY <1>0, <2>1, <2>3, <3>1 DEF OrderInv, ClaimsAreDrained
      <3>2. CASE q \in Pending
        BY <1>0, <2>1, <3>2 DEF OrderInv, PendingIsNewer
      <3> QED
        BY <2>2, <3>1, <3>2
    <2>5. \A r, q \in Pending' : Supersedes(q, r) => q = r
      BY <2>2, <2>3 DEF OrderInv, PendingIsNewer, Supersedes
    <2>6. ClaimsAreDrained'
      BY <1>0, <2>1 DEF OrderInv, ClaimsAreDrained
    <2>7. carried' = {}
      BY <1>2 DEF BeginPass
    <2> QED
      BY <1>0, <2>1, <2>4, <2>5, <2>6, <2>7 DEF OrderInv, PendingIsNewer
  <1>3. ASSUME NEW r \in pass, AdmitRecord(r)
        PROVE  OrderInv' /\ \A c \in Strategies \X Symbols : claims'[c] >= claims[c]
    <2> DEFINE k == <<r.strategy, r.symbol>>
    <2>1. r \in Pending /\ k \in Strategies \X Symbols /\ r.seq > claims[k] /\ r.seq <= drains
      BY <1>0 DEF Pending, OrderInv, PendingIsNewer
    <2>2. drains' = drains
      BY <1>3 DEF AdmitRecord, HoldRecord
    <2>3. CASE claims' = claims /\ Pending' \subseteq Pending /\ pass' \cap carried' = {}
      BY <1>0, <2>2, <2>3 DEF OrderInv, PendingIsNewer, ClaimsAreDrained
    <2>4. CASE /\ claims' = [claims EXCEPT ![k] = r.seq]
               /\ pass' = pass \ {r} /\ carried' = carried
      <3>1. \A q \in Pending' : q \in Pending /\ <<q.strategy, q.symbol>> # k
        BY <2>1, <2>4 DEF Pending, OrderInv, PendingIsNewer, Supersedes
      <3>2. /\ claims'[k] = r.seq
            /\ \A c \in Strategies \X Symbols : c # k => claims'[c] = claims[c]
        BY <1>0, <2>1, <2>4
      <3>3. \A c \in Strategies \X Symbols : claims'[c] >= claims[c] /\ claims'[c] <= drains'
        <4> SUFFICES ASSUME NEW c \in Strategies \X Symbols
                     PROVE  claims'[c] >= claims[c] /\ claims'[c] <= drains'
          OBVIOUS
        <4>1. CASE c = k
          BY <1>0, <2>1, <2>2, <3>2, <4>1
        <4>2. CASE c # k
          BY <1>0, <2>2, <3>2, <4>2 DEF OrderInv, ClaimsAreDrained
        <4> QED
          BY <4>1, <4>2
      <3>4. PendingIsNewer'
        <4> SUFFICES ASSUME NEW q \in Pending'
                     PROVE  /\ q.seq > claims'[<<q.strategy, q.symbol>>]
                            /\ q.seq <= drains'
                            /\ \A p \in Pending' : Supersedes(p, q) => p = q
          BY DEF PendingIsNewer
        <4>1. q \in Pending /\ claims'[<<q.strategy, q.symbol>>] = claims[<<q.strategy, q.symbol>>]
          BY <1>0, <3>1, <3>2
        <4> QED
          BY <2>2, <3>1, <4>1 DEF OrderInv, PendingIsNewer
      <3>5. pass' \cap carried' = {}
        BY <2>4 DEF OrderInv
      <3> QED
        BY <3>3, <3>4, <3>5 DEF OrderInv, ClaimsAreDrained
    <2> QED
      BY <1>3, <2>3, <2>4 DEF AdmitRecord, HoldRecord, Pending, OrderInv
  <1>4. CASE \/ BeginPlanning \/ TrySend \/ EndSweep \/ EndPass \/ ApplyFrame
             \/ \E s \in Symbols : PlanSymbol(s) \/ SweepSymbol(s) \/ RequoteSymbol(s)
             \/ \E old \in SUBSET working : EndPlanning(old)
    BY <1>1, <1>4
    DEF BeginPlanning, TrySend, DropIntent, EndSweep, EndPass, ApplyFrame, Adopted, PlanSymbol, SweepSymbol,
        RequoteSymbol, HasBudget, EndPlanning, coreVars, bookVars
  <1>5. CASE \/ EdgeStep
             \/ \E o \in live : VenueClose(o)
             \/ HaltSession \/ ResumeSession \/ RequestStop \/ StopSession
             \/ UNCHANGED vars
    BY <1>1, <1>5
    DEF EdgeStep, Receive, CancelOne, CancelsDone, Place, AfterReply, Ack, Finish, PumpExit, VenueClose,
        HaltSession, ResumeSession, RequestStop, StopSession, coreVars, bookVars, vars
  <1> QED
    BY <1>2, <1>3, <1>4, <1>5 DEF Next, CoreStep

(* The targets of one producer for one symbol are acted on in the order it
   wrote them, however long a record is held over behind an intent. *)
THEOREM TargetsInOrder == Spec => TargetsMoveForward
  <1>1. Init => TypeInv /\ OrderInv
    BY TypeInvInit, OrderInvInit
  <1>2. TypeInv /\ OrderInv /\ [Next]_vars =>
            (TypeInv /\ OrderInv)' /\ \A c \in Strategies \X Symbols : claims'[c] >= claims[c]
    BY TypeInvNext, OrderInvNext
  <1>3. TypeInv /\ OrderInv /\ [Next]_vars =>
            [\A c \in Strategies \X Symbols : claims'[c] >= claims[c]]_vars
    BY <1>2
  <1> QED
    BY <1>1, <1>2, <1>3, PTL DEF Spec, TargetsMoveForward

(* Stage 1 has looked at every record of the pass before the plans begin. *)
PassIsLookedAt == pc # "admit" => pass = {}

(* Only the head of a pass puts records in front of stage 1. *)
LEMMA PassIsLookedAtNext == PassIsLookedAt /\ [Next]_vars => PassIsLookedAt'
  <1> SUFFICES ASSUME PassIsLookedAt, [Next]_vars PROVE PassIsLookedAt'
    OBVIOUS
  <1> USE DEF PassIsLookedAt
  <1>1. CASE \E spoken \in SUBSET (Strategies \X Symbols), fresh \in SUBSET carried,
                due \in BOOLEAN : BeginPass(spoken, fresh, due)
    BY <1>1 DEF BeginPass
  <1>2. CASE \/ \E r \in pass : AdmitRecord(r)
             \/ BeginPlanning \/ TrySend \/ EndSweep \/ EndPass \/ ApplyFrame
             \/ \E s \in Symbols : PlanSymbol(s) \/ SweepSymbol(s) \/ RequoteSymbol(s)
             \/ \E old \in SUBSET working : EndPlanning(old)
    BY <1>2
    DEF AdmitRecord, BeginPlanning, TrySend, EndSweep, EndPass, ApplyFrame, PlanSymbol,
        SweepSymbol, RequoteSymbol, EndPlanning, coreVars
  <1>3. CASE \/ EdgeStep
             \/ \E o \in live : VenueClose(o)
             \/ HaltSession \/ ResumeSession \/ RequestStop \/ StopSession
             \/ UNCHANGED vars
    BY <1>3
    DEF EdgeStep, Receive, CancelOne, CancelsDone, Place, Ack, Finish, PumpExit, VenueClose,
        HaltSession, ResumeSession, RequestStop, StopSession, coreVars, vars
  <1> QED
    BY <1>1, <1>2, <1>3 DEF Next, CoreStep

(* While no record expires, a step keeps every pending target, or acts on it,
   refuses it, or puts a newer one of the same producer in its place. *)
LEMMA NoTargetLostNext ==
    ASSUME ~RecordsExpire
    PROVE  TypeInv /\ OrderInv /\ PassIsLookedAt /\ [Next]_vars =>
             \A r \in Pending \ Pending' :
                \/ claims'[<<r.strategy, r.symbol>>] = r.seq
                \/ Refused(r)
                \/ \E n \in Pending' : Supersedes(n, r) /\ n.seq > r.seq
  <1> SUFFICES ASSUME TypeInv, OrderInv, PassIsLookedAt, [Next]_vars,
                      NEW r \in Pending \ Pending'
               PROVE  \/ claims'[<<r.strategy, r.symbol>>] = r.seq
                      \/ Refused(r)
                      \/ \E n \in Pending' : Supersedes(n, r) /\ n.seq > r.seq
    OBVIOUS
  <1>0. /\ r.strategy \in Strategies /\ r.symbol \in Symbols /\ r.seq \in Nat
        /\ r.seq <= drains /\ drains \in Nat
        /\ claims \in [Strategies \X Symbols -> 0..MaxDrains]
    <2>1. r \in Records /\ drains \in Nat /\ claims \in [Strategies \X Symbols -> 0..MaxDrains]
      BY PipelineAssumption DEF TypeInv, TypeOK, Pending
    <2>2. r.strategy \in Strategies /\ r.symbol \in Symbols /\ r.seq \in Nat
      BY <2>1, PipelineAssumption DEF Records
    <2>3. r.seq <= drains
      BY DEF OrderInv, PendingIsNewer
    <2> QED
      BY <2>1, <2>2, <2>3
  <1>1. ASSUME UNCHANGED <<pass, carried>>
        PROVE  FALSE
    BY <1>1 DEF Pending
  <1>2. ASSUME NEW spoken \in SUBSET (Strategies \X Symbols), NEW fresh \in SUBSET carried,
               NEW due \in BOOLEAN, BeginPass(spoken, fresh, due)
        PROVE  \E n \in Pending' : Supersedes(n, r) /\ n.seq > r.seq
    <2> DEFINE new == {[strategy |-> c[1], symbol |-> c[2], seq |-> drains + 1] : c \in spoken}
    <2>1. r \in carried /\ fresh = carried
      BY <1>2 DEF BeginPass, PassIsLookedAt, Pending
    <2>2. pass' = {q \in fresh : \A n \in new : ~Supersedes(n, q)} \cup new
      BY <1>2 DEF BeginPass
    <2>3. \A n \in new : n.seq = drains + 1
      OBVIOUS
    <2> HIDE DEF new
    <2>4. PICK n \in new : Supersedes(n, r)
      BY <2>1, <2>2 DEF Pending
    <2> QED
      BY <1>0, <2>2, <2>3, <2>4 DEF Pending
  <1>3. ASSUME NEW q \in pass, AdmitRecord(q)
        PROVE  claims'[<<r.strategy, r.symbol>>] = r.seq \/ Refused(r)
    <2>1. r = q
      BY <1>3 DEF AdmitRecord, HoldRecord, Pending
    <2>2. CASE claims' = [claims EXCEPT ![<<q.strategy, q.symbol>>] = q.seq]
      BY <1>0, <2>1, <2>2
    <2>3. CASE carried' = carried \cup {q}
      BY <2>1, <2>3 DEF Pending
    <2> QED
      BY <1>3, <2>1, <2>2, <2>3 DEF AdmitRecord, HoldRecord
  <1>4. CASE \/ BeginPlanning \/ TrySend \/ EndSweep \/ EndPass \/ ApplyFrame
             \/ \E s \in Symbols : PlanSymbol(s) \/ SweepSymbol(s) \/ RequoteSymbol(s)
             \/ \E old \in SUBSET working : EndPlanning(old)
    BY <1>1, <1>4
    DEF BeginPlanning, TrySend, EndSweep, EndPass, ApplyFrame, PlanSymbol, SweepSymbol,
        RequoteSymbol, EndPlanning, coreVars
  <1>5. CASE \/ EdgeStep
             \/ \E o \in live : VenueClose(o)
             \/ HaltSession \/ ResumeSession \/ RequestStop \/ StopSession
             \/ UNCHANGED vars
    BY <1>1, <1>5
    DEF EdgeStep, Receive, CancelOne, CancelsDone, Place, Ack, Finish, PumpExit, VenueClose,
        HaltSession, ResumeSession, RequestStop, StopSession, coreVars, vars
  <1> QED
    BY <1>2, <1>3, <1>4, <1>5 DEF Next, CoreStep

(* A target that was read is not lost: while none expires, it stays pending
   until the book takes it, it is refused, or a newer target of the same
   producer for the same symbol takes its place. *)
THEOREM TargetsAreNotLost ==
    ASSUME ~RecordsExpire
    PROVE  Spec => NoTargetLost
  <1> DEFINE Kept ==
        \A r \in Pending \ Pending' :
            \/ claims'[<<r.strategy, r.symbol>>] = r.seq
            \/ Refused(r)
            \/ \E n \in Pending' : Supersedes(n, r) /\ n.seq > r.seq
  <1>1. Init => TypeInv /\ OrderInv /\ PassIsLookedAt
    BY TypeInvInit, OrderInvInit DEF Init, PassIsLookedAt
  <1>2. TypeInv /\ OrderInv /\ PassIsLookedAt /\ [Next]_vars =>
            (TypeInv /\ OrderInv /\ PassIsLookedAt)' /\ [Kept]_vars
    BY TypeInvNext, OrderInvNext, PassIsLookedAtNext, NoTargetLostNext
  <1> QED
    BY <1>1, <1>2, PTL DEF Spec, NoTargetLost

-----------------------------------------------------------------------------
(* The intents under way and the frames on the bus, as sets. *)
LEMMA SetTypes ==
    ASSUME TypeInv
    PROVE  /\ Waiting \subseteq Intents /\ AtEdge \subseteq Intents /\ OnTheBus \subseteq Frames
           /\ cur # <<>> => AtEdge = {Head(cur)}
           /\ cur = <<>> => AtEdge = {}
  <1>1. /\ outgoing \in Seq(Intents) /\ queue \in Seq(Intents) /\ cur \in Seq(Intents)
        /\ frames \in Seq(Frames) /\ Len(cur) <= 1
    BY DEF TypeInv, TypeOK, OneInHand
  <1>2. Waiting \subseteq Intents /\ AtEdge \subseteq Intents /\ OnTheBus \subseteq Frames
    BY <1>1, ElementOfSeq DEF Waiting, AtEdge, OnTheBus
  <1>3. cur # <<>> => AtEdge = {Head(cur)}
    BY <1>1, AtMostOne DEF AtEdge
  <1>4. cur = <<>> => AtEdge = {}
    BY EmptySeq DEF AtEdge
  <1> QED
    BY <1>2, <1>3, <1>4

(* A claim adds its intent to those that wait. *)
LEMMA WaitingAfterOffer ==
    ASSUME TypeInv, outgoing = <<>>, NEW i, Offer(i), UNCHANGED queue
    PROVE  Waiting' = Waiting \cup {i}
  <1>1. outgoing' = <<i>> /\ Len(outgoing') = 1 /\ outgoing'[1] = i /\ Len(outgoing) = 0
    BY EmptySeq DEF Offer
  <1> QED
    BY <1>1 DEF Waiting

(* The second half of send only moves an intent, or drops it. *)
LEMMA WaitingAfterSend ==
    ASSUME TypeInv, TrySend
    PROVE  Waiting' \subseteq Waiting
  <1>1. /\ outgoing \in Seq(Intents) /\ queue \in Seq(Intents) /\ Len(outgoing') = 0
        /\ Len(outgoing) = 1 /\ Head(outgoing) = outgoing[1] /\ Head(outgoing) \in Intents
    BY AtMostOne, EmptySeq DEF TypeInv, TypeOK, OneInHand, TrySend
  <1>2. CASE queue' = Append(queue, Head(outgoing))
    <2>1. /\ Len(queue') = Len(queue) + 1 /\ Len(queue) \in Nat
          /\ \A i \in 1..Len(queue) : queue'[i] = queue[i]
          /\ queue'[Len(queue) + 1] = outgoing[1]
      BY <1>1, <1>2, AppendProperties
    <2>2. \A i \in 1..Len(queue') : i \in 1..Len(queue) \/ i = Len(queue) + 1
      BY <2>1
    <2> QED
      BY <1>1, <2>1, <2>2 DEF Waiting
  <1>3. CASE queue' = queue
    BY <1>1, <1>3 DEF Waiting
  <1> QED
    BY <1>2, <1>3 DEF TrySend

(* The edge takes the oldest queued intent in hand. *)
LEMMA WaitingAfterReceive ==
    ASSUME TypeInv, Receive
    PROVE  /\ Waiting' \subseteq Waiting
           /\ Head(queue) \in Waiting
           /\ AtEdge' = {Head(queue)}
  <1>1. queue \in Seq(Intents) /\ queue # <<>> /\ Len(queue) \in Nat \ {0}
    BY EmptySeq DEF TypeInv, TypeOK, Receive
  <1>2. /\ Len(queue') = Len(queue) - 1 /\ Head(queue) = queue[1]
        /\ \A i \in 1..Len(queue') : queue'[i] = queue[i + 1] /\ i + 1 \in 1..Len(queue)
    BY <1>1, HeadTailProperties DEF Receive
  <1>3. outgoing' = outgoing /\ cur' = <<Head(queue)>> /\ Len(cur') = 1 /\ cur'[1] = Head(queue)
    BY DEF Receive, coreVars
  <1>4. Waiting' \subseteq Waiting
    BY <1>1, <1>2, <1>3 DEF Waiting
  <1>5. Head(queue) \in Waiting
    BY <1>1, <1>2 DEF Waiting
  <1> QED
    BY <1>3, <1>4, <1>5 DEF AtEdge

(* A published frame joins the bus. *)
LEMMA BusAfterPublish ==
    ASSUME TypeInv, NEW f \in Frames, frames' = Append(frames, f)
    PROVE  OnTheBus' = OnTheBus \cup {f}
  <1>1. /\ frames \in Seq(Frames) /\ Len(frames') = Len(frames) + 1 /\ Len(frames) \in Nat
        /\ \A i \in 1..Len(frames) : frames'[i] = frames[i]
        /\ frames'[Len(frames) + 1] = f
    BY AppendProperties DEF TypeInv, TypeOK
  <1>2. \A i \in 1..Len(frames') : i \in 1..Len(frames) \/ i = Len(frames) + 1
    BY <1>1
  <1>3. \A i \in 1..Len(frames) : i \in 1..Len(frames')
    BY <1>1
  <1>4. Len(frames) + 1 \in 1..Len(frames')
    BY <1>1
  <1> QED
    BY <1>1, <1>2, <1>3, <1>4 DEF OnTheBus

(* The core takes the oldest frame off the bus. *)
LEMMA BusAfterApply ==
    ASSUME TypeInv, ApplyFrame
    PROVE  OnTheBus' \subseteq OnTheBus /\ Head(frames) \in OnTheBus
  <1>1. frames \in Seq(Frames) /\ frames # <<>> /\ Len(frames) \in Nat \ {0} /\ frames' = Tail(frames)
    BY EmptySeq DEF TypeInv, TypeOK, ApplyFrame
  <1>2. /\ Len(frames') = Len(frames) - 1 /\ Head(frames) = frames[1]
        /\ \A i \in 1..Len(frames') : frames'[i] = frames[i + 1] /\ i + 1 \in 1..Len(frames)
    BY <1>1, HeadTailProperties
  <1> QED
    BY <1>1, <1>2 DEF OnTheBus

(* The intents that wait and the one at the edge are about distinct symbols,
   all of them in flight. *)
LEMMA SlotsApart ==
    ASSUME TypeInv, SlotsInv
    PROVE  /\ \A x \in Waiting, y \in AtEdge : ~SameSlot(x, y) /\ ~SameSlot(y, x)
           /\ \A x \in Waiting \cup AtEdge : x.symbol \in Covered => x.symbol \in bits
  <1>1. \A x \in Waiting, y \in AtEdge : ~SameSlot(x, y) /\ ~SameSlot(y, x)
    BY DEF SlotsInv, SlotsDistinct, Waiting, AtEdge, SameSlot
  <1>2. \A x \in Waiting \cup AtEdge : x.symbol \in Covered => x.symbol \in bits
    BY DEF SlotsInv, SlotsClaimed, ClaimedIn, Waiting, AtEdge
  <1> QED
    BY <1>1, <1>2

-----------------------------------------------------------------------------
(* The orders at the venue. *)

(* Nothing rests in the initial state. *)
LEMMA VenueInvInit == Init => VenueInv
  <1> SUFFICES ASSUME Init PROVE VenueInv
    OBVIOUS
  <1>1. Waiting = {} /\ AtEdge = {} /\ OnTheBus = {} /\ live = {} /\ epc = "poll"
    BY EmptySeq DEF Init, Waiting, AtEdge, OnTheBus
  <1> QED
    BY <1>1
    DEF VenueInv, OrdersAreMinted, UnplacedAreFresh, DoneMeansGone, CancelsCoverWhatRests,
        RestingAreKnownOrAcked, OneRestsPerSlot

(* Intents that are dropped, and frames that are applied, take nothing away. *)
LEMMA VenueInvShrinks ==
    ASSUME VenueInv, Waiting' \subseteq Waiting, AtEdge' = AtEdge, OnTheBus' \subseteq OnTheBus,
           UNCHANGED <<live, survived, minted, epc, toCancel>>,
           \A o \in live : o.symbol \in Covered /\ o \in working => o \in working'
    PROVE  VenueInv'
  <1>1. OrdersAreMinted'
    BY DEF VenueInv, OrdersAreMinted
  <1>2. UnplacedAreFresh'
    BY DEF VenueInv, UnplacedAreFresh, Fresh
  <1>3. DoneMeansGone'
    BY DEF VenueInv, DoneMeansGone
  <1>4. CancelsCoverWhatRests'
    BY DEF VenueInv, CancelsCoverWhatRests, RestingFor
  <1>5. RestingAreKnownOrAcked'
    BY DEF VenueInv, RestingAreKnownOrAcked
  <1>6. OneRestsPerSlot'
    BY DEF VenueInv, OneRestsPerSlot, SameSlot
  <1> QED
    BY <1>1, <1>2, <1>3, <1>4, <1>5, <1>6 DEF VenueInv

(* A new intent for a free symbol.  Whatever rests of the symbol is known to
   the tracker, so an intent that cancels all the working orders covers it. *)
LEMMA VenueInvOffer ==
    ASSUME TypeInv, SlotsInv, VenueInv, NEW i \in Intents, outgoing = <<>>, Offer(i),
           UNCHANGED <<queue, cur, live, survived, frames, epc, toCancel, working>>,
           i.symbol \in Covered => i.symbol \notin bits,
           i.place # {} => OrdersOf(working, i.symbol) \subseteq i.cancels,
           \/ i.place = {} /\ minted' = minted
           \/ i.place = {NewOrder(i.symbol)} /\ minted' = minted + 1
    PROVE  VenueInv'
  <1>0. /\ Waiting' = Waiting \cup {i} /\ AtEdge' = AtEdge /\ OnTheBus' = OnTheBus
        /\ minted \in Nat /\ live \subseteq Orders
        /\ Waiting \subseteq Intents /\ AtEdge \subseteq Intents /\ OnTheBus \subseteq Frames
    BY WaitingAfterOffer, SetTypes, PipelineAssumption DEF AtEdge, OnTheBus, TypeInv, TypeOK
  <1>1. \A o \in i.place : o.symbol = i.symbol /\ o.cloid = minted + 1 /\ minted' = minted + 1
            /\ i.place = {o}
    BY DEF NewOrder
  <1>2. \A o \in Orders : o.cloid \in Nat
    BY PipelineAssumption DEF Orders
  <1>3. OrdersAreMinted'
    <2>1. \A o \in Orders : o.cloid <= minted => o.cloid <= minted' /\ o.cloid # minted + 1
      BY <1>0, <1>2
    <2>2. \A x \in Waiting \cup AtEdge : x.place \subseteq Orders
      BY <1>0, IntentFields
    <2>3. \A f \in OnTheBus : f.order \in Orders
      BY <1>0 DEF Frames
    <2>4. \A x \in Waiting \cup AtEdge : \A o \in x.place :
                o.symbol = x.symbol /\ o.cloid <= minted' /\ x.place = {o}
      BY <2>1, <2>2 DEF VenueInv, OrdersAreMinted
    <2>5. \A o \in i.place : o.symbol = i.symbol /\ o.cloid <= minted' /\ i.place = {o}
      BY <1>0, <1>1
    <2>6. \A o \in live : o.cloid <= minted'
      BY <1>0, <2>1 DEF VenueInv, OrdersAreMinted
    <2>7. \A f \in OnTheBus : f.order.cloid <= minted'
      BY <2>1, <2>3 DEF VenueInv, OrdersAreMinted
    <2> QED
      BY <1>0, <2>4, <2>5, <2>6, <2>7 DEF OrdersAreMinted
  <1>4. UnplacedAreFresh'
    <2>1. \A o \in live : o \notin i.place
      BY <1>0, <1>1, <1>2 DEF VenueInv, OrdersAreMinted
    <2>2. \A f \in OnTheBus : f.order \notin i.place
      <3>1. \A f \in OnTheBus : f.order \in Orders
        BY <1>0 DEF Frames
      <3> QED
        BY <1>0, <1>1, <1>2, <3>1 DEF VenueInv, OrdersAreMinted
    <2>3. Fresh(i)'
      BY <1>0, <2>1, <2>2 DEF Fresh
    <2>4. \A x : Fresh(x) => Fresh(x)'
      BY <1>0 DEF Fresh
    <2> QED
      BY <1>0, <2>3, <2>4 DEF VenueInv, UnplacedAreFresh
  <1>5. DoneMeansGone'
    BY <1>0 DEF VenueInv, DoneMeansGone
  <1>6. CancelsCoverWhatRests'
    <2>1. RestingFor(i) \subseteq i.cancels
      <3> SUFFICES ASSUME NEW o \in RestingFor(i) PROVE o \in i.cancels
        OBVIOUS
      <3>1. o \in live /\ o.symbol = i.symbol /\ i.symbol \in Covered /\ i.place # {}
        BY DEF RestingFor
      <3>2. ~\E x \in AtEdge : o \in x.place
        <4> SUFFICES ASSUME NEW x \in AtEdge, o \in x.place PROVE FALSE
          OBVIOUS
        <4>1. x.symbol = i.symbol
          BY <3>1 DEF VenueInv, OrdersAreMinted
        <4> QED
          BY <3>1, <4>1, SlotsApart
      <3>3. o \in working
        BY <3>1, <3>2 DEF VenueInv, RestingAreKnownOrAcked
      <3> QED
        BY <3>1, <3>3 DEF OrdersOf
    <2>2. \A x : RestingFor(x)' = RestingFor(x)
      BY DEF RestingFor
    <2> QED
      BY <1>0, <2>1, <2>2 DEF VenueInv, CancelsCoverWhatRests
  <1>7. RestingAreKnownOrAcked'
    BY <1>0 DEF VenueInv, RestingAreKnownOrAcked
  <1>8. OneRestsPerSlot'
    BY DEF VenueInv, OneRestsPerSlot, SameSlot
  <1> QED
    BY <1>3, <1>4, <1>5, <1>6, <1>7, <1>8 DEF VenueInv

(* An order leaves the venue, with its terminal frame: filled, cancelled by the
   venue, or by the edge, which then strikes it off its list. *)
LEMMA VenueInvClose ==
    ASSUME TypeInv, VenueInv, NEW o \in live,
           LeavesVenue(o),
           toCancel \ {o} \subseteq toCancel', epc = "place" => toCancel' = toCancel,
           UNCHANGED <<outgoing, queue, cur, minted, epc, working>>
    PROVE  VenueInv'
  <1>0. /\ Waiting' = Waiting /\ AtEdge' = AtEdge /\ o \in Orders
        /\ [kind |-> "done", order |-> o] \in Frames
        /\ OnTheBus' = OnTheBus \cup {[kind |-> "done", order |-> o]}
    <2>1. o \in Orders /\ [kind |-> "done", order |-> o] \in Frames
      BY DEF TypeInv, TypeOK, Frames
    <2> QED
      BY <2>1, BusAfterPublish DEF LeavesVenue, Waiting, AtEdge
  <1>a. live' = live \ {o} /\ survived' = survived \ {o}
    BY DEF LeavesVenue
  <1>1. OrdersAreMinted'
    BY <1>0, <1>a DEF VenueInv, OrdersAreMinted
  <1>2. UnplacedAreFresh'
    BY <1>0, <1>a DEF VenueInv, UnplacedAreFresh, Fresh
  <1>3. DoneMeansGone'
    BY <1>0, <1>a DEF VenueInv, DoneMeansGone
  <1>4. CancelsCoverWhatRests'
    <2>1. \A x : RestingFor(x)' \subseteq RestingFor(x) \ {o}
      BY <1>a DEF RestingFor
    <2> QED
      BY <1>0, <1>a, <2>1 DEF VenueInv, CancelsCoverWhatRests
  <1>5. RestingAreKnownOrAcked'
    BY <1>0, <1>a DEF VenueInv, RestingAreKnownOrAcked
  <1>6. OneRestsPerSlot'
    BY <1>a DEF VenueInv, OneRestsPerSlot, SameSlot
  <1> QED
    BY <1>1, <1>2, <1>3, <1>4, <1>5, <1>6 DEF VenueInv

(* The edge takes an intent in hand: its cancels are to be sent first. *)
LEMMA VenueInvReceive ==
    ASSUME TypeInv, VenueInv, Receive
    PROVE  VenueInv'
  <1> DEFINE x == Head(queue)
  <1>0. /\ Waiting' \subseteq Waiting /\ x \in Waiting /\ AtEdge' = {x} /\ OnTheBus' = OnTheBus
        /\ epc = "poll" /\ epc' = "cancel" /\ toCancel' = x.cancels
        /\ UNCHANGED <<live, survived, minted, working>>
    BY WaitingAfterReceive DEF Receive, OnTheBus, venueVars, bookVars, trackerVars
  <1> HIDE DEF x
  <1>1. OrdersAreMinted'
    BY <1>0 DEF VenueInv, OrdersAreMinted
  <1>2. UnplacedAreFresh'
    <2>1. \A y : Fresh(y)' = Fresh(y)
      BY <1>0 DEF Fresh
    <2> QED
      BY <1>0, <2>1 DEF VenueInv, UnplacedAreFresh
  <1>3. DoneMeansGone'
    BY <1>0 DEF VenueInv, DoneMeansGone
  <1>4. CancelsCoverWhatRests'
    <2>1. \A y : RestingFor(y)' = RestingFor(y)
      BY <1>0 DEF RestingFor
    <2> QED
      BY <1>0, <2>1 DEF VenueInv, CancelsCoverWhatRests
  <1>5. RestingAreKnownOrAcked'
    BY <1>0 DEF VenueInv, RestingAreKnownOrAcked
  <1>6. OneRestsPerSlot'
    BY <1>0 DEF VenueInv, OneRestsPerSlot, SameSlot
  <1> QED
    BY <1>1, <1>2, <1>3, <1>4, <1>5, <1>6 DEF VenueInv

(* The edge goes on to another step of the intent in hand, and lets go of it
   after the last, with nothing to ack. *)
LEMMA VenueInvEdge ==
    ASSUME VenueInv, Waiting' = Waiting, OnTheBus' = OnTheBus,
           UNCHANGED <<live, survived, minted, toCancel>>,
           AtEdge' \in {AtEdge, {}},
           epc' # "cancel", epc' # "ack",
           epc' = "place" =>
                epc = "cancel" /\ toCancel = {} /\ \A x \in AtEdge : x.place # {},
           working \subseteq working',
           epc = "ack" => \A x \in AtEdge : x.place \subseteq working'
    PROVE  VenueInv'
  <1>1. OrdersAreMinted'
    BY DEF VenueInv, OrdersAreMinted
  <1>2. UnplacedAreFresh'
    <2>1. \A y : Fresh(y)' = Fresh(y)
      BY DEF Fresh
    <2> QED
      BY <2>1 DEF VenueInv, UnplacedAreFresh
  <1>3. DoneMeansGone'
    BY DEF VenueInv, DoneMeansGone
  <1>4. CancelsCoverWhatRests'
    <2>1. \A y : RestingFor(y)' = RestingFor(y)
      BY DEF RestingFor
    <2> QED
      BY <2>1 DEF VenueInv, CancelsCoverWhatRests
  <1>5. RestingAreKnownOrAcked'
    BY DEF VenueInv, RestingAreKnownOrAcked
  <1>6. OneRestsPerSlot'
    BY DEF VenueInv, OneRestsPerSlot, SameSlot
  <1> QED
    BY <1>1, <1>2, <1>3, <1>4, <1>5, <1>6 DEF VenueInv

(* The venue takes the order of the intent in hand, and its reply arrives. *)
LEMMA VenueInvRests ==
    ASSUME TypeInv, SlotsInv, VenueInv, Place("resting")
    PROVE  VenueInv'
  <1> DEFINE x == Head(cur)
  <1>0. /\ x \in Intents /\ AtEdge = {x} /\ AtEdge' = {x} /\ Waiting' = Waiting
        /\ epc = "place" /\ epc' = "ack" /\ live' = live \cup x.place
        /\ UNCHANGED <<survived, minted, toCancel, working>>
    BY SetTypes, HeadsInHand
    DEF Place, AfterReply, AtEdge, Waiting, coreVars, bookVars, edgeVars, trackerVars
  <1>1. PICK o \in x.place : frames' = Append(frames, [kind |-> "open", order |-> o])
    BY DEF Place
  <1> HIDE DEF x
  <1>2. /\ o \in Orders /\ x.place = {o} /\ o.symbol = x.symbol /\ o.cloid <= minted
        /\ OnTheBus' = OnTheBus \cup {[kind |-> "open", order |-> o]}
    <2>1. o \in Orders /\ [kind |-> "open", order |-> o] \in Frames
      BY <1>0, IntentFields DEF Frames
    <2>2. x.place = {o} /\ o.symbol = x.symbol /\ o.cloid <= minted
      BY <1>0 DEF VenueInv, OrdersAreMinted
    <2> QED
      BY <1>1, <2>1, <2>2, BusAfterPublish
  <1>3. /\ \A y \in Waiting : ~SameSlot(x, y)
        /\ \A y \in Waiting : y.symbol \in Covered => o \notin y.place
    <2>1. \A y \in Waiting : ~SameSlot(x, y)
      BY <1>0, SlotsApart
    <2> QED
      BY <1>2, <2>1 DEF VenueInv, OrdersAreMinted, SameSlot
  <1>4. OrdersAreMinted'
    BY <1>0, <1>2 DEF VenueInv, OrdersAreMinted
  <1>5. UnplacedAreFresh'
    BY <1>0, <1>2, <1>3 DEF VenueInv, UnplacedAreFresh, Fresh
  <1>6. DoneMeansGone'
    BY <1>0, <1>2 DEF VenueInv, DoneMeansGone, UnplacedAreFresh, Fresh
  <1>7. CancelsCoverWhatRests'
    <2>1. \A y \in Waiting : RestingFor(y)' = RestingFor(y)
      BY <1>0, <1>2, <1>3 DEF RestingFor, SameSlot
    <2> QED
      BY <1>0, <2>1 DEF VenueInv, CancelsCoverWhatRests
  <1>8. RestingAreKnownOrAcked'
    BY <1>0 DEF VenueInv, RestingAreKnownOrAcked
  <1>9. OneRestsPerSlot'
    <2>1. \A p \in live \ survived : ~SameSlot(p, o)
      BY <1>0, <1>2 DEF VenueInv, CancelsCoverWhatRests, RestingFor, SameSlot
    <2> QED
      BY <1>0, <1>2, <2>1 DEF VenueInv, OneRestsPerSlot, SameSlot
  <1> QED
    BY <1>4, <1>5, <1>6, <1>7, <1>8, <1>9 DEF VenueInv

(* While the replies to placements arrive, an action keeps the venue's part of the invariant. *)
LEMMA VenueInvNext ==
    ASSUME ~RepliesLost
    PROVE  TypeInv /\ SlotsInv /\ StagesSeeTheTruth /\ VenueInv /\ [Next]_vars => VenueInv'
  <1> SUFFICES ASSUME TypeInv, SlotsInv, StagesSeeTheTruth, VenueInv, [Next]_vars
               PROVE  VenueInv'
    OBVIOUS
  <1>0. TypeOK
    BY DEF TypeInv
  <1>1. ASSUME UNCHANGED <<outgoing, queue, cur, frames, live, survived, minted, epc, toCancel, working>>
        PROVE  VenueInv'
    BY <1>1, VenueInvShrinks DEF Waiting, AtEdge, OnTheBus
  <1>2. ASSUME NEW s \in Symbols, PlanSymbol(s)
        PROVE  VenueInv'
    <2>1. /\ outgoing = <<>> /\ s \notin bits
          /\ UNCHANGED <<queue, cur, live, survived, frames, epc, toCancel, working>>
      BY <1>2 DEF PlanSymbol, StagesSeeTheTruth, edgeVars, venueVars, trackerVars
    <2>2. CASE UNCHANGED <<gateVars, outgoing, minted>>
      BY <1>1, <2>1, <2>2
    <2> DEFINE bare == [symbol |-> s, kind |-> "plan", cancels |-> OrdersOf(working, s),
                        place |-> {}]
               full == [symbol |-> s, kind |-> "plan", cancels |-> OrdersOf(working, s),
                        place |-> {NewOrder(s)}]
    <2>3. CASE Offer(bare) /\ UNCHANGED minted
      <3>1. /\ bare \in Intents /\ bare.symbol = s /\ bare.place = {}
            /\ bare.cancels = OrdersOf(working, s)
        BY <1>0, OpenOrders DEF Intents, Kinds
      <3> HIDE DEF bare
      <3> QED
        BY <2>1, <2>3, <3>1, VenueInvOffer
    <2>4. CASE minted < MaxOrders /\ Offer(full) /\ minted' = minted + 1
      <3>1. /\ full \in Intents /\ full.symbol = s /\ full.place = {NewOrder(s)}
            /\ full.cancels = OrdersOf(working, s)
        BY <1>0, <2>4, OpenOrders DEF Intents, Kinds
      <3> HIDE DEF full
      <3> QED
        BY <2>1, <2>4, <3>1, VenueInvOffer
    <2> QED
      BY <1>2, <2>2, <2>3, <2>4 DEF PlanSymbol
  <1>3. ASSUME NEW s \in Symbols, SweepSymbol(s)
        PROVE  VenueInv'
    <2> DEFINE i == [symbol |-> s, kind |-> "sweep", cancels |-> OrdersOf(doomed, s),
                     place |-> {}]
    <2>1. /\ outgoing = <<>> /\ s \notin bits
          /\ UNCHANGED <<queue, cur, live, survived, frames, epc, toCancel, working, minted>>
      BY <1>3
      DEF SweepSymbol, StagesSeeTheTruth, edgeVars, venueVars, trackerVars, bookVars, OrdersOf
    <2>2. i \in Intents /\ i.symbol = s /\ i.place = {}
      BY <1>0, OpenOrders DEF Intents, Kinds
    <2>3. Offer(i)
      BY <1>3 DEF SweepSymbol
    <2> HIDE DEF i
    <2> QED
      BY <2>1, <2>2, <2>3, VenueInvOffer
  <1>4. ASSUME NEW s \in Symbols, RequoteSymbol(s)
        PROVE  VenueInv'
    <2> DEFINE i == [symbol |-> s, kind |-> "requote", cancels |-> {},
                     place |-> {NewOrder(s)}]
    <2>1. outgoing = <<>> /\ UNCHANGED <<queue, cur, live, survived, frames, epc, toCancel, working>>
      BY <1>4 DEF RequoteSymbol, edgeVars, venueVars, trackerVars
    <2>2. CASE UNCHANGED <<gateVars, outgoing, requotes, minted>>
      BY <1>1, <2>1, <2>2
    <2>3. CASE /\ ~Contains(s) /\ OrdersOf(working, s) = {} /\ minted < MaxOrders
               /\ Offer(i) /\ minted' = minted + 1
      <3>1. i \in Intents /\ i.symbol = s /\ i.place = {NewOrder(s)} /\ i.cancels = {}
        BY <1>0, <2>3, OpenOrders DEF Intents, Kinds
      <3>2. s \in Covered => s \notin bits
        BY <2>3 DEF Contains
      <3> HIDE DEF i
      <3> QED
        BY <2>1, <2>3, <3>1, <3>2, VenueInvOffer
    <2> QED
      BY <1>4, <2>2, <2>3 DEF RequoteSymbol
  <1>5. CASE TrySend
    <2>1. UNCHANGED <<cur, frames, live, survived, minted, epc, toCancel, working>>
      BY <1>5 DEF TrySend, edgeVars, venueVars, trackerVars
    <2> QED
      BY <1>5, <2>1, WaitingAfterSend, VenueInvShrinks DEF AtEdge, OnTheBus
  <1>6. CASE ApplyFrame
    <2>1. /\ UNCHANGED <<outgoing, queue, cur, live, survived, minted, epc, toCancel>>
          /\ OnTheBus' \subseteq OnTheBus /\ Head(frames) \in OnTheBus
      BY <1>6, BusAfterApply DEF ApplyFrame, coreVars, bookVars, edgeVars
    <2>2. \A o \in live : o.symbol \in Covered /\ o \in working => o \in working'
      BY <1>6, <2>1 DEF ApplyFrame, Adopted, VenueInv, DoneMeansGone
    <2> QED
      BY <2>1, <2>2, VenueInvShrinks DEF Waiting, AtEdge
  <1>7. CASE Receive
    BY <1>7, VenueInvReceive
  <1>8. ASSUME NEW o \in toCancel, CancelOne(o)
        PROVE  VenueInv'
    <2>1. /\ UNCHANGED <<outgoing, queue, cur, minted, epc, working>>
          /\ epc = "cancel" /\ toCancel' = toCancel \ {o}
      BY <1>8 DEF CancelOne, coreVars, bookVars, trackerVars
    <2>2. CASE LeavesVenue(o)
      <3>1. o \in live
        BY <2>2 DEF LeavesVenue
      <3> QED
        BY <2>1, <2>2, <3>1, VenueInvClose
    <2>3. CASE /\ UNCHANGED <<live, frames>>
               /\ survived \subseteq survived'
               /\ o \notin live \/ o \in survived'
      <3>1. OnTheBus' = OnTheBus /\ Waiting' = Waiting /\ AtEdge' = AtEdge
        BY <2>1, <2>3 DEF OnTheBus, Waiting, AtEdge
      <3>2. OrdersAreMinted'
        BY <2>1, <2>3, <3>1 DEF VenueInv, OrdersAreMinted
      <3>3. UnplacedAreFresh'
        BY <2>1, <2>3, <3>1 DEF VenueInv, UnplacedAreFresh, Fresh
      <3>4. DoneMeansGone'
        BY <2>3, <3>1 DEF VenueInv, DoneMeansGone
      <3>5. CancelsCoverWhatRests'
        <4>1. \A x : RestingFor(x)' = RestingFor(x) /\ RestingFor(x) \subseteq live
          BY <2>3 DEF RestingFor
        <4> QED
          BY <2>1, <2>3, <3>1, <4>1 DEF VenueInv, CancelsCoverWhatRests
      <3>6. RestingAreKnownOrAcked'
        BY <2>1, <2>3, <3>1 DEF VenueInv, RestingAreKnownOrAcked
      <3>7. OneRestsPerSlot'
        BY <2>3 DEF VenueInv, OneRestsPerSlot, SameSlot
      <3> QED
        BY <3>2, <3>3, <3>4, <3>5, <3>6, <3>7 DEF VenueInv
    <2>4. \/ LeavesVenue(o)
          \/ o \notin live /\ UNCHANGED venueVars
          \/ survived' = survived \cup {o} /\ UNCHANGED <<live, frames>>
      BY <1>8 DEF CancelOne
    <2> QED
      BY <2>2, <2>3, <2>4 DEF venueVars
  <1>9. CASE CancelsDone
    <2>1. /\ epc = "cancel" /\ toCancel = {} /\ epc' \in {"release", "place"}
          /\ epc' = "place" => Head(cur).place # {}
          /\ UNCHANGED <<live, survived, minted, toCancel, working>>
      BY <1>9 DEF CancelsDone, bookVars, venueVars, trackerVars
    <2>2. Waiting' = Waiting /\ AtEdge' = AtEdge /\ OnTheBus' = OnTheBus
      BY <1>9 DEF CancelsDone, coreVars, venueVars, Waiting, AtEdge, OnTheBus
    <2>3. AtEdge = {Head(cur)}
      BY <2>1, HeadsInHand, SetTypes
    <2> QED
      BY <2>1, <2>2, <2>3, VenueInvEdge
  <1>10. ASSUME NEW outcome \in {"resting", "filled", "lost", "refused"}, Place(outcome)
         PROVE  VenueInv'
    <2>1. outcome # "lost"
      BY <1>10 DEF Place
    <2>2. CASE outcome = "resting"
      BY <1>10, <2>2, VenueInvRests
    <2>3. CASE outcome \in {"filled", "refused"}
      <3>1. /\ epc = "place" /\ epc' \in {"release", "ackFilled"}
            /\ UNCHANGED <<live, survived, minted, toCancel, working>>
        BY <1>10, <2>3 DEF Place, AfterReply, bookVars, venueVars, trackerVars
      <3>2. Waiting' = Waiting /\ AtEdge' = AtEdge /\ OnTheBus' = OnTheBus
        BY <1>10, <2>3 DEF Place, coreVars, venueVars, Waiting, AtEdge, OnTheBus
      <3> QED
        BY <3>1, <3>2, VenueInvEdge
    <2> QED
      BY <2>1, <2>2, <2>3
  <1>11. CASE Ack
    <2>1. /\ epc \in {"ack", "ackFilled"} /\ epc' = "release" /\ working \subseteq working'
          /\ epc = "ack" => Head(cur).place \subseteq working'
          /\ UNCHANGED <<live, survived, minted, toCancel>>
      BY <1>11 DEF Ack, bookVars, venueVars
    <2>2. Waiting' = Waiting /\ AtEdge' = AtEdge /\ OnTheBus' = OnTheBus
      BY <1>11 DEF Ack, coreVars, venueVars, Waiting, AtEdge, OnTheBus
    <2>3. AtEdge = {Head(cur)}
      BY <2>1, HeadsInHand, SetTypes
    <2> QED
      BY <2>1, <2>2, <2>3, VenueInvEdge
  <1>12. CASE Finish \/ PumpExit
    <2>1. /\ epc \in {"release", "poll"} /\ epc' \in {"poll", "exited"}
          /\ UNCHANGED <<live, survived, minted, toCancel, working>>
      BY <1>12 DEF Finish, PumpExit, bookVars, venueVars, trackerVars
    <2>2. Waiting' = Waiting /\ OnTheBus' = OnTheBus
      BY <1>12 DEF Finish, PumpExit, coreVars, venueVars, Waiting, OnTheBus
    <2>3. AtEdge' \in {AtEdge, {}}
      BY <1>12, EmptySeq DEF Finish, PumpExit, AtEdge
    <2> QED
      BY <2>1, <2>2, <2>3, VenueInvEdge
  <1>13. ASSUME NEW o \in live, VenueClose(o)
         PROVE  VenueInv'
    <2>1. LeavesVenue(o) /\ UNCHANGED <<outgoing, queue, cur, minted, toCancel, epc, working>>
      BY <1>13 DEF VenueClose, coreVars, bookVars, edgeVars, trackerVars
    <2> QED
      BY <2>1, VenueInvClose
  <1>14. CASE \/ \E spoken \in SUBSET (Strategies \X Symbols), fresh \in SUBSET carried,
                   due \in BOOLEAN : BeginPass(spoken, fresh, due)
              \/ \E r \in pass : AdmitRecord(r)
              \/ BeginPlanning
              \/ \E old \in SUBSET working : EndPlanning(old)
              \/ EndSweep \/ EndPass
    BY <1>1, <1>14
    DEF BeginPass, AdmitRecord, HoldRecord, BeginPlanning, EndPlanning, EndSweep, EndPass,
        bookVars, edgeVars, venueVars, trackerVars
  <1>15. CASE HaltSession \/ ResumeSession \/ RequestStop \/ StopSession \/ UNCHANGED vars
    BY <1>1, <1>15
    DEF HaltSession, ResumeSession, RequestStop, StopSession, vars, coreVars, bookVars,
        edgeVars, venueVars, trackerVars
  <1> QED
    BY <1>2, <1>3, <1>4, <1>5, <1>6, <1>7, <1>8, <1>9, <1>10, <1>11, <1>12, <1>13, <1>14, <1>15
    DEF Next, CoreStep, EdgeStep

VenueInductive == GateInductive /\ VenueInv

(* While the replies to placements arrive, the invariant of the gate and of the venue holds
   in every reachable state. *)
LEMMA VenueInvariant ==
    ASSUME ~RepliesLost
    PROVE  Spec => []VenueInductive
  <1>1. Init => VenueInductive
    BY TypeInvInit, GateInvInit, VenueInvInit DEF VenueInductive, GateInductive
  <1>2. VenueInductive /\ [Next]_vars => VenueInductive'
    BY TypeInvNext, SlotsInvNext, StagesNext, VenueInvNext DEF VenueInductive, GateInductive
  <1> QED
    BY <1>1, <1>2, PTL DEF Spec

(* What makes one order per slot rest, stage by stage (plan, submit_intent, the
   sweep's cancels), while the reply to every placement arrives and however
   many cancels fail: whatever is about to place has asked for all that rests
   to be taken down, an id that is done with has left the venue, and what
   rests is known or its reply is under way. *)
THEOREM CancelsCoverTheVenue ==
    ASSUME ~RepliesLost
    PROVE  Spec => []VenueInv
  <1>1. VenueInductive => VenueInv
    BY DEF VenueInductive
  <1> QED
    BY <1>1, VenueInvariant, PTL

(* The core plans from a complete picture (submit_intent's on_ack comes before
   its release): while the reply to every placement arrives, and every symbol
   has a bit of its own, an order that rests at the venue is known to the tracker by the time
   its symbol can be planned again. *)
THEOREM PlansSeeEveryOrder ==
    ASSUME ~RepliesLost, Covered = Symbols
    PROVE  Spec => []RestingOrdersAreKnown
  <1>1. VenueInductive => RestingOrdersAreKnown
    <2> SUFFICES ASSUME VenueInductive, NEW o \in live
                 PROVE  Contains(o.symbol) \/ o \in working
      BY DEF RestingOrdersAreKnown
    <2>1. TypeInv /\ SlotsInv /\ VenueInv /\ o.symbol \in Covered
      BY DEF VenueInductive, GateInductive, TypeInv, TypeOK, Orders
    <2>2. CASE o \in working
      BY <2>2
    <2>3. ASSUME NEW x \in AtEdge, o \in x.place
          PROVE  Contains(o.symbol)
      <3>1. x.symbol = o.symbol
        BY <2>1, <2>3 DEF VenueInv, OrdersAreMinted
      <3> QED
        BY <2>1, <3>1, SlotsApart DEF Contains
    <2> QED
      BY <2>1, <2>2, <2>3 DEF VenueInv, RestingAreKnownOrAcked
  <1> QED
    BY <1>1, VenueInvariant, PTL

(* One target does not become two orders: while the reply to every placement
   arrives, and every symbol has a bit of its own, two orders of a symbol rest
   at the venue only if the cancel of one of them was sent and failed, however
   passes, re-quotes, cancels, fills and frames interleave. *)
THEOREM OneOrderRests ==
    ASSUME ~RepliesLost, Covered = Symbols
    PROVE  Spec => []OneLiveOrderPerSymbol
  <1>1. VenueInductive => OneLiveOrderPerSymbol
    BY DEF VenueInductive, GateInductive, TypeInv, TypeOK, Orders, VenueInv,
           OneRestsPerSlot, SameSlot, OneLiveOrderPerSymbol
  <1> QED
    BY <1>1, VenueInvariant, PTL

-----------------------------------------------------------------------------
(* IntentPipeline implements IntentSlots. *)

Busy(s) == \E x \in Waiting \cup AtEdge : x.symbol = s
Answered(s) == epc \in {"ack", "ackFilled", "release"} /\ \E x \in AtEdge : x.symbol = s

(* The slot of a symbol, read off the sets of intents. *)
LEMMA SlotOfIs ==
    TypeInv => \A s : SlotOf(s) = IF ~Busy(s) THEN "free"
                                  ELSE IF Answered(s) THEN "spent" ELSE "open"
  <1> SUFFICES ASSUME TypeInv, NEW s
               PROVE  SlotOf(s) = IF ~Busy(s) THEN "free"
                                  ELSE IF Answered(s) THEN "spent" ELSE "open"
    OBVIOUS
  <1> DEFINE a == Len(outgoing)
             b == Len(outgoing) + Len(queue)
  <1>1. /\ a \in Nat /\ b \in Nat /\ a <= b /\ Len(outgoing) \in Nat /\ Len(queue) \in Nat
        /\ Len(cur) \in Nat /\ Len(Outstanding) = b + Len(cur)
    BY OutstandingAt DEF TypeInv, TypeOK
  <1>2. \A i \in 1..Len(Outstanding) : Outstanding[i] \in Waiting \cup AtEdge
    BY <1>1, OutstandingAt DEF Waiting, AtEdge
  <1>3. \A x \in Waiting \cup AtEdge : \E i \in 1..Len(Outstanding) : Outstanding[i] = x
    <2>1. ASSUME NEW i \in 1..Len(outgoing)
          PROVE  i \in 1..Len(Outstanding) /\ Outstanding[i] = outgoing[i]
      BY <1>1, OutstandingAt
    <2>2. ASSUME NEW i \in 1..Len(queue)
          PROVE  a + i \in 1..Len(Outstanding) /\ Outstanding[a + i] = queue[i]
      <3>1. a + i \in 1..Len(Outstanding) /\ a + i > a /\ a + i <= b /\ (a + i) - a = i
        BY <1>1
      <3> QED
        BY <3>1, OutstandingAt
    <2>3. ASSUME NEW i \in 1..Len(cur)
          PROVE  b + i \in 1..Len(Outstanding) /\ Outstanding[b + i] = cur[i]
      <3>1. b + i \in 1..Len(Outstanding) /\ b + i > b /\ (b + i) - b = i
        BY <1>1
      <3> QED
        BY <3>1, OutstandingAt
    <2> QED
      BY <2>1, <2>2, <2>3 DEF Waiting, AtEdge
  <1>4. (\A i \in 1..Len(Outstanding) : Outstanding[i].symbol # s) <=> ~Busy(s)
    BY <1>2, <1>3 DEF Busy
  <1>5. (cur # <<>> /\ Head(cur).symbol = s /\ epc \in {"ack", "ackFilled", "release"})
            <=> Answered(s)
    BY SetTypes DEF Answered
  <1> QED
    BY <1>4, <1>5 DEF SlotOf

(* What each action does to the sets, exactly. *)
LEMMA WaitingExactly ==
    ASSUME TypeInv, SlotsInv
    PROVE  /\ TrySend => \/ Waiting' = Waiting
                         \/ /\ Head(outgoing) \in Waiting /\ Waiting' \subseteq Waiting
                            /\ \A x \in Waiting' : ~SameSlot(x, Head(outgoing))
                            /\ \A x \in Waiting : x \in Waiting' \/ x = Head(outgoing)
           /\ Receive => Waiting' \cup AtEdge' = Waiting /\ AtEdge = {}
  <1>1. ASSUME TrySend
        PROVE  \/ Waiting' = Waiting
               \/ /\ Head(outgoing) \in Waiting /\ Waiting' \subseteq Waiting
                  /\ \A x \in Waiting' : ~SameSlot(x, Head(outgoing))
                  /\ \A x \in Waiting : x \in Waiting' \/ x = Head(outgoing)
    <2>1. /\ outgoing \in Seq(Intents) /\ queue \in Seq(Intents) /\ Len(outgoing') = 0
          /\ Len(outgoing) = 1 /\ Head(outgoing) = outgoing[1] /\ Head(outgoing) \in Intents
      BY <1>1, AtMostOne, EmptySeq DEF TypeInv, TypeOK, OneInHand, TrySend
    <2>2. CASE queue' = Append(queue, Head(outgoing))
      <3>1. /\ Len(queue') = Len(queue) + 1 /\ Len(queue) \in Nat
            /\ \A i \in 1..Len(queue) : queue'[i] = queue[i]
            /\ queue'[Len(queue) + 1] = outgoing[1]
        BY <2>1, <2>2, AppendProperties
      <3>2. Len(queue) + 1 \in 1..Len(queue') /\ \A i \in 1..Len(queue) : i \in 1..Len(queue')
        BY <3>1
      <3>3. Waiting \subseteq Waiting'
        BY <2>1, <3>1, <3>2 DEF Waiting
      <3> QED
        BY <1>1, <3>3, WaitingAfterSend
    <2>3. CASE queue' = queue
      <3>1. Waiting' = {queue[i] : i \in 1..Len(queue)}
        BY <2>1, <2>3 DEF Waiting
      <3>2. Waiting = {Head(outgoing)} \cup {queue[i] : i \in 1..Len(queue)}
        BY <2>1 DEF Waiting
      <3>3. \A i \in 1..Len(queue) : ~SameSlot(queue[i], Head(outgoing))
        BY <2>1 DEF SlotsInv, SlotsDistinct, SameSlot
      <3> QED
        BY <3>1, <3>2, <3>3
    <2> QED
      BY <1>1, <2>2, <2>3 DEF TrySend
  <1>2. ASSUME Receive
        PROVE  Waiting' \cup AtEdge' = Waiting /\ AtEdge = {}
    <2>1. queue \in Seq(Intents) /\ queue # <<>> /\ Len(queue) \in Nat \ {0}
      BY <1>2, EmptySeq DEF TypeInv, TypeOK, Receive
    <2>2. /\ Len(queue') = Len(queue) - 1 /\ Head(queue) = queue[1]
          /\ \A i \in 1..Len(queue') : queue'[i] = queue[i + 1] /\ i + 1 \in 1..Len(queue)
      BY <1>2, <2>1, HeadTailProperties DEF Receive
    <2>3. \A i \in 1..Len(queue) :
            i = 1 \/ (i - 1 \in 1..Len(queue') /\ queue'[i - 1] = queue[i])
      <3> SUFFICES ASSUME NEW i \in 1..Len(queue), i # 1
                   PROVE  i - 1 \in 1..Len(queue') /\ queue'[i - 1] = queue[i]
        OBVIOUS
      <3>1. i - 1 \in 1..Len(queue') /\ (i - 1) + 1 = i
        BY <2>1, <2>2
      <3> QED
        BY <2>2, <3>1
    <2>4. outgoing' = outgoing
      BY <1>2 DEF Receive, coreVars
    <2>5. Waiting \subseteq Waiting' \cup {Head(queue)}
      BY <2>2, <2>3, <2>4 DEF Waiting
    <2>6. AtEdge = {}
      <3>1. cur = <<>>
        BY <1>2 DEF Receive, TypeInv, OneInHand
      <3> QED
        BY <3>1, SetTypes
    <2> QED
      BY <1>2, <2>5, <2>6, WaitingAfterReceive
  <1> QED
    BY <1>1, <1>2

(* The initial state is an initial state of the slots. *)
LEMMA SlotsInit == Init => SlotSpec!Init
  <1> SUFFICES ASSUME Init PROVE SlotSpec!Init
    OBVIOUS
  <1>1. Waiting = {} /\ AtEdge = {} /\ live = {}
    BY EmptySeq DEF Init, Waiting, AtEdge
  <1>2. \A s : SlotOf(s) = "free"
    BY <1>1, TypeInvInit, SlotOfIs DEF Busy
  <1>3. KeptResting = {}
    BY DEF Init, KeptResting
  <1> QED
    BY <1>1, <1>2, <1>3 DEF SlotSpec!Init

(* Every step is a step of the slots, or none: a claim opens a slot, the last
   cancel of an intent that places nothing and the answer to a placement spend
   it, a cancel that fails keeps an order under it, a drop and a release settle it. *)
LEMMA SlotsNext ==
    ASSUME ~RepliesLost
    PROVE  VenueInductive /\ TypeInv' /\ [Next]_vars => [SlotSpec!Next]_(SlotSpec!slotVars)
  <1> SUFFICES ASSUME VenueInductive, TypeInv', [Next]_vars
               PROVE  [SlotSpec!Next]_(SlotSpec!slotVars)
    OBVIOUS
  <1> DEFINE slot == [s \in Covered |-> SlotOf(s)]
             resting == {o \in live : o.symbol \in Covered}
             Elsewhere(t) == {o \in KeptResting : o.symbol # t}
             Same == \A s \in Covered : SlotOf(s)' = SlotOf(s)
             Others(t) == \A s \in Covered : s # t => SlotOf(s)' = SlotOf(s)
  <1>0. TypeInv /\ SlotsInv /\ StagesSeeTheTruth /\ VenueInv
    BY DEF VenueInductive, GateInductive
  <1>1. \A s : SlotOf(s) = IF ~Busy(s) THEN "free"
                           ELSE IF Answered(s) THEN "spent" ELSE "open"
    BY <1>0, SlotOfIs
  <1>2. \A s : SlotOf(s)' = IF ~Busy(s)' THEN "free"
                            ELSE IF Answered(s)' THEN "spent" ELSE "open"
    <2>1. TypeInv' => (\A s : SlotOf(s) = IF ~Busy(s) THEN "free"
                                  ELSE IF Answered(s) THEN "spent" ELSE "open")'
      BY SlotOfIs, PTL
    <2> QED
      BY <2>1
  <1>e. \A t : SlotSpec!KeptElsewhere(t) = Elsewhere(t)
    BY DEF SlotSpec!KeptElsewhere, SymbolOfOrder
  <1>k. /\ epc \notin {"cancel", "place"} => KeptResting = {}
        /\ epc' \notin {"cancel", "place"} => KeptResting' = {}
        /\ \A o \in KeptResting : o \in live /\ o.symbol \in Covered
        /\ \A o \in KeptResting : AtEdge = {Head(cur)} /\ o.symbol = Head(cur).symbol
        /\ UNCHANGED <<cur, epc, live, toCancel>> => KeptResting' = KeptResting
    BY <1>0, SetTypes DEF KeptResting
  <1>3. ASSUME Same, live' = live, KeptResting' = KeptResting
        PROVE  SlotSpec!slotVars' = SlotSpec!slotVars
    BY <1>3 DEF SlotSpec!slotVars
  <1>4. ASSUME NEW s \in Covered, SlotOf(s) = "free", SlotOf(s)' = "open", Others(s), live' = live,
               KeptResting' = KeptResting
        PROVE  SlotSpec!Next
    <2>1. SlotSpec!Open(s)
      BY <1>4 DEF SlotSpec!Open
    <2> QED
      BY <2>1 DEF SlotSpec!Next
  <1>5. ASSUME NEW s \in Covered, SlotOf(s) = "open", SlotOf(s)' = "spent", Others(s), live' = live,
               KeptResting' = Elsewhere(s)
        PROVE  SlotSpec!Next
    <2>1. SlotSpec!Spend(s)
      BY <1>5, <1>e DEF SlotSpec!Spend
    <2> QED
      BY <2>1 DEF SlotSpec!Next
  <1>6. ASSUME NEW s \in Covered, SlotOf(s) # "free", SlotOf(s)' = "free", Others(s), live' = live,
               KeptResting' = Elsewhere(s)
        PROVE  SlotSpec!Next
    <2>1. SlotSpec!Settle(s)
      BY <1>6, <1>e DEF SlotSpec!Settle
    <2> QED
      BY <2>1 DEF SlotSpec!Next
  <1>7. ASSUME NEW o \in live, live' = live \ {o}, Same, KeptResting' = KeptResting \ {o}
        PROVE  [SlotSpec!Next]_(SlotSpec!slotVars)
    <2>1. CASE o.symbol \in Covered
      <3>1. o \in Orders
        BY <1>0 DEF TypeInv, TypeOK
      <3>2. SlotSpec!Withdraw(o)
        BY <1>7, <2>1 DEF SlotSpec!Withdraw
      <3> QED
        BY <2>1, <3>1, <3>2 DEF SlotSpec!Next
    <2>2. CASE o.symbol \notin Covered
      BY <1>7, <1>k, <2>2 DEF SlotSpec!slotVars
    <2> QED
      BY <2>1, <2>2
  <1>8. ASSUME UNCHANGED <<outgoing, queue, cur, epc>>
        PROVE  Same
    <2>1. Waiting' = Waiting /\ AtEdge' = AtEdge
      BY <1>8 DEF Waiting, AtEdge
    <2> QED
      BY <1>1, <1>2, <1>8, <2>1 DEF Busy, Answered
  <1>9. ASSUME NEW i, outgoing = <<>>, Offer(i), i.symbol \in Covered => i.symbol \notin bits,
               UNCHANGED <<queue, cur, epc, live, toCancel>>
        PROVE  [SlotSpec!Next]_(SlotSpec!slotVars)
    <2>1. Waiting' = Waiting \cup {i} /\ AtEdge' = AtEdge
      BY <1>0, <1>9, WaitingAfterOffer DEF AtEdge
    <2>2. \A s \in Covered : s # i.symbol => SlotOf(s)' = SlotOf(s)
      BY <1>1, <1>2, <1>9, <2>1 DEF Busy, Answered
    <2>3. CASE i.symbol \in Covered
      <3>1. ~Busy(i.symbol)
        BY <1>0, <1>9, <2>3, SlotsApart DEF Busy
      <3>2. SlotOf(i.symbol) = "free" /\ SlotOf(i.symbol)' = "open"
        BY <1>1, <1>2, <2>1, <3>1 DEF Busy, Answered
      <3> QED
        BY <1>4, <1>9, <1>k, <2>2, <2>3, <3>2
    <2>4. CASE i.symbol \notin Covered
      BY <1>3, <1>9, <1>k, <2>2, <2>4
    <2> QED
      BY <2>3, <2>4
  <1>10. ASSUME epc \in {"cancel", "place"}, epc' \in {"ack", "ackFilled", "release"},
                UNCHANGED <<outgoing, queue, cur>>
         PROVE  LET s == Head(cur).symbol
                IN  SlotOf(s) = "open" /\ SlotOf(s)' = "spent" /\ Others(s)
    <2>1. AtEdge = {Head(cur)} /\ Waiting' = Waiting /\ AtEdge' = AtEdge
      BY <1>0, <1>10, HeadsInHand, SetTypes DEF Waiting, AtEdge
    <2> QED
      BY <1>1, <1>2, <1>10, <2>1 DEF Busy, Answered
  <1>11. ASSUME epc \in {"cancel", "place"}, epc' \in {"ack", "ackFilled", "release"},
                UNCHANGED <<outgoing, queue, cur, live>>
         PROVE  [SlotSpec!Next]_(SlotSpec!slotVars)
    <2>0. /\ KeptResting' = {} /\ Elsewhere(Head(cur).symbol) = {}
          /\ Head(cur).symbol \notin Covered => KeptResting = {}
      BY <1>11, <1>k
    <2>1. CASE Head(cur).symbol \in Covered
      BY <1>5, <1>10, <1>11, <2>0, <2>1
    <2>2. CASE Head(cur).symbol \notin Covered
      BY <1>3, <1>10, <1>11, <2>0, <2>2
    <2> QED
      BY <2>1, <2>2
  <1>12. ASSUME NEW s \in Symbols, PlanSymbol(s) \/ SweepSymbol(s) \/ RequoteSymbol(s)
         PROVE  [SlotSpec!Next]_(SlotSpec!slotVars)
    <2>1. outgoing = <<>> /\ UNCHANGED <<queue, cur, epc, live, toCancel>>
      BY <1>12 DEF PlanSymbol, SweepSymbol, RequoteSymbol, edgeVars, venueVars
    <2>2. CASE outgoing' = outgoing
      BY <1>3, <1>8, <1>k, <2>1, <2>2
    <2>3. ASSUME NEW i, i.symbol = s, Offer(i), s \in Covered => s \notin bits
          PROVE  [SlotSpec!Next]_(SlotSpec!slotVars)
      BY <1>9, <2>1, <2>3
    <2>4. s \in Covered => s \notin bits \/ outgoing' = outgoing
      BY <1>0, <1>12
      DEF PlanSymbol, SweepSymbol, RequoteSymbol, StagesSeeTheTruth, OrdersOf, Contains
    <2>5. outgoing' = outgoing \/ \E i : i.symbol = s /\ Offer(i)
      <3>1. CASE PlanSymbol(s)
        BY <3>1 DEF PlanSymbol
      <3>2. CASE SweepSymbol(s)
        BY <3>2 DEF SweepSymbol
      <3>3. CASE RequoteSymbol(s)
        BY <3>3 DEF RequoteSymbol
      <3> QED
        BY <1>12, <3>1, <3>2, <3>3
    <2> QED
      BY <2>2, <2>3, <2>4, <2>5
  <1>13. CASE TrySend
    <2>1. UNCHANGED <<cur, epc, live, toCancel>> /\ AtEdge' = AtEdge
      BY <1>13 DEF TrySend, edgeVars, venueVars, AtEdge
    <2>2. CASE Waiting' = Waiting
      BY <1>1, <1>2, <1>3, <1>k, <2>1, <2>2 DEF Busy, Answered
    <2>3. CASE /\ Head(outgoing) \in Waiting /\ Waiting' \subseteq Waiting
               /\ \A x \in Waiting' : ~SameSlot(x, Head(outgoing))
               /\ \A x \in Waiting : x \in Waiting' \/ x = Head(outgoing)
      <3>0. PICK t : t = Head(outgoing).symbol
        OBVIOUS
      <3>1. Others(t)
        BY <1>1, <1>2, <2>1, <2>3, <3>0 DEF Busy, Answered
      <3>2. CASE t \in Covered
        <4>1. Busy(t) /\ ~Busy(t)'
          BY <1>0, <2>1, <2>3, <3>0, <3>2, SlotsApart DEF Busy, SameSlot
        <4>2. \A x \in AtEdge : x.symbol # t
          BY <1>0, <2>3, <3>0, <3>2, SlotsApart DEF SameSlot
        <4>3. KeptResting' = Elsewhere(t)
          BY <1>k, <2>1, <4>2
        <4> QED
          BY <1>1, <1>2, <1>6, <2>1, <3>1, <3>2, <4>1, <4>3
      <3>3. CASE t \notin Covered
        BY <1>3, <1>k, <2>1, <3>1, <3>3
      <3> QED
        BY <3>2, <3>3
    <2> QED
      BY <1>0, <1>13, <2>2, <2>3, WaitingExactly
  <1>14. CASE Receive
    <2>1. Waiting' \cup AtEdge' = Waiting \cup AtEdge
      BY <1>0, <1>14, WaitingExactly
    <2>2. epc = "poll" /\ epc' = "cancel" /\ live' = live
      BY <1>14 DEF Receive, venueVars
    <2>3. KeptResting' = {}
      <3>1. cur' = <<Head(queue)>> /\ toCancel' = Head(queue).cancels
        BY <1>14 DEF Receive
      <3>2. Head(cur') = Head(queue)
        BY <3>1
      <3> QED
        BY <3>1, <3>2 DEF KeptResting
    <2> QED
      BY <1>1, <1>2, <1>3, <1>k, <2>1, <2>2, <2>3 DEF Busy, Answered
  <1>15. ASSUME NEW o \in toCancel, CancelOne(o)
         PROVE  [SlotSpec!Next]_(SlotSpec!slotVars)
    <2>1. Same
      BY <1>8, <1>15 DEF CancelOne, coreVars
    <2>2. /\ epc = "cancel" /\ epc' = epc /\ cur' = cur /\ toCancel' = toCancel \ {o}
          /\ AtEdge = {Head(cur)} /\ cur # <<>>
      BY <1>0, <1>15, HeadsInHand, SetTypes DEF CancelOne
    <2>3. CASE LeavesVenue(o)
      <3>1. o \in live /\ live' = live \ {o} /\ KeptResting' = KeptResting \ {o}
        BY <1>15, <2>2, <2>3 DEF LeavesVenue, KeptResting
      <3> QED
        BY <1>7, <2>1, <3>1
    <2>4. CASE o \notin live /\ UNCHANGED venueVars
      <3>1. live' = live /\ KeptResting' = KeptResting
        BY <2>2, <2>4 DEF venueVars, KeptResting
      <3> QED
        BY <1>3, <2>1, <3>1
    <2>5. CASE o \in live /\ UNCHANGED <<live, frames>>
      <3>1. KeptResting' = KeptResting
                \/ (KeptResting' = KeptResting \cup {o} /\ o.symbol = Head(cur).symbol
                        /\ o.symbol \in Covered)
        BY <2>2, <2>5 DEF KeptResting
      <3>2. CASE KeptResting' = KeptResting
        BY <1>3, <2>1, <2>5, <3>2
      <3>3. CASE /\ KeptResting' = KeptResting \cup {o} /\ o.symbol = Head(cur).symbol
                 /\ o.symbol \in Covered
        <4>1. SlotOf(o.symbol) = "open"
          BY <1>1, <2>2, <3>3 DEF Busy, Answered
        <4>2. o \in Orders
          BY <1>0, <2>5 DEF TypeInv, TypeOK
        <4>3. SlotSpec!Keep(o)
          BY <2>1, <2>5, <3>3, <4>1 DEF SlotSpec!Keep, SymbolOfOrder
        <4> QED
          BY <3>3, <4>2, <4>3 DEF SlotSpec!Next, SymbolOfOrder
      <3> QED
        BY <3>1, <3>2, <3>3
    <2> QED
      BY <1>15, <2>3, <2>4, <2>5 DEF CancelOne
  <1>16. CASE CancelsDone
    <2>1. epc = "cancel" /\ epc' \in {"release", "place"} /\ UNCHANGED <<outgoing, queue, cur, live, toCancel>>
      BY <1>16 DEF CancelsDone, coreVars, venueVars
    <2>2. CASE epc' = "release"
      BY <1>11, <2>1, <2>2
    <2>3. CASE epc' = "place"
      <3>1. Waiting' = Waiting /\ AtEdge' = AtEdge
        BY <2>1 DEF Waiting, AtEdge
      <3>2. KeptResting' = KeptResting
        BY <2>1, <2>3 DEF KeptResting
      <3> QED
        BY <1>1, <1>2, <1>3, <2>1, <2>3, <3>1, <3>2 DEF Busy, Answered
    <2> QED
      BY <2>1, <2>2, <2>3
  <1>17. ASSUME NEW outcome \in {"resting", "filled", "lost", "refused"}, Place(outcome)
         PROVE  [SlotSpec!Next]_(SlotSpec!slotVars)
    <2>1. /\ outcome # "lost" /\ epc = "place" /\ epc' \in {"ack", "ackFilled", "release"}
          /\ UNCHANGED <<outgoing, queue, cur>>
      BY <1>17 DEF Place, AfterReply, coreVars
    <2>2. CASE outcome = "resting"
      <3>1. /\ Head(cur) \in Intents /\ AtEdge = {Head(cur)}
            /\ live' = live \cup Head(cur).place
        BY <1>0, <1>17, <2>1, <2>2, HeadsInHand, SetTypes DEF Place
      <3>2. PICK o \in Head(cur).place : o.symbol = Head(cur).symbol /\ Head(cur).place = {o}
        BY <1>0, <2>1, <3>1 DEF VenueInv, OrdersAreMinted, CancelsCoverWhatRests
      <3>3. o \in Orders
        BY <3>1, <3>2, IntentFields
      <3>4. CASE o.symbol \in Covered
        <4>1. \A r \in live : r.symbol = o.symbol => r \in KeptResting
          <5>1. cur # <<>> /\ toCancel = {}
            BY <1>0, <2>1, <3>1, HeadsInHand DEF VenueInv, CancelsCoverWhatRests
          <5>2. \A r \in live : r.symbol = o.symbol => r \in Head(cur).cancels
            BY <1>0, <2>1, <3>1, <3>2, <3>4 DEF VenueInv, CancelsCoverWhatRests, RestingFor
          <5> QED
            BY <2>1, <3>2, <3>4, <5>1, <5>2 DEF KeptResting
        <4>2. SlotOf(o.symbol) = "open" /\ SlotOf(o.symbol)' = "spent" /\ Others(o.symbol)
          BY <1>10, <2>1, <3>2
        <4>3. SlotSpec!Place(o)
          <5>1. slot[SymbolOfOrder(o)] = "open"
            BY <3>4, <4>2 DEF SymbolOfOrder
          <5>2. \A r \in resting : SymbolOfOrder(r) = SymbolOfOrder(o) => r \in KeptResting
            BY <4>1 DEF SymbolOfOrder
          <5>3. resting' = resting \cup {o}
            BY <3>1, <3>2, <3>4
          <5>4. slot' = [slot EXCEPT ![SymbolOfOrder(o)] = "spent"]
            BY <3>4, <4>2 DEF SymbolOfOrder
          <5>5. KeptResting' = SlotSpec!KeptElsewhere(SymbolOfOrder(o))
            <6>1. KeptResting' = {} /\ Elsewhere(o.symbol) = {}
              BY <1>k, <2>1, <3>2
            <6> QED
              BY <1>e, <6>1 DEF SymbolOfOrder
          <5> QED
            BY <5>1, <5>2, <5>3, <5>4, <5>5 DEF SlotSpec!Place
        <4> QED
          BY <3>3, <3>4, <4>3 DEF SlotSpec!Next, SymbolOfOrder
      <3>5. CASE o.symbol \notin Covered
        <4>1. Same
          BY <1>10, <2>1, <3>2, <3>5
        <4>2. resting' = resting
          BY <3>1, <3>2, <3>5
        <4>3. KeptResting' = KeptResting
          BY <1>k, <2>1, <3>2, <3>5
        <4> QED
          BY <4>1, <4>2, <4>3 DEF SlotSpec!slotVars
      <3> QED
        BY <3>4, <3>5
    <2>3. CASE outcome \in {"filled", "refused"}
      BY <1>11, <1>17, <2>1, <2>3 DEF Place, venueVars
    <2> QED
      BY <2>1, <2>2, <2>3
  <1>18. CASE Ack
    <2>1. /\ epc \in {"ack", "ackFilled"} /\ epc' = "release" /\ live' = live
          /\ Waiting' = Waiting /\ AtEdge' = AtEdge
      BY <1>18 DEF Ack, coreVars, venueVars, Waiting, AtEdge
    <2> QED
      BY <1>1, <1>2, <1>3, <1>k, <2>1 DEF Busy, Answered
  <1>19. CASE Finish
    <2>1. /\ epc = "release" /\ epc' = "poll" /\ live' = live /\ Waiting' = Waiting /\ AtEdge' = {}
          /\ AtEdge = {Head(cur)}
      BY <1>0, <1>19, HeadsInHand, SetTypes, EmptySeq
      DEF Finish, coreVars, venueVars, Waiting, AtEdge
    <2>0. PICK t : t = Head(cur).symbol
      OBVIOUS
    <2>2. Others(t) /\ KeptResting' = KeptResting /\ KeptResting' = Elsewhere(t)
      BY <1>1, <1>2, <1>k, <2>0, <2>1 DEF Busy, Answered
    <2>3. CASE t \in Covered
      <3>1. Busy(t) /\ ~Busy(t)'
        BY <1>0, <2>0, <2>1, <2>3, SlotsApart DEF Busy, SameSlot
      <3> QED
        BY <1>1, <1>2, <1>6, <2>1, <2>2, <2>3, <3>1
    <2>4. CASE t \notin Covered
      BY <1>3, <2>1, <2>2, <2>4
    <2> QED
      BY <2>3, <2>4
  <1>20. CASE PumpExit
    <2>1. epc = "poll" /\ epc' = "exited" /\ live' = live /\ Waiting' = Waiting /\ AtEdge' = AtEdge
      BY <1>20 DEF PumpExit, coreVars, venueVars, Waiting, AtEdge
    <2> QED
      BY <1>1, <1>2, <1>3, <1>k, <2>1 DEF Busy, Answered
  <1>21. ASSUME NEW o \in live, VenueClose(o)
         PROVE  [SlotSpec!Next]_(SlotSpec!slotVars)
    <2>1. Same /\ live' = live \ {o} /\ UNCHANGED <<cur, epc, toCancel>>
      BY <1>8, <1>21 DEF VenueClose, LeavesVenue, coreVars, edgeVars
    <2>2. KeptResting' = KeptResting \ {o}
      BY <2>1 DEF KeptResting
    <2> QED
      BY <1>7, <2>1, <2>2
  <1>22. CASE \/ \E spoken \in SUBSET (Strategies \X Symbols), fresh \in SUBSET carried,
                   due \in BOOLEAN : BeginPass(spoken, fresh, due)
              \/ \E r \in pass : AdmitRecord(r)
              \/ BeginPlanning
              \/ \E old \in SUBSET working : EndPlanning(old)
              \/ EndSweep \/ EndPass \/ ApplyFrame
    BY <1>3, <1>8, <1>k, <1>22
    DEF BeginPass, AdmitRecord, HoldRecord, BeginPlanning, EndPlanning, EndSweep, EndPass,
        ApplyFrame, coreVars, edgeVars, venueVars
  <1>23. CASE HaltSession \/ ResumeSession \/ RequestStop \/ StopSession \/ UNCHANGED vars
    BY <1>3, <1>8, <1>k, <1>23
    DEF HaltSession, ResumeSession, RequestStop, StopSession, vars, coreVars, edgeVars, venueVars
  <1> QED
    BY <1>12, <1>13, <1>14, <1>15, <1>16, <1>17, <1>18, <1>19, <1>20, <1>21, <1>22, <1>23
    DEF Next, CoreStep, EdgeStep

(* Passes, queue, threads and tracker left out, the pipeline is a set of slots:
   an order is placed only under an open slot, once per intent, and only when
   every other order of the symbol that rests was asked to leave under that
   slot and was kept, for every instance in which the reply to every placement
   arrives. *)
THEOREM PipelineImplementsSlots ==
    ASSUME ~RepliesLost
    PROVE  Spec => ImplementsSlots
  <1>1. VenueInductive => TypeInv
    BY DEF VenueInductive, GateInductive
  <1>2. VenueInductive /\ VenueInductive' /\ [Next]_vars => [SlotSpec!Next]_(SlotSpec!slotVars)
    <2>1. VenueInductive' => TypeInv'
      BY <1>1, PTL
    <2> QED
      BY <2>1, SlotsNext
  <1> QED
    BY <1>2, SlotsInit, VenueInvariant, PTL DEF Spec, ImplementsSlots, SlotSpec!Spec
=============================================================================
