----------------------------- MODULE TargetBook -----------------------------
(***************************************************************************)
(* Several producers, one account:                                         *)
(*   axon-strategy/src/book.rs     the claims and what they add up to      *)
(*   axon-strategy/src/fixed.rs    scaling a wire quantity                 *)
(*   axon-strategy/src/planner.rs  the client id of a planned order        *)
(*   axon-risk/src/portfolio.rs    the factor that makes a book fit        *)
(*   axon-runtime/src/intent.rs    the pass: its records, the allocation,  *)
(*                                 the plans, the sweep and the re-quotes  *)
(* An order at the venue is an amount and its ages; Planner has the grid   *)
(* and the prices, of which only this is left: whether a plan finds an     *)
(* order to place.  IntentPipeline has the queue and the lost replies.     *)
(***************************************************************************)
EXTENDS Integers, Sequences, FiniteSets, FiniteSetsExt, Functions

CONSTANTS
    Sessions,       \* what an operator may configure, and the market it meets
    MaxAge,         \* bound: ages are told apart up to here
    MaxNetSeq       \* bound: so are synthesized sequence numbers

Unbounded == 0      \* a limit, a window or a lifetime nobody wrote

(* A session has its producers' policies, universes and budgets, the limits of
   the book, the marks (0 for an instrument without a price), the targets that
   producers may state, how an instrument may fail to be priced, and how much
   may happen in it. *)
Policy == [onSilence : {"Hold", "Flat"}, window : 0..(MaxAge - 1)]
IsSession(c) ==
    /\ c.policies \in Seq(Policy)
    /\ c.owns \in [DOMAIN c.policies -> SUBSET DOMAIN c.marks]
    /\ c.budgets \in [DOMAIN c.policies -> Nat]
    /\ c.overlap \in {"Exclusive", "Net"}
    /\ c.marks \in Seq(Nat)
    /\ c.scaleToFit \in BOOLEAN
    /\ {c.gross, c.net, c.symbols, c.requotes, c.records, c.refusals} \subseteq Nat
    /\ {c.halts, c.failures} \subseteq Nat
    /\ c.ticks \in Nat \ {0}
    /\ c.lifetime \in 0..(MaxAge - 1) /\ c.sweepEvery \in 1..(MaxAge - 1)
    /\ c.moods \subseteq {"closed", "coarse"}
    /\ c.asks \subseteq [qty : Int, flags : SUBSET {"reduce", "close"}]

ASSUME TargetBookAssumption ==
    /\ MaxAge \in Nat \ {0} /\ MaxNetSeq \in Nat \ {0}
    /\ \A c \in Sessions : IsSession(c)

VARIABLES
    session,
    now,        \* event time, up to session.ticks
    pass,       \* of the core: "due", "allocate", "plan" or "done" at this time
    alloc,      \* what the pass may work toward, while it plans
    touched,    \* the symbols whose claims it has changed
    sinceSweep, \* since the last sweep
    stated,     \* history: how many records each producer has written
    inbox,      \* records on the rings, one for a producer and a symbol
    carried,    \* records held back by the gate, in order
    claims,     \* what each producer last stated for each symbol
    netSeq,     \* the last sequence number synthesized for each symbol
    requotes,   \* re-quotes since anyone spoke for the symbol
    position,
    working,    \* the orders at work
    market,     \* "open", or why the planner finds no order to place
    switched,   \* how often trading was halted or resumed
    intents,    \* the intent on its way to the venue, or None: it is the gate
    unquoted,   \* symbols the last re-quote found without an order or a budget
    stranded,   \* and those with a way to go that no order can express
    refusals,   \* how often the queue was full
    failures,   \* how often a cancel failed and its order rested on
    minted      \* history: the ids of the orders sent, while time is told apart

bookVars == <<claims, netSeq, requotes>>
venueVars == <<position, working>>
outside == <<market, switched, failures>>
reports == <<unquoted, stranded>>
vars == <<session, now, pass, alloc, touched, sinceSweep, stated, inbox, carried, bookVars, venueVars,
          outside, intents, reports, refusals, minted>>

Producers == DOMAIN session.policies
Symbols == DOMAIN session.marks
None == [none |-> TRUE]
Abs(n) == IF n < 0 THEN -n ELSE n
Halted == switched % 2 = 1

Init ==
    /\ session \in Sessions
    /\ now = 1 /\ pass = "due" /\ alloc = None /\ touched = {} /\ sinceSweep = MaxAge
    /\ stated = [p \in Producers |-> 0]
    /\ inbox = {} /\ carried = <<>>
    /\ claims = [p \in Producers |-> [s \in Symbols |-> None]]
    /\ netSeq = [s \in Symbols |-> 0] /\ requotes = [s \in Symbols |-> 0]
    /\ position = [s \in Symbols |-> 0] /\ working = [s \in Symbols |-> {}]
    /\ market = [s \in Symbols |-> "open"] /\ switched = 0 /\ failures = 0
    /\ intents = [s \in Symbols |-> None]
    /\ unquoted = {} /\ stranded = {} /\ refusals = 0 /\ minted = {}

-----------------------------------------------------------------------------
(* The claims.                                                             *)

Contributors(s) == {p \in Producers : claims[p][s] # None}

(* A producer is silent past its window; an unwritten window never ends. *)
Quiet(p, s) ==
    session.policies[p].window # Unbounded /\ claims[p][s].age > session.policies[p].window

Zeroed(p, s) == session.policies[p].onSilence = "Flat" /\ Quiet(p, s)
Live(s) == {p \in Contributors(s) : ~Zeroed(p, s)}

(* A share that is closing, or whose author went silent, weighs nothing. *)
Share(p, s, factors) ==
    IF Zeroed(p, s) \/ "close" \in claims[p][s].flags THEN 0
    ELSE LET f   == factors[p]
             qty == claims[p][s].qty
         IN  IF f.num >= f.den THEN qty          \* the producer's own bytes
             ELSE IF qty >= 0 THEN (qty * f.num) \div f.den
             ELSE -((-qty * f.num) \div f.den)

NetQty(s, factors) ==
    SumFunctionOnSet([p \in Contributors(s) |-> Share(p, s, factors)], Contributors(s))

(* Mutant: a number is used up only when the sum is another one. *)
NextSeqOnChange(s, sum) ==
    IF netSeq[s] > 0 /\ sum = NetQty(s, [p \in Producers |-> [num |-> 1, den |-> 1]])
    THEN netSeq[s] ELSE netSeq[s] + 1

(* net_seq: advanced by every synthesis, also of an unchanged target. *)
NextSeq(s, sum) == netSeq[s] + 1

(* What is netted is planned: a zeroed claim is a claim, which is how the
   account gets to zero rather than ceasing to be asked to. *)
IsClaimed(s) == Contributors(s) # {}

(* net: a lone live claim passes unchanged, unless it is scaled, and a close
   even then; anything else is synthesized, as old as its newest live share. *)
Net(s, factors) ==
    LET all  == Contributors(s)
        sum  == NetQty(s, factors)
        lone == CHOOSE p \in all : TRUE
        own  == /\ Cardinality(all) = 1 /\ all = Live(s)
                /\ "close" \in claims[lone][s].flags \/ sum = claims[lone][s].qty
    IN  [qty |-> sum,
         flags |-> {f \in {"reduce", "close"} : \A p \in all : f \in claims[p][s].flags},
         own |-> own,
         seq |-> IF own THEN claims[lone][s].seq ELSE NextSeq(s, sum),
         ts |-> IF own THEN claims[lone][s].ts
                ELSE IF Live(s) = {} THEN now
                ELSE Max({claims[p][s].ts : p \in Live(s)})]

-----------------------------------------------------------------------------
(* The allocation.                                                         *)

One == [num |-> 1, den |-> 1]
Zero == [num |-> 0, den |-> 1]
Times(a, b) == [num |-> a.num * b.num, den |-> a.den * b.den]
Smaller(a, b) == IF a.num * b.den <= b.num * a.den THEN a ELSE b

(* gross_scale; a factor of one multiplies nothing.  Decimal's division is
   taken for exact. *)
GrossScale(weight, limit) ==
    IF limit = Unbounded \/ weight <= limit THEN One ELSE [num |-> limit, den |-> weight]

(* The weight of the wants of each symbol at its mark, or -1 without a mark. *)
Weigh(want) ==
    IF \E s \in DOMAIN want : want[s] # 0 /\ session.marks[s] = 0 THEN -1
    ELSE SumFunctionOnSet([s \in DOMAIN want |-> Abs(want[s]) * session.marks[s]], DOMAIN want)

(* The same with its direction, of the wants of every symbol. *)
Directed(want) == SumFunctionOnSet([s \in Symbols |-> want[s] * session.marks[s]], Symbols)

(* Stage 1: each producer's own wants, silent or not, against its budget.  A
   book that is not priced is not scaled. *)
Claimed(p) == {s \in Symbols : claims[p][s] # None}
Wants(p) == [s \in Claimed(p) |-> IF "close" \in claims[p][s].flags THEN 0 ELSE claims[p][s].qty]

BudgetFactor(p) ==
    IF Weigh(Wants(p)) = -1 THEN One ELSE GrossScale(Weigh(Wants(p)), session.budgets[p])

BudgetFactors == [p \in Producers |-> BudgetFactor(p)]

(* Stage 2: what is left of the net against the limits of the whole book. *)
BookFactor(own) ==
    LET wants == [s \in Symbols |-> NetQty(s, own)]
        net   == Directed(wants)
        gross == Weigh(wants)
    IN  IF ~session.scaleToFit \/ gross = -1 THEN One
        ELSE Smaller(GrossScale(gross, session.gross), GrossScale(Abs(net), session.net))

(* Stage 3: breadth.  What is held takes its slot; of the others the largest
   come first. *)
Denied(factors) ==
    LET open == {s \in Symbols : position[s] # 0}
        wants == [s \in Symbols |-> NetQty(s, factors)]
        size == [s \in Symbols |-> Abs(wants[s]) * session.marks[s]]
        wanted == {s \in Symbols \ open : wants[s] # 0}
        Before(s) == {t \in wanted : size[t] > size[s] \/ (size[t] = size[s] /\ t < s)}
    IN  IF session.symbols = Unbounded THEN {}
        ELSE {s \in wanted : Cardinality(Before(s)) + Cardinality(open) >= session.symbols}

(* The allocation of a pass, and what it makes of the shares of a symbol
   (Allocation::apply). *)
Allocation ==
    LET own     == BudgetFactors
        book    == BookFactor(own)
        factors == [p \in Producers |-> Times(own[p], book)]
    IN  [own |-> own, factors |-> factors, denied |-> Denied(factors)]

Allocated(s) ==
    IF s \in alloc.denied THEN [p \in Producers |-> Zero] ELSE alloc.factors

-----------------------------------------------------------------------------
(* A plan, and the pass.                                                   *)

(* Where the plan takes the position: a reduce-only target neither adds to it
   nor goes through flat. *)
Goal(s, net) ==
    IF "close" \in net.flags THEN 0
    ELSE IF "reduce" \in net.flags
    THEN Max({Min({net.qty, Max({position[s], 0})}), Min({position[s], 0})})
    ELSE net.qty

(* cloid_for: the stamp, the low 32 bits of the sequence number, the symbol.
   The tag of a synthesized number is its top bit. *)
Cloid(s, net) == <<net.ts, net.seq, s>>

(* An order past its lifetime, where one is set. *)
Outlived(o) == session.lifetime # Unbounded /\ o.age > session.lifetime

Slots(orders) == {o.slot : o \in orders}

(* The intent of a plan: every order at work goes, but one that is the only
   one, as it should be, and not too old.  Without a usable quote, or a size and
   a price the instrument can express, the plan places nothing. *)
Planned(s, net) ==
    LET qty   == IF market[s] = "open" THEN Goal(s, net) - position[s] ELSE 0
        keeps == \E o \in working[s] : working[s] = {o} /\ o.qty = qty /\ ~Outlived(o)
    IN  IF keeps \/ (qty = 0 /\ working[s] = {}) THEN None
        ELSE [cancel |-> Slots(working[s]), qty |-> qty, id |-> Cloid(s, net), own |-> net.own]

(* Stage 1, one record: held behind the gate, refused, or stated. *)
BelongsToAnother(book, p, s) ==
    \/ s \notin session.owns[p]
    \/ /\ session.overlap = "Exclusive"
       /\ \E other \in Producers \ {p} : book.claims[other][s] # None

State(book, rec) ==
    LET s == rec.symbol
    IN  IF intents[s] # None THEN [book EXCEPT !.carried = Append(@, rec)]
        ELSE IF BelongsToAnother(book, rec.producer, s) THEN book
        ELSE [book EXCEPT !.claims[rec.producer][s] =
                                [seq |-> rec.seq, ts |-> rec.ts, qty |-> rec.qty,
                                 flags |-> rec.flags, age |-> 0],
                          !.touched = @ \cup {s}]

(* The records of a pass: those carried, each displaced by a newer one of its
   producer and symbol, then the others, one producer after the other. *)
Newest(rec) ==
    LET newer == {r \in inbox : r.producer = rec.producer /\ r.symbol = rec.symbol}
    IN  IF newer = {} THEN rec ELSE CHOOSE r \in newer : TRUE

PassRecords ==
    LET fresh == {r \in inbox : \A i \in DOMAIN carried :
                                    <<carried[i].producer, carried[i].symbol>> # <<r.producer, r.symbol>>}
        First(r) == {o \in fresh : \/ o.producer < r.producer
                                   \/ o.producer = r.producer /\ o.seq < r.seq}
    IN  [i \in DOMAIN carried |-> Newest(carried[i])]
            \o [i \in 1..Cardinality(fresh) |-> CHOOSE r \in fresh : Cardinality(First(r)) = i - 1]

(* The book when they are stated, one after the other. *)
Stated(records) ==
    LET book[n \in 0..Len(records)] ==
            IF n = 0 THEN [claims |-> claims, touched |-> {}, carried |-> <<>>]
            ELSE State(book[n-1], records[n])
    IN  book[Len(records)]

(* The first stage of a pass: it reads the rings.  With nothing to read and no
   sweep due it is over. *)
SweepDue == session.lifetime # Unbounded /\ sinceSweep >= session.sweepEvery

Read ==
    /\ pass = "due"
    /\ LET book == Stated(PassRecords)
       IN  /\ claims' = book.claims
           /\ touched' = book.touched
           /\ carried' = book.carried
           /\ requotes' = [s \in Symbols |-> IF s \in book.touched THEN 0 ELSE requotes[s]]
    /\ inbox' = {}
    /\ pass' = IF PassRecords = <<>> /\ ~SweepDue THEN "done" ELSE "allocate"
    /\ UNCHANGED <<session, now, alloc, sinceSweep, stated, netSeq, venueVars, outside, intents, reports,
                   refusals, minted>>

(* The second: what the account may work toward. *)
Allocate ==
    /\ pass = "allocate"
    /\ alloc' = Allocation
    /\ pass' = "plan"
    /\ UNCHANGED <<session, now, touched, sinceSweep, stated, inbox, carried, bookVars, venueVars,
                   outside, intents, reports, refusals, minted>>

(* The orders a sweep cancels: past their lifetime, of symbols that the pass
   has not planned and that have no intent under way, and not asked for within
   another lifetime. *)
Overage(s) ==
    IF s \in touched \/ intents[s] # None THEN {}
    ELSE {o \in working[s] : Outlived(o) /\ o.asked > session.lifetime}

CancelOnly(orders) == [cancel |-> Slots(orders), qty |-> 0, id |-> <<>>, own |-> FALSE]

(* Mutant: a re-quote is for targets whose author still speaks. *)
IdleOfTheLive ==
    {s \in Symbols \ touched : IsClaimed(s) /\ Live(s) # {} /\ intents[s] = None
                                /\ working[s] = {}}

(* The targets nothing else speaks for. *)
Idle ==
    {s \in Symbols \ touched : IsClaimed(s) /\ intents[s] = None /\ working[s] = {}}

(* The target of a re-quote is the net of this moment, with its stamp. *)
Requoted(s, net) == Planned(s, [net EXCEPT !.ts = now])

(* Of the ways to find no order, those of the grid are reported. *)
Stranded(s, net) == market[s] = "coarse" /\ Goal(s, net) # position[s]

(* While trading is halted nothing is re-quoted, and nothing reported. *)
RequoteDue == SweepDue /\ ~Halted

(* The third: a plan for each symbol that was spoken for, and on the
   sweep's turn the cancels and the re-quotes.  What meets a full queue is
   lost, and a re-quote or a sweep that is lost does not count. *)
PlanAll ==
    /\ pass = "plan"
    /\ LET idle      == IF RequoteDue THEN Idle ELSE {}
            net       == [s \in touched \cup idle |-> Net(s, Allocated(s))]
            plan      == [s \in touched \cup idle |->
                            IF s \in touched THEN Planned(s, net[s]) ELSE Requoted(s, net[s])]
            wanting   == {s \in idle : plan[s] # None}
            spent     == {s \in wanting : requotes[s] >= session.requotes}
            overage   == [s \in Symbols |-> IF SweepDue THEN Overage(s) ELSE {}]
            synthesized == {s \in touched \cup idle : ~net[s].own}
            send      == [s \in Symbols |->
                            CASE s \in touched \cup (wanting \ spent) -> plan[s]
                              [] overage[s] # {} -> CancelOnly(overage[s])
                              [] OTHER -> None]
            sending   == {s \in Symbols : send[s] # None}
       IN  /\ \E sent \in SUBSET sending :
                /\ refusals + Cardinality(sending \ sent) <= session.refusals
                /\ refusals' = refusals + Cardinality(sending \ sent)
                /\ intents' = [s \in Symbols |-> IF s \in sent THEN send[s] ELSE intents[s]]
                /\ requotes' = [s \in Symbols |-> IF s \in sent \cap wanting
                                                  THEN requotes[s] + 1 ELSE requotes[s]]
                /\ minted' = IF now < session.ticks
                             THEN minted \cup {[at |-> now, id |-> send[s].id, own |-> send[s].own] :
                                        s \in {t \in sent : send[t].qty # 0 /\ netSeq[t] < MaxNetSeq}}
                             ELSE minted
                /\ working' = [s \in Symbols |->
                        {IF s \in sent /\ o \in overage[s] THEN [o EXCEPT !.asked = 0] ELSE o :
                            o \in working[s]}]
           /\ netSeq' = [s \in Symbols |-> IF s \in synthesized /\ netSeq[s] < MaxNetSeq
                                           THEN net[s].seq ELSE netSeq[s]]
           /\ unquoted' = IF RequoteDue THEN spent ELSE unquoted
           /\ stranded' = IF RequoteDue THEN {s \in idle : Stranded(s, net[s])} ELSE stranded
    /\ sinceSweep' = IF SweepDue THEN 0 ELSE sinceSweep
    /\ pass' = "done" /\ alloc' = None
    /\ touched' = {}
    /\ UNCHANGED <<session, now, stated, inbox, carried, claims, position, outside>>

-----------------------------------------------------------------------------
(* The producers, the venue, and time.                                      *)

(* The pass holds the tracker's lock from its first look at the claims on. *)
Locked == pass \in {"allocate", "plan"}

Write(p, s, ask) ==
    /\ ~Locked
    /\ now < session.ticks
    /\ SumFunctionOnSet(stated, Producers) < session.records
    /\ stated' = [stated EXCEPT ![p] = @ + 1]
    /\ inbox' = {r \in inbox : <<r.producer, r.symbol>> # <<p, s>>}
                 \cup {[producer |-> p, symbol |-> s, seq |-> stated[p] + 1, ts |-> now,
                        qty |-> ask.qty, flags |-> ask.flags]}
    /\ UNCHANGED <<session, now, pass, alloc, touched, sinceSweep, carried, bookVars, venueVars, outside,
                   intents, reports, refusals, minted>>

Free(orders) == CHOOSE n \in 1..(Cardinality(orders) + 1) : n \notin Slots(orders)
Placed(orders, qty) == orders \cup {[slot |-> Free(orders), qty |-> qty, age |-> 0, asked |-> MaxAge]}

(* submit_intent: the cancels, which an order that is done does not hear, and
   of which any may fail and leave its order resting; and then, whatever became
   of them, the order, which the gate or the venue may refuse, and which is not
   placed while trading is halted. *)
Submit(s) ==
    /\ ~Locked
    /\ intents[s] # None
    /\ \E failed \in SUBSET {o \in working[s] : o.slot \in intents[s].cancel} :
        /\ failures + Cardinality(failed) <= session.failures
        /\ failures' = failures + Cardinality(failed)
        /\ LET left == {o \in working[s] : o.slot \in intents[s].cancel => o \in failed}
           IN  \/ working' = [working EXCEPT ![s] = left]
               \/ /\ intents[s].qty # 0 /\ ~Halted
                  /\ working' = [working EXCEPT ![s] = Placed(left, intents[s].qty)]
    /\ intents' = [intents EXCEPT ![s] = None]
    /\ UNCHANGED <<session, now, pass, alloc, touched, sinceSweep, stated, inbox, carried, bookVars,
                   position, market, switched, reports, refusals, minted>>

(* An order fills, also while an intent is on its way to cancel it. *)
Fill(s) ==
    /\ ~Locked
    /\ \E o \in working[s] :
        /\ position' = [position EXCEPT ![s] = @ + o.qty]
        /\ working' = [working EXCEPT ![s] = @ \ {o}]
    /\ UNCHANGED <<session, now, pass, alloc, touched, sinceSweep, stated, inbox, carried, bookVars,
                   outside, intents, reports, refusals, minted>>

(* A quote goes, comes back, or falls below what the grid can express. *)
Reprice(s) ==
    /\ ~Locked
    /\ \E mood \in session.moods \cup {"open"} : market' = [market EXCEPT ![s] = mood]
    /\ UNCHANGED <<session, now, pass, alloc, touched, sinceSweep, stated, inbox, carried, bookVars,
                   venueVars, switched, failures, intents, reports, refusals, minted>>

(* The switch is thrown at any moment, also in the middle of a pass. *)
Halt ==
    /\ switched < session.halts
    /\ switched' = switched + 1
    /\ UNCHANGED <<session, now, pass, alloc, touched, sinceSweep, stated, inbox, carried, bookVars,
                   venueVars, market, failures, intents, reports, refusals, minted>>

Older(age) == IF age < MaxAge THEN age + 1 ELSE age

(* One interval of event time, of which the pass has had its turn. *)
Tick ==
    /\ pass = "done"
    /\ now' = IF now < session.ticks THEN now + 1 ELSE now
    /\ pass' = "due"
    /\ sinceSweep' = Older(sinceSweep)
    /\ claims' = [p \in Producers |-> [s \in Symbols |->
                    IF claims[p][s] = None THEN None ELSE [claims[p][s] EXCEPT !.age = Older(@)]]]
    /\ working' = [s \in Symbols |->
                    {[o EXCEPT !.age = Older(@), !.asked = Older(@)] : o \in working[s]}]
    /\ UNCHANGED <<session, alloc, touched, stated, inbox, carried, netSeq, requotes, position, outside,
                   intents, reports, refusals, minted>>

Core == Read \/ Allocate \/ PlanAll
Venue == \E s \in Symbols : Fill(s)
Edge == \E s \in Symbols : Submit(s)

Next ==
    \/ Core \/ Edge \/ Venue \/ Tick \/ Halt
    \/ \E s \in Symbols : Reprice(s)
    \/ \E p \in Producers, s \in Symbols, ask \in session.asks : Write(p, s, ask)

Spec == Init /\ [][Next]_vars

(* A step of the core is one that takes the pass further, and it can take one
   whenever the pass is not over. *)
PassMoves == pass # "done" /\ pass' \in {"allocate", "plan", "done"}

(* Events keep coming, each with its pass, and the edge gets the lock between
   the passes (a request ends, at the latest with the client's timeout).  The
   venue owes no fill, the market no quote, and the operator no resumption. *)
FairSpec ==
    /\ Spec
    /\ WF_pass(PassMoves)
    /\ WF_vars(Tick)
    /\ SF_vars(Edge)

-----------------------------------------------------------------------------
(* What the book promises.                                                 *)

TypeOK ==
    /\ session \in Sessions
    /\ now \in 1..session.ticks /\ sinceSweep \in 0..MaxAge
    /\ pass \in {"due", "allocate", "plan", "done"} /\ (alloc = None <=> pass # "plan") /\ touched \subseteq Symbols
    /\ \A r \in inbox : r.seq <= stated[r.producer] /\ r.ts <= now
    /\ \A p \in Producers, s \in Symbols :
            claims[p][s] # None => s \in session.owns[p] /\ claims[p][s].ts <= now
    /\ netSeq \in [Symbols -> 0..MaxNetSeq]
    /\ requotes \in [Symbols -> 0..session.requotes]
    /\ position \in [Symbols -> Int]
    /\ unquoted \subseteq Symbols /\ stranded \subseteq Symbols
    /\ market \in [Symbols -> session.moods \cup {"open"}]
    /\ switched \in 0..session.halts
    /\ refusals \in 0..session.refusals /\ failures \in 0..session.failures

(* Exclusive overlap: no instrument answers to two producers. *)
OneHolder ==
    session.overlap = "Exclusive" => \A s \in Symbols : Cardinality(Contributors(s)) <= 1

(* No id is sent twice for two decisions of one kind, or the venue takes the
   second for the first (book.rs: "so no cloid is ever reused"). *)
IdsOfAKindDiffer ==
    \A a, b \in minted : a.own = b.own /\ a.id = b.id => a = b

(* What the pass works toward is what the account may hold: the wants of each
   producer whose claims are all priced, its silent ones too, are inside its
   budget; the priced book is inside its limits, to one unit for every claim;
   and no more instruments are opened than it has room for. *)
Slack == SumFunctionOnSet([s \in Symbols |-> Cardinality(Contributors(s)) * session.marks[s]], Symbols)

BudgetsHold ==
    \A p \in Producers : session.budgets[p] # Unbounded /\ Weigh(Wants(p)) # -1 =>
        Weigh([s \in Claimed(p) |-> Share(p, s, alloc.own)]) <= session.budgets[p]

TheBookFits ==
    LET wants == [s \in Symbols |-> NetQty(s, alloc.factors)]
    IN  session.scaleToFit =>
        /\ session.gross # Unbounded => Weigh(wants) <= session.gross + Slack
        /\ session.net # Unbounded /\ Weigh(wants) # -1 =>
                Abs(Directed(wants)) <= session.net + Slack

BreadthHolds ==
    LET opened == {s \in Symbols \ alloc.denied : NetQty(s, alloc.factors) # 0}
        open   == {s \in Symbols : position[s] # 0}
        room   == session.symbols - Cardinality(open)
    IN  session.symbols # Unbounded =>
            Cardinality(opened \ open) <= (IF room > 0 THEN room ELSE 0)

TheAllocationFits == pass = "plan" => BudgetsHold /\ TheBookFits /\ BreadthHolds

BookInv == TypeOK /\ OneHolder /\ IdsOfAKindDiffer /\ TheAllocationFits

(* The share of a producer that went silent under the "flat" policy is worked
   off, whoever else stays quiet: nobody speaks for the symbol, and yet the
   position goes to flat, or the status line says that the re-quotes are spent
   or that no order can express what is left (intent.rs,
   requote_held_targets; book.rs, OnSilence::Flat).  Three things it hangs on:
   the orders have a lifetime, without which there is neither sweep nor
   re-quote (intent.rs, 894 and 1139); a halt ends; and the plan comes to be
   priced, or fails to be for a reason that is counted (no quote is not). *)
Abandoned(s) == s \in Symbols /\ IsClaimed(s) /\ Live(s) = {}

TradesAgain(s) == s \in Symbols /\ session.lifetime # Unbounded /\ ~Halted /\ market[s] # "closed"

AbandonedExposureIsUnwound ==
    \A s \in UNION {DOMAIN c.marks : c \in Sessions} :
        <>[]TradesAgain(s) =>
            (Abandoned(s) ~> (~Abandoned(s) \/ position[s] = 0 \/ s \in unquoted \cup stranded))

(* book.rs: "a cloid minted for a netted target can never collide with one
   minted for a producer's own record". *)
NettedIdsAreNoProducers ==
    \A a, b \in minted : a.own /\ ~b.own => a.id # b.id
=============================================================================
