----------------------------- MODULE IntentSlots -----------------------------
(***************************************************************************)
(* What the intent path promises the venue, symbol by symbol, with passes, *)
(* queue, threads and tracker left out: a symbol's slot is free or holds   *)
(* one intent; an order is placed only under an open slot, at most once    *)
(* per intent, and only when every other order of the symbol that rests    *)
(* was asked to leave under that same slot and was kept all the same.      *)
(***************************************************************************)
CONSTANTS Slots, Orders, SymbolOf(_)

VARIABLES
    slot,       \* "free", "open" (an intent is under way) or "spent"
    resting,    \* orders resting at the venue
    kept        \* those the intent under way asked to cancel, in vain

slotVars == <<slot, resting, kept>>

KeptElsewhere(s) == {o \in kept : SymbolOf(o) # s}

Init ==
    /\ slot = [s \in Slots |-> "free"]
    /\ resting = {}
    /\ kept = {}

Open(s) ==
    /\ slot[s] = "free"
    /\ slot' = [slot EXCEPT ![s] = "open"]
    /\ UNCHANGED <<resting, kept>>

(* Filled, cancelled by the venue, or cancelled by an intent. *)
Withdraw(o) ==
    /\ o \in resting
    /\ resting' = resting \ {o}
    /\ kept' = kept \ {o}
    /\ UNCHANGED slot

(* A cancel that fails while the order rests. *)
Keep(o) ==
    /\ o \in resting
    /\ slot[SymbolOf(o)] = "open"
    /\ kept' = kept \cup {o}
    /\ UNCHANGED <<slot, resting>>

Place(o) ==
    /\ slot[SymbolOf(o)] = "open"
    /\ \A r \in resting : SymbolOf(r) = SymbolOf(o) => r \in kept
    /\ resting' = resting \cup {o}
    /\ slot' = [slot EXCEPT ![SymbolOf(o)] = "spent"]
    /\ kept' = KeptElsewhere(SymbolOf(o))

(* The intent places nothing that rests. *)
Spend(s) ==
    /\ slot[s] = "open"
    /\ slot' = [slot EXCEPT ![s] = "spent"]
    /\ kept' = KeptElsewhere(s)
    /\ UNCHANGED resting

Settle(s) ==
    /\ slot[s] # "free"
    /\ slot' = [slot EXCEPT ![s] = "free"]
    /\ kept' = KeptElsewhere(s)
    /\ UNCHANGED resting

Next ==
    \/ \E s \in Slots : Open(s) \/ Spend(s) \/ Settle(s)
    \/ \E o \in Orders : Withdraw(o) \/ (SymbolOf(o) \in Slots /\ (Keep(o) \/ Place(o)))

Spec == Init /\ [][Next]_slotVars
=============================================================================
