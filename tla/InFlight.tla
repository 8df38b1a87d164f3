------------------------------ MODULE InFlight ------------------------------
(***************************************************************************)
(* The per-symbol in-flight gate of crates/axon-execution/src/inflight.rs. *)
(* The core thread claims a symbol before it hands an intent to the edge;  *)
(* the edge releases it once the venue has answered.  Symbols below        *)
(* InFlight::CAPACITY (the set Covered) have a bit of their own; all the   *)
(* others share one compare-and-swapped overflow word.                     *)
(*                                                                         *)
(* Every operation is one atomic read-modify-write of one word, so each is *)
(* one conjunct of the action of the thread that calls it.  The counters   *)
(* beside the words (completed, coarse_claims) are only reported, and are  *)
(* left out.                                                               *)
(***************************************************************************)
EXTENDS Naturals

CONSTANTS
    Symbols,    \* the venue's universe
    Covered     \* the symbols whose id is below InFlight::CAPACITY

ASSUME CoveredAssumption == Covered \subseteq Symbols

VARIABLES
    bits,       \* the covered symbols whose bit is set
    overflow    \* the word shared by every other symbol: 0 or 1

gateVars == <<bits, overflow>>

GateTypeOK ==
    /\ bits \subseteq Covered
    /\ overflow \in {0, 1}

GateInit ==
    /\ bits = {}
    /\ overflow = 0

(* Mutant: contains looks at the shared word alone. *)
ContainsSharedOnly(s) == s \notin Covered /\ overflow # 0

Contains(s) == IF s \in Covered THEN s \in bits ELSE overflow # 0

(* claim: fetch_or on the symbol's own bit, or a compare-exchange 0 -> 1 of
   the shared word.  The refusal of either is a return value that the only
   caller (IntentSink::send) ignores, so it has no effect on the state. *)
Claim(s) ==
    /\ bits' = bits \cup ({s} \cap Covered)
    /\ overflow' = IF s \in Covered THEN overflow ELSE 1

(* Mutant: a plain store of 0 to the word, taking its neighbours along. *)
ReleaseByStore(s) ==
    /\ bits' = IF s \in Covered THEN {} ELSE bits
    /\ overflow' = IF s \in Covered THEN overflow ELSE 0

(* Mutant: only the shared word is ever given back. *)
ReleaseSharedOnly(s) ==
    /\ overflow' = IF s \in Covered THEN overflow ELSE 0
    /\ UNCHANGED bits

(* release: clears the bit, or stores 0 to the shared word whoever holds it. *)
Release(s) ==
    /\ bits' = bits \ {s}
    /\ overflow' = IF s \in Covered THEN overflow ELSE 0
=============================================================================
