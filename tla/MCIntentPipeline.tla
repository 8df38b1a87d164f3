-------------------------- MODULE MCIntentPipeline --------------------------
(* Instances of IntentPipeline for TLC. *)
EXTENDS IntentPipeline, TLC

CONSTANTS btc, eth, p1, p2

OneSymbol == {btc}
TwoSymbols == {btc, eth}
OneProducer == {p1}
TwoProducers == {p1, p2}

OwnAll == Strategies \X Symbols

SameProducers == Permutations({p1, p2})
=============================================================================
