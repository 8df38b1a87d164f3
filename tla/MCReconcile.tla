---------------------------- MODULE MCReconcile -----------------------------
(* Instances of Reconcile for TLC. *)
EXTENDS Reconcile

CONSTANTS bid, other

WithAnother == {bid, other}
AnothersOrder == {other}
Sizes == [o \in WithAnother |-> IF o = bid THEN 2 ELSE 1]
=============================================================================
