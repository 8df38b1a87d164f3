-------------------------- MODULE MCSessionSafety --------------------------
(* Instances of SessionSafety for TLC. *)
EXTENDS SessionSafety, TLC

CONSTANTS o1, o2

OneOrder == {o1}
TwoOrders == {o1, o2}
=============================================================================
