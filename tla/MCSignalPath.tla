---------------------------- MODULE MCSignalPath ----------------------------
(***************************************************************************)
(* The runner's first life numbers from zero, the default; the second is   *)
(* given nothing, and uses numbers again, or --first-seq one above what the *)
(* first can have got to next.                                             *)
(***************************************************************************)
EXTENDS SignalPath

FirstSeqsOfLives == [life \in 0..MaxRestarts |-> IF life = 0 THEN {0} ELSE {0, MaxEmitted + 1}]
=============================================================================
