---------------------------- MODULE MCRecording -----------------------------
(* Instances of Recording.                                                 *)
EXTENDS Recording

Event(ts, kind) == [ts |-> ts, kind |-> kind]

\* Trades in and out of order, a bar that is stamped ahead of them.
MixedFeed == {Event(2, "trade"), Event(4, "trade"), Event(4, "bar")}
=============================================================================
