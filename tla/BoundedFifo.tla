----------------------------- MODULE BoundedFifo -----------------------------
(***************************************************************************)
(* What a ring promises its two ends, with indices, slots and threads left *)
(* out: a queue of at most Capacity records; what is taken out is what was *)
(* put in, whole, once, in order.                                          *)
(***************************************************************************)
EXTENDS Naturals, Sequences

CONSTANTS Records, Capacity

VARIABLES
    buffer,     \* put in and not taken out yet
    delivered   \* everything taken out so far

fifoVars == <<buffer, delivered>>

Init ==
    /\ buffer = <<>>
    /\ delivered = <<>>

Put(r) ==
    /\ Len(buffer) < Capacity
    /\ buffer' = Append(buffer, r)
    /\ UNCHANGED delivered

Take(n) ==
    /\ delivered' = delivered \o SubSeq(buffer, 1, n)
    /\ buffer' = SubSeq(buffer, n + 1, Len(buffer))

Next ==
    \/ \E r \in Records : Put(r)
    \/ \E n \in 1..Len(buffer) : Take(n)

Spec == Init /\ [][Next]_fifoVars
=============================================================================
