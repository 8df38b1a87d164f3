----------------------------- MODULE SignalRing -----------------------------
(***************************************************************************)
(* The shared-memory ring between the Python and the Rust process:         *)
(* crates/axon-ipc/src/lib.rs and its mirror python/axon/signals.  One     *)
(* producer and one consumer, each with its own counter; every access to a *)
(* counter the other side owns, and every half of a record's copy, is a    *)
(* step of its own.                                                        *)
(*                                                                         *)
(* A record is its number, stored as two halves that are copied one after  *)
(* the other.  The payload-before-index order of the stores is the order   *)
(* of the steps: Release/Acquire in Rust, x86-TSO on the Python side.      *)
(*                                                                         *)
(* The two implementations differ in their arithmetic: Rust wraps its u64  *)
(* counters, Python subtracts them as unbounded integers.                  *)
(***************************************************************************)
EXTENDS Integers, Sequences

CONSTANTS
    Capacity,       \* slots, a power of two
    Modulus,        \* 2^64 in the code
    PythonProducer, \* the writer is python/axon/signals (the signal ring)
    Readers,        \* which implementations read: one at a time, but a reader
                    \* of the other language may attach between two pops
    MaxBatch,       \* most records one read_batch takes
    RestartsRace,   \* a new producer may start in the middle of a pop, or a pop
                    \* in the middle of its constructor
    MaxRecords,     \* bound: records offered
    MaxRestarts     \* bound: times a new producer takes over the ring

(* Both are powers of two, so the slots stay aligned when a counter wraps. *)
ASSUME RingAssumption ==
    /\ Capacity \in Nat \ {0}
    /\ Modulus \in Nat /\ Modulus % Capacity = 0 /\ Modulus > Capacity
    /\ {PythonProducer, RestartsRace} \subseteq BOOLEAN
    /\ Readers \subseteq {"rust", "python"}
    /\ MaxBatch \in Nat \ {0}
    /\ MaxRecords \in Nat
    /\ MaxRestarts \in Nat

VARIABLES
    head,       \* next counter to publish, stored by the producer
    tail,       \* next counter to read, stored by the consumer
    slots,      \* the data region
    ppc,        \* where the producer is in a push or in its constructor
    pHead,      \* the head it loaded
    offered,    \* records offered to try_push
    accepted,   \* records it published
    cpc,        \* where the consumer is in a pop
    cTail,      \* the tail it loaded
    batch,      \* how many records this pop takes
    out,        \* the records it has copied
    half,       \* the first half of the record it is copying
    delivered,  \* every record popped
    restarts

producerVars == <<ppc, pHead, offered, accepted, restarts>>
consumerVars == <<cpc, cTail, batch, out, half, delivered>>
vars == <<head, tail, slots, producerVars, consumerVars>>

Ids == 0..MaxRecords    \* 0: a slot nobody has written
Halves == [lo: Ids, hi: Ids]
Counters == 0..(Modulus - 1)

Whole(id) == [lo |-> id, hi |-> id]
SlotOf(counter) == counter % Capacity
Plus(counter, n) == (counter + n) % Modulus             \* wrapping_add
Distance(a, b) == IF a >= b THEN a - b ELSE a - b + Modulus    \* wrapping_sub

TypeOK ==
    /\ head \in Counters
    /\ tail \in Counters
    /\ slots \in [0..(Capacity - 1) -> Halves]
    /\ ppc \in {"idle", "lo", "hi", "publish", "zeroTail"}
    /\ pHead \in Counters
    /\ offered \in Ids
    /\ accepted \in Seq(1..MaxRecords)
    /\ cpc \in {"idle", "lo", "hi", "release"}
    /\ cTail \in Counters
    /\ batch \in 0..MaxBatch
    /\ out \in Seq(Halves)
    /\ half \in Ids
    /\ delivered \in Seq(Halves)
    /\ restarts \in 0..MaxRestarts

(* The producer's constructor: a zeroed file, zeroed counters. *)
Init ==
    /\ head = 0 /\ tail = 0
    /\ slots = [i \in 0..(Capacity - 1) |-> Whole(0)]
    /\ ppc = "idle" /\ pHead = 0 /\ offered = 0 /\ accepted = <<>> /\ restarts = 0
    /\ cpc = "idle" /\ cTail = 0 /\ batch = 0 /\ out = <<>> /\ half = 0 /\ delivered = <<>>

-----------------------------------------------------------------------------
(* The producer: try_push.                                                 *)

(* Mutant: off by one. *)
FullOffByOne ==
    IF PythonProducer THEN head - tail > Capacity ELSE Distance(head, tail) > Capacity

Full ==
    IF PythonProducer THEN head - tail >= Capacity ELSE Distance(head, tail) >= Capacity

(* The load of both counters and the check; a push into a full ring returns
   false and the record is gone.  A Python counter cannot hold 2^64. *)
TryPush ==
    /\ ppc = "idle"
    /\ offered < MaxRecords
    /\ PythonProducer => head + 1 < Modulus
    /\ offered' = offered + 1
    /\ pHead' = head
    /\ ppc' = IF Full THEN "idle" ELSE "lo"
    /\ UNCHANGED <<head, tail, slots, accepted, restarts, consumerVars>>

CopyLoIn ==
    /\ ppc = "lo"
    /\ slots' = [slots EXCEPT ![SlotOf(pHead)].lo = offered]
    /\ ppc' = "hi"
    /\ UNCHANGED <<head, tail, pHead, offered, accepted, restarts, consumerVars>>

CopyHiIn ==
    /\ ppc = "hi"
    /\ slots' = [slots EXCEPT ![SlotOf(pHead)].hi = offered]
    /\ ppc' = "publish"
    /\ UNCHANGED <<head, tail, pHead, offered, accepted, restarts, consumerVars>>

Publish ==
    /\ ppc = "publish"
    /\ head' = Plus(pHead, 1)
    /\ accepted' = Append(accepted, offered)
    /\ ppc' = "idle"
    /\ UNCHANGED <<tail, slots, pHead, offered, restarts, consumerVars>>

(* Mutant: the constructor zeroes the tail only. *)
RestartKeepsHead ==
    /\ PythonProducer
    /\ restarts < MaxRestarts
    /\ RestartsRace \/ cpc = "idle"
    /\ restarts' = restarts + 1
    /\ ppc' = "zeroTail"
    /\ UNCHANGED <<head, tail, slots, pHead, offered, accepted, consumerVars>>

(* A new Python producer on the file of a running session, whatever the old
   one was doing when it went away: the constructor zeroes head in place,
   then tail.  The consumer keeps its mapping. *)
Restart ==
    /\ PythonProducer
    /\ restarts < MaxRestarts
    /\ RestartsRace \/ cpc = "idle"
    /\ restarts' = restarts + 1
    /\ head' = 0
    /\ ppc' = "zeroTail"
    /\ UNCHANGED <<tail, slots, pHead, offered, accepted, consumerVars>>

ZeroTail ==
    /\ ppc = "zeroTail"
    /\ tail' = 0
    /\ ppc' = "idle"
    /\ UNCHANGED <<head, slots, pHead, offered, accepted, restarts, consumerVars>>

-----------------------------------------------------------------------------
(* The consumer: try_pop in Rust, read_batch in Python.                    *)

(* Rust takes one record if the counters differ; Python subtracts them. *)
Available(reader) ==
    IF reader = "python" THEN head - tail ELSE IF tail = head THEN 0 ELSE 1

(* The load of both counters; a Python batch takes up to max_records. *)
TryPop(reader) ==
    /\ cpc = "idle"
    /\ Available(reader) > 0
    /\ RestartsRace \/ ppc # "zeroTail"
    /\ cTail' = tail
    /\ batch' = IF Available(reader) <= MaxBatch THEN Available(reader) ELSE MaxBatch
    /\ cpc' = "lo"
    /\ UNCHANGED <<head, tail, slots, producerVars, out, half, delivered>>

ReadSlot == slots[SlotOf(cTail + Len(out))]

CopyLoOut ==
    /\ cpc = "lo"
    /\ half' = ReadSlot.lo
    /\ cpc' = "hi"
    /\ UNCHANGED <<head, tail, slots, producerVars, cTail, batch, out, delivered>>

CopyHiOut ==
    /\ cpc = "hi"
    /\ out' = Append(out, [lo |-> half, hi |-> ReadSlot.hi])
    /\ half' = 0
    /\ cpc' = IF Len(out) + 1 = batch THEN "release" ELSE "lo"
    /\ UNCHANGED <<head, tail, slots, producerVars, cTail, batch, delivered>>

(* Mutant: a batch releases one slot. *)
ReleaseOneSlot ==
    /\ cpc = "release"
    /\ tail' = Plus(cTail, 1)
    /\ delivered' = delivered \o out
    /\ out' = <<>>
    /\ batch' = 0
    /\ cpc' = "idle"
    /\ UNCHANGED <<head, slots, producerVars, cTail, half>>

(* One store of tail releases the slots of the whole batch. *)
ReleaseSlots ==
    /\ cpc = "release"
    /\ tail' = Plus(cTail, batch)
    /\ delivered' = delivered \o out
    /\ out' = <<>>
    /\ batch' = 0
    /\ cpc' = "idle"
    /\ UNCHANGED <<head, slots, producerVars, cTail, half>>

Producer == TryPush \/ CopyLoIn \/ CopyHiIn \/ Publish
Consumer == (\E reader \in Readers : TryPop(reader)) \/ CopyLoOut \/ CopyHiOut \/ ReleaseSlots

(* The life of one producer: SignalPath composes the ring with the processes
   that take it over (Restart, ZeroTail). *)
Next == Producer \/ Consumer

Spec == Init /\ [][Next]_vars

-----------------------------------------------------------------------------
(* What a ring with one producer and one consumer promises.                *)

(* A slot that is being read is stable until it is released: no record comes
   out with halves of two records, or before it was published (try_pop_bytes'
   SAFETY comment). *)
NoTornRecord ==
    \A i \in 1..Len(delivered) :
        delivered[i].lo = delivered[i].hi /\ delivered[i].lo # 0

(* Nothing comes out twice, and nothing old after something new, whatever a
   change of producers has thrown away. *)
DeliveredMovesForward ==
    \A i, j \in 1..Len(delivered) : i < j => delivered[i].lo < delivered[j].lo

(* The writer is never in a slot the reader has claimed and not released. *)
WriterStaysClear ==
    (ppc \in {"lo", "hi"} /\ cpc # "idle") =>
        \A i \in 0..(batch - 1) : SlotOf(pHead) # SlotOf(cTail + i)

(* The records between the two counters are what a reader would find. *)
Buffered == [i \in 1..Distance(head, tail) |-> slots[SlotOf(tail + i - 1)]]

Fifo == INSTANCE BoundedFifo WITH
    Records <- {Whole(id) : id \in 1..MaxRecords},
    buffer <- Buffered

(* The ring is a bounded queue: nothing is lost, doubled, reordered or made
   up, across the wrap of the slots and of the counters. *)
ImplementsFifo == Fifo!Spec

(* Each counter is the number of records its side has dealt with, and the two
   are never further apart than the slots there are. *)
CountersCount ==
    /\ head = Len(accepted) % Modulus
    /\ tail = Len(delivered) % Modulus
    /\ Len(delivered) <= Len(accepted)
    /\ Len(accepted) <= Len(delivered) + Capacity
    /\ PythonProducer => Len(accepted) < Modulus

(* A push that is under way owns the slot behind the newest record, and writes
   a record that is newer than all of them. *)
PushOwnsItsSlot ==
    /\ ppc # "zeroTail"
    /\ \A i \in 1..Len(accepted) : accepted[i] <= offered
    /\ ppc # "idle" =>
            /\ pHead = head
            /\ offered >= 1
            /\ Len(accepted) < Len(delivered) + Capacity
            /\ PythonProducer => Len(accepted) + 1 < Modulus
            /\ \A i \in 1..Len(accepted) : accepted[i] < offered
    /\ ppc \in {"hi", "publish"} => slots[SlotOf(pHead)].lo = offered
    /\ ppc = "publish" => slots[SlotOf(pHead)].hi = offered

(* The slots between the counters hold what was accepted and not delivered. *)
SlotsHoldTheRecords ==
    \A i \in 1..Len(accepted) :
        i > Len(delivered) => slots[SlotOf(i - 1)] = Whole(accepted[i])

(* A pop that is under way copies the oldest records, in order. *)
PopCopiesTheOldest ==
    /\ cpc = "idle" => out = <<>>
    /\ cpc # "idle" =>
            /\ cTail = tail
            /\ batch >= 1
            /\ Len(delivered) + batch <= Len(accepted)
            /\ Len(out) <= batch
            /\ cpc = "release" <=> Len(out) = batch
    /\ \A i \in 1..Len(out) : out[i] = Whole(accepted[Len(delivered) + i])
    /\ cpc = "hi" => half = accepted[Len(delivered) + Len(out) + 1]

(* What has come out is what went in, from the first record on. *)
DeliveredIsAccepted ==
    /\ \A i \in 1..Len(delivered) : delivered[i] = Whole(accepted[i])
    /\ \A i, j \in 1..Len(accepted) : i < j => accepted[i] < accepted[j]

(* What holds of every state of a ring that is not taken over: its counters and
   slots are in range, the two ends stay out of each other's way, and therefore
   every record that comes out is one that went in (try_pop_bytes, SAFETY).  The
   named parts in between make it inductive. *)
RingInv ==
    /\ TypeOK
    /\ CountersCount
    /\ PushOwnsItsSlot
    /\ SlotsHoldTheRecords
    /\ PopCopiesTheOldest
    /\ DeliveredIsAccepted
    /\ WriterStaysClear
    /\ NoTornRecord
=============================================================================
