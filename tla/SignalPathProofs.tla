--------------------------- MODULE SignalPathProofs ---------------------------
(***************************************************************************)
(* Proofs about SignalRing, for every capacity, every modulus of the       *)
(* counters that the code could have, either producer, any readers, any    *)
(* batch and any number of records: the invariant RingInv, the order of    *)
(* what comes out, and that the ring implements BoundedFifo.               *)
(*                                                                         *)
(* Then about SignalPath, which runs on it, for any lifetimes and outbox,  *)
(* and any number of targets and restarts, as long as no new producer      *)
(* starts in the middle of a pop (~RestartsRace): nothing torn, lost,      *)
(* doubled or swapped between the processes, nothing acted on outside its  *)
(* window, and what the reader's counters mean.                            *)
(***************************************************************************)
EXTENDS SignalPath, SequenceTheorems, TLAPS

-----------------------------------------------------------------------------
(* Remainders.                                                             *)

(* a = c * q + r with a remainder r below c. *)
Euclid(a, c, q, r) == q \in Nat /\ r \in 0..(c - 1) /\ a = c * q + r

(* The remainder of the operator is the remainder of a division. *)
LEMMA RemainderIs ==
    ASSUME NEW a \in Nat, NEW c \in Nat \ {0}
    PROVE  \E q \in Nat : Euclid(a, c, q, a % c) /\ (a % c) \in Nat
  <1>1. Euclid(a, c, a \div c, a % c) /\ (a \div c) \in Nat /\ (a % c) \in Nat
    BY DEF Euclid
  <1> QED
    BY <1>1

(* Multiples of c are at least c apart. *)
LEMMA MultiplesApart ==
    ASSUME NEW c \in Nat \ {0}, NEW x \in Int, NEW y \in Int, x < y
    PROVE  c * x + c <= c * y /\ c * x \in Int /\ c * y \in Int
  OBVIOUS

(* Products of integers. *)
LEMMA Products ==
    ASSUME NEW a \in Int, NEW b \in Int, NEW c \in Int
    PROVE  /\ a * b \in Int
           /\ a * (b + c) = a * b + a * c
           /\ a * (b * c) = (a * b) * c
  OBVIOUS

(* There is one quotient and one remainder. *)
LEMMA EuclidUnique ==
    ASSUME NEW a \in Nat, NEW c \in Nat \ {0},
           NEW q \in Nat, NEW r \in Nat, NEW p \in Nat, NEW s \in Nat,
           Euclid(a, c, q, r), Euclid(a, c, p, s)
    PROVE  q = p /\ r = s
  <1>1. ~(p < q)
    BY MultiplesApart DEF Euclid
  <1>2. ~(q < p)
    BY MultiplesApart DEF Euclid
  <1>3. q = p
    BY <1>1, <1>2
  <1>4. c * q \in Int
    OBVIOUS
  <1> QED
    BY <1>3, <1>4 DEF Euclid

(* Numbers less than c apart have different remainders. *)
LEMMA RemaindersDiffer ==
    ASSUME NEW a \in Nat, NEW b \in Nat, NEW c \in Nat \ {0}, a < b, b < a + c
    PROVE  (a % c) # (b % c)
  <1>1. PICK q \in Nat : Euclid(a, c, q, a % c)
    BY RemainderIs
  <1>2. PICK p \in Nat : Euclid(b, c, p, b % c)
    BY RemainderIs
  <1> SUFFICES ASSUME NEW r \in Nat, Euclid(a, c, q, r), Euclid(b, c, p, r)
               PROVE  FALSE
    BY <1>1, <1>2, RemainderIs
  <1>3. c * q \in Int /\ c * p \in Int
    OBVIOUS
  <1>4. ~(p = q)
    BY <1>3 DEF Euclid
  <1>5. ~(p < q)
    BY <1>3, MultiplesApart DEF Euclid
  <1>6. ~(q < p)
    BY <1>3, MultiplesApart DEF Euclid
  <1> QED
    BY <1>4, <1>5, <1>6

(* A remainder of a multiple of c keeps the remainder of c: a counter that
   wraps stays on the same slot. *)
LEMMA RemainderOfRemainder ==
    ASSUME NEW a \in Nat, NEW m \in Nat \ {0}, NEW c \in Nat \ {0}, (m % c) = 0
    PROVE  ((a % m) % c) = (a % c)
  <1> DEFINE r == a % m
             s == r % c
  <1>1. PICK q \in Nat : Euclid(a, m, q, r) /\ r \in Nat
    BY RemainderIs
  <1>2. PICK k \in Nat : Euclid(m, c, k, 0)
    BY RemainderIs
  <1>3. PICK j \in Nat : Euclid(r, c, j, s) /\ s \in Nat
    BY <1>1, RemainderIs
  <1>4. PICK u \in Nat : Euclid(a, c, u, a % c) /\ (a % c) \in Nat
    BY RemainderIs
  <1> HIDE DEF r, s
  <1>5. k * q + j \in Nat /\ Euclid(a, c, k * q + j, s)
    <2>1. m = c * k /\ a = m * q + r /\ r = c * j + s
      BY <1>1, <1>2, <1>3 DEF Euclid
    <2>2. m * q = c * (k * q) /\ k * q \in Nat /\ c * (k * q) \in Int
      BY <2>1
    <2>3. c * j \in Int
      OBVIOUS
    <2>4. k * q + j \in Nat
      BY <2>2
    <2>5. c * (k * q + j) = c * (k * q) + c * j
      BY <2>2, Products
    <2>6. s \in 0..(c - 1)
      BY <1>3 DEF Euclid
    <2>7. a = c * (k * q + j) + s
      BY <1>1, <1>3, <2>1, <2>2, <2>3, <2>5
    <2> QED
      BY <2>4, <2>6, <2>7 DEF Euclid
  <1>6. (a % c) = s
    BY <1>3, <1>4, <1>5, EuclidUnique
  <1> QED
    BY <1>6 DEF r, s

(* A counter may be wrapped before or after something is added to it. *)
LEMMA RemainderOfSum ==
    ASSUME NEW a \in Nat, NEW m \in Nat \ {0}, NEW n \in Nat
    PROVE  (((a % m) + n) % m) = ((a + n) % m)
  <1> DEFINE r == a % m
             x == r + n
             s == x % m
             y == a + n
             t == y % m
  <1>1. PICK q \in Nat : Euclid(a, m, q, r) /\ r \in Nat
    BY RemainderIs
  <1> HIDE DEF r
  <1>2. x \in Nat /\ y \in Nat
    BY <1>1
  <1> HIDE DEF x, y
  <1>3. PICK j \in Nat : Euclid(x, m, j, s) /\ s \in Nat
    BY <1>2, RemainderIs
  <1>4. PICK u \in Nat : Euclid(y, m, u, t) /\ t \in Nat
    BY <1>2, RemainderIs
  <1> HIDE DEF s, t
  <1>5. Euclid(y, m, q + j, s)
    <2>1. /\ s \in 0..(m - 1) /\ a = m * q + r /\ x = m * j + s
          /\ x = r + n /\ y = a + n
      BY <1>1, <1>3 DEF Euclid, x, y
    <2>2. m * (q + j) = m * q + m * j /\ m * q \in Int /\ m * j \in Int
      BY Products
    <2>3. y = m * (q + j) + s /\ q + j \in Nat
      BY <1>1, <1>3, <2>1, <2>2
    <2> QED
      BY <2>1, <2>3 DEF Euclid
  <1>6. t = s
    BY <1>2, <1>3, <1>4, <1>5, EuclidUnique
  <1> QED
    BY <1>6 DEF s, t, x, y, r

(* A remainder is below its divisor. *)
LEMMA RemainderBelow ==
    ASSUME NEW a \in Nat, NEW c \in Nat \ {0}
    PROVE  (a % c) \in 0..(c - 1)
  BY RemainderIs DEF Euclid

(* A number below m is its own remainder. *)
LEMMA SmallRemainder ==
    ASSUME NEW a \in Nat, NEW m \in Nat \ {0}, a < m
    PROVE  (a % m) = a
  <1>1. PICK q \in Nat : Euclid(a, m, q, a % m) /\ (a % m) \in Nat
    BY RemainderIs
  <1>2. Euclid(a, m, 0, a)
    BY DEF Euclid
  <1> QED
    BY <1>1, <1>2, EuclidUnique

-----------------------------------------------------------------------------
(* Counters and slots.                                                     *)

(* What the constants of a ring are. *)
LEMMA RingConstants ==
    /\ Capacity \in Nat \ {0} /\ Modulus \in Nat \ {0} /\ Capacity < Modulus
    /\ (Modulus % Capacity) = 0
    /\ MaxBatch \in Nat \ {0} /\ MaxRecords \in Nat
    /\ PythonProducer \in BOOLEAN
  BY RingAssumption

(* A wrapped counter has the slot of the number it stands for. *)
LEMMA SlotOfCounter ==
    ASSUME NEW n \in Nat, NEW i \in Nat
    PROVE  SlotOf((n % Modulus) + i) = SlotOf(n + i)
  <1>1. (n % Modulus) \in Nat
    BY RingConstants, RemainderIs
  <1>2. ((((n % Modulus) % Capacity) + i) % Capacity) = (((n % Modulus) + i) % Capacity)
    BY <1>1, RingConstants, RemainderOfSum
  <1>3. ((n % Modulus) % Capacity) = (n % Capacity)
    BY RingConstants, RemainderOfRemainder
  <1>4. (((n % Capacity) + i) % Capacity) = ((n + i) % Capacity)
    BY RingConstants, RemainderOfSum
  <1> QED
    BY <1>2, <1>3, <1>4 DEF SlotOf

(* Slots less than a capacity apart are different slots. *)
LEMMA SlotsDiffer ==
    ASSUME NEW a \in Nat, NEW b \in Nat, a < b, b < a + Capacity
    PROVE  SlotOf(a) # SlotOf(b)
  BY RingConstants, RemaindersDiffer DEF SlotOf

(* A slot is one of the ring's. *)
LEMMA SlotInRing ==
    ASSUME NEW a \in Nat
    PROVE  SlotOf(a) \in 0..(Capacity - 1)
  BY RingConstants, RemainderIs DEF SlotOf, Euclid

(* The wrapping subtraction gives the difference of the numbers the counters
   stand for. *)
LEMMA DistanceIs ==
    ASSUME NEW n \in Nat, NEW d \in Nat, d < Modulus
    PROVE  Distance((n + d) % Modulus, n % Modulus) = d
  <1> DEFINE r == n % Modulus
             x == r + d
  <1>1. r \in Nat /\ r < Modulus
    BY RingConstants, RemainderIs DEF Euclid
  <1>2. ((n + d) % Modulus) = (x % Modulus)
    BY RingConstants, RemainderOfSum
  <1> HIDE DEF r
  <1>3. x \in Nat
    BY <1>1
  <1>4. CASE x < Modulus
    <2>1. (x % Modulus) = x
      BY <1>3, <1>4, RingConstants, SmallRemainder
    <2> QED
      BY <1>1, <1>2, <2>1 DEF Distance, r
  <1>5. CASE x >= Modulus
    <2> DEFINE y == x - Modulus
    <2>1. y \in Nat /\ y < r
      BY <1>1, <1>5, RingConstants
    <2>2. Euclid(x, Modulus, 1, y)
      BY <1>1, <2>1, RingConstants DEF Euclid
    <2>3. PICK q \in Nat : Euclid(x, Modulus, q, x % Modulus) /\ (x % Modulus) \in Nat
      BY <1>3, RingConstants, RemainderIs
    <2>4. (x % Modulus) = y
      BY <1>3, <2>1, <2>2, <2>3, RingConstants, EuclidUnique
    <2> QED
      BY <1>1, <1>2, <2>1, <2>4, RingConstants DEF Distance, r
  <1> QED
    BY <1>1, <1>4, <1>5, RingConstants

-----------------------------------------------------------------------------
(* The inductive part of RingInv.                                          *)

RingCore ==
    /\ TypeOK
    /\ CountersCount
    /\ PushOwnsItsSlot
    /\ SlotsHoldTheRecords
    /\ PopCopiesTheOldest
    /\ DeliveredIsAccepted

(* The counters of a ring, as numbers of records. *)
LEMMA CountersAre ==
    ASSUME TypeOK, CountersCount
    PROVE  /\ Len(accepted) \in Nat /\ Len(delivered) \in Nat /\ Len(out) \in Nat
           /\ Len(accepted) - Len(delivered) \in 0..Capacity
           /\ Distance(head, tail) = Len(accepted) - Len(delivered)
           /\ PythonProducer => head = Len(accepted) /\ tail = Len(delivered)
           /\ \A i \in 1..Len(accepted) : accepted[i] \in 1..MaxRecords
  <1>1. Len(accepted) \in Nat /\ Len(delivered) \in Nat /\ Len(out) \in Nat
    BY LenProperties DEF TypeOK
  <1> DEFINE n == Len(delivered)
             d == Len(accepted) - Len(delivered)
  <1>2. d \in 0..Capacity /\ d < Modulus /\ Len(accepted) = n + d /\ n \in Nat /\ d \in Nat
    BY <1>1, RingConstants DEF CountersCount
  <1>3. Distance((n + d) % Modulus, n % Modulus) = d
    BY <1>2, DistanceIs
  <1>4. Distance(head, tail) = d
    BY <1>2, <1>3 DEF CountersCount
  <1>5. PythonProducer => head = Len(accepted) /\ tail = Len(delivered)
    BY <1>1, SmallRemainder, RingConstants DEF CountersCount
  <1>6. \A i \in 1..Len(accepted) : accepted[i] \in 1..MaxRecords
    BY ElementOfSeq DEF TypeOK
  <1> QED
    BY <1>1, <1>2, <1>4, <1>5, <1>6

(* The slots at the two ends, and between them. *)
LEMMA SlotsAre ==
    ASSUME TypeOK, CountersCount
    PROVE  /\ SlotOf(head) = SlotOf(Len(accepted))
           /\ SlotOf(head) \in 0..(Capacity - 1)
           /\ \A i \in Nat : SlotOf(tail + i) = SlotOf(Len(delivered) + i)
           /\ \A i \in 1..Len(accepted) :
                    i > Len(delivered) /\ Len(accepted) < Len(delivered) + Capacity
                        => SlotOf(i - 1) # SlotOf(head)
  <1>1. Len(accepted) \in Nat /\ Len(delivered) \in Nat
    BY CountersAre
  <1>2. SlotOf(head) = SlotOf(Len(accepted))
    <2>1. SlotOf((Len(accepted) % Modulus) + 0) = SlotOf(Len(accepted) + 0)
      BY <1>1, SlotOfCounter
    <2>2. Len(accepted) + 0 = Len(accepted) /\ head + 0 = head
      BY <1>1 DEF TypeOK, Counters
    <2> QED
      BY <2>1, <2>2 DEF CountersCount
  <1>3. SlotOf(Len(accepted)) \in 0..(Capacity - 1)
    BY <1>1, SlotInRing
  <1>4. \A i \in Nat : SlotOf(tail + i) = SlotOf(Len(delivered) + i)
    BY <1>1, SlotOfCounter DEF CountersCount
  <1>5. ASSUME NEW i \in 1..Len(accepted), i > Len(delivered),
               Len(accepted) < Len(delivered) + Capacity
        PROVE  SlotOf(i - 1) # SlotOf(Len(accepted))
    <2>1. i - 1 \in Nat /\ i - 1 < Len(accepted) /\ Len(accepted) < (i - 1) + Capacity
      BY <1>1, <1>5, RingConstants
    <2> QED
      BY <1>1, <2>1, SlotsDiffer
  <1> QED
    BY <1>2, <1>3, <1>4, <1>5

(* A ring that does not count as full has a slot left, whichever language
   counts. *)
LEMMA NotFull ==
    ASSUME TypeOK, CountersCount, ~Full
    PROVE  Len(accepted) < Len(delivered) + Capacity
  BY CountersAre, RingConstants DEF Full

(* A reader never sees more records than there are, whichever language counts:
   a Python reader of counters that wrapped sees none. *)
LEMMA NoMoreThanThereAre ==
    ASSUME TypeOK, CountersCount, NEW reader, Available(reader) > 0
    PROVE  Available(reader) \in 1..(Len(accepted) - Len(delivered))
  <1>1. /\ head \in Nat /\ tail \in Nat /\ head < Modulus /\ tail < Modulus
        /\ Len(accepted) - Len(delivered) \in Nat
        /\ Distance(head, tail) = Len(accepted) - Len(delivered)
    BY CountersAre, RingConstants DEF TypeOK, Counters
  <1>2. CASE reader = "python"
    BY <1>1, <1>2, RingConstants DEF Available, Distance
  <1>3. CASE reader # "python"
    <2>1. tail # head /\ Available(reader) = 1
      BY <1>3 DEF Available
    <2>2. Distance(head, tail) # 0
      BY <1>1, <2>1, RingConstants DEF Distance
    <2> QED
      BY <1>1, <2>1, <2>2
  <1> QED
    BY <1>2, <1>3

(* The initial state. *)
LEMMA RingCoreInit == Init => RingCore
  <1> SUFFICES ASSUME Init PROVE RingCore
    OBVIOUS
  <1>1. /\ Len(accepted) = 0 /\ Len(delivered) = 0 /\ Len(out) = 0
        /\ <<>> \in Seq(1..MaxRecords) /\ <<>> \in Seq(Halves)
    BY EmptySeq DEF Init
  <1>2. (0 % Modulus) = 0 /\ 0 \in Counters /\ 0 \in Ids
    BY RingConstants, SmallRemainder DEF Counters, Ids
  <1>3. TypeOK
    BY <1>1, <1>2, RingAssumption DEF Init, TypeOK, Halves, Whole
  <1>4. CountersCount
    BY <1>1, <1>2, RingConstants DEF Init, CountersCount
  <1> QED
    BY <1>1, <1>3, <1>4
    DEF Init, RingCore, PushOwnsItsSlot, SlotsHoldTheRecords, PopCopiesTheOldest,
        DeliveredIsAccepted

(* A push begins in a ring with a slot left. *)
LEMMA TryPushKeeps == RingCore /\ TryPush => RingCore'
  <1> SUFFICES ASSUME RingCore, TryPush PROVE RingCore'
    OBVIOUS
  <1>0. TypeOK /\ CountersCount
    BY DEF RingCore
  <1>1. TypeOK'
    <2>1. offered' \in Ids
      BY <1>0, RingConstants DEF TryPush, TypeOK, Ids
    <2> QED
      BY <1>0, <2>1 DEF TryPush, TypeOK, consumerVars
  <1>2. /\ ~Full => Len(accepted) < Len(delivered) + Capacity
        /\ PythonProducer => Len(accepted) + 1 < Modulus
        /\ Len(accepted) \in Nat
        /\ offered \in Nat /\ offered' = offered + 1
        /\ \A i \in 1..Len(accepted) : accepted[i] \in Nat /\ accepted[i] <= offered
    BY <1>0, NotFull, CountersAre DEF TryPush, TypeOK, Ids, RingCore, PushOwnsItsSlot
  <1>3. PushOwnsItsSlot'
    BY <1>2 DEF TryPush, PushOwnsItsSlot, consumerVars
  <1> QED
    BY <1>1, <1>3
    DEF RingCore, TryPush, consumerVars, CountersCount, SlotsHoldTheRecords,
        PopCopiesTheOldest, DeliveredIsAccepted, SlotOf

(* What a write into the producer's slot leaves alone: the slots between the
   counters. *)
LEMMA WriteStaysClear ==
    ASSUME TypeOK, CountersCount, SlotsHoldTheRecords,
           Len(accepted) < Len(delivered) + Capacity, pHead = head,
           NEW half2 \in Halves, slots' = [slots EXCEPT ![SlotOf(pHead)] = half2],
           UNCHANGED <<accepted, delivered>>
    PROVE  SlotsHoldTheRecords'
  <1>1. \A i \in 1..Len(accepted) : i > Len(delivered) => SlotOf(i - 1) # SlotOf(pHead)
    BY SlotsAre
  <1>2. \A i \in 1..Len(accepted) : SlotOf(i - 1) \in 0..(Capacity - 1)
    <2> TAKE i \in 1..Len(accepted)
    <2>1. i - 1 \in Nat
      BY CountersAre
    <2> QED
      BY <2>1, SlotInRing
  <1>3. \A i \in 1..Len(accepted) :
            i > Len(delivered) => slots'[SlotOf(i - 1)] = slots[SlotOf(i - 1)]
    BY <1>1, <1>2 DEF TypeOK
  <1> QED
    BY <1>3 DEF SlotsHoldTheRecords, SlotOf, Whole

(* The first half of a record is written. *)
LEMMA CopyLoInKeeps == RingCore /\ CopyLoIn => RingCore'
  <1> SUFFICES ASSUME RingCore, CopyLoIn PROVE RingCore'
    OBVIOUS
  <1> DEFINE s == SlotOf(pHead)
  <1>0. /\ TypeOK /\ CountersCount /\ SlotsHoldTheRecords
        /\ pHead = head /\ Len(accepted) < Len(delivered) + Capacity
        /\ s \in 0..(Capacity - 1)
    BY SlotsAre DEF RingCore, CopyLoIn, PushOwnsItsSlot
  <1>1. [slots[s] EXCEPT !.lo = offered] \in Halves
    BY <1>0 DEF TypeOK, Halves
  <1>2. slots' = [slots EXCEPT ![s] = [slots[s] EXCEPT !.lo = offered]]
    BY DEF CopyLoIn
  <1>3. TypeOK' /\ slots'[s].lo = offered
    BY <1>0, <1>1, <1>2 DEF CopyLoIn, TypeOK, consumerVars, Halves
  <1>4. SlotsHoldTheRecords'
    BY <1>0, <1>1, <1>2, WriteStaysClear DEF CopyLoIn, consumerVars
  <1>5. PushOwnsItsSlot'
    BY <1>3 DEF RingCore, CopyLoIn, PushOwnsItsSlot, consumerVars, SlotOf
  <1> QED
    BY <1>3, <1>4, <1>5
    DEF RingCore, CopyLoIn, consumerVars, CountersCount, PopCopiesTheOldest,
        DeliveredIsAccepted

(* The second half is written. *)
LEMMA CopyHiInKeeps == RingCore /\ CopyHiIn => RingCore'
  <1> SUFFICES ASSUME RingCore, CopyHiIn PROVE RingCore'
    OBVIOUS
  <1> DEFINE s == SlotOf(pHead)
  <1>0. /\ TypeOK /\ CountersCount /\ SlotsHoldTheRecords
        /\ pHead = head /\ Len(accepted) < Len(delivered) + Capacity
        /\ s \in 0..(Capacity - 1)
    BY SlotsAre DEF RingCore, CopyHiIn, PushOwnsItsSlot
  <1>1. [slots[s] EXCEPT !.hi = offered] \in Halves
    BY <1>0 DEF TypeOK, Halves
  <1>2. slots' = [slots EXCEPT ![s] = [slots[s] EXCEPT !.hi = offered]]
    BY DEF CopyHiIn
  <1>3. TypeOK' /\ slots'[s].hi = offered /\ slots'[s].lo = slots[s].lo
    BY <1>0, <1>1, <1>2 DEF CopyHiIn, TypeOK, consumerVars, Halves
  <1>4. SlotsHoldTheRecords'
    BY <1>0, <1>1, <1>2, WriteStaysClear DEF CopyHiIn, consumerVars
  <1>5. PushOwnsItsSlot'
    BY <1>3 DEF RingCore, CopyHiIn, PushOwnsItsSlot, consumerVars, SlotOf
  <1> QED
    BY <1>3, <1>4, <1>5
    DEF RingCore, CopyHiIn, consumerVars, CountersCount, PopCopiesTheOldest,
        DeliveredIsAccepted

(* The record joins those a reader would find. *)
LEMMA PublishKeeps == RingCore /\ Publish => RingCore'
  <1> SUFFICES ASSUME RingCore, Publish PROVE RingCore'
    OBVIOUS
  <1> DEFINE n == Len(accepted)
  <1>0. /\ TypeOK /\ CountersCount /\ SlotsHoldTheRecords
        /\ pHead = head /\ n < Len(delivered) + Capacity
        /\ offered \in 1..MaxRecords
        /\ PythonProducer => n + 1 < Modulus
        /\ \A i \in 1..n : accepted[i] < offered
        /\ \A i \in 1..n : accepted[i] \in Nat
    BY RingConstants, CountersAre DEF RingCore, Publish, PushOwnsItsSlot, TypeOK, Ids
  <1>1. /\ accepted' \in Seq(1..MaxRecords)
        /\ Len(accepted') = n + 1 /\ n \in Nat /\ Len(delivered) \in Nat
        /\ \A i \in 1..n : accepted'[i] = accepted[i]
        /\ accepted'[n + 1] = offered
    BY <1>0, AppendProperties, CountersAre DEF Publish, TypeOK
  <1>2. head' = ((n + 1) % Modulus) /\ head' \in Counters
    <2>1. head' = (((n % Modulus) + 1) % Modulus)
      BY <1>0 DEF Publish, Plus, CountersCount
    <2>2. (((n % Modulus) + 1) % Modulus) = ((n + 1) % Modulus)
      <3>1. n \in Nat /\ 1 \in Nat /\ Modulus \in Nat \ {0}
        BY <1>1, RingConstants
      <3> QED
        BY <3>1, RemainderOfSum, Zenon
    <2>3. n + 1 \in Nat
      BY <1>1
    <2>4. ((n + 1) % Modulus) \in 0..(Modulus - 1)
      BY <2>3, RingConstants, RemainderBelow
    <2> QED
      BY <2>1, <2>2, <2>4 DEF Counters
  <1>3. TypeOK'
    BY <1>0, <1>1, <1>2 DEF Publish, TypeOK, consumerVars
  <1>4. CountersCount'
    BY <1>0, <1>1, <1>2, RingConstants DEF Publish, CountersCount, consumerVars
  <1>5. PushOwnsItsSlot'
    <2>1. \A i \in 1..(n + 1) : accepted'[i] <= offered
      <3>1. n \in Nat /\ offered \in Nat
        BY <1>0, <1>1
      <3>2. accepted'[n + 1] <= offered
        BY <1>1, <3>1
      <3>3. \A i \in 1..n : accepted'[i] <= offered
        BY <1>0, <1>1, <3>1
      <3>4. \A i \in 1..(n + 1) : i \in 1..n \/ i = n + 1
        BY <3>1
      <3> HIDE DEF n
      <3> QED
        BY <3>2, <3>3, <3>4
    <2> QED
      BY <1>1, <2>1 DEF Publish, PushOwnsItsSlot, consumerVars
  <1>6. slots[SlotOf(n)] = Whole(offered)
    <2>1. SlotOf(pHead) = SlotOf(n) /\ SlotOf(n) \in 0..(Capacity - 1)
      BY <1>0, SlotsAre
    <2>2. slots[SlotOf(n)].lo = offered /\ slots[SlotOf(n)].hi = offered
      BY <2>1 DEF RingCore, Publish, PushOwnsItsSlot
    <2> QED
      BY <1>0, <2>1, <2>2 DEF TypeOK, Halves, Whole
  <1>7. SlotsHoldTheRecords'
    <2>1. ASSUME NEW i \in 1..(n + 1), i > Len(delivered)
          PROVE  slots[SlotOf(i - 1)] = Whole(accepted'[i])
      <3>1. CASE i = n + 1
        BY <1>1, <1>6, <3>1
      <3>2. CASE i \in 1..n
        BY <1>0, <1>1, <2>1, <3>2 DEF SlotsHoldTheRecords
      <3> QED
        BY <1>1, <3>1, <3>2
    <2> QED
      BY <1>1, <2>1 DEF Publish, SlotsHoldTheRecords, consumerVars, SlotOf, Whole
  <1>8. DeliveredIsAccepted'
    <2>1. \A i \in 1..Len(delivered) : i \in 1..n
      BY <1>0, <1>1 DEF CountersCount
    <2>2. \A i, j \in 1..(n + 1) : i < j => accepted'[i] < accepted'[j]
      <3> SUFFICES ASSUME NEW i \in 1..(n + 1), NEW j \in 1..(n + 1), i < j
                   PROVE  accepted'[i] < accepted'[j]
        OBVIOUS
      <3>1. i \in 1..n /\ (j \in 1..n \/ j = n + 1)
        BY <1>1
      <3> QED
        BY <1>0, <1>1, <3>1 DEF RingCore, DeliveredIsAccepted
    <2> QED
      BY <1>1, <2>1, <2>2
      DEF Publish, DeliveredIsAccepted, RingCore, consumerVars, Whole
  <1>9. PopCopiesTheOldest'
    <2>0. Len(out) \in Nat /\ batch \in Nat
      BY <1>0, CountersAre, RingConstants DEF TypeOK
    <2>1. cpc # "idle" => Len(out) <= batch /\ Len(delivered) + batch <= n
                            /\ (cpc = "hi" => Len(out) # batch)
      BY DEF RingCore, PopCopiesTheOldest
    <2>2. cpc = "idle" => Len(out) = 0
      BY EmptySeq DEF RingCore, PopCopiesTheOldest
    <2>3. \A i \in 1..Len(out) : Len(delivered) + i \in 1..n
      BY <1>1, <2>0, <2>1, <2>2
    <2>4. cpc = "hi" => Len(delivered) + Len(out) + 1 \in 1..n
      BY <1>1, <2>0, <2>1
    <2>5. \A i \in 1..Len(out) : out[i] = Whole(accepted'[Len(delivered) + i])
      BY <1>1, <2>3 DEF RingCore, PopCopiesTheOldest
    <2>6. cpc = "hi" => half = accepted'[Len(delivered) + Len(out) + 1]
      BY <1>1, <2>4 DEF RingCore, PopCopiesTheOldest
    <2>7. cpc # "idle" => Len(delivered) + batch <= n + 1
      BY <1>0, <1>1, <2>1 DEF TypeOK
    <2> QED
      BY <1>1, <2>5, <2>6, <2>7
      DEF Publish, RingCore, PopCopiesTheOldest, consumerVars, Whole
  <1> QED
    BY <1>3, <1>4, <1>5, <1>7, <1>8, <1>9 DEF RingCore

(* A pop begins: it takes no more than there is. *)
LEMMA TryPopKeeps ==
    ASSUME RingCore, NEW reader \in Readers, TryPop(reader)
    PROVE  RingCore'
  <1>0. TypeOK /\ CountersCount
    BY DEF RingCore
  <1>1. /\ Available(reader) \in 1..(Len(accepted) - Len(delivered))
        /\ Len(accepted) \in Nat /\ Len(delivered) \in Nat
    BY <1>0, NoMoreThanThereAre, CountersAre DEF TryPop
  <1>2. batch' \in 1..MaxBatch /\ Len(delivered) + batch' <= Len(accepted)
    BY <1>1, RingConstants DEF TryPop
  <1>3. out = <<>> /\ Len(out) = 0 /\ out' = out
    BY EmptySeq DEF RingCore, PopCopiesTheOldest, TryPop
  <1>4. TypeOK'
    BY <1>0, <1>2, RingConstants DEF TryPop, TypeOK, producerVars
  <1>5. PopCopiesTheOldest'
    BY <1>2, <1>3 DEF TryPop, PopCopiesTheOldest, producerVars
  <1> QED
    BY <1>4, <1>5
    DEF RingCore, TryPop, producerVars, CountersCount, PushOwnsItsSlot,
        SlotsHoldTheRecords, DeliveredIsAccepted, SlotOf

(* What the reader finds in the slot it is about to copy. *)
LEMMA OldestIs ==
    ASSUME RingCore, cpc \in {"lo", "hi"}
    PROVE  /\ Len(delivered) + Len(out) + 1 \in 1..Len(accepted)
           /\ ReadSlot = Whole(accepted[Len(delivered) + Len(out) + 1])
  <1> DEFINE k == Len(delivered) + Len(out) + 1
  <1>0. TypeOK /\ CountersCount
    BY DEF RingCore
  <1>1. Len(delivered) \in Nat /\ Len(out) \in Nat /\ Len(accepted) \in Nat /\ batch \in Nat
    BY <1>0, CountersAre, RingConstants DEF TypeOK
  <1>2. cTail = tail /\ Len(delivered) + batch <= Len(accepted) /\ Len(out) < batch
    BY <1>1 DEF RingCore, PopCopiesTheOldest
  <1>3. k \in 1..Len(accepted) /\ k > Len(delivered) /\ k - 1 = Len(delivered) + Len(out)
    BY <1>1, <1>2
  <1>4. SlotOf(cTail + Len(out)) = SlotOf(k - 1)
    BY <1>0, <1>1, <1>2, <1>3, SlotsAre
  <1>5. slots[SlotOf(k - 1)] = Whole(accepted[k])
    BY <1>3 DEF RingCore, SlotsHoldTheRecords
  <1> QED
    BY <1>3, <1>4, <1>5 DEF ReadSlot

(* The first half of the oldest record is read. *)
LEMMA CopyLoOutKeeps == RingCore /\ CopyLoOut => RingCore'
  <1> SUFFICES ASSUME RingCore, CopyLoOut PROVE RingCore'
    OBVIOUS
  <1> DEFINE k == Len(delivered) + Len(out) + 1
  <1>0. TypeOK /\ CountersCount
    BY DEF RingCore
  <1>1. ReadSlot = Whole(accepted[k]) /\ k \in 1..Len(accepted)
    BY OldestIs DEF CopyLoOut
  <1>2. half' = accepted[k] /\ half' \in Ids
    BY <1>0, <1>1, CountersAre, RingConstants DEF CopyLoOut, Whole, Ids
  <1>3. TypeOK'
    BY <1>0, <1>2 DEF CopyLoOut, TypeOK, producerVars
  <1>4. PopCopiesTheOldest'
    BY <1>2 DEF RingCore, CopyLoOut, PopCopiesTheOldest, producerVars
  <1> QED
    BY <1>3, <1>4
    DEF RingCore, CopyLoOut, producerVars, CountersCount, PushOwnsItsSlot,
        SlotsHoldTheRecords, DeliveredIsAccepted, SlotOf

(* The second half is read, and the record is whole. *)
LEMMA CopyHiOutKeeps == RingCore /\ CopyHiOut => RingCore'
  <1> SUFFICES ASSUME RingCore, CopyHiOut PROVE RingCore'
    OBVIOUS
  <1> DEFINE k == Len(delivered) + Len(out) + 1
             r == [lo |-> half, hi |-> ReadSlot.hi]
  <1>0. TypeOK /\ CountersCount
    BY DEF RingCore
  <1>1. ReadSlot = Whole(accepted[k]) /\ k \in 1..Len(accepted)
    BY OldestIs DEF CopyHiOut
  <1>2. r = Whole(accepted[k]) /\ r \in Halves
    BY <1>0, <1>1, CountersAre, RingConstants
    DEF RingCore, PopCopiesTheOldest, CopyHiOut, Whole, Ids, Halves
  <1>3. /\ out' = Append(out, r)
        /\ out' \in Seq(Halves)
        /\ Len(out') = Len(out) + 1 /\ Len(out) \in Nat
        /\ \A i \in 1..Len(out) : out'[i] = out[i]
        /\ out'[Len(out) + 1] = r
    BY <1>0, <1>2, AppendProperties, CountersAre DEF CopyHiOut, TypeOK
  <1>4. TypeOK'
    BY <1>0, <1>3, RingConstants DEF CopyHiOut, TypeOK, producerVars, Ids
  <1>5. PopCopiesTheOldest'
    <2>1. /\ cTail = tail /\ batch >= 1 /\ Len(delivered) + batch <= Len(accepted)
          /\ Len(out) <= batch /\ Len(out) # batch /\ batch \in Nat
      BY <1>0, RingConstants DEF RingCore, PopCopiesTheOldest, CopyHiOut, TypeOK
    <2>2. Len(out') <= batch /\ (cpc' = "release" <=> Len(out') = batch)
            /\ cpc' \in {"lo", "release"}
      BY <1>3, <2>1 DEF CopyHiOut
    <2>3. ASSUME NEW i \in 1..Len(out')
          PROVE  out'[i] = Whole(accepted[Len(delivered) + i])
      <3>1. CASE i \in 1..Len(out)
        BY <1>3, <3>1 DEF RingCore, PopCopiesTheOldest
      <3>2. CASE i = Len(out) + 1
        BY <1>0, <1>2, <1>3, <3>2, CountersAre
      <3> QED
        BY <1>3, <3>1, <3>2
    <2>4. UNCHANGED <<cTail, tail, batch, accepted, delivered>>
      BY DEF CopyHiOut, producerVars
    <2> QED
      BY <2>1, <2>2, <2>3, <2>4 DEF PopCopiesTheOldest, Whole
  <1> QED
    BY <1>4, <1>5
    DEF RingCore, CopyHiOut, producerVars, CountersCount, PushOwnsItsSlot,
        SlotsHoldTheRecords, DeliveredIsAccepted, SlotOf

(* The slots of the batch go back to the producer. *)
LEMMA ReleaseSlotsKeeps == RingCore /\ ReleaseSlots => RingCore'
  <1> SUFFICES ASSUME RingCore, ReleaseSlots PROVE RingCore'
    OBVIOUS
  <1> DEFINE n == Len(delivered)
  <1>0. TypeOK /\ CountersCount
    BY DEF RingCore
  <1>1. /\ cTail = tail /\ batch \in Nat /\ batch >= 1 /\ n + batch <= Len(accepted)
        /\ Len(out) = batch
        /\ n \in Nat /\ Len(accepted) \in Nat
    BY <1>0, CountersAre, RingConstants DEF RingCore, PopCopiesTheOldest, ReleaseSlots, TypeOK
  <1>2. /\ delivered' \in Seq(Halves)
        /\ Len(delivered') = n + batch
        /\ \A i \in 1..(n + batch) :
                delivered'[i] = IF i <= n THEN delivered[i] ELSE out[i - n]
    BY <1>0, <1>1, ConcatProperties DEF ReleaseSlots, TypeOK
  <1>3. tail' = ((n + batch) % Modulus) /\ tail' \in Counters
    <2>1. tail' = (((n % Modulus) + batch) % Modulus)
      BY <1>0, <1>1 DEF ReleaseSlots, Plus, CountersCount
    <2>2. (((n % Modulus) + batch) % Modulus) = ((n + batch) % Modulus)
      <3>1. n \in Nat /\ batch \in Nat /\ Modulus \in Nat \ {0}
        BY <1>1, RingConstants
      <3> QED
        BY <3>1, RemainderOfSum, Zenon
    <2>3. n + batch \in Nat
      BY <1>1
    <2>4. ((n + batch) % Modulus) \in 0..(Modulus - 1)
      BY <2>3, RingConstants, RemainderBelow
    <2> QED
      BY <2>1, <2>2, <2>4 DEF Counters
  <1>4. out' = <<>> /\ out' \in Seq(Halves) /\ Len(out') = 0 /\ batch' = 0
    BY EmptySeq DEF ReleaseSlots
  <1>5. TypeOK'
    BY <1>0, <1>2, <1>3, <1>4, RingConstants DEF ReleaseSlots, TypeOK, producerVars
  <1>6. CountersCount'
    <2>1. Len(accepted) <= (n + batch) + Capacity
      BY <1>0, <1>1, RingConstants DEF CountersCount
    <2> QED
      BY <1>0, <1>1, <1>2, <1>3, <2>1 DEF ReleaseSlots, producerVars, CountersCount
  <1>7. PushOwnsItsSlot'
    <2>1. ppc # "idle" => Len(accepted) < (n + batch) + Capacity
      BY <1>1, RingConstants DEF RingCore, PushOwnsItsSlot
    <2> QED
      BY <1>2, <2>1 DEF RingCore, ReleaseSlots, producerVars, PushOwnsItsSlot, SlotOf
  <1>8. SlotsHoldTheRecords'
    BY <1>1, <1>2 DEF RingCore, ReleaseSlots, producerVars, SlotsHoldTheRecords, SlotOf, Whole
  <1>9. PopCopiesTheOldest'
    BY <1>4 DEF ReleaseSlots, PopCopiesTheOldest
  <1>10. DeliveredIsAccepted'
    <2>1. ASSUME NEW i \in 1..(n + batch)
          PROVE  delivered'[i] = Whole(accepted[i])
      <3>1. CASE i <= n
        <4>1. i \in 1..n
          BY <1>1, <3>1
        <4> QED
          BY <1>2, <3>1, <4>1 DEF RingCore, DeliveredIsAccepted
      <3>2. CASE i > n
        <4>1. i - n \in 1..Len(out) /\ Len(delivered) + (i - n) = i
          BY <1>1, <3>2
        <4>2. out[i - n] = Whole(accepted[Len(delivered) + (i - n)])
          BY <4>1 DEF RingCore, PopCopiesTheOldest
        <4>3. delivered'[i] = out[i - n]
          BY <1>1, <1>2, <3>2
        <4> QED
          BY <4>1, <4>2, <4>3, Zenon
      <3> QED
        BY <1>1, <3>1, <3>2
    <2> QED
      BY <1>2, <2>1 DEF RingCore, ReleaseSlots, producerVars, DeliveredIsAccepted, Whole
  <1> QED
    BY <1>5, <1>6, <1>7, <1>8, <1>9, <1>10 DEF RingCore

(* Every step of the ring. *)
LEMMA RingCoreNext == RingCore /\ [Next]_vars => RingCore'
  <1> SUFFICES ASSUME RingCore, [Next]_vars PROVE RingCore'
    OBVIOUS
  <1>1. CASE UNCHANGED vars
    BY <1>1
    DEF vars, producerVars, consumerVars, RingCore, TypeOK, CountersCount, PushOwnsItsSlot,
        SlotsHoldTheRecords, PopCopiesTheOldest, DeliveredIsAccepted, SlotOf, Whole
  <1> QED
    BY <1>1, TryPushKeeps, CopyLoInKeeps, CopyHiInKeeps, PublishKeeps, TryPopKeeps,
       CopyLoOutKeeps, CopyHiOutKeeps, ReleaseSlotsKeeps
    DEF Next, Producer, Consumer

(* A writer that owns its slot is not in one that is read, and a record that
   was accepted is whole. *)
LEMMA RingCoreSuffices == RingCore => RingInv
  <1> SUFFICES ASSUME RingCore PROVE RingInv
    OBVIOUS
  <1>0. TypeOK /\ CountersCount
    BY DEF RingCore
  <1>1. Len(accepted) \in Nat /\ Len(delivered) \in Nat /\ batch \in Nat
    BY <1>0, CountersAre, RingConstants DEF TypeOK
  <1>2. WriterStaysClear
    <2> SUFFICES ASSUME ppc \in {"lo", "hi"}, cpc # "idle", NEW i \in 0..(batch - 1)
                 PROVE  SlotOf(pHead) # SlotOf(cTail + i)
      BY DEF WriterStaysClear
    <2> DEFINE k == Len(delivered) + i
    <2>1. /\ pHead = head /\ Len(accepted) < Len(delivered) + Capacity
          /\ cTail = tail /\ Len(delivered) + batch <= Len(accepted)
      BY DEF RingCore, PushOwnsItsSlot, PopCopiesTheOldest
    <2>2. SlotOf(pHead) = SlotOf(Len(accepted)) /\ SlotOf(cTail + i) = SlotOf(k)
      BY <1>0, <1>1, <2>1, SlotsAre
    <2>3. k \in Nat /\ k < Len(accepted) /\ Len(accepted) < k + Capacity
      BY <1>1, <2>1, RingConstants
    <2> QED
      BY <1>1, <2>2, <2>3, SlotsDiffer
  <1>3. NoTornRecord
    <2>1. \A i \in 1..Len(delivered) : i \in 1..Len(accepted)
      BY <1>0, <1>1 DEF CountersCount
    <2>2. \A i \in 1..Len(delivered) :
              delivered[i] = Whole(accepted[i]) /\ accepted[i] \in 1..MaxRecords
      BY <1>0, <2>1, CountersAre DEF RingCore, DeliveredIsAccepted
    <2> SUFFICES ASSUME NEW i \in 1..Len(delivered)
                 PROVE  delivered[i].lo = delivered[i].hi /\ delivered[i].lo # 0
      BY DEF NoTornRecord
    <2>3. PICK x \in 1..MaxRecords : delivered[i] = [lo |-> x, hi |-> x]
      BY <2>2 DEF Whole
    <2> QED
      BY <2>3
  <1> QED
    BY <1>2, <1>3 DEF RingCore, RingInv

(* In every state of a ring the counters count its records, the two ends stay
   out of each other's slots, and no record comes out torn. *)
THEOREM RingIsSound == Spec => []RingInv
  BY RingCoreInit, RingCoreNext, RingCoreSuffices, PTL DEF Spec

-----------------------------------------------------------------------------
(* What comes out, and the refinement of BoundedFifo.                      *)

(* Nothing comes out twice, and nothing old after something new. *)
THEOREM OutputMovesForward == Spec => []DeliveredMovesForward
  <1>1. RingCore => DeliveredMovesForward
    <2> SUFFICES ASSUME RingCore,
                        NEW i \in 1..Len(delivered), NEW j \in 1..Len(delivered), i < j
                 PROVE  delivered[i].lo < delivered[j].lo
      BY DEF DeliveredMovesForward
    <2>1. i \in 1..Len(accepted) /\ j \in 1..Len(accepted)
      BY CountersAre DEF RingCore, CountersCount
    <2>2. accepted[i] < accepted[j]
      BY <2>1 DEF RingCore, DeliveredIsAccepted
    <2>3. delivered[i] = Whole(accepted[i]) /\ delivered[j] = Whole(accepted[j])
      BY DEF RingCore, DeliveredIsAccepted
    <2>4. delivered[i].lo = accepted[i] /\ delivered[j].lo = accepted[j]
      BY <2>3 DEF Whole
    <2> QED
      BY <2>2, <2>4
  <1> QED
    BY <1>1, RingCoreInit, RingCoreNext, PTL DEF Spec

(* What a reader would find: the accepted records that were not delivered. *)
BufferedRecords ==
    /\ Buffered \in Seq(Halves)
    /\ Len(Buffered) = Len(accepted) - Len(delivered)
    /\ \A i \in 1..(Len(accepted) - Len(delivered)) :
            Buffered[i] = Whole(accepted[Len(delivered) + i])

(* The slots from tail to head, as a sequence. *)
LEMMA BufferedIs == RingCore => BufferedRecords
  <1> SUFFICES ASSUME RingCore PROVE BufferedRecords
    OBVIOUS
  <1> DEFINE n == Len(accepted) - Len(delivered)
             k(i) == Len(delivered) + i
  <1>0. TypeOK /\ CountersCount
    BY DEF RingCore
  <1>1. Len(accepted) \in Nat /\ Len(delivered) \in Nat /\ n \in Nat /\ Distance(head, tail) = n
    BY <1>0, CountersAre, RingConstants
  <1>2. ASSUME NEW i \in 1..n
        PROVE  slots[SlotOf(tail + i - 1)] = Whole(accepted[k(i)])
                 /\ Whole(accepted[k(i)]) \in Halves
    <2>1. i - 1 \in Nat /\ k(i) \in 1..Len(accepted) /\ k(i) > Len(delivered)
            /\ Len(delivered) + (i - 1) = k(i) - 1
            /\ tail + i - 1 = tail + (i - 1)
      BY <1>0, <1>1 DEF TypeOK, Counters
    <2>2. SlotOf(tail + i - 1) = SlotOf(k(i) - 1)
      BY <1>0, <2>1, SlotsAre
    <2>3. slots[SlotOf(k(i) - 1)] = Whole(accepted[k(i)])
      BY <2>1 DEF RingCore, SlotsHoldTheRecords
    <2>4. accepted[k(i)] \in 1..MaxRecords
      BY <1>0, <2>1, CountersAre
    <2> QED
      BY <2>2, <2>3, <2>4, RingConstants DEF Whole, Halves, Ids
  <1>3. Buffered = [i \in 1..n |-> slots[SlotOf(tail + i - 1)]]
    BY <1>1 DEF Buffered
  <1>4. Buffered \in [1..n -> Halves]
    BY <1>2, <1>3
  <1>5. Buffered \in Seq(Halves) /\ Len(Buffered) = n
    BY <1>1, <1>4
  <1> QED
    BY <1>2, <1>3, <1>5 DEF BufferedRecords

(* A step that accepts and delivers nothing leaves the queue as it is,
   although it may write the slots. *)
LEMMA BufferedStays ==
    ASSUME BufferedRecords, BufferedRecords', UNCHANGED <<accepted, delivered>>
    PROVE  Buffered' = Buffered
  <1>1. /\ Len(Buffered') = Len(Buffered) /\ Len(Buffered) = Len(accepted) - Len(delivered)
        /\ Buffered \in Seq(Halves) /\ Buffered' \in Seq(Halves)
    BY DEF BufferedRecords
  <1>2. \A i \in 1..Len(Buffered) : Buffered'[i] = Buffered[i]
    BY <1>1 DEF BufferedRecords, Whole
  <1> QED
    BY <1>1, <1>2, SeqEqual

(* Publishing a record puts it at the end of the queue. *)
LEMMA PublishPuts ==
    ASSUME RingCore, BufferedRecords, BufferedRecords', Publish
    PROVE  \E r \in {Whole(id) : id \in 1..MaxRecords} : Fifo!Put(r)
  <1> DEFINE n == Len(accepted) - Len(delivered)
             r == Whole(offered)
  <1>0. TypeOK /\ CountersCount
    BY DEF RingCore
  <1>1. /\ Len(accepted) \in Nat /\ Len(delivered) \in Nat /\ n \in Nat /\ n < Capacity
        /\ offered \in 1..MaxRecords
    BY <1>0, CountersAre, RingConstants
    DEF RingCore, PushOwnsItsSlot, Publish, TypeOK, Ids
  <1>2. /\ Len(accepted') = Len(accepted) + 1
        /\ \A i \in 1..Len(accepted) : accepted'[i] = accepted[i]
        /\ accepted'[Len(accepted) + 1] = offered
        /\ delivered' = delivered
    BY <1>0, <1>1, AppendProperties DEF Publish, TypeOK, consumerVars
  <1>3. r \in Halves
    BY <1>1 DEF Whole, Halves, Ids
  <1>4. Len(Buffered') = n + 1 /\ Buffered' \in Seq(Halves) /\ Buffered \in Seq(Halves)
          /\ Len(Buffered) = n
    BY <1>1, <1>2 DEF BufferedRecords
  <1>5. /\ Append(Buffered, r) \in Seq(Halves) /\ Len(Append(Buffered, r)) = n + 1
        /\ \A i \in 1..n : Append(Buffered, r)[i] = Buffered[i]
        /\ Append(Buffered, r)[n + 1] = r
    BY <1>3, <1>4, AppendProperties
  <1>6. ASSUME NEW i \in 1..(n + 1)
        PROVE  Buffered'[i] = Append(Buffered, r)[i]
    <2>1. Buffered'[i] = Whole(accepted'[Len(delivered) + i])
      BY <1>1, <1>2 DEF BufferedRecords, Whole
    <2>2. CASE i \in 1..n
      <3>1. Len(delivered) + i \in 1..Len(accepted)
        BY <1>1, <2>2
      <3> QED
        BY <1>2, <1>5, <2>1, <2>2, <3>1 DEF BufferedRecords
    <2>3. CASE i = n + 1
      <3>1. Len(delivered) + i = Len(accepted) + 1
        BY <1>1, <2>3
      <3> QED
        BY <1>2, <1>5, <2>1, <2>3, <3>1
    <2>4. i \in 1..n \/ i = n + 1
      BY <1>1
    <2> QED
      BY <2>2, <2>3, <2>4
  <1>7. Buffered' = Append(Buffered, r)
    BY <1>4, <1>5, <1>6, SeqEqual
  <1>8. Fifo!Put(r)
    BY <1>1, <1>2, <1>4, <1>7 DEF Fifo!Put
  <1> QED
    BY <1>1, <1>8

(* Releasing the slots of a batch takes that many records off the front. *)
LEMMA ReleaseTakes ==
    ASSUME RingCore, BufferedRecords, BufferedRecords', ReleaseSlots
    PROVE  \E m \in 1..Len(Buffered) : Fifo!Take(m)
  <1> DEFINE n == Len(accepted) - Len(delivered)
             d == Len(delivered)
  <1>0. TypeOK /\ CountersCount
    BY DEF RingCore
  <1>1. /\ Len(accepted) \in Nat /\ d \in Nat /\ n \in Nat
        /\ batch \in 1..n /\ Len(out) = batch /\ out \in Seq(Halves)
        /\ delivered \in Seq(Halves)
    BY <1>0, CountersAre, RingConstants
    DEF RingCore, PopCopiesTheOldest, ReleaseSlots, TypeOK
  <1>2. delivered' = delivered \o out /\ Len(delivered') = d + batch /\ accepted' = accepted
    BY <1>1, ConcatProperties DEF ReleaseSlots, producerVars
  <1>3. Len(Buffered) = n /\ Buffered \in Seq(Halves)
          /\ Len(Buffered') = n - batch /\ Buffered' \in Seq(Halves)
    BY <1>1, <1>2 DEF BufferedRecords
  <1>4. \A i \in 1..n : Buffered[i] \in Halves
    BY <1>3, ElementOfSeq
  <1>5. SubSeq(Buffered, 1, batch) = out
    <2>1. /\ SubSeq(Buffered, 1, batch) \in Seq(Halves)
          /\ Len(SubSeq(Buffered, 1, batch)) = batch
          /\ \A i \in 1..batch : SubSeq(Buffered, 1, batch)[i] = Buffered[i]
      BY <1>1, <1>3, <1>4, SubSeqProperties
    <2>2. \A i \in 1..batch : i \in 1..n /\ i \in 1..Len(out)
      BY <1>1
    <2>3. \A i \in 1..Len(out) : out[i] = Whole(accepted[d + i])
      BY DEF RingCore, PopCopiesTheOldest
    <2>4. \A i \in 1..n : Buffered[i] = Whole(accepted[d + i])
      BY DEF BufferedRecords
    <2>5. \A i \in 1..batch : out[i] = Buffered[i]
      BY <2>2, <2>3, <2>4
    <2> QED
      BY <1>1, <2>1, <2>5, SeqEqual
  <1>6. SubSeq(Buffered, batch + 1, n) = Buffered'
    <2>1. /\ SubSeq(Buffered, batch + 1, n) \in Seq(Halves)
          /\ Len(SubSeq(Buffered, batch + 1, n)) = n - batch
          /\ \A i \in 1..(n - batch) :
                SubSeq(Buffered, batch + 1, n)[i] = Buffered[batch + i]
      <3> DEFINE m == batch + 1
      <3>1. /\ m \in Int /\ n \in Int /\ \A i \in m..n : Buffered[i] \in Halves
            /\ n - m + 1 = n - batch
            /\ (IF m <= n THEN n - m + 1 ELSE 0) = n - batch
            /\ \A i \in 1..(n - batch) : m + i - 1 = batch + i
        BY <1>1, <1>4
      <3> HIDE DEF m
      <3>2. /\ SubSeq(Buffered, m, n) \in Seq(Halves)
            /\ Len(SubSeq(Buffered, m, n)) = IF m <= n THEN n - m + 1 ELSE 0
            /\ \A i \in 1..(n - m + 1) : SubSeq(Buffered, m, n)[i] = Buffered[m + i - 1]
        BY <3>1, SubSeqProperties
      <3> QED
        BY <3>1, <3>2 DEF m
    <2>2. ASSUME NEW i \in 1..(n - batch)
          PROVE  Buffered'[i] = Buffered[batch + i]
      <3>1. batch + i \in 1..n /\ d + (batch + i) = (d + batch) + i
              /\ Len(accepted) - (d + batch) = n - batch
        BY <1>1
      <3>2. Buffered'[i] = Whole(accepted[(d + batch) + i])
        BY <1>2, <3>1 DEF BufferedRecords, Whole
      <3> QED
        BY <3>1, <3>2 DEF BufferedRecords
    <2> QED
      BY <1>3, <2>1, <2>2, SeqEqual
  <1>7. Fifo!Take(batch)
    BY <1>2, <1>3, <1>5, <1>6 DEF Fifo!Take
  <1> QED
    BY <1>1, <1>3, <1>7

(* The ring is a bounded queue: with steps of other processes between any two
   of its own, across the wrap of the slots and of the counters, nothing is
   lost, doubled, reordered or made up. *)
THEOREM RingImplementsFifo == Spec => ImplementsFifo
  <1>1. Init => Fifo!Init
    <2> SUFFICES ASSUME Init PROVE Buffered = <<>> /\ delivered = <<>>
      BY DEF Fifo!Init
    <2>1. BufferedRecords
      BY RingCoreInit, BufferedIs
    <2>2. Len(accepted) = 0 /\ Len(delivered) = 0
      BY EmptySeq DEF Init
    <2> QED
      BY <2>1, <2>2, EmptySeq DEF BufferedRecords, Init
  <1>2. RingCore' => BufferedRecords'
    BY BufferedIs, PTL
  <1>3. RingCore /\ RingCore' /\ [Next]_vars => [Fifo!Next]_(Fifo!fifoVars)
    <2> SUFFICES ASSUME RingCore, RingCore', [Next]_vars
                 PROVE  [Fifo!Next]_(Fifo!fifoVars)
      OBVIOUS
    <2>1. BufferedRecords /\ BufferedRecords'
      BY <1>2, BufferedIs
    <2>2. CASE Publish
      BY <2>1, <2>2, PublishPuts DEF Fifo!Next
    <2>3. CASE ReleaseSlots
      BY <2>1, <2>3, ReleaseTakes DEF Fifo!Next
    <2>4. CASE UNCHANGED <<accepted, delivered>>
      BY <2>1, <2>4, BufferedStays DEF Fifo!fifoVars
    <2>5. Publish \/ ReleaseSlots \/ UNCHANGED <<accepted, delivered>>
      BY DEF Next, Producer, Consumer, vars, producerVars, consumerVars, TryPush, CopyLoIn,
             CopyHiIn, TryPop, CopyLoOut, CopyHiOut
    <2> QED
      BY <2>2, <2>3, <2>4, <2>5
  <1> QED
    BY <1>1, <1>3, RingCoreInit, RingCoreNext, PTL DEF Spec, ImplementsFifo, Fifo!Spec

-----------------------------------------------------------------------------
-----------------------------------------------------------------------------
(* Types, in the groups that steps leave alone together.                   *)

RunnerTypes ==
    /\ runner \in {"absent", "running", "raised"}
    /\ first \in Nat /\ reused \in BOOLEAN
    /\ outbox \in Seq(Targets) /\ emitted \in Seq(Targets) /\ contents \in Seq(Targets)
    /\ Len(emitted) <= MaxEmitted
    /\ flushing \in BOOLEAN
    /\ Len(contents) = offered

Counted == [accepted : Nat, expired : Nat, stale : Nat, missing : Nat]

CoreTypes ==
    /\ clock \in 1..MaxClock
    /\ attached \in BOOLEAN
    /\ core \in {"idle", "drain", "plan"}
    /\ coreRestarts \in 0..MaxCoreRestarts
    /\ passNow \in 0..MaxClock /\ budget \in 0..MaxPerDrain
    /\ lastSeq \in Nat \cup {-1}
    /\ counts \in Counted
    /\ pass \in Targets \cup {NoTarget} /\ carried \in Targets \cup {NoTarget}
    /\ acted.target \in Targets \cup {NoTarget}

(* The inductive invariant of the path. *)
Ind ==
    /\ TypeOK /\ RunnerTypes /\ CoreTypes
    /\ OutboxIsWhatIsLeft
    /\ ContentsAreEmitted
    /\ SlotsHoldThisLife
    /\ PopCopiesTheNext
    /\ TakenIsPast /\ NoTornRecord /\ DeliveredMovesForward
    /\ BaselineIsBehind
    /\ CountsAddUp
    /\ PassIsFresh /\ ActedTargetsAreFresh

(* The constants, without the sets they are given in. *)
LEMMA PathConstants ==
    /\ PythonProducer /\ Ttls \subseteq Nat /\ FirstSeqs \in [0..MaxRestarts -> SUBSET Nat]
    /\ Ceiling \in Nat /\ MaxPerDrain \in Nat /\ MaxOutbox \in Nat /\ MaxClock \in Nat \ {0}
    /\ MaxEmitted \in Nat /\ MaxCoreRestarts \in Nat /\ MaxRestarts \in Nat
  BY SignalPathAssumption, RingAssumption

(* The numbers of a state. *)
LEMMA Numbers ==
    ASSUME TypeOK, RunnerTypes
    PROVE  /\ head \in Nat /\ tail \in Nat /\ pHead \in Nat /\ head < Modulus /\ tail < Modulus
           /\ offered \in Nat /\ restarts \in Nat
           /\ Len(outbox) \in Nat /\ Len(emitted) \in Nat /\ Len(delivered) \in Nat
           /\ Len(contents) = offered
           /\ Given \in Nat /\ Earlier \in Int /\ offered = Earlier + Given
  <1>1. /\ Len(outbox) \in Nat /\ Len(emitted) \in Nat /\ Len(delivered) \in Nat
        /\ Len(contents) = offered
    BY LenProperties DEF TypeOK, RunnerTypes
  <1>2. /\ head \in Nat /\ tail \in Nat /\ pHead \in Nat /\ head < Modulus /\ tail < Modulus
        /\ offered \in Nat /\ restarts \in Nat
    BY RingConstants, PathConstants DEF TypeOK, Counters, Ids
  <1>3. Given \in Nat /\ Earlier \in Int /\ offered = Earlier + Given
    BY <1>2 DEF Given, Earlier
  <1> QED
    BY <1>1, <1>2, <1>3

-----------------------------------------------------------------------------
(* Who touches what.                                                       *)

CoreSide == Tick \/ CoreStep \/ RestartCore \/ UNCHANGED allVars
RunnerSide == StartRunner \/ Handle \/ RunnerStep \/ RestartRunner

LEMMA TwoSides == [PathNext]_allVars <=> CoreSide \/ RunnerSide
  BY DEF PathNext, CoreSide, RunnerSide

LEMMA CoreSideKeeps ==
    CoreSide => UNCHANGED <<head, slots, ppc, pHead, offered, accepted, restarts,
                            runner, first, reused, outbox, flushing, emitted, contents>>
  <1>1. UNCHANGED allVars => UNCHANGED <<head, slots, ppc, pHead, offered, accepted, restarts,
                            runner, first, reused, outbox, flushing, emitted, contents>>
    BY DEF allVars, vars, pathVars, producerVars, runnerVars
  <1>2. Tick => UNCHANGED <<head, slots, ppc, pHead, offered, accepted, restarts,
                            runner, first, reused, outbox, flushing, emitted, contents>>
    BY DEF Tick, vars, producerVars, runnerVars
  <1>3. RestartCore => UNCHANGED <<head, slots, ppc, pHead, offered, accepted, restarts,
                            runner, first, reused, outbox, flushing, emitted, contents>>
    BY DEF RestartCore, producerVars, runnerVars
  <1>4. BeginPass \/ Pop \/ EndDrain \/ Plan =>
            UNCHANGED <<head, slots, ppc, pHead, offered, accepted, restarts,
                        runner, first, reused, outbox, flushing, emitted, contents>>
    BY DEF BeginPass, Pop, TryPop, EndDrain, Plan, vars, producerVars, runnerVars
  <1>5. CopyOut \/ Take =>
            UNCHANGED <<head, slots, ppc, pHead, offered, accepted, restarts,
                        runner, first, reused, outbox, flushing, emitted, contents>>
    BY DEF CopyOut, CopyLoOut, CopyHiOut, Take, ReleaseSlots, pathVars, producerVars, runnerVars
  <1> QED
    BY <1>1, <1>2, <1>3, <1>4, <1>5 DEF CoreSide, CoreStep

LEMMA RunnerSideKeeps ==
    RunnerSide =>
        /\ UNCHANGED <<cpc, cTail, batch, out, half, delivered, clock, coreRestarts, attached,
                       lastSeq, counts, core, passNow, budget, pass, carried, acted>>
        /\ tail' = tail \/ (CopyIn /\ ZeroTail)
  <1>1. StartRunner \/ Handle \/ PushRefused =>
            UNCHANGED <<tail, cpc, cTail, batch, out, half, delivered, clock, coreRestarts, attached,
                        lastSeq, counts, core, passNow, budget, pass, carried, acted>>
    BY DEF StartRunner, Handle, PushRefused, vars, consumerVars, readerVars, passVars
  <1>2. Push \/ Pushed \/ RestartRunner =>
            UNCHANGED <<tail, cpc, cTail, batch, out, half, delivered, clock, coreRestarts, attached,
                        lastSeq, counts, core, passNow, budget, pass, carried, acted>>
    BY DEF Push, TryPush, Pushed, Publish, RestartRunner, Restart, consumerVars, readerVars, passVars
  <1>3. CopyIn =>
        /\ UNCHANGED <<cpc, cTail, batch, out, half, delivered, clock, coreRestarts, attached,
                       lastSeq, counts, core, passNow, budget, pass, carried, acted>>
        /\ tail' = tail \/ (CopyIn /\ ZeroTail)
    BY DEF CopyIn, CopyLoIn, CopyHiIn, ZeroTail, consumerVars, pathVars, readerVars, passVars
  <1> QED
    BY <1>1, <1>2, <1>3 DEF RunnerSide, RunnerStep

-----------------------------------------------------------------------------
(* The runner's side, one action at a time: what it does to the numbers the   *)
(* invariant is about.                                                     *)

(* One step of the counters that are not at their end is not wrapped. *)
LEMMA StepOfACounter ==
    ASSUME NEW c \in Nat, c + 1 < Modulus
    PROVE  Plus(c, 1) = c + 1
  BY SmallRemainder, RingConstants DEF Plus

LEMMA PushDoes ==
    ASSUME Ind, Push
    PROVE  /\ ppc = "idle" /\ ppc' = "lo" /\ pHead' = head /\ offered' = offered + 1
           /\ head + 1 < Modulus /\ head + 1 <= tail + Capacity
           /\ flushing /\ outbox # <<>> /\ contents' = Append(contents, Head(outbox))
           /\ offered < MaxRecords
           /\ UNCHANGED <<head, tail, slots, accepted, restarts, runner, first, reused,
                         outbox, flushing, emitted>>
           /\ Given' = head + 1 /\ Given = head /\ Earlier' = Earlier
  <1>0. head \in Nat /\ tail \in Nat /\ offered \in Nat /\ Capacity \in Nat
    BY Numbers, RingConstants DEF Ind
  <1>1. /\ ppc = "idle" /\ ppc' = "lo" /\ pHead' = head /\ offered' = offered + 1
        /\ head + 1 < Modulus /\ head - tail < Capacity
        /\ flushing /\ outbox # <<>> /\ contents' = Append(contents, Head(outbox))
        /\ offered < MaxRecords
        /\ UNCHANGED <<head, tail, slots, accepted, restarts, runner, first, reused,
                         outbox, flushing, emitted>>
    BY <1>0, PathConstants DEF Push, TryPush, Full, runnerVars, consumerVars
  <1>2. Given' = head + 1 /\ Given = head
    BY <1>1 DEF Given, Pushing
  <1>3. Earlier' = Earlier
    BY <1>0, <1>1, <1>2 DEF Earlier
  <1>4. head + 1 <= tail + Capacity
    BY <1>0, <1>1
  <1> QED
    BY <1>1, <1>2, <1>3, <1>4

LEMMA PushedDoes ==
    ASSUME Ind, Pushed
    PROVE  /\ ppc = "publish" /\ ppc' = "idle" /\ head' = head + 1 /\ head + 1 < Modulus
           /\ accepted' = Append(accepted, offered)
           /\ flushing /\ outbox # <<>> /\ outbox' = Tail(outbox)
           /\ flushing' \in BOOLEAN
           /\ UNCHANGED <<tail, slots, pHead, offered, restarts, runner, first, reused,
                         emitted, contents>>
           /\ Given' = head + 1 /\ Given = head + 1 /\ Earlier' = Earlier
  <1>0. head \in Nat /\ tail \in Nat /\ offered \in Nat
    BY Numbers DEF Ind
  <1>1. /\ ppc = "publish" /\ ppc' = "idle" /\ head' = Plus(pHead, 1)
        /\ accepted' = Append(accepted, offered)
        /\ flushing /\ outbox' = Tail(outbox) /\ flushing' \in BOOLEAN
        /\ UNCHANGED <<tail, slots, pHead, offered, restarts, runner, first, reused,
                         emitted, contents>>
    BY DEF Pushed, Publish, consumerVars
  <1>2. pHead = head /\ head + 1 < Modulus /\ outbox # <<>>
    BY <1>1 DEF Ind, OutboxIsWhatIsLeft, Pushing
  <1>3. head' = head + 1
    BY <1>0, <1>1, <1>2, StepOfACounter
  <1>4. Given' = head + 1 /\ Given = head + 1
    BY <1>1, <1>3 DEF Given, Pushing
  <1>5. Earlier' = Earlier
    BY <1>1, <1>4 DEF Earlier
  <1> QED
    BY <1>1, <1>2, <1>3, <1>4, <1>5

(* The other steps move neither what the ring was given nor what is earlier,
   but for a new producer. *)
LEMMA CopyInDoes ==
    ASSUME Ind, CopyIn
    PROVE  /\ UNCHANGED <<head, pHead, offered, accepted, restarts,
                          runner, first, reused, outbox, flushing, emitted, contents>>
           /\ Given' = Given /\ Earlier' = Earlier
           /\ \/ /\ ppc = "lo" /\ ppc' = "hi" /\ tail' = tail
                 /\ slots' = [slots EXCEPT ![SlotOf(pHead)].lo = offered]
              \/ /\ ppc = "hi" /\ ppc' = "publish" /\ tail' = tail
                 /\ slots' = [slots EXCEPT ![SlotOf(pHead)].hi = offered]
              \/ ppc = "zeroTail" /\ ppc' = "idle" /\ tail' = 0 /\ slots' = slots
  <1>1. /\ UNCHANGED <<head, pHead, offered, accepted, restarts,
                       runner, first, reused, outbox, flushing, emitted, contents>>
        /\ \/ /\ ppc = "lo" /\ ppc' = "hi" /\ tail' = tail
              /\ slots' = [slots EXCEPT ![SlotOf(pHead)].lo = offered]
           \/ /\ ppc = "hi" /\ ppc' = "publish" /\ tail' = tail
              /\ slots' = [slots EXCEPT ![SlotOf(pHead)].hi = offered]
           \/ ppc = "zeroTail" /\ ppc' = "idle" /\ tail' = 0 /\ slots' = slots
    BY DEF CopyIn, CopyLoIn, CopyHiIn, ZeroTail, pathVars, runnerVars
  <1>2. Given' = Given
    BY <1>1 DEF Given, Pushing
  <1>3. Earlier' = Earlier
    BY <1>1, <1>2 DEF Earlier
  <1> QED
    BY <1>1, <1>2, <1>3

LEMMA RestartRunnerDoes ==
    ASSUME Ind, RestartRunner, ~RestartsRace
    PROVE  /\ restarts' = restarts + 1 /\ restarts < MaxRestarts
           /\ head' = 0 /\ ppc' = "zeroTail" /\ cpc = "idle"
           /\ runner' = "running" /\ outbox' = <<>> /\ flushing' = FALSE /\ emitted' = <<>>
           /\ first' \in Nat /\ reused' = (reused \/ first' < first + Len(emitted))
           /\ UNCHANGED <<tail, slots, pHead, offered, accepted, contents>>
           /\ Given' = 0 /\ Earlier' = offered
  <1>1. /\ restarts' = restarts + 1 /\ restarts < MaxRestarts
        /\ head' = 0 /\ ppc' = "zeroTail" /\ cpc = "idle"
        /\ runner' = "running" /\ outbox' = <<>> /\ flushing' = FALSE /\ emitted' = <<>>
        /\ first' \in FirstSeqs[restarts + 1]
        /\ reused' = (reused \/ first' < first + Len(emitted))
        /\ UNCHANGED <<tail, slots, pHead, offered, accepted, contents>>
    BY DEF RestartRunner, Restart, consumerVars
  <1>2. Given' = 0
    BY <1>1 DEF Given, Pushing
  <1>3. Earlier' = offered
    BY <1>1, <1>2, Numbers DEF Earlier, Ind
  <1>4. first' \in Nat
    <2>1. restarts + 1 \in 0..MaxRestarts
      BY <1>1, PathConstants, Numbers DEF Ind
    <2> QED
      BY <1>1, <2>1, PathConstants
  <1> QED
    BY <1>1, <1>2, <1>3, <1>4

LEMMA HandleDoes ==
    ASSUME Ind, Handle
    PROVE  /\ ppc = "idle" /\ flushing' = TRUE /\ runner' = "running" /\ runner # "absent"
           /\ UNCHANGED <<head, tail, slots, ppc, pHead, offered, accepted, restarts, first, reused,
                          contents>>
           /\ \/ UNCHANGED <<outbox, emitted>>
              \/ \E target \in Targets :
                    /\ Len(emitted) < MaxEmitted
                    /\ target.seq = first + Len(emitted) /\ target.life = restarts
                    /\ outbox' = Append(outbox, target) /\ emitted' = Append(emitted, target)
  <1>1. /\ ppc = "idle" /\ flushing' = TRUE /\ runner' = "running" /\ runner # "absent"
        /\ UNCHANGED <<head, tail, slots, ppc, pHead, offered, accepted, restarts, first, reused,
                          contents>>
    BY DEF Handle, vars, producerVars
  <1>2. CASE UNCHANGED <<outbox, emitted>>
    BY <1>1, <1>2
  <1>3. CASE ~UNCHANGED <<outbox, emitted>>
    <2>1. PICK ttl \in Ttls :
            LET target == [seq |-> first + Len(emitted), life |-> restarts, ts |-> clock, ttl |-> ttl]
            IN  /\ Len(emitted) < MaxEmitted
                /\ outbox' = Append(outbox, target)
                /\ emitted' = Append(emitted, target)
      BY <1>3 DEF Handle
    <2> DEFINE target == [seq |-> first + Len(emitted), life |-> restarts, ts |-> clock, ttl |-> ttl]
    <2>2. target \in Targets
      BY <2>1, Numbers, PathConstants DEF Targets, Ind, CoreTypes, RunnerTypes, TypeOK
    <2>3. target.seq = first + Len(emitted) /\ target.life = restarts
      OBVIOUS
    <2> QED
      BY <1>1, <2>1, <2>2, <2>3
  <1> QED
    BY <1>2, <1>3

(* What is quiet for the ring and the outbox alike. *)
LEMMA QuietDoes ==
    ASSUME Ind, StartRunner \/ PushRefused
    PROVE  /\ UNCHANGED <<head, tail, slots, ppc, pHead, offered, accepted, restarts,
                          outbox, emitted, contents>>
           /\ runner' \in {"running", "raised"} /\ flushing' \in BOOLEAN
           /\ first' \in Nat /\ reused' = reused
           /\ first' = first \/ runner = "absent"
           /\ ppc = "idle" \/ flushing' = flushing
           /\ flushing' => flushing
  <1>1. CASE StartRunner
    <2>1. /\ runner' = "running" /\ runner = "absent" /\ reused' = reused
          /\ first' \in FirstSeqs[restarts]
          /\ UNCHANGED <<head, tail, slots, ppc, pHead, offered, accepted, restarts,
                         outbox, emitted, contents, flushing>>
      BY <1>1 DEF StartRunner, vars, producerVars
    <2>2. first' \in Nat
      BY <2>1, PathConstants DEF Ind, TypeOK
    <2> QED
      BY <2>1, <2>2 DEF Ind, RunnerTypes
  <1>2. CASE PushRefused
    <2>1. /\ runner' \in {"running", "raised"} /\ flushing' = FALSE /\ ppc = "idle"
          /\ UNCHANGED <<head, tail, slots, ppc, pHead, offered, accepted, restarts,
                         first, reused, outbox, emitted, contents>>
      BY <1>2 DEF PushRefused, vars, producerVars
    <2> QED
      BY <2>1 DEF Ind, RunnerTypes
  <1> QED
    BY <1>1, <1>2

-----------------------------------------------------------------------------
(* The runner's part of the invariant.                                     *)

(* The three places of a step of the runner. *)
LEMMA RunnerSideIs ==
    RunnerSide <=> (StartRunner \/ PushRefused) \/ Handle \/ Push \/ Pushed \/ CopyIn \/ RestartRunner
  BY DEF RunnerSide, RunnerStep

LEMMA RunnerTypesNext ==
    ASSUME Ind, RunnerSide, ~RestartsRace
    PROVE  RunnerTypes'
  <1>0. /\ outbox \in Seq(Targets) /\ emitted \in Seq(Targets) /\ contents \in Seq(Targets)
        /\ RunnerTypes
    BY DEF Ind, RunnerTypes
  <1>1. CASE StartRunner \/ PushRefused
    BY <1>0, <1>1, QuietDoes DEF RunnerTypes
  <1>2. CASE Handle
    <2>1. CASE UNCHANGED <<outbox, emitted>>
      BY <1>0, <1>2, <2>1, HandleDoes DEF RunnerTypes
    <2>2. CASE \E target \in Targets :
                    /\ Len(emitted) < MaxEmitted
                    /\ target.seq = first + Len(emitted) /\ target.life = restarts
                    /\ outbox' = Append(outbox, target) /\ emitted' = Append(emitted, target)
      <3>1. PICK target \in Targets :
                    /\ Len(emitted) < MaxEmitted
                    /\ outbox' = Append(outbox, target) /\ emitted' = Append(emitted, target)
        BY <2>2
      <3>2. /\ outbox' \in Seq(Targets) /\ emitted' \in Seq(Targets)
            /\ Len(emitted') = Len(emitted) + 1
        BY <1>0, <3>1, AppendProperties
      <3>3. Len(emitted') <= MaxEmitted
        BY <3>1, <3>2, Numbers, PathConstants DEF Ind
      <3> QED
        BY <1>0, <1>2, <3>2, <3>3, HandleDoes DEF RunnerTypes
    <2> QED
      BY <1>2, <2>1, <2>2, HandleDoes
  <1>3. CASE Push
    <2>1. Head(outbox) \in Targets
      BY <1>0, <1>3, PushDoes, HeadTailProperties
    <2>0. contents' = Append(contents, Head(outbox))
      BY <1>3, PushDoes
    <2>2. contents' \in Seq(Targets) /\ Len(contents') = Len(contents) + 1
      BY <1>0, <2>0, <2>1, AppendProperties
    <2>3. Len(contents') = offered'
      BY <1>3, <2>2, PushDoes, Numbers DEF Ind
    <2> QED
      BY <1>0, <1>3, <2>2, <2>3, PushDoes DEF RunnerTypes
  <1>4. CASE Pushed
    <2>1. outbox' \in Seq(Targets)
      BY <1>0, <1>4, PushedDoes, HeadTailProperties
    <2> QED
      BY <1>0, <1>4, <2>1, PushedDoes DEF RunnerTypes
  <1>5. CASE CopyIn
    BY <1>0, <1>5, CopyInDoes DEF RunnerTypes
  <1>6. CASE RestartRunner
    <2>1. /\ outbox' \in Seq(Targets) /\ emitted' \in Seq(Targets) /\ Len(emitted') = 0
      BY <1>6, RestartRunnerDoes, EmptySeq
    <2> QED
      BY <1>0, <1>6, <2>1, RestartRunnerDoes, PathConstants DEF RunnerTypes
  <1> QED
    BY <1>1, <1>2, <1>3, <1>4, <1>5, <1>6, RunnerSideIs

LEMMA OutboxNext ==
    ASSUME Ind, RunnerSide, ~RestartsRace
    PROVE  OutboxIsWhatIsLeft'
  <1>0. /\ outbox \in Seq(Targets) /\ emitted \in Seq(Targets)
        /\ head \in Nat /\ restarts \in Nat /\ Len(outbox) \in Nat /\ Len(emitted) \in Nat
        /\ OutboxIsWhatIsLeft /\ first \in Nat
    BY Numbers DEF Ind, RunnerTypes
  <1>1. CASE StartRunner \/ PushRefused
    <2>1. Pushing' = Pushing
      BY <1>1, QuietDoes DEF Pushing
    <2>2. Pushing' => ppc # "idle"
      BY <2>1 DEF Pushing
    <2>3. \A k \in 1..Len(emitted) : emitted[k].seq = first' + k - 1
      <3>1. CASE runner = "absent"
        <4>1. Len(emitted) = 0
          BY <3>1, EmptySeq DEF Ind, OutboxIsWhatIsLeft
        <4> QED
          BY <4>1
      <3>2. CASE runner # "absent"
        BY <1>0, <1>1, <3>2, QuietDoes DEF OutboxIsWhatIsLeft
      <3> QED
        BY <3>1, <3>2
    <2> QED
      BY <1>0, <1>1, <2>1, <2>2, <2>3, QuietDoes DEF OutboxIsWhatIsLeft
  <1>2. CASE Handle
    <2>0. ~Pushing' /\ ppc' = "idle"
      BY <1>2, HandleDoes DEF Pushing
    <2>1. CASE UNCHANGED <<outbox, emitted>>
      BY <1>0, <1>2, <2>0, <2>1, HandleDoes DEF OutboxIsWhatIsLeft
    <2>2. CASE \E target \in Targets :
                    /\ Len(emitted) < MaxEmitted
                    /\ target.seq = first + Len(emitted) /\ target.life = restarts
                    /\ outbox' = Append(outbox, target) /\ emitted' = Append(emitted, target)
      <3>1. PICK target \in Targets :
                    /\ target.seq = first + Len(emitted) /\ target.life = restarts
                    /\ outbox' = Append(outbox, target) /\ emitted' = Append(emitted, target)
        BY <2>2
      <3>2. /\ Len(emitted') = Len(emitted) + 1 /\ Len(outbox') = Len(outbox) + 1
            /\ \A k \in 1..Len(emitted) : emitted'[k] = emitted[k]
            /\ \A k \in 1..Len(outbox) : outbox'[k] = outbox[k]
            /\ emitted'[Len(emitted) + 1] = target /\ outbox'[Len(outbox) + 1] = target
        BY <1>0, <3>1, AppendProperties
      <3>0. head' = head /\ restarts' = restarts /\ first' = first
        BY <1>2, HandleDoes
      <3>3. \A k \in 1..Len(emitted') : emitted'[k].seq = first' + k - 1 /\ emitted'[k].life = restarts'
        <4> SUFFICES ASSUME NEW k \in 1..Len(emitted')
                     PROVE  emitted'[k].seq = first + k - 1 /\ emitted'[k].life = restarts
          BY <3>0
        <4>1. CASE k = Len(emitted) + 1
          BY <1>0, <3>1, <3>2, <4>1
        <4>2. CASE k # Len(emitted) + 1
          <5>1. k \in 1..Len(emitted)
            BY <1>0, <3>2, <4>2
          <5> QED
            BY <1>0, <3>2, <5>1 DEF OutboxIsWhatIsLeft
        <4> QED
          BY <4>1, <4>2
      <3>4. Len(emitted') = head' + Len(outbox')
        BY <1>0, <3>0, <3>2 DEF OutboxIsWhatIsLeft
      <3>5. \A k \in 1..Len(outbox') : outbox'[k] = emitted'[head' + k]
        <4> SUFFICES ASSUME NEW k \in 1..Len(outbox') PROVE outbox'[k] = emitted'[head + k]
          BY <3>0
        <4>0. Len(emitted) = head + Len(outbox)
          BY <1>0 DEF OutboxIsWhatIsLeft
        <4>1. CASE k = Len(outbox) + 1
          <5>1. head + k = Len(emitted) + 1
            BY <1>0, <4>0, <4>1
          <5> QED
            BY <3>2, <4>1, <5>1
        <4>2. CASE k # Len(outbox) + 1
          <5>1. k \in 1..Len(outbox) /\ head + k \in 1..Len(emitted)
            BY <1>0, <3>2, <4>0, <4>2
          <5>2. outbox[k] = emitted[head + k]
            BY <1>0, <5>1 DEF OutboxIsWhatIsLeft
          <5> QED
            BY <3>2, <5>1, <5>2
        <4> QED
          BY <4>1, <4>2
      <3> QED
        BY <1>2, <2>0, <3>3, <3>4, <3>5, HandleDoes DEF OutboxIsWhatIsLeft
    <2> QED
      BY <1>2, <2>1, <2>2, HandleDoes
  <1>3. CASE Push
    BY <1>0, <1>3, PushDoes DEF OutboxIsWhatIsLeft
  <1>4. CASE Pushed
    <2>0. ~Pushing' /\ ppc' = "idle"
      BY <1>4, PushedDoes DEF Pushing
    <2>1. /\ Len(outbox') = Len(outbox) - 1
          /\ \A k \in 1..Len(outbox') : outbox'[k] = outbox[k + 1]
      BY <1>0, <1>4, PushedDoes, HeadTailProperties
    <2>2. Len(emitted') = head' + Len(outbox')
      BY <1>0, <1>4, <2>1, PushedDoes DEF OutboxIsWhatIsLeft
    <2>3. \A k \in 1..Len(outbox') : outbox'[k] = emitted'[head' + k]
      <3> SUFFICES ASSUME NEW k \in 1..Len(outbox') PROVE outbox'[k] = emitted'[head' + k]
        OBVIOUS
      <3>1. k + 1 \in 1..Len(outbox) /\ head + (k + 1) = head' + k
        BY <1>0, <1>4, <2>1, PushedDoes
      <3>2. outbox[k + 1] = emitted[head + (k + 1)]
        BY <1>0, <3>1 DEF OutboxIsWhatIsLeft
      <3> QED
        BY <1>4, <2>1, <3>1, <3>2, PushedDoes
    <2>4. runner' # "absent"
      <3>1. Len(outbox) # 0
        BY <1>0, <1>4, PushedDoes, EmptySeq
      <3>2. Len(emitted) # 0
        BY <1>0, <3>1 DEF OutboxIsWhatIsLeft
      <3> QED
        BY <1>0, <1>4, <3>2, PushedDoes, EmptySeq DEF OutboxIsWhatIsLeft
    <2> QED
      BY <1>0, <1>4, <2>0, <2>2, <2>3, <2>4, PushedDoes DEF OutboxIsWhatIsLeft
  <1>5. CASE CopyIn
    <2>1. Pushing' => Pushing
      BY <1>5, CopyInDoes DEF Pushing
    <2>2. ppc' # "zeroTail"
      BY <1>5, CopyInDoes
    <2> QED
      BY <1>0, <1>5, <2>1, <2>2, CopyInDoes DEF OutboxIsWhatIsLeft
  <1>6. CASE RestartRunner
    <2>1. Len(outbox') = 0 /\ Len(emitted') = 0
      BY <1>6, RestartRunnerDoes, EmptySeq
    <2>2. ~Pushing'
      BY <1>6, RestartRunnerDoes DEF Pushing
    <2> QED
      BY <1>0, <1>6, <2>1, <2>2, RestartRunnerDoes DEF OutboxIsWhatIsLeft
  <1> QED
    BY <1>1, <1>2, <1>3, <1>4, <1>5, <1>6, RunnerSideIs

(* A life emits no fewer than the ring was given of it. *)
LEMMA GivenIsEmitted ==
    ASSUME Ind
    PROVE  Given \in 0..Len(emitted)
  <1>1. /\ outbox \in Seq(Targets) /\ head \in Nat /\ Len(outbox) \in Nat /\ Len(emitted) \in Nat
        /\ Len(emitted) = head + Len(outbox)
    BY Numbers DEF Ind, RunnerTypes, OutboxIsWhatIsLeft
  <1>2. CASE Pushing
    <2>1. Len(outbox) # 0
      BY <1>1, <1>2, EmptySeq DEF Ind, OutboxIsWhatIsLeft
    <2> QED
      BY <1>1, <1>2, <2>1 DEF Given
  <1>3. CASE ~Pushing
    BY <1>1, <1>3 DEF Given
  <1> QED
    BY <1>2, <1>3

LEMMA ContentsNext ==
    ASSUME Ind, RunnerSide, ~RestartsRace
    PROVE  ContentsAreEmitted'
  <1>0. /\ contents \in Seq(Targets) /\ emitted \in Seq(Targets) /\ outbox \in Seq(Targets)
        /\ Len(contents) = offered /\ offered \in Nat /\ head \in Nat /\ Len(emitted) \in Nat
        /\ Given \in 0..Len(emitted) /\ Earlier \in Nat /\ offered = Earlier + Given
        /\ restarts \in Nat /\ ContentsAreEmitted
    BY Numbers, GivenIsEmitted DEF Ind, RunnerTypes, ContentsAreEmitted
  <1>1. CASE StartRunner \/ PushRefused
    <2>1. Given' = Given /\ Earlier' = Earlier
      BY <1>1, QuietDoes DEF Given, Earlier, Pushing
    <2> QED
      BY <1>0, <1>1, <2>1, QuietDoes DEF ContentsAreEmitted
  <1>2. CASE Handle
    <2>1. Given' = Given /\ Earlier' = Earlier
      BY <1>2, HandleDoes DEF Given, Earlier, Pushing
    <2>2. \A k \in 1..Len(emitted) : emitted'[k] = emitted[k]
      <3>1. CASE UNCHANGED <<outbox, emitted>>
        BY <3>1
      <3>2. CASE \E target \in Targets : emitted' = Append(emitted, target)
        <4>1. PICK target \in Targets : emitted' = Append(emitted, target)
          BY <3>2
        <4> QED
          BY <1>0, <4>1, AppendProperties
      <3> QED
        BY <1>2, <3>1, <3>2, HandleDoes
    <2>3. contents' = contents /\ restarts' = restarts
      BY <1>2, HandleDoes
    <2> QED
      BY <1>0, <2>1, <2>2, <2>3 DEF ContentsAreEmitted
  <1>3. CASE Push
    <2>1. Head(outbox) \in Targets /\ Head(outbox) = outbox[1] /\ Len(outbox) # 0
      BY <1>0, <1>3, PushDoes, HeadTailProperties, EmptySeq
    <2>2. Head(outbox) = emitted[head + 1]
      BY <1>0, <2>1, Numbers DEF Ind, OutboxIsWhatIsLeft
    <2>0. contents' = Append(contents, Head(outbox)) /\ Given = head
      BY <1>3, PushDoes
    <2>3. /\ \A i \in 1..offered : contents'[i] = contents[i]
          /\ contents'[offered + 1] = Head(outbox)
      BY <1>0, <2>0, <2>1, AppendProperties
    <2>4. \A i \in 1..Earlier : contents'[i].life < restarts
      <3> SUFFICES ASSUME NEW i \in 1..Earlier PROVE contents'[i].life < restarts
        OBVIOUS
      <3>1. i \in 1..offered
        BY <1>0
      <3> QED
        BY <1>0, <2>3, <3>1 DEF ContentsAreEmitted
    <2>5. \A k \in 1..(head + 1) : contents'[Earlier + k] = emitted[k]
      <3> SUFFICES ASSUME NEW k \in 1..(head + 1) PROVE contents'[Earlier + k] = emitted[k]
        OBVIOUS
      <3>1. CASE k = head + 1
        <4>1. Earlier + k = offered + 1
          BY <1>0, <2>0, <3>1
        <4> QED
          BY <2>2, <2>3, <3>1, <4>1
      <3>2. CASE k # head + 1
        <4>1. k \in 1..Given /\ Earlier + k \in 1..offered
          BY <1>0, <2>0, <3>2
        <4> QED
          BY <1>0, <2>3, <4>1 DEF ContentsAreEmitted
      <3> QED
        BY <3>1, <3>2
    <2> QED
      BY <1>0, <1>3, <2>4, <2>5, PushDoes DEF ContentsAreEmitted
  <1>4. CASE Pushed
    BY <1>0, <1>4, PushedDoes DEF ContentsAreEmitted
  <1>5. CASE CopyIn
    BY <1>0, <1>5, CopyInDoes DEF ContentsAreEmitted
  <1>6. CASE RestartRunner
    <2>1. \A i \in 1..offered : contents[i].life < restarts + 1
      <3> SUFFICES ASSUME NEW i \in 1..offered PROVE contents[i].life < restarts + 1
        OBVIOUS
      <3>0. contents[i].life \in Nat
        <4>1. contents[i] \in Targets
          BY <1>0, ElementOfSeq
        <4> QED
          BY <4>1, PathConstants DEF Targets
      <3>1. CASE i <= Earlier
        BY <1>0, <3>0, <3>1 DEF ContentsAreEmitted
      <3>2. CASE i > Earlier
        <4>1. i - Earlier \in 1..Given /\ Earlier + (i - Earlier) = i
          BY <1>0, <3>2
        <4>2. contents[i] = emitted[i - Earlier]
          BY <1>0, <4>1 DEF ContentsAreEmitted
        <4>3. emitted[i - Earlier].life = restarts
          BY <1>0, <4>1 DEF Ind, OutboxIsWhatIsLeft
        <4> QED
          BY <1>0, <4>2, <4>3
      <3> QED
        BY <1>0, <3>1, <3>2
    <2> QED
      BY <1>0, <1>6, <2>1, RestartRunnerDoes DEF ContentsAreEmitted
  <1> QED
    BY <1>1, <1>2, <1>3, <1>4, <1>5, <1>6, RunnerSideIs

(* Handing an event to the strategy leaves the ring alone. *)
LEMMA RunnerQuiet ==
    ASSUME Ind, StartRunner \/ PushRefused \/ Handle
    PROVE  /\ head' = head /\ tail' = tail /\ slots' = slots /\ ppc' = ppc /\ pHead' = pHead
           /\ offered' = offered /\ accepted' = accepted /\ restarts' = restarts
           /\ Given' = Given /\ Earlier' = Earlier
  <1>1. /\ head' = head /\ tail' = tail /\ slots' = slots /\ ppc' = ppc /\ pHead' = pHead
        /\ offered' = offered /\ accepted' = accepted /\ restarts' = restarts
    BY QuietDoes, HandleDoes
  <1> QED
    BY <1>1 DEF Given, Earlier, Pushing

(* The consumer's variables under a step of the runner. *)
LEMMA ConsumerStays ==
    ASSUME RunnerSide
    PROVE  /\ cpc' = cpc /\ cTail' = cTail /\ batch' = batch /\ out' = out /\ half' = half
           /\ delivered' = delivered /\ core' = core /\ lastSeq' = lastSeq /\ counts' = counts
           /\ pass' = pass /\ carried' = carried /\ passNow' = passNow /\ acted' = acted
           /\ clock' = clock /\ attached' = attached /\ coreRestarts' = coreRestarts
           /\ budget' = budget
  BY RunnerSideKeeps

LEMMA SlotHalf ==
    ASSUME NEW ring \in [0..(Capacity - 1) -> Halves], NEW s \in 0..(Capacity - 1), NEW id \in Ids
    PROVE  /\ [ring EXCEPT ![s].lo = id] \in [0..(Capacity - 1) -> Halves]
           /\ [ring EXCEPT ![s].hi = id] \in [0..(Capacity - 1) -> Halves]
           /\ [ring EXCEPT ![s].lo = id][s].lo = id
           /\ [ring EXCEPT ![s].hi = id][s].hi = id
           /\ [ring EXCEPT ![s].hi = id][s].lo = ring[s].lo
           /\ \A t \in 0..(Capacity - 1) : t # s =>
                /\ [ring EXCEPT ![s].lo = id][t] = ring[t]
                /\ [ring EXCEPT ![s].hi = id][t] = ring[t]
  BY DEF Halves

LEMMA RingTypesRunner ==
    ASSUME Ind, RunnerSide, ~RestartsRace
    PROVE  TypeOK'
  <1>0. /\ TypeOK /\ head \in Nat /\ offered \in Nat /\ head < Modulus /\ pHead \in Nat
        /\ 0 \in Counters /\ slots \in [0..(Capacity - 1) -> Halves] /\ offered \in Ids
    BY Numbers, RingConstants DEF Ind, Counters, TypeOK
  <1>c. /\ cpc' = cpc /\ cTail' = cTail /\ batch' = batch /\ out' = out /\ half' = half
        /\ delivered' = delivered
    BY ConsumerStays
  <1>1. CASE StartRunner \/ PushRefused \/ Handle
    BY <1>0, <1>c, <1>1, RunnerQuiet DEF TypeOK
  <1>2. CASE Push
    <2>1. /\ UNCHANGED <<head, tail, slots, accepted, restarts>>
          /\ ppc' = "lo" /\ pHead' = head /\ offered' = offered + 1 /\ offered < MaxRecords
      BY <1>2, PushDoes
    <2>2. offered' \in Ids
      BY <1>0, <2>1, RingConstants DEF Ids
    <2> QED
      BY <1>0, <1>c, <2>1, <2>2 DEF TypeOK
  <1>3. CASE Pushed
    <2>1. /\ ppc' = "idle" /\ head' = head + 1 /\ head + 1 < Modulus
          /\ accepted' = Append(accepted, offered)
          /\ UNCHANGED <<tail, slots, pHead, offered, restarts>>
          /\ Given = head + 1
      BY <1>3, PushedDoes
    <2>2. offered \in 1..MaxRecords
      BY <1>0, <2>1, Numbers, RingConstants DEF Ind, ContentsAreEmitted, Ids
    <2>3. accepted' \in Seq(1..MaxRecords)
      BY <1>0, <2>1, <2>2, AppendProperties DEF TypeOK
    <2>4. head' \in Counters
      BY <1>0, <2>1, RingConstants DEF Counters
    <2> QED
      BY <1>0, <1>c, <2>1, <2>3, <2>4 DEF TypeOK
  <1>4. CASE CopyIn
    <2>1. SlotOf(pHead) \in 0..(Capacity - 1)
      BY <1>0, SlotInRing
    <2>2. slots' \in [0..(Capacity - 1) -> Halves]
      <3>1. CASE slots' = [slots EXCEPT ![SlotOf(pHead)].lo = offered]
        BY <1>0, <2>1, <3>1, SlotHalf
      <3>2. CASE slots' = [slots EXCEPT ![SlotOf(pHead)].hi = offered]
        BY <1>0, <2>1, <3>2, SlotHalf
      <3>3. CASE slots' = slots
        BY <1>0, <3>3
      <3> QED
        BY <1>4, <3>1, <3>2, <3>3, CopyInDoes
    <2>3. tail' \in Counters
      BY <1>0, <1>4, CopyInDoes DEF TypeOK
    <2> QED
      BY <1>0, <1>4, <1>c, <2>2, <2>3, CopyInDoes DEF TypeOK
  <1>5. CASE RestartRunner
    <2>1. restarts' \in 0..MaxRestarts
      BY <1>5, RestartRunnerDoes, Numbers, PathConstants DEF Ind
    <2> QED
      BY <1>0, <1>5, <1>c, <2>1, RestartRunnerDoes DEF TypeOK
  <1> QED
    BY <1>1, <1>2, <1>3, <1>4, <1>5, RunnerSideIs

(* What a slot between the counters holds, said of one counter. *)
LEMMA SlotsNextRunner ==
    ASSUME Ind, RunnerSide, ~RestartsRace
    PROVE  SlotsHoldThisLife'
  <1>0. /\ head \in Nat /\ tail \in Nat /\ offered \in Nat /\ Capacity \in Nat \ {0}
        /\ Earlier \in Nat /\ Given \in Nat /\ offered = Earlier + Given
        /\ slots \in [0..(Capacity - 1) -> Halves] /\ offered \in Ids
        /\ SlotsHoldThisLife
    BY Numbers, RingConstants DEF Ind, TypeOK, ContentsAreEmitted
  <1>1. CASE StartRunner \/ PushRefused \/ Handle
    BY <1>1, RunnerQuiet, <1>0 DEF SlotsHoldThisLife
  <1>2. CASE Push
    <2>1. /\ UNCHANGED <<head, tail, slots>> /\ ppc = "idle" /\ ppc' = "lo"
          /\ head + 1 <= tail + Capacity
          /\ Given' = head + 1 /\ Earlier' = Earlier
      BY <1>2, PushDoes
    <2> QED
      BY <1>0, <2>1 DEF SlotsHoldThisLife
  <1>3. CASE Pushed
    <2>1. /\ UNCHANGED <<tail, slots, offered>> /\ ppc = "publish" /\ ppc' = "idle"
          /\ head' = head + 1
          /\ Given' = head + 1 /\ Given = head + 1 /\ Earlier' = Earlier
      BY <1>3, PushedDoes
    <2>2. slots[SlotOf(head)] = Whole(Earlier + head + 1)
      <3>1. /\ slots[SlotOf(head)].lo = offered /\ slots[SlotOf(head)].hi = offered
            /\ offered = Earlier + head + 1
        BY <1>0, <2>1 DEF SlotsHoldThisLife
      <3>2. slots[SlotOf(head)] \in Halves
        BY <1>0, SlotInRing
      <3> QED
        BY <3>1, <3>2 DEF Halves, Whole
    <2>3. \A c \in tail..head : slots[SlotOf(c)] = Whole(Earlier + c + 1)
      BY <1>0, <2>1, <2>2 DEF SlotsHoldThisLife
    <2>4. /\ tail <= head + 1 /\ head + 1 <= tail + Capacity
      BY <1>0, <2>1 DEF SlotsHoldThisLife
    <2>5. (head' - 1) = head
      BY <1>0, <2>1
    <2> QED
      BY <1>0, <2>1, <2>3, <2>4, <2>5 DEF SlotsHoldThisLife
  <1>4. CASE CopyIn
    <2>0. head' = head /\ offered' = offered /\ Given' = Given /\ Earlier' = Earlier
      BY <1>4, CopyInDoes
    <2>1. CASE ppc = "zeroTail"
      <3>1. ppc' = "idle" /\ tail' = 0 /\ head = 0 /\ Given = 0
        BY <1>4, <2>1, CopyInDoes DEF Ind, OutboxIsWhatIsLeft, Given, Pushing
      <3> QED
        BY <1>0, <2>0, <3>1 DEF SlotsHoldThisLife
    <2>2. CASE ppc # "zeroTail"
      <3>1. /\ tail' = tail /\ pHead = head /\ Given = head + 1
            /\ \/ ppc = "lo" /\ ppc' = "hi" /\ slots' = [slots EXCEPT ![SlotOf(pHead)].lo = offered]
               \/ ppc = "hi" /\ ppc' = "publish" /\ slots' = [slots EXCEPT ![SlotOf(pHead)].hi = offered]
        BY <1>4, <2>2, CopyInDoes DEF Ind, OutboxIsWhatIsLeft, Given, Pushing
      <3>2. /\ SlotOf(head) \in 0..(Capacity - 1)
            /\ \A c \in tail..(head - 1) :
                SlotOf(c) \in 0..(Capacity - 1) /\ SlotOf(c) # SlotOf(head)
        <4>1. head < tail + Capacity
          BY <1>0, <2>2, <3>1 DEF SlotsHoldThisLife
        <4>2. \A c \in tail..(head - 1) : c \in Nat /\ c < head /\ head < c + Capacity
          BY <1>0, <4>1
        <4> QED
          BY <1>0, <4>2, SlotInRing, SlotsDiffer
      <3>3. \A c \in tail..(head - 1) : slots'[SlotOf(c)] = slots[SlotOf(c)]
        BY <1>0, <3>1, <3>2, SlotHalf
      <3>4. slots'[SlotOf(head)].lo = offered
        <4>1. CASE ppc = "lo"
          <5>1. slots' = [slots EXCEPT ![SlotOf(head)].lo = offered]
            BY <3>1, <4>1
          <5> QED
            BY <1>0, <3>2, <5>1, SlotHalf
        <4>2. CASE ppc = "hi"
          <5>1. slots[SlotOf(head)].lo = offered
            BY <1>0, <4>2 DEF SlotsHoldThisLife
          <5>2. slots' = [slots EXCEPT ![SlotOf(head)].hi = offered]
            BY <3>1, <4>2
          <5>3. slots'[SlotOf(head)].lo = slots[SlotOf(head)].lo
            BY <1>0, <3>2, <5>2, SlotHalf
          <5> QED
            BY <5>1, <5>3
        <4> QED
          BY <3>1, <4>1, <4>2
      <3>5. ppc' = "publish" => slots'[SlotOf(head)].hi = offered
        <4> SUFFICES ASSUME ppc' = "publish" PROVE slots'[SlotOf(head)].hi = offered
          OBVIOUS
        <4>1. slots' = [slots EXCEPT ![SlotOf(head)].hi = offered]
          BY <3>1
        <4> QED
          BY <1>0, <3>2, <4>1, SlotHalf
      <3> QED
        BY <1>0, <2>0, <2>2, <3>1, <3>3, <3>4, <3>5 DEF SlotsHoldThisLife
    <2> QED
      BY <2>1, <2>2
  <1>5. CASE RestartRunner
    BY <1>5, RestartRunnerDoes DEF SlotsHoldThisLife
  <1> QED
    BY <1>1, <1>2, <1>3, <1>4, <1>5, RunnerSideIs

LEMMA PopNextRunner ==
    ASSUME Ind, RunnerSide, ~RestartsRace
    PROVE  PopCopiesTheNext'
  <1>0. PopCopiesTheNext /\ head \in Nat /\ tail \in Nat
    BY Numbers DEF Ind
  <1>c. cpc' = cpc /\ cTail' = cTail /\ batch' = batch /\ out' = out /\ half' = half /\ core' = core
    BY ConsumerStays
  <1>1. CASE StartRunner \/ PushRefused \/ Handle
    BY <1>0, <1>c, <1>1, RunnerQuiet DEF PopCopiesTheNext
  <1>2. CASE Push
    BY <1>0, <1>c, <1>2, PushDoes DEF PopCopiesTheNext
  <1>3. CASE Pushed
    BY <1>0, <1>c, <1>3, PushedDoes DEF PopCopiesTheNext
  <1>4. CASE CopyIn
    BY <1>0, <1>c, <1>4, CopyInDoes DEF PopCopiesTheNext
  <1>5. CASE RestartRunner
    BY <1>0, <1>c, <1>5, RestartRunnerDoes DEF PopCopiesTheNext
  <1> QED
    BY <1>1, <1>2, <1>3, <1>4, <1>5, RunnerSideIs

(* The line between what was taken and what is still to be taken never moves back. *)
LEMMA PassedRunner ==
    ASSUME Ind, RunnerSide, ~RestartsRace
    PROVE  Passed \in Nat /\ Passed <= Passed' /\ Passed' \in Nat
  <1>0. /\ head \in Nat /\ tail \in Nat /\ offered \in Nat
        /\ Earlier \in Nat /\ Given \in Nat /\ offered = Earlier + Given
    BY Numbers DEF Ind, ContentsAreEmitted
  <1>1. CASE StartRunner \/ PushRefused \/ Handle
    BY <1>0, <1>1, RunnerQuiet DEF Passed, Taken
  <1>2. CASE Push
    BY <1>0, <1>2, PushDoes DEF Passed, Taken
  <1>3. CASE Pushed
    BY <1>0, <1>3, PushedDoes DEF Passed, Taken
  <1>4. CASE CopyIn
    BY <1>0, <1>4, CopyInDoes DEF Passed, Taken
  <1>5. CASE RestartRunner
    <2>1. Passed' = offered
      BY <1>0, <1>5, RestartRunnerDoes DEF Passed, Taken
    <2>2. ppc # "zeroTail" => tail <= Given
      BY <1>0 DEF Ind, SlotsHoldThisLife, Given
    <2>3. Passed <= offered
      BY <1>0, <2>2 DEF Passed, Taken
    <2> QED
      BY <1>0, <2>1, <2>3 DEF Passed, Taken
  <1> QED
    BY <1>1, <1>2, <1>3, <1>4, <1>5, RunnerSideIs

LEMMA TakenNextRunner ==
    ASSUME Ind, RunnerSide, ~RestartsRace
    PROVE  TakenIsPast' /\ NoTornRecord' /\ DeliveredMovesForward'
  <1>1. delivered' = delivered
    BY ConsumerStays
  <1>2. Passed \in Nat /\ Passed <= Passed' /\ Passed' \in Nat
    BY PassedRunner
  <1>3. /\ Len(delivered) \in Nat
        /\ \A i \in 1..Len(delivered) : delivered[i].lo \in Nat
    <2>1. delivered \in Seq(Halves)
      BY DEF Ind, TypeOK
    <2>2. Len(delivered) \in Nat
      BY Numbers DEF Ind
    <2>3. \A i \in 1..Len(delivered) : delivered[i] \in Halves
      BY <2>1, ElementOfSeq
    <2> QED
      BY <2>2, <2>3, RingConstants DEF Halves, Ids
  <1>4. TakenIsPast'
    BY <1>1, <1>2, <1>3 DEF Ind, TakenIsPast
  <1>5. NoTornRecord' /\ DeliveredMovesForward'
    BY <1>1 DEF Ind, NoTornRecord, DeliveredMovesForward
  <1> QED
    BY <1>4, <1>5

(* A runner that goes on above its predecessor's numbers goes on above the
   baseline, which is one of them. *)
LEMMA NumbersGoUp ==
    ASSUME Ind, ~reused
    PROVE  counts.stale = 0 /\ lastSeq < first + Taken /\ Taken \in 0..Len(emitted)
  <1>1. /\ tail \in Nat /\ head \in Nat /\ Len(emitted) \in Nat /\ Len(outbox) \in Nat
        /\ Len(emitted) = head + Len(outbox)
    BY Numbers DEF Ind, OutboxIsWhatIsLeft
  <1>2. ppc # "zeroTail" => tail <= head
    BY DEF Ind, SlotsHoldThisLife
  <1>3. Taken \in 0..Len(emitted)
    BY <1>1, <1>2 DEF Taken
  <1> QED
    BY <1>3 DEF Ind, BaselineIsBehind

LEMMA AboveAtTheStart ==
    ASSUME NEW number \in Nat, NEW baseline \in Int, NEW taken, taken = 0, baseline < number
    PROVE  baseline < number + taken
  OBVIOUS

LEMMA BaselineNextRunner ==
    ASSUME Ind, RunnerSide, ~RestartsRace
    PROVE  BaselineIsBehind'
  <1>0. /\ head \in Nat /\ tail \in Nat /\ restarts \in Nat /\ lastSeq \in Nat \cup {-1}
        /\ counts.expired \in Nat /\ BaselineIsBehind
        /\ first \in Nat /\ reused \in BOOLEAN /\ Len(emitted) \in Nat
    <2>1. /\ first \in Nat /\ reused \in BOOLEAN /\ lastSeq \in Nat \cup {-1}
          /\ counts.expired \in Nat
      BY DEF Ind, CoreTypes, RunnerTypes, Counted
    <2> QED
      BY <2>1, Numbers DEF Ind
  <1>i. lastSeq \in Int /\ Unused \in Nat
    BY <1>0 DEF Unused
  <1>c. lastSeq' = lastSeq /\ counts' = counts
    BY ConsumerStays
  <1>u. first' = first => Unused' = Unused
    BY <1>c DEF Unused
  <1>1. CASE StartRunner \/ PushRefused \/ Handle
    <2>1. /\ tail' = tail /\ ppc' = ppc /\ reused' = reused /\ first' \in Nat
          /\ first' = first \/ runner = "absent"
      BY <1>0, <1>1, RunnerQuiet, QuietDoes, HandleDoes
    <2>2. CASE first' = first
      <3>1. Taken' = Taken /\ Unused' = Unused
        BY <1>u, <2>1, <2>2 DEF Taken
      <3> QED
        BY <1>0, <1>c, <2>1, <2>2, <3>1 DEF BaselineIsBehind
    <2>3. CASE runner = "absent"
      <3>1. tail = 0 /\ ppc # "zeroTail" /\ first = 0
        BY <1>0, <2>3 DEF Ind, OutboxIsWhatIsLeft, SlotsHoldThisLife
      <3>0. Taken = 0 /\ Taken' = 0 /\ tail' = 0
        BY <2>1, <3>1 DEF Taken
      <3>4. first' \in Nat /\ reused' = reused
        BY <2>1
      <3>2. ~reused' => counts'.stale = 0 /\ lastSeq' < first' + Taken'
        <4> SUFFICES ASSUME ~reused' PROVE counts'.stale = 0 /\ lastSeq' < first' + Taken'
          OBVIOUS
        <4>1. counts.stale = 0 /\ lastSeq < first + Taken
          BY <1>0, <3>4 DEF BaselineIsBehind
        <4>3. counts'.stale = 0 /\ lastSeq' = lastSeq
          BY <1>c, <4>1
        <4>4. lastSeq < 0
          BY <1>i, <3>0, <3>1, <4>1
        <4>5. lastSeq < first'
          BY <1>i, <3>4, <4>4
        <4>6. lastSeq < first' + Taken'
          BY <1>i, <3>0, <3>4, <4>5, AboveAtTheStart
        <4> QED
          BY <4>3, <4>6, Zenon
      <3>3. lastSeq' # -1 => first' + tail' - 1 - lastSeq' <= counts'.expired + Unused'
        BY <1>0, <1>i, <1>c, <3>0, <3>4 DEF Unused
      <3> QED
        BY <3>2, <3>3 DEF BaselineIsBehind
    <2> QED
      BY <2>1, <2>2, <2>3
  <1>2. CASE Push
    BY <1>0, <1>c, <1>u, <1>2, PushDoes DEF BaselineIsBehind, Taken
  <1>3. CASE Pushed
    BY <1>0, <1>c, <1>u, <1>3, PushedDoes DEF BaselineIsBehind, Taken
  <1>4. CASE CopyIn
    <2>1. CASE ppc = "zeroTail"
      <3>1. tail' = 0 /\ first' = first /\ reused' = reused /\ ppc' = "idle"
        BY <1>4, <2>1, CopyInDoes
      <3>2. ~reused' => counts'.stale = 0 /\ lastSeq' < first' + Taken'
        BY <1>0, <1>c, <2>1, <3>1 DEF BaselineIsBehind, Taken
      <3>3. lastSeq' # -1 => first' + tail' - 1 - lastSeq' <= counts'.expired + Unused'
        BY <1>0, <1>c, <3>1 DEF Unused
      <3> QED
        BY <3>2, <3>3 DEF BaselineIsBehind
    <2>2. CASE ppc # "zeroTail"
      BY <1>0, <1>c, <1>u, <1>4, <2>2, CopyInDoes DEF BaselineIsBehind, Taken
    <2> QED
      BY <2>1, <2>2
  <1>5. CASE RestartRunner
    <2>1. /\ ppc' = "zeroTail" /\ first' \in Nat
          /\ reused' = (reused \/ first' < first + Len(emitted))
      BY <1>5, RestartRunnerDoes
    <2>2. ~reused' => counts'.stale = 0 /\ lastSeq' < first' + Taken'
      <3> SUFFICES ASSUME ~reused' PROVE counts'.stale = 0 /\ lastSeq' < first' + Taken'
        OBVIOUS
      <3>1. ~reused /\ ~(first' < first + Len(emitted))
        BY <2>1
      <3>2. counts.stale = 0 /\ lastSeq < first + Taken /\ Taken \in 0..Len(emitted)
        BY <3>1, NumbersGoUp
      <3>5. counts'.stale = 0 /\ lastSeq' = lastSeq
        BY <1>c, <3>2
      <3>4. lastSeq < first'
        <4>1. first' \in Nat /\ first \in Nat /\ Len(emitted) \in Nat
          BY <1>0, <2>1
        <4> QED
          BY <1>i, <3>1, <3>2, <4>1
      <3>6. Taken' = 0
        BY <2>1 DEF Taken
      <3>7. lastSeq < first' + Taken'
        BY <1>i, <2>1, <3>4, <3>6, AboveAtTheStart
      <3> QED
        BY <3>5, <3>7, Zenon
    <2> QED
      BY <2>1, <2>2 DEF BaselineIsBehind
  <1> QED
    BY <1>1, <1>2, <1>3, <1>4, <1>5, RunnerSideIs

LEMMA RunnerKeeps ==
    ASSUME Ind, RunnerSide, ~RestartsRace
    PROVE  Ind'
  <1>1. CoreTypes'
    BY ConsumerStays DEF Ind, CoreTypes
  <1>2. CountsAddUp'
    BY ConsumerStays DEF Ind, CountsAddUp, Held
  <1>3. PassIsFresh' /\ ActedTargetsAreFresh'
    BY ConsumerStays DEF Ind, PassIsFresh, ActedTargetsAreFresh, StillFresh, EffectiveTtl
  <1> QED
    BY <1>1, <1>2, <1>3, RunnerTypesNext, OutboxNext, ContentsNext, RingTypesRunner,
       SlotsNextRunner, PopNextRunner, TakenNextRunner, BaselineNextRunner DEF Ind

-----------------------------------------------------------------------------
(* The core's side, one action at a time.                                  *)

(* What a step of the core leaves to the runner stays as it is. *)
LEMMA CoreQuiet ==
    ASSUME CoreSide
    PROVE  /\ head' = head /\ slots' = slots /\ ppc' = ppc /\ pHead' = pHead
           /\ offered' = offered /\ accepted' = accepted /\ restarts' = restarts
           /\ runner' = runner /\ first' = first /\ reused' = reused /\ outbox' = outbox /\ flushing' = flushing
           /\ emitted' = emitted /\ contents' = contents
           /\ Given' = Given /\ Earlier' = Earlier
  <1>1. /\ head' = head /\ slots' = slots /\ ppc' = ppc /\ pHead' = pHead
        /\ offered' = offered /\ accepted' = accepted /\ restarts' = restarts
        /\ runner' = runner /\ first' = first /\ reused' = reused /\ outbox' = outbox /\ flushing' = flushing
        /\ emitted' = emitted /\ contents' = contents
    BY CoreSideKeeps
  <1> QED
    BY <1>1 DEF Given, Earlier, Pushing

LEMMA CoreKeepsTheRunners ==
    ASSUME Ind, CoreSide
    PROVE  RunnerTypes' /\ OutboxIsWhatIsLeft' /\ ContentsAreEmitted'
  <1>1. RunnerTypes'
    BY CoreQuiet DEF Ind, RunnerTypes
  <1>2. OutboxIsWhatIsLeft'
    BY CoreQuiet DEF Ind, OutboxIsWhatIsLeft, Pushing
  <1>3. ContentsAreEmitted'
    BY CoreQuiet DEF Ind, ContentsAreEmitted
  <1> QED
    BY <1>1, <1>2, <1>3

LEMMA StillDoes ==
    ASSUME Ind, Tick \/ UNCHANGED allVars
    PROVE  /\ clock' \in 1..MaxClock
           /\ UNCHANGED <<tail, cpc, cTail, batch, out, half, delivered, coreRestarts, attached,
                          lastSeq, counts, core, passNow, budget, pass, carried, acted>>
  <1>1. CASE Tick
    <2>1. clock < MaxClock /\ clock' = clock + 1
      BY <1>1 DEF Tick
    <2>2. UNCHANGED <<tail, cpc, cTail, batch, out, half, delivered, coreRestarts, attached,
                      lastSeq, counts, core, passNow, budget, pass, carried, acted>>
      BY <1>1 DEF Tick, vars, consumerVars, readerVars, passVars
    <2> QED
      BY <2>1, <2>2, PathConstants DEF Ind, CoreTypes
  <1>2. CASE UNCHANGED allVars
    BY <1>2 DEF allVars, vars, pathVars, consumerVars, readerVars, passVars, Ind, CoreTypes
  <1> QED
    BY <1>1, <1>2

LEMMA BeginPassDoes ==
    ASSUME Ind, BeginPass
    PROVE  /\ core = "idle" /\ core' = "drain" /\ cpc = "idle" /\ pass = NoTarget
           /\ UNCHANGED <<tail, cpc, cTail, batch, out, half, delivered, clock, coreRestarts,
                          lastSeq, acted>>
           /\ attached' \in BOOLEAN /\ budget' \in 0..MaxPerDrain
           /\ passNow' = clock /\ carried' = NoTarget
           /\ counts' \in Counted /\ counts'.accepted = counts.accepted
           /\ counts'.stale = counts.stale /\ counts'.missing = counts.missing
           /\ \/ /\ carried # NoTarget /\ pass' = NoTarget
                 /\ counts'.expired = counts.expired + 1
              \/ /\ counts'.expired = counts.expired /\ pass' = carried
                 /\ carried # NoTarget => StillFresh(carried, clock)
  <1>0. counts \in Counted
    BY DEF Ind, CoreTypes
  <1>1. /\ core = "idle" /\ core' = "drain" /\ cpc = "idle"
        /\ UNCHANGED <<tail, cpc, cTail, batch, out, half, delivered, clock, coreRestarts,
                       lastSeq, acted>>
        /\ passNow' = clock /\ carried' = NoTarget
    BY DEF BeginPass, vars, consumerVars
  <1>2. attached' \in BOOLEAN
    BY DEF BeginPass
  <1>3. budget' \in 0..MaxPerDrain
    BY PathConstants DEF BeginPass
  <1>4. pass = NoTarget
    BY <1>1 DEF Ind, PassIsFresh
  <1>5. CASE carried # NoTarget /\ ~StillFresh(carried, clock)
    <2>1. pass' = NoTarget /\ counts' = [counts EXCEPT !.expired = @ + 1]
      BY <1>5 DEF BeginPass
    <2>2. /\ counts' \in Counted /\ counts'.accepted = counts.accepted
          /\ counts'.stale = counts.stale /\ counts'.missing = counts.missing
          /\ counts'.expired = counts.expired + 1
      BY <1>0, <2>1 DEF Counted
    <2> QED
      BY <1>1, <1>2, <1>3, <1>4, <1>5, <2>1, <2>2
  <1>6. CASE ~(carried # NoTarget /\ ~StillFresh(carried, clock))
    <2>1. pass' = carried /\ counts' = [counts EXCEPT !.expired = @]
      BY <1>6 DEF BeginPass
    <2>2. counts' = counts
      BY <1>0, <2>1 DEF Counted
    <2> QED
      BY <1>0, <1>1, <1>2, <1>3, <1>4, <1>6, <2>1, <2>2
  <1> QED
    BY <1>5, <1>6

LEMMA PopDoes ==
    ASSUME Ind, Pop, ~RestartsRace
    PROVE  /\ core = "drain" /\ cpc = "idle" /\ cpc' = "lo" /\ ppc # "zeroTail" /\ tail < head
           /\ cTail' = tail /\ batch' = 1 /\ out = <<>> /\ budget' \in 0..MaxPerDrain
           /\ UNCHANGED <<tail, out, half, delivered, clock, coreRestarts, attached,
                          lastSeq, counts, core, passNow, pass, carried, acted>>
  <1>0. head \in Nat /\ tail \in Nat /\ MaxBatch \in Nat \ {0}
    BY Numbers, RingConstants DEF Ind
  <1>1. /\ core = "drain" /\ cpc = "idle" /\ cpc' = "lo" /\ ppc # "zeroTail"
        /\ Available("rust") > 0 /\ cTail' = tail
        /\ batch' = IF Available("rust") <= MaxBatch THEN Available("rust") ELSE MaxBatch
        /\ budget > 0 /\ budget' = budget - 1
        /\ UNCHANGED <<tail, out, half, delivered, clock, coreRestarts, attached,
                       lastSeq, counts, core, passNow, pass, carried, acted>>
    BY DEF Pop, TryPop, readerVars
  <1>2. tail # head /\ Available("rust") = 1
    BY <1>1 DEF Available
  <1>3. batch' = 1
    BY <1>0, <1>1, <1>2
  <1>4. tail < head
    BY <1>0, <1>1, <1>2 DEF Ind, SlotsHoldThisLife
  <1>5. out = <<>>
    BY <1>1 DEF Ind, PopCopiesTheNext
  <1>6. budget' \in 0..MaxPerDrain
    BY <1>1, PathConstants DEF Ind, CoreTypes
  <1> QED
    BY <1>1, <1>3, <1>4, <1>5, <1>6

(* Each half that is copied is a half of the oldest record. *)
LEMMA CopyOutDoes ==
    ASSUME Ind, CopyOut
    PROVE  /\ core = "drain" /\ ppc # "zeroTail" /\ cTail = tail /\ batch = 1 /\ tail < head
           /\ Earlier + tail + 1 \in Ids
           /\ UNCHANGED <<tail, cTail, batch, delivered, clock, coreRestarts, attached,
                          lastSeq, counts, core, passNow, budget, pass, carried, acted>>
           /\ \/ /\ cpc = "lo" /\ cpc' = "hi" /\ out = <<>> /\ out' = <<>>
                 /\ half' = Earlier + tail + 1
              \/ /\ cpc = "hi" /\ cpc' = "release" /\ half' = 0
                 /\ out' = <<Whole(Earlier + tail + 1)>>
  <1>0. /\ head \in Nat /\ tail \in Nat /\ offered \in Ids /\ Earlier \in Nat /\ Given \in Nat
        /\ offered = Earlier + Given /\ offered \in Nat
    BY Numbers DEF Ind, ContentsAreEmitted, TypeOK
  <1>1. /\ UNCHANGED <<tail, cTail, batch, delivered, clock, coreRestarts, attached,
                       lastSeq, counts, core, passNow, budget, pass, carried, acted>>
        /\ \/ cpc = "lo" /\ half' = ReadSlot.lo /\ cpc' = "hi" /\ out' = out
           \/ /\ cpc = "hi" /\ out' = Append(out, [lo |-> half, hi |-> ReadSlot.hi]) /\ half' = 0
              /\ cpc' = IF Len(out) + 1 = batch THEN "release" ELSE "lo"
    BY DEF CopyOut, CopyLoOut, CopyHiOut, pathVars, readerVars, passVars
  <1>2. /\ core = "drain" /\ ppc # "zeroTail" /\ cTail = tail /\ batch = 1 /\ tail < head
        /\ out = <<>> /\ (cpc = "hi" => half = Earlier + tail + 1)
    BY <1>1 DEF Ind, PopCopiesTheNext
  <1>3. ReadSlot = Whole(Earlier + tail + 1)
    <2>1. Len(out) = 0
      BY <1>2, EmptySeq
    <2>2. ReadSlot = slots[SlotOf(tail)]
      BY <1>0, <1>2, <2>1 DEF ReadSlot
    <2> QED
      BY <1>0, <1>2, <2>2 DEF Ind, SlotsHoldThisLife
  <1>4. Earlier + tail + 1 \in Ids
    <2>1. head <= Given
      BY <1>0 DEF Given
    <2> QED
      BY <1>0, <1>2, <2>1, RingConstants DEF Ids
  <1>5. CASE cpc = "lo"
    BY <1>1, <1>2, <1>3, <1>4, <1>5 DEF Whole
  <1>6. CASE cpc = "hi"
    <2>1. Len(out) + 1 = 1
      BY <1>2, EmptySeq
    <2>2. out' = <<Whole(Earlier + tail + 1)>>
      BY <1>1, <1>2, <1>3, <1>6 DEF Whole
    <2> QED
      BY <1>1, <1>2, <1>4, <1>6, <2>1, <2>2
  <1> QED
    BY <1>1, <1>5, <1>6

(* The three answers of the reader. *)
LEMMA AdmitDoes ==
    ASSUME Ind, NEW target \in Targets, Admit(target, passNow)
    PROVE  /\ counts' \in Counted
           /\ \/ /\ lastSeq # -1 /\ target.seq <= lastSeq
                 /\ counts'.stale = counts.stale + 1 /\ counts'.accepted = counts.accepted
                 /\ counts'.expired = counts.expired /\ counts'.missing = counts.missing
                 /\ lastSeq' = lastSeq /\ pass' = pass
              \/ /\ lastSeq = -1 \/ target.seq > lastSeq
                 /\ counts'.stale = counts.stale
                 /\ counts'.missing = counts.missing
                        + (IF lastSeq = -1 THEN 0 ELSE target.seq - lastSeq - 1)
                 /\ \/ /\ StillFresh(target, passNow) /\ pass' = target /\ lastSeq' = target.seq
                       /\ counts'.accepted = counts.accepted + 1 /\ counts'.expired = counts.expired
                    \/ /\ pass' = pass /\ lastSeq' = lastSeq
                       /\ counts'.accepted = counts.accepted /\ counts'.expired = counts.expired + 1
  <1>0. counts \in Counted /\ lastSeq \in Nat \cup {-1} /\ target.seq \in Nat /\ lastSeq \in Int
    BY PathConstants DEF Ind, CoreTypes, Targets
  <1>1. CASE lastSeq # -1 /\ target.seq <= lastSeq
    <2>1. counts' = [counts EXCEPT !.stale = @ + 1] /\ lastSeq' = lastSeq /\ pass' = pass
      BY <1>1 DEF Admit
    <2>2. /\ counts' \in Counted
          /\ counts'.stale = counts.stale + 1 /\ counts'.accepted = counts.accepted
          /\ counts'.expired = counts.expired /\ counts'.missing = counts.missing
      BY <1>0, <2>1 DEF Counted
    <2> QED
      BY <1>1, <2>1, <2>2
  <1>2. CASE ~(lastSeq # -1 /\ target.seq <= lastSeq)
    <2> DEFINE skipped == IF lastSeq = -1 THEN 0 ELSE target.seq - lastSeq - 1
               fresh == StillFresh(target, passNow)
    <2>0. skipped \in Nat
      BY <1>0, <1>2
    <2>1. /\ pass' = IF fresh THEN target ELSE pass
          /\ lastSeq' = IF fresh THEN target.seq ELSE lastSeq
          /\ counts' = [counts EXCEPT !.missing = @ + skipped,
                                      !.accepted = IF fresh THEN @ + 1 ELSE @,
                                      !.expired = IF fresh THEN @ ELSE @ + 1]
      BY <1>2 DEF Admit
    <2>6. /\ counts.missing + skipped \in Nat
          /\ counts.accepted \in Nat /\ counts.accepted + 1 \in Nat
          /\ counts.expired \in Nat /\ counts.expired + 1 \in Nat
      BY <1>0, <2>0 DEF Counted
    <2> HIDE DEF skipped
    <2>3. lastSeq = -1 \/ target.seq > lastSeq
      BY <1>0, <1>2
    <2>4. CASE fresh
      <3>1. counts' = [counts EXCEPT !.missing = counts.missing + skipped,
                                     !.accepted = counts.accepted + 1, !.expired = counts.expired]
        BY <2>1, <2>4
      <3>2. /\ counts' \in Counted /\ counts'.stale = counts.stale
            /\ counts'.missing = counts.missing + skipped
            /\ counts'.accepted = counts.accepted + 1 /\ counts'.expired = counts.expired
        BY <1>0, <2>6, <3>1 DEF Counted
      <3> QED
        BY <2>1, <2>3, <2>4, <3>2 DEF skipped
    <2>5. CASE ~fresh
      <3>1. counts' = [counts EXCEPT !.missing = counts.missing + skipped,
                                     !.accepted = counts.accepted, !.expired = counts.expired + 1]
        BY <2>1, <2>5
      <3>2. /\ counts' \in Counted /\ counts'.stale = counts.stale
            /\ counts'.missing = counts.missing + skipped
            /\ counts'.accepted = counts.accepted /\ counts'.expired = counts.expired + 1
        BY <1>0, <2>6, <3>1 DEF Counted
      <3> QED
        BY <2>1, <2>3, <2>5, <3>2 DEF skipped
    <2> QED
      BY <2>4, <2>5
  <1> QED
    BY <1>1, <1>2

(* A record is taken whole, and is the next one of this life. *)
LEMMA TakeDoes ==
    ASSUME Ind, Take
    PROVE  /\ core = "drain" /\ cpc = "release" /\ cpc' = "idle" /\ ppc # "zeroTail" /\ tail < head
           /\ out' = <<>> /\ batch' = 0 /\ tail' = tail + 1 /\ tail + 1 < Modulus
           /\ delivered' = Append(delivered, Whole(Earlier + tail + 1))
           /\ Earlier + tail + 1 \in 1..offered
           /\ emitted[tail + 1] \in Targets /\ emitted[tail + 1].seq = first + tail
           /\ Admit(emitted[tail + 1], passNow)
           /\ UNCHANGED <<cTail, half, clock, coreRestarts, attached, core, passNow, budget,
                          carried, acted>>
  <1>0. /\ head \in Nat /\ tail \in Nat /\ head < Modulus /\ offered \in Nat
        /\ Earlier \in Nat /\ Given \in Nat /\ offered = Earlier + Given
        /\ Given \in 0..Len(emitted) /\ emitted \in Seq(Targets) /\ Len(emitted) \in Nat
    <2>1. TypeOK /\ RunnerTypes /\ ContentsAreEmitted
      BY DEF Ind
    <2>2. Earlier >= 0 /\ emitted \in Seq(Targets)
      BY <2>1 DEF ContentsAreEmitted, RunnerTypes
    <2> QED
      BY <2>1, <2>2, Numbers, GivenIsEmitted
  <1>f. first \in Nat
    BY DEF Ind, RunnerTypes
  <1>1. /\ cpc = "release" /\ cpc' = "idle" /\ tail' = Plus(cTail, batch)
        /\ delivered' = delivered \o out /\ out' = <<>> /\ batch' = 0
        /\ Admit(contents[out[1].lo], passNow)
        /\ UNCHANGED <<cTail, half, clock, coreRestarts, attached, core, passNow, budget,
                       carried, acted>>
    BY DEF Take, ReleaseSlots
  <1>2. /\ core = "drain" /\ ppc # "zeroTail" /\ cTail = tail /\ batch = 1 /\ tail < head
        /\ out = <<Whole(Earlier + tail + 1)>>
    BY <1>1 DEF Ind, PopCopiesTheNext
  <1>3. tail + 1 < Modulus /\ tail' = tail + 1
    <2>1. tail + 1 < Modulus
      BY <1>0, <1>2, RingConstants
    <2> QED
      BY <1>0, <1>1, <1>2, <2>1, StepOfACounter
  <1>4. head <= Given /\ tail + 1 \in 1..Given
    BY <1>0, <1>2 DEF Given
  <1>5. Earlier + tail + 1 \in 1..offered
    BY <1>0, <1>4
  <1>6. contents[out[1].lo] = emitted[tail + 1]
    <2>1. out[1].lo = Earlier + (tail + 1)
      BY <1>0, <1>2 DEF Whole
    <2>2. contents[Earlier + (tail + 1)] = emitted[tail + 1]
      BY <1>4 DEF Ind, ContentsAreEmitted
    <2> QED
      BY <2>1, <2>2
  <1>7. emitted[tail + 1] \in Targets /\ emitted[tail + 1].seq = first + tail
    <2>1. tail + 1 \in 1..Len(emitted)
      BY <1>0, <1>4
    <2>2. emitted[tail + 1] \in Targets
      BY <1>0, <2>1, ElementOfSeq
    <2>3. emitted[tail + 1].seq = first + (tail + 1) - 1
      BY <2>1 DEF Ind, OutboxIsWhatIsLeft
    <2> QED
      BY <1>0, <1>f, <2>2, <2>3
  <1>8. delivered' = Append(delivered, Whole(Earlier + tail + 1))
    <2>1. delivered \in Seq(Halves) /\ Whole(Earlier + tail + 1) \in Halves
      BY <1>0, <1>5, RingConstants DEF Ind, TypeOK, Whole, Halves, Ids
    <2> QED
      BY <1>1, <1>2, <2>1, AppendIsConcat
  <1> QED
    BY <1>1, <1>2, <1>3, <1>5, <1>6, <1>7, <1>8

LEMMA EndDrainDoes ==
    ASSUME Ind, EndDrain
    PROVE  /\ core = "drain" /\ core' = "plan" /\ cpc = "idle"
           /\ UNCHANGED <<tail, cpc, cTail, batch, out, half, delivered, clock, coreRestarts,
                          attached, lastSeq, counts, passNow, budget, pass, carried, acted>>
  BY DEF EndDrain, vars, consumerVars, readerVars

LEMMA PlanDoes ==
    ASSUME Ind, Plan
    PROVE  /\ core = "plan" /\ core' = "idle" /\ cpc = "idle" /\ budget' = 0
           /\ carried = NoTarget /\ pass' = NoTarget
           /\ UNCHANGED <<tail, cpc, cTail, batch, out, half, delivered, clock, coreRestarts,
                          attached, lastSeq, counts, passNow>>
           /\ \/ pass = NoTarget /\ carried' = NoTarget /\ acted' = acted
              \/ pass # NoTarget /\ carried' = pass /\ acted' = acted
              \/ /\ pass # NoTarget /\ carried' = NoTarget
                 /\ acted' = [target |-> pass, at |-> passNow]
  <1>1. /\ core = "plan" /\ core' = "idle" /\ budget' = 0 /\ pass' = NoTarget
        /\ UNCHANGED <<tail, cpc, cTail, batch, out, half, delivered, clock, coreRestarts,
                       attached, lastSeq, counts, passNow>>
        /\ \/ pass = NoTarget /\ carried' = carried /\ acted' = acted
           \/ pass # NoTarget /\ carried' = pass /\ acted' = acted
           \/ /\ pass # NoTarget /\ carried' = carried
              /\ acted' = [target |-> pass, at |-> passNow]
    BY DEF Plan, vars, consumerVars, readerVars
  <1>2. carried = NoTarget /\ cpc = "idle"
    BY <1>1 DEF Ind, PassIsFresh, PopCopiesTheNext, TypeOK
  <1> QED
    BY <1>1, <1>2

LEMMA RestartCoreDoes ==
    ASSUME Ind, RestartCore
    PROVE  /\ core' = "idle" /\ attached' = FALSE /\ passNow' = 0 /\ budget' = 0
           /\ lastSeq' = -1 /\ counts' = NoCounts /\ pass' = NoTarget /\ carried' = NoTarget
           /\ acted' = [target |-> NoTarget, at |-> 0]
           /\ cpc' = "idle" /\ out' = <<>> /\ batch' = 0 /\ half' = 0
           /\ coreRestarts' \in 0..MaxCoreRestarts
           /\ UNCHANGED <<tail, cTail, delivered, clock>>
  <1>1. /\ coreRestarts < MaxCoreRestarts /\ coreRestarts' = coreRestarts + 1
        /\ coreRestarts \in 0..MaxCoreRestarts
    BY DEF RestartCore, Ind, CoreTypes
  <1>2. coreRestarts' \in 0..MaxCoreRestarts
    BY <1>1, PathConstants
  <1> QED
    BY <1>2 DEF RestartCore

LEMMA CoreSideIs ==
    CoreSide <=> (Tick \/ UNCHANGED allVars) \/ BeginPass \/ Pop \/ CopyOut \/ Take \/ EndDrain
                    \/ Plan \/ RestartCore
  BY DEF CoreSide, CoreStep

-----------------------------------------------------------------------------
(* The core's part of the invariant.                                       *)

LEMMA TypesCore ==
    ASSUME Ind, CoreSide, ~RestartsRace
    PROVE  TypeOK' /\ CoreTypes'
  <1>0. TypeOK /\ CoreTypes
    BY DEF Ind
  <1>c. /\ head' = head /\ slots' = slots /\ ppc' = ppc /\ pHead' = pHead
        /\ offered' = offered /\ accepted' = accepted /\ restarts' = restarts
    BY CoreQuiet
  <1>n. NoCounts \in Counted /\ 0 \in 0..MaxClock /\ 0 \in 0..MaxPerDrain /\ -1 \in Nat \cup {-1}
        /\ 0 \in Ids /\ 0 \in 0..MaxBatch /\ 1 \in 0..MaxBatch
        /\ \A t \in 1..MaxClock : t \in 0..MaxClock
    BY PathConstants, RingConstants DEF NoCounts, Counted, Ids
  <1>1. CASE Tick \/ UNCHANGED allVars
    BY <1>0, <1>c, <1>1, StillDoes DEF TypeOK, CoreTypes
  <1>2. CASE BeginPass
    <2>1. pass' \in Targets \cup {NoTarget}
      BY <1>0, <1>2, BeginPassDoes DEF CoreTypes
    <2>2. CoreTypes'
      BY <1>0, <1>2, <1>n, <2>1, BeginPassDoes DEF CoreTypes
    <2>3. TypeOK'
      BY <1>0, <1>c, <1>2, BeginPassDoes DEF TypeOK
    <2> QED
      BY <2>2, <2>3
  <1>3. CASE Pop
    <2>1. CoreTypes'
      BY <1>0, <1>3, PopDoes DEF CoreTypes
    <2>2. TypeOK'
      BY <1>0, <1>c, <1>n, <1>3, PopDoes DEF TypeOK
    <2> QED
      BY <2>1, <2>2
  <1>4. CASE CopyOut
    <2>1. CoreTypes'
      BY <1>0, <1>4, CopyOutDoes DEF CoreTypes
    <2>2. out' \in Seq(Halves) /\ half' \in Ids /\ cpc' \in {"hi", "release"}
      <3>1. Whole(Earlier + tail + 1) \in Halves
        BY <1>4, CopyOutDoes DEF Whole, Halves
      <3>2. <<Whole(Earlier + tail + 1)>> \in Seq(Halves) /\ <<>> \in Seq(Halves)
        BY <3>1
      <3> QED
        BY <1>4, <1>n, <3>2, CopyOutDoes
    <2>3. TypeOK'
      BY <1>0, <1>c, <1>4, <2>2, CopyOutDoes DEF TypeOK
    <2> QED
      BY <2>1, <2>3
  <1>5. CASE Take
    <2> DEFINE target == emitted[tail + 1]
    <2>1. /\ target \in Targets /\ target.seq = first + tail /\ Admit(target, passNow)
          /\ tail' = tail + 1 /\ tail + 1 < Modulus /\ tail < head
          /\ Earlier + tail + 1 \in 1..offered
      BY <1>5, TakeDoes
    <2> HIDE DEF target
    <2>2. target.seq \in Nat \cup {-1}
      BY <2>1, PathConstants DEF Targets
    <2>3. /\ counts' \in Counted /\ lastSeq' \in Nat \cup {-1}
          /\ pass' \in Targets \cup {NoTarget}
      BY <1>0, <2>1, <2>2, AdmitDoes DEF CoreTypes
    <2>4. CoreTypes'
      BY <1>0, <1>5, <2>3, TakeDoes DEF CoreTypes
    <2>5. tail' \in Counters
      BY <2>1, Numbers, RingConstants DEF Ind, Counters
    <2>6. delivered' \in Seq(Halves)
      <3>0. Earlier + tail + 1 \in Ids
        <4>1. offered \in 0..MaxRecords /\ MaxRecords \in Nat
          BY <1>0, RingConstants DEF TypeOK, Ids
        <4> QED
          BY <2>1, <4>1 DEF Ids
      <3>1. Whole(Earlier + tail + 1) \in Halves
        BY <3>0 DEF Whole, Halves
      <3>2. delivered' = Append(delivered, Whole(Earlier + tail + 1)) /\ delivered \in Seq(Halves)
        BY <1>0, <1>5, TakeDoes DEF TypeOK
      <3> QED
        BY <3>1, <3>2, AppendProperties
    <2>7. TypeOK'
      BY <1>0, <1>c, <1>n, <1>5, <2>5, <2>6, TakeDoes DEF TypeOK
    <2> QED
      BY <2>4, <2>7
  <1>6. CASE EndDrain
    BY <1>0, <1>c, <1>6, EndDrainDoes DEF TypeOK, CoreTypes
  <1>7. CASE Plan
    <2>1. TypeOK'
      BY <1>0, <1>c, <1>7, PlanDoes DEF TypeOK
    <2>2. acted'.target \in Targets \cup {NoTarget} /\ carried' \in Targets \cup {NoTarget}
      BY <1>0, <1>7, PlanDoes DEF CoreTypes
    <2>3. CoreTypes'
      BY <1>0, <1>7, <1>n, <2>2, PlanDoes DEF CoreTypes
    <2> QED
      BY <2>1, <2>3
  <1>8. CASE RestartCore
    <2>1. <<>> \in Seq(Halves)
      OBVIOUS
    <2>2. TypeOK'
      BY <1>0, <1>c, <1>n, <1>8, <2>1, RestartCoreDoes DEF TypeOK
    <2>3. CoreTypes'
      BY <1>0, <1>8, <1>n, RestartCoreDoes DEF CoreTypes
    <2> QED
      BY <2>2, <2>3
  <1> QED
    BY <1>1, <1>2, <1>3, <1>4, <1>5, <1>6, <1>7, <1>8, CoreSideIs

(* Only Take moves the tail, and what was delivered with it. *)
LEMMA TailStays ==
    ASSUME Ind, CoreSide, ~Take, ~RestartsRace
    PROVE  tail' = tail /\ delivered' = delivered
  BY StillDoes, BeginPassDoes, PopDoes, CopyOutDoes, EndDrainDoes, PlanDoes, RestartCoreDoes,
     CoreSideIs

LEMMA SlotsAndPopCore ==
    ASSUME Ind, CoreSide, ~RestartsRace
    PROVE  SlotsHoldThisLife' /\ PopCopiesTheNext'
  <1>0. /\ head \in Nat /\ tail \in Nat /\ Given \in Nat /\ Capacity \in Nat
        /\ Earlier \in Nat
        /\ SlotsHoldThisLife /\ PopCopiesTheNext
    BY Numbers, RingConstants DEF Ind, ContentsAreEmitted
  <1>c. /\ head' = head /\ slots' = slots /\ ppc' = ppc /\ offered' = offered
        /\ Given' = Given /\ Earlier' = Earlier
    BY CoreQuiet
  <1>s. SlotsHoldThisLife'
    <2>1. CASE Take
      BY <1>0, <1>c, <2>1, TakeDoes DEF SlotsHoldThisLife
    <2>2. CASE ~Take
      BY <1>0, <1>c, <2>2, TailStays DEF SlotsHoldThisLife
    <2> QED
      BY <2>1, <2>2
  <1>1. CASE Tick \/ UNCHANGED allVars
    BY <1>0, <1>c, <1>s, <1>1, StillDoes DEF PopCopiesTheNext
  <1>2. CASE BeginPass
    BY <1>0, <1>c, <1>s, <1>2, BeginPassDoes DEF PopCopiesTheNext
  <1>3. CASE Pop
    BY <1>0, <1>c, <1>s, <1>3, PopDoes DEF PopCopiesTheNext
  <1>4. CASE CopyOut
    BY <1>0, <1>c, <1>s, <1>4, CopyOutDoes DEF PopCopiesTheNext
  <1>5. CASE Take
    BY <1>0, <1>c, <1>s, <1>5, TakeDoes DEF PopCopiesTheNext
  <1>6. CASE EndDrain
    BY <1>0, <1>c, <1>s, <1>6, EndDrainDoes DEF PopCopiesTheNext
  <1>7. CASE Plan
    BY <1>0, <1>c, <1>s, <1>7, PlanDoes DEF PopCopiesTheNext
  <1>8. CASE RestartCore
    BY <1>0, <1>c, <1>s, <1>8, RestartCoreDoes DEF PopCopiesTheNext
  <1> QED
    BY <1>s, <1>1, <1>2, <1>3, <1>4, <1>5, <1>6, <1>7, <1>8, CoreSideIs

LEMMA TakenCore ==
    ASSUME Ind, CoreSide, ~RestartsRace
    PROVE  TakenIsPast' /\ NoTornRecord' /\ DeliveredMovesForward'
  <1>0. /\ TakenIsPast /\ NoTornRecord /\ DeliveredMovesForward
        /\ tail \in Nat /\ Earlier \in Nat /\ Len(delivered) \in Nat /\ delivered \in Seq(Halves)
    BY Numbers DEF Ind, ContentsAreEmitted, TypeOK
  <1>c. ppc' = ppc /\ offered' = offered /\ Earlier' = Earlier
    BY CoreQuiet
  <1>1. CASE ~Take
    <2>1. tail' = tail /\ delivered' = delivered
      BY <1>1, TailStays
    <2> QED
      BY <1>0, <1>c, <2>1 DEF TakenIsPast, Passed, Taken, NoTornRecord, DeliveredMovesForward
  <1>2. CASE Take
    <2> DEFINE id == Earlier + tail + 1
    <2>1. /\ ppc # "zeroTail" /\ tail' = tail + 1 /\ delivered' = Append(delivered, Whole(id))
          /\ id \in 1..offered
      BY <1>2, TakeDoes
    <2>2. Passed = Earlier + tail /\ Passed' = id /\ id \in Nat /\ id # 0
      BY <1>0, <1>c, <2>1 DEF Passed, Taken
    <2>3. Whole(id) \in Halves
      BY <2>1, RingConstants DEF Whole, Halves, Ids, Ind, TypeOK
    <2>4. /\ Len(delivered') = Len(delivered) + 1
          /\ \A i \in 1..Len(delivered) : delivered'[i] = delivered[i]
          /\ delivered'[Len(delivered) + 1] = Whole(id)
      BY <1>0, <2>1, <2>3, AppendProperties
    <2>5. Whole(id).lo = id /\ Whole(id).hi = id
      BY DEF Whole
    <2>6. \A i \in 1..Len(delivered) : delivered[i].lo \in Nat /\ delivered[i].lo < id
      <3> SUFFICES ASSUME NEW i \in 1..Len(delivered)
                   PROVE  delivered[i].lo \in Nat /\ delivered[i].lo < id
        OBVIOUS
      <3>1. delivered[i] \in Halves
        BY <1>0, ElementOfSeq
      <3>2. delivered[i].lo \in Nat
        BY <3>1, RingConstants DEF Halves, Ids
      <3>3. delivered[i].lo <= Passed
        BY <1>0 DEF TakenIsPast
      <3> QED
        BY <1>0, <2>2, <3>2, <3>3
    <2>7. \A i \in 1..Len(delivered') : i \in 1..Len(delivered) \/ i = Len(delivered) + 1
      BY <1>0, <2>4
    <2> HIDE DEF id
    <2>8. TakenIsPast'
      <3>1. Len(delivered') <= Passed'
        BY <1>0, <2>2, <2>4 DEF TakenIsPast, id
      <3>2. \A i \in 1..Len(delivered') : delivered'[i].lo <= Passed'
        BY <1>0, <2>2, <2>4, <2>5, <2>6, <2>7
      <3> QED
        BY <3>1, <3>2 DEF TakenIsPast
    <2>9. NoTornRecord'
      BY <1>0, <2>2, <2>4, <2>5, <2>7 DEF NoTornRecord
    <2>10. DeliveredMovesForward'
      <3> SUFFICES ASSUME NEW i \in 1..Len(delivered'), NEW j \in 1..Len(delivered'), i < j
                   PROVE  delivered'[i].lo < delivered'[j].lo
        BY DEF DeliveredMovesForward
      <3>1. i \in 1..Len(delivered)
        BY <1>0, <2>7
      <3>2. CASE j \in 1..Len(delivered)
        BY <1>0, <2>4, <3>1, <3>2 DEF DeliveredMovesForward
      <3>3. CASE j = Len(delivered) + 1
        BY <2>4, <2>5, <2>6, <3>1, <3>3
      <3> QED
        BY <2>7, <3>2, <3>3
    <2> QED
      BY <2>8, <2>9, <2>10
  <1> QED
    BY <1>1, <1>2

LEMMA BaselineCore ==
    ASSUME Ind, CoreSide, ~RestartsRace
    PROVE  BaselineIsBehind' /\ counts'.missing - counts.missing <= counts.expired + Unused
  <1>0. /\ tail \in Nat /\ first \in Nat /\ lastSeq \in Nat \cup {-1} /\ lastSeq \in Int
        /\ counts \in Counted /\ counts.expired \in Nat /\ counts.missing \in Nat
        /\ BaselineIsBehind /\ Unused \in Nat
    <2>1. /\ first \in Nat /\ lastSeq \in Nat \cup {-1} /\ counts \in Counted
      BY DEF Ind, CoreTypes, RunnerTypes
    <2> QED
      BY <2>1, Numbers DEF Ind, Counted, Unused
  <1>c. ppc' = ppc /\ first' = first /\ reused' = reused
    BY CoreQuiet
  <1>u. lastSeq' = lastSeq => Unused' = Unused
    BY <1>c DEF Unused
  <1>1. CASE (Tick \/ UNCHANGED allVars) \/ Pop \/ CopyOut \/ EndDrain \/ Plan
    <2>1. tail' = tail /\ lastSeq' = lastSeq /\ counts' = counts
      BY <1>1, StillDoes, PopDoes, CopyOutDoes, EndDrainDoes, PlanDoes
    <2> QED
      BY <1>0, <1>c, <1>u, <2>1 DEF BaselineIsBehind, Taken
  <1>2. CASE BeginPass
    <2>1. /\ tail' = tail /\ lastSeq' = lastSeq /\ counts'.stale = counts.stale
          /\ counts'.missing = counts.missing
          /\ counts'.expired = counts.expired \/ counts'.expired = counts.expired + 1
      BY <1>2, BeginPassDoes
    <2> QED
      BY <1>0, <1>c, <1>u, <2>1 DEF BaselineIsBehind, Taken
  <1>3. CASE Take
    <2> DEFINE target == emitted[tail + 1]
    <2>1. /\ target \in Targets /\ target.seq = first + tail /\ Admit(target, passNow)
          /\ tail' = tail + 1 /\ ppc # "zeroTail"
      BY <1>3, TakeDoes
    <2> HIDE DEF target
    <2>t. Taken = tail /\ Taken' = tail + 1 /\ ppc' # "zeroTail"
      BY <1>c, <2>1 DEF Taken
    <2>b. /\ ~reused => counts.stale = 0 /\ lastSeq < first + tail
          /\ lastSeq # -1 => first + tail - 1 - lastSeq <= counts.expired + Unused
      BY <1>0, <2>1, <2>t DEF BaselineIsBehind
    <2>2. CASE /\ lastSeq # -1 /\ target.seq <= lastSeq
               /\ counts'.expired = counts.expired /\ counts'.missing = counts.missing
               /\ counts'.stale = counts.stale + 1 /\ lastSeq' = lastSeq
      <3>1. reused'
        BY <1>0, <1>c, <2>1, <2>2, <2>b
      <3>2. first' + tail' - 1 - lastSeq' <= counts'.expired + Unused'
        BY <1>0, <1>c, <1>u, <2>1, <2>2
      <3> QED
        BY <1>0, <2>2, <3>1, <3>2 DEF BaselineIsBehind
    <2>3. CASE /\ lastSeq = -1 \/ target.seq > lastSeq
               /\ counts'.stale = counts.stale
               /\ counts'.missing = counts.missing
                        + (IF lastSeq = -1 THEN 0 ELSE target.seq - lastSeq - 1)
               /\ \/ lastSeq' = target.seq /\ counts'.expired = counts.expired
                  \/ lastSeq' = lastSeq /\ counts'.expired = counts.expired + 1
      <3>2. counts'.missing - counts.missing <= counts.expired + Unused
        BY <1>0, <2>1, <2>3, <2>b
      <3>6. ~reused' => counts'.stale = 0 /\ lastSeq' < first' + Taken'
        BY <1>0, <1>c, <2>1, <2>3, <2>b, <2>t
      <3>7. lastSeq' # -1 => first' + tail' - 1 - lastSeq' <= counts'.expired + Unused'
        <4>1. CASE lastSeq' = lastSeq /\ counts'.expired = counts.expired + 1
          BY <1>0, <1>c, <1>u, <2>1, <2>b, <4>1
        <4>2. CASE lastSeq' = target.seq /\ counts'.expired = counts.expired
          BY <1>0, <1>c, <2>1, <4>2 DEF Unused
        <4> QED
          BY <2>3, <4>1, <4>2
      <3> QED
        BY <3>2, <3>6, <3>7 DEF BaselineIsBehind
    <2> QED
      BY <2>1, <2>2, <2>3, AdmitDoes
  <1>4. CASE RestartCore
    <2>1. tail' = tail /\ lastSeq' = -1 /\ counts'.stale = 0 /\ counts'.missing = 0
      BY <1>4, RestartCoreDoes DEF NoCounts
    <2>2. -1 < first' + Taken'
      BY <1>0, <1>c, <2>1 DEF Taken
    <2> QED
      BY <1>0, <1>c, <2>1, <2>2 DEF BaselineIsBehind
  <1> QED
    BY <1>1, <1>2, <1>3, <1>4, CoreSideIs

LEMMA CountsCore ==
    ASSUME Ind, CoreSide, ~RestartsRace
    PROVE  CountsAddUp'
  <1>0. /\ counts \in Counted /\ counts.expired \in Nat /\ counts.stale \in Nat
        /\ counts.accepted \in Nat /\ Len(delivered) \in Nat /\ Held \in {0, 1} /\ Held' \in {0, 1}
        /\ CountsAddUp
    BY Numbers DEF Ind, CoreTypes, Counted, Held
  <1>1. CASE (Tick \/ UNCHANGED allVars) \/ Pop \/ CopyOut \/ EndDrain
    <2>1. delivered' = delivered /\ counts' = counts /\ pass' = pass /\ carried' = carried
      BY <1>1, StillDoes, PopDoes, CopyOutDoes, EndDrainDoes
    <2> QED
      BY <1>0, <2>1 DEF CountsAddUp, Held
  <1>2. CASE BeginPass
    <2>1. /\ delivered' = delivered /\ counts'.accepted = counts.accepted
          /\ counts'.stale = counts.stale /\ pass = NoTarget /\ carried' = NoTarget
          /\ \/ /\ carried # NoTarget /\ pass' = NoTarget
                /\ counts'.expired = counts.expired + 1
             \/ counts'.expired = counts.expired /\ pass' = carried
      BY <1>2, BeginPassDoes
    <2> QED
      BY <1>0, <2>1 DEF CountsAddUp, Held
  <1>3. CASE Take
    <2> DEFINE target == emitted[tail + 1]
    <2>1. /\ target \in Targets /\ Admit(target, passNow) /\ carried' = carried
          /\ delivered' = Append(delivered, Whole(Earlier + tail + 1))
          /\ Earlier + tail + 1 \in 1..offered
      BY <1>3, TakeDoes
    <2>2. Len(delivered') = Len(delivered) + 1
      <3>1. Whole(Earlier + tail + 1) \in Halves /\ delivered \in Seq(Halves)
        BY <2>1, RingConstants DEF Whole, Halves, Ids, Ind, TypeOK
      <3> QED
        BY <2>1, <3>1, AppendProperties
    <2> HIDE DEF target
    <2>3. \/ /\ counts'.stale = counts.stale + 1 /\ counts'.accepted = counts.accepted
             /\ counts'.expired = counts.expired /\ pass' = pass
          \/ /\ counts'.stale = counts.stale
             /\ counts'.accepted = counts.accepted + 1 /\ counts'.expired = counts.expired
          \/ /\ counts'.stale = counts.stale /\ pass' = pass
             /\ counts'.accepted = counts.accepted /\ counts'.expired = counts.expired + 1
      BY <2>1, AdmitDoes
    <2>4. pass' = pass => Held' = Held
      BY <2>1 DEF Held
    <2> QED
      BY <1>0, <2>2, <2>3, <2>4 DEF CountsAddUp
  <1>4. CASE Plan
    <2>1. delivered' = delivered /\ counts' = counts /\ Held' <= Held
      BY <1>4, PlanDoes DEF Held
    <2> QED
      BY <1>0, <2>1 DEF CountsAddUp
  <1>5. CASE RestartCore
    <2>1. /\ delivered' = delivered /\ Held' = 0
          /\ counts'.accepted = 0 /\ counts'.expired = 0 /\ counts'.stale = 0
      BY <1>5, RestartCoreDoes DEF NoCounts, Held
    <2> QED
      BY <1>0, <2>1 DEF CountsAddUp
  <1> QED
    BY <1>1, <1>2, <1>3, <1>4, <1>5, CoreSideIs

LEMMA FreshCore ==
    ASSUME Ind, CoreSide, ~RestartsRace
    PROVE  PassIsFresh' /\ ActedTargetsAreFresh'
  <1>0. PassIsFresh /\ ActedTargetsAreFresh
    BY DEF Ind
  <1>1. CASE (Tick \/ UNCHANGED allVars) \/ Pop \/ CopyOut
    <2>1. /\ core' = core /\ pass' = pass /\ carried' = carried /\ passNow' = passNow
          /\ acted' = acted
      BY <1>1, StillDoes, PopDoes, CopyOutDoes
    <2> QED
      BY <1>0, <2>1 DEF PassIsFresh, ActedTargetsAreFresh, StillFresh, EffectiveTtl
  <1>2. CASE BeginPass
    <2>1. /\ core' = "drain" /\ carried' = NoTarget /\ acted' = acted /\ passNow' = clock
          /\ pass' # NoTarget => pass' = carried /\ StillFresh(carried, clock)
      BY <1>2, BeginPassDoes
    <2> QED
      BY <1>0, <2>1 DEF PassIsFresh, ActedTargetsAreFresh, StillFresh, EffectiveTtl
  <1>3. CASE Take
    <2>1. /\ emitted[tail + 1] \in Targets /\ Admit(emitted[tail + 1], passNow)
          /\ core = "drain" /\ core' = core /\ carried' = carried /\ acted' = acted
          /\ passNow' = passNow
      BY <1>3, TakeDoes
    <2>2. pass' = pass \/ StillFresh(pass', passNow)
      BY <2>1, AdmitDoes
    <2> QED
      BY <1>0, <2>1, <2>2 DEF PassIsFresh, ActedTargetsAreFresh, StillFresh, EffectiveTtl
  <1>4. CASE EndDrain
    <2>1. /\ core = "drain" /\ core' = "plan" /\ pass' = pass /\ carried' = carried
          /\ passNow' = passNow /\ acted' = acted
      BY <1>4, EndDrainDoes
    <2> QED
      BY <1>0, <2>1 DEF PassIsFresh, ActedTargetsAreFresh, StillFresh, EffectiveTtl
  <1>5. CASE Plan
    <2>1. core' = "idle" /\ pass' = NoTarget
      BY <1>5, PlanDoes
    <2>2. \/ acted' = acted
          \/ pass # NoTarget /\ acted' = [target |-> pass, at |-> passNow]
      BY <1>5, PlanDoes
    <2>3. ActedTargetsAreFresh'
      BY <1>0, <2>2 DEF PassIsFresh, ActedTargetsAreFresh, StillFresh, EffectiveTtl
    <2> QED
      BY <2>1, <2>3 DEF PassIsFresh
  <1>6. CASE RestartCore
    BY <1>6, RestartCoreDoes DEF PassIsFresh, ActedTargetsAreFresh
  <1> QED
    BY <1>1, <1>2, <1>3, <1>4, <1>5, <1>6, CoreSideIs

-----------------------------------------------------------------------------
(* The theorems.                                                           *)

LEMMA IndInit == PathInit => Ind
  <1> SUFFICES ASSUME PathInit PROVE Ind
    OBVIOUS
  <1>1. TypeOK
    <2>1. Init
      BY DEF PathInit
    <2>2. RingCore
      BY <2>1, RingCoreInit
    <2> QED
      BY <2>2 DEF RingCore
  <1>2. /\ head = 0 /\ tail = 0 /\ ppc = "idle" /\ offered = 0 /\ restarts = 0
        /\ cpc = "idle" /\ out = <<>> /\ delivered = <<>> /\ Len(delivered) = 0
        /\ clock = 1 /\ runner = "absent" /\ first = 0 /\ reused = FALSE
        /\ outbox = <<>> /\ flushing = FALSE
        /\ emitted = <<>> /\ contents = <<>> /\ core = "idle" /\ coreRestarts = 0
        /\ attached = FALSE /\ passNow = 0 /\ budget = 0 /\ lastSeq = -1
        /\ counts = NoCounts /\ pass = NoTarget /\ carried = NoTarget
        /\ acted = [target |-> NoTarget, at |-> 0]
        /\ Len(outbox) = 0 /\ Len(emitted) = 0 /\ Len(contents) = 0
    BY DEF PathInit, Init
  <1>3. Given = 0 /\ Earlier = 0 /\ ~Pushing /\ Held = 0 /\ Passed = 0
    <2>1. ~Pushing /\ Held = 0
      BY <1>2 DEF Pushing, Held
    <2>2. Given = 0
      BY <1>2, <2>1 DEF Given
    <2>3. Earlier = 0
      BY <1>2, <2>2 DEF Earlier
    <2> QED
      BY <1>2, <2>1, <2>2, <2>3 DEF Passed, Taken
  <1>4. RunnerTypes
    <2>1. <<>> \in Seq(Targets)
      BY EmptySeq
    <2>2. outbox \in Seq(Targets) /\ emitted \in Seq(Targets) /\ contents \in Seq(Targets)
      BY <1>2, <2>1, Zenon
    <2>3. Len(emitted) <= MaxEmitted /\ Len(contents) = offered
      BY <1>2, PathConstants
    <2>4. /\ runner \in {"absent", "running", "raised"} /\ flushing \in BOOLEAN
          /\ first \in Nat /\ reused \in BOOLEAN
      BY <1>2
    <2> QED
      BY <2>2, <2>3, <2>4 DEF RunnerTypes
  <1>5. CoreTypes
    <2>1. NoCounts \in Counted
      BY DEF NoCounts, Counted
    <2>2. /\ 1 \in 1..MaxClock /\ 0 \in 0..MaxClock /\ 0 \in 0..MaxPerDrain
          /\ 0 \in 0..MaxCoreRestarts /\ -1 \in Nat \cup {-1}
      BY PathConstants
    <2>3. /\ clock \in 1..MaxClock /\ coreRestarts \in 0..MaxCoreRestarts
          /\ passNow \in 0..MaxClock /\ budget \in 0..MaxPerDrain
      BY <1>2, <2>2, Zenon
    <2>4. lastSeq \in Nat \cup {-1}
      BY <1>2, <2>2, Zenon
    <2>5. acted.target = NoTarget
      BY <1>2
    <2>6. /\ attached \in BOOLEAN /\ core \in {"idle", "drain", "plan"} /\ counts \in Counted
          /\ pass \in Targets \cup {NoTarget} /\ carried \in Targets \cup {NoTarget}
          /\ acted.target \in Targets \cup {NoTarget}
      BY <1>2, <2>1, <2>5, Zenon
    <2> QED
      BY <2>3, <2>4, <2>6 DEF CoreTypes
  <1>6. OutboxIsWhatIsLeft /\ ContentsAreEmitted /\ SlotsHoldThisLife /\ PopCopiesTheNext
    BY <1>2, <1>3, RingConstants
       DEF OutboxIsWhatIsLeft, ContentsAreEmitted, SlotsHoldThisLife, PopCopiesTheNext
  <1>7. TakenIsPast /\ NoTornRecord /\ DeliveredMovesForward
    BY <1>2, <1>3 DEF TakenIsPast, NoTornRecord, DeliveredMovesForward
  <1>8. BaselineIsBehind /\ CountsAddUp /\ PassIsFresh /\ ActedTargetsAreFresh
    BY <1>2, <1>3
       DEF BaselineIsBehind, Taken, CountsAddUp, PassIsFresh, ActedTargetsAreFresh, NoCounts
  <1> QED
    BY <1>1, <1>4, <1>5, <1>6, <1>7, <1>8 DEF Ind

LEMMA IndNext ==
    ASSUME Ind, [PathNext]_allVars, ~RestartsRace
    PROVE  Ind'
  <1>1. CASE RunnerSide
    BY <1>1, RunnerKeeps
  <1>2. CASE CoreSide
    BY <1>2, CoreKeepsTheRunners, TypesCore, SlotsAndPopCore, TakenCore, BaselineCore, CountsCore,
       FreshCore DEF Ind
  <1> QED
    BY <1>1, <1>2, TwoSides

LEMMA PathInvariant == ASSUME ~RestartsRace PROVE PathSpec => []Ind
  <1>1. Ind /\ [PathNext]_allVars => Ind'
    BY IndNext
  <1> QED
    BY IndInit, <1>1, PTL DEF PathSpec

(* The types, with the bounds that follow from the counts. *)
LEMMA IndIsTyped == Ind => PathTypeOK
  <1> SUFFICES ASSUME Ind PROVE PathTypeOK
    OBVIOUS
  <1>1. /\ head \in Nat /\ tail \in Nat /\ offered \in Nat /\ Len(delivered) \in Nat
        /\ Len(outbox) \in Nat /\ Len(emitted) \in Nat
        /\ Given \in Nat /\ Earlier \in Nat /\ offered = Earlier + Given
    BY Numbers DEF Ind, ContentsAreEmitted
  <1>2. Len(outbox) <= Len(emitted)
    BY <1>1 DEF Ind, OutboxIsWhatIsLeft
  <1>3. Len(delivered) <= offered
    <2>1. head <= Given
      BY <1>1 DEF Given
    <2>2. ppc # "zeroTail" => tail <= head
      BY DEF Ind, SlotsHoldThisLife
    <2> QED
      BY <1>1, <2>1, <2>2 DEF Ind, TakenIsPast, Passed, Taken
  <1>4. /\ counts \in Counted /\ counts.accepted \in 0..offered /\ counts.expired \in 0..offered
        /\ counts.stale \in 0..offered
    <2>1. /\ counts \in Counted /\ counts.accepted \in Nat /\ counts.expired \in Nat
          /\ counts.stale \in Nat /\ Held \in {0, 1}
      BY DEF Ind, CoreTypes, Counted, Held
    <2>2. /\ counts.accepted <= Len(delivered)
          /\ counts.expired + counts.stale + Held <= Len(delivered)
      BY DEF Ind, CountsAddUp
    <2> QED
      BY <1>1, <1>3, <2>1, <2>2
  <1>5. counts \in [accepted : 0..offered, expired : 0..offered, stale : 0..offered, missing : Nat]
    BY <1>4 DEF Counted
  <1> QED
    BY <1>2, <1>5 DEF PathTypeOK, Ind, RunnerTypes, CoreTypes

(* As long as no new producer resets the ring in the middle of a pop (nothing in
   the code prevents it, signals/__init__.py:101; RestartsRace is what it would
   do), and however often else a runner or a core is started again, nothing is
   handed over torn and nothing old behind something new; every counter, slot and
   sequence number on the way says how far the targets of this life have come. *)
THEOREM NothingIsTornOrTurned == ASSUME ~RestartsRace PROVE PathSpec => []HandoverInv
  <1>1. Ind => HandoverInv
    BY IndIsTyped DEF Ind, HandoverInv
  <1> QED
    BY <1>1, PathInvariant, PTL

(* A target is acted on inside its own window, whatever its lifetime, the ceiling
   and the number of passes it was held over, while no reset cuts into a pop. *)
THEOREM TargetsAreActedOnFresh == ASSUME ~RestartsRace PROVE PathSpec => []ActedTargetsAreFresh
  <1>1. Ind => ActedTargetsAreFresh
    BY DEF Ind
  <1> QED
    BY <1>1, PathInvariant, PTL

(* What this life of the runner gave the ring and what waits in the outbox are,
   in order, what the strategy emitted, however often the ring was full, while no
   reset cuts into a pop. *)
THEOREM BackpressureLosesNothing == ASSUME ~RestartsRace PROVE PathSpec => []BackpressureKeepsOrder
  <1>1. Ind => BackpressureKeepsOrder
    <2> SUFFICES ASSUME Ind PROVE BackpressureKeepsOrder
      OBVIOUS
    <2> DEFINE all == Len(contents)
               given == SubSeq(contents, all - Given + 1, all)
               waiting == IF Pushing THEN Tail(outbox) ELSE outbox
    <2>1. /\ contents \in Seq(Targets) /\ emitted \in Seq(Targets) /\ outbox \in Seq(Targets)
          /\ all = offered /\ offered \in Nat /\ Earlier \in Nat /\ Given \in 0..Len(emitted)
          /\ offered = Earlier + Given /\ restarts \in Nat /\ head \in Nat
          /\ Len(outbox) \in Nat /\ Len(emitted) \in Nat /\ Len(emitted) = head + Len(outbox)
      BY Numbers, GivenIsEmitted DEF Ind, RunnerTypes, ContentsAreEmitted, OutboxIsWhatIsLeft
    <2>2. all - Given = Earlier
      BY <2>1
    <2>3. \A i \in 1..all : contents[i].life = restarts <=> i > all - Given
      <3> SUFFICES ASSUME NEW i \in 1..all PROVE contents[i].life = restarts <=> i > Earlier
        BY <2>2
      <3>1. CASE i > Earlier
        <4>1. i - Earlier \in 1..Given /\ Earlier + (i - Earlier) = i
          BY <2>1, <3>1
        <4>2. contents[i] = emitted[i - Earlier]
          BY <4>1 DEF Ind, ContentsAreEmitted
        <4>3. i - Earlier \in 1..Len(emitted)
          BY <2>1, <4>1
        <4>4. emitted[i - Earlier].life = restarts
          BY <4>3 DEF Ind, OutboxIsWhatIsLeft
        <4> QED
          BY <3>1, <4>2, <4>4
      <3>2. CASE ~(i > Earlier)
        <4>1. i \in 1..Earlier
          BY <2>1, <3>2
        <4>2. contents[i].life < restarts
          BY <4>1 DEF Ind, ContentsAreEmitted
        <4>3. contents[i] \in Targets
          BY <2>1, ElementOfSeq
        <4>4. contents[i].life \in Nat
          BY <4>3, PathConstants DEF Targets
        <4> QED
          BY <2>1, <3>2, <4>2, <4>4
      <3> QED
        BY <3>1, <3>2
    <2>4. /\ given \in Seq(Targets) /\ Len(given) = Given
          /\ \A k \in 1..Given : given[k] = emitted[k]
      <3>1. /\ given = SubSeq(contents, Earlier + 1, all)
            /\ Earlier + 1 \in 1..(Len(contents) + 1) /\ all \in Earlier..Len(contents)
        BY <2>1, <2>2
      <3>2. given \in Seq(Targets)
        BY <2>1, <3>1, SubSeqProperties
      <3>3. Len(given) = Given
        BY <2>1, <3>1, SubSeqProperties
      <3>4. \A k \in 1..Given : given[k] = contents[Earlier + k]
        BY <2>1, <3>1, SubSeqProperties
      <3> QED
        BY <3>2, <3>3, <3>4 DEF Ind, ContentsAreEmitted
    <2>5. /\ waiting \in Seq(Targets) /\ Given + Len(waiting) = Len(emitted)
          /\ \A k \in 1..Len(waiting) : waiting[k] = emitted[Given + k]
      <3>1. CASE Pushing
        <4>1. outbox # <<>> /\ Given = head + 1
          BY <3>1 DEF Ind, OutboxIsWhatIsLeft, Given
        <4>2. /\ waiting = Tail(outbox) /\ waiting \in Seq(Targets)
              /\ Len(waiting) = Len(outbox) - 1
              /\ \A k \in 1..Len(waiting) : waiting[k] = outbox[k + 1]
          BY <2>1, <3>1, <4>1, HeadTailProperties
        <4>3. \A k \in 1..Len(waiting) : waiting[k] = emitted[Given + k]
          <5> SUFFICES ASSUME NEW k \in 1..Len(waiting) PROVE waiting[k] = emitted[Given + k]
            OBVIOUS
          <5> HIDE DEF waiting
          <5>1. k + 1 \in 1..Len(outbox) /\ head + (k + 1) = Given + k
            BY <2>1, <4>1, <4>2
          <5>2. outbox[k + 1] = emitted[head + (k + 1)]
            BY <5>1 DEF Ind, OutboxIsWhatIsLeft
          <5> QED
            BY <4>2, <5>1, <5>2
        <4>4. Given + Len(waiting) = Len(emitted)
          <5> HIDE DEF waiting
          <5> QED
            BY <2>1, <4>1, <4>2
        <4> QED
          BY <4>2, <4>3, <4>4, Zenon
      <3>2. CASE ~Pushing
        BY <2>1, <3>2 DEF Ind, OutboxIsWhatIsLeft, Given
      <3> QED
        BY <3>1, <3>2
    <2> HIDE DEF given, waiting
    <2>6. given \o waiting = emitted
      <3>0. /\ given \o waiting \in Seq(Targets)
            /\ Len(given \o waiting) = Len(given) + Len(waiting)
            /\ \A k \in 1..Len(given) + Len(waiting) :
                    (given \o waiting)[k] = IF k <= Len(given) THEN given[k]
                                                              ELSE waiting[k - Len(given)]
        <4>1. given \in Seq(Targets) /\ waiting \in Seq(Targets)
          BY <2>4, <2>5
        <4> QED
          BY <4>1, ConcatProperties, Zenon
      <3>1. /\ given \o waiting \in Seq(Targets)
            /\ Len(given \o waiting) = Len(emitted)
            /\ \A k \in 1..Len(emitted) :
                    (given \o waiting)[k] = IF k <= Given THEN given[k] ELSE waiting[k - Given]
        <4>1. Len(given) = Given /\ Len(given) + Len(waiting) = Len(emitted)
          BY <2>4, <2>5, Zenon
        <4> QED
          BY <3>0, <4>1, Zenon
      <3>2. \A k \in 1..Len(emitted) : (given \o waiting)[k] = emitted[k]
        <4> SUFFICES ASSUME NEW k \in 1..Len(emitted)
                     PROVE  (given \o waiting)[k] = emitted[k]
          OBVIOUS
        <4>1. CASE k <= Given
          <5>1. k \in 1..Given
            BY <2>1, <4>1
          <5> QED
            BY <2>4, <3>1, <4>1, <5>1
        <4>2. CASE ~(k <= Given)
          <5>1. Len(waiting) \in Nat
            BY <2>5, LenProperties
          <5>2. k - Given \in 1..Len(waiting) /\ Given + (k - Given) = k
            BY <2>1, <2>5, <4>2, <5>1
          <5> QED
            BY <2>5, <3>1, <4>2, <5>2
        <4> QED
          BY <4>1, <4>2
      <3> QED
        BY <2>1, <3>1, <3>2, SeqEqual
    <2>7. Given \in 0..all
      BY <2>1
    <2> QED
      BY <2>3, <2>6, <2>7 DEF BackpressureKeepsOrder, given, waiting
  <1> QED
    BY <1>1, PathInvariant, PTL

(* While no reset cuts into a pop: what one jump of the gap counter calls missing
   was read and refused for its age or lies below the first number of this life,
   and nothing is refused as stale unless a runner was started on numbers that had
   been used.  It is proved for every first_seq a life may be given. *)
THEOREM CountersAreTrue == ASSUME ~RestartsRace PROVE PathSpec => CountersTellTheTruth
  <1>1. Ind => StaleMeansReused
    <2> SUFFICES ASSUME Ind PROVE StaleMeansReused
      OBVIOUS
    <2>1. counts.stale \in Nat
      BY DEF Ind, CoreTypes, Counted
    <2> QED
      BY <2>1 DEF Ind, BaselineIsBehind, StaleMeansReused
  <1>2. Ind /\ [PathNext]_allVars
            => [counts'.missing - counts.missing <= counts.expired + Unused]_allVars
    <2> SUFFICES ASSUME Ind, [PathNext]_allVars
                 PROVE  counts'.missing - counts.missing <= counts.expired + Unused
      OBVIOUS
    <2>1. CASE CoreSide
      BY <2>1, BaselineCore
    <2>2. CASE RunnerSide
      <3>1. /\ counts' = counts /\ counts.missing \in Nat /\ counts.expired \in Nat
            /\ first \in Nat /\ lastSeq \in Nat \cup {-1}
        BY <2>2, ConsumerStays DEF Ind, CoreTypes, RunnerTypes, Counted
      <3>2. Unused \in Nat
        BY <3>1 DEF Unused
      <3> QED
        BY <3>1, <3>2
    <2> QED
      BY <2>1, <2>2, TwoSides
  <1> QED
    BY <1>1, <1>2, PathInvariant, PTL DEF PathSpec, CountersTellTheTruth, AJumpCountsTheExpired
=============================================================================
