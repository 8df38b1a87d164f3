--------------------------- MODULE OrderPathProofs ----------------------------
(***************************************************************************)
(* Proofs about OrderPath, for every session: a loss beyond its limit has  *)
(* thrown the switch (LossesTrip), the window counts every request and no  *)
(* longer (TheWindowIsExact), no placement meets the venue's limit while   *)
(* the reserve covers what the count lacks (NoPlaceMeetsTheLimit), a plan  *)
(* takes the position where the signal wants it at a price that can be     *)
(* sent (PlansAreRight), what the venue may still fill stays within the    *)
(* limits (LimitsInv), and behind the switch there are only exits          *)
(* (TrippedOnlyShrinks).                                                   *)
(***************************************************************************)
EXTENDS OrderPath, Functions, FiniteSetTheorems, WellFoundedInduction, SequenceTheorems, TLAPS

-----------------------------------------------------------------------------
(* Sums over finite sets: the fold that adds a function's values up depends  *)
(* on no order, and changes by what one element adds.  Induction is by the   *)
(* smallest counterexample.                                                  *)

LEMMA LeastNumber ==
    ASSUME NEW T \in SUBSET Nat, T # {}
    PROVE  \E m \in T : \A n \in T : m <= n
  <1> DEFINE R == {ss \in Nat \X Nat : ss[1] < ss[2]}
  <1>1. IsWellFoundedOn(R, Nat)
    BY NatLessThanWellFounded DEF OpToRel
  <1>2. PICK m \in T : \A n \in T : <<n, m>> \notin R
    <2> HIDE DEF R
    <2> QED
      BY <1>1, WFMin
  <1>3. ASSUME NEW n \in T
        PROVE  m <= n
    <2>1. <<n, m>> \in Nat \X Nat /\ <<n, m>>[1] = n /\ <<n, m>>[2] = m
      OBVIOUS
    <2>2. ~(n < m)
      BY <1>2, <2>1
    <2> QED
      BY <2>2
  <1> QED
    BY <1>3

LEMMA LeastSubset ==
    ASSUME NEW S, IsFiniteSet(S), NEW family \in SUBSET SUBSET S, family # {}
    PROVE  \E T \in family : \A U \in family : U \subseteq T => U = T
  <1> DEFINE R == StrictSubsetOrdering(S)
  <1>1. IsWellFoundedOn(R, FiniteSubsetsOf(S)) /\ FiniteSubsetsOf(S) = SUBSET S
    BY FS_StrictSubsetOrderingWellFounded, FS_FiniteSubsetsOfFinite
  <1>2. PICK T \in family : \A U \in family : <<U, T>> \notin R
    <2> HIDE DEF R
    <2> QED
      BY <1>1, WFMin
  <1>3. ASSUME NEW U \in family, U \subseteq T
        PROVE  U = T
    <2>1. <<U, T>> \in (SUBSET S) \X (SUBSET S) /\ <<U, T>>[1] = U /\ <<U, T>>[2] = T
      OBVIOUS
    <2>2. ~(U # T)
      BY <1>2, <1>3, <2>1 DEF StrictSubsetOrdering
    <2> QED
      BY <2>2
  <1> QED
    BY <1>3

Pick(s) == CHOOSE x \in s : TRUE

LEMMA PickIn ==
    ASSUME NEW s, s # {}
    PROVE  Pick(s) \in s
  BY DEF Pick

AddsUp(f, F, D) == f = [s \in D |-> IF s = {} THEN 0 ELSE F[Pick(s)] + f[s \ {Pick(s)}]]

LEMMA SumUnfolds ==
    ASSUME NEW F, NEW S
    PROVE  SumFunctionOnSet(F, S) = (CHOOSE f : AddsUp(f, F, SUBSET S))[S]
  BY DEF SumFunctionOnSet, FoldFunctionOnSet, MapThenFoldSet, AddsUp, Pick

LEMMA SomeFunctionAddsUp ==
    ASSUME NEW F, NEW S, IsFiniteSet(S)
    PROVE  \E f : AddsUp(f, F, SUBSET S)
  <1> DEFINE D(n) == {T \in SUBSET S : Cardinality(T) <= n}
             bad == {n \in Nat : ~\E f : AddsUp(f, F, D(n))}
  <1>1. ASSUME NEW T \in SUBSET S
        PROVE  IsFiniteSet(T) /\ Cardinality(T) \in Nat /\ Cardinality(T) <= Cardinality(S)
               /\ (Cardinality(T) = 0 <=> T = {})
    BY FS_Subset, FS_CardinalityType, FS_EmptySet
  <1>2. SUFFICES bad = {}
    <2>1. D(Cardinality(S)) = SUBSET S /\ Cardinality(S) \in Nat
      BY <1>1, FS_CardinalityType
    <2> QED
      BY <1>2, <2>1
  <1>3. SUFFICES ASSUME bad # {}
                 PROVE  FALSE
    OBVIOUS
  <1>4. PICK n \in bad : \A k \in bad : n <= k
    BY <1>3, LeastNumber
  <1>5. CASE n = 0
    <2>1. \A T \in D(0) : T = {}
      BY <1>1
    <2> DEFINE f == [s \in D(0) |-> 0]
    <2>2. f = [s \in D(0) |-> IF s = {} THEN 0 ELSE F[Pick(s)] + f[s \ {Pick(s)}]]
      BY <2>1
    <2>3. AddsUp(f, F, D(0))
      BY <2>2 DEF AddsUp
    <2> QED
      BY <1>4, <1>5, <2>3
  <1>6. CASE n # 0
    <2>1. n - 1 \in Nat /\ n - 1 \notin bad
      <3>1. n \in Nat /\ n - 1 \in Nat /\ ~(n <= n - 1)
        BY <1>4, <1>6
      <3> HIDE DEF bad
      <3> QED
        BY <1>4, <3>1
    <2>2. PICK f : AddsUp(f, F, D(n - 1))
      BY <2>1
    <2> DEFINE g == [s \in D(n) |-> IF s = {} THEN 0 ELSE F[Pick(s)] + f[s \ {Pick(s)}]]
    <2>3. ASSUME NEW T \in D(n), T # {}
          PROVE  g[T \ {Pick(T)}] = f[T \ {Pick(T)}]
      <3>1. Pick(T) \in T
        BY <2>3, PickIn
      <3>2. T \ {Pick(T)} \in SUBSET S /\ Cardinality(T \ {Pick(T)}) = Cardinality(T) - 1
        BY <1>1, <3>1, FS_RemoveElement
      <3>3. T \ {Pick(T)} \in D(n - 1) /\ T \ {Pick(T)} \in D(n)
        BY <1>1, <3>2
      <3> DEFINE U == T \ {Pick(T)}
      <3>4. f[U] = IF U = {} THEN 0 ELSE F[Pick(U)] + f[U \ {Pick(U)}]
        <4> HIDE DEF D
        <4> HIDE DEF U
        <4>1. f = [s \in D(n - 1) |-> IF s = {} THEN 0 ELSE F[Pick(s)] + f[s \ {Pick(s)}]]
          BY <2>2 DEF AddsUp
        <4>2. U \in D(n - 1)
          BY <3>3 DEF U
        <4> QED
          BY <4>1, <4>2
      <3>5. g[U] = IF U = {} THEN 0 ELSE F[Pick(U)] + f[U \ {Pick(U)}]
        BY <3>3
      <3> QED
        BY <3>4, <3>5
    <2>4. AddsUp(g, F, D(n))
      <3> HIDE DEF D
      <3>1. g = [s \in D(n) |-> IF s = {} THEN 0 ELSE F[Pick(s)] + g[s \ {Pick(s)}]]
        BY <2>3
      <3> QED
        BY <3>1 DEF AddsUp
    <2> QED
      BY <1>4, <2>4
  <1> QED
    BY <1>5, <1>6

LEMMA SumIs ==
    ASSUME NEW F, NEW S, IsFiniteSet(S)
    PROVE  \E f : AddsUp(f, F, SUBSET S) /\ SumFunctionOnSet(F, S) = f[S]
  BY SumUnfolds, SomeFunctionAddsUp

LEMMA AddsUpAt ==
    ASSUME NEW F, NEW S, NEW f, AddsUp(f, F, SUBSET S), NEW T \in SUBSET S
    PROVE  f[T] = IF T = {} THEN 0 ELSE F[Pick(T)] + f[T \ {Pick(T)}]
  <1>1. f = [s \in SUBSET S |-> IF s = {} THEN 0 ELSE F[Pick(s)] + f[s \ {Pick(s)}]]
    BY DEF AddsUp
  <1> QED
    BY <1>1

(* Two that add up agree wherever both do. *)
LEMMA SumsAgree ==
    ASSUME NEW F, NEW S, NEW T, NEW f, NEW g, IsFiniteSet(S), T \subseteq S,
           AddsUp(f, F, SUBSET S), AddsUp(g, F, SUBSET T)
    PROVE  f[T] = g[T]
  <1> DEFINE bad == {U \in SUBSET T : f[U] # g[U]}
  <1>1. SUFFICES ASSUME bad # {}
                 PROVE  FALSE
    OBVIOUS
  <1>2. IsFiniteSet(T) /\ bad \in SUBSET SUBSET T
    BY FS_Subset
  <1>3. PICK U \in bad : \A V \in bad : V \subseteq U => V = U
    <2> HIDE DEF bad
    <2> QED
      BY <1>1, <1>2, LeastSubset
  <1>4. /\ f[U] = IF U = {} THEN 0 ELSE F[Pick(U)] + f[U \ {Pick(U)}]
        /\ g[U] = IF U = {} THEN 0 ELSE F[Pick(U)] + g[U \ {Pick(U)}]
    <2>1. U \in SUBSET S /\ U \in SUBSET T
      BY <1>2
    <2> HIDE DEF bad
    <2>2. f[U] = IF U = {} THEN 0 ELSE F[Pick(U)] + f[U \ {Pick(U)}]
      BY <2>1, AddsUpAt
    <2>3. g[U] = IF U = {} THEN 0 ELSE F[Pick(U)] + g[U \ {Pick(U)}]
      BY <2>1, AddsUpAt
    <2> QED
      BY <2>2, <2>3
  <1>5. U # {} /\ Pick(U) \in U
    BY <1>3, <1>4, PickIn
  <1>6. U \ {Pick(U)} \notin bad
    BY <1>3, <1>5
  <1>7. f[U \ {Pick(U)}] = g[U \ {Pick(U)}]
    BY <1>2, <1>6
  <1> QED
    BY <1>3, <1>4, <1>5, <1>7

LEMMA SumOfNone ==
    ASSUME NEW F
    PROVE  SumFunctionOnSet(F, {}) = 0
  <1>1. IsFiniteSet({})
    BY FS_EmptySet
  <1>2. PICK f : AddsUp(f, F, SUBSET {}) /\ SumFunctionOnSet(F, {}) = f[{}]
    BY <1>1, SumIs
  <1> QED
    BY <1>2, AddsUpAt

LEMMA SumOfSome ==
    ASSUME NEW F, NEW S, IsFiniteSet(S), S # {}
    PROVE  SumFunctionOnSet(F, S) = F[Pick(S)] + SumFunctionOnSet(F, S \ {Pick(S)})
  <1> DEFINE T == S \ {Pick(S)}
  <1>1. T \in SUBSET S /\ IsFiniteSet(T)
    BY FS_Subset
  <1>2. PICK f : AddsUp(f, F, SUBSET S) /\ SumFunctionOnSet(F, S) = f[S]
    BY SumIs
  <1>3. PICK g : AddsUp(g, F, SUBSET T) /\ SumFunctionOnSet(F, T) = g[T]
    BY <1>1, SumIs
  <1>4. f[T] = g[T]
    <2>1. ASSUME NEW U \in SUBSET S, AddsUp(g, F, SUBSET U)
          PROVE  f[U] = g[U]
      <3>1. AddsUp(f, F, SUBSET S)
        BY <1>2
      <3> QED
        BY <2>1, <3>1, SumsAgree
    <2> QED
      BY <1>1, <1>3, <2>1
  <1>5. f[S] = F[Pick(S)] + f[T]
    BY <1>2, AddsUpAt
  <1> QED
    BY <1>2, <1>3, <1>4, <1>5

LEMMA SumIsInteger ==
    ASSUME NEW F, NEW S, IsFiniteSet(S), \A x \in S : F[x] \in Int
    PROVE  SumFunctionOnSet(F, S) \in Int
  <1> DEFINE bad == {U \in SUBSET S : SumFunctionOnSet(F, U) \notin Int}
  <1>1. SUFFICES ASSUME bad # {}
                 PROVE  FALSE
    OBVIOUS
  <1>2. PICK U \in bad : \A V \in bad : V \subseteq U => V = U
    <2>1. bad \in SUBSET SUBSET S
      OBVIOUS
    <2> HIDE DEF bad
    <2> QED
      BY <1>1, <2>1, LeastSubset
  <1>3. U \in SUBSET S /\ IsFiniteSet(U)
    BY FS_Subset
  <1>4. U # {}
    <2>1. ASSUME U = {}
          PROVE  SumFunctionOnSet(F, U) = 0
      BY <2>1, SumOfNone
    <2> QED
      BY <1>2, <2>1
  <1>5. Pick(U) \in U
    BY <1>4, PickIn
  <1>6. SumFunctionOnSet(F, U) = F[Pick(U)] + SumFunctionOnSet(F, U \ {Pick(U)})
    <2> HIDE DEF bad
    <2> QED
      BY <1>3, <1>4, SumOfSome
  <1>7. SumFunctionOnSet(F, U \ {Pick(U)}) \in Int
    BY <1>2, <1>3, <1>5
  <1>8. F[Pick(U)] \in Int
    BY <1>3, <1>5
  <1> QED
    BY <1>2, <1>6, <1>7, <1>8

(* Any element may be counted first. *)
LEMMA SumTakesOut ==
    ASSUME NEW F, NEW S, IsFiniteSet(S), \A x \in S : F[x] \in Int, NEW e \in S
    PROVE  SumFunctionOnSet(F, S) = F[e] + SumFunctionOnSet(F, S \ {e})
  <1> DEFINE Sum(U) == SumFunctionOnSet(F, U)
             bad == {U \in SUBSET S : \E x \in U : Sum(U) # F[x] + Sum(U \ {x})}
  <1>1. SUFFICES ASSUME bad # {}
                 PROVE  FALSE
    OBVIOUS
  <1>2. PICK U \in bad : \A V \in bad : V \subseteq U => V = U
    <2>1. bad \in SUBSET SUBSET S
      OBVIOUS
    <2> HIDE DEF bad
    <2> QED
      BY <1>1, <2>1, LeastSubset
  <1>3. PICK x \in U : Sum(U) # F[x] + Sum(U \ {x})
    BY <1>2
  <1>4. U \in SUBSET S /\ IsFiniteSet(U) /\ U # {}
    BY <1>3, FS_Subset
  <1> DEFINE c == Pick(U)
  <1>5. c \in U
    BY <1>4, PickIn
  <1>6. Sum(U) = F[c] + Sum(U \ {c})
    <2> HIDE DEF bad
    <2> QED
      BY <1>4, SumOfSome
  <1>7. c # x
    BY <1>3, <1>6
  <1> HIDE DEF c
  <1>8. U \ {c} \notin bad /\ U \ {x} \notin bad
    BY <1>2, <1>3, <1>5
  <1>9. Sum(U \ {c}) = F[x] + Sum((U \ {c}) \ {x}) /\ Sum(U \ {x}) = F[c] + Sum((U \ {x}) \ {c})
    BY <1>3, <1>4, <1>5, <1>7, <1>8
  <1>10. (U \ {c}) \ {x} = (U \ {x}) \ {c}
    OBVIOUS
  <1>11. Sum((U \ {c}) \ {x}) \in Int
    <2>1. IsFiniteSet((U \ {c}) \ {x}) /\ \A y \in (U \ {c}) \ {x} : F[y] \in Int
      BY <1>4, FS_RemoveElement
    <2> QED
      BY <2>1, SumIsInteger
  <1>12. F[c] \in Int /\ F[x] \in Int
    BY <1>3, <1>4, <1>5
  <1> HIDE DEF Sum
  <1> QED
    BY <1>3, <1>6, <1>9, <1>10, <1>11, <1>12

LEMMA SumPutsIn ==
    ASSUME NEW F, NEW S, IsFiniteSet(S), NEW e, e \notin S, \A x \in S \cup {e} : F[x] \in Int
    PROVE  SumFunctionOnSet(F, S \cup {e}) = SumFunctionOnSet(F, S) + F[e]
  <1>1. IsFiniteSet(S \cup {e}) /\ (S \cup {e}) \ {e} = S /\ e \in S \cup {e}
    BY FS_AddElement
  <1>2. SumFunctionOnSet(F, S \cup {e}) = F[e] + SumFunctionOnSet(F, (S \cup {e}) \ {e})
    <2> DEFINE T == S \cup {e}
    <2> HIDE DEF T
    <2>1. IsFiniteSet(T) /\ e \in T /\ \A x \in T : F[x] \in Int
      BY <1>1 DEF T
    <2>2. SumFunctionOnSet(F, T) = F[e] + SumFunctionOnSet(F, T \ {e})
      BY <2>1, SumTakesOut
    <2> QED
      BY <2>2 DEF T
  <1>3. SumFunctionOnSet(F, S) \in Int /\ F[e] \in Int
    BY SumIsInteger
  <1>4. SumFunctionOnSet(F, (S \cup {e}) \ {e}) = SumFunctionOnSet(F, S)
    BY <1>1
  <1> QED
    BY <1>2, <1>3, <1>4

(* Sums of what is nowhere less. *)
LEMMA SumOfLess ==
    ASSUME NEW F, NEW G, NEW S, IsFiniteSet(S),
           \A x \in S : F[x] \in Int /\ G[x] \in Int /\ F[x] <= G[x]
    PROVE  SumFunctionOnSet(F, S) <= SumFunctionOnSet(G, S)
  <1> DEFINE bad == {U \in SUBSET S : ~(SumFunctionOnSet(F, U) <= SumFunctionOnSet(G, U))}
  <1>1. SUFFICES ASSUME bad # {}
                 PROVE  FALSE
    OBVIOUS
  <1>2. PICK U \in bad : \A V \in bad : V \subseteq U => V = U
    <2>1. bad \in SUBSET SUBSET S
      OBVIOUS
    <2> HIDE DEF bad
    <2> QED
      BY <1>1, <2>1, LeastSubset
  <1>3. U \in SUBSET S /\ IsFiniteSet(U)
    BY FS_Subset
  <1>4. U # {}
    <2>1. ASSUME U = {}
          PROVE  SumFunctionOnSet(F, U) = 0 /\ SumFunctionOnSet(G, U) = 0
      <3>1. SumFunctionOnSet(F, {}) = 0
        BY SumOfNone
      <3>2. SumFunctionOnSet(G, {}) = 0
        BY SumOfNone
      <3> QED
        BY <2>1, <3>1, <3>2
    <2> QED
      BY <1>2, <2>1
  <1>5. PICK e : e \in U
    BY <1>4
  <1>6. /\ SumFunctionOnSet(F, U) = F[e] + SumFunctionOnSet(F, U \ {e})
        /\ SumFunctionOnSet(G, U) = G[e] + SumFunctionOnSet(G, U \ {e})
    <2>1. \A x \in U : F[x] \in Int /\ G[x] \in Int
      BY <1>3
    <2> HIDE DEF bad
    <2>2. SumFunctionOnSet(F, U) = F[e] + SumFunctionOnSet(F, U \ {e})
      BY <1>3, <1>5, <2>1, SumTakesOut
    <2>3. SumFunctionOnSet(G, U) = G[e] + SumFunctionOnSet(G, U \ {e})
      BY <1>3, <1>5, <2>1, SumTakesOut
    <2> QED
      BY <2>2, <2>3
  <1>7. SumFunctionOnSet(F, U \ {e}) <= SumFunctionOnSet(G, U \ {e})
    BY <1>2, <1>3, <1>5
  <1>8. SumFunctionOnSet(F, U \ {e}) \in Int /\ SumFunctionOnSet(G, U \ {e}) \in Int
    <2>1. IsFiniteSet(U \ {e}) /\ \A x \in U \ {e} : F[x] \in Int /\ G[x] \in Int
      BY <1>3, FS_RemoveElement
    <2> QED
      BY <2>1, SumIsInteger
  <1>9. F[e] \in Int /\ G[e] \in Int /\ F[e] <= G[e]
    BY <1>3, <1>5
  <1>10. SumFunctionOnSet(F, U) <= SumFunctionOnSet(G, U)
    <2> HIDE DEF bad
    <2> QED
      BY <1>6, <1>7, <1>8, <1>9
  <1> QED
    BY <1>2, <1>10

LEMMA SumOfSame ==
    ASSUME NEW F, NEW G, NEW S, IsFiniteSet(S),
           \A x \in S : F[x] \in Int /\ F[x] = G[x]
    PROVE  SumFunctionOnSet(F, S) = SumFunctionOnSet(G, S)
  <1>1. SumFunctionOnSet(F, S) <= SumFunctionOnSet(G, S) /\ SumFunctionOnSet(G, S) <= SumFunctionOnSet(F, S)
    BY SumOfLess
  <1>2. SumFunctionOnSet(F, S) \in Int /\ SumFunctionOnSet(G, S) \in Int
    BY SumIsInteger
  <1> QED
    BY <1>1, <1>2

(* What adds nothing may be left out. *)
LEMMA SumLeavesOut ==
    ASSUME NEW F, NEW S, IsFiniteSet(S), NEW T \in SUBSET S,
           \A x \in S : F[x] \in Int, \A x \in S \ T : F[x] = 0
    PROVE  SumFunctionOnSet(F, S) = SumFunctionOnSet(F, T)
  <1> DEFINE bad == {U \in SUBSET S : T \subseteq U /\ SumFunctionOnSet(F, U) # SumFunctionOnSet(F, T)}
  <1>1. SUFFICES ASSUME bad # {}
                 PROVE  FALSE
    OBVIOUS
  <1>2. PICK U \in bad : \A V \in bad : V \subseteq U => V = U
    <2>1. bad \in SUBSET SUBSET S
      OBVIOUS
    <2> HIDE DEF bad
    <2> QED
      BY <1>1, <2>1, LeastSubset
  <1>3. U \in SUBSET S /\ T \subseteq U /\ IsFiniteSet(U) /\ SumFunctionOnSet(F, U) # SumFunctionOnSet(F, T)
    BY FS_Subset
  <1>4. PICK e : e \in U \ T
    BY <1>3
  <1>5. U \ {e} \notin bad
    BY <1>2, <1>4
  <1>6. SumFunctionOnSet(F, U \ {e}) = SumFunctionOnSet(F, T)
    BY <1>3, <1>4, <1>5
  <1> HIDE DEF bad
  <1>7. SumFunctionOnSet(F, U) = F[e] + SumFunctionOnSet(F, U \ {e})
    BY <1>3, <1>4, SumTakesOut
  <1>8. F[e] = 0 /\ SumFunctionOnSet(F, U \ {e}) \in Int
    <2>1. IsFiniteSet(U \ {e}) /\ \A x \in U \ {e} : F[x] \in Int
      BY <1>3, FS_RemoveElement
    <2> QED
      BY <1>3, <1>4, <2>1, SumIsInteger
  <1> QED
    BY <1>3, <1>6, <1>7, <1>8

LEMMA SumOfTwo ==
    ASSUME NEW F, NEW S, NEW T, IsFiniteSet(S), IsFiniteSet(T), S \cap T = {},
           \A x \in S \cup T : F[x] \in Int
    PROVE  SumFunctionOnSet(F, S \cup T) = SumFunctionOnSet(F, S) + SumFunctionOnSet(F, T)
  <1> DEFINE Sum(U) == SumFunctionOnSet(F, U)
             bad == {U \in SUBSET T : Sum(S \cup U) # Sum(S) + Sum(U)}
  <1>1. SUFFICES ASSUME bad # {}
                 PROVE  FALSE
    BY DEF bad
  <1>2. PICK U \in bad : \A V \in bad : V \subseteq U => V = U
    <2>1. bad \in SUBSET SUBSET T
      OBVIOUS
    <2> HIDE DEF bad
    <2> QED
      BY <1>1, <2>1, LeastSubset
  <1>3. U \in SUBSET T /\ IsFiniteSet(U) /\ Sum(S \cup U) # Sum(S) + Sum(U)
    BY FS_Subset
  <1>4. Sum(S) \in Int
    BY SumIsInteger
  <1>5. U # {}
    <2>1. ASSUME U = {}
          PROVE  Sum(S \cup U) = Sum(S) + Sum(U)
      <3>1. Sum(U) = 0
        BY <2>1, SumOfNone
      <3>2. S \cup U = S
        BY <2>1
      <3>3. Sum(S \cup U) = Sum(S)
        BY <3>2
      <3> HIDE DEF Sum, bad
      <3> QED
        BY <1>4, <3>1, <3>3
    <2> QED
      BY <1>3, <2>1
  <1>6. PICK e : e \in U
    BY <1>5
  <1>7. U \ {e} \notin bad
    BY <1>2, <1>6
  <1>8. Sum(S \cup (U \ {e})) = Sum(S) + Sum(U \ {e})
    BY <1>3, <1>7
  <1>9. /\ IsFiniteSet(U \ {e}) /\ IsFiniteSet(S \cup (U \ {e}))
        /\ S \cup U = (S \cup (U \ {e})) \cup {e} /\ U = (U \ {e}) \cup {e}
        /\ e \notin S \cup (U \ {e})
    <2>1. IsFiniteSet(U \ {e})
      BY <1>3, <1>6, FS_RemoveElement
    <2>2. IsFiniteSet(S \cup (U \ {e}))
      BY <2>1, FS_Union
    <2>3. S \cup U = (S \cup (U \ {e})) \cup {e} /\ U = (U \ {e}) \cup {e}
      BY <1>6
    <2>4. e \notin S
      BY <1>3, <1>6
    <2> QED
      BY <2>1, <2>2, <2>3, <2>4
  <1>10. Sum((S \cup (U \ {e})) \cup {e}) = Sum(S \cup (U \ {e})) + F[e]
    <2> DEFINE R == S \cup (U \ {e})
    <2>1. IsFiniteSet(R) /\ e \notin R /\ \A x \in R \cup {e} : F[x] \in Int
      BY <1>3, <1>6, <1>9
    <2> HIDE DEF R, bad
    <2>2. SumFunctionOnSet(F, R \cup {e}) = SumFunctionOnSet(F, R) + F[e]
      BY <2>1, SumPutsIn
    <2> QED
      BY <2>2 DEF R
  <1>11. Sum((U \ {e}) \cup {e}) = Sum(U \ {e}) + F[e]
    <2> DEFINE R == U \ {e}
    <2>1. IsFiniteSet(R) /\ e \notin R /\ \A x \in R \cup {e} : F[x] \in Int
      BY <1>3, <1>6, <1>9
    <2> HIDE DEF R, bad
    <2>2. SumFunctionOnSet(F, R \cup {e}) = SumFunctionOnSet(F, R) + F[e]
      BY <2>1, SumPutsIn
    <2> QED
      BY <2>2 DEF R
  <1>12. Sum(U \ {e}) \in Int /\ F[e] \in Int
    <2>1. \A x \in U \ {e} : F[x] \in Int
      BY <1>3
    <2> HIDE DEF bad
    <2> QED
      BY <1>3, <1>6, <1>9, <2>1, SumIsInteger
  <1>13. Sum(S \cup U) = Sum((S \cup (U \ {e})) \cup {e}) /\ Sum(U) = Sum((U \ {e}) \cup {e})
    BY <1>9
  <1> HIDE DEF Sum, bad
  <1> QED
    BY <1>3, <1>4, <1>8, <1>10, <1>11, <1>12, <1>13

LEMMA SumIsNatural ==
    ASSUME NEW F, NEW S, IsFiniteSet(S), \A x \in S : F[x] \in Nat
    PROVE  SumFunctionOnSet(F, S) \in Nat
  <1> DEFINE G == [x \in S |-> 0]
  <1>1. \A x \in S : G[x] \in Int /\ F[x] \in Int /\ G[x] <= F[x]
    OBVIOUS
  <1>2. SumFunctionOnSet(G, S) <= SumFunctionOnSet(F, S)
    <2> HIDE DEF G
    <2> QED
      BY <1>1, SumOfLess
  <1>3. SumFunctionOnSet(G, S) = SumFunctionOnSet(G, {})
    <2>1. {} \in SUBSET S /\ \A x \in S : G[x] \in Int /\ \A y \in S \ {} : G[y] = 0
      OBVIOUS
    <2> HIDE DEF G
    <2> QED
      BY <2>1, SumLeavesOut
  <1>4. SumFunctionOnSet(G, {}) = 0
    BY SumOfNone
  <1>5. SumFunctionOnSet(F, S) \in Int
    BY SumIsInteger
  <1> HIDE DEF G
  <1> QED
    BY <1>2, <1>3, <1>4, <1>5

(* More of what is nowhere negative. *)
LEMMA SumOfMore ==
    ASSUME NEW F, NEW S, NEW T, IsFiniteSet(T), S \subseteq T, \A x \in T : F[x] \in Nat
    PROVE  /\ SumFunctionOnSet(F, S) \in Nat /\ SumFunctionOnSet(F, T) \in Nat
           /\ SumFunctionOnSet(F, S) <= SumFunctionOnSet(F, T)
  <1> DEFINE U == T \ S
  <1>1. IsFiniteSet(S) /\ IsFiniteSet(U) /\ S \cap U = {} /\ S \cup U = T
    <2>1. IsFiniteSet(S) /\ IsFiniteSet(U)
      BY FS_Subset
    <2> QED
      BY <2>1
  <1>2. (\A x \in S : F[x] \in Nat) /\ (\A x \in U : F[x] \in Nat) /\ (\A x \in S \cup U : F[x] \in Int)
    OBVIOUS
  <1> HIDE DEF U
  <1>3. SumFunctionOnSet(F, S) \in Nat /\ SumFunctionOnSet(F, U) \in Nat
    BY <1>1, <1>2, SumIsNatural
  <1>4. SumFunctionOnSet(F, S \cup U) = SumFunctionOnSet(F, S) + SumFunctionOnSet(F, U)
    BY <1>1, <1>2, SumOfTwo
  <1>5. SumFunctionOnSet(F, T) = SumFunctionOnSet(F, S) + SumFunctionOnSet(F, U)
    BY <1>1, <1>4
  <1> QED
    BY <1>3, <1>5

LEMMA SumOfZero ==
    ASSUME NEW F, NEW S, IsFiniteSet(S), \A x \in S : F[x] = 0
    PROVE  SumFunctionOnSet(F, S) = 0
  <1>1. {} \in SUBSET S /\ (\A x \in S : F[x] \in Int) /\ (\A x \in S \ {} : F[x] = 0)
    OBVIOUS
  <1>2. SumFunctionOnSet(F, S) = SumFunctionOnSet(F, {})
    BY <1>1, SumLeavesOut
  <1> QED
    BY <1>2, SumOfNone

(* Two functions are summed element by element. *)
LEMMA SumOfBoth ==
    ASSUME NEW F, NEW G, NEW H, NEW S, IsFiniteSet(S),
           \A x \in S : F[x] \in Int /\ G[x] \in Int /\ H[x] = F[x] + G[x]
    PROVE  SumFunctionOnSet(H, S) = SumFunctionOnSet(F, S) + SumFunctionOnSet(G, S)
  <1> DEFINE bad == {U \in SUBSET S : SumFunctionOnSet(H, U) # SumFunctionOnSet(F, U) + SumFunctionOnSet(G, U)}
  <1>1. SUFFICES ASSUME bad # {}
                 PROVE  FALSE
    OBVIOUS
  <1>2. PICK U \in bad : \A V \in bad : V \subseteq U => V = U
    <2>1. bad \in SUBSET SUBSET S
      OBVIOUS
    <2> HIDE DEF bad
    <2> QED
      BY <1>1, <2>1, LeastSubset
  <1>3. /\ U \in SUBSET S /\ IsFiniteSet(U)
        /\ SumFunctionOnSet(H, U) # SumFunctionOnSet(F, U) + SumFunctionOnSet(G, U)
    BY FS_Subset
  <1>4. U # {}
    <2>1. ASSUME U = {}
          PROVE  /\ SumFunctionOnSet(F, U) = 0 /\ SumFunctionOnSet(G, U) = 0
                 /\ SumFunctionOnSet(H, U) = 0
      BY <2>1, SumOfNone
    <2> QED
      BY <1>3, <2>1
  <1>5. PICK e : e \in U
    BY <1>4
  <1> DEFINE V == U \ {e}
  <1>6. V \notin bad /\ V \in SUBSET S
    BY <1>2, <1>3, <1>5
  <1>7. SumFunctionOnSet(H, V) = SumFunctionOnSet(F, V) + SumFunctionOnSet(G, V)
    BY <1>6
  <1>8. IsFiniteSet(V) /\ (\A x \in V : F[x] \in Int) /\ (\A x \in V : G[x] \in Int)
    BY <1>3, FS_RemoveElement
  <1>9. /\ \A x \in U : F[x] \in Int
        /\ \A x \in U : G[x] \in Int
        /\ \A x \in U : H[x] \in Int
        /\ H[e] = F[e] + G[e] /\ F[e] \in Int /\ G[e] \in Int
    BY <1>3, <1>5
  <1> HIDE DEF bad
  <1>10. /\ SumFunctionOnSet(F, U) = F[e] + SumFunctionOnSet(F, V)
         /\ SumFunctionOnSet(G, U) = G[e] + SumFunctionOnSet(G, V)
         /\ SumFunctionOnSet(H, U) = H[e] + SumFunctionOnSet(H, V)
    BY <1>3, <1>5, <1>9, SumTakesOut
  <1> HIDE DEF V
  <1>11. SumFunctionOnSet(F, V) \in Int /\ SumFunctionOnSet(G, V) \in Int
    BY <1>8, SumIsInteger
  <1> QED
    BY <1>3, <1>7, <1>9, <1>10, <1>11

LEMMA SumOfNegative ==
    ASSUME NEW F, NEW G, NEW S, IsFiniteSet(S), \A x \in S : F[x] \in Int /\ G[x] = -F[x]
    PROVE  SumFunctionOnSet(G, S) = -SumFunctionOnSet(F, S)
  <1> DEFINE Z == [x \in S |-> 0]
  <1>1. \A x \in S : F[x] \in Int /\ G[x] \in Int /\ Z[x] = F[x] + G[x] /\ Z[x] = 0
    OBVIOUS
  <1>2. (\A x \in S : F[x] \in Int) /\ (\A x \in S : G[x] \in Int)
    BY <1>1
  <1> HIDE DEF Z
  <1>3. SumFunctionOnSet(Z, S) = SumFunctionOnSet(F, S) + SumFunctionOnSet(G, S)
    BY <1>1, SumOfBoth
  <1>4. SumFunctionOnSet(Z, S) = 0
    BY <1>1, SumOfZero
  <1>5. SumFunctionOnSet(F, S) \in Int /\ SumFunctionOnSet(G, S) \in Int
    BY <1>2, SumIsInteger
  <1> QED
    BY <1>3, <1>4, <1>5

(* One element changes. *)
LEMMA SumOfChanged ==
    ASSUME NEW F, NEW G, NEW S, IsFiniteSet(S), NEW e \in S,
           \A x \in S : F[x] \in Int /\ G[x] \in Int, \A x \in S \ {e} : F[x] = G[x]
    PROVE  SumFunctionOnSet(G, S) = SumFunctionOnSet(F, S) + (G[e] - F[e])
  <1> DEFINE V == S \ {e}
  <1>1. /\ IsFiniteSet(V) /\ \A x \in V : F[x] \in Int /\ F[x] = G[x]
        /\ \A x \in V : F[x] \in Int
    BY FS_RemoveElement
  <1>2. (\A x \in S : F[x] \in Int) /\ (\A x \in S : G[x] \in Int) /\ F[e] \in Int /\ G[e] \in Int
    OBVIOUS
  <1>3. /\ SumFunctionOnSet(F, S) = F[e] + SumFunctionOnSet(F, V)
        /\ SumFunctionOnSet(G, S) = G[e] + SumFunctionOnSet(G, V)
    BY <1>2, SumTakesOut
  <1> HIDE DEF V
  <1>4. SumFunctionOnSet(F, V) = SumFunctionOnSet(G, V) /\ SumFunctionOnSet(F, V) \in Int
    BY <1>1, SumOfSame, SumIsInteger
  <1> QED
    BY <1>2, <1>3, <1>4

LEMMA SumIsMultiple ==
    ASSUME NEW F, NEW S, IsFiniteSet(S), NEW lot \in Int, \A x \in S : \E k \in Int : F[x] = lot * k
    PROVE  \E k \in Int : SumFunctionOnSet(F, S) = lot * k
  <1> DEFINE bad == {U \in SUBSET S : ~\E k \in Int : SumFunctionOnSet(F, U) = lot * k}
  <1>1. SUFFICES ASSUME bad # {}
                 PROVE  FALSE
    OBVIOUS
  <1>2. PICK U \in bad : \A V \in bad : V \subseteq U => V = U
    <2>1. bad \in SUBSET SUBSET S
      OBVIOUS
    <2> HIDE DEF bad
    <2> QED
      BY <1>1, <2>1, LeastSubset
  <1>3. U \in SUBSET S /\ IsFiniteSet(U) /\ ~\E k \in Int : SumFunctionOnSet(F, U) = lot * k
    BY FS_Subset
  <1>4. U # {}
    <2>1. ASSUME U = {}
          PROVE  SumFunctionOnSet(F, U) = lot * 0
      BY <2>1, SumOfNone
    <2> QED
      BY <1>3, <2>1
  <1>5. PICK e : e \in U
    BY <1>4
  <1> DEFINE V == U \ {e}
  <1>6. V \notin bad /\ V \in SUBSET S
    BY <1>2, <1>3, <1>5
  <1>7. PICK j \in Int : SumFunctionOnSet(F, V) = lot * j
    BY <1>6
  <1>8. PICK i \in Int : F[e] = lot * i
    BY <1>3, <1>5
  <1>9. \A x \in U : F[x] \in Int
    BY <1>3
  <1> HIDE DEF bad
  <1>10. SumFunctionOnSet(F, U) = F[e] + SumFunctionOnSet(F, V)
    BY <1>3, <1>5, <1>9, SumTakesOut
  <1> HIDE DEF V
  <1>11. lot * i + lot * j = lot * (i + j) /\ i + j \in Int
    OBVIOUS
  <1>12. SumFunctionOnSet(F, U) = lot * (i + j)
    BY <1>7, <1>8, <1>10, <1>11
  <1> QED
    BY <1>3, <1>11, <1>12

(* The same terms under other indices. *)
LEMMA SumShifts ==
    ASSUME NEW F, NEW G, NEW m \in Int, NEW n \in Nat,
           \A i \in 1..n : G[i] = F[i + m] /\ F[i + m] \in Int
    PROVE  SumFunctionOnSet(G, 1..n) = SumFunctionOnSet(F, (m + 1)..(m + n))
  <1> DEFINE bad == {k \in 0..n : SumFunctionOnSet(G, 1..k) # SumFunctionOnSet(F, (m + 1)..(m + k))}
  <1>1. SUFFICES ASSUME bad # {}
                 PROVE  FALSE
    <2>1. n \in 0..n
      OBVIOUS
    <2> QED
      BY <2>1
  <1>2. PICK k \in bad : \A j \in bad : k <= j
    <2>1. bad \in SUBSET Nat
      OBVIOUS
    <2> HIDE DEF bad
    <2> QED
      BY <1>1, <2>1, LeastNumber
  <1>3. k \in 0..n /\ SumFunctionOnSet(G, 1..k) # SumFunctionOnSet(F, (m + 1)..(m + k))
    OBVIOUS
  <1>4. k # 0
    <2>1. ASSUME k = 0
          PROVE  1..k = {} /\ (m + 1)..(m + k) = {}
      BY <2>1
    <2>2. ASSUME k = 0
          PROVE  SumFunctionOnSet(G, 1..k) = SumFunctionOnSet(F, (m + 1)..(m + k))
      <3> DEFINE I == 1..k
                 J == (m + 1)..(m + k)
      <3>1. I = {} /\ J = {}
        BY <2>1, <2>2
      <3> HIDE DEF I, J
      <3>2. SumFunctionOnSet(G, I) = 0 /\ SumFunctionOnSet(F, J) = 0
        BY <3>1, SumOfNone
      <3> QED
        BY <3>2 DEF I, J
    <2> QED
      BY <1>3, <2>2
  <1>5. k - 1 \in 0..n /\ ~(k <= k - 1)
    BY <1>3, <1>4
  <1>6. k - 1 \notin bad
    BY <1>2, <1>5
  <1>7. SumFunctionOnSet(G, 1..(k - 1)) = SumFunctionOnSet(F, (m + 1)..(m + (k - 1)))
    BY <1>5, <1>6
  <1> HIDE DEF bad
  <1>8. /\ k \in 1..k /\ (1..k) \ {k} = 1..(k - 1)
        /\ m + k \in (m + 1)..(m + k) /\ ((m + 1)..(m + k)) \ {m + k} = (m + 1)..(m + (k - 1))
    BY <1>3, <1>4
  <1> DEFINE I == 1..k
             J == (m + 1)..(m + k)
             IBut == 1..(k - 1)
             JBut == (m + 1)..(m + (k - 1))
  <1>9. IsFiniteSet(I) /\ IsFiniteSet(J)
    BY <1>3, FS_Interval
  <1>10. \A i \in 1..k : G[i] \in Int
    BY <1>3
  <1>11. \A x \in (m + 1)..(m + k) : F[x] \in Int
    <2> SUFFICES ASSUME NEW x \in (m + 1)..(m + k)
                 PROVE  F[x] \in Int
      OBVIOUS
    <2>1. x - m \in 1..n /\ (x - m) + m = x
      BY <1>3
    <2> QED
      BY <2>1
  <1>12. SumFunctionOnSet(G, I) = G[k] + SumFunctionOnSet(G, IBut)
    <2>1. k \in I /\ I \ {k} = IBut /\ \A i \in I : G[i] \in Int
      BY <1>8, <1>10
    <2> HIDE DEF I, IBut
    <2> QED
      BY <1>9, <2>1, SumTakesOut
  <1>13. SumFunctionOnSet(F, J) = F[m + k] + SumFunctionOnSet(F, JBut)
    <2>1. m + k \in J /\ J \ {m + k} = JBut /\ \A x \in J : F[x] \in Int
      BY <1>8, <1>11
    <2> HIDE DEF J, JBut
    <2> QED
      BY <1>9, <2>1, SumTakesOut
  <1>14. G[k] = F[m + k]
    <2>1. k \in 1..n /\ k + m = m + k
      BY <1>3, <1>4
    <2> QED
      BY <2>1
  <1> QED
    BY <1>3, <1>7, <1>12, <1>13, <1>14

-----------------------------------------------------------------------------
(* Losses.                                                                 *)

Readings == [date : Nat, equity : Int]

MoneyTypes ==
    /\ tripped \in BOOLEAN /\ spoiled \in BOOLEAN
    /\ equity \in Int /\ date \in Nat
    /\ snapshot \subseteq Int /\ \A x, y \in snapshot : x = y
    /\ pnl.realized \in Int /\ pnl.marked \in Int
    /\ pnl = [realized |-> pnl.realized, marked |-> pnl.marked]
    /\ baseline \subseteq Readings /\ first \subseteq Readings
    /\ file \subseteq Readings \/ file = Torn

(* What is left of a day is never half a file. *)
LEMMA TornIsNoReading == ~(Torn \subseteq Readings)
  <1>1. [date |-> -1, equity |-> 0] \in Torn
    BY DEF Torn
  <1>2. [date |-> -1, equity |-> 0] \notin Readings
    BY DEF Readings
  <1> QED
    BY <1>1, <1>2

LEMMA MoneyInitTypes ==
    ASSUME MoneyInit
    PROVE  /\ MoneyTypes /\ TheBaselineIsTheFirst
           /\ \A limits : limits.session \in Nat => JudgedLossesTrip(limits)
  <1>1. MoneyTypes
    <2>1. /\ tripped = FALSE /\ spoiled = FALSE /\ equity = 0 /\ date = 1 /\ snapshot = {}
          /\ pnl = [realized |-> 0, marked |-> 0] /\ baseline = {} /\ first = {} /\ file = {}
      BY DEF MoneyInit
    <2>2. tripped \in BOOLEAN /\ spoiled \in BOOLEAN
      BY <2>1
    <2>3. /\ pnl.realized \in Int /\ pnl.marked \in Int
          /\ pnl = [realized |-> pnl.realized, marked |-> pnl.marked]
      BY <2>1
    <2> QED
      BY <2>1, <2>2, <2>3 DEF MoneyTypes
  <1>2. TheBaselineIsTheFirst
    BY DEF MoneyInit, TheBaselineIsTheFirst
  <1>3. ASSUME NEW limits, limits.session \in Nat
        PROVE  JudgedLossesTrip(limits)
    BY <1>3 DEF MoneyInit, JudgedLossesTrip
  <1> QED
    BY <1>1, <1>2, <1>3

(* Steps that judge nothing leave the verdict alone, unless the calendar
   steps back. *)
LEMMA VerdictStands ==
    ASSUME NEW limits, JudgedLossesTrip(limits),
           UNCHANGED <<tripped, first, judged>>, spoiled => spoiled'
    PROVE  JudgedLossesTrip(limits)'
  BY DEF JudgedLossesTrip

LEMMA MoneyMovesKeeps ==
    ASSUME MoneyTypes, TheBaselineIsTheFirst, NEW amount \in Int, NEW kind \in {"realized", "marked"},
           MoneyMoves(amount, kind)
    PROVE  MoneyTypes' /\ TheBaselineIsTheFirst' /\ UNCHANGED <<tripped, first, judged, spoiled>>
  <1>1. /\ equity' = equity + amount /\ pnl' = [pnl EXCEPT ![kind] = @ + amount]
        /\ UNCHANGED <<tripped, snapshot, date, file, baseline, first, judged, spoiled>>
    BY DEF MoneyMoves
  <1>2. equity' \in Int
    BY <1>1 DEF MoneyTypes
  <1>3. /\ pnl'.realized \in Int /\ pnl'.marked \in Int
        /\ pnl' = [realized |-> pnl'.realized, marked |-> pnl'.marked]
    <2>1. CASE kind = "realized"
      <3>1. pnl' = [realized |-> pnl.realized + amount, marked |-> pnl.marked]
        BY <1>1, <2>1 DEF MoneyTypes
      <3> QED
        BY <3>1 DEF MoneyTypes
    <2>2. CASE kind = "marked"
      <3>1. pnl' = [realized |-> pnl.realized, marked |-> pnl.marked + amount]
        BY <1>1, <2>2 DEF MoneyTypes
      <3> QED
        BY <3>1 DEF MoneyTypes
    <2> QED
      BY <2>1, <2>2
  <1>4. TheBaselineIsTheFirst'
    BY <1>1 DEF TheBaselineIsTheFirst
  <1> QED
    BY <1>1, <1>2, <1>3, <1>4 DEF MoneyTypes

LEMMA AccountReadKeeps ==
    ASSUME MoneyTypes, TheBaselineIsTheFirst, AccountRead
    PROVE  MoneyTypes' /\ TheBaselineIsTheFirst' /\ UNCHANGED <<tripped, first, judged, spoiled>>
  BY DEF MoneyTypes, TheBaselineIsTheFirst, AccountRead

(* No reading is of the day that begins. *)
LEMMA DayTurnsKeeps ==
    ASSUME MoneyTypes, TheBaselineIsTheFirst, NEW to \in {date - 1, date + 1} \cap Nat, DayTurns(to)
    PROVE  /\ MoneyTypes' /\ TheBaselineIsTheFirst' /\ UNCHANGED <<tripped, first, judged>>
           /\ spoiled => spoiled'
  <1>1. /\ date' = to /\ spoiled' = (spoiled \/ to < date)
        /\ UNCHANGED <<tripped, equity, snapshot, pnl, file, baseline, first, judged>>
    BY DEF DayTurns
  <1>2. MoneyTypes'
    BY <1>1 DEF MoneyTypes
  <1>3. TheBaselineIsTheFirst'
    <2> SUFFICES ASSUME ~spoiled'
                 PROVE  /\ file = baseline
                        /\ \A r \in first \cup baseline :
                            r.date <= to /\ (r.date = to => r \in first \cap baseline)
      BY <1>1 DEF TheBaselineIsTheFirst
    <2>1. ~spoiled /\ ~(to < date) /\ date \in Nat
      BY <1>1 DEF MoneyTypes
    <2>2. to = date + 1
      BY <2>1
    <2>3. file = baseline /\ \A r \in first \cup baseline : r.date <= date
      BY <2>1 DEF TheBaselineIsTheFirst
    <2>4. \A r \in first \cup baseline : r.date \in Nat
      BY DEF MoneyTypes, Readings
    <2> QED
      BY <2>1, <2>2, <2>3, <2>4
  <1> QED
    BY <1>1, <1>2, <1>3

(* The judgement of a reading: the baseline it leaves, and the loss it finds. *)
LEMMA BaselineOfADay ==
    ASSUME MoneyTypes, NEW eq \in Int
    PROVE  /\ BaselineAt(eq) \subseteq Readings
           /\ \/ /\ \E b \in baseline : b.date = date
                 /\ BaselineAt(eq) = {b \in baseline : b.date = date}
              \/ /\ \A b \in baseline : b.date # date
                 /\ BaselineAt(eq) = {[date |-> date, equity |-> eq]}
           /\ \A b \in baseline : b.date = date => b.equity - eq \in DayLoss(eq)
           /\ DayLoss(eq) \subseteq Int
  <1>1. [date |-> date, equity |-> eq] \in Readings
    BY DEF MoneyTypes, Readings
  <1>2. \A b \in baseline : b.equity \in Int
    BY DEF MoneyTypes, Readings
  <1>3. DayLoss(eq) \subseteq Int /\ \A b \in baseline : b.date = date => b.equity - eq \in DayLoss(eq)
    BY <1>2 DEF DayLoss
  <1> QED
    BY <1>1, <1>3 DEF BaselineAt, MoneyTypes

LEMMA JudgeLossKeeps ==
    ASSUME MoneyTypes, TheBaselineIsTheFirst, NEW limits, NEW priced \in BOOLEAN,
           NEW disk \in {"written", "kept", "torn"},
           limits.session \in Nat, limits.day \in Nat, JudgeLoss(limits, priced, disk)
    PROVE  MoneyTypes' /\ TheBaselineIsTheFirst' /\ JudgedLossesTrip(limits)'
  <1> DEFINE net == IF priced THEN {pnl.realized + pnl.marked} ELSE {}
             loss == UNION {DayLoss(eq) : eq \in snapshot}
             now == pnl.realized + (IF priced THEN pnl.marked ELSE 0)
  <1>1. /\ tripped' = (tripped \/ Breaches(limits, net, pnl.realized, loss))
        /\ judged' = {[date |-> date, equity |-> snapshot, session |-> now]}
        /\ UNCHANGED <<equity, snapshot, pnl, date>>
    BY DEF JudgeLoss
  <1>2. ASSUME ~tripped', limits.session > 0
        PROVE  now >= -limits.session
    <2>1. \A figure \in IF net = {} THEN {pnl.realized} ELSE net : ~(figure < -limits.session)
      BY <1>1, <1>2 DEF Breaches
    <2>2. now \in IF net = {} THEN {pnl.realized} ELSE net
      BY DEF MoneyTypes
    <2>3. now \in Int
      BY DEF MoneyTypes
    <2> HIDE DEF now, net
    <2> QED
      BY <2>1, <2>2, <2>3
  <1>3. ASSUME ~tripped', limits.day > 0, NEW eq \in snapshot, NEW l \in DayLoss(eq)
        PROVE  l <= limits.day
    <2>1. l \in loss
      BY <1>3
    <2>2. ~(l > limits.day)
      BY <1>1, <1>3, <2>1 DEF Breaches
    <2>3. l \in Int
      BY <1>3, BaselineOfADay DEF MoneyTypes
    <2> QED
      BY <2>2, <2>3
  <1> HIDE DEF net, loss, now
  <1>4. CASE snapshot = {}
    <2>1. UNCHANGED <<file, spoiled, baseline, first>>
      BY <1>4 DEF JudgeLoss
    <2>2. MoneyTypes'
      BY <1>1, <2>1 DEF MoneyTypes
    <2>3. TheBaselineIsTheFirst'
      BY <1>1, <2>1 DEF TheBaselineIsTheFirst
    <2>4. JudgedLossesTrip(limits)'
      BY <1>1, <1>2, <1>4 DEF JudgedLossesTrip
    <2> QED
      BY <2>2, <2>3, <2>4
  <1>5. CASE snapshot # {}
    <2>1. PICK eq \in snapshot : Persist(eq, disk) /\ baseline' = BaselineAt(eq)
      BY <1>5 DEF JudgeLoss
    <2> DEFINE dated == [date |-> date, equity |-> eq]
    <2>2. snapshot = {eq} /\ eq \in Int /\ dated \in Readings
      BY <2>1 DEF MoneyTypes, Readings
    <2>3. first' = IF \E f \in first : f.date = date THEN first ELSE {dated}
      BY <1>5, <2>2 DEF JudgeLoss
    <2>4. /\ spoiled' \in BOOLEAN /\ (spoiled => spoiled')
          /\ \/ BaselineAt(eq) = baseline /\ file' = file /\ spoiled' = spoiled
             \/ /\ BaselineAt(eq) # baseline
                /\ spoiled' = (spoiled \/ disk # "written")
                /\ file' = IF disk = "kept" THEN file
                           ELSE IF disk = "torn" THEN Torn ELSE BaselineAt(eq)
      BY <2>1 DEF Persist, MoneyTypes
    <2>5. BaselineAt(eq) \subseteq Readings
      BY <2>2, BaselineOfADay
    <2>6. dated.date = date /\ dated.equity = eq
      OBVIOUS
    <2> HIDE DEF dated
    <2>7. MoneyTypes'
      <3>1. baseline' \subseteq Readings /\ first' \subseteq Readings
        BY <2>1, <2>2, <2>3, <2>5 DEF MoneyTypes
      <3>2. file' \subseteq Readings \/ file' = Torn
        BY <2>4, <2>5 DEF MoneyTypes
      <3>3. tripped' \in BOOLEAN
        BY <1>1 DEF MoneyTypes
      <3> QED
        BY <1>1, <2>4, <3>1, <3>2, <3>3 DEF MoneyTypes
    <2>8. \/ /\ \E b \in baseline : b.date = date
             /\ baseline' = {b \in baseline : b.date = date}
          \/ /\ \A b \in baseline : b.date # date
             /\ baseline' = {dated}
      BY <2>1, <2>2, BaselineOfADay DEF dated
    <2>9. ASSUME ~spoiled'
          PROVE  /\ file' = baseline'
                 /\ \A r \in first' \cup baseline' :
                        r.date <= date /\ (r.date = date => r \in first' \cap baseline')
                 /\ \A f \in first' : f.date = date => f \in baseline \/ f = dated
      <3>1. /\ file = baseline
            /\ \A r \in first \cup baseline :
                r.date <= date /\ (r.date = date => r \in first \cap baseline)
        BY <2>4, <2>9 DEF TheBaselineIsTheFirst
      <3>2. file' = baseline'
        BY <2>1, <2>4, <2>9, <3>1
      <3>3. date <= date
        BY DEF MoneyTypes
      <3>4. CASE \E b \in baseline : b.date = date
        <4>1. baseline' = {b \in baseline : b.date = date} /\ first' = first
          BY <2>3, <2>8, <3>1, <3>4
        <4> QED
          BY <3>1, <3>2, <4>1
      <3>5. CASE \A b \in baseline : b.date # date
        <4>1. baseline' = {dated} /\ first' = {dated}
          BY <2>3, <2>8, <3>1, <3>5
        <4> QED
          BY <2>6, <3>2, <3>3, <4>1
      <3> QED
        BY <3>4, <3>5
    <2>10. TheBaselineIsTheFirst'
      BY <1>1, <2>9 DEF TheBaselineIsTheFirst
    <2>11. JudgedLossesTrip(limits)'
      <3>1. ASSUME ~tripped', limits.day > 0, ~spoiled', NEW f \in first', f.date = date
            PROVE  f.equity - eq <= limits.day
        <4>1. CASE f \in baseline
          BY <1>3, <2>2, <3>1, <4>1, BaselineOfADay
        <4>2. CASE f = dated
          BY <2>2, <2>6, <3>1, <4>2
        <4> QED
          BY <2>9, <3>1, <4>1, <4>2
      <3> QED
        BY <1>1, <1>2, <2>2, <3>1 DEF JudgedLossesTrip
    <2> QED
      BY <2>7, <2>10, <2>11
  <1> QED
    BY <1>4, <1>5

LEMMA MoneyRestartsKeeps ==
    ASSUME MoneyTypes, TheBaselineIsTheFirst, MoneyRestarts
    PROVE  /\ MoneyTypes' /\ TheBaselineIsTheFirst'
           /\ \A limits : JudgedLossesTrip(limits)'
  <1>1. /\ tripped' = FALSE /\ snapshot' = {} /\ pnl' = [pnl EXCEPT !.realized = 0]
        /\ baseline' = Load /\ judged' = {}
        /\ UNCHANGED <<equity, date, file, first, spoiled>>
    BY DEF MoneyRestarts
  <1>2. pnl' = [realized |-> 0, marked |-> pnl.marked]
    BY <1>1 DEF MoneyTypes
  <1>3. MoneyTypes'
    <2>1. baseline' \subseteq Readings
      BY <1>1 DEF MoneyTypes, Load
    <2>2. /\ pnl'.realized \in Int /\ pnl'.marked \in Int
          /\ pnl' = [realized |-> pnl'.realized, marked |-> pnl'.marked]
      BY <1>2 DEF MoneyTypes
    <2> QED
      BY <1>1, <2>1, <2>2 DEF MoneyTypes
  <1>4. TheBaselineIsTheFirst'
    <2>1. ASSUME ~spoiled
          PROVE  Load = baseline
      BY <2>1, TornIsNoReading DEF TheBaselineIsTheFirst, MoneyTypes, Load
    <2> QED
      BY <1>1, <2>1 DEF TheBaselineIsTheFirst
  <1> QED
    BY <1>1, <1>3, <1>4 DEF JudgedLossesTrip

(* A state the losses are judged right in. *)
LossInv ==
    /\ session \in Sessions
    /\ MoneyTypes
    /\ LossesTrip

LEMMA LossInit ==
    ASSUME Init
    PROVE  LossInv
  <1>1. session \in Sessions /\ MoneyInit
    BY DEF Init
  <1>2. session.limits.session \in Nat
    BY <1>1, SessionsAssumption DEF Starts
  <1> QED
    BY <1>1, <1>2, MoneyInitTypes DEF LossInv, LossesTrip

(* The steps that move no money. *)
LEMMA MoneyIsLeft ==
    ASSUME Next
    PROVE  \/ UNCHANGED <<session, moneyVars>>
           \/ (Swing \/ PollAccount \/ Midnight \/ StatusPass \/ Restart)
  <1>1. ASSUME NEW s \in Symbols, PlanSymbol(s) \/ MarkMoves(s)
        PROVE  UNCHANGED <<session, moneyVars>>
    BY <1>1 DEF PlanSymbol, MarkMoves
  <1>2. CASE PumpCancel \/ PumpPlace \/ PumpDone \/ PumpHears
    BY <1>2 DEF PumpCancel, PumpPlace, PumpDone, PumpHears
  <1>3. CASE VenueAccepts \/ VenueRefuses
    BY <1>3 DEF VenueAccepts, VenueRefuses
  <1>4. ASSUME NEW id, Trade(id) \/ OrderFrame(id) \/ FillFrame(id)
        PROVE  UNCHANGED <<session, moneyVars>>
    BY <1>4 DEF Trade, OrderFrame, FillFrame
  <1>5. CASE Tick \/ StepBack \/ AskBudget \/ HearBudget
    BY <1>5 DEF Tick, StepBack, AskBudget, HearBudget
  <1> QED
    BY <1>1, <1>2, <1>3, <1>4, <1>5 DEF Next

LEMMA LossNext ==
    ASSUME LossInv, [Next]_vars
    PROVE  LossInv'
  <1> DEFINE limits == session.limits
  <1>0. /\ MoneyTypes /\ TheBaselineIsTheFirst /\ JudgedLossesTrip(limits)
        /\ limits.session \in Nat /\ limits.day \in Nat /\ session.swings \subseteq Int
    BY SessionsAssumption DEF LossInv, LossesTrip, Starts
  <1> HIDE DEF limits
  <1>1. ASSUME session' = session, MoneyTypes', TheBaselineIsTheFirst', JudgedLossesTrip(limits)'
        PROVE  LossInv'
    BY <1>1 DEF LossInv, LossesTrip, limits
  <1>2. CASE UNCHANGED <<session, moneyVars>>
    <2>1. UNCHANGED <<session, tripped, equity, snapshot, pnl, date, file, baseline, first, judged,
                      spoiled>>
      BY <1>2 DEF moneyVars
    <2>2. MoneyTypes' /\ TheBaselineIsTheFirst'
      BY <1>0, <2>1 DEF MoneyTypes, TheBaselineIsTheFirst
    <2> QED
      BY <1>0, <1>1, <2>1, <2>2, VerdictStands DEF limits
  <1>3. CASE Swing
    <2>1. PICK amount \in session.swings, kind \in {"realized", "marked"} : MoneyMoves(amount, kind)
      BY <1>3 DEF Swing
    <2>2. session' = session
      BY <1>3 DEF Swing, otherVars
    <2>3. /\ MoneyTypes' /\ TheBaselineIsTheFirst' /\ UNCHANGED <<tripped, first, judged, spoiled>>
      BY <1>0, <2>1, MoneyMovesKeeps
    <2> QED
      BY <1>0, <1>1, <2>2, <2>3, VerdictStands DEF limits
  <1>4. CASE PollAccount
    <2>1. session' = session /\ AccountRead
      BY <1>4 DEF PollAccount, otherVars
    <2>2. /\ MoneyTypes' /\ TheBaselineIsTheFirst' /\ UNCHANGED <<tripped, first, judged, spoiled>>
      BY <1>0, <2>1, AccountReadKeeps
    <2> QED
      BY <1>0, <1>1, <2>1, <2>2, VerdictStands DEF limits
  <1>5. CASE Midnight
    <2>1. PICK to \in {date - 1, date + 1} \cap 1..session.days : DayTurns(to)
      BY <1>5 DEF Midnight
    <2>2. session' = session
      BY <1>5 DEF Midnight, otherVars
    <2>3. to \in {date - 1, date + 1} \cap Nat
      BY <2>1
    <2>4. /\ MoneyTypes' /\ TheBaselineIsTheFirst' /\ UNCHANGED <<tripped, first, judged>>
          /\ spoiled => spoiled'
      BY <1>0, <2>1, <2>3, DayTurnsKeeps
    <2> QED
      BY <1>0, <1>1, <2>2, <2>4, VerdictStands DEF limits
  <1>6. CASE StatusPass
    <2>1. session' = session
      BY <1>6 DEF StatusPass, otherVars
    <2>2. PICK disk \in {"written", "kept", "torn"} :
            JudgeLoss(limits, \A s \in Symbols : Seen(s) # 0 => marks[s] # Unpriced, disk)
      BY <1>6 DEF StatusPass, limits
    <2>3. (\A s \in Symbols : Seen(s) # 0 => marks[s] # Unpriced) \in BOOLEAN
      OBVIOUS
    <2>4. MoneyTypes' /\ TheBaselineIsTheFirst' /\ JudgedLossesTrip(limits)'
      <3>1. ASSUME NEW p \in BOOLEAN, JudgeLoss(limits, p, disk)
            PROVE  MoneyTypes' /\ TheBaselineIsTheFirst' /\ JudgedLossesTrip(limits)'
        BY <1>0, <2>1, <3>1, JudgeLossKeeps DEF limits
      <3> QED
        BY <2>2, <2>3, <3>1
    <2> QED
      BY <1>1, <2>1, <2>4
  <1>7. CASE Restart
    <2>1. session' = session /\ MoneyRestarts
      BY <1>7 DEF Restart, otherVars
    <2>2. MoneyTypes' /\ TheBaselineIsTheFirst' /\ JudgedLossesTrip(limits)'
      BY <1>0, <2>1, MoneyRestartsKeeps DEF limits
    <2> QED
      BY <1>1, <2>1, <2>2
  <1>8. CASE UNCHANGED vars
    BY <1>2, <1>8 DEF vars
  <1> QED
    BY <1>2, <1>3, <1>4, <1>5, <1>6, <1>7, <1>8, MoneyIsLeft

(* Once the switch has been asked about a loss beyond its limit it is thrown,
   and it is asked about the loss since the day's first reading, whatever
   restarts, midnights and dead feeds came between; for every session. *)
THEOREM LossesAreNotForgotten == Spec => []LossesTrip
  <1>1. Init => LossInv
    BY LossInit
  <1>2. LossInv /\ [Next]_vars => LossInv'
    BY LossNext
  <1>3. LossInv => LossesTrip
    BY DEF LossInv
  <1> QED
    BY <1>1, <1>2, <1>3, PTL DEF Spec

-----------------------------------------------------------------------------
(* Requests.                                                               *)

IsGovernor(g) ==
    g = [window |-> g.window, weight |-> g.weight, used |-> g.used, limit |-> g.limit,
         throttle |-> g.throttle]

(* What is charged to the window leaves the credits alone. *)
LEMMA PruneKeeps ==
    ASSUME NEW g, IsGovernor(g), NEW cfg, NEW now
    PROVE  /\ IsGovernor(Prune(g, cfg, now)) /\ Prune(g, cfg, now).used = g.used
           /\ Prune(g, cfg, now).limit = g.limit
  <1> DEFINE h == Prune(g, cfg, now)
  <1>1. PICK window, weight : h = [g EXCEPT !.window = window, !.weight = weight]
    BY DEF Prune
  <1> HIDE DEF h
  <1>2. h = [window |-> window, weight |-> weight, used |-> g.used, limit |-> g.limit,
             throttle |-> g.throttle]
    BY <1>1 DEF IsGovernor
  <1>3. IsGovernor(h) /\ h.used = g.used /\ h.limit = g.limit
    BY <1>2 DEF IsGovernor
  <1> QED
    BY <1>3 DEF h

LEMMA ChargeKeeps ==
    ASSUME NEW g, IsGovernor(g), NEW now, NEW weight
    PROVE  /\ IsGovernor(Charge(g, now, weight)) /\ Charge(g, now, weight).used = g.used
           /\ Charge(g, now, weight).limit = g.limit
  <1> DEFINE h == Charge(g, now, weight)
  <1>1. PICK window, sum : h = [g EXCEPT !.weight = sum, !.window = window]
    BY DEF Charge
  <1> HIDE DEF h
  <1>2. h = [window |-> window, weight |-> sum, used |-> g.used, limit |-> g.limit,
             throttle |-> g.throttle]
    BY <1>1 DEF IsGovernor
  <1>3. IsGovernor(h) /\ h.used = g.used /\ h.limit = g.limit
    BY <1>2 DEF IsGovernor
  <1> QED
    BY <1>3 DEF h

LEMMA AfterPlaceDoes ==
    ASSUME NEW g, IsGovernor(g), NEW cfg, NEW now
    PROVE  /\ IsGovernor(AfterPlace(g, cfg, now)) /\ AfterPlace(g, cfg, now).used = g.used + 1
           /\ AfterPlace(g, cfg, now).limit = g.limit
  <1> DEFINE c == Charge(Prune(g, cfg, now), now, 1)
  <1>1. IsGovernor(c) /\ c.used = g.used /\ c.limit = g.limit
    BY PruneKeeps, ChargeKeeps
  <1>2. AfterPlace(g, cfg, now) =
            [c EXCEPT !.used = @ + 1, !.throttle = IF @ = 0 THEN 0 ELSE now + cfg.drip]
    BY DEF AfterPlace
  <1> HIDE DEF c
  <1>3. AfterPlace(g, cfg, now) =
            [window |-> c.window, weight |-> c.weight, used |-> c.used + 1, limit |-> c.limit,
             throttle |-> IF c.throttle = 0 THEN 0 ELSE now + cfg.drip]
    BY <1>1, <1>2 DEF IsGovernor
  <1> QED
    BY <1>1, <1>3 DEF IsGovernor

LEMMA AfterCancelDoes ==
    ASSUME NEW g, IsGovernor(g), NEW cfg, NEW now
    PROVE  /\ IsGovernor(AfterCancel(g, cfg, now)) /\ AfterCancel(g, cfg, now).limit = g.limit
           /\ AfterCancel(g, cfg, now).used =
                IF AdmitsCancel(g, cfg, now) THEN g.used + 1 ELSE g.used
  <1> DEFINE c == Charge(Prune(g, cfg, now), now, 1)
  <1>1. IsGovernor(c) /\ c.used = g.used /\ c.limit = g.limit
    BY PruneKeeps, ChargeKeeps
  <1>2. CASE AdmitsCancel(g, cfg, now)
    <2>1. AfterCancel(g, cfg, now) = [c EXCEPT !.used = @ + 1]
      BY <1>2 DEF AfterCancel
    <2> HIDE DEF c
    <2>2. AfterCancel(g, cfg, now) =
            [window |-> c.window, weight |-> c.weight, used |-> c.used + 1, limit |-> c.limit,
             throttle |-> c.throttle]
      BY <1>1, <2>1 DEF IsGovernor
    <2> QED
      BY <1>1, <1>2, <2>2 DEF IsGovernor
  <1>3. CASE ~AdmitsCancel(g, cfg, now)
    BY <1>3, PruneKeeps DEF AfterCancel
  <1> QED
    BY <1>2, <1>3

LEMMA AfterInfoDoes ==
    ASSUME NEW g, IsGovernor(g), NEW cfg, NEW now, NEW weight
    PROVE  /\ IsGovernor(AfterInfo(g, cfg, now, weight))
           /\ AfterInfo(g, cfg, now, weight).used = g.used
           /\ AfterInfo(g, cfg, now, weight).limit = g.limit
  BY PruneKeeps, ChargeKeeps DEF AfterInfo

LEMMA AfterReadingDoes ==
    ASSUME NEW g, IsGovernor(g), NEW cfg, NEW now, NEW used
    PROVE  /\ IsGovernor(AfterReading(g, cfg, now, used))
           /\ AfterReading(g, cfg, now, used).used = used
           /\ AfterReading(g, cfg, now, used).limit = g.limit
  <1> DEFINE drip == IF used < g.limit THEN 0 ELSE now + cfg.drip
  <1>1. AfterReading(g, cfg, now, used) = [g EXCEPT !.used = used, !.throttle = drip]
    BY DEF AfterReading
  <1> HIDE DEF drip
  <1>2. AfterReading(g, cfg, now, used) =
            [window |-> g.window, weight |-> g.weight, used |-> used, limit |-> g.limit,
             throttle |-> drip]
    BY <1>1 DEF IsGovernor
  <1> QED
    BY <1>2 DEF IsGovernor

(* The count, what it lacks, and the venue's own. *)
BudgetInv ==
    /\ session \in Sessions
    /\ IsGovernor(gov) /\ gov.limit = session.budget.limit /\ gov.used \in Nat
    /\ spent \in Nat /\ missed.lacks \in Nat /\ missed.since \in Nat /\ reading \subseteq Nat
    /\ TheCountLagsByWhatIsMissed

LEMMA BudgetInit ==
    ASSUME Init
    PROVE  BudgetInv
  <1>1. /\ session \in Sessions /\ gov = FreshGovernor(session.budget.limit)
        /\ reading = {} /\ spent = 0 /\ missed = [lacks |-> 0, since |-> 0]
    BY DEF Init
  <1>2. IsGovernor(gov) /\ gov.limit = session.budget.limit /\ gov.used = 0
    BY <1>1 DEF FreshGovernor, IsGovernor
  <1> QED
    BY <1>1, <1>2 DEF BudgetInv, TheCountLagsByWhatIsMissed

(* A request that goes out. *)
LEMMA SendKeeps ==
    ASSUME BudgetInv, session' = session, NEW charged \in BOOLEAN, NEW after, Send(charged, after),
           IsGovernor(after), after.limit = gov.limit,
           after.used = IF charged THEN gov.used + 1 ELSE gov.used
    PROVE  BudgetInv'
  <1>1. /\ gov' = after /\ spent' = spent + 1 /\ reading' = reading
        /\ missed'.lacks = missed.lacks + (IF charged THEN 0 ELSE 1)
        /\ missed'.since = missed.since + (IF reading = {} THEN 0 ELSE 1)
    BY DEF Send
  <1>2. /\ gov.used \in Nat /\ spent \in Nat /\ missed.lacks \in Nat /\ missed.since \in Nat
        /\ reading \subseteq Nat /\ spent <= gov.used + missed.lacks
        /\ \A count \in reading : spent <= count + missed.since
    BY DEF BudgetInv, TheCountLagsByWhatIsMissed
  <1>3. gov'.used \in Nat /\ missed'.lacks \in Nat /\ spent' <= gov'.used + missed'.lacks
    <2>1. CASE charged
      BY <1>1, <1>2, <2>1
    <2>2. CASE ~charged
      BY <1>1, <1>2, <2>2
    <2> QED
      BY <2>1, <2>2
  <1>4. missed'.since \in Nat /\ \A count \in reading : spent' <= count + missed'.since
    <2>1. CASE reading = {}
      BY <1>1, <1>2, <2>1
    <2>2. CASE reading # {}
      BY <1>1, <1>2, <2>2
    <2> QED
      BY <2>1, <2>2
  <1>5. IsGovernor(gov') /\ gov'.limit = session'.budget.limit
    BY <1>1 DEF BudgetInv
  <1>6. spent' \in Nat
    BY <1>1, <1>2
  <1>7. IsGovernor(gov)'
    BY <1>5 DEF IsGovernor
  <1> QED
    BY <1>1, <1>2, <1>3, <1>4, <1>5, <1>6, <1>7 DEF BudgetInv, TheCountLagsByWhatIsMissed

LEMMA BudgetStays ==
    ASSUME BudgetInv, UNCHANGED <<session, gov, reading, spent, missed>>
    PROVE  BudgetInv'
  BY DEF BudgetInv, TheCountLagsByWhatIsMissed, IsGovernor

LEMMA BudgetNext ==
    ASSUME BudgetInv, [Next]_vars
    PROVE  BudgetInv'
  <1>0. IsGovernor(gov)
    BY DEF BudgetInv
  <1>1. ASSUME NEW s \in Symbols, PlanSymbol(s) \/ MarkMoves(s)
        PROVE  BudgetInv'
    BY <1>1, BudgetStays DEF PlanSymbol, MarkMoves, budgetVars
  <1>2. CASE PumpCancel
    <2>1. session' = session /\ CancelRequest
      BY <1>2 DEF PumpCancel
    <2>2. CASE session.paced
      <3> DEFINE charged == AdmitsCancel(gov, session.budget, clock.now)
                 after == AfterCancel(gov, session.budget, clock.now)
      <3>1. Send(charged, after)
        BY <2>1, <2>2 DEF CancelRequest
      <3>2. /\ IsGovernor(after) /\ after.limit = gov.limit
            /\ after.used = IF charged THEN gov.used + 1 ELSE gov.used
        BY <1>0, AfterCancelDoes
      <3>3. charged \in BOOLEAN
        BY DEF AdmitsCancel
      <3> HIDE DEF charged, after
      <3> QED
        BY <2>1, <3>1, <3>2, <3>3, SendKeeps
    <2>3. CASE ~session.paced
      BY <2>1, <2>3, BudgetStays DEF CancelRequest, budgetVars
    <2> QED
      BY <2>2, <2>3
  <1>3. CASE PumpPlace
    <2>1. session' = session /\ PlaceRequest
      BY <1>3 DEF PumpPlace
    <2>2. CASE session.paced
      <3> DEFINE after == AfterPlace(gov, session.budget, clock.now)
      <3>1. Send(TRUE, after)
        BY <2>1, <2>2 DEF PlaceRequest
      <3>2. IsGovernor(after) /\ after.limit = gov.limit /\ after.used = gov.used + 1
        BY <1>0, AfterPlaceDoes
      <3> HIDE DEF after
      <3> QED
        BY <2>1, <3>1, <3>2, SendKeeps
    <2>3. CASE ~session.paced
      BY <2>1, <2>3, BudgetStays DEF PlaceRequest, budgetVars
    <2> QED
      BY <2>2, <2>3
  <1>4. CASE PumpDone \/ PumpHears \/ VenueAccepts \/ VenueRefuses
    BY <1>4, BudgetStays DEF PumpDone, PumpHears, VenueAccepts, VenueRefuses, budgetVars
  <1>5. ASSUME NEW id, Trade(id) \/ OrderFrame(id) \/ FillFrame(id)
        PROVE  BudgetInv'
    BY <1>5, BudgetStays DEF Trade, OrderFrame, FillFrame, budgetVars
  <1>6. CASE Tick \/ StepBack
    BY <1>6, BudgetStays DEF Tick, StepBack, budgetVars
  <1>7. CASE AskBudget
    <2>1. /\ gov' = AfterInfo(gov, session.budget, clock.now, InfoWeight)
          /\ reading' = {spent} /\ UNCHANGED <<session, spent, missed>>
      BY <1>7 DEF AskBudget
    <2>2. IsGovernor(gov') /\ gov'.used = gov.used /\ gov'.limit = gov.limit
      BY <1>0, <2>1, AfterInfoDoes
    <2>3. IsGovernor(gov)'
      BY <2>2 DEF IsGovernor
    <2> QED
      BY <2>1, <2>2, <2>3 DEF BudgetInv, TheCountLagsByWhatIsMissed
  <1>8. CASE HearBudget
    <2>1. PICK count \in reading : gov' = AfterReading(gov, session.budget, clock.now, count)
      BY <1>8 DEF HearBudget
    <2>2. /\ reading' = {} /\ missed'.lacks = missed.since /\ missed'.since = 0
          /\ UNCHANGED <<session, spent>>
      BY <1>8 DEF HearBudget
    <2>3. IsGovernor(gov') /\ gov'.used = count /\ gov'.limit = gov.limit
      BY <1>0, <2>1, AfterReadingDoes
    <2>4. IsGovernor(gov)'
      BY <2>3 DEF IsGovernor
    <2> QED
      BY <2>1, <2>2, <2>3, <2>4 DEF BudgetInv, TheCountLagsByWhatIsMissed
  <1>9. CASE Swing \/ PollAccount \/ Midnight \/ StatusPass \/ Restart
    BY <1>9, BudgetStays DEF Swing, PollAccount, Midnight, StatusPass, Restart, otherVars, budgetVars
  <1>10. CASE UNCHANGED vars
    BY <1>10, BudgetStays DEF vars, budgetVars
  <1> QED
    BY <1>1, <1>2, <1>3, <1>4, <1>5, <1>6, <1>7, <1>8, <1>9, <1>10 DEF Next

(* Only PumpPlace puts an order on the wire. *)
LEMMA OnlyPumpPlaceSends ==
    ASSUME [Next]_vars, stage = "idle", stage' = "sent"
    PROVE  PumpPlace
  <1>1. ASSUME NEW s \in Symbols, PlanSymbol(s) \/ MarkMoves(s)
        PROVE  FALSE
    BY <1>1 DEF PlanSymbol, MarkMoves, orderVars
  <1>2. ~(PumpCancel \/ PumpDone \/ PumpHears \/ VenueAccepts \/ VenueRefuses)
    BY DEF PumpCancel, PumpDone, PumpHears, VenueAccepts, VenueRefuses
  <1>3. ASSUME NEW id, Trade(id) \/ OrderFrame(id) \/ FillFrame(id)
        PROVE  FALSE
    BY <1>3 DEF Trade, OrderFrame, FillFrame
  <1>4. ~(Tick \/ StepBack \/ AskBudget \/ HearBudget)
    BY DEF Tick, StepBack, AskBudget, HearBudget, orderVars
  <1>5. ~(Swing \/ PollAccount \/ Midnight \/ StatusPass \/ Restart)
    BY DEF Swing, PollAccount, Midnight, StatusPass, Restart, otherVars, orderVars
  <1>6. ~UNCHANGED vars
    BY DEF vars, orderVars
  <1> QED
    BY <1>1, <1>2, <1>3, <1>4, <1>5, <1>6 DEF Next

LEMMA ReserveSuffices ==
    ASSUME BudgetInv, PumpPlace, session.paced, missed.lacks <= session.budget.reserve
    PROVE  spent < session.budget.limit
  <1>1. gov.used + 1 <= PlaceCeiling(gov, session.budget)
    BY DEF PumpPlace, PlaceRequest, Affordable, AdmitsPlace
  <1>2. /\ gov.used \in Nat /\ spent \in Nat /\ missed.lacks \in Nat
        /\ spent <= gov.used + missed.lacks /\ gov.limit = session.budget.limit
    BY DEF BudgetInv, TheCountLagsByWhatIsMissed
  <1>3. session.budget.limit \in Nat /\ session.budget.reserve \in Nat
    BY SessionsAssumption DEF BudgetInv, Spends
  <1>4. gov.used + 1 <= session.budget.limit - session.budget.reserve
    BY <1>1, <1>2, <1>3 DEF PlaceCeiling, AtLeastZero
  <1> QED
    BY <1>2, <1>3, <1>4

(* No placement goes out that the venue would refuse for the account's
   request budget, as long as the requests the count lacks are no more than
   the reserve; for every budget, and every number of requests. *)
THEOREM TheReserveHolds == Spec => NoPlaceMeetsTheLimit
  <1>1. Init => BudgetInv
    BY BudgetInit
  <1>2. BudgetInv /\ [Next]_vars => BudgetInv'
    BY BudgetNext
  <1>3. ASSUME BudgetInv, [Next]_vars
        PROVE  [stage = "idle" /\ stage' = "sent" /\ session.paced
                /\ missed.lacks <= session.budget.reserve
                => spent < session.budget.limit]_vars
    BY <1>3, OnlyPumpPlaceSends, ReserveSuffices
  <1> QED
    BY <1>1, <1>2, <1>3, PTL DEF Spec, NoPlaceMeetsTheLimit

-----------------------------------------------------------------------------
(* Plans.  What is on the lot is a multiple of it.                         *)

OnLot(n, lot) == \E k \in Int : n = lot * k

LEMMA Distributes ==
    ASSUME NEW a \in Int, NEW b \in Int, NEW c \in Int
    PROVE  a * (b + c) = a * b + a * c /\ a * (b - c) = a * b - a * c /\ a * (-b) = -(a * b)
           /\ a * b \in Int
  OBVIOUS

LEMMA LotsAdd ==
    ASSUME NEW lot \in Nat \ {0}, NEW a \in Int, NEW b \in Int, OnLot(a, lot), OnLot(b, lot)
    PROVE  OnLot(a - b, lot) /\ OnLot(-a, lot) /\ OnLot(0, lot)
  <1>1. PICK k \in Int : a = lot * k
    BY DEF OnLot
  <1>2. PICK j \in Int : b = lot * j
    BY DEF OnLot
  <1>3. a - b = lot * (k - j) /\ -a = lot * (-k) /\ 0 = lot * 0
    BY <1>1, <1>2, Distributes
  <1>4. k - j \in Int /\ -k \in Int /\ 0 \in Int
    OBVIOUS
  <1>5. OnLot(a - b, lot)
    BY <1>3, <1>4, Zenon DEF OnLot
  <1>6. OnLot(-a, lot)
    BY <1>3, <1>4, Zenon DEF OnLot
  <1>7. OnLot(0, lot)
    BY <1>3, <1>4, Zenon DEF OnLot
  <1> QED
    BY <1>5, <1>6, <1>7

(* Two of them are a lot apart. *)
LEMMA LotsApart ==
    ASSUME NEW lot \in Nat \ {0}, NEW a \in Int, NEW b \in Int, OnLot(a, lot), OnLot(b, lot), a < b
    PROVE  a + lot <= b
  <1>1. PICK k \in Int : a = lot * k
    BY DEF OnLot
  <1>2. PICK j \in Int : b = lot * j
    BY DEF OnLot
  <1>3. k < j
    <2>1. ASSUME j <= k
          PROVE  FALSE
      <3>1. k - j \in Nat /\ lot \in Nat
        BY <2>1
      <3>2. lot * (k - j) >= 0
        BY <3>1
      <3>3. lot * (k - j) = a - b
        BY <1>1, <1>2, Distributes
      <3> QED
        BY <3>2, <3>3
    <2> QED
      BY <2>1
  <1>4. j - k - 1 \in Nat /\ lot \in Nat
    BY <1>3
  <1>5. lot * (j - k - 1) >= 0
    BY <1>4
  <1>6. lot * (j - k - 1) = b - a - lot
    <2>1. lot * (j - k - 1) = lot * (j - k) - lot * 1
      BY Distributes
    <2>2. lot * (j - k) = b - a
      BY <1>1, <1>2, Distributes
    <2> QED
      BY <2>1, <2>2
  <1> QED
    BY <1>5, <1>6

(* What is left of a number without its remainder. *)
LEMMA RoundedDown ==
    ASSUME NEW lot \in Nat \ {0}, NEW m \in Nat
    PROVE  /\ m - (m % lot) \in Nat /\ OnLot(m - (m % lot), lot)
           /\ m - (m % lot) <= m /\ m < (m - (m % lot)) + lot
  <1> DEFINE r == m % lot
             q == m \div lot
  <1>1. q \in Int /\ r \in 0..(lot - 1) /\ m = lot * q + r /\ r <= m
    OBVIOUS
  <1> HIDE DEF r, q
  <1>2. lot * q \in Int
    BY <1>1
  <1>3. m - r = lot * q /\ m - r \in Nat /\ m - r <= m /\ m < (m - r) + lot
    BY <1>1, <1>2
  <1>4. OnLot(m - r, lot)
    BY <1>1, <1>3, Zenon DEF OnLot
  <1> QED
    BY <1>3, <1>4 DEF r

(* Truncate: the nearest on the lot, toward zero. *)
LEMMA TruncateIs ==
    ASSUME NEW lot \in Nat \ {0}, NEW n \in Int
    PROVE  /\ Truncate(n, lot) \in Int /\ OnLot(Truncate(n, lot), lot)
           /\ n >= 0 => 0 <= Truncate(n, lot) /\ Truncate(n, lot) <= n /\ n < Truncate(n, lot) + lot
           /\ n <= 0 => Truncate(n, lot) <= 0 /\ n <= Truncate(n, lot) /\ Truncate(n, lot) - lot < n
  <1> DEFINE t == Truncate(n, lot)
  <1>1. CASE n >= 0
    <2> DEFINE d == n - (n % lot)
    <2>1. t = d
      BY <1>1 DEF Truncate
    <2>2. d \in Nat /\ OnLot(d, lot) /\ d <= n /\ n < d + lot
      <3>1. n \in Nat
        BY <1>1
      <3> QED
        BY <3>1, RoundedDown
    <2> HIDE DEF d, t
    <2>3. /\ t \in Int /\ OnLot(t, lot) /\ 0 <= t /\ t <= n /\ n < t + lot
          /\ n <= 0 => t <= 0 /\ n <= t /\ t - lot < n
      BY <1>1, <2>1, <2>2
    <2> QED
      BY <1>1, <2>3 DEF t
  <1>2. CASE n < 0
    <2> DEFINE m == -n
               d == m - (m % lot)
    <2>1. t = -d
      BY <1>2 DEF Truncate
    <2>2. m \in Nat
      BY <1>2
    <2>3. d \in Nat /\ OnLot(d, lot) /\ d <= m /\ m < d + lot
      BY <2>2, RoundedDown
    <2>4. OnLot(-d, lot)
      BY <2>3, LotsAdd
    <2>5. m = -n
      OBVIOUS
    <2> HIDE DEF m, d, t
    <2>6. /\ t \in Int /\ OnLot(t, lot) /\ t <= 0 /\ n <= t /\ t - lot < n
      BY <1>2, <2>1, <2>3, <2>4, <2>5
    <2> QED
      BY <1>2, <2>6 DEF t
  <1> QED
    BY <1>1, <1>2

(* What is on the lot already stays what it is. *)
LEMMA TruncateKeeps ==
    ASSUME NEW lot \in Nat \ {0}, NEW n \in Int, OnLot(n, lot)
    PROVE  Truncate(n, lot) = n
  <1> DEFINE t == Truncate(n, lot)
  <1>1. /\ t \in Int /\ OnLot(t, lot)
        /\ n >= 0 => t <= n /\ n < t + lot
        /\ n <= 0 => n <= t /\ t - lot < n
    BY TruncateIs
  <1> HIDE DEF t
  <1>2. ~(t < n)
    <2> SUFFICES ASSUME t < n PROVE FALSE
      OBVIOUS
    <2>1. t + lot <= n
      BY <1>1, LotsApart
    <2> QED
      BY <1>1, <2>1
  <1>3. ~(n < t)
    <2> SUFFICES ASSUME n < t PROVE FALSE
      OBVIOUS
    <2>1. n + lot <= t
      BY <1>1, LotsApart
    <2> QED
      BY <1>1, <2>1
  <1> QED
    BY <1>1, <1>2, <1>3 DEF t

(* Nothing on the lot between zero and what is asked is nearer to it. *)
LEMMA TruncateIsNearest ==
    ASSUME NEW lot \in Nat \ {0}, NEW asked \in Int, NEW n \in Int, OnLot(n, lot),
           (0 <= n /\ n <= asked) \/ (asked <= n /\ n <= 0)
    PROVE  Abs(asked - Truncate(asked, lot)) <= Abs(asked - n)
  <1> DEFINE t == Truncate(asked, lot)
  <1>1. /\ t \in Int /\ OnLot(t, lot)
        /\ asked >= 0 => 0 <= t /\ t <= asked /\ asked < t + lot
        /\ asked <= 0 => t <= 0 /\ asked <= t /\ t - lot < asked
    BY TruncateIs
  <1> HIDE DEF t
  <1>2. CASE 0 <= n /\ n <= asked
    <2>1. ~(t < n)
      <3> SUFFICES ASSUME t < n PROVE FALSE
        OBVIOUS
      <3>1. t + lot <= n
        BY <1>1, LotsApart
      <3> QED
        BY <1>1, <1>2, <3>1
    <2>2. Abs(asked - t) <= Abs(asked - n)
      BY <1>1, <1>2, <2>1 DEF Abs
    <2> QED
      BY <2>2 DEF t
  <1>3. CASE asked <= n /\ n <= 0
    <2>1. ~(n < t)
      <3> SUFFICES ASSUME n < t PROVE FALSE
        OBVIOUS
      <3>1. n + lot <= t
        BY <1>1, LotsApart
      <3> QED
        BY <1>1, <1>3, <3>1
    <2>2. Abs(asked - t) <= Abs(asked - n)
      BY <1>1, <1>3, <2>1 DEF Abs
    <2> QED
      BY <2>2 DEF t
  <1> QED
    BY <1>2, <1>3

(* A signal, a configuration and a position as the planner takes them: what
   the venue lets anybody hold is on its lot, where there is one. *)
Asked(sig) == IF sig.close THEN 0 ELSE sig.target

Sound(sig, position, cfg) ==
    /\ sig.target \in Int /\ position \in Int
    /\ cfg.lot \in Nat \ {0}
    /\ cfg.precision = "known" => OnLot(position, cfg.lot)

LEMMA GoalIs ==
    ASSUME NEW sig, NEW position, NEW cfg, Sound(sig, position, cfg)
    PROVE  /\ Goal(sig, cfg) \in Int /\ Asked(sig) \in Int
           /\ cfg.precision # "known" => Goal(sig, cfg) = Asked(sig)
           /\ cfg.precision = "known" => OnLot(Goal(sig, cfg), cfg.lot)
  <1>1. Asked(sig) \in Int /\ cfg.lot \in Nat \ {0}
    BY DEF Sound, Asked
  <1>2. Goal(sig, cfg) = IF cfg.precision = "known" THEN Truncate(Asked(sig), cfg.lot) ELSE Asked(sig)
    BY DEF Goal, Asked
  <1> QED
    BY <1>1, <1>2, TruncateIs

(* The difference that is traded: to the goal, or for a signal that only
   reduces no further than flat and never away from it. *)
LEMMA DeltaIs ==
    ASSUME NEW sig, NEW position, NEW cfg, Sound(sig, position, cfg)
    PROVE  LET delta == Delta(sig, position, cfg)
               goal == Goal(sig, cfg)
           IN  /\ delta \in Int
               /\ ~ReduceOnly(sig) => delta = goal - position
               /\ ReduceOnly(sig) =>
                    \/ delta = goal - position /\ position >= 0 /\ goal >= 0 /\ goal <= position
                    \/ delta = goal - position /\ position <= 0 /\ goal <= 0 /\ goal >= position
                    \/ delta = -position /\ position >= 0 /\ goal <= 0
                    \/ delta = -position /\ position <= 0 /\ goal >= 0
                    \/ delta = 0 /\ position >= 0 /\ goal >= position
                    \/ delta = 0 /\ position <= 0 /\ goal <= position
               /\ cfg.precision = "known" => OnLot(delta, cfg.lot)
  <1> DEFINE goal == Goal(sig, cfg)
             delta == Delta(sig, position, cfg)
  <1>1. /\ goal \in Int /\ position \in Int /\ cfg.lot \in Nat \ {0}
        /\ cfg.precision = "known" => OnLot(goal, cfg.lot) /\ OnLot(position, cfg.lot)
    BY GoalIs DEF Sound
  <1>2. delta = IF ReduceOnly(sig) THEN Shrinking(goal - position, position) ELSE goal - position
    BY DEF Delta
  <1> HIDE DEF goal, delta
  <1>3. /\ delta \in Int
        /\ ~ReduceOnly(sig) => delta = goal - position
        /\ ReduceOnly(sig) =>
             \/ delta = goal - position /\ position >= 0 /\ goal >= 0 /\ goal <= position
             \/ delta = goal - position /\ position <= 0 /\ goal <= 0 /\ goal >= position
             \/ delta = -position /\ position >= 0 /\ goal <= 0
             \/ delta = -position /\ position <= 0 /\ goal >= 0
             \/ delta = 0 /\ position >= 0 /\ goal >= position
             \/ delta = 0 /\ position <= 0 /\ goal <= position
    BY <1>1, <1>2 DEF Shrinking, Clamp, Least, Greatest
  <1>4. ASSUME cfg.precision = "known"
        PROVE  OnLot(delta, cfg.lot)
    <2>1. OnLot(goal - position, cfg.lot) /\ OnLot(-position, cfg.lot) /\ OnLot(0, cfg.lot)
      BY <1>1, <1>4, LotsAdd
    <2> QED
      BY <1>3, <2>1
  <1> QED
    BY <1>3, <1>4 DEF goal, delta

(* What is ordered is the whole difference. *)
LEMMA QtyIs ==
    ASSUME NEW sig, NEW position, NEW cfg, Sound(sig, position, cfg)
    PROVE  /\ Qty(sig, position, cfg) = Abs(Delta(sig, position, cfg))
           /\ Signed(SideOf(sig, position, cfg), Qty(sig, position, cfg)) = Delta(sig, position, cfg)
  <1> DEFINE delta == Delta(sig, position, cfg)
             qty == Qty(sig, position, cfg)
             side == SideOf(sig, position, cfg)
  <1>1. delta \in Int /\ (cfg.precision = "known" => OnLot(delta, cfg.lot)) /\ cfg.lot \in Nat \ {0}
    BY DeltaIs DEF Sound
  <1>2. /\ qty = IF cfg.precision = "known" THEN Truncate(Abs(delta), cfg.lot) ELSE Abs(delta)
        /\ side = IF delta > 0 THEN "buy" ELSE "sell"
    BY DEF Qty, SideOf
  <1> HIDE DEF delta, qty, side
  <1>3. Abs(delta) \in Int /\ (Abs(delta) = delta \/ Abs(delta) = -delta)
    BY <1>1 DEF Abs
  <1>4. qty = Abs(delta)
    <2>1. CASE cfg.precision = "known"
      <3>1. OnLot(Abs(delta), cfg.lot)
        BY <1>1, <1>3, <2>1, LotsAdd
      <3> QED
        BY <1>1, <1>2, <1>3, <2>1, <3>1, TruncateKeeps
    <2>2. CASE cfg.precision # "known"
      BY <1>2, <2>2
    <2> QED
      BY <2>1, <2>2
  <1>5. Signed(side, qty) = delta
    BY <1>1, <1>2, <1>4 DEF Signed, Abs
  <1> QED
    BY <1>4, <1>5 DEF delta, qty, side

(* What a plan orders is the request. *)
LEMMA PlanOrders ==
    ASSUME NEW sig, NEW ctx, NEW cfg, NEW req \in Plan(sig, ctx, cfg).orders
    PROVE  /\ req = Request(sig, ctx, cfg) /\ Objections(sig, ctx, cfg) = {}
           /\ Plan(sig, ctx, cfg).cancels = {w.id : w \in ctx.working}
  BY DEF Plan

(* planner.rs, plan: an order takes the position to the signal's target on
   the lot, and one that only reduces to the nearest point of that between
   the position and flat; for every position, target and lot. *)
THEOREM PlansArriveAtTheirTarget ==
    ASSUME NEW sig, NEW ctx, NEW cfg, Sound(sig, ctx.position, cfg),
           NEW req \in Plan(sig, ctx, cfg).orders
    PROVE  LET goal    == Goal(sig, cfg)
               arrives == ctx.position + Signed(req.side, req.qty)
           IN  /\ ~ReduceOnly(sig) => arrives = goal
               /\ ReduceOnly(sig) =>
                    /\ Least(ctx.position, 0) <= arrives /\ arrives <= Greatest(ctx.position, 0)
                    /\ \A m \in Least(ctx.position, 0)..Greatest(ctx.position, 0) :
                            Abs(goal - arrives) <= Abs(goal - m)
               /\ cfg.precision = "known" =>
                    /\ OnLot(goal, cfg.lot)
                    /\ \A n \in Int :
                        OnLot(n, cfg.lot) /\ ((0 <= n /\ n <= Asked(sig)) \/ (Asked(sig) <= n /\ n <= 0))
                            => Abs(Asked(sig) - goal) <= Abs(Asked(sig) - n)
  <1> DEFINE goal == Goal(sig, cfg)
             delta == Delta(sig, ctx.position, cfg)
             at == ctx.position
  <1>1. Signed(req.side, req.qty) = delta
    BY PlanOrders, QtyIs DEF Request
  <1>2. /\ goal \in Int /\ at \in Int /\ delta \in Int /\ Asked(sig) \in Int /\ cfg.lot \in Nat \ {0}
        /\ ~ReduceOnly(sig) => delta = goal - at
        /\ ReduceOnly(sig) =>
             \/ delta = goal - at /\ at >= 0 /\ goal >= 0 /\ goal <= at
             \/ delta = goal - at /\ at <= 0 /\ goal <= 0 /\ goal >= at
             \/ delta = -at /\ at >= 0 /\ goal <= 0
             \/ delta = -at /\ at <= 0 /\ goal >= 0
             \/ delta = 0 /\ at >= 0 /\ goal >= at
             \/ delta = 0 /\ at <= 0 /\ goal <= at
    BY GoalIs, DeltaIs DEF Sound
  <1>3. cfg.precision = "known" => OnLot(goal, cfg.lot) /\ goal = Truncate(Asked(sig), cfg.lot)
    BY GoalIs DEF Goal, Asked
  <1> HIDE DEF goal, delta, at
  <1>4. ~ReduceOnly(sig) => at + delta = goal
    BY <1>2
  <1>5. ASSUME ReduceOnly(sig)
        PROVE  /\ Least(at, 0) <= at + delta /\ at + delta <= Greatest(at, 0)
               /\ \A m \in Least(at, 0)..Greatest(at, 0) : Abs(goal - (at + delta)) <= Abs(goal - m)
    BY <1>2, <1>5 DEF Least, Greatest, Abs
  <1>6. ASSUME cfg.precision = "known", NEW n \in Int, OnLot(n, cfg.lot),
               (0 <= n /\ n <= Asked(sig)) \/ (Asked(sig) <= n /\ n <= 0)
        PROVE  Abs(Asked(sig) - goal) <= Abs(Asked(sig) - n)
    BY <1>2, <1>3, <1>6, TruncateIsNearest
  <1> QED
    BY <1>1, <1>3, <1>4, <1>5, <1>6 DEF goal, delta, at

(* planner.rs: a position is never left behind because it is small.  Whatever
   the least sizes, nothing speaks against the order that takes it to flat
   except its price. *)
THEOREM AnExitIsRefusedOnlyForItsPrice ==
    ASSUME NEW sig, NEW ctx, NEW cfg, Sound(sig, ctx.position, cfg),
           ctx.position # 0, sig.close \/ sig.target = 0, sig.limit = 0,
           cfg.precision = "known", Usable(ctx.quote)
    PROVE  /\ Objections(sig, ctx, cfg) \subseteq {"PriceNotRepresentable", "Unfillable"}
           /\ ctx.position + Signed(Request(sig, ctx, cfg).side, Request(sig, ctx, cfg).qty) = 0
  <1> DEFINE at == ctx.position
             side == SideOf(sig, at, cfg)
             qty == Qty(sig, at, cfg)
             px == Price(sig, side, ctx.quote, cfg)
  <1>1. Goal(sig, cfg) = 0 /\ at \in Int /\ cfg.lot \in Nat \ {0}
    <2>1. Asked(sig) = 0 /\ at \in Int /\ cfg.lot \in Nat \ {0}
      BY DEF Asked, Sound
    <2>2. OnLot(0, cfg.lot)
      BY <2>1, LotsAdd DEF Sound
    <2>3. Truncate(0, cfg.lot) = 0
      BY <2>1, <2>2, TruncateKeeps
    <2> QED
      BY <2>1, <2>3 DEF Goal, Asked
  <1>2. Delta(sig, at, cfg) = -at
    BY <1>1, DeltaIs
  <1>3. qty = Abs(at) /\ Signed(side, qty) = -at
    <2>1. qty = Abs(-at) /\ Signed(side, qty) = -at
      BY <1>2, QtyIs
    <2> QED
      BY <1>1, <2>1 DEF Abs
  <1>4. qty # 0 /\ Delta(sig, at, cfg) # 0
    BY <1>1, <1>2, <1>3 DEF Abs
  <1>5. ClosesOut(sig, at, cfg)
    BY <1>1, <1>3 DEF ClosesOut
  <1>6. Objections(sig, ctx, cfg) \subseteq {"PriceNotRepresentable", "Unfillable"}
    BY <1>4, <1>5 DEF Objections
  <1>7. at + Signed(Request(sig, ctx, cfg).side, Request(sig, ctx, cfg).qty) = 0
    BY <1>1, <1>3 DEF Request
  <1> QED
    BY <1>6, <1>7

-----------------------------------------------------------------------------
(* Prices.                                                                 *)

LEMMA RemainderIsLot ==
    ASSUME NEW lot \in Nat \ {0}, NEW n \in Int
    PROVE  n % lot = 0 <=> OnLot(n, lot)
  <1>1. ASSUME n % lot = 0
        PROVE  OnLot(n, lot)
    <2>1. n = lot * (n \div lot) + (n % lot) /\ n \div lot \in Int
      OBVIOUS
    <2>2. n = lot * (n \div lot)
      BY <1>1, <2>1
    <2> QED
      BY <2>1, <2>2, Zenon DEF OnLot
  <1>2. ASSUME OnLot(n, lot)
        PROVE  n % lot = 0
    <2>1. PICK k \in Int : n = lot * k
      BY <1>2 DEF OnLot
    <2>2. n = lot * (n \div lot) + (n % lot) /\ n \div lot \in Int /\ n % lot \in 0..(lot - 1)
      OBVIOUS
    <2> DEFINE j == n \div lot
               r == n % lot
    <2>3. OnLot(lot * j, lot) /\ lot * j \in Int /\ n = lot * j + r /\ r \in 0..(lot - 1)
      BY <2>2 DEF OnLot
    <2> HIDE DEF j, r
    <2>4. ~(lot * j < n)
      <3>1. ASSUME lot * j < n
            PROVE  FALSE
        <4>1. lot * j + lot <= n
          BY <1>2, <2>3, <3>1, LotsApart
        <4> QED
          BY <2>3, <4>1
      <3> QED
        BY <3>1
    <2>5. r = 0
      BY <2>3, <2>4
    <2> QED
      BY <2>5 DEF r
  <1> QED
    BY <1>1, <1>2

(* PriceGrid::quantize: a price that is one ends up on the tick, a passive
   price away from the market and a marketable one into it. *)
LEMMA OnTickIs ==
    ASSUME NEW tick \in Nat \ {0}, NEW px \in Int, NEW side \in Sides, NEW marketable \in BOOLEAN
    PROVE  LET out == OnTick(px, side, marketable, tick)
           IN  /\ out \in Int
               /\ px <= 0 => out = px
               /\ px > 0 => OnLot(out, tick) /\ out >= 0
               /\ px >= tick => out > 0
               /\ (side = "buy") = marketable => px <= out
               /\ (side = "buy") # marketable => out <= px
  <1> DEFINE down == px - (px % tick)
             out == OnTick(px, side, marketable, tick)
  <1>1. px % tick \in 0..(tick - 1) /\ (px % tick = 0 <=> OnLot(px, tick))
    BY RemainderIsLot
  <1>2. out = IF px <= 0 \/ px % tick = 0 THEN px
              ELSE IF (side = "buy") = marketable THEN down + tick ELSE down
    BY DEF OnTick
  <1>3. ASSUME px > 0
        PROVE  down \in Nat /\ OnLot(down, tick) /\ down <= px /\ px < down + tick
    <2>1. px \in Nat
      BY <1>3
    <2> QED
      BY <2>1, RoundedDown
  <1> HIDE DEF down, out
  <1>4. ASSUME px > 0
        PROVE  OnLot(down + tick, tick)
    <2>1. PICK k \in Int : down = tick * k
      BY <1>3, <1>4 DEF OnLot
    <2>2. down + tick = tick * (k + 1) /\ k + 1 \in Int
      BY <2>1
    <2> QED
      BY <2>2, Zenon DEF OnLot
  <1>5. /\ out \in Int
        /\ px <= 0 => out = px
        /\ px > 0 => OnLot(out, tick) /\ out >= 0
        /\ px >= tick => out > 0
        /\ (side = "buy") = marketable => px <= out
        /\ (side = "buy") # marketable => out <= px
    <2>1. CASE px <= 0
      BY <1>2, <2>1
    <2>2. CASE px > 0 /\ px % tick = 0
      BY <1>1, <1>2, <2>2
    <2>3. CASE px > 0 /\ px % tick # 0
      <3>1. out = IF (side = "buy") = marketable THEN down + tick ELSE down
        BY <1>2, <2>3
      <3> QED
        BY <1>3, <1>4, <2>3, <3>1
    <2> QED
      BY <2>1, <2>2, <2>3
  <1> QED
    BY <1>5 DEF out

Askable ==
    [target : Int, close : BOOLEAN, reduce : BOOLEAN, urgency : 0..3, limit : Nat]

(* A configuration of the planner, and a quote, usable or not. *)
Priceable(cfg, quote) ==
    /\ cfg.lot \in Nat \ {0} /\ cfg.tick \in Nat \ {0} /\ cfg.slip \in Nat
    /\ cfg.precision \in {"known", "unknown"}
    /\ cfg.precision = "unknown" => cfg.lot = 1 /\ cfg.tick = 1
    /\ quote.bid \in Nat /\ quote.ask \in Nat

(* The price that is sent. *)
LEMMA PriceIs ==
    ASSUME NEW sig \in Askable, NEW cfg, NEW quote, Priceable(cfg, quote), NEW side \in Sides,
           cfg.precision = "known"
    PROVE  LET px   == Price(sig, side, quote, cfg)
               band == BandOnTick(sig, side, cfg)
           IN  /\ px \in Int
               /\ px > 0 /\ (sig.limit > 0 => band > 0) =>
                    /\ OnLot(px, cfg.tick)
                    /\ sig.limit # 0 => IF side = "buy" THEN px <= sig.limit ELSE px >= sig.limit
  <1> DEFINE mk == Marketable(sig)
             want == Wanted(sig, side, quote, cfg)
             rounded == OnTick(want, side, mk, cfg.tick)
             band == BandOnTick(sig, side, cfg)
             px == Price(sig, side, quote, cfg)
  <1>1. sig.limit \in Nat /\ sig.urgency \in 0..3 /\ cfg.tick \in Nat \ {0}
    BY DEF Askable, Priceable
  <1>2. mk \in BOOLEAN
    BY DEF Marketable
  <1>3. want \in Int
    <2>1. Anchor(sig, side, quote) \in Int
      BY DEF Anchor, FarTouch, NearTouch, Priceable
    <2>2. (IF Slips(sig) THEN Signed(side, cfg.slip) ELSE 0) \in Int
      BY DEF Signed, Priceable
    <2>3. Anchor(sig, side, quote) + (IF Slips(sig) THEN Signed(side, cfg.slip) ELSE 0) \in Int
      BY <2>1, <2>2
    <2> QED
      BY <1>1, <2>3 DEF Wanted, Banded, Least, Greatest
  <1>4. /\ rounded \in Int
        /\ want <= 0 => rounded = want
        /\ want > 0 => OnLot(rounded, cfg.tick) /\ rounded >= 0
    <2> HIDE DEF want, mk
    <2> QED
      BY <1>1, <1>2, <1>3, OnTickIs
  <1>5. /\ band \in Int
        /\ sig.limit <= 0 => band = sig.limit
        /\ sig.limit > 0 => OnLot(band, cfg.tick) /\ band >= 0
        /\ side = "sell" => sig.limit <= band
        /\ side = "buy" => band <= sig.limit
    <2>1. band = OnTick(sig.limit, side, FALSE, cfg.tick)
      BY DEF BandOnTick
    <2> DEFINE out == OnTick(sig.limit, side, FALSE, cfg.tick)
    <2>2. /\ out \in Int
          /\ sig.limit <= 0 => out = sig.limit
          /\ sig.limit > 0 => OnLot(out, cfg.tick) /\ out >= 0
          /\ (side = "buy") = FALSE => sig.limit <= out
          /\ (side = "buy") # FALSE => out <= sig.limit
      <3>1. sig.limit \in Int
        BY <1>1
      <3>2. ASSUME NEW m \in BOOLEAN
            PROVE  LET o == OnTick(sig.limit, side, m, cfg.tick)
                   IN  /\ o \in Int
                       /\ sig.limit <= 0 => o = sig.limit
                       /\ sig.limit > 0 => OnLot(o, cfg.tick) /\ o >= 0
                       /\ (side = "buy") = m => sig.limit <= o
                       /\ (side = "buy") # m => o <= sig.limit
        BY <1>1, <3>1, OnTickIs
      <3> QED
        BY <3>2
    <2> HIDE DEF out, band
    <2> QED
      BY <2>1, <2>2 DEF out
  <1>6. px = Banded(rounded, band, side)
    BY DEF Price
  <1> HIDE DEF rounded, band, px, want, mk
  <1>7. /\ px \in Int
        /\ px > 0 /\ (sig.limit > 0 => band > 0) =>
             /\ OnLot(px, cfg.tick)
             /\ sig.limit # 0 => IF side = "buy" THEN px <= sig.limit ELSE px >= sig.limit
    BY <1>1, <1>3, <1>4, <1>5, <1>6 DEF Banded, Least, Greatest, Sides
  <1> QED
    BY <1>7 DEF px, band

(* Without a band the price of an order that is to trade now crosses, and
   every price is one. *)
LEMMA UnbandedPrice ==
    ASSUME NEW sig \in Askable, NEW cfg, NEW quote, Priceable(cfg, quote), NEW side \in Sides,
           cfg.precision = "known", sig.limit = 0, Usable(quote), quote.bid >= cfg.slip + cfg.tick
    PROVE  /\ Price(sig, side, quote, cfg) > 0
           /\ Marketable(sig) => Crosses(Price(sig, side, quote, cfg), side, quote)
  <1> DEFINE mk == Marketable(sig)
             want == Wanted(sig, side, quote, cfg)
             rounded == OnTick(want, side, mk, cfg.tick)
             px == Price(sig, side, quote, cfg)
  <1>1. /\ cfg.tick \in Nat \ {0} /\ cfg.slip \in Nat /\ quote.bid \in Nat /\ quote.ask \in Nat
        /\ quote.bid > 0 /\ quote.ask > quote.bid
    BY DEF Priceable, Usable
  <1>2. mk \in BOOLEAN /\ (Slips(sig) => mk)
    BY DEF Marketable, Slips, Askable
  <1>3. /\ want \in Int /\ want >= cfg.tick
        /\ mk => IF side = "buy" THEN want >= quote.ask ELSE want <= quote.bid
    BY <1>1, <1>2 DEF Wanted, Banded, Anchor, FarTouch, NearTouch, Signed, Sides
  <1>4. /\ rounded \in Int /\ rounded > 0
        /\ (side = "buy") = mk => want <= rounded
        /\ (side = "buy") # mk => rounded <= want
    <2> HIDE DEF want, mk
    <2>1. /\ rounded \in Int
          /\ want >= cfg.tick => rounded > 0
          /\ (side = "buy") = mk => want <= rounded
          /\ (side = "buy") # mk => rounded <= want
      BY <1>1, <1>2, <1>3, OnTickIs
    <2> QED
      BY <1>3, <2>1
  <1>5. px = rounded
    <2>1. BandOnTick(sig, side, cfg) = 0
      BY DEF BandOnTick, OnTick
    <2> QED
      BY <2>1 DEF Price, Banded
  <1>6. mk => Crosses(rounded, side, quote)
    <2> HIDE DEF rounded, want, mk
    <2> SUFFICES ASSUME mk
                 PROVE  Crosses(rounded, side, quote)
      OBVIOUS
    <2>1. CASE side = "buy"
      <3>1. want <= rounded
        BY <1>2, <1>4, <2>1, Zenon
      <3> QED
        BY <1>1, <1>3, <1>4, <2>1, <3>1 DEF Crosses
    <2>2. CASE side # "buy"
      <3>1. rounded <= want
        BY <1>2, <1>4, <2>2, Zenon
      <3> QED
        BY <1>1, <1>3, <1>4, <2>2, <3>1 DEF Crosses
    <2> QED
      BY <2>1, <2>2
  <1> QED
    BY <1>4, <1>5, <1>6

(* What a plan that nothing speaks against is. *)
LEMMA Unobjected ==
    ASSUME NEW sig, NEW ctx, NEW cfg, Objections(sig, ctx, cfg) = {}
    PROVE  LET side == SideOf(sig, ctx.position, cfg)
               qty  == Qty(sig, ctx.position, cfg)
               px   == Price(sig, side, ctx.quote, cfg)
               grid == cfg.precision = "known"
           IN  /\ qty # 0 /\ Usable(ctx.quote)
               /\ ~grid => ReduceOnly(sig) /\ Banded(px, sig.limit, side) = px
               /\ grid => ~(px <= 0) /\ ~(sig.limit > 0 /\ BandOnTick(sig, side, cfg) <= 0)
               /\ grid /\ Marketable(sig) => Crosses(px, side, ctx.quote)
  <1> DEFINE side == SideOf(sig, ctx.position, cfg)
             qty == Qty(sig, ctx.position, cfg)
             px == Price(sig, side, ctx.quote, cfg)
             grid == cfg.precision = "known"
  <1>1. /\ "BelowLotSize" \notin Objections(sig, ctx, cfg)
        /\ "NoQuote" \notin Objections(sig, ctx, cfg)
        /\ "UnknownPrecision" \notin Objections(sig, ctx, cfg)
        /\ "PriceNotRepresentable" \notin Objections(sig, ctx, cfg)
        /\ "Unfillable" \notin Objections(sig, ctx, cfg)
    OBVIOUS
  <1>2. qty # 0
    BY <1>1 DEF Objections
  <1>3. Usable(ctx.quote)
    BY <1>1 DEF Objections
  <1>4. ~grid => ReduceOnly(sig) /\ Banded(px, sig.limit, side) = px
    BY <1>1 DEF Objections
  <1>5. grid => ~(px <= 0) /\ ~(sig.limit > 0 /\ BandOnTick(sig, side, cfg) <= 0)
    BY <1>1 DEF Objections
  <1>6. grid /\ Marketable(sig) => Crosses(px, side, ctx.quote)
    BY <1>1 DEF Objections
  <1> QED
    BY <1>2, <1>3, <1>4, <1>5, <1>6

(* The nearest point on the lot is one. *)
LEMMA NearestIsGoal ==
    ASSUME NEW lot \in Nat \ {0}, NEW asked \in Int, NEW goal \in Int,
           goal = Truncate(asked, lot)
    PROVE  LET onLot == {n \in Least(asked, 0)..Greatest(asked, 0) : n % lot = 0}
           IN  (CHOOSE n \in onLot : \A m \in onLot : Abs(asked - n) <= Abs(asked - m)) = goal
  <1> DEFINE onLot == {n \in Least(asked, 0)..Greatest(asked, 0) : n % lot = 0}
             near == CHOOSE n \in onLot : \A m \in onLot : Abs(asked - n) <= Abs(asked - m)
  <1>1. /\ OnLot(goal, lot)
        /\ asked >= 0 => 0 <= goal /\ goal <= asked
        /\ asked <= 0 => goal <= 0 /\ asked <= goal
    BY TruncateIs
  <1>2. goal \in onLot
    <2>1. goal % lot = 0
      BY <1>1, RemainderIsLot
    <2> QED
      BY <1>1, <2>1 DEF Least, Greatest
  <1>3. ASSUME NEW m \in onLot
        PROVE  /\ m \in Int /\ ((0 <= m /\ m <= asked) \/ (asked <= m /\ m <= 0))
               /\ Abs(asked - goal) <= Abs(asked - m)
    <2>1. m \in Int /\ ((0 <= m /\ m <= asked) \/ (asked <= m /\ m <= 0)) /\ m % lot = 0
      BY <1>3 DEF Least, Greatest
    <2>2. OnLot(m, lot)
      BY <2>1, RemainderIsLot
    <2> QED
      BY <2>1, <2>2, TruncateIsNearest
  <1>4. near \in onLot /\ \A m \in onLot : Abs(asked - near) <= Abs(asked - m)
    <2> HIDE DEF onLot
    <2> QED
      BY <1>2, <1>3
  <1>5. /\ near \in Int /\ ((0 <= near /\ near <= asked) \/ (asked <= near /\ near <= 0))
        /\ Abs(asked - goal) <= Abs(asked - near) /\ Abs(asked - near) <= Abs(asked - goal)
    BY <1>2, <1>3, <1>4
  <1> HIDE DEF near
  <1>6. near = goal
    BY <1>1, <1>5 DEF Abs
  <1> QED
    BY <1>6 DEF near

(* ... and so is the nearest to it between the position and flat. *)
LEMMA NearestWithin ==
    ASSUME NEW at \in Int, NEW goal \in Int, NEW arrives \in Int,
           Least(at, 0) <= arrives, arrives <= Greatest(at, 0),
           \A m \in Least(at, 0)..Greatest(at, 0) : Abs(goal - arrives) <= Abs(goal - m)
    PROVE  LET within == Least(at, 0)..Greatest(at, 0)
           IN  (CHOOSE n \in within : \A m \in within : Abs(goal - n) <= Abs(goal - m)) = arrives
  <1> DEFINE within == Least(at, 0)..Greatest(at, 0)
             best == CHOOSE n \in within : \A m \in within : Abs(goal - n) <= Abs(goal - m)
  <1>1. Least(at, 0) \in Int /\ Greatest(at, 0) \in Int /\ Least(at, 0) <= Greatest(at, 0)
    BY DEF Least, Greatest
  <1>2. arrives \in within
    BY <1>1
  <1>3. best \in within /\ \A m \in within : Abs(goal - best) <= Abs(goal - m)
    <2> HIDE DEF within
    <2>1. \A m \in within : Abs(goal - arrives) <= Abs(goal - m)
      BY DEF within
    <2> QED
      BY <1>2, <2>1
  <1>4. /\ best \in Int /\ Least(at, 0) <= best /\ best <= Greatest(at, 0)
        /\ Abs(goal - best) <= Abs(goal - arrives) /\ Abs(goal - arrives) <= Abs(goal - best)
    BY <1>1, <1>2, <1>3
  <1> HIDE DEF best
  <1>5. best = arrives
    <2>1. CASE goal <= arrives /\ goal <= best
      BY <1>4, <2>1 DEF Abs
    <2>2. CASE goal >= arrives /\ goal >= best
      BY <1>4, <2>2 DEF Abs
    <2>3. CASE arrives < goal /\ goal < best
      <3>1. goal \in within
        BY <1>1, <1>4, <2>3
      <3>2. Abs(goal - arrives) <= Abs(goal - goal)
        BY <3>1
      <3> QED
        BY <2>3, <3>2 DEF Abs
    <2>4. CASE best < goal /\ goal < arrives
      <3>1. goal \in within
        BY <1>1, <1>4, <2>4
      <3>2. Abs(goal - arrives) <= Abs(goal - goal)
        BY <3>1
      <3> QED
        BY <2>4, <3>2 DEF Abs
    <2> QED
      BY <1>4, <2>1, <2>2, <2>3, <2>4
  <1> QED
    BY <1>5 DEF best

LEMMA OrdersReachTheirTarget ==
    ASSUME NEW sig \in Askable, NEW ctx, NEW cfg, Sound(sig, ctx.position, cfg),
           cfg.precision # "known" => cfg.lot = 1,
           NEW req \in Plan(sig, ctx, cfg).orders
    PROVE  ReachesItsTarget(req, sig, ctx.position, cfg.lot)
  <1> DEFINE asked == IF sig.close THEN 0 ELSE sig.target
             onLot == {n \in Least(asked, 0)..Greatest(asked, 0) : n % cfg.lot = 0}
             near == CHOOSE n \in onLot : \A m \in onLot : Abs(asked - n) <= Abs(asked - m)
             within == Least(ctx.position, 0)..Greatest(ctx.position, 0)
             best == CHOOSE n \in within : \A m \in within : Abs(near - n) <= Abs(near - m)
             arrives == ctx.position + Signed(req.side, req.qty)
             goal == Goal(sig, cfg)
  <1>1. /\ ~ReduceOnly(sig) => arrives = goal
        /\ ReduceOnly(sig) =>
            /\ Least(ctx.position, 0) <= arrives /\ arrives <= Greatest(ctx.position, 0)
            /\ \A m \in Least(ctx.position, 0)..Greatest(ctx.position, 0) :
                    Abs(goal - arrives) <= Abs(goal - m)
    BY PlansArriveAtTheirTarget
  <1>2. /\ goal \in Int /\ asked \in Int /\ cfg.lot \in Nat \ {0} /\ ctx.position \in Int
        /\ goal = Truncate(asked, cfg.lot)
    <2>1. goal \in Int /\ Asked(sig) \in Int /\ cfg.lot \in Nat \ {0} /\ ctx.position \in Int
      BY GoalIs DEF Sound
    <2>2. asked = Asked(sig)
      BY DEF Asked
    <2>3. CASE cfg.precision = "known"
      BY <2>1, <2>2, <2>3 DEF Goal, Asked
    <2>4. CASE cfg.precision # "known"
      <3>1. goal = asked
        BY <2>2, <2>4, GoalIs
      <3>2. OnLot(asked, 1)
        BY <2>1, <2>2 DEF OnLot
      <3>3. Truncate(asked, 1) = asked
        BY <2>1, <2>2, <3>2, TruncateKeeps
      <3> QED
        BY <2>1, <2>2, <2>4, <3>1, <3>3
    <2> QED
      BY <2>3, <2>4
  <1>3. near = goal
    <2> HIDE DEF asked, goal
    <2> QED
      BY <1>2, NearestIsGoal
  <1>4. arrives \in Int
    <2>1. Signed(req.side, req.qty) = Delta(sig, ctx.position, cfg)
      BY PlanOrders, QtyIs DEF Request
    <2>2. Delta(sig, ctx.position, cfg) \in Int
      BY DeltaIs
    <2> QED
      BY <1>2, <2>1, <2>2
  <1> HIDE DEF near, goal, arrives, asked
  <1>5. arrives = IF ReduceOnly(sig) THEN best ELSE near
    <2>1. CASE ~ReduceOnly(sig)
      BY <1>1, <1>3, <2>1
    <2>2. CASE ReduceOnly(sig)
      <3>1. (CHOOSE n \in within : \A m \in within : Abs(goal - n) <= Abs(goal - m)) = arrives
        BY <1>1, <1>2, <1>4, <2>2, NearestWithin
      <3>2. best = arrives
        BY <1>3, <3>1
      <3> QED
        BY <2>2, <3>2
    <2> QED
      BY <2>1, <2>2
  <1> QED
    BY <1>5 DEF ReachesItsTarget, near, arrives, asked

(* What is asked of the venue. *)
Wishes(lot) ==
    {req \in [side : Sides, qty : Nat \ {0}, reduce : BOOLEAN, price : Nat, tif : {"postOnly", "gtc", "ioc"}] :
        OnLot(req.qty, lot)}

LEMMA OrdersAreSendable ==
    ASSUME NEW sig \in Askable, NEW ctx, NEW cfg, NEW quote, Priceable(cfg, quote),
           ctx.quote \in {quote, NoQuote}, Sound(sig, ctx.position, cfg),
           NEW req \in Plan(sig, ctx, cfg).orders
    PROVE  req \in Wishes(cfg.lot) /\ HasASendablePrice(req, sig, quote, cfg.tick)
  <1> DEFINE at == ctx.position
             side == SideOf(sig, at, cfg)
             qty == Qty(sig, at, cfg)
             px == Price(sig, side, quote, cfg)
  <1>1. /\ req = Request(sig, ctx, cfg) /\ Objections(sig, ctx, cfg) = {}
    BY PlanOrders
  <1>2. ctx.quote = quote /\ Usable(quote)
    <2>1. Usable(ctx.quote)
      BY <1>1, Unobjected
    <2>2. ~Usable(NoQuote)
      BY DEF Usable, NoQuote
    <2> QED
      BY <2>1, <2>2
  <1>3. req = [side |-> side, qty |-> qty, reduce |-> ReduceOnly(sig), price |-> px, tif |-> Tif(sig)]
    BY <1>1, <1>2 DEF Request
  <1>4. /\ qty # 0
        /\ cfg.precision # "known" => ReduceOnly(sig) /\ Banded(px, sig.limit, side) = px
        /\ cfg.precision = "known" => ~(px <= 0) /\ ~(sig.limit > 0 /\ BandOnTick(sig, side, cfg) <= 0)
        /\ cfg.precision = "known" /\ Marketable(sig) => Crosses(px, side, quote)
    BY <1>1, <1>2, Unobjected
  <1>5. side \in Sides
    BY DEF SideOf, Sides
  <1>6. qty \in Nat \ {0} /\ OnLot(qty, cfg.lot)
    <2> DEFINE delta == Delta(sig, at, cfg)
    <2>1. qty = Abs(delta) /\ delta \in Int /\ (cfg.precision = "known" => OnLot(delta, cfg.lot))
          /\ cfg.lot \in Nat \ {0}
      BY QtyIs, DeltaIs DEF Sound
    <2> HIDE DEF delta, qty
    <2>2. qty \in Nat \ {0} /\ (qty = delta \/ qty = -delta)
      BY <1>4, <2>1 DEF Abs
    <2>3. CASE cfg.precision = "known"
      BY <2>1, <2>2, <2>3, LotsAdd
    <2>4. CASE cfg.precision # "known"
      <3>1. cfg.lot = 1 /\ qty = 1 * qty /\ qty \in Int
        BY <2>2, <2>4 DEF Priceable
      <3> QED
        BY <2>2, <3>1, Zenon DEF OnLot
    <2> QED
      BY <2>3, <2>4
  <1>7. ReduceOnly(sig) \in BOOLEAN /\ Tif(sig) \in {"postOnly", "gtc", "ioc"}
    BY DEF ReduceOnly, Askable, Tif
  <1>8. /\ px \in Nat /\ px > 0 /\ px % cfg.tick = 0
        /\ sig.limit # 0 => IF side = "buy" THEN px <= sig.limit ELSE px >= sig.limit
        /\ Marketable(sig) => Crosses(px, side, quote)
    <2>1. CASE cfg.precision = "known"
      <3>1. /\ px \in Int
            /\ px > 0 /\ (sig.limit > 0 => BandOnTick(sig, side, cfg) > 0) =>
                    /\ OnLot(px, cfg.tick)
                    /\ sig.limit # 0 => IF side = "buy" THEN px <= sig.limit ELSE px >= sig.limit
        <4> HIDE DEF side
        <4> QED
          BY <1>5, <2>1, PriceIs
      <3>2. sig.limit > 0 => BandOnTick(sig, side, cfg) \in Int
        <4> HIDE DEF side
        <4>1. sig.limit \in Int /\ cfg.tick \in Nat \ {0}
          BY DEF Askable, Priceable
        <4>2. ASSUME NEW m \in BOOLEAN
              PROVE  OnTick(sig.limit, side, m, cfg.tick) \in Int
          BY <1>5, <4>1, OnTickIs
        <4> QED
          BY <4>2 DEF BandOnTick
      <3> HIDE DEF px, side
      <3>3. /\ px > 0 /\ OnLot(px, cfg.tick)
            /\ sig.limit # 0 => IF side = "buy" THEN px <= sig.limit ELSE px >= sig.limit
        BY <1>4, <2>1, <3>1, <3>2
      <3>4. px % cfg.tick = 0 /\ px \in Nat
        <4>1. cfg.tick \in Nat \ {0}
          BY DEF Priceable
        <4> QED
          BY <3>1, <3>3, <4>1, RemainderIsLot
      <3> QED
        BY <1>4, <2>1, <3>3, <3>4
    <2>2. CASE cfg.precision # "known"
      <3>1. px = Anchor(sig, side, quote)
        BY <2>2 DEF Price, Priceable
      <3>2. cfg.tick = 1 /\ quote.bid \in Nat /\ quote.ask \in Nat /\ quote.bid > 0 /\ quote.ask > quote.bid
        BY <1>2, <2>2 DEF Priceable, Usable
      <3>3. Banded(px, sig.limit, side) = px
        BY <1>4, <2>2
      <3>4. sig.limit \in Nat
        BY DEF Askable
      <3> HIDE DEF px, side
      <3>5. px \in {quote.bid, quote.ask}
        BY <3>1 DEF Anchor, FarTouch, NearTouch
      <3>6. px \in Nat /\ px > 0 /\ px % cfg.tick = 0
        <4>1. px \in Nat /\ px > 0
          BY <3>2, <3>5
        <4>2. px % 1 = 0
          BY <4>1
        <4> QED
          BY <3>2, <4>1, <4>2
      <3>7. sig.limit # 0 => IF side = "buy" THEN px <= sig.limit ELSE px >= sig.limit
        BY <3>3, <3>4, <3>6 DEF Banded, Least, Greatest
      <3>8. Marketable(sig) => Crosses(px, side, quote)
        BY <3>1, <3>2, <3>6 DEF Anchor, FarTouch, Crosses
      <3> QED
        BY <3>6, <3>7, <3>8
    <2> QED
      BY <2>1, <2>2
  <1>q. quote.bid > 0 /\ quote.bid < quote.ask
    BY <1>2 DEF Usable, Priceable
  <1> HIDE DEF side, qty, px
  <1>9. /\ req.side = side /\ req.qty = qty /\ req.price = px
        /\ req \in [side : Sides, qty : Nat \ {0}, reduce : BOOLEAN, price : Nat, tif : {"postOnly", "gtc", "ioc"}]
    BY <1>3, <1>5, <1>6, <1>7, <1>8
  <1> QED
    BY <1>6, <1>8, <1>9, <1>q DEF Wishes, HasASendablePrice

LEMMA ExitsArePlanned ==
    ASSUME NEW sig \in Askable, NEW ctx, NEW cfg, Priceable(cfg, ctx.quote), Usable(ctx.quote),
           ctx.quote.bid >= cfg.slip + cfg.tick, ctx.aged,
           Sound(sig, ctx.position, cfg), cfg.precision = "known",
           ctx.position # 0, sig.close \/ sig.target = 0, sig.limit = 0
    PROVE  \E req \in Plan(sig, ctx, cfg).orders : ctx.position + Signed(req.side, req.qty) = 0
  <1> DEFINE side == SideOf(sig, ctx.position, cfg)
             px == Price(sig, side, ctx.quote, cfg)
  <1>1. /\ Objections(sig, ctx, cfg) \subseteq {"PriceNotRepresentable", "Unfillable"}
        /\ ctx.position + Signed(Request(sig, ctx, cfg).side, Request(sig, ctx, cfg).qty) = 0
    BY AnExitIsRefusedOnlyForItsPrice
  <1>2. side \in Sides
    BY DEF SideOf, Sides
  <1>3. px > 0 /\ (Marketable(sig) => Crosses(px, side, ctx.quote)) /\ px \in Int
    <2> HIDE DEF side
    <2> QED
      BY <1>2, UnbandedPrice, PriceIs
  <1>4. ~(px <= 0) /\ ~(sig.limit > 0)
    BY <1>3
  <1>5. "PriceNotRepresentable" \notin Objections(sig, ctx, cfg)
    BY <1>4 DEF Objections
  <1>6. "Unfillable" \notin Objections(sig, ctx, cfg)
    BY <1>3 DEF Objections
  <1>7. Objections(sig, ctx, cfg) = {}
    BY <1>1, <1>5, <1>6
  <1>8. Plan(sig, ctx, cfg).orders = {Request(sig, ctx, cfg)}
    BY <1>7 DEF Plan
  <1> QED
    BY <1>1, <1>8

-----------------------------------------------------------------------------
(* Orders.                                                                 *)

OrderIn(ss) ==
    [sym : DOMAIN ss.held, side : Sides, qty : Nat \ {0}, price : Nat, reduce : BOOLEAN,
     tif : {"postOnly", "gtc", "ioc"}, open : BOOLEAN, done : Nat, known : BOOLEAN,
     vouched : BOOLEAN, filled : Nat, ended : BOOLEAN, applied : Nat, ahead : BOOLEAN, late : BOOLEAN]

(* Quantities are whole lots; and unless an update came before its fill, the
   tracker holds no more of an order than its fills, and knows of an end only
   with all of them. *)
Sensible(o, lot) ==
    /\ o.applied <= o.done /\ o.done <= o.qty
    /\ o.open => o.done < o.qty
    /\ o.vouched => o.known
    /\ OnLot(o.qty, lot) /\ OnLot(o.done, lot) /\ OnLot(o.applied, lot)
    /\ ~o.ahead => o.filled <= o.applied
    /\ ~o.ahead /\ o.ended => ~o.open /\ o.applied = o.done

(* Nothing more will come of it, and the tracker expects nothing. *)
Dormant(o) == ~o.open /\ o.applied = o.done /\ (o.known => o.ended \/ o.filled >= o.qty)

(* What no step undoes, and what no step but a trade does either. *)
Keeps(o, p) ==
    /\ p.sym = o.sym /\ p.side = o.side /\ p.qty = o.qty /\ p.late = o.late /\ p.done = o.done
    /\ p.open => o.open

LEMMA OrderFields ==
    ASSUME NEW ss, NEW o \in OrderIn(ss)
    PROVE  /\ o.sym \in DOMAIN ss.held /\ o.side \in Sides /\ o.qty \in Nat \ {0} /\ o.price \in Nat
           /\ o.reduce \in BOOLEAN /\ o.tif \in {"postOnly", "gtc", "ioc"} /\ o.open \in BOOLEAN
           /\ o.done \in Nat /\ o.known \in BOOLEAN /\ o.vouched \in BOOLEAN /\ o.filled \in Nat
           /\ o.ended \in BOOLEAN /\ o.applied \in Nat /\ o.ahead \in BOOLEAN /\ o.late \in BOOLEAN
  BY DEF OrderIn

LEMMA LotMore ==
    ASSUME NEW lot \in Nat \ {0}, NEW a \in Nat, NEW b \in Nat, OnLot(a, lot), OnLot(b, lot), a < b
    PROVE  a + lot \in Nat /\ a + lot <= b /\ OnLot(a + lot, lot)
  <1>1. a + lot <= b
    BY LotsApart
  <1>2. PICK k \in Int : a = lot * k
    BY DEF OnLot
  <1>3. a + lot = lot * (k + 1) /\ k + 1 \in Int
    BY <1>2
  <1>4. OnLot(a + lot, lot)
    BY <1>3, Zenon DEF OnLot
  <1> QED
    BY <1>1, <1>4

(* A cancel. *)
LEMMA CancelledOrder ==
    ASSUME NEW ss, NEW o \in OrderIn(ss), Sensible(o, ss.planner.lot)
    PROVE  LET p == [o EXCEPT !.open = FALSE]
           IN  /\ p \in OrderIn(ss) /\ Sensible(p, ss.planner.lot) /\ Keeps(o, p)
               /\ Dormant(o) => Dormant(p) /\ p.applied = o.applied
  <1> DEFINE p == [o EXCEPT !.open = FALSE]
  <1>1. p \in OrderIn(ss)
    BY DEF OrderIn
  <1>2. /\ p.sym = o.sym /\ p.side = o.side /\ p.qty = o.qty /\ p.late = o.late /\ p.done = o.done
        /\ p.open = FALSE /\ p.applied = o.applied /\ p.filled = o.filled /\ p.ended = o.ended
        /\ p.ahead = o.ahead /\ p.known = o.known /\ p.vouched = o.vouched
    BY DEF OrderIn
  <1> HIDE DEF p
  <1>3. Sensible(p, ss.planner.lot)
    BY <1>2 DEF Sensible
  <1>4. Keeps(o, p) /\ (Dormant(o) => Dormant(p) /\ p.applied = o.applied)
    BY <1>2 DEF Keeps, Dormant
  <1> QED
    BY <1>1, <1>3, <1>4 DEF p

(* An answer; an order filled on arrival is closed. *)
LEMMA AnsweredOrder ==
    ASSUME NEW ss, NEW o \in OrderIn(ss), Sensible(o, ss.planner.lot),
           NEW status \in {"resting", "filled"}, status = "filled" => ~o.open
    PROVE  LET p == OnAck(o, status)
           IN  p \in OrderIn(ss) /\ Sensible(p, ss.planner.lot) /\ Keeps(o, p)
  <1> DEFINE p == OnAck(o, status)
  <1>0. o.applied \in Nat /\ o.done \in Nat /\ o.ahead \in BOOLEAN
    BY OrderFields
  <1>1. p \in OrderIn(ss)
    BY <1>0 DEF OrderIn, OnAck
  <1>2. /\ p.sym = o.sym /\ p.side = o.side /\ p.qty = o.qty /\ p.late = o.late /\ p.done = o.done
        /\ p.open = o.open /\ p.applied = o.applied /\ p.filled = 0 /\ p.ended = (status = "filled")
        /\ p.ahead = (o.ahead \/ (status = "filled" /\ o.applied < o.done)) /\ p.known /\ p.vouched
    BY DEF OrderIn, OnAck
  <1> HIDE DEF p
  <1>3. Sensible(p, ss.planner.lot)
    BY <1>0, <1>2 DEF Sensible
  <1>4. Keeps(o, p)
    BY <1>2 DEF Keeps
  <1> QED
    BY <1>1, <1>3, <1>4 DEF p

(* A trade of one lot. *)
OneLotMore(o, p, lot) ==
    /\ p.sym = o.sym /\ p.side = o.side /\ p.qty = o.qty /\ p.late = o.late
    /\ p.done = o.done + lot /\ p.done <= p.qty /\ p.open = (p.done < p.qty)
    /\ p.applied = o.applied

LEMMA TradedOrder ==
    ASSUME NEW ss, NEW o \in OrderIn(ss), Sensible(o, ss.planner.lot), o.open, ss.planner.lot \in Nat \ {0}
    PROVE  LET p == [o EXCEPT !.done = o.done + ss.planner.lot, !.open = o.done + ss.planner.lot < o.qty]
           IN  p \in OrderIn(ss) /\ Sensible(p, ss.planner.lot) /\ OneLotMore(o, p, ss.planner.lot)
  <1> DEFINE lot == ss.planner.lot
             p == [o EXCEPT !.done = o.done + lot, !.open = o.done + lot < o.qty]
  <1>0. /\ o.applied \in Nat /\ o.done \in Nat /\ o.qty \in Nat /\ o.filled \in Nat /\ lot \in Nat \ {0}
        /\ o.applied <= o.done /\ o.done < o.qty /\ OnLot(o.qty, lot) /\ OnLot(o.done, lot)
    BY OrderFields DEF Sensible
  <1>1. o.done + lot \in Nat /\ o.done + lot <= o.qty /\ OnLot(o.done + lot, lot)
    <2> HIDE DEF lot
    <2> QED
      BY <1>0, LotMore
  <1>2. p \in OrderIn(ss)
    <2> DEFINE more == o.done + lot
               rests == o.done + lot < o.qty
    <2>1. more \in Nat /\ rests \in BOOLEAN /\ p = [o EXCEPT !.done = more, !.open = rests]
      BY <1>1
    <2> HIDE DEF more, rests, p
    <2> QED
      BY <2>1 DEF OrderIn
  <1>3. /\ p.sym = o.sym /\ p.side = o.side /\ p.qty = o.qty /\ p.late = o.late
        /\ p.done = o.done + lot /\ p.open = (o.done + lot < o.qty)
        /\ p.applied = o.applied /\ p.filled = o.filled /\ p.ended = o.ended
        /\ p.ahead = o.ahead /\ p.known = o.known /\ p.vouched = o.vouched
    BY DEF OrderIn
  <1> HIDE DEF p, lot
  <1>4. Sensible(p, lot)
    <2>1. /\ p.applied <= p.done /\ p.done <= p.qty /\ (p.open => p.done < p.qty)
          /\ OnLot(p.qty, lot) /\ OnLot(p.done, lot)
      <3>1. p.done = o.done + lot /\ p.qty = o.qty /\ p.applied = o.applied
        BY <1>3
      <3>2. p.applied <= p.done /\ p.done <= p.qty
        BY <1>0, <1>1, <3>1
      <3>3. p.open => p.done < p.qty
        BY <1>3
      <3>4. OnLot(p.qty, lot) /\ OnLot(p.done, lot)
        BY <1>0, <1>1, <3>1, Zenon
      <3> QED
        BY <3>2, <3>3, <3>4
    <2>2. (p.vouched => p.known) /\ OnLot(p.applied, lot) /\ (~p.ahead => p.filled <= p.applied)
      BY <1>3 DEF Sensible, lot
    <2>3. ~(~p.ahead /\ p.ended)
      BY <1>3 DEF Sensible
    <2> QED
      BY <2>1, <2>2, <2>3 DEF Sensible
  <1>5. OneLotMore(o, p, lot)
    BY <1>0, <1>1, <1>3 DEF OneLotMore
  <1> QED
    BY <1>2, <1>4, <1>5 DEF p, lot

(* An update. *)
LEMMA UpdatedOrder ==
    ASSUME NEW ss, NEW o \in OrderIn(ss), Sensible(o, ss.planner.lot)
    PROVE  LET p == [o EXCEPT !.known = TRUE, !.filled = Greatest(o.filled, o.done),
                              !.ended = o.ended \/ ~o.open, !.ahead = o.ahead \/ o.applied < o.done]
           IN  /\ p \in OrderIn(ss) /\ Sensible(p, ss.planner.lot) /\ Keeps(o, p)
               /\ Dormant(o) => Dormant(p) /\ p.applied = o.applied
  <1> DEFINE p == [o EXCEPT !.known = TRUE, !.filled = Greatest(o.filled, o.done),
                            !.ended = o.ended \/ ~o.open, !.ahead = o.ahead \/ o.applied < o.done]
  <1>0. /\ o.applied \in Nat /\ o.done \in Nat /\ o.filled \in Nat /\ o.open \in BOOLEAN
        /\ o.ended \in BOOLEAN /\ o.ahead \in BOOLEAN /\ Greatest(o.filled, o.done) \in Nat
    BY OrderFields DEF Greatest
  <1>1. p \in OrderIn(ss)
    BY <1>0 DEF OrderIn
  <1>2. /\ p.sym = o.sym /\ p.side = o.side /\ p.qty = o.qty /\ p.late = o.late /\ p.done = o.done
        /\ p.open = o.open /\ p.applied = o.applied /\ p.filled = Greatest(o.filled, o.done)
        /\ p.ended = (o.ended \/ ~o.open) /\ p.ahead = (o.ahead \/ o.applied < o.done)
        /\ p.known /\ p.vouched = o.vouched
    BY DEF OrderIn
  <1> HIDE DEF p
  <1>3. Sensible(p, ss.planner.lot)
    <2>1. /\ p.applied <= p.done /\ p.done <= p.qty /\ (p.open => p.done < p.qty)
          /\ (p.vouched => p.known) /\ OnLot(p.qty, ss.planner.lot) /\ OnLot(p.done, ss.planner.lot)
          /\ OnLot(p.applied, ss.planner.lot)
      BY <1>2 DEF Sensible
    <2>2. ASSUME ~p.ahead
          PROVE  p.filled <= p.applied /\ (p.ended => ~p.open /\ p.applied = p.done)
      <3>1. ~o.ahead /\ ~(o.applied < o.done)
        BY <1>2, <2>2
      <3>2. o.applied <= o.done /\ o.filled <= o.applied /\ (o.ended => ~o.open)
        BY <3>1 DEF Sensible
      <3>3. o.applied = o.done /\ Greatest(o.filled, o.done) = o.done
        BY <1>0, <3>1, <3>2 DEF Greatest
      <3> QED
        BY <1>0, <1>2, <3>2, <3>3
    <2> QED
      BY <2>1, <2>2 DEF Sensible
  <1>4. Keeps(o, p) /\ (Dormant(o) => Dormant(p) /\ p.applied = o.applied)
    BY <1>2 DEF Keeps, Dormant
  <1> QED
    BY <1>1, <1>3, <1>4 DEF p

(* A fill. *)
LEMMA FilledOrder ==
    ASSUME NEW ss, NEW o \in OrderIn(ss), Sensible(o, ss.planner.lot), o.applied < o.done,
           ss.planner.lot \in Nat \ {0}
    PROVE  LET lot == ss.planner.lot
               p   == [o EXCEPT !.applied = o.applied + lot,
                                !.filled = IF o.known THEN o.filled + lot ELSE o.filled,
                                !.ended = o.ended \/ (o.known /\ o.filled + lot >= o.qty)]
           IN  p \in OrderIn(ss) /\ Sensible(p, lot) /\ Keeps(o, p) /\ ~Dormant(o)
  <1> DEFINE lot == ss.planner.lot
             filled == IF o.known THEN o.filled + lot ELSE o.filled
             p == [o EXCEPT !.applied = o.applied + lot, !.filled = filled,
                            !.ended = o.ended \/ (o.known /\ o.filled + lot >= o.qty)]
  <1>0. /\ o.applied \in Nat /\ o.done \in Nat /\ o.qty \in Nat /\ o.filled \in Nat /\ lot \in Nat \ {0}
        /\ o.done <= o.qty /\ OnLot(o.applied, lot) /\ OnLot(o.done, lot)
        /\ o.ended \in BOOLEAN /\ o.known \in BOOLEAN /\ o.open \in BOOLEAN /\ o.ahead \in BOOLEAN
        /\ o.open => o.done < o.qty
    BY OrderFields DEF Sensible
  <1>1. o.applied + lot \in Nat /\ o.applied + lot <= o.done /\ OnLot(o.applied + lot, lot)
    <2> HIDE DEF lot
    <2> QED
      BY <1>0, LotMore
  <1>2. filled \in Nat /\ filled <= o.filled + lot
    BY <1>0
  <1> HIDE DEF filled
  <1>3. p \in OrderIn(ss)
    BY <1>0, <1>1, <1>2 DEF OrderIn
  <1>4. /\ p.sym = o.sym /\ p.side = o.side /\ p.qty = o.qty /\ p.late = o.late /\ p.done = o.done
        /\ p.open = o.open /\ p.applied = o.applied + lot /\ p.filled = filled
        /\ p.ended = (o.ended \/ (o.known /\ o.filled + lot >= o.qty)) /\ p.ahead = o.ahead
        /\ p.known = o.known /\ p.vouched = o.vouched
    BY DEF OrderIn
  <1> HIDE DEF p, lot
  <1>5. Sensible(p, lot)
    <2>1. ASSUME ~p.ahead
          PROVE  /\ p.filled <= p.applied
                 /\ p.ended => ~p.open /\ p.applied = p.done
      <3>1. o.filled <= o.applied /\ ~o.ended
        BY <1>0, <1>4, <2>1 DEF Sensible, lot
      <3> QED
        BY <1>0, <1>1, <1>2, <1>4, <3>1
    <2> QED
      BY <1>0, <1>1, <1>4, <2>1 DEF Sensible, lot
  <1>6. Keeps(o, p) /\ ~Dormant(o)
    BY <1>0, <1>4 DEF Keeps, Dormant
  <1> QED
    BY <1>3, <1>5, <1>6 DEF p, lot, filled

-----------------------------------------------------------------------------
(* The path as a whole.                                                    *)

Intent(ss) ==
    [sym : DOMAIN ss.held, cancels : SUBSET Nat, orders : SUBSET Wishes(ss.planner.lot), late : BOOLEAN]

PathInv ==
    /\ session \in Sessions
    /\ orders \in Seq(OrderIn(session))
    /\ \A id \in 1..Len(orders) : Sensible(orders[id], session.planner.lot)
    /\ queue \in Seq(Intent(session))
    /\ stage \in {"idle", "sent", "resting", "filled", "lost"}
    /\ stage # "idle" => queue # <<>> /\ Here.cancels = {} /\ Here.orders # {}
    /\ stage \in {"resting", "filled", "lost"} =>
            orders # <<>> /\ orders[Len(orders)].sym = Here.sym
    /\ stage = "filled" => ~orders[Len(orders)].open

LEMMA SessionIs ==
    ASSUME NEW ss \in Sessions
    PROVE  /\ IsFiniteSet(DOMAIN ss.held) /\ \A x \in DOMAIN ss.held : ss.held[x] \in Int
           /\ IsFiniteSet(ss.marks) /\ ss.marks \subseteq Nat
           /\ ss.planner.lot \in Nat \ {0}
           /\ \A x \in DOMAIN ss.held :
                Abs(ss.held[x]) <= ss.limits.position /\ OnLot(ss.held[x], ss.planner.lot)
           /\ ss.limits.position \in Nat /\ ss.limits.symbols \in Nat /\ ss.limits.gross \in Nat
           /\ ss.signals \subseteq Askable
           /\ \A quote \in ss.quotes :
                /\ Priceable(ss.planner, quote)
                /\ Usable(quote) => quote.bid >= ss.planner.slip + ss.planner.tick
  <1>1. Asks(ss) /\ Starts(ss)
    BY SessionsAssumption
  <1>2. ss.planner.lot \in Nat \ {0} /\ \A x \in DOMAIN ss.held : ss.held[x] \in Int
    BY <1>1 DEF Asks, Starts
  <1>3. ASSUME NEW x \in DOMAIN ss.held
        PROVE  Abs(ss.held[x]) <= ss.limits.position /\ OnLot(ss.held[x], ss.planner.lot)
    <2>1. Abs(ss.held[x]) <= ss.limits.position /\ ss.held[x] % ss.planner.lot = 0
      BY <1>1, <1>3 DEF Starts
    <2> QED
      BY <1>2, <1>3, <2>1, RemainderIsLot
  <1>4. /\ IsFiniteSet(DOMAIN ss.held) /\ IsFiniteSet(ss.marks) /\ ss.marks \subseteq Nat
        /\ ss.limits.position \in Nat /\ ss.limits.symbols \in Nat /\ ss.limits.gross \in Nat
    BY <1>1 DEF Starts
  <1>5. ss.signals \subseteq Askable
    BY <1>1 DEF Asks, Askable
  <1>6. ASSUME NEW quote \in ss.quotes
        PROVE  /\ Priceable(ss.planner, quote)
               /\ Usable(quote) => quote.bid >= ss.planner.slip + ss.planner.tick
    <2>1. /\ quote \in [bid : Nat, ask : Nat]
          /\ Usable(quote) => quote.bid >= ss.planner.slip + ss.planner.tick
      BY <1>1, <1>6 DEF Asks
    <2>2. quote.bid \in Nat /\ quote.ask \in Nat
      BY <2>1
    <2> QED
      BY <1>1, <2>1, <2>2 DEF Asks, Priceable
  <1> QED
    BY <1>2, <1>3, <1>4, <1>5, <1>6

LEMMA FinitelyMany ==
    ASSUME NEW S, NEW os \in Seq(S), NEW T, T \subseteq 1..Len(os)
    PROVE  IsFiniteSet(T)
  <1>1. Len(os) \in Nat
    BY LenProperties
  <1>2. IsFiniteSet(1..Len(os))
    BY <1>1, FS_Interval
  <1> DEFINE I == 1..Len(os)
  <1> HIDE DEF I
  <1>3. IsFiniteSet(I) /\ T \subseteq I
    BY <1>2 DEF I
  <1> QED
    BY <1>3, FS_Subset

(* What the tracker holds is in whole lots. *)
LEMMA SeenIs ==
    ASSUME PathInv, NEW s \in Symbols
    PROVE  Seen(s) \in Int /\ OnLot(Seen(s), session.planner.lot)
  <1> DEFINE lot == session.planner.lot
             sum == SumFunctionOnSet(Applied, Ids(s))
  <1>1. lot \in Nat \ {0} /\ session.held[s] \in Int /\ OnLot(session.held[s], lot)
    BY SessionIs DEF PathInv, Symbols
  <1>2. IsFiniteSet(Ids(s))
    BY FinitelyMany DEF PathInv, Ids
  <1>3. ASSUME NEW id \in Ids(s)
        PROVE  \E k \in Int : Applied[id] = lot * k
    <2>1. /\ id \in 1..Len(orders) /\ orders[id] \in OrderIn(session)
          /\ OnLot(orders[id].applied, session.planner.lot)
      BY <1>3 DEF Ids, PathInv, Sensible
    <2>2. orders[id].applied \in Int
      BY <2>1, OrderFields
    <2>3. Applied[id] = Signed(orders[id].side, orders[id].applied)
      BY <2>1 DEF Applied
    <2>4. Applied[id] \in {orders[id].applied, -orders[id].applied}
      BY <2>3 DEF Signed
    <2>5. OnLot(orders[id].applied, lot) /\ OnLot(-orders[id].applied, lot)
      <3> HIDE DEF lot
      <3>1. OnLot(orders[id].applied, lot)
        BY <2>1 DEF lot
      <3> QED
        BY <1>1, <2>2, <3>1, LotsAdd
    <2>6. OnLot(Applied[id], lot)
      BY <2>4, <2>5
    <2> QED
      BY <2>6 DEF OnLot
  <1>4. PICK k \in Int : sum = lot * k
    <2>1. lot \in Int
      BY <1>1
    <2> HIDE DEF lot
    <2> QED
      BY <1>2, <1>3, <2>1, SumIsMultiple
  <1>5. PICK j \in Int : session.held[s] = lot * j
    BY <1>1 DEF OnLot
  <1>6. Seen(s) = session.held[s] + sum
    BY DEF Seen
  <1> HIDE DEF lot, sum
  <1>7. Seen(s) = lot * (j + k) /\ j + k \in Int /\ lot * (j + k) \in Int
    BY <1>1, <1>4, <1>5, <1>6
  <1>8. OnLot(Seen(s), lot) /\ Seen(s) \in Int
    BY <1>7, Zenon DEF OnLot
  <1> QED
    BY <1>8 DEF lot

LEMMA Replaced ==
    ASSUME NEW S, NEW os \in Seq(S), NEW id, NEW p, id \in 1..Len(os) => p \in S
    PROVE  LET ot == [os EXCEPT ![id] = p]
           IN  /\ ot \in Seq(S) /\ Len(ot) = Len(os) /\ (os # <<>> => ot # <<>>)
               /\ \A k \in 1..Len(os) : ot[k] = IF k = id THEN p ELSE os[k]
  <1> DEFINE ot == [os EXCEPT ![id] = p]
  <1>1. Len(os) \in Nat /\ os \in [1..Len(os) -> S] /\ DOMAIN os = 1..Len(os)
    BY LenProperties
  <1>2. ot = [k \in 1..Len(os) |-> IF k = id THEN p ELSE os[k]]
    BY <1>1
  <1>3. ot \in [1..Len(os) -> S]
    BY <1>1, <1>2
  <1> HIDE DEF ot
  <1>4. ot \in Seq(S) /\ Len(ot) = Len(os)
    BY <1>1, <1>3, LenProperties
  <1>5. os # <<>> => ot # <<>>
    BY <1>4, EmptySeq
  <1> QED
    BY <1>2, <1>4, <1>5 DEF ot

(* The queue, cut short or grown. *)
LEMMA QueueIs ==
    ASSUME PathInv
    PROVE  /\ \A it \in Intent(session) :
                /\ Append(queue, it) \in Seq(Intent(session))
                /\ queue # <<>> => Append(queue, it) # <<>> /\ Head(Append(queue, it)) = Head(queue)
           /\ queue # <<>> => Tail(queue) \in Seq(Intent(session)) /\ Here \in Intent(session) /\ Here = queue[1]
           /\ queue # <<>> => 1 \in 1..Len(queue)
  <1>1. queue \in Seq(Intent(session))
    BY DEF PathInv
  <1>2. ASSUME queue # <<>>
        PROVE  /\ Tail(queue) \in Seq(Intent(session)) /\ Here \in Intent(session) /\ Here = queue[1]
               /\ Len(queue) \in Nat /\ Len(queue) >= 1
    <2>1. Len(queue) \in Nat /\ Len(queue) # 0
      BY <1>1, <1>2, EmptySeq, LenProperties
    <2> QED
      BY <1>1, <1>2, <2>1, HeadTailProperties, ElementOfSeq DEF Here
  <1>3. ASSUME NEW it \in Intent(session)
        PROVE  /\ Append(queue, it) \in Seq(Intent(session))
               /\ queue # <<>> => Append(queue, it) # <<>> /\ Head(Append(queue, it)) = Head(queue)
    <2>1. /\ Append(queue, it) \in Seq(Intent(session)) /\ Len(Append(queue, it)) = Len(queue) + 1
          /\ \A i \in 1..Len(queue) : Append(queue, it)[i] = queue[i]
      BY <1>1, AppendProperties
    <2>2. ASSUME queue # <<>>
          PROVE  Append(queue, it) # <<>> /\ Head(Append(queue, it)) = Head(queue)
      <3>1. Append(queue, it) # <<>>
        BY <1>2, <2>1, <2>2, EmptySeq
      <3>2. Head(Append(queue, it)) = Append(queue, it)[1] /\ Head(queue) = queue[1]
        BY <1>1, <2>1, <2>2, <3>1, HeadTailProperties
      <3> QED
        BY <1>2, <2>1, <2>2, <3>1, <3>2
    <2> QED
      BY <2>1, <2>2
  <1> QED
    BY <1>2, <1>3

LEMMA WishIs ==
    ASSUME PathInv, queue # <<>>, Here.orders # {}
    PROVE  /\ Here.sym \in Symbols /\ Here.late \in BOOLEAN /\ Wish \in Here.orders
           /\ Wish \in Wishes(session.planner.lot)
           /\ Wish.side \in Sides /\ Wish.qty \in Nat \ {0} /\ Wish.price \in Nat /\ Wish.reduce \in BOOLEAN
           /\ Wish.tif \in {"postOnly", "gtc", "ioc"} /\ OnLot(Wish.qty, session.planner.lot)
  <1>1. Here \in Intent(session)
    BY QueueIs
  <1>2. /\ Here.sym \in DOMAIN session.held /\ Here.late \in BOOLEAN
        /\ Here.orders \subseteq Wishes(session.planner.lot)
    BY <1>1 DEF Intent
  <1>3. Wish \in Here.orders
    BY DEF Wish
  <1>4. Wish \in Wishes(session.planner.lot)
    BY <1>2, <1>3
  <1> QED
    BY <1>2, <1>3, <1>4 DEF Wishes, Symbols

(* The orders with one of them replaced. *)
Rebooked(ot, id, p) ==
    /\ ot \in Seq(OrderIn(session)) /\ Len(ot) = Len(orders)
    /\ orders # <<>> => ot # <<>>
    /\ \A k \in 1..Len(orders) : ot[k] = IF k = id THEN p ELSE orders[k]
    /\ \A k \in 1..Len(ot) : Sensible(ot[k], session.planner.lot)

LEMMA OneOrderChanges ==
    ASSUME PathInv, NEW id, NEW p,
           id \in 1..Len(orders) => p \in OrderIn(session) /\ Sensible(p, session.planner.lot)
    PROVE  Rebooked([orders EXCEPT ![id] = p], id, p)
  <1>1. orders \in Seq(OrderIn(session)) /\ \A k \in 1..Len(orders) : Sensible(orders[k], session.planner.lot)
    BY DEF PathInv
  <1> DEFINE ot == [orders EXCEPT ![id] = p]
  <1>2. /\ ot \in Seq(OrderIn(session)) /\ Len(ot) = Len(orders)
        /\ orders # <<>> => ot # <<>>
        /\ \A k \in 1..Len(orders) : ot[k] = IF k = id THEN p ELSE orders[k]
    BY <1>1, Replaced
  <1> HIDE DEF ot
  <1>3. \A k \in 1..Len(ot) : Sensible(ot[k], session.planner.lot)
    BY <1>1, <1>2
  <1>4. Rebooked(ot, id, p)
    BY <1>2, <1>3 DEF Rebooked
  <1> QED
    BY <1>4 DEF ot

-----------------------------------------------------------------------------
(* Steps.                                                                  *)

(* A step that admits, accepts and trades nothing. *)
Quiet ==
    /\ session' = session /\ misread' = misread /\ stacked' = stacked
    /\ Len(orders') = Len(orders)
    /\ \A id \in 1..Len(orders) : Keeps(orders[id], orders'[id])
    /\ \A id \in 1..Len(orders) :
        Dormant(orders[id]) /\ ~(stage # "idle" /\ Here.sym = orders[id].sym)
            => Dormant(orders'[id]) /\ orders'[id].applied = orders[id].applied
    /\ stage' # "idle" => stage' = stage /\ Head(queue') = Head(queue)

LEMMA KeepsItself ==
    ASSUME NEW ss, NEW o \in OrderIn(ss)
    PROVE  Keeps(o, o)
  BY DEF Keeps

(* Orders, stage and head are left alone. *)
LEMMA OrdersStay ==
    ASSUME PathInv, UNCHANGED <<session, orders, stage, misread, stacked>>,
           queue' \in Seq(Intent(session)),
           stage # "idle" => queue' # <<>> /\ Head(queue') = Head(queue)
    PROVE  PathInv' /\ Quiet
  <1>1. Quiet
    BY KeepsItself DEF Quiet, PathInv, Keeps
  <1>2. PathInv'
    BY DEF PathInv, Here
  <1> QED
    BY <1>1, <1>2

LEMMA PathStays ==
    ASSUME PathInv, UNCHANGED <<session, orderVars>>
    PROVE  PathInv' /\ Quiet
  <1>1. UNCHANGED <<session, orders, stage, misread, stacked, queue>>
    BY DEF orderVars
  <1>2. queue' \in Seq(Intent(session)) /\ (stage # "idle" => queue' # <<>> /\ Head(queue') = Head(queue))
    BY <1>1 DEF PathInv
  <1> QED
    BY <1>1, <1>2, OrdersStay

LEMMA PlanSymbolPath ==
    ASSUME PathInv, NEW s \in Symbols, PlanSymbol(s)
    PROVE  PathInv' /\ Quiet
  <1>1. PICK sig \in session.signals, quote \in session.quotes, aged \in BOOLEAN :
            queue' = Append(queue, [sym |-> s,
                cancels |-> Plan(sig, Context(s, quote, aged), session.planner).cancels,
                orders |-> Plan(sig, Context(s, quote, aged), session.planner).orders, late |-> FALSE])
    BY DEF PlanSymbol
  <1> DEFINE ctx == Context(s, quote, aged)
             plan == Plan(sig, ctx, session.planner)
             it == [sym |-> s, cancels |-> plan.cancels, orders |-> plan.orders, late |-> FALSE]
  <1>2. /\ sig \in Askable /\ Priceable(session.planner, quote) /\ session.planner.lot \in Nat \ {0}
    BY SessionIs DEF PathInv
  <1>3. ctx.quote \in {quote, NoQuote} /\ ctx.position = Seen(s) /\ ctx.working = Working(s)
    BY DEF Context
  <1>4. Sound(sig, ctx.position, session.planner)
    BY <1>2, <1>3, SeenIs DEF Sound, Askable
  <1>5. plan.orders \subseteq Wishes(session.planner.lot)
    <2> SUFFICES ASSUME NEW req \in plan.orders
                 PROVE  req \in Wishes(session.planner.lot)
      OBVIOUS
    <2> HIDE DEF ctx
    <2> QED
      BY <1>2, <1>3, <1>4, OrdersAreSendable
  <1>6. plan.cancels \subseteq Nat
    <2>1. \A w \in ctx.working : w.id \in Nat
      <3>1. \A w \in Working(s) : w.id \in Tracked(s)
        BY DEF Working
      <3>2. Tracked(s) \subseteq Nat
        <4>1. Len(orders) \in Nat
          BY LenProperties DEF PathInv
        <4> QED
          BY <4>1 DEF Tracked, Ids
      <3> QED
        BY <1>3, <3>1, <3>2
    <2> HIDE DEF ctx
    <2>2. plan.cancels = {} \/ plan.cancels = {w.id : w \in ctx.working}
      BY DEF Plan
    <2> QED
      BY <2>1, <2>2
  <1>7. it \in Intent(session)
    <2> HIDE DEF plan
    <2> QED
      BY <1>5, <1>6 DEF Intent, Symbols
  <1>8. queue' = Append(queue, it)
    BY <1>1
  <1> HIDE DEF it
  <1>9. UNCHANGED <<session, orders, stage, misread, stacked>>
    BY DEF PlanSymbol
  <1>10. queue' \in Seq(Intent(session)) /\ (stage # "idle" => queue' # <<>> /\ Head(queue') = Head(queue))
    BY <1>7, <1>8, QueueIs DEF PathInv
  <1> QED
    BY <1>9, <1>10, OrdersStay

LEMMA PumpCancelPath ==
    ASSUME PathInv, PumpCancel
    PROVE  PathInv' /\ Quiet
  <1>1. PICK id \in Here.cancels :
            /\ queue' = [queue EXCEPT ![1].cancels = @ \ {id}]
            /\ orders' \in {orders, [orders EXCEPT ![id].open = FALSE]}
    BY DEF PumpCancel
  <1>2. queue # <<>> /\ stage = "idle" /\ UNCHANGED <<session, stage, misread, stacked>>
    BY DEF PumpCancel
  <1>3. queue' \in Seq(Intent(session))
    <2> DEFINE it == [queue[1] EXCEPT !.cancels = @ \ {id}]
    <2>1. queue[1] \in Intent(session)
      BY <1>2, QueueIs
    <2>2. it \in Intent(session)
      BY <2>1 DEF Intent
    <2>3. queue' = [queue EXCEPT ![1] = it]
      BY <1>1
    <2> HIDE DEF it
    <2> QED
      BY <2>2, <2>3, Replaced DEF PathInv
  <1>4. CASE orders' = orders
    BY <1>2, <1>3, <1>4, OrdersStay
  <1>5. CASE orders' = [orders EXCEPT ![id].open = FALSE]
    <2> DEFINE p == [orders[id] EXCEPT !.open = FALSE]
    <2>1. ASSUME id \in 1..Len(orders)
          PROVE  /\ p \in OrderIn(session) /\ Sensible(p, session.planner.lot) /\ Keeps(orders[id], p)
                 /\ Dormant(orders[id]) => Dormant(p) /\ p.applied = orders[id].applied
      <3>1. orders[id] \in OrderIn(session) /\ Sensible(orders[id], session.planner.lot)
        BY <2>1 DEF PathInv
      <3> QED
        BY <3>1, CancelledOrder
    <2>2. orders' = [orders EXCEPT ![id] = p]
      BY <1>5
    <2> HIDE DEF p
    <2>3. /\ orders' \in Seq(OrderIn(session)) /\ Len(orders') = Len(orders)
          /\ \A k \in 1..Len(orders) : orders'[k] = IF k = id THEN p ELSE orders[k]
          /\ \A k \in 1..Len(orders') : Sensible(orders'[k], session.planner.lot)
      <3>1. Rebooked(orders', id, p)
        BY <2>1, <2>2, OneOrderChanges
      <3> QED
        BY <3>1 DEF Rebooked
    <2>4. Quiet
      BY <1>2, <2>1, <2>3 DEF Quiet, Keeps
    <2>5. PathInv'
      BY <1>2, <1>3, <2>3 DEF PathInv
    <2> QED
      BY <2>4, <2>5
  <1> QED
    BY <1>1, <1>4, <1>5

LEMMA QueueShortens ==
    ASSUME PathInv, queue # <<>>, queue' = Tail(queue), stage' = "idle",
           UNCHANGED <<session, orders, misread, stacked>>
    PROVE  PathInv' /\ Quiet
  <1>1. queue' \in Seq(Intent(session))
    BY QueueIs
  <1>2. Quiet
    BY KeepsItself DEF Quiet, PathInv
  <1>3. PathInv'
    BY <1>1 DEF PathInv
  <1> QED
    BY <1>2, <1>3

LEMMA PumpHearsPath ==
    ASSUME PathInv, PumpHears
    PROVE  PathInv' /\ Quiet
  <1>1. /\ stage \in {"resting", "filled", "lost"} /\ stage' = "idle" /\ queue' = Tail(queue) /\ queue # <<>>
        /\ UNCHANGED <<session, misread, stacked>>
        /\ orders' = IF stage = "lost" THEN orders ELSE [orders EXCEPT ![Len(orders)] = OnAck(@, stage)]
    BY DEF PumpHears, PathInv
  <1>2. CASE stage = "lost"
    BY <1>1, <1>2, QueueShortens
  <1>3. CASE stage # "lost"
    <2> DEFINE id == Len(orders)
               p == OnAck(orders[id], stage)
    <2>1. /\ orders[id].sym = Here.sym /\ id \in 1..Len(orders)
          /\ orders[id] \in OrderIn(session) /\ Sensible(orders[id], session.planner.lot)
          /\ stage \in {"resting", "filled"} /\ (stage = "filled" => ~orders[id].open)
      <3>1. orders # <<>> /\ Len(orders) \in Nat
        BY <1>1, LenProperties DEF PathInv
      <3>2. Len(orders) # 0
        BY <3>1, EmptySeq DEF PathInv
      <3> QED
        BY <1>1, <1>3, <3>1, <3>2 DEF PathInv
    <2>2. p \in OrderIn(session) /\ Sensible(p, session.planner.lot) /\ Keeps(orders[id], p)
      <3> HIDE DEF id
      <3> QED
        BY <2>1, AnsweredOrder
    <2>3. orders' = [orders EXCEPT ![id] = p]
      BY <1>1, <1>3
    <2> HIDE DEF p, id
    <2>4. /\ orders' \in Seq(OrderIn(session)) /\ Len(orders') = Len(orders)
          /\ \A k \in 1..Len(orders) : orders'[k] = IF k = id THEN p ELSE orders[k]
          /\ \A k \in 1..Len(orders') : Sensible(orders'[k], session.planner.lot)
      <3>1. Rebooked(orders', id, p)
        BY <2>2, <2>3, OneOrderChanges
      <3> QED
        BY <3>1 DEF Rebooked
    <2>5. Quiet
      <3>1. \A k \in 1..Len(orders) : Keeps(orders[k], orders'[k])
        BY <2>2, <2>4 DEF Keeps
      <3>2. \A k \in 1..Len(orders) :
                Dormant(orders[k]) /\ ~(stage # "idle" /\ Here.sym = orders[k].sym)
                    => Dormant(orders'[k]) /\ orders'[k].applied = orders[k].applied
        BY <1>1, <2>1, <2>4
      <3> QED
        BY <1>1, <2>4, <3>1, <3>2 DEF Quiet
    <2>6. PathInv'
      <3>1. queue' \in Seq(Intent(session))
        BY <1>1, QueueIs
      <3> QED
        BY <1>1, <2>4, <3>1 DEF PathInv
    <2> QED
      BY <2>5, <2>6
  <1> QED
    BY <1>2, <1>3

LEMMA OneFrame ==
    ASSUME PathInv, NEW id \in 1..Len(orders), NEW p, orders' = [orders EXCEPT ![id] = p],
           p \in OrderIn(session), Sensible(p, session.planner.lot), Keeps(orders[id], p),
           Dormant(orders[id]) => Dormant(p) /\ p.applied = orders[id].applied,
           UNCHANGED <<session, queue, stage, misread, stacked>>
    PROVE  PathInv' /\ Quiet
  <1>1. /\ orders' \in Seq(OrderIn(session)) /\ Len(orders') = Len(orders)
        /\ orders # <<>> => orders' # <<>>
        /\ \A k \in 1..Len(orders) : orders'[k] = IF k = id THEN p ELSE orders[k]
        /\ \A k \in 1..Len(orders') : Sensible(orders'[k], session.planner.lot)
    <2>1. Rebooked(orders', id, p)
      BY OneOrderChanges
    <2> QED
      BY <2>1 DEF Rebooked
  <1>2. Quiet
    <2>1. \A k \in 1..Len(orders) : Keeps(orders[k], orders'[k])
      BY <1>1 DEF Keeps
    <2>2. \A k \in 1..Len(orders) :
            Dormant(orders[k]) => Dormant(orders'[k]) /\ orders'[k].applied = orders[k].applied
      BY <1>1
    <2> QED
      BY <1>1, <2>1, <2>2 DEF Quiet
  <1>3. stage \in {"resting", "filled", "lost"} => orders # <<>> /\ Len(orders) \in 1..Len(orders)
    <2>1. Len(orders) \in Nat /\ (Len(orders) = 0 <=> orders = <<>>)
      BY EmptySeq, LenProperties DEF PathInv
    <2> QED
      BY <2>1 DEF PathInv
  <1>4. stage \in {"resting", "filled", "lost"} =>
            /\ orders' # <<>> /\ orders'[Len(orders')].sym = Here.sym
            /\ stage = "filled" => ~orders'[Len(orders')].open
    <2> SUFFICES ASSUME stage \in {"resting", "filled", "lost"}
                 PROVE  /\ orders' # <<>> /\ orders'[Len(orders')].sym = Here.sym
                        /\ stage = "filled" => ~orders'[Len(orders')].open
      OBVIOUS
    <2> DEFINE n == Len(orders)
    <2>1. n \in 1..n /\ orders[n].sym = Here.sym /\ (stage = "filled" => ~orders[n].open)
      BY <1>3 DEF PathInv
    <2>2. Keeps(orders[n], orders'[n]) /\ Len(orders') = n
      BY <1>1, <1>2, <2>1 DEF Quiet
    <2>3. orders' # <<>>
      BY <1>1, <1>3
    <2> HIDE DEF n
    <2> QED
      BY <2>1, <2>2, <2>3 DEF Keeps
  <1>5. PathInv'
    BY <1>1, <1>4 DEF PathInv, Here
  <1> QED
    BY <1>2, <1>5

LEMMA OrderFramePath ==
    ASSUME PathInv, NEW id \in 1..Len(orders), OrderFrame(id)
    PROVE  PathInv' /\ Quiet
  <1> DEFINE o == orders[id]
             p == [o EXCEPT !.known = TRUE, !.filled = Greatest(o.filled, o.done),
                            !.ended = o.ended \/ ~o.open, !.ahead = o.ahead \/ o.applied < o.done]
  <1>1. o \in OrderIn(session) /\ Sensible(o, session.planner.lot)
    BY DEF PathInv
  <1>2. /\ p \in OrderIn(session) /\ Sensible(p, session.planner.lot) /\ Keeps(o, p)
        /\ Dormant(o) => Dormant(p) /\ p.applied = o.applied
    <2> HIDE DEF o
    <2> QED
      BY <1>1, UpdatedOrder
  <1>3. orders' = [orders EXCEPT ![id] = p] /\ UNCHANGED <<session, queue, stage, misread, stacked>>
    BY DEF OrderFrame
  <1> HIDE DEF p
  <1> QED
    BY <1>2, <1>3, OneFrame

LEMMA FillFramePath ==
    ASSUME PathInv, NEW id \in 1..Len(orders), FillFrame(id)
    PROVE  PathInv' /\ Quiet
  <1> DEFINE o == orders[id]
             lot == session.planner.lot
             p == [o EXCEPT !.applied = o.applied + lot,
                            !.filled = IF o.known THEN o.filled + lot ELSE o.filled,
                            !.ended = o.ended \/ (o.known /\ o.filled + lot >= o.qty)]
  <1>1. o \in OrderIn(session) /\ Sensible(o, session.planner.lot) /\ session.planner.lot \in Nat \ {0}
    BY SessionIs DEF PathInv
  <1>2. /\ orders' = [orders EXCEPT ![id] = p] /\ UNCHANGED <<session, queue, stage, misread, stacked>>
        /\ o.applied < o.done
    BY DEF FillFrame, Lot
  <1>3. p \in OrderIn(session) /\ Sensible(p, session.planner.lot) /\ Keeps(o, p) /\ ~Dormant(o)
    <2> HIDE DEF o
    <2> QED
      BY <1>1, <1>2, FilledOrder
  <1> HIDE DEF p
  <1> QED
    BY <1>2, <1>3, OneFrame

(* A trade. *)
Traded(id) ==
    /\ UNCHANGED <<session, queue, stage, misread, stacked>>
    /\ Len(orders') = Len(orders)
    /\ \A k \in 1..Len(orders) : k # id => orders'[k] = orders[k]
    /\ orders[id].open /\ OneLotMore(orders[id], orders'[id], session.planner.lot)

LEMMA TradePath ==
    ASSUME PathInv, NEW id \in 1..Len(orders), Trade(id)
    PROVE  PathInv' /\ Traded(id)
  <1> DEFINE o == orders[id]
             p == [o EXCEPT !.done = o.done + session.planner.lot, !.open = o.done + session.planner.lot < o.qty]
  <1>1. o \in OrderIn(session) /\ Sensible(o, session.planner.lot) /\ session.planner.lot \in Nat \ {0}
    BY SessionIs DEF PathInv
  <1>2. orders' = [orders EXCEPT ![id] = p] /\ UNCHANGED <<session, queue, stage, misread, stacked>>
    BY DEF Trade, Lot
  <1>3. p \in OrderIn(session) /\ Sensible(p, session.planner.lot) /\ OneLotMore(o, p, session.planner.lot)
    <2>1. o.open
      BY DEF Trade
    <2> HIDE DEF o
    <2> QED
      BY <1>1, <2>1, TradedOrder
  <1> HIDE DEF p
  <1>4. /\ orders' \in Seq(OrderIn(session)) /\ Len(orders') = Len(orders)
        /\ orders # <<>> => orders' # <<>>
        /\ \A k \in 1..Len(orders) : orders'[k] = IF k = id THEN p ELSE orders[k]
        /\ \A k \in 1..Len(orders') : Sensible(orders'[k], session.planner.lot)
    <2>1. Rebooked(orders', id, p)
      BY <1>2, <1>3, OneOrderChanges
    <2> QED
      BY <2>1 DEF Rebooked
  <1>5. Traded(id)
    <2>1. orders[id].open
      BY DEF Trade
    <2> QED
      BY <1>2, <1>3, <1>4, <2>1 DEF Traded
  <1>6. stage \in {"resting", "filled", "lost"} =>
            /\ orders' # <<>> /\ orders'[Len(orders')].sym = Here.sym
            /\ stage = "filled" => ~orders'[Len(orders')].open
    <2> SUFFICES ASSUME stage \in {"resting", "filled", "lost"}
                 PROVE  /\ orders' # <<>> /\ orders'[Len(orders')].sym = Here.sym
                        /\ stage = "filled" => ~orders'[Len(orders')].open
      OBVIOUS
    <2> DEFINE n == Len(orders)
    <2>1. orders # <<>> /\ orders[n].sym = Here.sym /\ (stage = "filled" => ~orders[n].open)
      BY DEF PathInv
    <2>2. n \in 1..n
      <3>1. n \in Nat /\ (n = 0 <=> orders = <<>>)
        BY EmptySeq, LenProperties DEF PathInv
      <3> HIDE DEF n
      <3> QED
        BY <2>1, <3>1
    <2>3. orders' # <<>>
      BY <1>4, <2>1
    <2>4. Len(orders') = n /\ orders'[n].sym = orders[n].sym /\ (~orders[n].open => orders'[n] = orders[n])
      BY <1>4, <1>5, <2>2 DEF Traded, OneLotMore
    <2> HIDE DEF n
    <2> QED
      BY <2>1, <2>3, <2>4
  <1>7. PathInv'
    BY <1>2, <1>4, <1>6 DEF PathInv, Here
  <1> QED
    BY <1>5, <1>7

(* An order the venue accepts. *)
Accepted ==
    /\ UNCHANGED <<session, queue, misread, stacked>> /\ stage = "sent" /\ stage' # "sent"
    /\ orders' \in Seq(OrderIn(session)) /\ Len(orders') = Len(orders) + 1
    /\ \A k \in 1..Len(orders) : orders'[k] = orders[k]
    /\ LET o == orders'[Len(orders) + 1]
       IN  /\ o.sym = Here.sym /\ o.side = Wish.side /\ o.qty = Wish.qty /\ o.late = Here.late
           /\ o.done = IF o.open THEN 0 ELSE o.qty

LEMMA VenueAcceptsPath ==
    ASSUME PathInv, VenueAccepts
    PROVE  PathInv' /\ Accepted
  <1>1. PICK qty \in {0, Wish.qty} :
            /\ orders' = Append(orders,
                 [sym |-> Here.sym, side |-> Wish.side, qty |-> Wish.qty, price |-> Wish.price,
                  reduce |-> Wish.reduce, tif |-> Wish.tif, open |-> qty = 0, done |-> qty,
                  known |-> FALSE, vouched |-> FALSE, filled |-> 0, ended |-> FALSE, applied |-> 0,
                  ahead |-> FALSE, late |-> Here.late])
            /\ stage' \in {"lost", IF qty = 0 THEN "resting" ELSE "filled"}
    BY DEF VenueAccepts
  <1>2. stage = "sent" /\ UNCHANGED <<session, queue, misread, stacked>>
    BY DEF VenueAccepts
  <1>3. queue # <<>> /\ Here.orders # {} /\ Here.cancels = {}
    BY <1>2 DEF PathInv
  <1>4. /\ Here.sym \in Symbols /\ Here.late \in BOOLEAN
        /\ Wish.side \in Sides /\ Wish.qty \in Nat \ {0} /\ Wish.price \in Nat /\ Wish.reduce \in BOOLEAN
        /\ Wish.tif \in {"postOnly", "gtc", "ioc"} /\ OnLot(Wish.qty, session.planner.lot)
    BY <1>3, WishIs
  <1> DEFINE p == [sym |-> Here.sym, side |-> Wish.side, qty |-> Wish.qty, price |-> Wish.price,
                   reduce |-> Wish.reduce, tif |-> Wish.tif, open |-> qty = 0, done |-> qty,
                   known |-> FALSE, vouched |-> FALSE, filled |-> 0, ended |-> FALSE, applied |-> 0,
                   ahead |-> FALSE, late |-> Here.late]
  <1>5. /\ p.sym = Here.sym /\ p.side = Wish.side /\ p.qty = Wish.qty /\ p.late = Here.late
        /\ p.open = (qty = 0) /\ p.done = qty /\ p.known = FALSE /\ p.vouched = FALSE /\ p.filled = 0
        /\ p.ended = FALSE /\ p.applied = 0
    OBVIOUS
  <1>6. p \in OrderIn(session)
    BY <1>4 DEF OrderIn, Symbols
  <1>7. Sensible(p, session.planner.lot)
    <2>1. OnLot(0, session.planner.lot)
      <3>1. 0 = session.planner.lot * 0
        BY SessionIs DEF PathInv
      <3> QED
        BY <3>1 DEF OnLot
    <2>2. OnLot(qty, session.planner.lot) /\ qty \in Nat /\ qty <= Wish.qty /\ (qty = 0 => qty < Wish.qty)
      BY <1>4, <2>1
    <2> HIDE DEF p
    <2>3. /\ p.applied <= p.done /\ p.done <= p.qty /\ (p.open => p.done < p.qty)
          /\ ~p.vouched /\ p.filled <= p.applied /\ ~p.ended
      <3>1. p.applied = 0 /\ p.done = qty /\ p.qty = Wish.qty /\ p.filled = 0
        BY <1>5
      <3>2. p.open => qty = 0
        BY <1>5
      <3> QED
        BY <1>4, <1>5, <2>2, <3>1, <3>2
    <2>4. /\ OnLot(p.qty, session.planner.lot) /\ OnLot(p.done, session.planner.lot)
          /\ OnLot(p.applied, session.planner.lot)
      BY <1>4, <1>5, <2>1, <2>2, Zenon
    <2> QED
      BY <2>3, <2>4 DEF Sensible
  <1> DEFINE n == Len(orders)
  <1>8. orders' = Append(orders, p)
    BY <1>1
  <1> HIDE DEF p
  <1>9. /\ orders' \in Seq(OrderIn(session)) /\ Len(orders') = n + 1 /\ n \in Nat
        /\ \A k \in 1..n : orders'[k] = orders[k]
        /\ orders'[n + 1] = p
    BY <1>6, <1>8, AppendProperties, LenProperties DEF PathInv
  <1> HIDE DEF n
  <1>10. \A k \in 1..Len(orders') : Sensible(orders'[k], session.planner.lot)
    BY <1>7, <1>9 DEF PathInv, n
  <1>11. stage' \in {"resting", "filled", "lost"} /\ (stage' = "filled" => ~p.open)
    BY <1>1, <1>5
  <1>12. orders' # <<>> /\ orders'[Len(orders')] = p
    BY <1>9, EmptySeq
  <1>13. PathInv'
    BY <1>2, <1>3, <1>5, <1>9, <1>10, <1>11, <1>12 DEF PathInv, Here
  <1>14. Accepted
    <2>1. p.done = IF p.open THEN 0 ELSE p.qty
      BY <1>1, <1>4, <1>5
    <2> QED
      BY <1>2, <1>5, <1>9, <1>11, <2>1 DEF Accepted, n
  <1> QED
    BY <1>13, <1>14

(* An order that passes the gate. *)
LEMMA PumpPlacePath ==
    ASSUME PathInv, tripped \in BOOLEAN, PumpPlace
    PROVE  /\ PathInv'
           /\ stage = "idle" /\ stage' = "sent" /\ UNCHANGED <<session, orders, marks>>
           /\ queue # <<>> /\ Here.orders # {} /\ Cleared
           /\ Head(queue').sym = Here.sym /\ Head(queue').orders = Here.orders
           /\ Head(queue').late = tripped
  <1>1. /\ queue # <<>> /\ stage = "idle" /\ Here.cancels = {} /\ Here.orders # {}
        /\ stage' = "sent" /\ queue' = [queue EXCEPT ![1].late = tripped]
        /\ UNCHANGED <<session, orders, marks>> /\ Cleared
    BY DEF PumpPlace
  <1> DEFINE it == [queue[1] EXCEPT !.late = tripped]
  <1>2. queue[1] \in Intent(session) /\ Here = queue[1] /\ 1 \in 1..Len(queue)
    BY <1>1, QueueIs
  <1>3. /\ it.sym = Here.sym /\ it.orders = Here.orders /\ it.cancels = Here.cancels /\ it.late = tripped
        /\ it \in Intent(session)
    BY <1>2 DEF Intent
  <1>4. queue' = [queue EXCEPT ![1] = it]
    BY <1>1
  <1> HIDE DEF it
  <1>5. queue' \in Seq(Intent(session)) /\ Len(queue') = Len(queue) /\ queue'[1] = it
    BY <1>2, <1>3, <1>4, Replaced DEF PathInv
  <1>6. queue' # <<>> /\ Head(queue') = it
    <2>1. Len(queue') \in Nat /\ Len(queue') # 0
      BY <1>2, <1>5, LenProperties
    <2> QED
      BY <1>5, <2>1, EmptySeq, HeadTailProperties
  <1>7. PathInv'
    BY <1>1, <1>3, <1>5, <1>6 DEF PathInv, Here
  <1> QED
    BY <1>1, <1>3, <1>6, <1>7

LEMMA PathInit ==
    ASSUME Init
    PROVE  PathInv
  <1>1. session \in Sessions /\ orders = <<>> /\ queue = <<>> /\ stage = "idle"
    BY DEF Init
  <1>2. orders \in Seq(OrderIn(session)) /\ queue \in Seq(Intent(session)) /\ Len(orders) = 0
    BY <1>1
  <1> QED
    BY <1>1, <1>2 DEF PathInv

(* The steps of the path: what changes orders or exposure, and the rest. *)
PathStep ==
    \/ Quiet /\ (stage # "sent" => stage' # "sent")
    \/ \E id \in 1..Len(orders) : Traded(id) /\ Trade(id)
    \/ Accepted
    \/ PumpPlace

LEMMA PathNext ==
    ASSUME PathInv, tripped \in BOOLEAN, [Next]_vars
    PROVE  PathInv' /\ PathStep
  <1>1. ASSUME NEW s \in Symbols, PlanSymbol(s)
        PROVE  PathInv' /\ PathStep
    <2>1. stage' = stage
      BY <1>1 DEF PlanSymbol
    <2> QED
      BY <1>1, <2>1, PlanSymbolPath DEF PathStep
  <1>2. ASSUME UNCHANGED <<session, orderVars>>
        PROVE  PathInv' /\ PathStep
    <2>1. stage' = stage
      BY <1>2 DEF orderVars
    <2> QED
      BY <1>2, <2>1, PathStays DEF PathStep
  <1>3. ASSUME NEW s \in Symbols, MarkMoves(s)
        PROVE  PathInv' /\ PathStep
    BY <1>2, <1>3 DEF MarkMoves
  <1>4. CASE PumpCancel
    <2>1. stage' = stage
      BY <1>4 DEF PumpCancel
    <2> QED
      BY <1>4, <2>1, PumpCancelPath DEF PathStep
  <1>5. CASE PumpPlace
    BY <1>5, PumpPlacePath DEF PathStep
  <1>6. CASE PumpDone
    <2>1. /\ queue # <<>> /\ queue' = Tail(queue) /\ stage' = "idle"
          /\ UNCHANGED <<session, orders, misread, stacked>>
      BY <1>6 DEF PumpDone
    <2> QED
      BY <2>1, QueueShortens DEF PathStep
  <1>7. CASE PumpHears
    <2>1. stage' = "idle"
      BY <1>7 DEF PumpHears
    <2> QED
      BY <1>7, <2>1, PumpHearsPath DEF PathStep
  <1>8. CASE VenueAccepts
    BY <1>8, VenueAcceptsPath DEF PathStep
  <1>9. CASE VenueRefuses
    <2>1. /\ queue' = Tail(queue) /\ stage' = "idle" /\ stage = "sent"
          /\ UNCHANGED <<session, orders, misread, stacked>>
      BY <1>9 DEF VenueRefuses
    <2>2. queue # <<>>
      BY <2>1 DEF PathInv
    <2> QED
      BY <2>1, <2>2, QueueShortens DEF PathStep
  <1>10. ASSUME NEW id \in 1..Len(orders), Trade(id)
         PROVE  PathInv' /\ PathStep
    BY <1>10, TradePath DEF PathStep
  <1>11. ASSUME NEW id \in 1..Len(orders), OrderFrame(id)
         PROVE  PathInv' /\ PathStep
    <2>1. stage' = stage
      BY <1>11 DEF OrderFrame
    <2> QED
      BY <1>11, <2>1, OrderFramePath DEF PathStep
  <1>12. ASSUME NEW id \in 1..Len(orders), FillFrame(id)
         PROVE  PathInv' /\ PathStep
    <2>1. stage' = stage
      BY <1>12 DEF FillFrame
    <2> QED
      BY <1>12, <2>1, FillFramePath DEF PathStep
  <1>13. CASE Tick \/ StepBack \/ AskBudget \/ HearBudget
    BY <1>2, <1>13 DEF Tick, StepBack, AskBudget, HearBudget
  <1>14. CASE Swing \/ PollAccount \/ Midnight \/ StatusPass \/ Restart
    BY <1>2, <1>14 DEF Swing, PollAccount, Midnight, StatusPass, Restart, otherVars
  <1>15. CASE UNCHANGED vars
    BY <1>2, <1>15 DEF vars
  <1> QED
    BY <1>1, <1>3, <1>4, <1>5, <1>6, <1>7, <1>8, <1>9, <1>10, <1>11, <1>12, <1>13, <1>14, <1>15 DEF Next

-----------------------------------------------------------------------------
(* Plans.                                                                  *)

LEMMA APlanIsRight ==
    ASSUME PathInv
    PROVE  PlansAreRight
  <1> SUFFICES ASSUME NEW s \in Symbols, NEW sig \in session.signals, NEW quote \in session.quotes
               PROVE  LET planned == Plan(sig, Context(s, quote, TRUE), session.planner).orders
                      IN  /\ \A req \in planned :
                                /\ ReachesItsTarget(req, sig, Seen(s), session.planner.lot)
                                /\ HasASendablePrice(req, sig, quote, session.planner.tick)
                          /\ LeavesIfAsked(planned, sig, Seen(s), s, quote)
    BY DEF PlansAreRight
  <1> DEFINE ctx == Context(s, quote, TRUE)
             cfg == session.planner
             planned == Plan(sig, ctx, cfg).orders
  <1>1. /\ sig \in Askable /\ Priceable(cfg, quote) /\ cfg.lot \in Nat \ {0}
        /\ Usable(quote) => quote.bid >= cfg.slip + cfg.tick
        /\ cfg.precision # "known" => cfg.lot = 1
    <2>1. Asks(session)
      BY SessionsAssumption DEF PathInv
    <2>2. cfg.precision # "known" => cfg.lot = 1
      BY <2>1 DEF Asks
    <2> QED
      BY <2>2, SessionIs DEF PathInv
  <1>2. /\ ctx.quote = (IF marks[s] = Unpriced THEN NoQuote ELSE quote)
        /\ ctx.position = Seen(s) /\ ctx.aged = TRUE
    BY DEF Context
  <1>3. Sound(sig, ctx.position, cfg)
    BY <1>1, <1>2, SeenIs DEF Sound, Askable
  <1> HIDE DEF ctx, cfg
  <1>4. ASSUME NEW req \in planned
        PROVE  ReachesItsTarget(req, sig, Seen(s), cfg.lot) /\ HasASendablePrice(req, sig, quote, cfg.tick)
    <2>1. ReachesItsTarget(req, sig, ctx.position, cfg.lot)
      BY <1>1, <1>3, <1>4, OrdersReachTheirTarget
    <2>2. HasASendablePrice(req, sig, quote, cfg.tick)
      BY <1>1, <1>2, <1>3, <1>4, OrdersAreSendable
    <2> QED
      BY <1>2, <2>1, <2>2
  <1>5. LeavesIfAsked(planned, sig, Seen(s), s, quote)
    <2>1. SUFFICES ASSUME marks[s] # Unpriced, Usable(quote), sig.close \/ sig.target = 0, sig.limit = 0,
                          cfg.precision = "known", Seen(s) # 0
                   PROVE  \E req \in planned : Seen(s) + Signed(req.side, req.qty) = 0
      BY DEF LeavesIfAsked, cfg
    <2>2. ctx.quote = quote
      BY <1>2, <2>1
    <2>3. \E req \in planned : ctx.position + Signed(req.side, req.qty) = 0
      BY <1>1, <1>2, <1>3, <2>1, <2>2, ExitsArePlanned
    <2> QED
      BY <1>2, <2>3
  <1> QED
    BY <1>4, <1>5 DEF ctx, cfg

PathAndLoss == PathInv /\ LossInv

LEMMA PathAndLossHold == Spec => []PathAndLoss
  <1>1. Init => PathAndLoss
    BY PathInit, LossInit DEF PathAndLoss
  <1>2. PathAndLoss /\ [Next]_vars => PathAndLoss'
    <2>1. LossInv => tripped \in BOOLEAN
      BY DEF LossInv, MoneyTypes
    <2> QED
      BY <2>1, PathNext, LossNext DEF PathAndLoss
  <1> QED
    BY <1>1, <1>2, PTL DEF Spec

(* planner.rs, plan: whatever the session has done before, an order that is
   planned takes the position to the lot nearest its target, at a price on
   the tick, within the band and across the touch if it is to trade now; an
   exit without a band of its own is always planned where the quote is usable,
   and nothing is on a locked, crossed or one-sided book (PlansAreRight). *)
THEOREM EveryPlanIsRight == Spec => []PlansAreRight
  <1>1. PathAndLoss => PlansAreRight
    BY APlanIsRight DEF PathAndLoss
  <1> QED
    BY <1>1, PathAndLossHold, PTL

-----------------------------------------------------------------------------
(* Exposure.  The furthest the orders of a symbol may still take its       *)
(* position to one side: every order of the side that rests is filled,     *)
(* and no order of the other.                                              *)

Most(o, d) == IF o.side = d THEN IF o.open THEN o.qty ELSE o.done ELSE -o.done
Gain(os, d) == [id \in 1..Len(os) |-> Most(os[id], d)]
Of(os, s) == {id \in 1..Len(os) : os[id].sym = s}
Toward(ss, os, s, d) == Signed(d, ss.held[s]) + SumFunctionOnSet(Gain(os, d), Of(os, s))

(* ... and with an order on its way. *)
WishOf(it) == CHOOSE req \in it.orders : TRUE
Pending(st, q, s, d) ==
    IF st = "sent" /\ Head(q).sym = s /\ WishOf(Head(q)).side = d THEN WishOf(Head(q)).qty ELSE 0

Booked(ss, os) ==
    /\ ss \in Sessions /\ os \in Seq(OrderIn(ss))
    /\ \A id \in 1..Len(os) : Sensible(os[id], ss.planner.lot)

LEMMA MostIs ==
    ASSUME NEW ss, NEW o \in OrderIn(ss), Sensible(o, ss.planner.lot)
    PROVE  /\ \A d \in Sides : Most(o, d) \in Int
           /\ Most(o, "buy") + Most(o, "sell") >= 0
  <1>1. /\ o.side \in {"buy", "sell"} /\ o.qty \in Nat /\ o.done \in Nat /\ o.done <= o.qty
    BY OrderFields DEF Sensible, Sides
  <1>2. "buy" # "sell"
    OBVIOUS
  <1> QED
    BY <1>1, <1>2 DEF Most, Sides

LEMMA GainIs ==
    ASSUME NEW ss, NEW os, Booked(ss, os), NEW s, NEW d \in Sides
    PROVE  /\ IsFiniteSet(Of(os, s))
           /\ \A id \in Of(os, s) :
                /\ Gain(os, d)[id] = Most(os[id], d) /\ Gain(os, d)[id] \in Int
                /\ id \in 1..Len(os) /\ os[id].sym = s
                /\ os[id] \in OrderIn(ss) /\ Sensible(os[id], ss.planner.lot)
  <1>1. IsFiniteSet(Of(os, s))
    BY FinitelyMany DEF Of, Booked
  <1>2. ASSUME NEW id \in Of(os, s)
        PROVE  /\ Gain(os, d)[id] = Most(os[id], d) /\ Gain(os, d)[id] \in Int
               /\ id \in 1..Len(os) /\ os[id].sym = s
               /\ os[id] \in OrderIn(ss) /\ Sensible(os[id], ss.planner.lot)
    <2>1. id \in 1..Len(os) /\ os[id].sym = s /\ os[id] \in OrderIn(ss) /\ Sensible(os[id], ss.planner.lot)
      BY <1>2 DEF Of, Booked
    <2>2. Gain(os, d)[id] = Most(os[id], d)
      BY <2>1 DEF Gain
    <2>3. Most(os[id], d) \in Int
      BY <2>1, MostIs
    <2> QED
      BY <2>1, <2>2, <2>3
  <1> QED
    BY <1>1, <1>2

LEMMA SignedIs ==
    ASSUME NEW d \in Sides, NEW n \in Int
    PROVE  Signed(d, n) \in Int /\ Signed("buy", n) = n /\ Signed("sell", n) = -n
  BY DEF Signed, Sides

LEMMA TowardIs ==
    ASSUME NEW ss, NEW os, Booked(ss, os), NEW s \in DOMAIN ss.held, NEW d \in Sides
    PROVE  Toward(ss, os, s, d) \in Int /\ Toward(ss, os, s, "buy") + Toward(ss, os, s, "sell") >= 0
  <1>1. ss.held[s] \in Int
    BY SessionIs DEF Booked
  <1> DEFINE S == Of(os, s)
             B == Gain(os, "buy")
             C == Gain(os, "sell")
             D == Gain(os, d)
             H == [id \in S |-> B[id] + C[id]]
  <1>2. "buy" \in Sides /\ "sell" \in Sides
    BY DEF Sides
  <1>3. IsFiniteSet(S) /\ \A id \in S : B[id] \in Int /\ C[id] \in Int /\ D[id] \in Int /\ H[id] \in Nat
    <2>1. ASSUME NEW id \in S
          PROVE  B[id] \in Int /\ C[id] \in Int /\ D[id] \in Int /\ B[id] + C[id] >= 0
      <3>1. /\ B[id] = Most(os[id], "buy") /\ C[id] = Most(os[id], "sell")
            /\ os[id] \in OrderIn(ss) /\ Sensible(os[id], ss.planner.lot)
            /\ B[id] \in Int /\ C[id] \in Int /\ D[id] \in Int
        BY <1>2, <2>1, GainIs
      <3>2. Most(os[id], "buy") + Most(os[id], "sell") >= 0
        BY <3>1, MostIs
      <3> QED
        BY <3>1, <3>2
    <2>2. IsFiniteSet(S)
      BY GainIs
    <2> HIDE DEF B, C, D, S
    <2> QED
      BY <2>1, <2>2
  <1>4. \A id \in S : H[id] = B[id] + C[id]
    OBVIOUS
  <1>5. /\ Toward(ss, os, s, d) = Signed(d, ss.held[s]) + SumFunctionOnSet(D, S)
        /\ Toward(ss, os, s, "buy") = ss.held[s] + SumFunctionOnSet(B, S)
        /\ Toward(ss, os, s, "sell") = -ss.held[s] + SumFunctionOnSet(C, S)
    BY <1>1, SignedIs DEF Toward
  <1> HIDE DEF S, B, C, D, H
  <1>6. \A id \in S : B[id] \in Int /\ C[id] \in Int /\ H[id] = B[id] + C[id]
    BY <1>3, <1>4
  <1>7. SumFunctionOnSet(H, S) = SumFunctionOnSet(B, S) + SumFunctionOnSet(C, S)
    BY <1>3, <1>6, SumOfBoth
  <1>8. SumFunctionOnSet(H, S) \in Nat
    BY <1>3, SumIsNatural
  <1>9. SumFunctionOnSet(B, S) \in Int /\ SumFunctionOnSet(C, S) \in Int /\ SumFunctionOnSet(D, S) \in Int
    <2>1. \A id \in S : B[id] \in Int
      BY <1>3
    <2>2. \A id \in S : C[id] \in Int
      BY <1>3
    <2>3. \A id \in S : D[id] \in Int
      BY <1>3
    <2> QED
      BY <1>3, <2>1, <2>2, <2>3, SumIsInteger
  <1>10. Signed(d, ss.held[s]) \in Int
    BY <1>1, SignedIs
  <1> QED
    BY <1>1, <1>5, <1>7, <1>8, <1>9, <1>10

(* Orders that can come to no more take the position no further. *)
LEMMA TowardShrinks ==
    ASSUME NEW ss, NEW os, NEW ot, Booked(ss, os), Booked(ss, ot), Len(ot) = Len(os),
           NEW s \in DOMAIN ss.held, NEW d \in Sides,
           \A id \in 1..Len(os) : ot[id].sym = os[id].sym /\ Most(ot[id], d) <= Most(os[id], d)
    PROVE  Toward(ss, ot, s, d) <= Toward(ss, os, s, d)
  <1> DEFINE S == Of(os, s)
             F == Gain(ot, d)
             G == Gain(os, d)
  <1>1. Of(ot, s) = S
    BY DEF Of
  <1>2. ASSUME NEW id \in S
        PROVE  F[id] \in Int /\ G[id] \in Int /\ F[id] <= G[id]
    <2>1. id \in Of(ot, s) /\ id \in 1..Len(os)
      BY <1>1, <1>2 DEF Of
    <2>2. F[id] = Most(ot[id], d) /\ F[id] \in Int
      BY <2>1, GainIs
    <2>3. G[id] = Most(os[id], d) /\ G[id] \in Int
      BY <1>2, GainIs
    <2> QED
      BY <2>1, <2>2, <2>3
  <1>3. IsFiniteSet(S)
    BY GainIs
  <1>4. /\ Toward(ss, ot, s, d) = Signed(d, ss.held[s]) + SumFunctionOnSet(F, S)
        /\ Toward(ss, os, s, d) = Signed(d, ss.held[s]) + SumFunctionOnSet(G, S)
    BY <1>1 DEF Toward
  <1>5. Signed(d, ss.held[s]) \in Int
    BY SessionIs, SignedIs DEF Booked
  <1> HIDE DEF S, F, G
  <1>6. SumFunctionOnSet(F, S) <= SumFunctionOnSet(G, S)
    BY <1>2, <1>3, SumOfLess
  <1>7. SumFunctionOnSet(F, S) \in Int /\ SumFunctionOnSet(G, S) \in Int
    <2>1. \A id \in S : F[id] \in Int
      BY <1>2
    <2>2. \A id \in S : G[id] \in Int
      BY <1>2
    <2> QED
      BY <1>3, <2>1, <2>2, SumIsInteger
  <1> QED
    BY <1>4, <1>5, <1>6, <1>7

(* One order more adds what it can come to. *)
LEMMA TowardGrows ==
    ASSUME NEW ss, NEW os, NEW ot, Booked(ss, os), Booked(ss, ot), Len(ot) = Len(os) + 1,
           NEW s \in DOMAIN ss.held, NEW d \in Sides,
           \A id \in 1..Len(os) : ot[id] = os[id]
    PROVE  Toward(ss, ot, s, d) = Toward(ss, os, s, d)
                + (IF ot[Len(os) + 1].sym = s THEN Most(ot[Len(os) + 1], d) ELSE 0)
  <1> DEFINE n == Len(os)
             S == Of(os, s)
             T == Of(ot, s)
             F == Gain(ot, d)
             G == Gain(os, d)
  <1>0. n \in Nat /\ 1..Len(ot) = 1..n \cup {n + 1} /\ n + 1 \notin 1..n
    BY LenProperties DEF Booked
  <1>1. T = IF ot[n + 1].sym = s THEN S \cup {n + 1} ELSE S
    BY <1>0 DEF Of
  <1>2. n + 1 \notin S
    BY <1>0 DEF Of
  <1>3. ASSUME NEW id \in S
        PROVE  F[id] \in Int /\ F[id] = G[id]
    <2>1. id \in 1..n /\ id \in T
      BY <1>1, <1>3 DEF Of
    <2>2. F[id] = Most(ot[id], d) /\ F[id] \in Int
      BY <2>1, GainIs
    <2>3. G[id] = Most(os[id], d)
      BY <1>3, GainIs
    <2> QED
      BY <2>1, <2>2, <2>3
  <1>4. IsFiniteSet(S)
    BY GainIs
  <1>5. n + 1 \in T => F[n + 1] = Most(ot[n + 1], d) /\ F[n + 1] \in Int
    <2> HIDE DEF n
    <2> QED
      BY GainIs
  <1>6. /\ Toward(ss, ot, s, d) = Signed(d, ss.held[s]) + SumFunctionOnSet(F, T)
        /\ Toward(ss, os, s, d) = Signed(d, ss.held[s]) + SumFunctionOnSet(G, S)
    BY DEF Toward
  <1>7. Signed(d, ss.held[s]) \in Int
    BY SessionIs, SignedIs DEF Booked
  <1> HIDE DEF n, S, T, F, G
  <1>8. SumFunctionOnSet(F, S) = SumFunctionOnSet(G, S) /\ SumFunctionOnSet(F, S) \in Int
    BY <1>3, <1>4, SumOfSame, SumIsInteger
  <1>9. CASE ot[n + 1].sym = s
    <2>1. T = S \cup {n + 1} /\ F[n + 1] \in Int /\ F[n + 1] = Most(ot[n + 1], d)
      BY <1>1, <1>5, <1>9
    <2>2. \A id \in S \cup {n + 1} : F[id] \in Int
      BY <1>3, <2>1
    <2>3. SumFunctionOnSet(F, T) = SumFunctionOnSet(F, S) + F[n + 1]
      BY <1>2, <1>4, <2>1, <2>2, SumPutsIn
    <2>4. Toward(ss, ot, s, d) = Toward(ss, os, s, d) + Most(ot[n + 1], d)
      BY <1>6, <1>7, <1>8, <2>1, <2>3
    <2> QED
      BY <1>9, <2>4 DEF n
  <1>10. CASE ot[n + 1].sym # s
    <2>1. Toward(ss, ot, s, d) = Toward(ss, os, s, d) /\ Toward(ss, os, s, d) \in Int
      BY <1>1, <1>6, <1>7, <1>8, <1>10
    <2> QED
      BY <1>10, <2>1 DEF n
  <1> QED
    BY <1>9, <1>10

LEMMA OrdersAreBooked ==
    ASSUME PathInv
    PROVE  Booked(session, orders) /\ \A s : Of(orders, s) = Ids(s)
  BY DEF PathInv, Booked, Of, Ids

LEMMA SignedTwice ==
    ASSUME NEW d \in Sides, NEW e \in Sides, NEW n \in Int
    PROVE  /\ Signed(d, Signed(e, n)) = (IF e = d THEN n ELSE -n)
           /\ Signed(d, Signed(e, n)) \in Int /\ Signed(e, n) \in Int
  <1>1. d \in {"buy", "sell"} /\ e \in {"buy", "sell"}
    BY DEF Sides
  <1> QED
    BY <1>1 DEF Signed

LEMMA SignedSums ==
    ASSUME NEW d \in Sides, NEW F, NEW G, NEW S, IsFiniteSet(S),
           \A x \in S : F[x] \in Int /\ G[x] = Signed(d, F[x])
    PROVE  /\ SumFunctionOnSet(F, S) \in Int
           /\ SumFunctionOnSet(G, S) = Signed(d, SumFunctionOnSet(F, S))
  <1>1. \A x \in S : F[x] \in Int
    OBVIOUS
  <1>2. SumFunctionOnSet(F, S) \in Int
    BY <1>1, SumIsInteger
  <1>3. CASE d = "buy"
    <2>1. \A x \in S : F[x] \in Int /\ F[x] = G[x]
      BY <1>3 DEF Signed
    <2>2. SumFunctionOnSet(F, S) = SumFunctionOnSet(G, S)
      BY <2>1, SumOfSame
    <2> QED
      BY <1>2, <1>3, <2>2 DEF Signed
  <1>4. CASE d = "sell"
    <2>1. \A x \in S : F[x] \in Int /\ G[x] = -F[x]
      BY <1>4 DEF Signed
    <2>2. SumFunctionOnSet(G, S) = -SumFunctionOnSet(F, S)
      BY <2>1, SumOfNegative
    <2> QED
      BY <1>2, <1>4, <2>2 DEF Signed
  <1> QED
    BY <1>2, <1>3, <1>4 DEF Sides

(* ... is what the property calls the worst. *)
LEMMA TowardIsWorst ==
    ASSUME PathInv, NEW s \in Symbols, NEW d \in Sides
    PROVE  Worst(s, d) \in Int /\ Held(s) \in Int /\ Toward(session, orders, s, d) = Signed(d, Worst(s, d))
  <1> DEFINE S == Ids(s)
             R == Resting(s, d)
             D == [id \in S |-> Done[id]]
             C == [id \in S |-> IF id \in R THEN ToCome[id] ELSE 0]
             W == [id \in S |-> D[id] + C[id]]
             G == Gain(orders, d)
  <1>1. Booked(session, orders) /\ Of(orders, s) = S /\ s \in DOMAIN session.held /\ R \subseteq S
    BY OrdersAreBooked DEF Symbols, Resting
  <1>2. IsFiniteSet(S) /\ IsFiniteSet(R)
    <2>1. IsFiniteSet(S)
      BY <1>1, GainIs
    <2> HIDE DEF S, R
    <2> QED
      BY <1>1, <2>1, FS_Subset
  <1>3. ASSUME NEW id \in S
        PROVE  /\ D[id] \in Int /\ C[id] \in Int /\ D[id] = Done[id]
               /\ id \in R => C[id] = ToCome[id]
               /\ G[id] = Signed(d, D[id] + C[id])
    <2> DEFINE o == orders[id]
    <2>1. /\ o \in OrderIn(session) /\ G[id] = Most(o, d) /\ id \in 1..Len(orders)
          /\ id \in R <=> (o.open /\ o.side = d)
      BY <1>1, <1>3, GainIs DEF Resting
    <2>2. o.side \in Sides /\ o.qty \in Int /\ o.done \in Int /\ o.open \in BOOLEAN
      BY <2>1, OrderFields
    <2>3. Done[id] = Signed(o.side, o.done) /\ ToCome[id] = Signed(o.side, o.qty - o.done)
      BY <2>1 DEF Done, ToCome
    <2>4. D[id] = Signed(o.side, o.done)
          /\ C[id] = IF o.open /\ o.side = d THEN Signed(o.side, o.qty - o.done) ELSE 0
      BY <1>3, <2>1, <2>3
    <2> HIDE DEF o, D, C
    <2>5. o.side \in {"buy", "sell"} /\ d \in {"buy", "sell"}
      BY <2>2 DEF Sides
    <2>6. D[id] \in Int /\ C[id] \in Int
      BY <2>2, <2>4, <2>5 DEF Signed
    <2>7. Most(o, d) = Signed(d, D[id] + C[id])
      BY <2>2, <2>4, <2>5 DEF Signed, Most
    <2> QED
      BY <1>3, <2>1, <2>3, <2>4, <2>6, <2>7 DEF D, C, o
  <1>4. \A id \in S : W[id] = D[id] + C[id]
    OBVIOUS
  <1>5. \A id \in S \ R : C[id] = 0
    OBVIOUS
  <1>6. /\ Held(s) = session.held[s] + SumFunctionOnSet(Done, S)
        /\ Worst(s, d) = Held(s) + SumFunctionOnSet(ToCome, R)
        /\ Toward(session, orders, s, d) = Signed(d, session.held[s]) + SumFunctionOnSet(G, S)
    BY <1>1 DEF Held, Worst, Toward
  <1>7. session.held[s] \in Int
    BY <1>1, SessionIs DEF Booked
  <1>8. R \in SUBSET S
    BY <1>1
  <1> HIDE DEF S, R, D, C, W, G
  <1>9. SumFunctionOnSet(Done, S) = SumFunctionOnSet(D, S) /\ SumFunctionOnSet(D, S) \in Int
    <2>1. \A id \in S : D[id] \in Int /\ D[id] = Done[id]
      BY <1>3
    <2>2. \A id \in S : D[id] \in Int
      BY <1>3
    <2> QED
      BY <1>2, <2>1, <2>2, SumOfSame, SumIsInteger
  <1>10. SumFunctionOnSet(ToCome, R) = SumFunctionOnSet(C, S) /\ SumFunctionOnSet(C, S) \in Int
    <2>1. \A id \in R : C[id] \in Int /\ C[id] = ToCome[id]
      BY <1>3, <1>8
    <2>2. \A id \in S : C[id] \in Int
      BY <1>3
    <2>3. SumFunctionOnSet(C, R) = SumFunctionOnSet(ToCome, R)
      BY <1>2, <2>1, SumOfSame
    <2>4. SumFunctionOnSet(C, S) = SumFunctionOnSet(C, R)
      BY <1>2, <1>5, <1>8, <2>2, SumLeavesOut
    <2>5. SumFunctionOnSet(C, S) \in Int
      BY <1>2, <2>2, SumIsInteger
    <2> QED
      BY <2>3, <2>4, <2>5
  <1>11. SumFunctionOnSet(W, S) = SumFunctionOnSet(D, S) + SumFunctionOnSet(C, S)
    <2>1. \A id \in S : D[id] \in Int /\ C[id] \in Int /\ W[id] = D[id] + C[id]
      BY <1>3, <1>4
    <2> QED
      BY <1>2, <2>1, SumOfBoth
  <1>12. SumFunctionOnSet(G, S) = Signed(d, SumFunctionOnSet(W, S))
    <2>1. \A id \in S : W[id] \in Int /\ G[id] = Signed(d, W[id])
      BY <1>3, <1>4
    <2> QED
      BY <1>2, <2>1, SignedSums
  <1>13. Worst(s, d) = session.held[s] + SumFunctionOnSet(W, S) /\ SumFunctionOnSet(W, S) \in Int
         /\ Worst(s, d) \in Int /\ Held(s) \in Int
    BY <1>6, <1>7, <1>9, <1>10, <1>11
  <1>14. Signed(d, session.held[s]) + Signed(d, SumFunctionOnSet(W, S))
            = Signed(d, session.held[s] + SumFunctionOnSet(W, S))
    BY <1>7, <1>13 DEF Signed
  <1> QED
    BY <1>6, <1>12, <1>13, <1>14

-----------------------------------------------------------------------------
(* What the gate reads.                                                    *)

Believed(s) ==
    [id \in 1..Len(orders) |->
        Signed(orders[id].side, orders[id].applied + (IF id \in Tracked(s) THEN Left(id) ELSE 0))]

LEMMA RiskIs ==
    ASSUME PathInv, NEW s \in Symbols
    PROVE  /\ RiskPosition(s) = session.held[s] + SumFunctionOnSet(Believed(s), Ids(s))
           /\ RiskPosition(s) \in Int
           /\ IsFiniteSet(Ids(s)) /\ IsFiniteSet(Tracked(s)) /\ Tracked(s) \subseteq Ids(s)
           /\ RiskPosition(s) = Seen(s) + SumFunctionOnSet(Remaining(s), Tracked(s))
           /\ \A id \in Ids(s) : Believed(s)[id] \in Int
           /\ \A id \in Tracked(s) : Remaining(s)[id] = Signed(orders[id].side, Left(id))
           /\ \A id \in Ids(s) : Left(id) \in Nat /\ orders[id] \in OrderIn(session)
                                 /\ Sensible(orders[id], session.planner.lot)
  <1> DEFINE S == Ids(s)
             T == Tracked(s)
             B == Believed(s)
             A == [id \in S |-> Applied[id]]
             M == Remaining(s)
             R == [id \in S |-> IF id \in T THEN M[id] ELSE 0]
  <1>1. T \in SUBSET S /\ S \subseteq 1..Len(orders)
    BY DEF Tracked, Ids
  <1>2. IsFiniteSet(S) /\ IsFiniteSet(T)
    <2>1. IsFiniteSet(S)
      BY <1>1, FinitelyMany DEF PathInv
    <2> HIDE DEF S, T
    <2> QED
      BY <1>1, <2>1, FS_Subset
  <1>3. ASSUME NEW id \in S
        PROVE  /\ orders[id] \in OrderIn(session) /\ Sensible(orders[id], session.planner.lot)
               /\ orders[id].side \in Sides /\ orders[id].qty \in Int /\ orders[id].filled \in Int
               /\ orders[id].applied \in Int /\ Left(id) \in Nat
    <2>1. orders[id] \in OrderIn(session) /\ Sensible(orders[id], session.planner.lot)
      BY <1>1, <1>3 DEF PathInv
    <2>2. orders[id].side \in Sides /\ orders[id].qty \in Int /\ orders[id].filled \in Int /\ orders[id].applied \in Int
      BY <2>1, OrderFields
    <2>3. Left(id) \in Nat
      BY <2>2 DEF Left, AtLeastZero
    <2> QED
      BY <2>1, <2>2, <2>3
  <1>4. \A id \in T : M[id] = Signed(orders[id].side, Left(id))
    BY DEF Remaining
  <1>5. ASSUME NEW id \in S
        PROVE  /\ A[id] \in Int /\ R[id] \in Int /\ B[id] = A[id] + R[id]
               /\ A[id] = Applied[id] /\ (id \in T => R[id] = M[id]) /\ (id \notin T => R[id] = 0)
    <2>1. A[id] = Signed(orders[id].side, orders[id].applied) /\ A[id] = Applied[id]
      BY <1>1, <1>5 DEF Applied
    <2>2. R[id] = (IF id \in T THEN Signed(orders[id].side, Left(id)) ELSE 0)
          /\ (id \in T => R[id] = M[id]) /\ (id \notin T => R[id] = 0)
      BY <1>4, <1>5
    <2>3. B[id] = Signed(orders[id].side, orders[id].applied + (IF id \in T THEN Left(id) ELSE 0))
      BY <1>1, <1>5 DEF Believed
    <2>4. /\ orders[id].side \in {"buy", "sell"} /\ orders[id].applied \in Int /\ Left(id) \in Int
      BY <1>3, <1>5 DEF Sides
    <2> HIDE DEF A, R, B, T
    <2>5. A[id] \in Int /\ R[id] \in Int
      BY <2>1, <2>2, <2>4 DEF Signed
    <2>6. B[id] = A[id] + R[id]
      <3>1. CASE id \in T
        BY <2>1, <2>2, <2>3, <2>4, <3>1 DEF Signed
      <3>2. CASE id \notin T
        BY <2>1, <2>2, <2>3, <2>4, <3>2 DEF Signed
      <3> QED
        BY <3>1, <3>2
    <2> QED
      BY <2>1, <2>2, <2>5, <2>6
  <1>6. /\ Seen(s) = session.held[s] + SumFunctionOnSet(Applied, S)
        /\ RiskPosition(s) = Seen(s) + SumFunctionOnSet(M, T)
    <2>1. DOMAIN Remaining(s) = Tracked(s)
      BY DEF Remaining
    <2>2. SumFunction(Remaining(s)) = SumFunctionOnSet(Remaining(s), Tracked(s))
      BY <2>1 DEF SumFunction, SumFunctionOnSet, FoldFunction
    <2> QED
      BY <2>2 DEF Seen, RiskPosition
  <1>7. session.held[s] \in Int
    BY SessionIs DEF PathInv, Symbols
  <1>8. Seen(s) \in Int
    BY SeenIs
  <1> HIDE DEF S, T, B, A, M, R
  <1>9. SumFunctionOnSet(Applied, S) = SumFunctionOnSet(A, S) /\ SumFunctionOnSet(A, S) \in Int
    <2>1. \A id \in S : A[id] \in Int /\ A[id] = Applied[id]
      BY <1>5
    <2>2. \A id \in S : A[id] \in Int
      BY <1>5
    <2> QED
      BY <1>2, <2>1, <2>2, SumOfSame, SumIsInteger
  <1>10. SumFunctionOnSet(M, T) = SumFunctionOnSet(R, S) /\ SumFunctionOnSet(R, S) \in Int
    <2>1. \A id \in T : R[id] \in Int /\ R[id] = M[id]
      BY <1>1, <1>5
    <2>2. (\A id \in S : R[id] \in Int) /\ (\A id \in S \ T : R[id] = 0)
      BY <1>5
    <2>3. SumFunctionOnSet(R, T) = SumFunctionOnSet(M, T)
      BY <1>2, <2>1, SumOfSame
    <2>4. SumFunctionOnSet(R, S) = SumFunctionOnSet(R, T) /\ SumFunctionOnSet(R, S) \in Int
      BY <1>1, <1>2, <2>2, SumLeavesOut, SumIsInteger
    <2> QED
      BY <2>3, <2>4
  <1>11. SumFunctionOnSet(B, S) = SumFunctionOnSet(A, S) + SumFunctionOnSet(R, S)
    <2>1. \A id \in S : A[id] \in Int /\ R[id] \in Int /\ B[id] = A[id] + R[id]
      BY <1>5
    <2> QED
      BY <1>2, <2>1, SumOfBoth
  <1>12. RiskPosition(s) = session.held[s] + SumFunctionOnSet(B, S) /\ RiskPosition(s) \in Int
    BY <1>6, <1>7, <1>9, <1>10, <1>11
  <1>13. \A id \in S : B[id] \in Int
    BY <1>5
  <1> QED
    BY <1>1, <1>2, <1>3, <1>4, <1>6, <1>12, <1>13 DEF S, T, B, M

(* An order that may still trade, or did and its fills are not all in, is
   tracked with at least what is not applied of it. *)
LEMMA WhatTheGateKnows ==
    ASSUME PathInv, NEW s \in Symbols, ~Blind(s), NEW id \in Ids(s)
    PROVE  /\ orders[id].open \/ orders[id].applied < orders[id].done
                => id \in Tracked(s) /\ Left(id) >= orders[id].qty - orders[id].applied
           /\ ~(orders[id].open \/ orders[id].applied < orders[id].done)
                => orders[id].applied = orders[id].done
           /\ id \in Tracked(s) /\ Left(id) = 0 => Dormant(orders[id])
           /\ id \notin Tracked(s) => Dormant(orders[id])
  <1> DEFINE o == orders[id]
  <1>1. o \in OrderIn(session) /\ Sensible(o, session.planner.lot)
    BY RiskIs
  <1>2. /\ o.qty \in Int /\ o.filled \in Int /\ o.applied \in Int /\ o.done \in Int
        /\ o.open \in BOOLEAN /\ o.known \in BOOLEAN /\ o.ended \in BOOLEAN /\ o.ahead \in BOOLEAN
    BY <1>1, OrderFields
  <1>3. /\ o.applied <= o.done /\ o.done <= o.qty /\ (o.open => o.done < o.qty)
        /\ (~o.ahead => o.filled <= o.applied) /\ (~o.ahead /\ o.ended => ~o.open /\ o.applied = o.done)
    BY <1>1 DEF Sensible
  <1>4. o.open \/ o.applied < o.done => o.known /\ ~o.ahead
    BY DEF Blind, Untold, Overtaken
  <1>5. id \in Tracked(s) <=> (o.known /\ ~o.ended)
    BY DEF Tracked
  <1>6. Left(id) = AtLeastZero(o.qty - o.filled)
    BY DEF Left
  <1>7. Left(id) >= o.qty - o.filled /\ Left(id) \in Int /\ (Left(id) = 0 => o.filled >= o.qty)
    <2> HIDE DEF o
    <2> QED
      BY <1>2, <1>6 DEF AtLeastZero
  <1>8. ASSUME o.open \/ o.applied < o.done
        PROVE  id \in Tracked(s) /\ Left(id) >= o.qty - o.applied /\ Left(id) # 0
    <2>1. o.known /\ ~o.ahead /\ ~o.ended /\ o.filled <= o.applied
      <3> HIDE DEF o
      <3> QED
        BY <1>2, <1>3, <1>4, <1>8
    <2>2. Left(id) >= o.qty - o.applied /\ Left(id) # 0
      <3> HIDE DEF o
      <3> QED
        BY <1>2, <1>3, <1>7, <1>8, <2>1
    <2> QED
      BY <1>5, <2>1, <2>2
  <1>9. ~(o.open \/ o.applied < o.done) => o.applied = o.done
    <2> HIDE DEF o
    <2> QED
      BY <1>2, <1>3
  <1>10. (id \in Tracked(s) => Left(id) = 0) => Dormant(o)
    <2>1. ASSUME id \in Tracked(s) => Left(id) = 0
          PROVE  ~o.open /\ o.applied = o.done
      BY <1>8, <1>9, <2>1
    <2> QED
      BY <1>5, <1>7, <2>1 DEF Dormant
  <1> QED
    BY <1>8, <1>9, <1>10

LEMMA TowardBounded ==
    ASSUME PathInv, NEW s \in Symbols, NEW d \in Sides, NEW F,
           \A id \in Ids(s) : F[id] \in Int /\ Most(orders[id], d) <= Signed(d, F[id])
    PROVE  Toward(session, orders, s, d) <= Signed(d, session.held[s] + SumFunctionOnSet(F, Ids(s)))
  <1> DEFINE S == Ids(s)
             G == Gain(orders, d)
             H == [id \in S |-> Signed(d, F[id])]
  <1>1. Booked(session, orders) /\ Of(orders, s) = S /\ s \in DOMAIN session.held
    BY OrdersAreBooked DEF Symbols
  <1>2. IsFiniteSet(S)
    BY <1>1, GainIs
  <1>3. ASSUME NEW id \in S
        PROVE  F[id] \in Int /\ H[id] = Signed(d, F[id]) /\ H[id] \in Int /\ G[id] \in Int /\ G[id] <= H[id]
    <2>1. G[id] = Most(orders[id], d) /\ G[id] \in Int
      BY <1>1, <1>3, GainIs
    <2>2. H[id] = Signed(d, F[id]) /\ F[id] \in Int
      BY <1>3
    <2>3. Most(orders[id], d) <= Signed(d, F[id])
      BY <1>3
    <2>4. Signed(d, F[id]) \in Int
      BY <2>2, SignedIs
    <2> HIDE DEF H, G
    <2> QED
      BY <2>1, <2>2, <2>3, <2>4
  <1>4. Toward(session, orders, s, d) = Signed(d, session.held[s]) + SumFunctionOnSet(G, S)
    BY <1>1 DEF Toward
  <1>5. session.held[s] \in Int
    BY <1>1, SessionIs DEF Booked
  <1> HIDE DEF S, G, H
  <1>6. SumFunctionOnSet(H, S) = Signed(d, SumFunctionOnSet(F, S)) /\ SumFunctionOnSet(F, S) \in Int
    <2>1. \A id \in S : F[id] \in Int /\ H[id] = Signed(d, F[id])
      BY <1>3
    <2> QED
      BY <1>2, <2>1, SignedSums
  <1>7. SumFunctionOnSet(G, S) <= SumFunctionOnSet(H, S)
    BY <1>2, <1>3, SumOfLess
  <1>8. SumFunctionOnSet(G, S) \in Int /\ SumFunctionOnSet(H, S) \in Int
    <2>1. \A id \in S : G[id] \in Int
      BY <1>3
    <2>2. \A id \in S : H[id] \in Int
      BY <1>3
    <2> QED
      BY <1>2, <2>1, <2>2, SumIsInteger
  <1>9. Signed(d, session.held[s]) + Signed(d, SumFunctionOnSet(F, S))
            = Signed(d, session.held[s] + SumFunctionOnSet(F, S))
        /\ Signed(d, session.held[s]) \in Int
    BY <1>5, <1>6 DEF Signed
  <1>10. Toward(session, orders, s, d) <= Signed(d, session.held[s]) + SumFunctionOnSet(H, S)
    BY <1>4, <1>7, <1>8, <1>9
  <1> QED
    BY <1>6, <1>9, <1>10 DEF S

(* tracker.rs, risk_position: with nothing untold, overtaken or opposed, the
   projection covers whatever the orders may come to. *)
LEMMA ProjectionCovers ==
    ASSUME PathInv, NEW s \in Symbols, NEW d \in Sides, ~Blind(s), ~Opposed(s, d)
    PROVE  Toward(session, orders, s, d) <= Signed(d, RiskPosition(s))
  <1>1. ASSUME NEW id \in Ids(s)
        PROVE  Believed(s)[id] \in Int /\ Most(orders[id], d) <= Signed(d, Believed(s)[id])
    <2> DEFINE o == orders[id]
               left == IF id \in Tracked(s) THEN Left(id) ELSE 0
    <2>1. Believed(s)[id] \in Int /\ Left(id) \in Nat /\ o \in OrderIn(session) /\ Sensible(o, session.planner.lot)
      BY <1>1, RiskIs
    <2>2. /\ o.qty \in Int /\ o.applied \in Int /\ o.done \in Int /\ o.open \in BOOLEAN /\ o.side \in Sides
          /\ o.applied <= o.done /\ o.done <= o.qty
      BY <2>1, OrderFields DEF Sensible
    <2>3. Believed(s)[id] = Signed(o.side, o.applied + left)
      BY <1>1 DEF Believed, Ids
    <2>4. left \in Int /\ left >= 0 /\ (o.side # d => left = 0)
      <3>1. o.side # d => id \notin Tracked(s)
        BY DEF Opposed
      <3> QED
        BY <2>1, <3>1
    <2>5. /\ o.open \/ o.applied < o.done => left >= o.qty - o.applied
          /\ ~(o.open \/ o.applied < o.done) => o.applied = o.done
      BY <1>1, WhatTheGateKnows
    <2> HIDE DEF o, left
    <2>6. Most(o, d) <= (IF o.side = d THEN o.applied + left ELSE -(o.applied + left))
      BY <2>2, <2>4, <2>5 DEF Most
    <2>7. Signed(d, Signed(o.side, o.applied + left)) = IF o.side = d THEN o.applied + left ELSE -(o.applied + left)
      BY <2>2, <2>4, SignedTwice
    <2>8. Most(o, d) <= Signed(d, Believed(s)[id])
      BY <2>3, <2>6, <2>7
    <2> QED
      BY <2>1, <2>8 DEF o
  <1> DEFINE B == Believed(s)
  <1> HIDE DEF B
  <1>2. \A id \in Ids(s) : B[id] \in Int /\ Most(orders[id], d) <= Signed(d, B[id])
    BY <1>1 DEF B
  <1>3. Toward(session, orders, s, d) <= Signed(d, session.held[s] + SumFunctionOnSet(B, Ids(s)))
    BY <1>2, TowardBounded
  <1>4. RiskPosition(s) = session.held[s] + SumFunctionOnSet(B, Ids(s))
    BY RiskIs DEF B
  <1> QED
    BY <1>3, <1>4

(* ... and on the other side, the position as it is seen. *)
LEMMA SeenCovers ==
    ASSUME PathInv, NEW s \in Symbols, NEW d \in Sides, NEW e \in Sides, e # d, ~Blind(s), ~Opposed(s, d)
    PROVE  Toward(session, orders, s, e) <= Signed(e, Seen(s))
  <1>1. ASSUME NEW id \in Ids(s)
        PROVE  Applied[id] \in Int /\ Most(orders[id], e) <= Signed(e, Applied[id])
    <2> DEFINE o == orders[id]
    <2>1. o \in OrderIn(session) /\ Sensible(o, session.planner.lot)
      BY <1>1, RiskIs
    <2>2. /\ o.qty \in Int /\ o.applied \in Int /\ o.done \in Int /\ o.open \in BOOLEAN /\ o.side \in Sides
          /\ o.applied <= o.done
      BY <2>1, OrderFields DEF Sensible
    <2>3. Applied[id] = Signed(o.side, o.applied)
      BY <1>1 DEF Applied, Ids
    <2>4. o.side = e => ~o.open /\ o.applied = o.done
      <3>1. o.side = e => id \notin Tracked(s)
        BY DEF Opposed
      <3> QED
        BY <1>1, <3>1, WhatTheGateKnows DEF Dormant
    <2> HIDE DEF o
    <2>5. Most(o, e) <= IF o.side = e THEN o.applied ELSE -o.applied
      BY <2>2, <2>4 DEF Most
    <2>6. Signed(e, Signed(o.side, o.applied)) = (IF o.side = e THEN o.applied ELSE -o.applied)
          /\ Signed(o.side, o.applied) \in Int
      BY <2>2, SignedTwice
    <2> QED
      BY <2>3, <2>5, <2>6 DEF o
  <1> DEFINE A == Applied
  <1> HIDE DEF A
  <1>2. \A id \in Ids(s) : A[id] \in Int /\ Most(orders[id], e) <= Signed(e, A[id])
    BY <1>1 DEF A
  <1>3. Toward(session, orders, s, e) <= Signed(e, session.held[s] + SumFunctionOnSet(A, Ids(s)))
    BY <1>2, TowardBounded
  <1>4. Seen(s) = session.held[s] + SumFunctionOnSet(A, Ids(s))
    BY DEF Seen, A
  <1> QED
    BY <1>3, <1>4

(* A book without blind spots and without orders set off covers both sides. *)
LEMMA BookCovers ==
    ASSUME PathInv, NEW s \in Symbols, NEW d \in Sides, ~Blind(s), ~SetOff(s)
    PROVE  Toward(session, orders, s, d) <= Abs(RiskPosition(s))
  <1>1. RiskPosition(s) \in Int /\ Seen(s) \in Int
    BY RiskIs, SeenIs
  <1>0. Toward(session, orders, s, d) \in Int
    BY OrdersAreBooked, TowardIs DEF Symbols
  <1>2. CASE ~Opposed(s, d)
    <2>1. Toward(session, orders, s, d) <= Signed(d, RiskPosition(s))
      BY <1>2, ProjectionCovers
    <2> QED
      BY <1>0, <1>1, <2>1 DEF Signed, Abs
  <1>3. CASE Opposed(s, d)
    <2>1. PICK id \in Tracked(s) : orders[id].side # d
      BY <1>3 DEF Opposed
    <2> DEFINE e == orders[id].side
    <2>2. ~Opposed(s, e) /\ ~(Seen(s) * Signed(e, 1) < 0)
      BY <2>1 DEF SetOff
    <2>3. e \in Sides /\ e # d
      <3>1. id \in Ids(s)
        BY <2>1 DEF Tracked
      <3>2. orders[id] \in OrderIn(session)
        BY <3>1, RiskIs
      <3> QED
        BY <2>1, <3>2, OrderFields
    <2> HIDE DEF e
    <2>4. Toward(session, orders, s, d) <= Signed(d, Seen(s))
      BY <2>2, <2>3, SeenCovers
    <2>5. Signed(d, Seen(s)) <= 0
      <3>1. CASE e = "buy"
        <4>1. Signed(e, 1) = 1 /\ d = "sell"
          BY <2>3, <3>1 DEF Signed, Sides
        <4>2. Seen(s) >= 0
          BY <1>1, <2>2, <4>1
        <4> QED
          BY <1>1, <4>1, <4>2 DEF Signed
      <3>2. CASE e = "sell"
        <4>1. Signed(e, 1) = -1 /\ d = "buy"
          BY <2>3, <3>2 DEF Signed, Sides
        <4>2. Seen(s) <= 0
          BY <1>1, <2>2, <4>1
        <4> QED
          BY <1>1, <4>1, <4>2 DEF Signed
      <3> QED
        BY <2>3, <3>1, <3>2 DEF Sides
    <2>6. Abs(RiskPosition(s)) \in Int /\ Abs(RiskPosition(s)) >= 0 /\ Signed(d, Seen(s)) \in Int
      BY <1>1 DEF Abs, Signed
    <2> QED
      BY <1>0, <2>4, <2>5, <2>6
  <1> QED
    BY <1>2, <1>3

Reaches(ss, os, st, q, s, d) == Toward(ss, os, s, d) + Pending(st, q, s, d)

ExposureInv ==
    \A s \in Symbols \ misread.symbols, d \in Sides :
        Reaches(session, orders, stage, queue, s, d) <= session.limits.position

LEMMA PendingIs ==
    ASSUME PathInv, NEW s \in Symbols, NEW d \in Sides
    PROVE  /\ Pending(stage, queue, s, d) \in Nat
           /\ stage # "sent" => Pending(stage, queue, s, d) = 0
           /\ stage = "sent" =>
                Pending(stage, queue, s, d) = IF Here.sym = s /\ Wish.side = d THEN Wish.qty ELSE 0
  <1>1. stage = "sent" =>
            Pending(stage, queue, s, d) = IF Here.sym = s /\ Wish.side = d THEN Wish.qty ELSE 0
    BY DEF Pending, Here, Wish, WishOf
  <1>2. stage # "sent" => Pending(stage, queue, s, d) = 0
    BY DEF Pending
  <1>3. stage = "sent" => Wish.qty \in Nat
    BY WishIs DEF PathInv
  <1> QED
    BY <1>1, <1>2, <1>3

LEMMA ReachIs ==
    ASSUME PathInv, NEW s \in Symbols, NEW d \in Sides
    PROVE  /\ Reaches(session, orders, stage, queue, s, d) \in Int
           /\ Toward(session, orders, s, d) \in Int
           /\ Reaches(session, orders, stage, queue, s, d) >= Toward(session, orders, s, d)
           /\ stage = "idle" => Reaches(session, orders, stage, queue, s, d) = Toward(session, orders, s, d)
  <1>1. Toward(session, orders, s, d) \in Int
    BY OrdersAreBooked, TowardIs DEF Symbols
  <1>2. Pending(stage, queue, s, d) \in Nat /\ (stage = "idle" => Pending(stage, queue, s, d) = 0)
    BY PendingIs
  <1> QED
    BY <1>1, <1>2 DEF Reaches

(* Whatever is answered, told of, cancelled or traded, no symbol reaches
   further for it; only an order that passes the gate makes one do so. *)
LEMMA ReachShrinks ==
    ASSUME PathInv, PathInv', NEW s \in Symbols, NEW d \in Sides,
           Quiet \/ (\E id \in 1..Len(orders) : Traded(id)) \/ Accepted
    PROVE  /\ session' = session
           /\ Reaches(session', orders', stage', queue', s, d) <= Reaches(session, orders, stage, queue, s, d)
           /\ Reaches(session', orders', stage', queue', s, d) \in Int
  <1>0. session' = session /\ Booked(session, orders) /\ Booked(session, orders') /\ s \in DOMAIN session.held
    <2>1. session' = session
      BY DEF Quiet, Traded, Accepted
    <2>2. Booked(session', orders')
      BY DEF PathInv, Booked
    <2> QED
      BY <2>1, <2>2, OrdersAreBooked DEF Symbols
  <1>1. /\ Toward(session, orders, s, d) \in Int /\ Toward(session, orders', s, d) \in Int
        /\ Pending(stage, queue, s, d) \in Nat
    BY <1>0, TowardIs, PendingIs
  <1>2. ASSUME Len(orders') = Len(orders),
               \A id \in 1..Len(orders) : orders'[id].sym = orders[id].sym /\ Most(orders'[id], d) <= Most(orders[id], d)
        PROVE  Toward(session, orders', s, d) <= Toward(session, orders, s, d)
    BY <1>0, <1>2, TowardShrinks
  <1>3. CASE Quiet
    <2>1. Toward(session, orders', s, d) <= Toward(session, orders, s, d)
      <3>1. ASSUME NEW id \in 1..Len(orders)
            PROVE  orders'[id].sym = orders[id].sym /\ Most(orders'[id], d) <= Most(orders[id], d)
        <4>1. Keeps(orders[id], orders'[id])
          BY <1>3 DEF Quiet
        <4>2. orders[id] \in OrderIn(session) /\ Sensible(orders[id], session.planner.lot)
          BY DEF PathInv
        <4>3. orders[id].qty \in Int /\ orders[id].done \in Int /\ orders[id].done <= orders[id].qty
              /\ orders[id].open \in BOOLEAN
          BY <4>2, OrderFields DEF Sensible
        <4> QED
          BY <4>1, <4>3 DEF Keeps, Most
      <3>2. Len(orders') = Len(orders)
        BY <1>3 DEF Quiet
      <3> QED
        BY <1>2, <3>1, <3>2
    <2>2. Pending(stage', queue', s, d) \in Nat /\ Pending(stage', queue', s, d) <= Pending(stage, queue, s, d)
      <3>1. CASE stage' = "sent"
        <4>1. stage' = stage /\ Head(queue') = Head(queue)
          BY <1>3, <3>1 DEF Quiet
        <4>2. Pending(stage', queue', s, d) = Pending(stage, queue, s, d)
          BY <4>1 DEF Pending
        <4> QED
          BY <1>1, <4>2
      <3>2. CASE stage' # "sent"
        <4>1. Pending(stage', queue', s, d) = 0
          BY <3>2 DEF Pending
        <4> QED
          BY <1>1, <4>1
      <3> QED
        BY <3>1, <3>2
    <2> QED
      BY <1>0, <1>1, <2>1, <2>2 DEF Reaches
  <1>4. ASSUME NEW e \in 1..Len(orders), Traded(e)
        PROVE  /\ Reaches(session', orders', stage', queue', s, d) <= Reaches(session, orders, stage, queue, s, d)
               /\ Reaches(session', orders', stage', queue', s, d) \in Int
    <2>1. Toward(session, orders', s, d) <= Toward(session, orders, s, d)
      <3>1. ASSUME NEW id \in 1..Len(orders)
            PROVE  orders'[id].sym = orders[id].sym /\ Most(orders'[id], d) <= Most(orders[id], d)
        <4>1. orders[id] \in OrderIn(session) /\ Sensible(orders[id], session.planner.lot)
          BY DEF PathInv
        <4>2. /\ orders[id].qty \in Int /\ orders[id].done \in Int /\ Most(orders[id], d) \in Int
              /\ session.planner.lot \in Nat
          <5>1. orders[id].qty \in Int /\ orders[id].done \in Int
            BY <4>1, OrderFields
          <5>2. Most(orders[id], d) \in Int
            BY <4>1, MostIs
          <5>3. session.planner.lot \in Nat
            BY SessionIs DEF PathInv
          <5> QED
            BY <5>1, <5>2, <5>3
        <4>3. CASE id = e
          <5>1. orders[id].open /\ OneLotMore(orders[id], orders'[id], session.planner.lot)
            BY <1>4, <4>3 DEF Traded
          <5> QED
            BY <4>2, <5>1 DEF OneLotMore, Most
        <4>4. CASE id # e
          <5>1. orders'[id] = orders[id]
            BY <1>4, <4>4 DEF Traded
          <5> QED
            BY <4>2, <5>1
        <4> QED
          BY <4>3, <4>4
      <3>2. Len(orders') = Len(orders)
        BY <1>4 DEF Traded
      <3> QED
        BY <1>2, <3>1, <3>2
    <2>2. Pending(stage', queue', s, d) = Pending(stage, queue, s, d)
      BY <1>4 DEF Traded, Pending
    <2> QED
      BY <1>0, <1>1, <2>1, <2>2 DEF Reaches
  <1>5. CASE Accepted
    <2> DEFINE o == orders'[Len(orders) + 1]
    <2>1. /\ stage = "sent" /\ stage' # "sent" /\ Len(orders') = Len(orders) + 1
          /\ \A k \in 1..Len(orders) : orders'[k] = orders[k]
          /\ o.sym = Here.sym /\ o.side = Wish.side /\ o.qty = Wish.qty
          /\ o.done = IF o.open THEN 0 ELSE o.qty
      BY <1>5 DEF Accepted
    <2>2. Toward(session, orders', s, d) = Toward(session, orders, s, d) + (IF o.sym = s THEN Most(o, d) ELSE 0)
      BY <1>0, <2>1, TowardGrows
    <2>3. Pending(stage', queue', s, d) = 0
      BY <2>1 DEF Pending
    <2>4. Pending(stage, queue, s, d) = IF Here.sym = s /\ Wish.side = d THEN Wish.qty ELSE 0
      BY <2>1, PendingIs
    <2>5. Wish.qty \in Nat
      BY <2>1, WishIs DEF PathInv
    <2> HIDE DEF o
    <2>6. (IF o.sym = s THEN Most(o, d) ELSE 0) <= Pending(stage, queue, s, d)
      BY <2>1, <2>4, <2>5 DEF Most
    <2>7. (IF o.sym = s THEN Most(o, d) ELSE 0) \in Int
      <3>1. o \in OrderIn(session) /\ Sensible(o, session.planner.lot)
        <4>1. Len(orders) + 1 \in 1..Len(orders')
          <5>1. Len(orders) \in Nat
            BY <1>0, LenProperties DEF Booked
          <5> QED
            BY <2>1, <5>1
        <4> QED
          BY <1>0, <4>1 DEF Booked, o
      <3> QED
        BY <3>1, MostIs
    <2> QED
      BY <1>0, <1>1, <2>2, <2>3, <2>6, <2>7 DEF Reaches
  <1> QED
    BY <1>0, <1>3, <1>4, <1>5

(* What passing the gate adds. *)
LEMMA ReachWhenSent ==
    ASSUME PathInv, tripped \in BOOLEAN, PumpPlace, NEW s \in Symbols, NEW d \in Sides
    PROVE  Reaches(session', orders', stage', queue', s, d)
            = Toward(session, orders, s, d) + (IF s = Here.sym /\ d = Wish.side THEN Wish.qty ELSE 0)
  <1>1. /\ stage' = "sent" /\ session' = session /\ orders' = orders
        /\ Head(queue').sym = Here.sym /\ Head(queue').orders = Here.orders
    BY PumpPlacePath
  <1>2. WishOf(Head(queue')) = Wish
    BY <1>1 DEF WishOf, Wish
  <1>3. Pending(stage', queue', s, d) = IF s = Here.sym /\ d = Wish.side THEN Wish.qty ELSE 0
    BY <1>1, <1>2 DEF Pending
  <1> QED
    BY <1>1, <1>3 DEF Reaches

(* guard.rs, check_one: an order that passes keeps the projection, and so
   all that the orders may come to, within the limit. *)
LEMMA GateBounds ==
    ASSUME PathInv, tripped \in BOOLEAN, PumpPlace,
           ~Blind(Here.sym), ~Opposed(Here.sym, Wish.side)
    PROVE  Toward(session, orders, Here.sym, Wish.side) + Wish.qty <= session.limits.position
  <1> DEFINE s == Here.sym
             d == Wish.side
             q == Wish.qty
             rp == RiskPosition(s)
             limit == session.limits.position
  <1>1. queue # <<>> /\ Here.orders # {} /\ Cleared
    BY PumpPlacePath
  <1>2. s \in Symbols /\ d \in Sides /\ q \in Nat \ {0} /\ Wish.reduce \in BOOLEAN
    BY <1>1, WishIs
  <1>3. rp \in Int
    BY <1>2, RiskIs
  <1>4. limit \in Nat
    BY SessionIs DEF PathInv
  <1>5. Toward(session, orders, s, d) \in Int /\ Toward(session, orders, s, d) <= Signed(d, rp)
    BY <1>2, ReachIs, ProjectionCovers
  <1>6. EngineClears(session.limits, Wish, rp, marks[s])
    <2>1. BookNow[s].qty = rp /\ BookNow[s].mark = marks[s]
      BY <1>2 DEF BookNow
    <2> QED
      BY <1>1, <2>1 DEF Cleared, GateClears
  <1> DEFINE after == rp + Signed(d, q)
  <1>7. \/ Abs(after) <= Abs(rp) /\ ~(rp * after < 0)
        \/ Abs(after) <= limit
    BY <1>6 DEF EngineClears
  <1>8. Signed(d, rp) \in Int /\ after \in Int /\ Signed(d, after) = Signed(d, rp) + q
    <2> HIDE DEF rp, q, d
    <2> QED
      BY <1>2, <1>3 DEF Signed, Sides
  <1>9. Signed(d, after) <= Abs(after) /\ Abs(after) \in Int
    <2> HIDE DEF after
    <2> QED
      BY <1>8 DEF Signed, Abs
  <1>10. CASE Abs(after) <= limit
    <2> HIDE DEF s, d, q, rp, limit, after
    <2>1. Toward(session, orders, s, d) + q <= limit
      BY <1>2, <1>4, <1>5, <1>8, <1>9, <1>10
    <2> QED
      BY <2>1 DEF s, d, q, limit
  <1>11. CASE Abs(after) <= Abs(rp) /\ ~(rp * after < 0)
    <2> HIDE DEF s, q, rp, limit, after
    <2>1. Signed(d, after) <= 0
      <3>1. CASE d = "buy"
        <4>1. after = rp + q
          BY <1>3, <1>8, <3>1 DEF Signed
        <4>2. rp < 0
          BY <1>2, <1>3, <1>11, <4>1 DEF Abs
        <4>3. ~(after > 0)
          <5>1. after > 0 => rp * after < 0
            BY <1>3, <1>8, <4>2
          <5> QED
            BY <1>11, <5>1
        <4> QED
          BY <1>8, <3>1, <4>3 DEF Signed
      <3>2. CASE d = "sell"
        <4>1. after = rp - q
          BY <1>3, <1>8, <1>2, <3>2 DEF Signed
        <4>2. rp > 0
          BY <1>2, <1>3, <1>11, <4>1 DEF Abs
        <4>3. ~(after < 0)
          <5>1. after < 0 => rp * after < 0
            BY <1>3, <1>8, <4>2
          <5> QED
            BY <1>11, <5>1
        <4> QED
          BY <1>8, <3>2, <4>3 DEF Signed
      <3> QED
        BY <1>2, <3>1, <3>2 DEF Sides
    <2> HIDE DEF d
    <2>2. Signed(d, after) \in Int
      BY <1>8 DEF Signed
    <2>3. Toward(session, orders, s, d) + q <= limit
      BY <1>2, <1>4, <1>5, <1>8, <2>1, <2>2
    <2> QED
      BY <2>3 DEF s, d, q, limit
  <1> QED
    BY <1>7, <1>10, <1>11

LEMMA ExposureNext ==
    ASSUME PathInv, PathInv', tripped \in BOOLEAN, PathStep, ExposureInv
    PROVE  ExposureInv'
  <1>1. CASE Quiet \/ (\E id \in 1..Len(orders) : Traded(id)) \/ Accepted
    <2>1. misread' = misread /\ session' = session /\ Symbols' = Symbols
      BY <1>1 DEF Quiet, Traded, Accepted, Symbols
    <2>2. ASSUME NEW s \in Symbols \ misread.symbols, NEW d \in Sides
          PROVE  Reaches(session', orders', stage', queue', s, d) <= session.limits.position
      <3>1. /\ Reaches(session', orders', stage', queue', s, d) <= Reaches(session, orders, stage, queue, s, d)
            /\ Reaches(session', orders', stage', queue', s, d) \in Int
        BY <1>1, ReachShrinks
      <3>2. Reaches(session, orders, stage, queue, s, d) \in Int
        BY ReachIs
      <3>3. Reaches(session, orders, stage, queue, s, d) <= session.limits.position
        BY DEF ExposureInv
      <3>4. session.limits.position \in Nat
        BY SessionIs DEF PathInv
      <3> QED
        BY <3>1, <3>2, <3>3, <3>4
    <2> QED
      BY <2>1, <2>2 DEF ExposureInv
  <1>2. CASE PumpPlace
    <2>1. session' = session /\ Symbols' = Symbols /\ stage = "idle" /\ queue # <<>> /\ Here.orders # {}
      BY <1>2, PumpPlacePath DEF Symbols
    <2>2. misread' = Misread(Here.sym, Wish.side)
      BY <1>2 DEF PumpPlace
    <2>3. misread'.symbols = misread.symbols \cup {x \in {Here.sym} : Blind(x) \/ Opposed(x, Wish.side)}
      BY <2>2 DEF Misread
    <2>4. ASSUME NEW s \in Symbols, s \notin misread'.symbols, NEW d \in Sides
          PROVE  Reaches(session', orders', stage', queue', s, d) <= session.limits.position
      <3>1. s \notin misread.symbols /\ (s = Here.sym => ~Blind(Here.sym) /\ ~Opposed(Here.sym, Wish.side))
        BY <2>3, <2>4
      <3>2. Reaches(session', orders', stage', queue', s, d)
                = Toward(session, orders, s, d) + (IF s = Here.sym /\ d = Wish.side THEN Wish.qty ELSE 0)
        BY <1>2, ReachWhenSent
      <3>3. CASE s = Here.sym /\ d = Wish.side
        <4>1. Toward(session, orders, Here.sym, Wish.side) + Wish.qty <= session.limits.position
          BY <1>2, <3>1, <3>3, GateBounds
        <4> QED
          BY <3>2, <3>3, <4>1
      <3>4. CASE ~(s = Here.sym /\ d = Wish.side)
        <4>1. Reaches(session, orders, stage, queue, s, d) <= session.limits.position
          BY <3>1 DEF ExposureInv
        <4>2. Toward(session, orders, s, d) \in Int
              /\ Reaches(session, orders, stage, queue, s, d) = Toward(session, orders, s, d)
          BY <2>1, ReachIs
        <4>3. Reaches(session', orders', stage', queue', s, d) = Toward(session, orders, s, d) + 0
          BY <3>2, <3>4
        <4> QED
          BY <4>1, <4>2, <4>3
      <3> QED
        BY <3>3, <3>4
    <2> QED
      BY <2>1, <2>4 DEF ExposureInv
  <1> QED
    BY <1>1, <1>2 DEF PathStep

LEMMA NothingReaches ==
    ASSUME Init, NEW s \in Symbols, NEW d \in Sides
    PROVE  /\ Reaches(session, orders, stage, queue, s, d) = Signed(d, session.held[s])
           /\ session.held[s] \in Int
  <1>1. orders = <<>> /\ stage = "idle" /\ session \in Sessions
    BY DEF Init
  <1>2. Len(orders) = 0
    BY <1>1
  <1>3. Of(orders, s) = {}
    BY <1>2 DEF Of
  <1>4. SumFunctionOnSet(Gain(orders, d), Of(orders, s)) = 0
    BY <1>3, SumOfNone
  <1>5. session.held[s] \in Int
    BY <1>1, SessionIs DEF Symbols
  <1>6. Signed(d, session.held[s]) \in Int
    BY <1>5, SignedIs
  <1> QED
    BY <1>1, <1>4, <1>5, <1>6 DEF Reaches, Toward, Pending

LEMMA ExposureInit ==
    ASSUME Init
    PROVE  ExposureInv
  <1> SUFFICES ASSUME NEW s \in Symbols, NEW d \in Sides
               PROVE  Reaches(session, orders, stage, queue, s, d) <= session.limits.position
    BY DEF ExposureInv
  <1>1. session \in Sessions
    BY DEF Init
  <1>2. Abs(session.held[s]) <= session.limits.position /\ session.limits.position \in Nat
    BY <1>1, SessionIs DEF Symbols
  <1>3. Reaches(session, orders, stage, queue, s, d) = Signed(d, session.held[s]) /\ session.held[s] \in Int
    BY NothingReaches
  <1> QED
    BY <1>2, <1>3 DEF Signed, Abs

LEMMA ExposureShown ==
    ASSUME PathInv, ExposureInv
    PROVE  ExposureStaysInBounds
  <1> SUFFICES ASSUME NEW s \in Symbols \ misread.symbols
               PROVE  /\ Worst(s, "buy") <= session.limits.position
                      /\ Worst(s, "sell") >= -session.limits.position
    BY DEF ExposureStaysInBounds
  <1>1. ASSUME NEW d \in Sides
        PROVE  Signed(d, Worst(s, d)) <= session.limits.position /\ Worst(s, d) \in Int
    <2>1. Toward(session, orders, s, d) = Signed(d, Worst(s, d)) /\ Worst(s, d) \in Int
      BY TowardIsWorst
    <2>2. /\ Reaches(session, orders, stage, queue, s, d) \in Int /\ Toward(session, orders, s, d) \in Int
          /\ Toward(session, orders, s, d) <= Reaches(session, orders, stage, queue, s, d)
      BY ReachIs
    <2>3. Reaches(session, orders, stage, queue, s, d) <= session.limits.position
      BY DEF ExposureInv
    <2>4. session.limits.position \in Nat
      BY SessionIs DEF PathInv
    <2> QED
      BY <2>1, <2>2, <2>3, <2>4
  <1>2. "buy" \in Sides /\ "sell" \in Sides /\ session.limits.position \in Nat
    BY SessionIs DEF PathInv, Sides
  <1>3. Worst(s, "buy") <= session.limits.position
    BY <1>1, <1>2, SignedIs
  <1>4. -Worst(s, "sell") <= session.limits.position /\ Worst(s, "sell") \in Int
    BY <1>1, <1>2, SignedIs
  <1> QED
    BY <1>2, <1>3, <1>4

-----------------------------------------------------------------------------
(* Legs.                                                                   *)

(* What the book must take for a position: a symbol with anything seen,
   anything that may still happen, or an order on its way. *)
Leg(s) ==
    \/ Seen(s) # 0
    \/ \E id \in Ids(s) : ~Dormant(orders[id])
    \/ stage # "idle" /\ Here.sym = s

LegsInv ==
    ~misread.book /\ session.limits.symbols > 0
        => Cardinality({s \in Symbols : Leg(s)}) <= session.limits.symbols

LEMMA SignedNothing ==
    ASSUME NEW d
    PROVE  Signed(d, 0) = 0
  <1>1. \A n \in Int : -n = 0 - n
    OBVIOUS
  <1>2. 0 \in Int /\ 0 - 0 = 0
    OBVIOUS
  <1>3. -0 = 0
    BY <1>1, <1>2, Zenon
  <1> QED
    BY <1>3, Zenon DEF Signed

(* A book without blind spots holds every leg open ... *)
LEMMA LegsAreHeld ==
    ASSUME PathInv, NEW s \in Symbols, ~Blind(s), ~SetOff(s), stage = "idle", Leg(s)
    PROVE  RiskPosition(s) # 0
  <1> SUFFICES ASSUME RiskPosition(s) = 0
               PROVE  FALSE
    OBVIOUS
  <1> DEFINE T == Tracked(s)
             M == Remaining(s)
             L == [id \in T |-> Left(id)]
  <1>1. /\ RiskPosition(s) = Seen(s) + SumFunctionOnSet(M, T) /\ Seen(s) \in Int
        /\ IsFiniteSet(T) /\ T \subseteq Ids(s)
        /\ \A id \in T : M[id] = Signed(orders[id].side, Left(id)) /\ Left(id) \in Nat
    BY RiskIs, SeenIs
  <1>2. SUFFICES ASSUME Seen(s) # 0 \/ \E id \in T : Left(id) # 0
                 PROVE  FALSE
    <2>1. ASSUME Seen(s) = 0, \A id \in T : Left(id) = 0
          PROVE  FALSE
      <3>1. \A id \in Ids(s) : Dormant(orders[id])
        BY <2>1, WhatTheGateKnows
      <3> QED
        BY <2>1, <3>1 DEF Leg
    <2> QED
      BY <1>2, <2>1
  <1>3. T # {}
    <2>1. SUFFICES ASSUME T = {}
                   PROVE  FALSE
      OBVIOUS
    <2> HIDE DEF T, M
    <2>2. SumFunctionOnSet(M, T) = 0
      BY <2>1, SumOfNone
    <2> QED
      BY <1>1, <1>2, <2>1, <2>2
  <1>4. PICK id \in T : TRUE
    BY <1>3
  <1> DEFINE e == orders[id].side
  <1>5. e \in Sides
    <2>1. orders[id] \in OrderIn(session)
      BY <1>1, <1>4, RiskIs
    <2> QED
      BY <2>1, OrderFields
  <1>6. (\A j \in T : orders[j].side = e) /\ ~(Seen(s) * Signed(e, 1) < 0)
    BY <1>4 DEF SetOff, Opposed
  <1>7. \A j \in T : L[j] \in Int /\ L[j] \in Nat /\ M[j] = Signed(e, L[j]) /\ L[j] = Left(j)
    <2> HIDE DEF e
    <2> QED
      BY <1>1, <1>6
  <1> HIDE DEF T, M, L, e
  <1>8. SumFunctionOnSet(M, T) = Signed(e, SumFunctionOnSet(L, T))
    <2>1. \A j \in T : L[j] \in Int /\ M[j] = Signed(e, L[j])
      BY <1>7
    <2> QED
      BY <1>1, <1>5, <2>1, SignedSums
  <1>9. SumFunctionOnSet(L, T) \in Nat
    BY <1>1, <1>7, SumIsNatural
  <1>10. Seen(s) = 0 /\ SumFunctionOnSet(L, T) = 0
    <2>1. CASE e = "buy"
      <3>1. Signed(e, 1) = 1 /\ Signed(e, SumFunctionOnSet(L, T)) = SumFunctionOnSet(L, T)
        BY <1>9, <2>1, SignedIs DEF Signed
      <3>2. Seen(s) >= 0
        BY <1>1, <1>6, <3>1
      <3> QED
        BY <1>1, <1>8, <1>9, <3>1, <3>2
    <2>2. CASE e = "sell"
      <3>1. Signed(e, 1) = -1 /\ Signed(e, SumFunctionOnSet(L, T)) = -SumFunctionOnSet(L, T)
        BY <1>9, <2>2, SignedIs DEF Signed
      <3>2. Seen(s) <= 0
        BY <1>1, <1>6, <3>1
      <3> QED
        BY <1>1, <1>8, <1>9, <3>1, <3>2
    <2> QED
      BY <1>5, <2>1, <2>2 DEF Sides
  <1>11. PICK j \in T : Left(j) # 0
    BY <1>2, <1>10
  <1>12. SumFunctionOnSet(L, T) = L[j] + SumFunctionOnSet(L, T \ {j})
    <2>1. \A x \in T : L[x] \in Int
      BY <1>7
    <2> QED
      BY <1>1, <2>1, SumTakesOut
  <1>13. SumFunctionOnSet(L, T \ {j}) \in Nat
    <2>1. IsFiniteSet(T \ {j}) /\ \A x \in T \ {j} : L[x] \in Nat
      BY <1>1, <1>7, FS_RemoveElement
    <2> DEFINE V == T \ {j}
    <2> HIDE DEF V
    <2>2. IsFiniteSet(V) /\ \A x \in V : L[x] \in Nat
      BY <2>1 DEF V
    <2>3. SumFunctionOnSet(L, V) \in Nat
      BY <2>2, SumIsNatural
    <2> QED
      BY <2>3 DEF V
  <1>14. L[j] \in Nat /\ L[j] # 0
    BY <1>7, <1>11
  <1> QED
    BY <1>10, <1>12, <1>13, <1>14

(* ... and no other symbol. *)
LEMMA NoLegIsFlat ==
    ASSUME PathInv, NEW s \in Symbols, ~Leg(s)
    PROVE  /\ RiskPosition(s) = 0
           /\ \A d \in Sides : Toward(session, orders, s, d) = 0
  <1>1. Seen(s) = 0 /\ \A id \in Ids(s) : Dormant(orders[id])
    BY DEF Leg
  <1>2. RiskPosition(s) = 0
    <2> DEFINE T == Tracked(s)
               M == Remaining(s)
    <2>1. /\ RiskPosition(s) = Seen(s) + SumFunctionOnSet(M, T)
          /\ IsFiniteSet(T) /\ T \subseteq Ids(s)
          /\ \A id \in T : M[id] = Signed(orders[id].side, Left(id))
      BY RiskIs
    <2>2. ASSUME NEW id \in T
          PROVE  M[id] = 0
      <3>1. orders[id] \in OrderIn(session) /\ id \in Ids(s)
        BY <2>1, <2>2, RiskIs
      <3>2. orders[id].qty \in Int /\ orders[id].filled \in Int /\ orders[id].side \in Sides
        BY <3>1, OrderFields
      <3>3. orders[id].known /\ ~orders[id].ended
        BY <2>2 DEF Tracked
      <3>4. orders[id].filled >= orders[id].qty
        BY <1>1, <3>1, <3>3 DEF Dormant
      <3>5. Left(id) = 0
        BY <3>2, <3>4 DEF Left, AtLeastZero
      <3>6. Signed(orders[id].side, 0) = 0
        BY SignedNothing
      <3> QED
        BY <2>1, <2>2, <3>5, <3>6
    <2> HIDE DEF T, M
    <2>3. SumFunctionOnSet(M, T) = 0
      BY <2>1, <2>2, SumOfZero
    <2> QED
      BY <1>1, <2>1, <2>3
  <1>3. ASSUME NEW d \in Sides
        PROVE  Toward(session, orders, s, d) <= 0
    <2>1. ASSUME NEW id \in Ids(s)
          PROVE  Applied[id] \in Int /\ Most(orders[id], d) <= Signed(d, Applied[id])
      <3> DEFINE o == orders[id]
      <3>1. o \in OrderIn(session) /\ ~o.open /\ o.applied = o.done
        BY <1>1, <2>1, RiskIs DEF Dormant
      <3>2. o.done \in Int /\ o.side \in Sides
        BY <3>1, OrderFields
      <3>3. Applied[id] = Signed(o.side, o.done)
        BY <2>1, <3>1 DEF Applied, Ids
      <3> HIDE DEF o
      <3>4. Signed(d, Signed(o.side, o.done)) = (IF o.side = d THEN o.done ELSE -o.done)
            /\ Signed(o.side, o.done) \in Int
        BY <3>2, SignedTwice
      <3>5. Most(o, d) = IF o.side = d THEN o.done ELSE -o.done
        BY <3>1 DEF Most
      <3> QED
        BY <3>2, <3>3, <3>4, <3>5 DEF o
    <2> DEFINE A == Applied
    <2> HIDE DEF A
    <2>2. \A id \in Ids(s) : A[id] \in Int /\ Most(orders[id], d) <= Signed(d, A[id])
      BY <2>1 DEF A
    <2>3. Toward(session, orders, s, d) <= Signed(d, session.held[s] + SumFunctionOnSet(A, Ids(s)))
      BY <2>2, TowardBounded
    <2>4. session.held[s] + SumFunctionOnSet(A, Ids(s)) = 0
      BY <1>1 DEF A, Seen
    <2>5. Signed(d, 0) = 0
      BY SignedNothing
    <2> QED
      BY <2>3, <2>4, <2>5
  <1>4. "buy" \in Sides /\ "sell" \in Sides
    BY DEF Sides
  <1>5. /\ Toward(session, orders, s, "buy") \in Int /\ Toward(session, orders, s, "sell") \in Int
        /\ Toward(session, orders, s, "buy") + Toward(session, orders, s, "sell") >= 0
    BY <1>4, OrdersAreBooked, TowardIs DEF Symbols
  <1>6. Toward(session, orders, s, "buy") = 0 /\ Toward(session, orders, s, "sell") = 0
    BY <1>3, <1>4, <1>5
  <1> QED
    BY <1>2, <1>6 DEF Sides

LEMMA SeenStays ==
    ASSUME PathInv, session' = session, NEW s \in Symbols,
           {id \in 1..Len(orders') : orders'[id].sym = s} = Ids(s),
           \A id \in Ids(s) : orders'[id].side = orders[id].side /\ orders'[id].applied = orders[id].applied
    PROVE  Seen(s)' = Seen(s) /\ Ids(s)' = Ids(s)
  <1> DEFINE F == Applied
             G == Applied'
             S == Ids(s)
  <1>1. Ids(s)' = S
    BY DEF Ids
  <1>2. ASSUME NEW id \in S
        PROVE  F[id] \in Int /\ F[id] = G[id]
    <2>1. id \in 1..Len(orders) /\ id \in 1..Len(orders')
      BY <1>2 DEF Ids
    <2>2. F[id] = Signed(orders[id].side, orders[id].applied)
      BY <2>1 DEF Applied
    <2>3. G[id] = Signed(orders'[id].side, orders'[id].applied)
      BY <2>1 DEF Applied
    <2>4. orders[id].applied \in Int
      <3>1. orders[id] \in OrderIn(session)
        BY <1>2, RiskIs
      <3> QED
        BY <3>1, OrderFields
    <2>5. Signed(orders[id].side, orders[id].applied) \in Int
      BY <2>4 DEF Signed
    <2> QED
      BY <1>2, <2>2, <2>3, <2>5
  <1>3. IsFiniteSet(S)
    BY RiskIs
  <1>4. Seen(s) = session.held[s] + SumFunctionOnSet(F, S)
    BY DEF Seen
  <1>5. Seen(s)' = session.held[s] + SumFunctionOnSet(G, S)
    BY <1>1 DEF Seen
  <1> HIDE DEF F, G, S
  <1>6. SumFunctionOnSet(F, S) = SumFunctionOnSet(G, S)
    BY <1>2, <1>3, SumOfSame
  <1> QED
    BY <1>1, <1>4, <1>5, <1>6 DEF S

LEMMA LegShrinks ==
    ASSUME PathInv, PathInv', NEW s \in Symbols,
           Quiet \/ (\E id \in 1..Len(orders) : Traded(id)) \/ Accepted,
           ~Leg(s)
    PROVE  ~Leg(s)'
  <1>0. /\ Seen(s) = 0 /\ (\A id \in Ids(s) : Dormant(orders[id])) /\ ~(stage # "idle" /\ Here.sym = s)
    BY DEF Leg
  <1>1. CASE Quiet
    <2>1. ASSUME NEW id \in 1..Len(orders)
          PROVE  /\ orders'[id].sym = orders[id].sym /\ orders'[id].side = orders[id].side
                 /\ orders[id].sym = s => Dormant(orders'[id]) /\ orders'[id].applied = orders[id].applied
      <3>1. Keeps(orders[id], orders'[id])
        BY <1>1 DEF Quiet
      <3>2. orders[id].sym = s => Dormant(orders[id]) /\ ~(stage # "idle" /\ Here.sym = orders[id].sym)
        BY <1>0 DEF Ids
      <3>3. orders[id].sym = s => Dormant(orders'[id]) /\ orders'[id].applied = orders[id].applied
        BY <1>1, <3>2 DEF Quiet
      <3> QED
        BY <3>1, <3>3 DEF Keeps
    <2>2. Len(orders') = Len(orders) /\ session' = session
      BY <1>1 DEF Quiet
    <2>3. {id \in 1..Len(orders') : orders'[id].sym = s} = Ids(s)
      BY <2>1, <2>2 DEF Ids
    <2>4. \A id \in Ids(s) : /\ orders'[id].side = orders[id].side /\ orders'[id].applied = orders[id].applied
                             /\ Dormant(orders'[id])
      BY <2>1 DEF Ids
    <2>5. Seen(s)' = Seen(s) /\ Ids(s)' = Ids(s)
      BY <2>2, <2>3, <2>4, SeenStays
    <2>6. ~(stage' # "idle" /\ Here'.sym = s)
      <3>1. SUFFICES ASSUME stage' # "idle", Here'.sym = s
                     PROVE  FALSE
        OBVIOUS
      <3>2. stage' = stage /\ Head(queue') = Head(queue)
        BY <1>1, <3>1 DEF Quiet
      <3>3. Here' = Here
        BY <3>2 DEF Here
      <3> QED
        BY <1>0, <3>1, <3>2, <3>3
    <2>7. \A id \in Ids(s)' : Dormant(orders[id])'
      BY <2>4, <2>5 DEF Dormant
    <2> QED
      BY <1>0, <2>5, <2>6, <2>7 DEF Leg
  <1>2. ASSUME NEW e \in 1..Len(orders), Traded(e)
        PROVE  ~Leg(s)'
    <2>1. /\ session' = session /\ queue' = queue /\ stage' = stage /\ Len(orders') = Len(orders)
          /\ orders[e].open /\ orders'[e].sym = orders[e].sym
          /\ \A k \in 1..Len(orders) : k # e => orders'[k] = orders[k]
      BY <1>2 DEF Traded, OneLotMore
    <2>2. orders[e].sym # s
      BY <1>0, <2>1 DEF Ids, Dormant
    <2>3. {id \in 1..Len(orders') : orders'[id].sym = s} = Ids(s)
      BY <2>1, <2>2 DEF Ids
    <2>4. \A id \in Ids(s) : orders'[id] = orders[id]
      BY <2>1, <2>2 DEF Ids
    <2>5. Seen(s)' = Seen(s) /\ Ids(s)' = Ids(s)
      BY <2>1, <2>3, <2>4, SeenStays
    <2>6. \A id \in Ids(s)' : Dormant(orders[id])'
      BY <1>0, <2>4, <2>5 DEF Dormant
    <2>7. Here' = Here
      BY <2>1 DEF Here
    <2> QED
      BY <1>0, <2>1, <2>5, <2>6, <2>7 DEF Leg
  <1>3. CASE Accepted
    <2>1. /\ session' = session /\ queue' = queue /\ stage = "sent" /\ Len(orders') = Len(orders) + 1
          /\ orders'[Len(orders) + 1].sym = Here.sym
          /\ \A k \in 1..Len(orders) : orders'[k] = orders[k]
      BY <1>3 DEF Accepted
    <2>2. Here.sym # s /\ Here' = Here
      BY <1>0, <2>1 DEF Here
    <2>3. {id \in 1..Len(orders') : orders'[id].sym = s} = Ids(s)
      <3>1. Len(orders) \in Nat
        BY LenProperties DEF PathInv
      <3>2. 1..Len(orders') = 1..Len(orders) \cup {Len(orders) + 1}
        BY <2>1, <3>1
      <3> QED
        BY <2>1, <2>2, <3>2 DEF Ids
    <2>4. \A id \in Ids(s) : orders'[id] = orders[id]
      BY <2>1 DEF Ids
    <2>5. Seen(s)' = Seen(s) /\ Ids(s)' = Ids(s)
      BY <2>1, <2>3, <2>4, SeenStays
    <2>6. \A id \in Ids(s)' : Dormant(orders[id])'
      BY <1>0, <2>4, <2>5 DEF Dormant
    <2> QED
      BY <1>0, <2>2, <2>5, <2>6 DEF Leg
  <1> QED
    BY <1>1, <1>2, <1>3

(* What an order that passes the gate knows of the book. *)
LEMMA GateOfBook ==
    ASSUME PathInv, tripped \in BOOLEAN, PumpPlace, ~misread'.book
    PROVE  /\ ~misread.book /\ ~Opposed(Here.sym, Wish.side)
           /\ \A x \in Symbols : ~Blind(x) /\ ~SetOff(x)
           /\ Here.sym \in Symbols /\ Wish.side \in Sides /\ Wish.qty \in Nat \ {0} /\ stage = "idle"
           /\ PortfolioClears(session.limits, Here.sym, Wish, BookNow, Seen(Here.sym))
           /\ OpenLegs(BookNow) = {x \in Symbols : RiskPosition(x) # 0}
           /\ BookNow[Here.sym].qty = RiskPosition(Here.sym)
  <1>1. stage = "idle" /\ queue # <<>> /\ Here.orders # {} /\ Cleared
    BY PumpPlacePath
  <1>2. Here.sym \in Symbols /\ Wish.side \in Sides /\ Wish.qty \in Nat \ {0}
    BY <1>1, WishIs
  <1>3. misread'.book = (misread.book \/ Opposed(Here.sym, Wish.side)
                            \/ \E x \in Symbols : Blind(x) \/ SetOff(x))
    <2>1. misread' = Misread(Here.sym, Wish.side)
      BY DEF PumpPlace
    <2> QED
      BY <2>1 DEF Misread
  <1>4. /\ ~misread.book /\ ~Opposed(Here.sym, Wish.side)
        /\ \A x \in Symbols : ~Blind(x) /\ ~SetOff(x)
    BY <1>3
  <1>5. PortfolioClears(session.limits, Here.sym, Wish, BookNow, Seen(Here.sym))
    BY <1>1 DEF Cleared, GateClears
  <1>6. /\ OpenLegs(BookNow) = {x \in Symbols : RiskPosition(x) # 0}
        /\ BookNow[Here.sym].qty = RiskPosition(Here.sym)
    BY <1>2 DEF OpenLegs, BookNow
  <1> QED
    BY <1>1, <1>2, <1>4, <1>5, <1>6

LEMMA LegWhenSent ==
    ASSUME PathInv, tripped \in BOOLEAN, PumpPlace, NEW s \in Symbols, Leg(s)'
    PROVE  Leg(s) \/ s = Here.sym
  <1>1. UNCHANGED <<session, orders>> /\ Head(queue').sym = Here.sym
    BY PumpPlacePath
  <1>2. Seen(s)' = Seen(s) /\ Ids(s)' = Ids(s)
    BY <1>1 DEF Seen, Applied, Ids
  <1>3. \A id : Dormant(orders[id])' = Dormant(orders[id])
    BY <1>1 DEF Dormant
  <1>4. Here'.sym = Here.sym
    BY <1>1 DEF Here
  <1> QED
    BY <1>2, <1>3, <1>4 DEF Leg

LEMMA LegsNext ==
    ASSUME PathInv, PathInv', tripped \in BOOLEAN, PathStep, LegsInv
    PROVE  LegsInv'
  <1> DEFINE S == {s \in Symbols : Leg(s)}
             T == {s \in Symbols : Leg(s)'}
             limit == session.limits.symbols
  <1>1. IsFiniteSet(Symbols) /\ limit \in Nat
    BY SessionIs DEF PathInv, Symbols
  <1>2. IsFiniteSet(S) /\ S \subseteq Symbols /\ T \subseteq Symbols
    BY <1>1, FS_Subset
  <1>3. session' = session
    <2>1. PumpPlace => session' = session
      BY PumpPlacePath
    <2> QED
      BY <2>1 DEF PathStep, Quiet, Traded, Accepted
  <1>4. LegsInv' = (~misread'.book /\ limit > 0 => Cardinality(T) <= limit)
    BY <1>3 DEF LegsInv, Symbols
  <1>5. SUFFICES ASSUME ~misread'.book, limit > 0
                 PROVE  Cardinality(T) <= limit
    BY <1>4
  <1>6. CASE Quiet \/ (\E id \in 1..Len(orders) : Traded(id)) \/ Accepted
    <2>1. misread' = misread
      BY <1>6 DEF Quiet, Traded, Accepted
    <2>2. Cardinality(S) <= limit
      BY <1>5, <2>1 DEF LegsInv
    <2>3. T \subseteq S
      BY <1>6, LegShrinks
    <2>4. Cardinality(T) <= Cardinality(S) /\ Cardinality(T) \in Nat /\ Cardinality(S) \in Nat
      <3> HIDE DEF S, T
      <3> QED
        BY <1>2, <2>3, FS_Subset, FS_CardinalityType
    <2> QED
      BY <1>1, <2>2, <2>4
  <1>7. CASE PumpPlace
    <2> DEFINE h == Here.sym
               O == {x \in Symbols : RiskPosition(x) # 0}
    <2>1. /\ ~misread.book /\ stage = "idle" /\ h \in Symbols /\ Wish.qty # 0
          /\ \A x \in Symbols : ~Blind(x) /\ ~SetOff(x)
          /\ PortfolioClears(session.limits, h, Wish, BookNow, Seen(h))
          /\ OpenLegs(BookNow) = O
          /\ BookNow[h].qty = RiskPosition(h)
      BY <1>5, <1>7, GateOfBook
    <2>2. T \subseteq S \cup {h}
      BY <1>7, LegWhenSent
    <2>3. S \subseteq O
      BY <2>1, LegsAreHeld
    <2>4. Cardinality(S) <= limit
      BY <1>5, <2>1 DEF LegsInv
    <2>5. IsFiniteSet(O)
      BY <1>1, FS_Subset
    <2>6. CASE h \in S
      <3>1. T \subseteq S
        BY <2>2, <2>6
      <3>2. Cardinality(T) <= Cardinality(S) /\ Cardinality(T) \in Nat /\ Cardinality(S) \in Nat
        <4> HIDE DEF S, T
        <4> QED
          BY <1>2, <3>1, FS_Subset, FS_CardinalityType
      <3> QED
        BY <1>1, <2>4, <3>2
    <2>7. CASE h \notin S
      <3>1. ~Leg(h)
        BY <2>1, <2>7
      <3>2. Seen(h) = 0 /\ RiskPosition(h) = 0
        BY <2>1, <3>1, NoLegIsFlat DEF Leg
      <3>3. Cardinality(O) < limit
        BY <1>5, <2>1, <3>2 DEF PortfolioClears, ReducesExposure
      <3>4. /\ IsFiniteSet(S \cup {h}) /\ Cardinality(S \cup {h}) = Cardinality(S) + 1
            /\ Cardinality(S) <= Cardinality(O) /\ Cardinality(S) \in Nat /\ Cardinality(O) \in Nat
        <4> HIDE DEF S, T, O, h
        <4> QED
          BY <1>2, <2>3, <2>5, <2>7, FS_Subset, FS_AddElement, FS_CardinalityType
      <3>5. Cardinality(T) <= Cardinality(S \cup {h}) /\ Cardinality(T) \in Nat
        <4> HIDE DEF S, T, O, h
        <4> QED
          BY <2>2, <3>4, FS_Subset, FS_CardinalityType
      <3> HIDE DEF S, T, O, h, limit
      <3> QED
        BY <1>1, <3>3, <3>4, <3>5
    <2> QED
      BY <2>6, <2>7
  <1> QED
    BY <1>6, <1>7 DEF PathStep

LEMMA LegsInit ==
    ASSUME Init
    PROVE  LegsInv
  <1>1. orders = <<>> /\ stage = "idle" /\ session \in Sessions
    BY DEF Init
  <1>2. ASSUME NEW s \in Symbols
        PROVE  Leg(s) => session.held[s] # 0
    <2>1. Ids(s) = {}
      <3>1. Len(orders) = 0
        BY <1>1
      <3> QED
        BY <3>1 DEF Ids
    <2>2. SumFunctionOnSet(Applied, Ids(s)) = 0
      BY <2>1, SumOfNone
    <2>3. session.held[s] \in Int
      BY <1>1, SessionIs DEF Symbols
    <2>4. Seen(s) = session.held[s]
      BY <2>2, <2>3 DEF Seen
    <2> QED
      BY <1>1, <2>1, <2>4 DEF Leg
  <1> DEFINE S == {s \in Symbols : Leg(s)}
             H == {s \in Symbols : session.held[s] # 0}
  <1>3. IsFiniteSet(Symbols) /\ session.limits.symbols \in Nat
    BY <1>1, SessionIs DEF Symbols
  <1>4. IsFiniteSet(H) /\ S \subseteq H
    BY <1>2, <1>3, FS_Subset
  <1>5. session.limits.symbols > 0 => Cardinality(H) <= session.limits.symbols
    BY <1>1, SessionsAssumption DEF Starts, Symbols
  <1>6. Cardinality(S) <= Cardinality(H) /\ Cardinality(S) \in Nat /\ Cardinality(H) \in Nat
    <2> HIDE DEF S, H
    <2> QED
      BY <1>4, FS_Subset, FS_CardinalityType
  <1>7. session.limits.symbols > 0 => Cardinality(S) <= session.limits.symbols
    <2> HIDE DEF S, H
    <2> QED
      BY <1>3, <1>5, <1>6
  <1> QED
    BY <1>7 DEF LegsInv

-----------------------------------------------------------------------------
(* The gross of the book.                                                  *)

Furthest(ss, os, st, q, s) == Greatest(Reaches(ss, os, st, q, s, "buy"), Reaches(ss, os, st, q, s, "sell"))

MarksInv == marks \in [Symbols -> session.marks]

GrossInv ==
    ~misread.book /\ session.limits.gross > 0 /\ Cardinality(session.marks) = 1 =>
        SumFunctionOnSet([s \in Symbols |-> Furthest(session, orders, stage, queue, s) * marks[s]], Symbols)
            <= session.limits.gross

LEMMA SumOfDomain ==
    ASSUME NEW f
    PROVE  SumFunction(f) = SumFunctionOnSet(f, DOMAIN f)
  BY DEF SumFunction, SumFunctionOnSet, FoldFunction

LEMMA FurthestIs ==
    ASSUME PathInv, NEW s \in Symbols
    PROVE  /\ Furthest(session, orders, stage, queue, s) \in Nat
           /\ \A d \in Sides :
                Reaches(session, orders, stage, queue, s, d) <= Furthest(session, orders, stage, queue, s)
  <1> DEFINE b == Reaches(session, orders, stage, queue, s, "buy")
             c == Reaches(session, orders, stage, queue, s, "sell")
             m == Toward(session, orders, s, "buy")
             n == Toward(session, orders, s, "sell")
  <1>1. "buy" \in Sides /\ "sell" \in Sides /\ s \in DOMAIN session.held
    BY DEF Sides, Symbols
  <1>2. b \in Int /\ c \in Int /\ m \in Int /\ n \in Int /\ b >= m /\ c >= n
    BY <1>1, ReachIs
  <1>3. m + n >= 0
    BY <1>1, OrdersAreBooked, TowardIs
  <1>4. Furthest(session, orders, stage, queue, s) = Greatest(b, c)
    BY DEF Furthest
  <1>5. Greatest(b, c) \in Nat /\ b <= Greatest(b, c) /\ c <= Greatest(b, c)
    <2> HIDE DEF b, c, m, n
    <2> QED
      BY <1>2, <1>3 DEF Greatest
  <1> QED
    BY <1>4, <1>5 DEF Sides

LEMMA TimesAMark ==
    ASSUME NEW m \in Nat, NEW a \in Int, NEW b \in Int, a <= b
    PROVE  a * m \in Int /\ b * m \in Int /\ a * m <= b * m
  <1>1. a * m \in Int /\ b * m \in Int /\ (b - a) * m >= 0
    <2>1. b - a \in Nat
      OBVIOUS
    <2>2. (b - a) * m \in Nat
      BY <2>1
    <2> QED
      BY <2>2
  <1>2. (b - a) * m = b * m - a * m
    BY Distributes
  <1> QED
    BY <1>1, <1>2

LEMMA OneMark ==
    ASSUME NEW ss \in Sessions, Cardinality(ss.marks) = 1, NEW m \in [DOMAIN ss.held -> ss.marks],
           NEW n \in [DOMAIN ss.held -> ss.marks]
    PROVE  \A s \in DOMAIN ss.held : m[s] \in Nat /\ n[s] = m[s]
  <1>1. IsFiniteSet(ss.marks) /\ ss.marks \subseteq Nat
    BY SessionIs
  <1>2. PICK x : ss.marks = {x}
    BY <1>1, FS_Singleton
  <1> QED
    BY <1>1, <1>2

(* A book that reaches no further at any symbol weighs no more. *)
Weighs(F, m, S) == SumFunctionOnSet([s \in S |-> F[s] * m[s]], S)

LEMMA WeighsLess ==
    ASSUME NEW S, IsFiniteSet(S), NEW F, NEW G, NEW m, NEW n,
           \A s \in S : F[s] \in Int /\ G[s] \in Int /\ F[s] <= G[s] /\ m[s] \in Nat /\ n[s] = m[s]
    PROVE  /\ Weighs(F, n, S) <= Weighs(G, m, S)
           /\ Weighs(F, n, S) \in Int /\ Weighs(G, m, S) \in Int
  <1> DEFINE f == [s \in S |-> F[s] * n[s]]
             g == [s \in S |-> G[s] * m[s]]
  <1>1. ASSUME NEW s \in S
        PROVE  f[s] \in Int /\ g[s] \in Int /\ f[s] <= g[s]
    <2>1. F[s] \in Int /\ G[s] \in Int /\ F[s] <= G[s] /\ m[s] \in Nat /\ n[s] = m[s]
      BY <1>1
    <2>2. F[s] * m[s] \in Int /\ G[s] * m[s] \in Int /\ F[s] * m[s] <= G[s] * m[s]
      BY <2>1, TimesAMark
    <2>3. f[s] = F[s] * m[s] /\ g[s] = G[s] * m[s]
      BY <1>1, <2>1
    <2> QED
      BY <2>2, <2>3
  <1> HIDE DEF f, g
  <1>2. SumFunctionOnSet(f, S) <= SumFunctionOnSet(g, S)
    BY <1>1, SumOfLess
  <1>3. SumFunctionOnSet(f, S) \in Int /\ SumFunctionOnSet(g, S) \in Int
    <2>1. \A s \in S : f[s] \in Int
      BY <1>1
    <2>2. \A s \in S : g[s] \in Int
      BY <1>1
    <2> QED
      BY <2>1, <2>2, SumIsInteger
  <1> QED
    BY <1>2, <1>3 DEF f, g, Weighs

(* risk/lib.rs, reduces_exposure: off the position, and not through zero. *)
LEMMA ReducesIs ==
    ASSUME NEW req, req.side \in Sides, req.qty \in Nat \ {0}, NEW p \in Int, ReducesExposure(req, p)
    PROVE  Signed(req.side, p) + req.qty <= 0 /\ Signed(req.side, p) < 0 /\ p # 0
  <1> DEFINE d == req.side
             q == req.qty
             after == p + Signed(d, q)
  <1>1. /\ p # 0
        /\ \/ after = 0
           \/ ((after > 0) = (p > 0)) /\ (Abs(after) < Abs(p))
    BY DEF ReducesExposure
  <1>2. CASE d = "buy"
    <2>1. after = p + q /\ Signed(d, p) = p
      BY <1>2 DEF Signed
    <2> HIDE DEF d, after
    <2>2. p + q <= 0 /\ p < 0
      BY <1>1, <2>1 DEF Abs
    <2> QED
      BY <1>1, <2>1, <2>2 DEF d
  <1>3. CASE d = "sell"
    <2>1. after = p - q /\ Signed(d, p) = -p
      BY <1>3 DEF Signed
    <2> HIDE DEF d, after
    <2>2. p - q >= 0 /\ p > 0
      BY <1>1, <2>1 DEF Abs
    <2> QED
      BY <1>1, <2>1, <2>2 DEF d
  <1> QED
    BY <1>2, <1>3 DEF Sides

(* An order that passes for taking its own leg down takes it no further than
   the orders of the other side reach. *)
LEMMA ReducingReachesLess ==
    ASSUME PathInv, NEW h \in Symbols, NEW req, req.side \in Sides, req.qty \in Nat \ {0},
           ~Blind(h), ~SetOff(h), ~Opposed(h, req.side), ReducesExposure(req, Seen(h)),
           NEW e \in Sides, e # req.side
    PROVE  Toward(session, orders, h, req.side) + req.qty <= Toward(session, orders, h, e)
  <1> DEFINE d == req.side
             T == Tracked(h)
             M == Remaining(h)
             m == Toward(session, orders, h, d)
             n == Toward(session, orders, h, e)
  <1>1. Seen(h) \in Int /\ RiskPosition(h) \in Int
    BY SeenIs, RiskIs
  <1>2. Signed(d, Seen(h)) + req.qty <= 0 /\ Signed(d, Seen(h)) < 0
    BY <1>1, ReducesIs
  <1>3. T = {}
    <2>1. SUFFICES ASSUME NEW id \in T
                   PROVE  FALSE
      OBVIOUS
    <2>2. orders[id].side = d
      BY <2>1 DEF Opposed
    <2>3. ~(Seen(h) * Signed(d, 1) < 0)
      BY <2>1, <2>2 DEF SetOff
    <2> HIDE DEF d
    <2>4. CASE d = "buy"
      <3>1. Signed(d, 1) = 1 /\ Signed(d, Seen(h)) = Seen(h)
        BY <2>4 DEF Signed
      <3> QED
        BY <1>1, <1>2, <2>3, <3>1
    <2>5. CASE d = "sell"
      <3>1. Signed(d, 1) = -1 /\ Signed(d, Seen(h)) = -Seen(h)
        BY <2>5 DEF Signed
      <3> QED
        BY <1>1, <1>2, <2>3, <3>1
    <2> QED
      BY <2>4, <2>5 DEF Sides, d
  <1>4. RiskPosition(h) = Seen(h)
    <2>1. RiskPosition(h) = Seen(h) + SumFunctionOnSet(M, T)
      BY RiskIs
    <2> HIDE DEF M, T
    <2>2. SumFunctionOnSet(M, T) = 0
      BY <1>3, SumOfNone
    <2> QED
      BY <1>1, <2>1, <2>2
  <1>5. m <= Signed(d, Seen(h))
    BY <1>4, ProjectionCovers
  <1>6. m \in Int /\ n \in Int /\ m + n >= 0
    <2>1. h \in DOMAIN session.held /\ "buy" \in Sides /\ "sell" \in Sides
      BY DEF Symbols, Sides
    <2>2. Toward(session, orders, h, "buy") + Toward(session, orders, h, "sell") >= 0
      BY <2>1, OrdersAreBooked, TowardIs
    <2>3. m \in Int /\ n \in Int
      BY <2>1, OrdersAreBooked, TowardIs
    <2>4. Toward(session, orders, h, "buy") \in Int /\ Toward(session, orders, h, "sell") \in Int
      BY <2>1, OrdersAreBooked, TowardIs
    <2>5. (d = "buy" /\ e = "sell") \/ (d = "sell" /\ e = "buy")
      BY DEF Sides
    <2> QED
      BY <2>2, <2>3, <2>4, <2>5
  <1>7. Signed(d, Seen(h)) \in Int
    BY <1>1, SignedIs
  <1> HIDE DEF m, n, d
  <1>8. m + req.qty <= n
    BY <1>2, <1>5, <1>6, <1>7
  <1> QED
    BY <1>8 DEF m, n, d

LEMMA MarksNext ==
    ASSUME MarksInv, [Next]_vars
    PROVE  MarksInv'
  <1>1. ASSUME NEW s \in Symbols, PlanSymbol(s) \/ MarkMoves(s)
        PROVE  MarksInv'
    BY <1>1 DEF PlanSymbol, MarkMoves, MarksInv, Symbols
  <1>2. CASE PumpCancel \/ PumpPlace \/ PumpDone \/ PumpHears \/ VenueAccepts \/ VenueRefuses
    BY <1>2 DEF PumpCancel, PumpPlace, PumpDone, PumpHears, VenueAccepts, VenueRefuses, MarksInv, Symbols
  <1>3. ASSUME NEW id \in 1..Len(orders), Trade(id) \/ OrderFrame(id) \/ FillFrame(id)
        PROVE  MarksInv'
    BY <1>3 DEF Trade, OrderFrame, FillFrame, MarksInv, Symbols
  <1>4. CASE Tick \/ StepBack \/ AskBudget \/ HearBudget
    BY <1>4 DEF Tick, StepBack, AskBudget, HearBudget, MarksInv, Symbols
  <1>5. CASE Swing \/ PollAccount \/ Midnight \/ StatusPass \/ Restart
    BY <1>5 DEF Swing, PollAccount, Midnight, StatusPass, Restart, otherVars, MarksInv, Symbols
  <1>6. CASE UNCHANGED vars
    BY <1>6 DEF vars, MarksInv, Symbols
  <1> QED
    BY <1>1, <1>2, <1>3, <1>4, <1>5, <1>6 DEF Next

LEMMA GrossNext ==
    ASSUME PathInv, PathInv', MarksInv, MarksInv', tripped \in BOOLEAN, PathStep, GrossInv
    PROVE  GrossInv'
  <1> DEFINE S == Symbols
             F == [s \in S |-> Furthest(session, orders, stage, queue, s)]
             G == [s \in S |-> Furthest(session', orders', stage', queue', s)]
             limit == session.limits.gross
  <1>1. IsFiniteSet(S) /\ limit \in Nat /\ session \in Sessions
    BY SessionIs DEF PathInv, Symbols
  <1>2. session' = session /\ Symbols' = S
    <2>1. PumpPlace => session' = session
      BY PumpPlacePath
    <2> QED
      BY <2>1 DEF PathStep, Quiet, Traded, Accepted, Symbols
  <1>3. /\ Weighs(F, marks, S)
            = SumFunctionOnSet([s \in S |-> Furthest(session, orders, stage, queue, s) * marks[s]], S)
        /\ Weighs(G, marks', S)
            = SumFunctionOnSet([s \in S |-> Furthest(session', orders', stage', queue', s) * marks'[s]], S)
    <2>1. /\ [s \in S |-> F[s] * marks[s]]
                = [s \in S |-> Furthest(session, orders, stage, queue, s) * marks[s]]
          /\ [s \in S |-> G[s] * marks'[s]]
                = [s \in S |-> Furthest(session', orders', stage', queue', s) * marks'[s]]
      OBVIOUS
    <2> HIDE DEF F, G
    <2> QED
      BY <2>1 DEF Weighs
  <1>4. GrossInv' = (~misread'.book /\ limit > 0 /\ Cardinality(session.marks) = 1
                        => Weighs(G, marks', S) <= limit)
    BY <1>2, <1>3 DEF GrossInv
  <1>5. SUFFICES ASSUME ~misread'.book, limit > 0, Cardinality(session.marks) = 1
                 PROVE  Weighs(G, marks', S) <= limit
    BY <1>4
  <1>6. \A s \in S : marks[s] \in Nat /\ marks'[s] = marks[s]
    <2>1. marks \in [DOMAIN session.held -> session.marks] /\ marks' \in [DOMAIN session.held -> session.marks]
      BY <1>2 DEF MarksInv, Symbols
    <2> QED
      BY <1>1, <1>5, <2>1, OneMark DEF Symbols
  <1>7. ASSUME NEW s \in S
        PROVE  F[s] \in Int /\ G[s] \in Int
    <2>1. Furthest(session, orders, stage, queue, s) \in Nat
      BY FurthestIs
    <2>2. Furthest(session', orders', stage', queue', s) \in Int
      <3>1. \A d \in Sides : Reaches(session', orders', stage', queue', s, d) \in Int
        <4>1. CASE Quiet \/ (\E id \in 1..Len(orders) : Traded(id)) \/ Accepted
          BY <4>1, ReachShrinks
        <4>2. CASE PumpPlace
          <5>1. ASSUME NEW d \in Sides
                PROVE  Reaches(session', orders', stage', queue', s, d) \in Int
            <6>1. Toward(session, orders, s, d) \in Int
              BY ReachIs
            <6>2. Wish.qty \in Int
              BY <1>5, <4>2, GateOfBook
            <6> QED
              BY <4>2, <6>1, <6>2, ReachWhenSent
          <5> QED
            BY <5>1
        <4> QED
          BY <4>1, <4>2 DEF PathStep
      <3>2. "buy" \in Sides /\ "sell" \in Sides
        BY DEF Sides
      <3> QED
        BY <3>1, <3>2 DEF Furthest, Greatest
    <2> QED
      BY <2>1, <2>2
  <1>8. ASSUME ~misread.book, \A s \in S : G[s] <= F[s]
        PROVE  Weighs(G, marks', S) <= limit
    <2>1. Weighs(F, marks, S) <= limit
      BY <1>3, <1>5, <1>8 DEF GrossInv
    <2>2. \A s \in S : G[s] \in Int /\ F[s] \in Int /\ G[s] <= F[s] /\ marks[s] \in Nat /\ marks'[s] = marks[s]
      BY <1>6, <1>7, <1>8
    <2> HIDE DEF F, G, S
    <2>3. /\ Weighs(G, marks', S) <= Weighs(F, marks, S)
          /\ Weighs(G, marks', S) \in Int /\ Weighs(F, marks, S) \in Int
      BY <1>1, <2>2, WeighsLess
    <2> HIDE DEF limit
    <2> QED
      BY <1>1, <2>1, <2>3
  <1>9. CASE Quiet \/ (\E id \in 1..Len(orders) : Traded(id)) \/ Accepted
    <2>1. ~misread.book
      BY <1>5, <1>9 DEF Quiet, Traded, Accepted
    <2>2. ASSUME NEW s \in S
          PROVE  G[s] <= F[s]
      <3>1. "buy" \in Sides /\ "sell" \in Sides
        BY DEF Sides
      <3>2. \A d \in Sides :
                /\ Reaches(session', orders', stage', queue', s, d) <= Reaches(session, orders, stage, queue, s, d)
                /\ Reaches(session', orders', stage', queue', s, d) \in Int
                /\ Reaches(session, orders, stage, queue, s, d) \in Int
        BY <1>9, ReachShrinks, ReachIs
      <3>3. Furthest(session', orders', stage', queue', s) <= Furthest(session, orders, stage, queue, s)
        BY <3>1, <3>2 DEF Furthest, Greatest
      <3> QED
        BY <3>3
    <2> QED
      BY <1>8, <2>1, <2>2
  <1>10. CASE PumpPlace
    <2> DEFINE h == Here.sym
               d == Wish.side
               q == Wish.qty
               e == IF d = "buy" THEN "sell" ELSE "buy"
               R(s, side) == Toward(session, orders, s, side)
    <2>1. /\ ~misread.book /\ ~Opposed(h, d) /\ (\A x \in Symbols : ~Blind(x) /\ ~SetOff(x))
          /\ h \in Symbols /\ d \in Sides /\ q \in Nat \ {0} /\ stage = "idle"
          /\ PortfolioClears(session.limits, h, Wish, BookNow, Seen(h))
      BY <1>5, <1>10, GateOfBook
    <2>2. e \in Sides /\ e # d /\ \A side \in Sides : side = d \/ side = e
      <3> HIDE DEF d
      <3> QED
        BY <2>1 DEF Sides
    <2>3. \A s \in S, side \in Sides :
            Reaches(session', orders', stage', queue', s, side)
                = R(s, side) + (IF s = h /\ side = d THEN q ELSE 0)
      BY <1>10, ReachWhenSent
    <2>4. \A s \in S, side \in Sides :
            R(s, side) \in Int /\ R(s, side) = Reaches(session, orders, stage, queue, s, side)
      BY <2>1, ReachIs
    <2>5. ASSUME NEW s \in S, NEW bound \in Int,
                 \A side \in Sides : Reaches(session', orders', stage', queue', s, side) <= bound
          PROVE  G[s] <= bound
      <3>1. "buy" \in Sides /\ "sell" \in Sides
        BY DEF Sides
      <3>2. Furthest(session', orders', stage', queue', s) <= bound
        BY <2>5, <3>1 DEF Furthest, Greatest
      <3> QED
        BY <3>2
    <2>6. CASE R(h, d) + q <= R(h, e)
      <3>1. ASSUME NEW s \in S
            PROVE  G[s] <= F[s]
        <4>1. ASSUME NEW side \in Sides
              PROVE  Reaches(session', orders', stage', queue', s, side) <= F[s]
          <5>1. /\ R(s, side) <= F[s] /\ R(s, e) <= F[s] /\ R(s, e) \in Int /\ R(s, side) \in Int /\ F[s] \in Int
            <6>1. Furthest(session, orders, stage, queue, s) = F[s]
              OBVIOUS
            <6> QED
              BY <1>7, <2>2, <2>4, <6>1, FurthestIs
          <5>2. CASE s = h /\ side = d
            <6>1. Reaches(session', orders', stage', queue', s, side) = R(h, d) + q
              BY <2>3, <5>2
            <6>2. R(h, e) <= F[s] /\ R(h, e) \in Int /\ R(h, d) \in Int
              BY <5>1, <5>2
            <6> HIDE DEF R, F, h, d, q, e
            <6> QED
              BY <1>7, <2>1, <2>6, <6>1, <6>2
          <5>3. CASE ~(s = h /\ side = d)
            <6>1. Reaches(session', orders', stage', queue', s, side) = R(s, side) + 0
              BY <2>3, <5>3
            <6> HIDE DEF R, F
            <6> QED
              BY <5>1, <6>1
          <5> QED
            BY <5>2, <5>3
        <4> HIDE DEF F, G
        <4> QED
          BY <1>7, <2>5, <4>1
      <3> QED
        BY <1>8, <2>1, <3>1
    <2>7. CASE ~(R(h, d) + q <= R(h, e))
      <3> DEFINE after == WithOrder(BookNow, h, Wish)
                 A == [s \in S |-> Abs(after[s].qty)]
      <3>1. ~ReducesExposure(Wish, Seen(h))
        BY <2>1, <2>2, <2>7, ReducingReachesLess
      <3>2. Gross(after) <= limit
        BY <1>5, <2>1, <3>1 DEF PortfolioClears
      <3>3. /\ DOMAIN after = S /\ \A s \in S : after[s].mark = marks[s]
            /\ \A s \in S : after[s].qty = RiskPosition(s) + (IF s = h THEN Signed(d, q) ELSE 0)
        <4>1. \A s \in S : RiskPosition(s) \in Int
          BY RiskIs
        <4> QED
          BY <2>1, <4>1 DEF WithOrder, BookNow
      <3>4. Gross(after) = Weighs(A, marks, S)
        <4> DEFINE a == [s \in S |-> A[s] * marks[s]]
        <4>1. a = [s \in DOMAIN after |-> Abs(after[s].qty) * after[s].mark]
          BY <3>3
        <4>2. DOMAIN a = S
          OBVIOUS
        <4> HIDE DEF a
        <4>3. Gross(after) = SumFunction(a)
          BY <4>1 DEF Gross
        <4>4. Gross(after) = SumFunctionOnSet(a, S)
          BY <4>2, <4>3, SumOfDomain
        <4> HIDE DEF A
        <4> QED
          BY <4>4 DEF a, Weighs
      <3>5. ASSUME NEW s \in S
            PROVE  G[s] \in Int /\ A[s] \in Int /\ G[s] <= A[s] /\ marks[s] \in Nat /\ marks'[s] = marks[s]
        <4>1. RiskPosition(s) \in Int /\ Signed(d, q) \in Int
          BY <2>1, RiskIs, SignedIs
        <4>2. A[s] = Abs(RiskPosition(s) + (IF s = h THEN Signed(d, q) ELSE 0))
          BY <3>3
        <4>3. A[s] \in Int
          BY <4>1, <4>2 DEF Abs
        <4>4. CASE s # h
          <5>1. A[s] = Abs(RiskPosition(s))
            BY <4>1, <4>2, <4>4
          <5>2. ASSUME NEW side \in Sides
                PROVE  Reaches(session', orders', stage', queue', s, side) <= A[s]
            <6>1. Reaches(session', orders', stage', queue', s, side) = R(s, side) + 0
              BY <2>3, <4>4
            <6>2. R(s, side) <= Abs(RiskPosition(s)) /\ R(s, side) \in Int
              BY <2>1, <2>4, BookCovers
            <6> HIDE DEF R, A
            <6> QED
              BY <5>1, <6>1, <6>2
          <5>3. G[s] <= A[s]
            <6> HIDE DEF A, G
            <6> QED
              BY <2>5, <4>3, <5>2
          <5> QED
            BY <1>6, <1>7, <4>3, <5>3
        <4>5. CASE s = h
          <5>1. A[s] = Abs(RiskPosition(h) + Signed(d, q))
            BY <4>2, <4>5
          <5>2. R(h, d) <= Signed(d, RiskPosition(h)) /\ R(h, d) \in Int /\ R(h, e) \in Int
            BY <2>1, <2>2, <2>4, ProjectionCovers
          <5>3. Signed(d, RiskPosition(h)) + q <= A[s] /\ Signed(d, RiskPosition(h)) \in Int
            <6>1. RiskPosition(h) \in Int
              BY <4>1, <4>5
            <6> HIDE DEF A, h, d, q
            <6> QED
              BY <2>1, <5>1, <6>1 DEF Signed, Abs, Sides
          <5>4. ASSUME NEW side \in Sides
                PROVE  Reaches(session', orders', stage', queue', s, side) <= A[s]
            <6>1. CASE side = d
              <7>1. Reaches(session', orders', stage', queue', s, side) = R(h, d) + q
                BY <2>3, <4>5, <6>1
              <7> HIDE DEF R, A, h, d, q, e
              <7> QED
                BY <2>1, <4>3, <5>2, <5>3, <7>1
            <6>2. CASE side # d
              <7>0. side = e
                BY <2>2, <6>2
              <7>1. Reaches(session', orders', stage', queue', s, side) = R(h, e) + 0
                BY <2>3, <4>5, <6>2, <7>0
              <7> HIDE DEF R, A, h, d, q, e
              <7> QED
                BY <2>1, <2>7, <4>3, <5>2, <5>3, <7>1
            <6> QED
              BY <6>1, <6>2
          <5>5. G[s] <= A[s]
            <6> HIDE DEF A, G
            <6> QED
              BY <2>5, <4>3, <5>4
          <5> QED
            BY <1>6, <1>7, <4>3, <5>5
        <4> QED
          BY <4>4, <4>5
      <3> HIDE DEF A, G, S, after
      <3>6. /\ Weighs(G, marks', S) <= Weighs(A, marks, S)
            /\ Weighs(G, marks', S) \in Int /\ Weighs(A, marks, S) \in Int
        BY <1>1, <3>5, WeighsLess
      <3> HIDE DEF limit
      <3> QED
        BY <1>1, <3>2, <3>4, <3>6
    <2> QED
      BY <2>6, <2>7
  <1> QED
    BY <1>9, <1>10 DEF PathStep

LEMMA GrossInit ==
    ASSUME Init
    PROVE  GrossInv
  <1> DEFINE S == Symbols
             F == [s \in S |-> Furthest(session, orders, stage, queue, s)]
             H == [s \in S |-> Abs(session.held[s])]
             limit == session.limits.gross
  <1>1. session \in Sessions /\ marks \in [Symbols -> session.marks]
    BY DEF Init
  <1>2. IsFiniteSet(S) /\ limit \in Nat /\ S = DOMAIN session.held
    BY <1>1, SessionIs DEF Symbols
  <1>3. SUFFICES ASSUME limit > 0, Cardinality(session.marks) = 1
                 PROVE  SumFunctionOnSet([s \in S |-> Furthest(session, orders, stage, queue, s) * marks[s]], S)
                            <= limit
    BY DEF GrossInv
  <1>4. PICK mark : session.marks = {mark}
    BY <1>1, <1>3, SessionIs, FS_Singleton
  <1>5. mark \in Nat /\ \A s \in S : marks[s] = mark
    BY <1>1, <1>4, SessionIs
  <1>6. ASSUME NEW s \in S
        PROVE  Furthest(session, orders, stage, queue, s) = Abs(session.held[s])
    <2>1. "buy" \in Sides /\ "sell" \in Sides
      BY DEF Sides
    <2>2. /\ session.held[s] \in Int
          /\ Reaches(session, orders, stage, queue, s, "buy") = session.held[s]
          /\ Reaches(session, orders, stage, queue, s, "sell") = -session.held[s]
      BY <2>1, NothingReaches, SignedIs
    <2> QED
      BY <2>2 DEF Furthest, Greatest, Abs
  <1>7. [s \in S |-> Furthest(session, orders, stage, queue, s) * marks[s]] = [s \in S |-> Abs(session.held[s]) * mark]
    BY <1>5, <1>6
  <1> DEFINE h == [x \in DOMAIN session.held |-> Abs(session.held[x]) * mark]
  <1>8. SumFunction(h) <= limit
    BY <1>1, <1>3, <1>4, SessionsAssumption DEF Starts
  <1>9. DOMAIN h = S
    BY <1>2
  <1>10. [s \in S |-> Furthest(session, orders, stage, queue, s) * marks[s]] = h
    BY <1>2, <1>7
  <1> HIDE DEF h
  <1>11. SumFunctionOnSet(h, S) <= limit
    BY <1>8, <1>9, SumOfDomain
  <1> QED
    BY <1>10, <1>11

LEMMA BookShown ==
    ASSUME PathInv, MarksInv, LegsInv, GrossInv
    PROVE  BookStaysInBounds
  <1> DEFINE Reach(s) == Greatest(Abs(Worst(s, "buy")), Abs(Worst(s, "sell")))
             S == Symbols
  <1>1. IsFiniteSet(S) /\ session \in Sessions /\ session.limits.symbols \in Nat /\ session.limits.gross \in Nat
    BY SessionIs DEF PathInv, Symbols
  <1>2. ASSUME NEW s \in S
        PROVE  /\ Reach(s) \in Int
               /\ Reach(s) <= Furthest(session, orders, stage, queue, s)
               /\ ~Leg(s) => Reach(s) = 0
    <2> DEFINE b == Worst(s, "buy")
               c == Worst(s, "sell")
    <2>1. "buy" \in Sides /\ "sell" \in Sides /\ s \in DOMAIN session.held
      BY DEF Sides, Symbols
    <2>2. /\ b \in Int /\ Toward(session, orders, s, "buy") = b
          /\ c \in Int /\ Toward(session, orders, s, "sell") = -c
      BY <2>1, TowardIsWorst, SignedIs
    <2>3. b - c >= 0
      <3>1. Toward(session, orders, s, "buy") + Toward(session, orders, s, "sell") >= 0
        BY <2>1, OrdersAreBooked, TowardIs
      <3> HIDE DEF b, c
      <3> QED
        BY <2>2, <3>1
    <2>4. /\ b <= Reaches(session, orders, stage, queue, s, "buy")
          /\ -c <= Reaches(session, orders, stage, queue, s, "sell")
          /\ Reaches(session, orders, stage, queue, s, "buy") \in Int
          /\ Reaches(session, orders, stage, queue, s, "sell") \in Int
      BY <2>1, <2>2, ReachIs
    <2>5. ~Leg(s) => b = 0 /\ c = 0
      <3>1. ~Leg(s) => Toward(session, orders, s, "buy") = 0 /\ Toward(session, orders, s, "sell") = 0
        BY <2>1, NoLegIsFlat
      <3> HIDE DEF b, c
      <3> QED
        BY <2>2, <3>1
    <2>6. Reach(s) = Greatest(Abs(b), Abs(c))
      OBVIOUS
    <2> HIDE DEF b, c, Reach
    <2>7. Reach(s) \in Int /\ (~Leg(s) => Reach(s) = 0)
      BY <2>2, <2>5, <2>6 DEF Greatest, Abs
    <2>8. Reach(s) <= Furthest(session, orders, stage, queue, s)
      <3>1. Reach(s) = b \/ Reach(s) = -c
        BY <2>2, <2>3, <2>6 DEF Greatest, Abs
      <3> QED
        BY <2>2, <2>4, <3>1 DEF Furthest, Greatest
    <2> QED
      BY <2>7, <2>8
  <1>3. ASSUME ~misread.book, session.limits.symbols > 0
        PROVE  Cardinality({s \in Symbols : Reach(s) # 0}) <= session.limits.symbols
    <2> DEFINE L == {s \in S : Leg(s)}
               R == {s \in S : Reach(s) # 0}
    <2>1. R \subseteq L /\ L \subseteq S
      <3> HIDE DEF Reach
      <3> QED
        BY <1>2
    <2>2. Cardinality(L) <= session.limits.symbols
      BY <1>3 DEF LegsInv
    <2> HIDE DEF L, R, S
    <2>3. IsFiniteSet(L)
      BY <1>1, <2>1, FS_Subset
    <2>4. Cardinality(R) <= Cardinality(L) /\ Cardinality(R) \in Nat /\ Cardinality(L) \in Nat
      BY <2>1, <2>3, FS_Subset, FS_CardinalityType
    <2>5. Cardinality(R) <= session.limits.symbols
      BY <1>1, <2>2, <2>4
    <2> QED
      BY <2>5 DEF R, S
  <1>4. ASSUME ~misread.book, session.limits.gross > 0, Cardinality(session.marks) = 1
        PROVE  SumFunction([s \in Symbols |-> Reach(s) * marks[s]]) <= session.limits.gross
    <2> DEFINE F == [s \in S |-> Furthest(session, orders, stage, queue, s)]
               R == [s \in S |-> Reach(s)]
               f == [s \in S |-> R[s] * marks[s]]
    <2>1. Weighs(F, marks, S) <= session.limits.gross
      <3>1. [s \in S |-> F[s] * marks[s]] = [s \in S |-> Furthest(session, orders, stage, queue, s) * marks[s]]
        OBVIOUS
      <3>2. SumFunctionOnSet([s \in S |-> F[s] * marks[s]], S) <= session.limits.gross
        BY <1>4, <3>1 DEF GrossInv
      <3> HIDE DEF F
      <3> QED
        BY <3>2 DEF Weighs
    <2>2. ASSUME NEW s \in S
          PROVE  R[s] \in Int /\ F[s] \in Int /\ R[s] <= F[s] /\ marks[s] \in Nat
      <3>1. marks[s] \in Nat
        <4>1. marks \in [DOMAIN session.held -> session.marks]
          BY DEF MarksInv, Symbols
        <4> QED
          BY <1>1, <1>4, <4>1, OneMark DEF Symbols
      <3>2. Furthest(session, orders, stage, queue, s) \in Nat
        BY FurthestIs
      <3>3. R[s] = Reach(s) /\ F[s] = Furthest(session, orders, stage, queue, s)
        OBVIOUS
      <3> HIDE DEF R, F, Reach
      <3> QED
        BY <1>2, <3>1, <3>2, <3>3
    <2>3. [s \in Symbols |-> Reach(s) * marks[s]] = f /\ DOMAIN f = S
      OBVIOUS
    <2> HIDE DEF F, R, Reach, S
    <2>4. /\ Weighs(R, marks, S) <= Weighs(F, marks, S)
          /\ Weighs(R, marks, S) \in Int /\ Weighs(F, marks, S) \in Int
      BY <1>1, <2>2, WeighsLess
    <2>5. Weighs(R, marks, S) = SumFunctionOnSet(f, S)
      BY DEF Weighs
    <2> HIDE DEF f
    <2>6. SumFunction(f) = SumFunctionOnSet(f, S)
      BY <2>3, SumOfDomain
    <2>7. SumFunction(f) <= session.limits.gross
      BY <1>1, <2>1, <2>4, <2>5, <2>6
    <2> QED
      BY <2>3, <2>7
  <1> QED
    BY <1>3, <1>4 DEF BookStaysInBounds

-----------------------------------------------------------------------------
(* The window.  What it holds is ascending, and of what was charged since  *)
(* any moment that may still count it holds no less.                       *)

Charges == [at : Int, weight : Nat \ {0}]

Ascends(w) ==
    /\ w \in Seq(Charges)
    /\ \A i \in 1..Len(w), j \in 1..Len(w) : i < j => w[i].at < w[j].at

Weights(w) == [i \in 1..Len(w) |-> w[i].weight]
After(w, t) == [i \in 1..Len(w) |-> IF w[i].at > t THEN w[i].weight ELSE 0]
Since(w, t) == SumFunctionOnSet(After(w, t), 1..Len(w))
WeightTo(w, k) == SumFunctionOnSet(Weights(w), 1..k)

(* A governor whose sum is right. *)
Counts(g) == IsGovernor(g) /\ Ascends(g.window) /\ g.weight = Weight(g.window)

LEMMA ChargeIs ==
    ASSUME NEW w \in Seq(Charges), NEW i \in 1..Len(w)
    PROVE  w[i] \in Charges /\ w[i].at \in Int /\ w[i].weight \in Nat \ {0} /\ i \in Nat /\ Len(w) \in Nat
  <1>1. w[i] \in Charges /\ Len(w) \in Nat
    BY ElementOfSeq, LenProperties
  <1> QED
    BY <1>1 DEF Charges

LEMMA Upto ==
    ASSUME NEW n \in Nat
    PROVE  IsFiniteSet(1..n)
  BY FS_Interval

LEMMA SumUpto ==
    ASSUME NEW F, NEW n \in Nat, \A i \in 1..n : F[i] \in Nat
    PROVE  SumFunctionOnSet(F, 1..n) \in Nat
  <1> DEFINE I == 1..n
  <1> HIDE DEF I
  <1>1. IsFiniteSet(I) /\ \A i \in I : F[i] \in Nat
    BY Upto DEF I
  <1>2. SumFunctionOnSet(F, I) \in Nat
    BY <1>1, SumIsNatural
  <1> QED
    BY <1>2 DEF I

(* One term more. *)
LEMMA SumAppends ==
    ASSUME NEW F, NEW G, NEW n \in Nat,
           \A i \in 1..n : F[i] \in Nat /\ G[i] = F[i], G[n + 1] \in Nat
    PROVE  SumFunctionOnSet(G, 1..(n + 1)) = SumFunctionOnSet(F, 1..n) + G[n + 1]
  <1> DEFINE I == 1..n
             k == n + 1
             J == 1..(n + 1)
  <1>1. J = I \cup {k} /\ k \notin I
    OBVIOUS
  <1>2. IsFiniteSet(I)
    BY Upto
  <1>3. G[k] \in Nat /\ \A i \in I : F[i] \in Nat /\ G[i] = F[i]
    OBVIOUS
  <1> HIDE DEF I, J, k
  <1>4. \A i \in I \cup {k} : G[i] \in Int
    BY <1>3
  <1>5. SumFunctionOnSet(G, J) = SumFunctionOnSet(G, I) + G[k]
    BY <1>1, <1>2, <1>4, SumPutsIn
  <1>6. SumFunctionOnSet(F, I) = SumFunctionOnSet(G, I)
    <2>1. \A i \in I : F[i] \in Int /\ F[i] = G[i]
      BY <1>3
    <2> QED
      BY <1>2, <2>1, SumOfSame
  <1> QED
    BY <1>5, <1>6 DEF I, J, k

(* The first m terms, and the rest under indices of their own. *)
LEMMA SumSplits ==
    ASSUME NEW F, NEW G, NEW n \in Nat, NEW m \in Nat, NEW k \in Nat, n = m + k,
           \A i \in 1..n : F[i] \in Nat, \A i \in 1..k : G[i] = F[i + m]
    PROVE  SumFunctionOnSet(F, 1..n) = SumFunctionOnSet(F, 1..m) + SumFunctionOnSet(G, 1..k)
  <1> DEFINE I == 1..m
             J == (m + 1)..(m + k)
             K == 1..n
  <1>1. K = I \cup J /\ I \cap J = {} /\ m \in Int
    OBVIOUS
  <1>2. IsFiniteSet(I) /\ IsFiniteSet(K)
    BY Upto
  <1>3. IsFiniteSet(J)
    <2> HIDE DEF I, J, K
    <2> QED
      BY <1>1, <1>2, FS_Subset
  <1>4. SumFunctionOnSet(G, 1..k) = SumFunctionOnSet(F, J)
    <2>1. \A i \in 1..k : G[i] = F[i + m] /\ F[i + m] \in Int
      OBVIOUS
    <2> QED
      BY <1>1, <2>1, SumShifts
  <1>5. \A i \in I \cup J : F[i] \in Int
    BY <1>1
  <1> HIDE DEF I, J, K
  <1>6. SumFunctionOnSet(F, K) = SumFunctionOnSet(F, I) + SumFunctionOnSet(F, J)
    BY <1>1, <1>2, <1>3, <1>5, SumOfTwo
  <1> QED
    BY <1>4, <1>6 DEF I, J, K

LEMMA WeightIs ==
    ASSUME NEW w \in Seq(Charges)
    PROVE  /\ Weight(w) = SumFunctionOnSet(Weights(w), 1..Len(w))
           /\ Weight(w) \in Nat
           /\ \A i \in 1..Len(w) : Weights(w)[i] = w[i].weight /\ Weights(w)[i] \in Nat
           /\ \A k \in 0..Len(w) : WeightTo(w, k) \in Nat
           /\ WeightTo(w, Len(w)) = Weight(w)
  <1> DEFINE n == Len(w)
  <1>1. DOMAIN w = 1..n /\ n \in Nat
    BY LenProperties
  <1>2. Weights(w) = [i \in DOMAIN w |-> w[i].weight] /\ DOMAIN Weights(w) = 1..n
    BY <1>1 DEF Weights
  <1>3. Weight(w) = SumFunctionOnSet(Weights(w), 1..n)
    BY <1>2, SumOfDomain DEF Weight
  <1>4. \A i \in 1..n : Weights(w)[i] = w[i].weight /\ Weights(w)[i] \in Nat
    BY ChargeIs DEF Weights
  <1>5. ASSUME NEW k \in 0..n
        PROVE  WeightTo(w, k) \in Nat
    <2>1. k \in Nat /\ \A i \in 1..k : Weights(w)[i] \in Nat
      BY <1>1, <1>4
    <2> HIDE DEF n
    <2> QED
      BY <2>1, SumUpto DEF WeightTo
  <1>6. WeightTo(w, n) = Weight(w) /\ Weight(w) \in Nat
    <2>1. WeightTo(w, n) = Weight(w)
      BY <1>3 DEF WeightTo
    <2>2. n \in 0..n
      BY <1>1
    <2> QED
      BY <1>5, <2>1, <2>2
  <1> QED
    BY <1>3, <1>4, <1>5, <1>6

LEMMA SinceIs ==
    ASSUME NEW w \in Seq(Charges), NEW t \in Int
    PROVE  /\ Since(w, t) \in Nat
           /\ \A i \in 1..Len(w) :
                After(w, t)[i] = (IF w[i].at > t THEN w[i].weight ELSE 0) /\ After(w, t)[i] \in Nat
  <1> DEFINE n == Len(w)
  <1>1. n \in Nat
    BY LenProperties
  <1>2. \A i \in 1..n : After(w, t)[i] = (IF w[i].at > t THEN w[i].weight ELSE 0) /\ After(w, t)[i] \in Nat
    BY ChargeIs DEF After
  <1> DEFINE F == After(w, t)
  <1> HIDE DEF F
  <1>3. SumFunctionOnSet(F, 1..n) \in Nat
    <2> HIDE DEF n
    <2> QED
      BY <1>1, <1>2, SumUpto DEF F
  <1> QED
    BY <1>2, <1>3 DEF Since, F

(* A charge appended. *)
LEMMA Appended ==
    ASSUME NEW w \in Seq(Charges), NEW c \in Charges, NEW t \in Int
    PROVE  /\ Append(w, c) \in Seq(Charges)
           /\ Weight(Append(w, c)) = Weight(w) + c.weight
           /\ Since(Append(w, c), t) = Since(w, t) + (IF c.at > t THEN c.weight ELSE 0)
  <1> DEFINE v == Append(w, c)
             n == Len(w)
  <1>1. /\ v \in Seq(Charges) /\ Len(v) = n + 1 /\ n \in Nat /\ v[n + 1] = c
        /\ \A i \in 1..n : v[i] = w[i]
    BY AppendProperties, LenProperties
  <1>2. n + 1 \in 1..Len(v) /\ \A i \in 1..n : i \in 1..Len(v)
    BY <1>1
  <1> HIDE DEF v
  <1>3. Weight(v) = Weight(w) + c.weight
    <2> DEFINE F == Weights(w)
               G == Weights(v)
    <2>1. G[n + 1] = c.weight /\ G[n + 1] \in Nat /\ \A i \in 1..n : F[i] \in Nat /\ G[i] = F[i]
      BY <1>1, <1>2, WeightIs
    <2> HIDE DEF F, G
    <2>2. SumFunctionOnSet(G, 1..(n + 1)) = SumFunctionOnSet(F, 1..n) + G[n + 1]
      <3> HIDE DEF n
      <3> QED
        BY <1>1, <2>1, SumAppends
    <2>3. Weight(w) = SumFunctionOnSet(F, 1..n) /\ Weight(v) = SumFunctionOnSet(G, 1..(n + 1))
      BY <1>1, WeightIs DEF F, G
    <2> QED
      BY <2>1, <2>2, <2>3
  <1>4. Since(v, t) = Since(w, t) + (IF c.at > t THEN c.weight ELSE 0)
    <2> DEFINE F == After(w, t)
               G == After(v, t)
    <2>1. /\ G[n + 1] = (IF c.at > t THEN c.weight ELSE 0) /\ G[n + 1] \in Nat
          /\ \A i \in 1..n : F[i] \in Nat /\ G[i] = F[i]
      BY <1>1, <1>2, SinceIs
    <2> HIDE DEF F, G
    <2>2. SumFunctionOnSet(G, 1..(n + 1)) = SumFunctionOnSet(F, 1..n) + G[n + 1]
      <3> HIDE DEF n
      <3> QED
        BY <1>1, <2>1, SumAppends
    <2>3. Since(w, t) = SumFunctionOnSet(F, 1..n) /\ Since(v, t) = SumFunctionOnSet(G, 1..(n + 1))
      BY <1>1 DEF F, G, Since
    <2> QED
      BY <2>1, <2>2, <2>3
  <1> QED
    BY <1>1, <1>3, <1>4 DEF v

(* The newest charge grown. *)
LEMMA NewestGrows ==
    ASSUME NEW w, Ascends(w), NEW weight \in Nat \ {0}, NEW t \in Int, Len(w) > 0
    PROVE  LET v == [w EXCEPT ![Len(w)].weight = @ + weight]
           IN  /\ Ascends(v)
               /\ Weight(v) = Weight(w) + weight
               /\ Since(v, t) = Since(w, t) + (IF w[Len(w)].at > t THEN weight ELSE 0)
  <1> DEFINE n == Len(w)
             c == [w[n] EXCEPT !.weight = @ + weight]
             v == [w EXCEPT ![n].weight = @ + weight]
  <1>0. w \in Seq(Charges) /\ n \in Nat /\ n \in 1..n
    BY LenProperties DEF Ascends
  <1>1. c \in Charges /\ c.at = w[n].at /\ c.weight = w[n].weight + weight /\ w[n].weight \in Nat
    <2>1. w[n] \in Charges
      BY <1>0, ChargeIs
    <2> HIDE DEF n
    <2> QED
      BY <2>1 DEF Charges
  <1>2. v = [w EXCEPT ![n] = c]
    OBVIOUS
  <1> HIDE DEF c, v
  <1>3. v \in Seq(Charges) /\ Len(v) = n /\ \A k \in 1..n : v[k] = IF k = n THEN c ELSE w[k]
    BY <1>0, <1>1, <1>2, Replaced
  <1>4. Ascends(v)
    <2>1. \A k \in 1..n : v[k].at = w[k].at
      BY <1>1, <1>3
    <2> QED
      BY <1>3, <2>1 DEF Ascends
  <1> DEFINE I == 1..n
  <1>5. IsFiniteSet(I) /\ n \in I
    BY <1>0, Upto
  <1>6. Weight(v) = Weight(w) + weight
    <2> DEFINE F == Weights(w)
               G == Weights(v)
    <2>0. \A k \in I : /\ F[k] = w[k].weight /\ F[k] \in Nat
                       /\ G[k] = v[k].weight /\ G[k] \in Nat
      BY <1>0, <1>3, WeightIs
    <2>1. /\ \A k \in I : F[k] \in Int /\ G[k] \in Int
          /\ \A k \in I \ {n} : F[k] = G[k]
          /\ G[n] = F[n] + weight
      <3> HIDE DEF F, G
      <3> QED
        BY <1>0, <1>1, <1>3, <2>0
    <2>2. Weight(w) = SumFunctionOnSet(F, I) /\ Weight(v) = SumFunctionOnSet(G, I)
          /\ Weight(w) \in Nat
      BY <1>0, <1>3, WeightIs
    <2> HIDE DEF F, G, I
    <2>3. SumFunctionOnSet(G, I) = SumFunctionOnSet(F, I) + (G[n] - F[n])
      <3> HIDE DEF n
      <3> QED
        BY <1>5, <2>1, SumOfChanged
    <2>4. F[n] \in Int /\ G[n] \in Int
      BY <1>5, <2>1
    <2> QED
      BY <2>1, <2>2, <2>3, <2>4
  <1>7. Since(v, t) = Since(w, t) + (IF w[n].at > t THEN weight ELSE 0)
    <2> DEFINE F == After(w, t)
               G == After(v, t)
    <2>0. \A k \in I : /\ F[k] = (IF w[k].at > t THEN w[k].weight ELSE 0) /\ F[k] \in Nat
                       /\ G[k] = (IF v[k].at > t THEN v[k].weight ELSE 0) /\ G[k] \in Nat
      BY <1>0, <1>3, SinceIs
    <2>1. /\ \A k \in I : F[k] \in Int /\ G[k] \in Int
          /\ \A k \in I \ {n} : F[k] = G[k]
      <3> HIDE DEF F, G
      <3> QED
        BY <1>0, <1>3, <2>0
    <2>2. G[n] = F[n] + (IF w[n].at > t THEN weight ELSE 0)
      <3>1. /\ F[n] = IF w[n].at > t THEN w[n].weight ELSE 0
            /\ G[n] = IF v[n].at > t THEN v[n].weight ELSE 0
        BY <1>0, <1>3, SinceIs
      <3> HIDE DEF F, G
      <3> QED
        BY <1>0, <1>1, <1>3, <3>1
    <2>3. Since(w, t) = SumFunctionOnSet(F, I) /\ Since(v, t) = SumFunctionOnSet(G, I)
          /\ Since(w, t) \in Nat
      BY <1>0, <1>3, SinceIs DEF Since
    <2> HIDE DEF F, G, I
    <2>4. SumFunctionOnSet(G, I) = SumFunctionOnSet(F, I) + (G[n] - F[n])
      <3> HIDE DEF n
      <3> QED
        BY <1>5, <2>1, SumOfChanged
    <2>5. F[n] \in Int /\ G[n] \in Int
      BY <1>5, <2>1
    <2> QED
      BY <2>2, <2>3, <2>4, <2>5
  <1> QED
    BY <1>4, <1>6, <1>7 DEF v

(* The oldest m left out. *)
LEMMA OldestLeave ==
    ASSUME NEW w, Ascends(w), NEW m \in 0..Len(w), NEW t \in Int,
           \A i \in 1..m : w[i].at <= t
    PROVE  LET v == SubSeq(w, m + 1, Len(w))
           IN  /\ Ascends(v)
               /\ Weight(w) = WeightTo(w, m) + Weight(v)
               /\ Since(v, t) = Since(w, t)
  <1> DEFINE n == Len(w)
             k == n - m
             v == SubSeq(w, m + 1, n)
  <1>0. w \in Seq(Charges) /\ n \in Nat /\ m \in Nat /\ k \in Nat /\ n = m + k
    BY LenProperties DEF Ascends
  <1>1. v \in Seq(Charges) /\ Len(v) = k /\ \A i \in 1..k : v[i] = w[i + m]
    <2>1. \A i \in (m + 1)..n : w[i] \in Charges
      BY <1>0, ChargeIs
    <2>2. m + 1 \in Int /\ n \in Int
      BY <1>0
    <2> DEFINE j == m + 1
    <2> HIDE DEF j, n
    <2>3. /\ SubSeq(w, j, n) \in Seq(Charges)
          /\ Len(SubSeq(w, j, n)) = IF j <= n THEN n - j + 1 ELSE 0
          /\ \A i \in 1..(n - j + 1) : SubSeq(w, j, n)[i] = w[j + i - 1]
      BY <2>1, <2>2, SubSeqProperties DEF j
    <2>4. v = SubSeq(w, j, n)
      BY DEF j
    <2> HIDE DEF v
    <2>5. Len(v) = k
      BY <1>0, <2>3, <2>4 DEF j
    <2>6. ASSUME NEW i \in 1..k
          PROVE  v[i] = w[i + m]
      <3>1. i \in 1..(n - j + 1) /\ j + i - 1 = i + m
        BY <1>0, <2>6 DEF j
      <3> QED
        BY <2>3, <2>4, <3>1
    <2> QED
      BY <2>3, <2>4, <2>5, <2>6
  <1> HIDE DEF v, k
  <1>2. \A i \in 1..k : i + m \in 1..n
    BY <1>0
  <1>3. Ascends(v)
    <2>1. ASSUME NEW i \in 1..Len(v), NEW j \in 1..Len(v), i < j
          PROVE  v[i].at < v[j].at
      <3>1. v[i] = w[i + m] /\ v[j] = w[j + m] /\ i + m \in 1..n /\ j + m \in 1..n /\ i + m < j + m
        BY <1>0, <1>1, <1>2, <2>1
      <3> QED
        BY <3>1 DEF Ascends
    <2> QED
      BY <1>1, <2>1 DEF Ascends
  <1>4. Weight(w) = WeightTo(w, m) + Weight(v)
    <2> DEFINE F == Weights(w)
               G == Weights(v)
    <2>1. (\A i \in 1..n : F[i] \in Nat) /\ (\A i \in 1..k : G[i] = F[i + m])
      BY <1>0, <1>1, <1>2, WeightIs
    <2>2. Weight(w) = SumFunctionOnSet(F, 1..n) /\ Weight(v) = SumFunctionOnSet(G, 1..k)
      BY <1>0, <1>1, WeightIs
    <2>3. WeightTo(w, m) = SumFunctionOnSet(F, 1..m)
      BY DEF WeightTo
    <2> HIDE DEF F, G, n
    <2>4. SumFunctionOnSet(F, 1..n) = SumFunctionOnSet(F, 1..m) + SumFunctionOnSet(G, 1..k)
      BY <1>0, <2>1, SumSplits
    <2> QED
      BY <2>2, <2>3, <2>4
  <1>5. Since(v, t) = Since(w, t)
    <2> DEFINE F == After(w, t)
               G == After(v, t)
    <2>0. /\ \A i \in 1..n : F[i] = (IF w[i].at > t THEN w[i].weight ELSE 0) /\ F[i] \in Nat
          /\ \A i \in 1..k : G[i] = (IF v[i].at > t THEN v[i].weight ELSE 0)
      BY <1>0, <1>1, SinceIs
    <2>1. (\A i \in 1..n : F[i] \in Nat) /\ (\A i \in 1..k : G[i] = F[i + m])
      <3> HIDE DEF F, G
      <3> QED
        BY <1>1, <1>2, <2>0
    <2>2. \A i \in 1..m : F[i] = 0
      <3>1. ASSUME NEW i \in 1..m
            PROVE  F[i] = 0
        <4>1. i \in 1..n /\ w[i].at <= t
          BY <1>0, <3>1
        <4>2. w[i].at \in Int
          BY <1>0, <4>1, ChargeIs
        <4>3. F[i] = IF w[i].at > t THEN w[i].weight ELSE 0
          BY <1>0, <4>1, SinceIs
        <4> QED
          BY <4>1, <4>2, <4>3
      <3> QED
        BY <3>1
    <2>3. Since(w, t) = SumFunctionOnSet(F, 1..n) /\ Since(v, t) = SumFunctionOnSet(G, 1..k)
          /\ Since(v, t) \in Nat
      BY <1>0, <1>1, SinceIs DEF Since
    <2> DEFINE I == 1..m
    <2> HIDE DEF F, G, n, I
    <2>4. SumFunctionOnSet(F, 1..n) = SumFunctionOnSet(F, I) + SumFunctionOnSet(G, 1..k)
      BY <1>0, <2>1, SumSplits DEF I
    <2>5. SumFunctionOnSet(F, I) = 0
      <3>1. IsFiniteSet(I) /\ \A i \in I : F[i] = 0
        BY <1>0, <2>2, Upto DEF I
      <3> QED
        BY <3>1, SumOfZero
    <2> QED
      BY <2>3, <2>4, <2>5
  <1> QED
    BY <1>3, <1>4, <1>5 DEF v

(* The weight of the first m charges. *)
LEMMA PrefixWeighs ==
    ASSUME NEW w \in Seq(Charges), NEW m \in 0..Len(w)
    PROVE  /\ Weight(SubSeq(w, 1, m)) = WeightTo(w, m)
           /\ SubSeq(w, 1, m) \in Seq(Charges)
  <1> DEFINE n == Len(w)
             v == SubSeq(w, 1, m)
  <1>0. n \in Nat /\ m \in Nat /\ m <= n
    BY LenProperties
  <1>1. v \in Seq(Charges) /\ Len(v) = m /\ \A i \in 1..m : v[i] = w[i]
    <2>1. \A i \in 1..m : w[i] \in Charges
      BY <1>0, ChargeIs
    <2> HIDE DEF n
    <2>2. /\ v \in Seq(Charges)
          /\ Len(v) = IF 1 <= m THEN m - 1 + 1 ELSE 0
          /\ \A i \in 1..(m - 1 + 1) : v[i] = w[1 + i - 1]
      BY <1>0, <2>1, SubSeqProperties
    <2> HIDE DEF v
    <2>3. \A i \in 1..m : i \in 1..(m - 1 + 1) /\ 1 + i - 1 = i
      BY <1>0
    <2> QED
      BY <1>0, <2>2, <2>3
  <1> HIDE DEF v
  <1> DEFINE F == Weights(w)
             G == Weights(v)
             I == 1..m
  <1>2. IsFiniteSet(I)
    BY <1>0, Upto
  <1>3. \A i \in I : F[i] \in Int /\ F[i] = G[i]
    <2>1. \A i \in I : i \in 1..n /\ i \in 1..Len(v) /\ v[i] = w[i]
      BY <1>0, <1>1
    <2>2. \A i \in 1..n : F[i] = w[i].weight /\ F[i] \in Nat
      BY WeightIs
    <2>3. \A i \in 1..Len(v) : G[i] = v[i].weight
      BY <1>1, WeightIs
    <2> HIDE DEF F, G, I
    <2> QED
      BY <2>1, <2>2, <2>3
  <1>4. Weight(v) = SumFunctionOnSet(G, I)
    BY <1>1, WeightIs
  <1>5. WeightTo(w, m) = SumFunctionOnSet(F, I)
    BY DEF WeightTo
  <1> HIDE DEF F, G, I
  <1>6. SumFunctionOnSet(F, I) = SumFunctionOnSet(G, I)
    BY <1>2, <1>3, SumOfSame
  <1> QED
    BY <1>1, <1>4, <1>5, <1>6 DEF v

(* Where the window is cut: all before have aged out, and none after. *)
Cut(w, m, span, now) ==
    /\ m \in 0..Len(w)
    /\ \A i \in 1..m : w[i].at + span <= now
    /\ \A i \in 1..Len(w) : i > m => now < w[i].at + span

LEMMA PruneIs ==
    ASSUME NEW g, Counts(g), NEW cfg, cfg.span \in Int, NEW now \in Int
    PROVE  \E m \in Nat :
             /\ Cut(g.window, m, cfg.span, now)
             /\ Prune(g, cfg, now).window = SubSeq(g.window, m + 1, Len(g.window))
             /\ Prune(g, cfg, now).weight = Weight(Prune(g, cfg, now).window)
             /\ Ascends(Prune(g, cfg, now).window)
             /\ g.weight = WeightTo(g.window, m) + Prune(g, cfg, now).weight
  <1> DEFINE w == g.window
             n == Len(g.window)
             young == {i \in 1..n : now < w[i].at + cfg.span}
             next == IF young = {} THEN n + 1 ELSE CHOOSE i \in young : \A j \in young : i <= j
  <1>0. Ascends(w) /\ w \in Seq(Charges) /\ n \in Nat /\ g.weight = Weight(w)
    BY LenProperties DEF Counts, Ascends
  <1>1. /\ next \in 1..(n + 1)
        /\ \A i \in 1..n : i < next => ~(now < w[i].at + cfg.span)
        /\ \A i \in 1..n : i >= next => now < w[i].at + cfg.span
    <2>1. CASE young = {}
      BY <1>0, <2>1
    <2>2. CASE young # {}
      <3>1. young \in SUBSET Nat
        BY <1>0
      <3>2. next \in young /\ \A j \in young : next <= j
        <4>1. \E i \in young : \A j \in young : i <= j
          <5> HIDE DEF young
          <5> QED
            BY <2>2, <3>1, LeastNumber
        <4> HIDE DEF young
        <4> QED
          BY <2>2, <4>1
      <3> HIDE DEF next
      <3>3. next \in 1..n /\ now < w[next].at + cfg.span
        BY <3>2
      <3>4. ASSUME NEW i \in 1..n, i < next
            PROVE  ~(now < w[i].at + cfg.span)
        BY <1>0, <3>2, <3>3, <3>4
      <3>5. ASSUME NEW i \in 1..n, i >= next
            PROVE  now < w[i].at + cfg.span
        <4>1. i = next \/ next < i
          BY <1>0, <3>3, <3>5
        <4>2. w[i].at \in Int /\ w[next].at \in Int
          BY <1>0, <3>3, <3>5, ChargeIs
        <4>3. CASE next < i
          <5>1. w[next].at < w[i].at
            BY <1>0, <3>3, <3>5, <4>3 DEF Ascends
          <5> QED
            BY <3>3, <4>2, <5>1
        <4> QED
          BY <3>3, <4>1, <4>3
      <3> QED
        BY <1>0, <3>3, <3>4, <3>5
    <2> QED
      BY <2>1, <2>2
  <1>2. /\ Prune(g, cfg, now).window = SubSeq(w, next, n)
        /\ Prune(g, cfg, now).weight = AtLeastZero(g.weight - Weight(SubSeq(w, 1, next - 1)))
    BY DEF Counts, IsGovernor, Prune
  <1> HIDE DEF next, young
  <1> DEFINE m == next - 1
  <1>3. m \in Nat /\ m \in 0..n /\ m + 1 = next
    BY <1>0, <1>1
  <1>4. Cut(w, m, cfg.span, now)
    <2>1. \A i \in 1..n : w[i].at \in Int
      BY <1>0, ChargeIs
    <2>2. ASSUME NEW i \in 1..m
          PROVE  w[i].at + cfg.span <= now
      <3>1. i \in 1..n /\ i < next
        BY <1>0, <1>3
      <3> QED
        BY <1>1, <2>1, <3>1
    <2>3. ASSUME NEW i \in 1..n, i > m
          PROVE  now < w[i].at + cfg.span
      <3>1. i >= next
        BY <1>0, <1>1, <2>3
      <3> QED
        BY <1>1, <3>1
    <2> QED
      BY <1>3, <2>2, <2>3 DEF Cut
  <1> DEFINE v == SubSeq(w, m + 1, n)
             t == now - cfg.span
  <1>5. t \in Int /\ \A i \in 1..m : w[i].at <= t
    <2>1. ASSUME NEW i \in 1..m
          PROVE  w[i].at <= t
      <3>1. i \in 1..n
        BY <1>0, <1>3
      <3>2. w[i].at \in Int /\ w[i].at + cfg.span <= now
        BY <1>0, <1>4, <3>1, ChargeIs DEF Cut
      <3> QED
        BY <3>2
    <2> QED
      BY <2>1
  <1>6. Ascends(v) /\ Weight(w) = WeightTo(w, m) + Weight(v)
    <2> HIDE DEF t, m
    <2> QED
      BY <1>0, <1>3, <1>5, OldestLeave
  <1>7. /\ Weight(SubSeq(w, 1, m)) = WeightTo(w, m)
        /\ WeightTo(w, m) \in Nat /\ Weight(v) \in Nat
    <2>1. v \in Seq(Charges)
      BY <1>6 DEF Ascends
    <2> HIDE DEF m, v
    <2> QED
      BY <1>0, <1>3, <2>1, PrefixWeighs, WeightIs
  <1>8. Prune(g, cfg, now).window = v
    BY <1>2, <1>3
  <1>9. Prune(g, cfg, now).weight = Weight(v)
    <2>1. Prune(g, cfg, now).weight = AtLeastZero(Weight(w) - WeightTo(w, m))
      BY <1>0, <1>2, <1>7
    <2> HIDE DEF v, m
    <2> QED
      BY <1>6, <1>7, <2>1 DEF AtLeastZero
  <1> HIDE DEF v
  <1>10. g.weight = WeightTo(w, m) + Prune(g, cfg, now).weight
    BY <1>0, <1>6, <1>9
  <1>11. Prune(g, cfg, now).window = SubSeq(w, m + 1, n)
    BY <1>8 DEF v
  <1> HIDE DEF m
  <1> QED
    BY <1>3, <1>4, <1>6, <1>8, <1>9, <1>10, <1>11

(* What pruning forgets does not count any more. *)
LEMMA PruneCounts ==
    ASSUME NEW g, Counts(g), NEW cfg, cfg.span \in Int, NEW now \in Int
    PROVE  /\ Counts(Prune(g, cfg, now))
           /\ \A t \in Int : now - cfg.span <= t => Since(Prune(g, cfg, now).window, t) = Since(g.window, t)
  <1> DEFINE w == g.window
             h == Prune(g, cfg, now)
  <1>1. PICK m \in Nat :
            /\ Cut(w, m, cfg.span, now)
            /\ h.window = SubSeq(w, m + 1, Len(w))
            /\ h.weight = Weight(h.window)
            /\ Ascends(h.window)
    BY PruneIs
  <1>2. IsGovernor(h)
    BY PruneKeeps DEF Counts
  <1>3. Ascends(w) /\ w \in Seq(Charges) /\ Len(w) \in Nat
    BY LenProperties DEF Counts, Ascends
  <1>4. ASSUME NEW t \in Int, now - cfg.span <= t
        PROVE  Since(h.window, t) = Since(w, t)
    <2> HIDE DEF w, h
    <2>1. m \in 0..Len(w)
      BY <1>1 DEF Cut
    <2>2. ASSUME NEW i \in 1..m
          PROVE  w[i].at <= t
      <3>1. i \in 1..Len(w) /\ w[i].at + cfg.span <= now
        BY <1>1, <1>3, <2>1 DEF Cut
      <3>2. w[i].at \in Int
        BY <1>3, <3>1, ChargeIs
      <3> QED
        BY <1>4, <3>1, <3>2
    <2>3. Since(SubSeq(w, m + 1, Len(w)), t) = Since(w, t)
      BY <1>3, <2>1, <2>2, OldestLeave
    <2> QED
      BY <1>1, <2>3
  <1> HIDE DEF h
  <1> QED
    BY <1>1, <1>2, <1>4 DEF Counts, h

(* From one governor to the next, of what was charged at a moment no charge is
   forgotten that may still count. *)
Follows(g, h, now, span, weight) ==
    /\ Counts(h)
    /\ \A t \in Int : now - span <= t =>
            Since(h.window, t) >= Since(g.window, t) + (IF now > t THEN weight ELSE 0)

LEMMA CountedSince ==
    ASSUME NEW g, Counts(g), NEW t \in Int
    PROVE  Since(g.window, t) \in Nat
  BY SinceIs DEF Counts, Ascends

LEMMA ChargeCounts ==
    ASSUME NEW g, Counts(g), NEW now \in Int, NEW span, NEW weight \in Nat \ {0}
    PROVE  Follows(g, Charge(g, now, weight), now, span, weight)
  <1> DEFINE w == g.window
             n == Len(w)
             h == Charge(g, now, weight)
             c == [at |-> now, weight |-> weight]
  <1>0. /\ Ascends(w) /\ w \in Seq(Charges) /\ n \in Nat /\ g.weight = Weight(w) /\ IsGovernor(g)
        /\ Weight(w) \in Nat
    BY LenProperties, WeightIs DEF Counts, Ascends
  <1>1. IsGovernor(h)
    BY <1>0, ChargeKeeps
  <1>2. h.weight = Weight(w) + weight
    BY <1>0 DEF Charge, IsGovernor
  <1>3. CASE n > 0 /\ w[n].at >= now
    <2> DEFINE v == [w EXCEPT ![Len(w)].weight = @ + weight]
    <2>1. h.window = v
      <3> DEFINE u == IF n > 0 /\ w[n].at >= now THEN v ELSE Append(w, c)
      <3>1. h = [g EXCEPT !.weight = @ + weight, !.window = u]
        BY DEF Charge
      <3> HIDE DEF v
      <3>2. u = v
        BY <1>3
      <3> HIDE DEF u, h
      <3>3. h.window = u
        BY <1>0, <3>1 DEF IsGovernor
      <3> QED
        BY <3>2, <3>3
    <2>2. Ascends(v) /\ Weight(v) = Weight(w) + weight
      <3>1. 0 \in Int /\ Len(w) > 0
        BY <1>3
      <3> HIDE DEF w
      <3> QED
        BY <1>0, <3>1, NewestGrows
    <2>3. ASSUME NEW t \in Int
          PROVE  Since(v, t) >= Since(w, t) + (IF now > t THEN weight ELSE 0)
      <3>1. Since(v, t) = Since(w, t) + (IF w[Len(w)].at > t THEN weight ELSE 0)
        <4>1. Len(w) > 0
          BY <1>3
        <4> HIDE DEF w
        <4> QED
          BY <1>0, <4>1, NewestGrows
      <3>2. Since(w, t) \in Nat
        BY <1>0, SinceIs
      <3>3. w[n].at \in Int
        BY <1>0, <1>3, ChargeIs
      <3> HIDE DEF v
      <3> QED
        BY <1>3, <3>1, <3>2, <3>3
    <2> HIDE DEF v, h
    <2> QED
      BY <1>1, <1>2, <2>1, <2>2, <2>3 DEF Follows, Counts, h
  <1>4. CASE ~(n > 0 /\ w[n].at >= now)
    <2> DEFINE v == Append(w, c)
    <2>1. h.window = v
      BY <1>0, <1>4 DEF Charge, IsGovernor
    <2>2. c \in Charges /\ c.at = now /\ c.weight = weight
      BY DEF Charges
    <2> HIDE DEF c
    <2>3. v \in Seq(Charges) /\ Weight(v) = Weight(w) + weight
      <3>1. 0 \in Int
        OBVIOUS
      <3> HIDE DEF w
      <3> QED
        BY <1>0, <2>2, <3>1, Appended
    <2>4. ASSUME NEW t \in Int
          PROVE  Since(v, t) = Since(w, t) + (IF now > t THEN weight ELSE 0)
      <3> HIDE DEF w
      <3> QED
        BY <1>0, <2>2, Appended
    <2>5. /\ Len(v) = n + 1 /\ v[n + 1] = c
          /\ \A i \in 1..n : v[i] = w[i]
      BY <1>0, <2>2, AppendProperties
    <2>6. ASSUME NEW i \in 1..n
          PROVE  w[i].at < now
      <3>1. w[i].at \in Int /\ w[n].at \in Int /\ n > 0 /\ n \in 1..n
        BY <1>0, ChargeIs
      <3>2. i = n \/ w[i].at < w[n].at
        BY <1>0, <3>1 DEF Ascends
      <3> QED
        BY <1>4, <3>1, <3>2
    <2> HIDE DEF v
    <2>7. Ascends(v)
      <3>1. ASSUME NEW i \in 1..Len(v), NEW j \in 1..Len(v), i < j
            PROVE  v[i].at < v[j].at
        <4>1. i \in 1..n /\ (j \in 1..n \/ j = n + 1)
          BY <1>0, <2>5, <3>1
        <4>2. CASE j \in 1..n
          BY <1>0, <2>5, <3>1, <4>1, <4>2 DEF Ascends
        <4>3. CASE j = n + 1
          BY <2>2, <2>5, <2>6, <4>1, <4>3
        <4> QED
          BY <4>1, <4>2, <4>3
      <3> QED
        BY <2>3, <3>1 DEF Ascends
    <2>8. ASSUME NEW t \in Int
          PROVE  Since(v, t) >= Since(w, t) + (IF now > t THEN weight ELSE 0)
      <3>1. Since(w, t) \in Nat
        BY <1>0, SinceIs
      <3> QED
        BY <2>4, <3>1
    <2> HIDE DEF h
    <2> QED
      BY <1>1, <1>2, <2>1, <2>3, <2>7, <2>8 DEF Follows, Counts, h
  <1> QED
    BY <1>3, <1>4

(* Pruned and charged; or pruned only. *)
LEMMA PrunedAndCharged ==
    ASSUME NEW g, Counts(g), NEW cfg, cfg.span \in Int, NEW now \in Int, NEW weight \in Nat \ {0}
    PROVE  /\ Follows(g, Charge(Prune(g, cfg, now), now, weight), now, cfg.span, weight)
           /\ Follows(g, Prune(g, cfg, now), now, cfg.span, 0)
  <1> DEFINE p == Prune(g, cfg, now)
  <1>1. /\ Counts(p)
        /\ \A t \in Int : now - cfg.span <= t => Since(p.window, t) = Since(g.window, t)
    BY PruneCounts
  <1> HIDE DEF p
  <1>2. Follows(p, Charge(p, now, weight), now, cfg.span, weight)
    BY <1>1, ChargeCounts
  <1>3. Follows(g, Charge(p, now, weight), now, cfg.span, weight)
    BY <1>1, <1>2 DEF Follows
  <1>4. Follows(g, p, now, cfg.span, 0)
    <2>1. ASSUME NEW t \in Int, now - cfg.span <= t
          PROVE  Since(p.window, t) >= Since(g.window, t) + (IF now > t THEN 0 ELSE 0)
      BY <1>1, <2>1, CountedSince
    <2> QED
      BY <1>1, <2>1 DEF Follows
  <1> QED
    BY <1>3, <1>4 DEF p

(* A governor with another's window. *)
LEMMA SameWindow ==
    ASSUME NEW g, NEW h, NEW k, NEW now, NEW span, NEW weight, Follows(g, h, now, span, weight),
           IsGovernor(k), k.window = h.window, k.weight = h.weight
    PROVE  Follows(g, k, now, span, weight)
  BY DEF Follows, Counts

LEMMA AfterPlaceFollows ==
    ASSUME NEW g, Counts(g), NEW cfg, cfg.span \in Int, NEW now \in Int
    PROVE  Follows(g, AfterPlace(g, cfg, now), now, cfg.span, 1)
  <1> DEFINE h == Charge(Prune(g, cfg, now), now, 1)
             k == AfterPlace(g, cfg, now)
  <1>1. Follows(g, h, now, cfg.span, 1)
    BY PrunedAndCharged
  <1>2. IsGovernor(h) /\ IsGovernor(k)
    BY <1>1, AfterPlaceDoes DEF Follows, Counts
  <1>3. k = [h EXCEPT !.used = @ + 1, !.throttle = IF @ = 0 THEN 0 ELSE now + cfg.drip]
    BY DEF AfterPlace
  <1> HIDE DEF h, k
  <1>4. k.window = h.window /\ k.weight = h.weight
    BY <1>2, <1>3 DEF IsGovernor
  <1> QED
    BY <1>1, <1>2, <1>4, SameWindow DEF k

LEMMA AfterCancelFollows ==
    ASSUME NEW g, Counts(g), NEW cfg, cfg.span \in Int, NEW now \in Int
    PROVE  Follows(g, AfterCancel(g, cfg, now), now, cfg.span, IF AdmitsCancel(g, cfg, now) THEN 1 ELSE 0)
  <1> DEFINE h == Charge(Prune(g, cfg, now), now, 1)
             k == AfterCancel(g, cfg, now)
  <1>1. /\ Follows(g, h, now, cfg.span, 1)
        /\ Follows(g, Prune(g, cfg, now), now, cfg.span, 0)
    BY PrunedAndCharged
  <1>2. IsGovernor(h) /\ IsGovernor(k)
    BY <1>1, AfterCancelDoes DEF Follows, Counts
  <1>3. CASE AdmitsCancel(g, cfg, now)
    <2>1. k = [h EXCEPT !.used = @ + 1]
      BY <1>3 DEF AfterCancel
    <2> HIDE DEF h, k
    <2>2. k.window = h.window /\ k.weight = h.weight
      BY <1>2, <2>1 DEF IsGovernor
    <2>3. Follows(g, k, now, cfg.span, 1)
      BY <1>1, <1>2, <2>2, SameWindow
    <2> QED
      BY <1>3, <2>3 DEF k
  <1>4. CASE ~AdmitsCancel(g, cfg, now)
    BY <1>1, <1>4 DEF AfterCancel
  <1> QED
    BY <1>3, <1>4

LEMMA AfterInfoFollows ==
    ASSUME NEW g, Counts(g), NEW cfg, cfg.span \in Int, NEW now \in Int, NEW weight \in Nat \ {0},
           AdmitsInfo(g, cfg, now, weight)
    PROVE  Follows(g, AfterInfo(g, cfg, now, weight), now, cfg.span, weight)
  <1>1. AfterInfo(g, cfg, now, weight) = Charge(Prune(g, cfg, now), now, weight)
    BY DEF AfterInfo
  <1> QED
    BY <1>1, PrunedAndCharged

LEMMA AfterReadingCounts ==
    ASSUME NEW g, Counts(g), NEW cfg, NEW now, NEW used
    PROVE  /\ Counts(AfterReading(g, cfg, now, used))
           /\ AfterReading(g, cfg, now, used).window = g.window
  <1> DEFINE k == AfterReading(g, cfg, now, used)
             drip == IF used < g.limit THEN 0 ELSE now + cfg.drip
  <1>1. IsGovernor(g) /\ IsGovernor(k)
    BY AfterReadingDoes DEF Counts
  <1>2. k = [g EXCEPT !.used = used, !.throttle = drip]
    BY DEF AfterReading
  <1> HIDE DEF k, drip
  <1>3. k.window = g.window /\ k.weight = g.weight
    BY <1>1, <1>2 DEF IsGovernor
  <1> QED
    BY <1>1, <1>3 DEF Counts, k

(* The window, against the history of charges. *)
Covers(ss, ck, lg, g) ==
    /\ lg \in Seq(Charges) /\ Counts(g)
    /\ \A t \in Int : ck.peak - ss.budget.span <= t => Since(lg, t) <= Since(g.window, t)

WindowInv ==
    /\ session \in Sessions
    /\ clock = [now |-> clock.now, peak |-> clock.peak] /\ clock.now \in Int /\ clock.peak \in Int
    /\ 1 <= clock.now /\ clock.now <= clock.peak /\ clock.peak <= session.ticks
    /\ spent \in Nat /\ reading \subseteq 0..spent
    /\ Covers(session, clock, log, gov)

LEMMA BudgetIs ==
    ASSUME session \in Sessions
    PROVE  /\ session.budget.span \in Nat \ {0} /\ session.ticks \in Nat \ {0}
           /\ session.budget.ipLimit \in Nat /\ session.budget.ipReserve \in Nat
  BY SessionsAssumption DEF Spends

LEMMA WindowInit ==
    ASSUME Init
    PROVE  WindowInv
  <1>1. /\ session \in Sessions /\ gov = FreshGovernor(session.budget.limit)
        /\ clock = [now |-> 1, peak |-> 1] /\ reading = {} /\ spent = 0 /\ log = <<>>
    BY DEF Init
  <1>2. gov.window = <<>> /\ gov.weight = 0 /\ IsGovernor(gov)
    BY <1>1 DEF FreshGovernor, IsGovernor
  <1>3. log \in Seq(Charges) /\ Ascends(<<>>) /\ Len(log) = 0
    <2>1. <<>> \in Seq(Charges) /\ Len(<<>>) = 0 /\ 1..0 = {}
      OBVIOUS
    <2> QED
      BY <1>1, <2>1 DEF Ascends
  <1>4. Weight(<<>>) = 0
    <2> DEFINE F == Weights(log)
    <2>1. Weight(log) = SumFunctionOnSet(F, 1..Len(log))
      BY <1>3, WeightIs
    <2>2. 1..Len(log) = {}
      BY <1>3
    <2> HIDE DEF F
    <2> QED
      BY <1>1, <2>1, <2>2, SumOfNone
  <1>5. Counts(gov)
    BY <1>2, <1>3, <1>4 DEF Counts
  <1>6. ASSUME NEW t \in Int
        PROVE  Since(log, t) <= Since(gov.window, t)
    <2>1. Since(log, t) \in Nat /\ log = gov.window
      BY <1>1, <1>2, <1>3, SinceIs
    <2> QED
      BY <2>1
  <1>7. Covers(session, clock, log, gov)
    BY <1>3, <1>5, <1>6 DEF Covers
  <1>8. 1 <= session.ticks
    BY <1>1, BudgetIs
  <1> QED
    BY <1>1, <1>7, <1>8 DEF WindowInv

(* A request charged, or one that was not. *)
LEMMA ChargedCovers ==
    ASSUME WindowInv, NEW weight \in Nat, NEW after,
           Follows(gov, after, clock.now, session.budget.span, weight),
           NEW lg, lg = IF weight = 0 THEN log ELSE Append(log, [at |-> clock.now, weight |-> weight])
    PROVE  Covers(session, clock, lg, after)
  <1>1. /\ clock.now \in Int /\ clock.peak \in Int /\ clock.now <= clock.peak
        /\ session.budget.span \in Nat /\ Covers(session, clock, log, gov)
    BY BudgetIs DEF WindowInv
  <1>2. log \in Seq(Charges) /\ Counts(gov) /\ Counts(after)
    BY <1>1 DEF Covers, Follows
  <1> DEFINE c == [at |-> clock.now, weight |-> weight]
  <1>3. weight # 0 => c \in Charges
    BY <1>1 DEF Charges
  <1>4. c.at = clock.now /\ c.weight = weight
    OBVIOUS
  <1>5. lg \in Seq(Charges)
    <2> HIDE DEF c
    <2>1. weight # 0 => lg = Append(log, c)
      BY DEF c
    <2> QED
      BY <1>2, <1>3, <2>1, AppendProperties
  <1>6. ASSUME NEW t \in Int, clock.peak - session.budget.span <= t
        PROVE  Since(lg, t) <= Since(after.window, t)
    <2>1. /\ Since(log, t) <= Since(gov.window, t)
          /\ Since(after.window, t) >= Since(gov.window, t) + (IF clock.now > t THEN weight ELSE 0)
      BY <1>1, <1>6 DEF Covers, Follows
    <2>2. Since(lg, t) = Since(log, t) + (IF clock.now > t THEN weight ELSE 0)
      <3>1. CASE weight = 0
        <4>1. Since(log, t) \in Nat
          BY <1>2, SinceIs
        <4> QED
          BY <3>1, <4>1
      <3>2. CASE weight # 0
        <4>1. lg = Append(log, c)
          BY <3>2
        <4> HIDE DEF c
        <4>2. Since(Append(log, c), t) = Since(log, t) + (IF c.at > t THEN c.weight ELSE 0)
          BY <1>2, <1>3, <3>2, Appended
        <4> QED
          BY <1>4, <4>1, <4>2
      <3> QED
        BY <3>1, <3>2
    <2>3. Since(log, t) \in Nat /\ Since(gov.window, t) \in Nat /\ Since(after.window, t) \in Nat
      BY <1>2, SinceIs, CountedSince
    <2> QED
      BY <1>1, <2>1, <2>2, <2>3
  <1> QED
    BY <1>2, <1>5, <1>6 DEF Covers

LEMMA WindowCharged ==
    ASSUME WindowInv, NEW weight \in Nat,
           Follows(gov, gov', clock.now, session.budget.span, weight),
           log' = IF weight = 0 THEN log ELSE Append(log, [at |-> clock.now, weight |-> weight]),
           UNCHANGED <<session, clock>>, spent' \in Nat, reading' \subseteq 0..spent'
    PROVE  WindowInv'
  <1> DEFINE g == gov'
             lg == log'
  <1>1. Follows(gov, g, clock.now, session.budget.span, weight)
        /\ lg = IF weight = 0 THEN log ELSE Append(log, [at |-> clock.now, weight |-> weight])
    OBVIOUS
  <1> HIDE DEF g, lg
  <1>2. Covers(session, clock, lg, g)
    BY <1>1, ChargedCovers
  <1>3. Covers(session', clock', log', gov')
    BY <1>2 DEF g, lg
  <1> QED
    BY <1>3 DEF WindowInv

LEMMA WindowStays ==
    ASSUME WindowInv, UNCHANGED <<session, clock, budgetVars>>
    PROVE  WindowInv'
  <1>1. Covers(session', clock', log', gov') /\ UNCHANGED <<session, clock, spent, reading>>
    BY DEF WindowInv, budgetVars
  <1> QED
    BY <1>1 DEF WindowInv

LEMMA SendWindow ==
    ASSUME WindowInv, UNCHANGED <<session, clock>>, NEW charged \in BOOLEAN, NEW after, Send(charged, after),
           Follows(gov, after, clock.now, session.budget.span, IF charged THEN 1 ELSE 0)
    PROVE  WindowInv'
  <1> DEFINE weight == IF charged THEN 1 ELSE 0
  <1>1. /\ gov' = after /\ spent' = spent + 1 /\ reading' = reading
        /\ log' = IF charged THEN Append(log, [at |-> clock.now, weight |-> 1]) ELSE log
    BY DEF Send
  <1>2. spent' \in Nat /\ reading' \subseteq 0..spent'
    BY <1>1 DEF WindowInv
  <1>3. weight \in Nat /\ log' = IF weight = 0 THEN log ELSE Append(log, [at |-> clock.now, weight |-> weight])
    <2>1. CASE charged
      BY <1>1, <2>1
    <2>2. CASE ~charged
      BY <1>1, <2>2
    <2> QED
      BY <2>1, <2>2
  <1>4. Follows(gov, gov', clock.now, session.budget.span, weight)
    BY <1>1
  <1> HIDE DEF weight
  <1> QED
    BY <1>2, <1>3, <1>4, WindowCharged

LEMMA TickWindow ==
    ASSUME WindowInv, Tick
    PROVE  WindowInv'
  <1>1. /\ clock.now < session.ticks /\ UNCHANGED <<session, log, gov, spent, reading>>
        /\ clock'.now = clock.now + 1 /\ clock'.peak = Greatest(clock.peak, clock.now + 1)
        /\ clock' = [now |-> clock'.now, peak |-> clock'.peak]
    BY DEF Tick, budgetVars
  <1>2. /\ clock.now \in Int /\ clock.peak \in Int /\ 1 <= clock.now /\ clock.now <= clock.peak
        /\ clock.peak <= session.ticks
        /\ session.budget.span \in Nat /\ session.ticks \in Nat /\ Covers(session, clock, log, gov)
    BY BudgetIs DEF WindowInv
  <1>3. /\ clock'.now \in Int /\ clock'.peak \in Int /\ 1 <= clock'.now /\ clock'.now <= clock'.peak
        /\ clock'.peak <= session.ticks /\ clock.peak <= clock'.peak
    BY <1>1, <1>2 DEF Greatest
  <1> DEFINE ck == clock'
  <1>4. ck.peak \in Int /\ clock.peak <= ck.peak
    BY <1>3
  <1> HIDE DEF ck
  <1>5. Covers(session, ck, log, gov)
    BY <1>2, <1>4 DEF Covers
  <1>6. Covers(session', clock', log', gov')
    BY <1>1, <1>5 DEF ck
  <1> QED
    BY <1>1, <1>3, <1>6 DEF WindowInv

LEMMA StepBackWindow ==
    ASSUME WindowInv, StepBack
    PROVE  WindowInv'
  <1>1. /\ clock.now > 1 /\ clock' = [clock EXCEPT !.now = @ - 1]
        /\ UNCHANGED <<session, log, gov, spent, reading>>
    BY DEF StepBack, budgetVars
  <1>2. /\ clock = [now |-> clock.now, peak |-> clock.peak]
        /\ clock.now \in Int /\ clock.peak \in Int /\ 1 <= clock.now /\ clock.now <= clock.peak
        /\ clock.peak <= session.ticks /\ Covers(session, clock, log, gov)
    BY DEF WindowInv
  <1>3. clock' = [now |-> clock.now - 1, peak |-> clock.peak]
    BY <1>1, <1>2
  <1>4. /\ clock' = [now |-> clock'.now, peak |-> clock'.peak] /\ clock'.peak = clock.peak
        /\ clock'.now \in Int /\ 1 <= clock'.now /\ clock'.now <= clock'.peak
    BY <1>1, <1>2, <1>3
  <1> DEFINE ck == clock'
  <1>5. ck.peak = clock.peak
    BY <1>4
  <1> HIDE DEF ck
  <1>6. Covers(session, ck, log, gov)
    BY <1>2, <1>5 DEF Covers
  <1>7. Covers(session', clock', log', gov')
    BY <1>1, <1>6 DEF ck
  <1> QED
    BY <1>1, <1>2, <1>4, <1>7 DEF WindowInv

LEMMA WindowNext ==
    ASSUME WindowInv, [Next]_vars
    PROVE  WindowInv'
  <1>0. /\ Counts(gov) /\ session.budget.span \in Int /\ clock.now \in Int
        /\ spent \in Nat /\ reading \subseteq 0..spent
    BY BudgetIs DEF WindowInv, Covers
  <1>1. ASSUME NEW s \in Symbols, PlanSymbol(s) \/ MarkMoves(s)
        PROVE  WindowInv'
    BY <1>1, WindowStays DEF PlanSymbol, MarkMoves
  <1>2. CASE PumpCancel
    <2>1. session' = session /\ clock' = clock /\ CancelRequest
      BY <1>2 DEF PumpCancel
    <2>2. CASE session.paced
      <3> DEFINE charged == AdmitsCancel(gov, session.budget, clock.now)
                 after == AfterCancel(gov, session.budget, clock.now)
      <3>1. Send(charged, after)
        BY <2>1, <2>2 DEF CancelRequest
      <3>2. Follows(gov, after, clock.now, session.budget.span, IF charged THEN 1 ELSE 0)
        BY <1>0, AfterCancelFollows
      <3>3. charged \in BOOLEAN
        BY DEF AdmitsCancel
      <3> HIDE DEF charged, after
      <3> QED
        BY <2>1, <3>1, <3>2, <3>3, SendWindow
    <2>3. CASE ~session.paced
      BY <2>1, <2>3, WindowStays DEF CancelRequest
    <2> QED
      BY <2>2, <2>3
  <1>3. CASE PumpPlace
    <2>1. session' = session /\ clock' = clock /\ PlaceRequest
      BY <1>3 DEF PumpPlace
    <2>2. CASE session.paced
      <3> DEFINE after == AfterPlace(gov, session.budget, clock.now)
      <3>1. Send(TRUE, after)
        BY <2>1, <2>2 DEF PlaceRequest
      <3>2. Follows(gov, after, clock.now, session.budget.span, IF TRUE THEN 1 ELSE 0)
        BY <1>0, AfterPlaceFollows
      <3> HIDE DEF after
      <3> QED
        BY <2>1, <3>1, <3>2, SendWindow
    <2>3. CASE ~session.paced
      BY <2>1, <2>3, WindowStays DEF PlaceRequest
    <2> QED
      BY <2>2, <2>3
  <1>4. CASE PumpDone \/ PumpHears \/ VenueAccepts \/ VenueRefuses
    BY <1>4, WindowStays DEF PumpDone, PumpHears, VenueAccepts, VenueRefuses
  <1>5. ASSUME NEW id, Trade(id) \/ OrderFrame(id) \/ FillFrame(id)
        PROVE  WindowInv'
    BY <1>5, WindowStays DEF Trade, OrderFrame, FillFrame
  <1>6. CASE Tick \/ StepBack
    BY <1>6, TickWindow, StepBackWindow
  <1>7. CASE AskBudget
    <2>1. /\ gov' = AfterInfo(gov, session.budget, clock.now, InfoWeight)
          /\ AdmitsInfo(gov, session.budget, clock.now, InfoWeight)
          /\ log' = Append(log, [at |-> clock.now, weight |-> InfoWeight])
          /\ reading' = {spent} /\ UNCHANGED <<session, clock, spent>>
      BY <1>7 DEF AskBudget
    <2>2. InfoWeight \in Nat \ {0}
      BY DEF InfoWeight
    <2>3. Follows(gov, gov', clock.now, session.budget.span, InfoWeight)
      BY <1>0, <2>1, <2>2, AfterInfoFollows
    <2>4. spent' \in Nat /\ reading' \subseteq 0..spent'
      BY <1>0, <2>1
    <2> QED
      BY <2>1, <2>2, <2>3, <2>4, WindowCharged
  <1>8. CASE HearBudget
    <2>1. PICK count \in reading : gov' = AfterReading(gov, session.budget, clock.now, count)
      BY <1>8 DEF HearBudget
    <2>2. reading' = {} /\ UNCHANGED <<session, clock, spent, log>>
      BY <1>8 DEF HearBudget
    <2> DEFINE g == gov'
    <2>3. Counts(g) /\ g.window = gov.window
      BY <1>0, <2>1, AfterReadingCounts
    <2> HIDE DEF g
    <2>4. Covers(session, clock, log, g)
      BY <2>3 DEF WindowInv, Covers
    <2>5. Covers(session', clock', log', gov')
      BY <2>2, <2>4 DEF g
    <2> QED
      BY <2>2, <2>5 DEF WindowInv
  <1>9. CASE Swing \/ PollAccount \/ Midnight \/ StatusPass \/ Restart
    BY <1>9, WindowStays DEF Swing, PollAccount, Midnight, StatusPass, Restart, otherVars
  <1>10. CASE UNCHANGED vars
    BY <1>10, WindowStays DEF vars
  <1> QED
    BY <1>1, <1>2, <1>3, <1>4, <1>5, <1>6, <1>7, <1>8, <1>9, <1>10 DEF Next

(* What was charged since a moment is part of the whole. *)
LEMMA SinceIsLess ==
    ASSUME NEW w \in Seq(Charges), NEW t \in Int
    PROVE  Since(w, t) <= Weight(w)
  <1> DEFINE F == After(w, t)
             G == Weights(w)
             I == 1..Len(w)
  <1>1. IsFiniteSet(I)
    BY Upto, LenProperties
  <1>2. \A i \in I : F[i] = (IF w[i].at > t THEN w[i].weight ELSE 0) /\ F[i] \in Nat
                     /\ G[i] = w[i].weight /\ G[i] \in Nat
    BY SinceIs, WeightIs
  <1>3. Since(w, t) = SumFunctionOnSet(F, I) /\ Weight(w) = SumFunctionOnSet(G, I)
    BY WeightIs DEF Since
  <1> HIDE DEF F, G, I
  <1>4. \A i \in I : F[i] \in Int /\ G[i] \in Int /\ F[i] <= G[i]
    BY <1>2
  <1>5. SumFunctionOnSet(F, I) <= SumFunctionOnSet(G, I)
    BY <1>1, <1>4, SumOfLess
  <1> QED
    BY <1>3, <1>5

LEMMA EveryChargeCounts ==
    ASSUME WindowInv
    PROVE  WindowCountsEveryCharge
  <1> DEFINE span == session.budget.span
             t == clock.peak - span
             recent == {i \in DOMAIN log : clock.peak < log[i].at + span}
             F == [i \in DOMAIN log |-> log[i].weight]
             p == Prune(gov, session.budget, clock.peak)
  <1>1. /\ clock.peak \in Int /\ span \in Int /\ t \in Int
        /\ log \in Seq(Charges) /\ Counts(gov) /\ Since(log, t) <= Since(gov.window, t)
    BY BudgetIs DEF WindowInv, Covers
  <1>2. Counts(p) /\ Since(p.window, t) = Since(gov.window, t)
    <2> HIDE DEF p
    <2>1. clock.peak - session.budget.span <= t
      BY <1>1
    <2> QED
      BY <1>1, <2>1, PruneCounts DEF p
  <1>3. Since(p.window, t) <= p.weight /\ p.weight \in Nat /\ Since(p.window, t) \in Nat
    <2> HIDE DEF p, t
    <2>1. p.window \in Seq(Charges) /\ p.weight = Weight(p.window)
      BY <1>2 DEF Counts, Ascends
    <2> QED
      BY <1>1, <2>1, SinceIsLess, WeightIs, SinceIs
  <1> DEFINE I == 1..Len(log)
             A == After(log, t)
  <1>4. IsFiniteSet(I) /\ DOMAIN log = I
    BY <1>1, Upto, LenProperties
  <1>5. \A i \in I : log[i].at \in Int /\ F[i] = log[i].weight /\ F[i] \in Nat
    BY <1>1, <1>4, ChargeIs
  <1>6. \A i \in I : A[i] = (IF log[i].at > t THEN log[i].weight ELSE 0) /\ A[i] \in Nat
    <2> HIDE DEF t
    <2> QED
      BY <1>1, SinceIs
  <1>7. Since(log, t) = SumFunctionOnSet(A, I)
    BY DEF Since
  <1>8. recent \in SUBSET I
    BY <1>4
  <1>9. \A i \in I : i \in recent <=> log[i].at > t
    BY <1>1, <1>4, <1>5
  <1> HIDE DEF F, A, recent, t, I, p, span
  <1>10. SumFunctionOnSet(A, I) = SumFunctionOnSet(A, recent)
    <2>1. (\A i \in I : A[i] \in Int) /\ \A i \in I \ recent : A[i] = 0
      BY <1>6, <1>9
    <2> QED
      BY <1>4, <1>8, <2>1, SumLeavesOut
  <1>11. SumFunctionOnSet(A, recent) = SumFunctionOnSet(F, recent)
    <2>1. IsFiniteSet(recent)
      BY <1>4, <1>8, FS_Subset
    <2>2. \A i \in recent : A[i] \in Int /\ A[i] = F[i]
      BY <1>5, <1>6, <1>8, <1>9
    <2> QED
      BY <2>1, <2>2, SumOfSame
  <1>12. Since(log, t) \in Nat
    BY <1>1, SinceIs
  <1>13. p.weight >= SumFunctionOnSet(F, recent)
    BY <1>1, <1>2, <1>3, <1>7, <1>10, <1>11, <1>12
  <1> QED
    BY <1>13 DEF WindowCountsEveryCharge, F, recent, p, span

(* The longer the stretch from the oldest charge on, the more it weighs. *)
LEMMA WeightGrows ==
    ASSUME NEW w \in Seq(Charges), NEW i \in Nat, NEW m \in Nat, i <= m, m <= Len(w)
    PROVE  WeightTo(w, i) \in Nat /\ WeightTo(w, m) \in Nat /\ WeightTo(w, i) <= WeightTo(w, m)
  <1> DEFINE F == Weights(w)
             I == 1..i
             J == 1..m
  <1>1. Len(w) \in Nat
    BY LenProperties
  <1>2. IsFiniteSet(J) /\ I \subseteq J
    BY Upto
  <1>3. \A k \in J : F[k] \in Nat
    <2>1. \A k \in J : k \in 1..Len(w)
      BY <1>1
    <2> QED
      BY <2>1, WeightIs
  <1>4. WeightTo(w, i) = SumFunctionOnSet(F, I) /\ WeightTo(w, m) = SumFunctionOnSet(F, J)
    BY DEF WeightTo
  <1> HIDE DEF F, I, J
  <1> QED
    BY <1>2, <1>3, <1>4, SumOfMore

(* When the charge at i has just aged out. *)
LEMMA PrunedWhenFree ==
    ASSUME NEW g, Counts(g), NEW cfg, cfg.span \in Int, NEW i \in 1..Len(g.window), NEW deficit \in Int,
           WeightTo(g.window, i) >= deficit,
           \A j \in 1..Len(g.window) : j < i => WeightTo(g.window, j) < deficit, deficit > 0
    PROVE  LET at == g.window[i].at + cfg.span
           IN  /\ g.weight \in Nat
               /\ Prune(g, cfg, at).weight \in Nat /\ Prune(g, cfg, at).weight <= g.weight - deficit
               /\ Prune(g, cfg, at - 1).weight \in Nat /\ Prune(g, cfg, at - 1).weight > g.weight - deficit
  <1> DEFINE w == g.window
             at == w[i].at + cfg.span
  <1>0. w \in Seq(Charges) /\ g.weight = Weight(w) /\ Len(w) \in Nat /\ g.weight \in Nat /\ w[i].at \in Int /\ i \in Nat
    BY LenProperties, WeightIs, ChargeIs DEF Counts, Ascends
  <1>1. at \in Int /\ at - 1 \in Int
    BY <1>0
  <1> DEFINE p == Prune(g, cfg, at)
             q == Prune(g, cfg, at - 1)
  <1>2. p.weight \in Nat /\ p.weight <= g.weight - deficit
    <2>1. PICK m \in Nat :
             /\ Cut(w, m, cfg.span, at)
             /\ p.weight = Weight(p.window) /\ Ascends(p.window)
             /\ g.weight = WeightTo(w, m) + p.weight
      <3> HIDE DEF at
      <3> QED
        BY <1>1, PruneIs
    <2>2. m \in 0..Len(w) /\ ~(i > m)
      BY <1>0, <2>1 DEF Cut
    <2> HIDE DEF p
    <2>3. p.weight \in Nat
      BY <2>1, WeightIs DEF Ascends
    <2>4. WeightTo(w, i) \in Nat /\ WeightTo(w, m) \in Nat /\ WeightTo(w, i) <= WeightTo(w, m)
      BY <1>0, <2>2, WeightGrows
    <2> QED
      BY <1>0, <2>1, <2>3, <2>4
  <1>3. q.weight \in Nat /\ q.weight > g.weight - deficit
    <2> DEFINE before == at - 1
    <2>1. PICK m \in Nat :
             /\ Cut(w, m, cfg.span, before)
             /\ q.weight = Weight(q.window) /\ Ascends(q.window)
             /\ g.weight = WeightTo(w, m) + q.weight
      <3>1. before \in Int /\ q = Prune(g, cfg, before)
        BY <1>1
      <3> HIDE DEF before, q
      <3> QED
        BY <3>1, PruneIs
    <2>2. m \in 0..Len(w) /\ m < i
      <3>1. m \in 0..Len(w)
        BY <2>1 DEF Cut
      <3>2. i \in 1..m => w[i].at + cfg.span <= before
        BY <2>1 DEF Cut
      <3> QED
        BY <1>0, <3>1, <3>2
    <2> HIDE DEF q, before
    <2>3. q.weight \in Nat
      BY <2>1, WeightIs DEF Ascends
    <2>4. WeightTo(w, m) \in Nat /\ WeightTo(w, m) < deficit
      <3>1. CASE m = 0
        <4> DEFINE F == Weights(w)
        <4>1. WeightTo(w, 0) = SumFunctionOnSet(F, {})
          BY DEF WeightTo
        <4> HIDE DEF F
        <4> QED
          BY <3>1, <4>1, SumOfNone
      <3>2. CASE m # 0
        BY <1>0, <2>2, <3>2, WeightIs
      <3> QED
        BY <3>1, <3>2
    <2> QED
      BY <1>0, <2>1, <2>3, <2>4
  <1> QED
    BY <1>0, <1>2, <1>3

LEMMA RetryHolds ==
    ASSUME WindowInv
    PROVE  RetryIsExact
  <1> DEFINE cfg == session.budget
             w == gov.window
  <1>0. /\ Counts(gov) /\ cfg.span \in Int /\ cfg.ipLimit \in Int /\ IpPlaceCeiling(cfg) \in Int
        /\ w \in Seq(Charges) /\ Len(w) \in Nat /\ gov.weight = Weight(w) /\ gov.weight \in Nat
        /\ WeightTo(w, Len(w)) = gov.weight
    <2>1. cfg.span \in Nat \ {0} /\ cfg.ipLimit \in Nat /\ cfg.ipReserve \in Nat
      BY BudgetIs DEF WindowInv
    <2>2. IpPlaceCeiling(cfg) \in Int
      BY <2>1 DEF IpPlaceCeiling, AtLeastZero
    <2>3. Counts(gov)
      BY DEF WindowInv, Covers
    <2>4. w \in Seq(Charges) /\ gov.weight = Weight(w)
      BY <2>3 DEF Counts, Ascends
    <2> HIDE DEF w, cfg
    <2>5. Len(w) \in Nat /\ Weight(w) \in Nat /\ WeightTo(w, Len(w)) = Weight(w)
      BY <2>4, LenProperties, WeightIs
    <2> QED
      BY <2>1, <2>2, <2>3, <2>4, <2>5 DEF w
  <1>1. SUFFICES
          ASSUME NEW weight \in 1..InfoWeight, NEW ceiling \in {IpPlaceCeiling(cfg), cfg.ipLimit},
                 gov.weight + weight - ceiling > 0, weight <= ceiling
          PROVE  \E at \in FreesAt(gov, cfg, gov.weight + weight - ceiling) :
                    /\ Prune(gov, cfg, at).weight + weight - ceiling <= 0
                    /\ Prune(gov, cfg, at - 1).weight + weight - ceiling > 0
    BY DEF RetryIsExact
  <1> DEFINE deficit == gov.weight + weight - ceiling
             enough == {i \in 1..Len(w) : Weight(SubSeq(w, 1, i)) >= deficit}
  <1>2. weight \in Int /\ ceiling \in Int /\ deficit \in Int /\ deficit > 0 /\ deficit <= gov.weight
    BY <1>0, <1>1 DEF InfoWeight
  <1>3. \A i \in 1..Len(w) : Weight(SubSeq(w, 1, i)) = WeightTo(w, i) /\ WeightTo(w, i) \in Nat
    <2>1. \A i \in 1..Len(w) : i \in 0..Len(w)
      BY <1>0
    <2> QED
      BY <1>0, <2>1, PrefixWeighs, WeightIs
  <1>4. Len(w) \in enough
    <2>1. Len(w) # 0
      <3>1. SUFFICES ASSUME Len(w) = 0
                     PROVE  FALSE
        OBVIOUS
      <3> DEFINE F == Weights(w)
      <3>2. WeightTo(w, 0) = SumFunctionOnSet(F, {})
        BY DEF WeightTo
      <3> HIDE DEF F, deficit, w
      <3> QED
        BY <1>0, <1>2, <3>1, <3>2, SumOfNone
    <2>2. Len(w) \in 1..Len(w)
      BY <1>0, <2>1
    <2> HIDE DEF deficit
    <2> QED
      BY <1>0, <1>2, <1>3, <2>2
  <1>5. PICK i \in enough : \A j \in enough : i <= j
    <2>1. enough \in SUBSET Nat
      BY <1>0
    <2> HIDE DEF enough
    <2> QED
      BY <1>4, <2>1, LeastNumber
  <1>6. i \in 1..Len(w) /\ WeightTo(w, i) >= deficit
    BY <1>3, <1>5
  <1>7. \A j \in 1..Len(w) : j < i => WeightTo(w, j) < deficit
    <2> HIDE DEF deficit
    <2>1. ASSUME NEW j \in 1..Len(w), j < i
          PROVE  WeightTo(w, j) < deficit
      <3>1. j \notin enough
        BY <1>0, <1>5, <1>6, <2>1
      <3> QED
        BY <1>2, <1>3, <3>1
    <2> QED
      BY <2>1
  <1> DEFINE at == w[i].at + cfg.span
  <1>8. at \in FreesAt(gov, cfg, deficit)
    <2> HIDE DEF deficit
    <2> QED
      BY <1>5 DEF FreesAt
  <1>9. /\ gov.weight \in Nat
        /\ Prune(gov, cfg, at).weight \in Nat /\ Prune(gov, cfg, at).weight <= gov.weight - deficit
        /\ Prune(gov, cfg, at - 1).weight \in Nat /\ Prune(gov, cfg, at - 1).weight > gov.weight - deficit
    <2> HIDE DEF deficit, enough
    <2> QED
      BY <1>0, <1>2, <1>6, <1>7, PrunedWhenFree
  <1> HIDE DEF at, enough
  <1>10. /\ Prune(gov, cfg, at).weight + weight - ceiling <= 0
         /\ Prune(gov, cfg, at - 1).weight + weight - ceiling > 0
    BY <1>2, <1>9
  <1> QED
    BY <1>8, <1>10

(* The window neither forgets a charge that may still count, also when the
   clock is set back, nor keeps one too long; and the count of credits falls
   short of the venue's by no more than is known.  For every budget, and any
   number of requests. *)
THEOREM TheWindowHolds == Spec => []TheWindowIsExact
  <1>1. Init => BudgetInv /\ WindowInv
    BY BudgetInit, WindowInit
  <1>2. BudgetInv /\ WindowInv /\ [Next]_vars => BudgetInv' /\ WindowInv'
    BY BudgetNext, WindowNext
  <1>3. BudgetInv /\ WindowInv => TheWindowIsExact
    BY EveryChargeCounts, RetryHolds DEF TheWindowIsExact, BudgetInv
  <1> QED
    BY <1>1, <1>2, <1>3, PTL DEF Spec

(* The symbols that a history names are the session's. *)
NamesInv == misread.symbols \subseteq Symbols /\ stacked \subseteq Symbols

LEMMA NamesNext ==
    ASSUME PathInv, PathStep, NamesInv
    PROVE  NamesInv'
  <1>1. CASE Quiet \/ (\E id \in 1..Len(orders) : Traded(id)) \/ Accepted
    <2>1. misread' = misread /\ stacked' = stacked /\ session' = session
      BY <1>1 DEF Quiet, Traded, Accepted
    <2> QED
      BY <2>1 DEF NamesInv, Symbols
  <1>2. CASE PumpPlace
    <2>1. session' = session /\ misread' = Misread(Here.sym, Wish.side) /\ queue # <<>> /\ Here.orders # {}
          /\ stacked' \in {stacked, stacked \cup {Here.sym}}
      BY <1>2 DEF PumpPlace
    <2>2. Here.sym \in Symbols
      BY <2>1, WishIs
    <2>3. misread'.symbols \subseteq misread.symbols \cup {Here.sym}
      BY <2>1 DEF Misread
    <2> QED
      BY <2>1, <2>2, <2>3 DEF NamesInv, Symbols
  <1> QED
    BY <1>1, <1>2 DEF PathStep

(* All that holds of the path, its gate and its budgets. *)
OrderPathInv ==
    /\ PathInv /\ LossInv /\ MarksInv /\ ExposureInv /\ LegsInv /\ GrossInv
    /\ BudgetInv /\ WindowInv /\ NamesInv

LEMMA OrderPathInit ==
    ASSUME Init
    PROVE  OrderPathInv
  <1>1. MarksInv /\ NamesInv
    BY DEF Init, MarksInv, NamesInv
  <1> QED
    BY <1>1, PathInit, LossInit, ExposureInit, LegsInit, GrossInit, BudgetInit, WindowInit DEF OrderPathInv

LEMMA OrderPathNext ==
    ASSUME OrderPathInv, [Next]_vars
    PROVE  OrderPathInv'
  <1>1. PathInv /\ LossInv /\ MarksInv /\ ExposureInv /\ LegsInv /\ GrossInv /\ BudgetInv /\ WindowInv /\ NamesInv
    BY DEF OrderPathInv
  <1>2. tripped \in BOOLEAN
    BY <1>1 DEF LossInv, MoneyTypes
  <1>3. PathInv' /\ PathStep
    BY <1>1, <1>2, PathNext
  <1>4. LossInv' /\ MarksInv' /\ BudgetInv' /\ WindowInv'
    BY <1>1, LossNext, MarksNext, BudgetNext, WindowNext
  <1>5. ExposureInv'
    BY <1>1, <1>2, <1>3, ExposureNext
  <1>6. LegsInv'
    BY <1>1, <1>2, <1>3, LegsNext
  <1>7. GrossInv'
    BY <1>1, <1>2, <1>3, <1>4, GrossNext
  <1>8. NamesInv'
    BY <1>1, <1>3, NamesNext
  <1> QED
    BY <1>3, <1>4, <1>5, <1>6, <1>7, <1>8 DEF OrderPathInv

LEMMA OrderPathHolds == Spec => []OrderPathInv
  <1>1. Init => OrderPathInv
    BY OrderPathInit
  <1>2. OrderPathInv /\ [Next]_vars => OrderPathInv'
    BY OrderPathNext
  <1> QED
    BY <1>1, <1>2, PTL DEF Spec

LEMMA TypesShown ==
    ASSUME OrderPathInv
    PROVE  TypeOK
  <1>1. PathInv /\ MarksInv /\ BudgetInv /\ WindowInv /\ NamesInv
    BY DEF OrderPathInv
  <1>2. /\ session \in Sessions /\ orders \in Seq(Order)
        /\ \A id \in 1..Len(orders) : Sensible(orders[id], session.planner.lot)
        /\ stage \in {"idle", "sent", "resting", "filled", "lost"}
        /\ stage # "idle" => queue # <<>> /\ Here.cancels = {} /\ Here.orders # {}
    <2>1. Order = OrderIn(session)
      BY DEF Order, OrderIn, Symbols
    <2> QED
      BY <1>1, <2>1 DEF PathInv
  <1>3. \A id \in 1..Len(orders) :
            /\ orders[id].applied <= orders[id].done /\ orders[id].done <= orders[id].qty
            /\ orders[id].open => orders[id].done < orders[id].qty
            /\ orders[id].vouched => orders[id].known
    BY <1>2 DEF Sensible
  <1>4. gov.weight = Weight(gov.window) /\ gov.used \in Nat /\ reading \subseteq 0..spent
        /\ clock.now \in 1..clock.peak /\ clock.peak <= session.ticks
    BY <1>1 DEF BudgetInv, WindowInv, Covers, Counts
  <1> QED
    BY <1>1, <1>2, <1>3, <1>4 DEF TypeOK, MarksInv, NamesInv

(* guard.rs, portfolio.rs: resting orders count as filled, so whatever fills,
   in whatever order, no symbol passes its position limit and the book passes
   neither of its own, but for what the gate is known to misread; and what the
   session keeps is what it says (LimitsInv).  For every limit, any number of
   symbols and of orders, and whatever answers are lost. *)
THEOREM TheLimitsHold == Spec => []LimitsInv
  <1>1. OrderPathInv => LimitsInv
    BY TypesShown, ExposureShown, BookShown DEF LimitsInv, OrderPathInv
  <1> QED
    BY <1>1, OrderPathHolds, PTL

-----------------------------------------------------------------------------
(* A tripped session.  What was sent since only takes the position towards *)
(* flat: each such order is alone at work on its side, and what is left of *)
(* it is no more than the venue's position.                                *)

DoneOf(os) == [id \in 1..Len(os) |-> Signed(os[id].side, os[id].done)]
HeldOf(ss, os, s) == ss.held[s] + SumFunctionOnSet(DoneOf(os), Of(os, s))
SentFor(st, q, s) == st = "sent" /\ Head(q).sym = s

LateFor(ss, os, st, q, s) ==
    /\ \A id \in Of(os, s) : os[id].late /\ os[id].open =>
        /\ Signed(os[id].side, HeldOf(ss, os, s)) + (os[id].qty - os[id].done) <= 0
        /\ \A j \in Of(os, s) : os[j].open /\ os[j].side = os[id].side => j = id
        /\ SentFor(st, q, s) => WishOf(Head(q)).side # os[id].side
    /\ SentFor(st, q, s) /\ Head(q).late =>
        /\ Signed(WishOf(Head(q)).side, HeldOf(ss, os, s)) + WishOf(Head(q)).qty <= 0
        /\ \A j \in Of(os, s) : os[j].open => os[j].side # WishOf(Head(q)).side

LateInv == \A s \in Symbols \ stacked : LateFor(session, orders, stage, queue, s)

LEMMA HeldIs ==
    ASSUME NEW s
    PROVE  /\ Held(s) = HeldOf(session, orders, s)
           /\ Held(s)' = HeldOf(session', orders', s)
           /\ Ids(s) = Of(orders, s)
  BY DEF Held, HeldOf, Done, DoneOf, Ids, Of

LEMMA DoneIs ==
    ASSUME NEW ss, NEW os, Booked(ss, os), NEW s
    PROVE  /\ IsFiniteSet(Of(os, s))
           /\ \A id \in Of(os, s) :
                /\ DoneOf(os)[id] = Signed(os[id].side, os[id].done) /\ DoneOf(os)[id] \in Int
                /\ id \in 1..Len(os) /\ os[id].sym = s /\ os[id].side \in Sides
                /\ os[id].done \in Nat /\ os[id].qty \in Nat /\ os[id].done <= os[id].qty
                /\ os[id].applied \in Nat /\ os[id].applied <= os[id].done
  <1>1. IsFiniteSet(Of(os, s))
    BY FinitelyMany DEF Of, Booked
  <1>2. ASSUME NEW id \in Of(os, s)
        PROVE  /\ DoneOf(os)[id] = Signed(os[id].side, os[id].done) /\ DoneOf(os)[id] \in Int
               /\ id \in 1..Len(os) /\ os[id].sym = s /\ os[id].side \in Sides
               /\ os[id].done \in Nat /\ os[id].qty \in Nat /\ os[id].done <= os[id].qty
               /\ os[id].applied \in Nat /\ os[id].applied <= os[id].done
    <2>1. id \in 1..Len(os) /\ os[id].sym = s /\ os[id] \in OrderIn(ss) /\ Sensible(os[id], ss.planner.lot)
      BY <1>2 DEF Of, Booked
    <2>2. /\ os[id].side \in Sides /\ os[id].done \in Nat /\ os[id].qty \in Nat /\ os[id].applied \in Nat
          /\ os[id].done <= os[id].qty /\ os[id].applied <= os[id].done
      BY <2>1, OrderFields DEF Sensible
    <2>3. DoneOf(os)[id] = Signed(os[id].side, os[id].done)
      BY <2>1 DEF DoneOf
    <2>4. Signed(os[id].side, os[id].done) \in Int
      BY <2>2 DEF Signed
    <2> QED
      BY <2>1, <2>2, <2>3, <2>4
  <1> QED
    BY <1>1, <1>2

LEMMA HeldIsInt ==
    ASSUME NEW ss, NEW os, Booked(ss, os), NEW s \in DOMAIN ss.held
    PROVE  HeldOf(ss, os, s) \in Int
  <1> DEFINE F == DoneOf(os)
             S == Of(os, s)
  <1>1. IsFiniteSet(S) /\ \A id \in S : F[id] \in Int
    BY DoneIs
  <1>2. HeldOf(ss, os, s) = ss.held[s] + SumFunctionOnSet(F, S)
    BY DEF HeldOf
  <1>3. ss.held[s] \in Int
    BY SessionIs DEF Booked
  <1> HIDE DEF F, S
  <1>4. SumFunctionOnSet(F, S) \in Int
    BY <1>1, SumIsInteger
  <1> QED
    BY <1>2, <1>3, <1>4

(* Nothing traded. *)
LEMMA HeldStays ==
    ASSUME NEW ss, NEW os, NEW ot, Booked(ss, os), Booked(ss, ot), NEW s \in DOMAIN ss.held,
           Len(ot) = Len(os),
           \A k \in 1..Len(os) : ot[k].sym = os[k].sym /\ ot[k].side = os[k].side /\ ot[k].done = os[k].done
    PROVE  Of(ot, s) = Of(os, s) /\ HeldOf(ss, ot, s) = HeldOf(ss, os, s)
  <1> DEFINE F == DoneOf(os)
             G == DoneOf(ot)
             S == Of(os, s)
  <1>1. Of(ot, s) = S
    BY DEF Of
  <1>2. IsFiniteSet(S)
    BY DoneIs
  <1>3. \A id \in S : F[id] \in Int /\ F[id] = G[id]
    <2>1. ASSUME NEW id \in S
          PROVE  F[id] \in Int /\ F[id] = G[id]
      <3>1. F[id] = Signed(os[id].side, os[id].done) /\ F[id] \in Int /\ id \in 1..Len(os)
        BY <2>1, DoneIs
      <3>2. G[id] = Signed(ot[id].side, ot[id].done)
        BY <1>1, <2>1, DoneIs
      <3> QED
        BY <3>1, <3>2
    <2> QED
      BY <2>1
  <1>4. HeldOf(ss, os, s) = ss.held[s] + SumFunctionOnSet(F, S)
        /\ HeldOf(ss, ot, s) = ss.held[s] + SumFunctionOnSet(G, S)
    BY <1>1 DEF HeldOf
  <1> HIDE DEF F, G, S
  <1>5. SumFunctionOnSet(F, S) = SumFunctionOnSet(G, S)
    BY <1>2, <1>3, SumOfSame
  <1> QED
    BY <1>1, <1>4, <1>5 DEF S

(* One order traded. *)
LEMMA HeldMoves ==
    ASSUME NEW ss, NEW os, NEW ot, Booked(ss, os), Booked(ss, ot), NEW s \in DOMAIN ss.held,
           Len(ot) = Len(os), NEW id \in 1..Len(os),
           \A k \in 1..Len(os) : ot[k].sym = os[k].sym /\ ot[k].side = os[k].side,
           \A k \in 1..Len(os) : k # id => ot[k].done = os[k].done,
           NEW lot \in Nat, ot[id].done = os[id].done + lot
    PROVE  /\ Of(ot, s) = Of(os, s)
           /\ os[id].sym # s => HeldOf(ss, ot, s) = HeldOf(ss, os, s)
           /\ os[id].sym = s => HeldOf(ss, ot, s) = HeldOf(ss, os, s) + Signed(os[id].side, lot)
  <1> DEFINE F == DoneOf(os)
             G == DoneOf(ot)
             S == Of(os, s)
  <1>1. Of(ot, s) = S /\ (os[id].sym = s <=> id \in S)
    BY DEF Of
  <1>2. IsFiniteSet(S)
    BY DoneIs
  <1>3. ASSUME NEW k \in S
        PROVE  /\ F[k] \in Int /\ G[k] \in Int /\ F[k] = Signed(os[k].side, os[k].done)
               /\ G[k] = Signed(os[k].side, ot[k].done)
               /\ k # id => F[k] = G[k]
    <2>1. F[k] = Signed(os[k].side, os[k].done) /\ F[k] \in Int /\ k \in 1..Len(os)
      BY <1>3, DoneIs
    <2>2. G[k] = Signed(ot[k].side, ot[k].done) /\ G[k] \in Int
      BY <1>1, <1>3, DoneIs
    <2> QED
      BY <2>1, <2>2
  <1>4. /\ HeldOf(ss, os, s) = ss.held[s] + SumFunctionOnSet(F, S)
        /\ HeldOf(ss, ot, s) = ss.held[s] + SumFunctionOnSet(G, S)
        /\ ss.held[s] \in Int
    BY <1>1, SessionIs DEF HeldOf, Booked
  <1>5. id \in S => G[id] = F[id] + Signed(os[id].side, lot)
    <2>1. ASSUME id \in S
          PROVE  G[id] = F[id] + Signed(os[id].side, lot)
      <3>1. os[id].done \in Nat /\ os[id].side \in Sides
        BY <2>1, DoneIs
      <3>2. F[id] = Signed(os[id].side, os[id].done) /\ G[id] = Signed(os[id].side, os[id].done + lot)
        BY <1>3, <2>1
      <3> HIDE DEF F, G
      <3> QED
        BY <3>1, <3>2 DEF Signed
    <2> QED
      BY <2>1
  <1>6. os[id].sym = s => Signed(os[id].side, lot) \in Int
    BY DEF Signed
  <1> HIDE DEF F, G, S
  <1>7. SumFunctionOnSet(F, S) \in Int
    BY <1>2, <1>3, SumIsInteger
  <1>8. CASE id \in S
    <2>1. SumFunctionOnSet(G, S) = SumFunctionOnSet(F, S) + (G[id] - F[id])
      <3>1. \A k \in S : F[k] \in Int /\ G[k] \in Int
        BY <1>3
      <3>2. PICK e \in S : e = id
        BY <1>8
      <3>3. \A k \in S \ {e} : F[k] = G[k]
        BY <1>3, <3>2
      <3>4. SumFunctionOnSet(G, S) = SumFunctionOnSet(F, S) + (G[e] - F[e])
        BY ONLY <1>2, <3>1, <3>3, SumOfChanged
      <3> QED
        BY <3>2, <3>4
    <2>2. F[id] \in Int
      BY <1>3, <1>8
    <2>3. HeldOf(ss, ot, s) = HeldOf(ss, os, s) + Signed(os[id].side, lot)
      BY <1>1, <1>4, <1>5, <1>6, <1>7, <1>8, <2>1, <2>2
    <2> QED
      BY <1>1, <1>8, <2>3 DEF S
  <1>9. CASE id \notin S
    <2>1. SumFunctionOnSet(F, S) = SumFunctionOnSet(G, S)
      <3>1. \A k \in S : F[k] \in Int /\ F[k] = G[k]
        BY <1>3, <1>9
      <3> QED
        BY <1>2, <3>1, SumOfSame
    <2> QED
      BY <1>1, <1>4, <1>9, <2>1 DEF S
  <1> QED
    BY <1>8, <1>9

(* One order more. *)
LEMMA HeldGrows ==
    ASSUME NEW ss, NEW os, NEW ot, Booked(ss, os), Booked(ss, ot), NEW s \in DOMAIN ss.held,
           NEW n, n = Len(os) + 1, Len(ot) = n,
           \A k \in 1..Len(os) : ot[k] = os[k]
    PROVE  /\ Of(ot, s) = IF ot[n].sym = s THEN Of(os, s) \cup {n} ELSE Of(os, s)
           /\ n \notin Of(os, s)
           /\ ot[n].sym # s => HeldOf(ss, ot, s) = HeldOf(ss, os, s)
           /\ ot[n].sym = s => HeldOf(ss, ot, s) = HeldOf(ss, os, s) + Signed(ot[n].side, ot[n].done)
  <1> DEFINE F == DoneOf(os)
             G == DoneOf(ot)
             S == Of(os, s)
  <1>0. Len(os) \in Nat /\ n \in Nat
    BY LenProperties DEF Booked
  <1>1. Of(ot, s) = (IF ot[n].sym = s THEN S \cup {n} ELSE S) /\ n \notin S
    BY <1>0 DEF Of
  <1>2. IsFiniteSet(S)
    BY DoneIs
  <1>3. ASSUME NEW k \in S
        PROVE  F[k] \in Int /\ F[k] = G[k] /\ G[k] \in Int
    <2>1. F[k] = Signed(os[k].side, os[k].done) /\ F[k] \in Int /\ k \in 1..Len(os)
      BY <1>3, DoneIs
    <2>2. k \in Of(ot, s)
      BY <1>1, <1>3
    <2>3. G[k] = Signed(ot[k].side, ot[k].done)
      BY <2>2, DoneIs
    <2> QED
      BY <2>1, <2>3
  <1>4. /\ HeldOf(ss, os, s) = ss.held[s] + SumFunctionOnSet(F, S)
        /\ HeldOf(ss, ot, s) = ss.held[s] + SumFunctionOnSet(G, Of(ot, s))
        /\ ss.held[s] \in Int
    BY SessionIs DEF HeldOf, Booked
  <1>5. ot[n].sym = s => G[n] = Signed(ot[n].side, ot[n].done) /\ G[n] \in Int
    <2>1. ot[n].sym = s => n \in Of(ot, s)
      BY <1>1
    <2> QED
      BY <2>1, DoneIs
  <1> HIDE DEF F, G, S
  <1>6. SumFunctionOnSet(F, S) = SumFunctionOnSet(G, S) /\ SumFunctionOnSet(G, S) \in Int
    BY <1>2, <1>3, SumOfSame, SumIsInteger
  <1>7. CASE ot[n].sym = s
    <2>1. SumFunctionOnSet(G, S \cup {n}) = SumFunctionOnSet(G, S) + G[n]
      <3>1. \A k \in S \cup {n} : G[k] \in Int
        BY <1>3, <1>5, <1>7
      <3> QED
        BY <1>1, <1>2, <3>1, SumPutsIn
    <2>2. HeldOf(ss, ot, s) = HeldOf(ss, os, s) + Signed(ot[n].side, ot[n].done)
      BY <1>1, <1>4, <1>5, <1>6, <1>7, <2>1
    <2> QED
      BY <1>1, <1>7, <2>2 DEF S
  <1>8. CASE ot[n].sym # s
    BY <1>1, <1>4, <1>6, <1>8 DEF S
  <1> QED
    BY <1>7, <1>8

LEMMA LateInit ==
    ASSUME Init
    PROVE  LateInv
  <1>1. orders = <<>> /\ stage = "idle"
    BY DEF Init
  <1>2. \A s : Of(orders, s) = {}
    BY <1>1 DEF Of
  <1> QED
    BY <1>1, <1>2 DEF LateInv, LateFor, SentFor

(* With the wish that is on the wire, if one is. *)
LEMMA SentIs ==
    ASSUME PathInv, NEW s, SentFor(stage, queue, s)
    PROVE  /\ Head(queue) = Here /\ WishOf(Head(queue)) = Wish /\ Here.sym = s /\ stage = "sent"
           /\ Wish.side \in Sides /\ Wish.qty \in Nat \ {0}
  <1>1. stage = "sent" /\ Head(queue) = Here /\ WishOf(Head(queue)) = Wish /\ Here.sym = s
    BY DEF SentFor, Here, Wish, WishOf
  <1>2. queue # <<>> /\ Here.orders # {}
    BY <1>1 DEF PathInv
  <1> QED
    BY <1>1, <1>2, WishIs

LEMMA LateWhenQuiet ==
    ASSUME PathInv, PathInv', Quiet, NEW s \in Symbols, LateFor(session, orders, stage, queue, s)
    PROVE  LateFor(session', orders', stage', queue', s)
  <1> DEFINE os == orders
             ot == orders'
             ss == session
  <1>1. /\ session' = ss /\ Booked(ss, os) /\ Booked(ss, ot) /\ s \in DOMAIN ss.held /\ Len(ot) = Len(os)
        /\ \A k \in 1..Len(os) : Keeps(os[k], ot[k])
    <2>1. session' = ss /\ Len(ot) = Len(os) /\ \A k \in 1..Len(os) : Keeps(os[k], ot[k])
      BY DEF Quiet
    <2>2. Booked(session', orders')
      BY DEF PathInv, Booked
    <2> QED
      BY <2>1, <2>2, OrdersAreBooked DEF Symbols
  <1>2. \A k \in 1..Len(os) :
            /\ ot[k].sym = os[k].sym /\ ot[k].side = os[k].side /\ ot[k].done = os[k].done
            /\ ot[k].qty = os[k].qty /\ ot[k].late = os[k].late /\ (ot[k].open => os[k].open)
    BY <1>1 DEF Keeps
  <1>3. Of(ot, s) = Of(os, s) /\ HeldOf(ss, ot, s) = HeldOf(ss, os, s)
    <2> HIDE DEF os, ot, ss
    <2> QED
      BY <1>1, <1>2, HeldStays
  <1>4. SentFor(stage', queue', s) => SentFor(stage, queue, s) /\ Head(queue') = Head(queue)
    BY DEF SentFor, Quiet
  <1>5. \A k \in Of(os, s) : k \in 1..Len(os)
    BY DEF Of
  <1> DEFINE st == stage'
             q == queue'
  <1> HIDE DEF os, ot, ss, st, q
  <1>6. LateFor(ss, os, stage, queue, s)
    BY DEF ss, os
  <1>7. SentFor(st, q, s) => SentFor(stage, queue, s) /\ Head(q) = Head(queue)
    BY <1>4 DEF st, q
  <1>8. LateFor(ss, ot, st, q, s)
    <2>1. ASSUME NEW id \in Of(ot, s), ot[id].late, ot[id].open
          PROVE  /\ Signed(ot[id].side, HeldOf(ss, ot, s)) + (ot[id].qty - ot[id].done) <= 0
                 /\ \A j \in Of(ot, s) : ot[j].open /\ ot[j].side = ot[id].side => j = id
                 /\ SentFor(st, q, s) => WishOf(Head(q)).side # ot[id].side
      <3>1. id \in Of(os, s) /\ os[id].late /\ os[id].open
        BY <1>2, <1>3, <1>5, <2>1
      <3>2. /\ Signed(os[id].side, HeldOf(ss, os, s)) + (os[id].qty - os[id].done) <= 0
            /\ \A j \in Of(os, s) : os[j].open /\ os[j].side = os[id].side => j = id
            /\ SentFor(stage, queue, s) => WishOf(Head(queue)).side # os[id].side
        BY <1>6, <3>1 DEF LateFor
      <3> QED
        BY <1>2, <1>3, <1>5, <1>7, <3>1, <3>2
    <2>2. ASSUME SentFor(st, q, s), Head(q).late
          PROVE  /\ Signed(WishOf(Head(q)).side, HeldOf(ss, ot, s)) + WishOf(Head(q)).qty <= 0
                 /\ \A j \in Of(ot, s) : ot[j].open => ot[j].side # WishOf(Head(q)).side
      <3>1. SentFor(stage, queue, s) /\ Head(q) = Head(queue) /\ Head(queue).late
        BY <1>7, <2>2
      <3>2. /\ Signed(WishOf(Head(queue)).side, HeldOf(ss, os, s)) + WishOf(Head(queue)).qty <= 0
            /\ \A j \in Of(os, s) : os[j].open => os[j].side # WishOf(Head(queue)).side
        BY <1>6, <3>1 DEF LateFor
      <3> QED
        BY <1>2, <1>3, <1>5, <3>1, <3>2
    <2> QED
      BY <2>1, <2>2 DEF LateFor
  <1> QED
    BY <1>1, <1>8 DEF ss, ot, st, q

(* A lot traded comes off what is left of the order, and off the position; or
   off the position's other side. *)
LEMMA LateWhenTraded ==
    ASSUME PathInv, PathInv', NEW id \in 1..Len(orders), Traded(id),
           NEW s \in Symbols, LateFor(session, orders, stage, queue, s)
    PROVE  /\ LateFor(session', orders', stage', queue', s)
           /\ Of(orders', s) = Of(orders, s)
           /\ orders[id].sym # s => HeldOf(session', orders', s) = HeldOf(session, orders, s)
           /\ orders[id].sym = s => HeldOf(session', orders', s)
                                        = HeldOf(session, orders, s) + Signed(orders[id].side, session.planner.lot)
  <1> DEFINE os == orders
             ot == orders'
             ss == session
             lot == session.planner.lot
             before == HeldOf(session, orders, s)
             after == HeldOf(session, orders', s)
  <1>1. /\ session' = ss /\ stage' = stage /\ queue' = queue
        /\ Booked(ss, os) /\ Booked(ss, ot) /\ s \in DOMAIN ss.held /\ Len(ot) = Len(os)
        /\ \A k \in 1..Len(os) : k # id => ot[k] = os[k]
        /\ os[id].open /\ OneLotMore(os[id], ot[id], lot) /\ lot \in Nat \ {0}
    <2>1. /\ session' = ss /\ stage' = stage /\ queue' = queue /\ Len(ot) = Len(os)
          /\ \A k \in 1..Len(os) : k # id => ot[k] = os[k]
          /\ os[id].open /\ OneLotMore(os[id], ot[id], lot)
      BY DEF Traded
    <2>2. Booked(session', orders')
      BY DEF PathInv, Booked
    <2>3. lot \in Nat \ {0}
      BY SessionIs DEF PathInv
    <2> QED
      BY <2>1, <2>2, <2>3, OrdersAreBooked DEF Symbols
  <1>2. /\ \A k \in 1..Len(os) : /\ ot[k].sym = os[k].sym /\ ot[k].side = os[k].side /\ ot[k].qty = os[k].qty
                                 /\ ot[k].late = os[k].late /\ (ot[k].open => os[k].open)
        /\ \A k \in 1..Len(os) : k # id => ot[k].done = os[k].done
        /\ ot[id].done = os[id].done + lot
    BY <1>1 DEF OneLotMore
  <1>3. /\ Of(ot, s) = Of(os, s)
        /\ os[id].sym # s => after = before
        /\ os[id].sym = s => after = before + Signed(os[id].side, lot)
    <2> HIDE DEF os, ot, ss, lot
    <2>1. /\ Of(ot, s) = Of(os, s)
          /\ os[id].sym # s => HeldOf(ss, ot, s) = HeldOf(ss, os, s)
          /\ os[id].sym = s => HeldOf(ss, ot, s) = HeldOf(ss, os, s) + Signed(os[id].side, lot)
      BY <1>1, <1>2, HeldMoves DEF os
    <2> QED
      BY <2>1 DEF os, ot, ss
  <1>4. before \in Int
    BY <1>1, HeldIsInt
  <1>5. \A k \in Of(os, s) : /\ k \in 1..Len(os) /\ os[k].sym = s /\ os[k].side \in Sides
                             /\ os[k].done \in Nat /\ os[k].qty \in Nat
    BY <1>1, DoneIs
  <1>6. SentFor(stage, queue, s) =>
            WishOf(Head(queue)).side \in Sides /\ WishOf(Head(queue)).qty \in Nat
    BY SentIs
  <1>7. LateFor(ss, os, stage, queue, s) /\ HeldOf(ss, os, s) = before /\ HeldOf(ss, ot, s) = after
    OBVIOUS
  <1>8. id \in Of(os, s) <=> os[id].sym = s
    BY DEF Of
  <1>9. LateFor(session', orders', stage', queue', s) <=> LateFor(ss, ot, stage, queue, s)
    BY <1>1
  <1>10. HeldOf(session', orders', s) = after
    BY <1>1
  <1> HIDE DEF os, ot, ss, lot, before, after
  (* An order of the other side takes the position towards flat of this one. *)
  <1>11. ASSUME os[id].sym = s, NEW d \in Sides, d # os[id].side
         PROVE  Signed(d, after) <= Signed(d, before) /\ Signed(d, after) \in Int /\ Signed(d, before) \in Int
    <2>1. os[id].side \in Sides
      BY <1>5, <1>8, <1>11
    <2> QED
      BY <1>1, <1>3, <1>4, <1>11, <2>1 DEF Signed, Sides
  <1>12. LateFor(ss, ot, stage, queue, s)
    <2>1. ASSUME NEW k \in Of(ot, s), ot[k].late, ot[k].open
          PROVE  /\ Signed(ot[k].side, HeldOf(ss, ot, s)) + (ot[k].qty - ot[k].done) <= 0
                 /\ \A j \in Of(ot, s) : ot[j].open /\ ot[j].side = ot[k].side => j = k
                 /\ SentFor(stage, queue, s) => WishOf(Head(queue)).side # ot[k].side
      <3>1. k \in Of(os, s) /\ k \in 1..Len(os) /\ os[k].late /\ os[k].open /\ os[k].side = ot[k].side /\ os[k].side \in Sides
            /\ os[k].done \in Nat /\ os[k].qty \in Nat /\ ot[k].qty = os[k].qty
        BY <1>2, <1>3, <1>5, <2>1
      <3>2. /\ Signed(os[k].side, before) + (os[k].qty - os[k].done) <= 0
            /\ \A j \in Of(os, s) : os[j].open /\ os[j].side = os[k].side => j = k
            /\ SentFor(stage, queue, s) => WishOf(Head(queue)).side # os[k].side
        BY <1>7, <3>1 DEF LateFor
      <3>3. Signed(ot[k].side, after) + (ot[k].qty - ot[k].done) <= 0
        <4>1. CASE os[id].sym # s
          <5>1. k # id
            BY <1>5, <3>1, <4>1
          <5> QED
            BY <1>2, <1>3, <3>1, <3>2, <4>1, <5>1
        <4>2. CASE os[id].sym = s /\ k = id
          <5>1. after = before + Signed(os[k].side, lot) /\ ot[k].done = os[k].done + lot
            BY <1>2, <1>3, <4>2
          <5>2. Signed(os[k].side, after) = Signed(os[k].side, before) + lot /\ Signed(os[k].side, before) \in Int
            BY <1>1, <1>4, <3>1, <5>1 DEF Signed, Sides
          <5> QED
            BY <1>1, <3>1, <3>2, <5>1, <5>2
        <4>3. CASE os[id].sym = s /\ k # id
          <5>1. os[id].side # os[k].side
            BY <1>1, <1>8, <3>2, <4>3
          <5>2. /\ Signed(os[k].side, after) <= Signed(os[k].side, before)
                /\ Signed(os[k].side, after) \in Int /\ Signed(os[k].side, before) \in Int
            BY <1>11, <3>1, <4>3, <5>1
          <5>3. ot[k].done = os[k].done
            BY <1>2, <3>1, <4>3
          <5> QED
            BY <3>1, <3>2, <5>2, <5>3
        <4> QED
          BY <4>1, <4>2, <4>3
      <3>4. \A j \in Of(ot, s) : ot[j].open /\ ot[j].side = ot[k].side => j = k
        BY <1>2, <1>3, <1>5, <3>1, <3>2
      <3> QED
        BY <1>7, <3>1, <3>2, <3>3, <3>4
    <2>2. ASSUME SentFor(stage, queue, s), Head(queue).late
          PROVE  /\ Signed(WishOf(Head(queue)).side, HeldOf(ss, ot, s)) + WishOf(Head(queue)).qty <= 0
                 /\ \A j \in Of(ot, s) : ot[j].open => ot[j].side # WishOf(Head(queue)).side
      <3> DEFINE d == WishOf(Head(queue)).side
                 n == WishOf(Head(queue)).qty
      <3>1. /\ Signed(d, before) + n <= 0
            /\ \A j \in Of(os, s) : os[j].open => os[j].side # d
        BY <1>7, <2>2 DEF LateFor
      <3>2. d \in Sides /\ n \in Nat
        BY <1>6, <2>2
      <3> HIDE DEF d, n
      <3>3. Signed(d, after) + n <= 0
        <4>1. CASE os[id].sym # s
          BY <1>3, <3>1, <4>1
        <4>2. CASE os[id].sym = s
          <5>1. d # os[id].side
            BY <1>1, <1>8, <3>1, <4>2
          <5> QED
            BY <1>11, <3>1, <3>2, <4>2, <5>1
        <4> QED
          BY <4>1, <4>2
      <3>4. \A j \in Of(ot, s) : ot[j].open => ot[j].side # d
        BY <1>2, <1>3, <1>5, <3>1
      <3> QED
        BY <1>7, <3>3, <3>4 DEF d, n
    <2> QED
      BY <2>1, <2>2 DEF LateFor
  <1> QED
    BY <1>3, <1>9, <1>10, <1>12 DEF os, ot, ss, lot, before

(* The venue accepts: what was on the wire is at work, or was filled at once. *)
LEMMA LateWhenAccepted ==
    ASSUME PathInv, PathInv', Accepted, NEW s \in Symbols, LateFor(session, orders, stage, queue, s)
    PROVE  LateFor(session', orders', stage', queue', s)
  <1> DEFINE os == orders
             ot == orders'
             ss == session
             n == Len(orders) + 1
             o == orders'[Len(orders) + 1]
             before == HeldOf(session, orders, s)
             after == HeldOf(session, orders', s)
  <1>1. /\ session' = ss /\ queue' = queue /\ stage = "sent" /\ stage' # "sent"
        /\ Booked(ss, os) /\ Booked(ss, ot) /\ s \in DOMAIN ss.held /\ Len(ot) = n
        /\ \A k \in 1..Len(os) : ot[k] = os[k]
        /\ o.sym = Here.sym /\ o.side = Wish.side /\ o.qty = Wish.qty /\ o.late = Here.late
        /\ o.done = IF o.open THEN 0 ELSE o.qty
    <2>1. /\ session' = ss /\ queue' = queue /\ stage = "sent" /\ stage' # "sent" /\ Len(ot) = n
          /\ \A k \in 1..Len(os) : ot[k] = os[k]
          /\ o.sym = Here.sym /\ o.side = Wish.side /\ o.qty = Wish.qty /\ o.late = Here.late
          /\ o.done = IF o.open THEN 0 ELSE o.qty
      BY DEF Accepted
    <2>2. Booked(session', orders')
      BY DEF PathInv, Booked
    <2> QED
      BY <2>1, <2>2, OrdersAreBooked DEF Symbols
  <1>2. /\ Of(ot, s) = IF ot[n].sym = s THEN Of(os, s) \cup {n} ELSE Of(os, s)
        /\ n \notin Of(os, s)
        /\ ot[n].sym # s => after = before
        /\ ot[n].sym = s => after = before + Signed(ot[n].side, ot[n].done)
    <2> HIDE DEF os, ot, ss, n
    <2>1. /\ Of(ot, s) = IF ot[n].sym = s THEN Of(os, s) \cup {n} ELSE Of(os, s)
          /\ n \notin Of(os, s)
          /\ ot[n].sym # s => HeldOf(ss, ot, s) = HeldOf(ss, os, s)
          /\ ot[n].sym = s => HeldOf(ss, ot, s) = HeldOf(ss, os, s) + Signed(ot[n].side, ot[n].done)
      <3>1. n = Len(os) + 1
        BY DEF n, os
      <3> QED
        BY <1>1, <3>1, HeldGrows
    <2> QED
      BY <2>1 DEF os, ot, ss
  <1>3. before \in Int
    BY <1>1, HeldIsInt
  <1>4. \A k \in Of(os, s) : /\ k \in 1..Len(os) /\ os[k].side \in Sides
                             /\ os[k].done \in Nat /\ os[k].qty \in Nat
    BY <1>1, DoneIs
  <1>5. LateFor(ss, os, stage, queue, s) /\ HeldOf(ss, os, s) = before /\ HeldOf(ss, ot, s) = after
    OBVIOUS
  <1>6. LateFor(session', orders', stage', queue', s) <=> LateFor(ss, ot, stage', queue', s)
    BY <1>1
  <1>7. ot[n].sym = s =>
            /\ SentFor(stage, queue, s) /\ WishOf(Head(queue)) = Wish /\ Head(queue) = Here
            /\ Wish.side \in Sides /\ Wish.qty \in Nat
    <2>1. ASSUME ot[n].sym = s
          PROVE  SentFor(stage, queue, s)
      BY <1>1, <2>1 DEF SentFor, Here
    <2> QED
      BY <2>1, SentIs
  <1>8. ~SentFor(stage', queue', s)
    BY <1>1 DEF SentFor
  <1>9. ot[n] = o
    OBVIOUS
  <1> DEFINE st == stage'
             q == queue'
  <1>10. SUFFICES LateFor(ss, ot, st, q, s)
    BY <1>6
  <1>11. ~SentFor(st, q, s)
    BY <1>8
  <1> HIDE DEF os, ot, ss, n, o, before, after, st, q
  <1>12. SUFFICES
          ASSUME NEW k \in Of(ot, s), ot[k].late, ot[k].open
          PROVE  /\ Signed(ot[k].side, HeldOf(ss, ot, s)) + (ot[k].qty - ot[k].done) <= 0
                 /\ \A j \in Of(ot, s) : ot[j].open /\ ot[j].side = ot[k].side => j = k
    BY <1>11 DEF LateFor
  <1>13. ASSUME k \in Of(os, s)
         PROVE  /\ ot[k] = os[k] /\ os[k].side \in Sides /\ os[k].done \in Nat /\ os[k].qty \in Nat
                /\ Signed(os[k].side, before) + (os[k].qty - os[k].done) <= 0
                /\ \A j \in Of(os, s) : os[j].open /\ os[j].side = os[k].side => j = k
                /\ SentFor(stage, queue, s) => WishOf(Head(queue)).side # os[k].side
    <2>1. ot[k] = os[k] /\ os[k].side \in Sides /\ os[k].done \in Nat /\ os[k].qty \in Nat
      BY <1>1, <1>4, <1>13
    <2>2. os[k].late /\ os[k].open
      BY <1>12, <2>1
    <2>3. /\ Signed(os[k].side, before) + (os[k].qty - os[k].done) <= 0
          /\ \A j \in Of(os, s) : os[j].open /\ os[j].side = os[k].side => j = k
          /\ SentFor(stage, queue, s) => WishOf(Head(queue)).side # os[k].side
      BY <1>5, <1>13, <2>2 DEF LateFor
    <2> QED
      BY <2>1, <2>3
  <1>14. CASE ot[n].sym # s
    <2>1. k \in Of(os, s) /\ Of(ot, s) = Of(os, s) /\ after = before
      BY <1>2, <1>12, <1>14
    <2>2. \A j \in Of(os, s) : ot[j] = os[j]
      BY <1>1, <1>4
    <2> QED
      BY <1>5, <1>13, <2>1, <2>2
  <1>15. CASE ot[n].sym = s /\ k # n
    <2>1. k \in Of(os, s) /\ Of(ot, s) = Of(os, s) \cup {n}
      BY <1>2, <1>12, <1>15
    <2>2. ot[n].side # os[k].side /\ ot[n].side \in Sides
      BY <1>1, <1>7, <1>9, <1>13, <1>15, <2>1
    <2>3. after = before + Signed(ot[n].side, ot[n].done) /\ ot[n].done \in Nat
      BY <1>1, <1>2, <1>7, <1>9, <1>15
    <2>4. Signed(os[k].side, after) <= Signed(os[k].side, before)
          /\ Signed(os[k].side, after) \in Int /\ Signed(os[k].side, before) \in Int
      BY <1>3, <1>13, <2>1, <2>2, <2>3 DEF Signed, Sides
    <2>5. \A j \in Of(ot, s) : ot[j].open /\ ot[j].side = ot[k].side => j = k
      <3>1. \A j \in Of(os, s) : ot[j] = os[j]
        BY <1>1, <1>4
      <3> QED
        BY <1>13, <2>1, <2>2, <3>1
    <2> QED
      BY <1>5, <1>13, <2>1, <2>4, <2>5
  <1>16. CASE ot[n].sym = s /\ k = n
    <2>1. /\ ot[n].late /\ ot[n].open /\ ot[n].done = 0 /\ ot[n].qty = Wish.qty /\ ot[n].side = Wish.side
          /\ Here.late
      BY <1>1, <1>9, <1>12, <1>16
    <2>2. /\ Signed(Wish.side, before) + Wish.qty <= 0
          /\ \A j \in Of(os, s) : os[j].open => os[j].side # Wish.side
      BY <1>5, <1>7, <1>16, <2>1 DEF LateFor
    <2>3. after = before
      <3>1. Signed(ot[n].side, 0) = 0
        BY SignedNothing
      <3>2. after = before + 0
        BY <1>2, <1>16, <2>1, <3>1
      <3> QED
        BY <1>3, <3>2
    <2>4. Signed(Wish.side, after) + (Wish.qty - 0) <= 0
      BY <1>7, <1>16, <2>2, <2>3
    <2>5. \A j \in Of(ot, s) : ot[j].open /\ ot[j].side = ot[k].side => j = k
      <3>1. \A j \in Of(os, s) : ot[j] = os[j]
        BY <1>1, <1>4
      <3>2. Of(ot, s) = Of(os, s) \cup {n}
        BY <1>2, <1>16
      <3> QED
        BY <1>16, <2>1, <2>2, <3>1, <3>2
    <2> QED
      BY <1>5, <1>16, <2>1, <2>4, <2>5
  <1> QED
    BY <1>14, <1>15, <1>16

(* What the tracker holds towards a side is no less than what the venue does,
   as long as every fill of that side is known. *)
LEMMA HeldIsSeen ==
    ASSUME PathInv, NEW s \in Symbols, NEW d \in Sides, ~Outstanding(s, d)
    PROVE  /\ Signed(d, HeldOf(session, orders, s)) <= Signed(d, Seen(s))
           /\ Signed(d, HeldOf(session, orders, s)) \in Int /\ Signed(d, Seen(s)) \in Int
  <1> DEFINE os == orders
             F == DoneOf(orders)
             G == Applied
             S == Of(orders, s)
             A == SumFunctionOnSet(F, S)
             B == SumFunctionOnSet(G, S)
  <1>1. Booked(session, os) /\ s \in DOMAIN session.held /\ session.held[s] \in Int
    BY OrdersAreBooked, SessionIs DEF PathInv, Symbols
  <1>2. IsFiniteSet(S) /\ Ids(s) = S
    BY <1>1, DoneIs, HeldIs
  <1>3. ASSUME NEW id \in S
        PROVE  /\ F[id] \in Int /\ G[id] \in Int
               /\ d = "buy" => F[id] <= G[id]
               /\ d = "sell" => G[id] <= F[id]
    <2>1. /\ F[id] = Signed(os[id].side, os[id].done)
          /\ id \in 1..Len(os) /\ os[id].side \in Sides
          /\ os[id].done \in Nat /\ os[id].applied \in Nat /\ os[id].applied <= os[id].done
      BY <1>1, <1>3, DoneIs
    <2>2. G[id] = Signed(os[id].side, os[id].applied)
      BY <2>1 DEF Applied
    <2>3. os[id].side = d => os[id].applied = os[id].done
      <3>1. os[id].side = d => ~(os[id].applied < os[id].done)
        BY <1>2, <1>3 DEF Outstanding
      <3> QED
        BY <2>1, <3>1
    <2> HIDE DEF F, G
    <2> QED
      BY <2>1, <2>2, <2>3 DEF Signed, Sides
  <1>4. HeldOf(session, orders, s) = session.held[s] + A /\ Seen(s) = session.held[s] + B
    BY <1>2 DEF HeldOf, Seen
  <1> HIDE DEF F, G, S
  <1>5. A \in Int /\ B \in Int
    BY <1>2, <1>3, SumIsInteger
  <1>6. CASE d = "buy"
    <2>1. A <= B
      BY <1>2, <1>3, <1>6, SumOfLess
    <2> HIDE DEF A, B
    <2> QED
      BY <1>1, <1>4, <1>5, <1>6, <2>1 DEF Signed
  <1>7. CASE d = "sell"
    <2>1. B <= A
      BY <1>2, <1>3, <1>7, SumOfLess
    <2> HIDE DEF A, B
    <2> QED
      BY <1>1, <1>4, <1>5, <1>7, <2>1 DEF Signed
  <1> QED
    BY <1>6, <1>7 DEF Sides

LEMMA LateWhenPlaced ==
    ASSUME PathInv, PathInv', tripped \in BOOLEAN, PumpPlace,
           NEW s \in Symbols, s \notin stacked', LateFor(session, orders, stage, queue, s)
    PROVE  LateFor(session', orders', stage', queue', s)
  <1>1. /\ stage = "idle" /\ stage' = "sent" /\ UNCHANGED <<session, orders>>
        /\ queue # <<>> /\ Here.orders # {} /\ Cleared
        /\ Head(queue').sym = Here.sym /\ Head(queue').orders = Here.orders
        /\ Head(queue').late = tripped
    BY PumpPlacePath
  <1>2. Here.sym \in Symbols /\ Wish.side \in Sides /\ Wish.qty \in Nat \ {0}
    BY <1>1, WishIs
  <1>3. WishOf(Head(queue')) = Wish
    BY <1>1 DEF WishOf, Wish
  <1>4. (tripped \/ LateOpen(Here.sym)) /\ Outstanding(Here.sym, Wish.side) => s # Here.sym
    <2>1. stacked' = IF (tripped \/ LateOpen(Here.sym)) /\ Outstanding(Here.sym, Wish.side)
                     THEN stacked \cup {Here.sym} ELSE stacked
      BY DEF PumpPlace
    <2> QED
      BY <2>1
  <1>5. Ids(s) = Of(orders, s)
    BY HeldIs
  <1> DEFINE h == HeldOf(session, orders, s)
  <1>6. ASSUME NEW id \in Of(orders, s), orders[id].late, orders[id].open
        PROVE  /\ Signed(orders[id].side, h) + (orders[id].qty - orders[id].done) <= 0
               /\ \A j \in Of(orders, s) : orders[j].open /\ orders[j].side = orders[id].side => j = id
               /\ s = Here.sym => Wish.side # orders[id].side
    <2>1. /\ Signed(orders[id].side, h) + (orders[id].qty - orders[id].done) <= 0
          /\ \A j \in Of(orders, s) : orders[j].open /\ orders[j].side = orders[id].side => j = id
      BY <1>6 DEF LateFor
    <2>2. ASSUME s = Here.sym, Wish.side = orders[id].side
          PROVE  FALSE
      <3>1. LateOpen(Here.sym) /\ Outstanding(Here.sym, Wish.side)
        BY <1>5, <1>6, <2>2 DEF LateOpen, Outstanding
      <3> QED
        BY <1>4, <2>2, <3>1
    <2> QED
      BY <2>1, <2>2
  <1>7. ASSUME s = Here.sym, tripped
        PROVE  /\ Signed(Wish.side, h) + Wish.qty <= 0
               /\ \A j \in Of(orders, s) : orders[j].open => orders[j].side # Wish.side
    <2>1. ~Outstanding(s, Wish.side)
      BY <1>4, <1>7
    <2>2. Seen(s) \in Int /\ ReducesExposure(Wish, Seen(s))
      BY <1>1, <1>7, SeenIs DEF Cleared, GateClears
    <2>3. Signed(Wish.side, Seen(s)) + Wish.qty <= 0
      BY <1>2, <2>2, ReducesIs
    <2>4. Signed(Wish.side, h) <= Signed(Wish.side, Seen(s))
          /\ Signed(Wish.side, h) \in Int /\ Signed(Wish.side, Seen(s)) \in Int
      BY <1>2, <2>1, HeldIsSeen
    <2>5. \A j \in Of(orders, s) : orders[j].open => orders[j].side # Wish.side
      BY <1>5, <2>1 DEF Outstanding
    <2> HIDE DEF h
    <2> QED
      BY <1>2, <2>3, <2>4, <2>5
  <1> DEFINE q == queue'
             st == stage'
  <1>8. /\ Head(q).sym = Here.sym /\ Head(q).late = tripped /\ WishOf(Head(q)) = Wish
    BY <1>1, <1>3
  <1>9. LateFor(session', orders', stage', queue', s) <=> LateFor(session, orders, st, q, s)
    BY <1>1
  <1> HIDE DEF q, st
  <1>10. LateFor(session, orders, st, q, s)
    <2>1. SentFor(st, q, s) => s = Here.sym
      BY <1>8 DEF SentFor
    <2> QED
      BY <1>6, <1>7, <1>8, <2>1 DEF LateFor
  <1> QED
    BY <1>9, <1>10

LEMMA LateNext ==
    ASSUME PathInv, PathInv', tripped \in BOOLEAN, PathStep, LateInv
    PROVE  LateInv'
  <1>1. session' = session /\ stacked \subseteq stacked'
    <2>1. PumpPlace => session' = session /\ stacked' \in {stacked, stacked \cup {Here.sym}}
      BY DEF PumpPlace
    <2> QED
      BY <2>1 DEF PathStep, Quiet, Traded, Accepted
  <1>2. SUFFICES ASSUME NEW s \in Symbols, s \notin stacked'
                 PROVE  LateFor(session', orders', stage', queue', s)
    <2>1. Symbols' = Symbols
      BY <1>1 DEF Symbols
    <2> QED
      BY <2>1 DEF LateInv
  <1>3. LateFor(session, orders, stage, queue, s)
    BY <1>1, <1>2 DEF LateInv
  <1>4. CASE Quiet
    BY <1>3, <1>4, LateWhenQuiet
  <1>5. ASSUME NEW id \in 1..Len(orders), Traded(id)
        PROVE  LateFor(session', orders', stage', queue', s)
    BY <1>3, <1>5, LateWhenTraded
  <1>6. CASE Accepted
    BY <1>3, <1>6, LateWhenAccepted
  <1>7. CASE PumpPlace
    BY <1>2, <1>3, <1>7, LateWhenPlaced
  <1> QED
    BY <1>4, <1>5, <1>6, <1>7 DEF PathStep

(* A lot off a position that is more than a lot. *)
LEMMA LotOff ==
    ASSUME NEW d \in Sides, NEW h \in Int, NEW lot \in Nat \ {0}, Signed(d, h) + lot <= 0
    PROVE  LET after == h + Signed(d, lot)
           IN  h * after >= 0 /\ Abs(after) < Abs(h)
  <1> DEFINE after == h + Signed(d, lot)
  <1>1. CASE d = "buy"
    <2>1. after = h + lot /\ h + lot <= 0 /\ h < 0
      BY <1>1 DEF Signed
    <2> HIDE DEF after
    <2>2. after \in Int /\ after <= 0 /\ h < after
      BY <2>1
    <2>3. h * after >= 0
      BY <2>1, <2>2
    <2> QED
      BY <2>1, <2>2, <2>3 DEF Abs, after
  <1>2. CASE d = "sell"
    <2>1. after = h - lot /\ h - lot >= 0 /\ h > 0
      BY <1>2 DEF Signed
    <2> HIDE DEF after
    <2>2. after \in Int /\ after >= 0 /\ after < h
      BY <2>1
    <2>3. h * after >= 0
      BY <2>1, <2>2
    <2> QED
      BY <2>1, <2>2, <2>3 DEF Abs, after
  <1> QED
    BY <1>1, <1>2 DEF Sides

LEMMA TradesShrink ==
    ASSUME PathInv, PathInv', LateInv, PathStep, NEW s \in Symbols \ stacked, NEW id \in Ids(s),
           orders[id].late, orders'[id].done > orders[id].done
    PROVE  Held(s) * Held(s)' >= 0 /\ Abs(Held(s)') < Abs(Held(s))
  <1>1. Booked(session, orders) /\ s \in DOMAIN session.held /\ id \in Of(orders, s)
    BY OrdersAreBooked, HeldIs DEF Symbols
  <1>2. /\ id \in 1..Len(orders) /\ orders[id].sym = s /\ orders[id].side \in Sides
        /\ orders[id].done \in Nat /\ orders[id].qty \in Nat
    BY <1>1, DoneIs
  <1>3. PICK k \in 1..Len(orders) : Traded(k)
    <2>1. CASE Quiet
      <3>1. Keeps(orders[id], orders'[id])
        BY <1>2, <2>1 DEF Quiet
      <3> QED
        BY <1>2, <3>1 DEF Keeps
    <2>2. CASE Accepted
      BY <1>2, <2>2 DEF Accepted
    <2>3. CASE PumpPlace
      BY <1>2, <2>3 DEF PumpPlace
    <2> QED
      BY <2>1, <2>2, <2>3 DEF PathStep
  <1>4. k = id
    <2>1. k # id => orders'[id] = orders[id]
      BY <1>2, <1>3 DEF Traded
    <2> QED
      BY <1>2, <2>1
  <1> DEFINE lot == session.planner.lot
             h == HeldOf(session, orders, s)
  <1>5. /\ orders[id].open /\ OneLotMore(orders[id], orders'[id], lot)
    BY <1>3, <1>4 DEF Traded
  <1>6. lot \in Nat \ {0} /\ h \in Int
    BY <1>1, SessionIs, HeldIsInt DEF PathInv
  <1>7. orders[id].done + lot <= orders[id].qty
    BY <1>5 DEF OneLotMore
  <1>8. LateFor(session, orders, stage, queue, s)
    BY DEF LateInv
  <1>9. Signed(orders[id].side, h) + (orders[id].qty - orders[id].done) <= 0
    BY <1>1, <1>5, <1>8 DEF LateFor
  <1>10. HeldOf(session', orders', s) = h + Signed(orders[id].side, lot)
    BY <1>2, <1>3, <1>4, <1>8, LateWhenTraded
  <1>11. Held(s) = h /\ Held(s)' = h + Signed(orders[id].side, lot)
    BY <1>10, HeldIs
  <1> DEFINE d == orders[id].side
  <1> HIDE DEF h, lot, d
  <1>12. Signed(d, h) + lot <= 0
    <2>1. Signed(d, h) \in Int /\ d \in Sides
      BY <1>2, <1>6 DEF Signed, d
    <2> QED
      BY <1>2, <1>6, <1>7, <1>9, <2>1 DEF d
  <1>13. h * (h + Signed(d, lot)) >= 0 /\ Abs(h + Signed(d, lot)) < Abs(h)
    <2>1. d \in Sides
      BY <1>2 DEF d
    <2> QED
      BY <1>6, <1>12, <2>1, LotOff
  <1> QED
    BY <1>11, <1>13 DEF d

(* guard.rs, loss.rs: once the switch is thrown, across restarts and whatever
   is at work, no fill of an order sent since opens a position, adds to one or
   goes through zero, unless orders were stacked up (TrippedOnlyShrinks).  For
   any number of symbols, of orders and of lots. *)
THEOREM ATrippedSessionOnlyShrinks == Spec => TrippedOnlyShrinks
  <1> DEFINE Shrinks ==
                \A s \in Symbols \ stacked :
                    \A id \in Ids(s) :
                        (orders[id].late /\ orders'[id].done > orders[id].done) =>
                            Held(s) * Held(s)' >= 0 /\ Abs(Held(s)') < Abs(Held(s))
             IInv == OrderPathInv /\ LateInv
  <1>1. Init => IInv
    BY OrderPathInit, LateInit
  <1>2. ASSUME IInv, [Next]_vars
        PROVE  IInv' /\ Shrinks
    <2>1. PathInv /\ tripped \in BOOLEAN
      BY <1>2 DEF OrderPathInv, LossInv, MoneyTypes
    <2>2. PathInv' /\ PathStep
      BY <1>2, <2>1, PathNext
    <2>3. OrderPathInv' /\ LateInv'
      BY <1>2, <2>1, <2>2, OrderPathNext, LateNext
    <2> QED
      BY <1>2, <2>1, <2>2, <2>3, TradesShrink
  <1>3. IInv /\ [Next]_vars => IInv' /\ [Shrinks]_vars
    BY <1>2
  <1>4. Spec => [][Shrinks]_vars
    <2> HIDE DEF IInv, Shrinks
    <2> QED
      BY <1>1, <1>3, PTL DEF Spec
  <1> QED
    BY <1>4 DEF TrippedOnlyShrinks
=============================================================================
