--------------------------- MODULE ReconcileProofs ---------------------------
(***************************************************************************)
(* Proofs about Reconcile, for any orders, sizes and dedup window, and any *)
(* number of drops and events: every execution counts once in the          *)
(* position, no order is believed more filled than it is, an order at rest *)
(* is on the book, and without a drop the book ends up the venue's.        *)
(***************************************************************************)
EXTENDS Reconcile, Functions, FiniteSetTheorems, WellFoundedInduction, SequenceTheorems, TLAPS

-----------------------------------------------------------------------------
(* Sums over finite sets: the fold that adds a function's values up depends  *)
(* on no order, and changes by what one element adds.  Induction is by the   *)
(* smallest counterexample.                                                  *)

LEMMA LeastNumber ==
    ASSUME NEW T \in SUBSET Nat, T # {}
    PROVE  \E m \in T : \A n \in T : m <= n
  <1> DEFINE R == {ss \in Nat \X Nat : ss[1] < ss[2]}
  <1>1. IsWellFoundedOn(R, Nat)
    BY NatLessThanWellFounded DEF OpToRel
  <1>2. PICK m \in T : \A n \in T : <<n, m>> \notin R
    <2> HIDE DEF R
    <2> QED
      BY <1>1, WFMin
  <1>3. ASSUME NEW n \in T
        PROVE  m <= n
    <2>1. <<n, m>> \in Nat \X Nat /\ <<n, m>>[1] = n /\ <<n, m>>[2] = m
      OBVIOUS
    <2>2. ~(n < m)
      BY <1>2, <2>1
    <2> QED
      BY <2>2
  <1> QED
    BY <1>3

LEMMA LeastSubset ==
    ASSUME NEW S, IsFiniteSet(S), NEW family \in SUBSET SUBSET S, family # {}
    PROVE  \E T \in family : \A U \in family : U \subseteq T => U = T
  <1> DEFINE R == StrictSubsetOrdering(S)
  <1>1. IsWellFoundedOn(R, FiniteSubsetsOf(S)) /\ FiniteSubsetsOf(S) = SUBSET S
    BY FS_StrictSubsetOrderingWellFounded, FS_FiniteSubsetsOfFinite
  <1>2. PICK T \in family : \A U \in family : <<U, T>> \notin R
    <2> HIDE DEF R
    <2> QED
      BY <1>1, WFMin
  <1>3. ASSUME NEW U \in family, U \subseteq T
        PROVE  U = T
    <2>1. <<U, T>> \in (SUBSET S) \X (SUBSET S) /\ <<U, T>>[1] = U /\ <<U, T>>[2] = T
      OBVIOUS
    <2>2. ~(U # T)
      BY <1>2, <1>3, <2>1 DEF StrictSubsetOrdering
    <2> QED
      BY <2>2
  <1> QED
    BY <1>3

Pick(s) == CHOOSE x \in s : TRUE

LEMMA PickIn ==
    ASSUME NEW s, s # {}
    PROVE  Pick(s) \in s
  BY DEF Pick

AddsUp(f, F, D) == f = [s \in D |-> IF s = {} THEN 0 ELSE F[Pick(s)] + f[s \ {Pick(s)}]]

LEMMA SumUnfolds ==
    ASSUME NEW F, NEW S
    PROVE  SumFunctionOnSet(F, S) = (CHOOSE f : AddsUp(f, F, SUBSET S))[S]
  BY DEF SumFunctionOnSet, FoldFunctionOnSet, MapThenFoldSet, AddsUp, Pick

LEMMA SomeFunctionAddsUp ==
    ASSUME NEW F, NEW S, IsFiniteSet(S)
    PROVE  \E f : AddsUp(f, F, SUBSET S)
  <1> DEFINE D(n) == {T \in SUBSET S : Cardinality(T) <= n}
             bad == {n \in Nat : ~\E f : AddsUp(f, F, D(n))}
  <1>1. ASSUME NEW T \in SUBSET S
        PROVE  IsFiniteSet(T) /\ Cardinality(T) \in Nat /\ Cardinality(T) <= Cardinality(S)
               /\ (Cardinality(T) = 0 <=> T = {})
    BY FS_Subset, FS_CardinalityType, FS_EmptySet
  <1>2. SUFFICES bad = {}
    <2>1. D(Cardinality(S)) = SUBSET S /\ Cardinality(S) \in Nat
      BY <1>1, FS_CardinalityType
    <2> QED
      BY <1>2, <2>1
  <1>3. SUFFICES ASSUME bad # {}
                 PROVE  FALSE
    OBVIOUS
  <1>4. PICK n \in bad : \A k \in bad : n <= k
    BY <1>3, LeastNumber
  <1>5. CASE n = 0
    <2>1. \A T \in D(0) : T = {}
      BY <1>1
    <2> DEFINE f == [s \in D(0) |-> 0]
    <2>2. f = [s \in D(0) |-> IF s = {} THEN 0 ELSE F[Pick(s)] + f[s \ {Pick(s)}]]
      BY <2>1
    <2>3. AddsUp(f, F, D(0))
      BY <2>2 DEF AddsUp
    <2> QED
      BY <1>4, <1>5, <2>3
  <1>6. CASE n # 0
    <2>1. n - 1 \in Nat /\ n - 1 \notin bad
      <3>1. n \in Nat /\ n - 1 \in Nat /\ ~(n <= n - 1)
        BY <1>4, <1>6
      <3> HIDE DEF bad
      <3> QED
        BY <1>4, <3>1
    <2>2. PICK f : AddsUp(f, F, D(n - 1))
      BY <2>1
    <2> DEFINE g == [s \in D(n) |-> IF s = {} THEN 0 ELSE F[Pick(s)] + f[s \ {Pick(s)}]]
    <2>3. ASSUME NEW T \in D(n), T # {}
          PROVE  g[T \ {Pick(T)}] = f[T \ {Pick(T)}]
      <3>1. Pick(T) \in T
        BY <2>3, PickIn
      <3>2. T \ {Pick(T)} \in SUBSET S /\ Cardinality(T \ {Pick(T)}) = Cardinality(T) - 1
        BY <1>1, <3>1, FS_RemoveElement
      <3>3. T \ {Pick(T)} \in D(n - 1) /\ T \ {Pick(T)} \in D(n)
        BY <1>1, <3>2
      <3> DEFINE U == T \ {Pick(T)}
      <3>4. f[U] = IF U = {} THEN 0 ELSE F[Pick(U)] + f[U \ {Pick(U)}]
        <4> HIDE DEF D
        <4> HIDE DEF U
        <4>1. f = [s \in D(n - 1) |-> IF s = {} THEN 0 ELSE F[Pick(s)] + f[s \ {Pick(s)}]]
          BY <2>2 DEF AddsUp
        <4>2. U \in D(n - 1)
          BY <3>3 DEF U
        <4> QED
          BY <4>1, <4>2
      <3>5. g[U] = IF U = {} THEN 0 ELSE F[Pick(U)] + f[U \ {Pick(U)}]
        BY <3>3
      <3> QED
        BY <3>4, <3>5
    <2>4. AddsUp(g, F, D(n))
      <3> HIDE DEF D
      <3>1. g = [s \in D(n) |-> IF s = {} THEN 0 ELSE F[Pick(s)] + g[s \ {Pick(s)}]]
        BY <2>3
      <3> QED
        BY <3>1 DEF AddsUp
    <2> QED
      BY <1>4, <2>4
  <1> QED
    BY <1>5, <1>6

LEMMA SumIs ==
    ASSUME NEW F, NEW S, IsFiniteSet(S)
    PROVE  \E f : AddsUp(f, F, SUBSET S) /\ SumFunctionOnSet(F, S) = f[S]
  BY SumUnfolds, SomeFunctionAddsUp

LEMMA AddsUpAt ==
    ASSUME NEW F, NEW S, NEW f, AddsUp(f, F, SUBSET S), NEW T \in SUBSET S
    PROVE  f[T] = IF T = {} THEN 0 ELSE F[Pick(T)] + f[T \ {Pick(T)}]
  <1>1. f = [s \in SUBSET S |-> IF s = {} THEN 0 ELSE F[Pick(s)] + f[s \ {Pick(s)}]]
    BY DEF AddsUp
  <1> QED
    BY <1>1

(* Two that add up agree wherever both do. *)
LEMMA SumsAgree ==
    ASSUME NEW F, NEW S, NEW T, NEW f, NEW g, IsFiniteSet(S), T \subseteq S,
           AddsUp(f, F, SUBSET S), AddsUp(g, F, SUBSET T)
    PROVE  f[T] = g[T]
  <1> DEFINE bad == {U \in SUBSET T : f[U] # g[U]}
  <1>1. SUFFICES ASSUME bad # {}
                 PROVE  FALSE
    OBVIOUS
  <1>2. IsFiniteSet(T) /\ bad \in SUBSET SUBSET T
    BY FS_Subset
  <1>3. PICK U \in bad : \A V \in bad : V \subseteq U => V = U
    <2> HIDE DEF bad
    <2> QED
      BY <1>1, <1>2, LeastSubset
  <1>4. /\ f[U] = IF U = {} THEN 0 ELSE F[Pick(U)] + f[U \ {Pick(U)}]
        /\ g[U] = IF U = {} THEN 0 ELSE F[Pick(U)] + g[U \ {Pick(U)}]
    <2>1. U \in SUBSET S /\ U \in SUBSET T
      BY <1>2
    <2> HIDE DEF bad
    <2>2. f[U] = IF U = {} THEN 0 ELSE F[Pick(U)] + f[U \ {Pick(U)}]
      BY <2>1, AddsUpAt
    <2>3. g[U] = IF U = {} THEN 0 ELSE F[Pick(U)] + g[U \ {Pick(U)}]
      BY <2>1, AddsUpAt
    <2> QED
      BY <2>2, <2>3
  <1>5. U # {} /\ Pick(U) \in U
    BY <1>3, <1>4, PickIn
  <1>6. U \ {Pick(U)} \notin bad
    BY <1>3, <1>5
  <1>7. f[U \ {Pick(U)}] = g[U \ {Pick(U)}]
    BY <1>2, <1>6
  <1> QED
    BY <1>3, <1>4, <1>5, <1>7

LEMMA SumOfNone ==
    ASSUME NEW F
    PROVE  SumFunctionOnSet(F, {}) = 0
  <1>1. IsFiniteSet({})
    BY FS_EmptySet
  <1>2. PICK f : AddsUp(f, F, SUBSET {}) /\ SumFunctionOnSet(F, {}) = f[{}]
    BY <1>1, SumIs
  <1> QED
    BY <1>2, AddsUpAt

LEMMA SumOfSome ==
    ASSUME NEW F, NEW S, IsFiniteSet(S), S # {}
    PROVE  SumFunctionOnSet(F, S) = F[Pick(S)] + SumFunctionOnSet(F, S \ {Pick(S)})
  <1> DEFINE T == S \ {Pick(S)}
  <1>1. T \in SUBSET S /\ IsFiniteSet(T)
    BY FS_Subset
  <1>2. PICK f : AddsUp(f, F, SUBSET S) /\ SumFunctionOnSet(F, S) = f[S]
    BY SumIs
  <1>3. PICK g : AddsUp(g, F, SUBSET T) /\ SumFunctionOnSet(F, T) = g[T]
    BY <1>1, SumIs
  <1>4. f[T] = g[T]
    <2>1. ASSUME NEW U \in SUBSET S, AddsUp(g, F, SUBSET U)
          PROVE  f[U] = g[U]
      <3>1. AddsUp(f, F, SUBSET S)
        BY <1>2
      <3> QED
        BY <2>1, <3>1, SumsAgree
    <2> QED
      BY <1>1, <1>3, <2>1
  <1>5. f[S] = F[Pick(S)] + f[T]
    BY <1>2, AddsUpAt
  <1> QED
    BY <1>2, <1>3, <1>4, <1>5

LEMMA SumIsInteger ==
    ASSUME NEW F, NEW S, IsFiniteSet(S), \A x \in S : F[x] \in Int
    PROVE  SumFunctionOnSet(F, S) \in Int
  <1> DEFINE bad == {U \in SUBSET S : SumFunctionOnSet(F, U) \notin Int}
  <1>1. SUFFICES ASSUME bad # {}
                 PROVE  FALSE
    OBVIOUS
  <1>2. PICK U \in bad : \A V \in bad : V \subseteq U => V = U
    <2>1. bad \in SUBSET SUBSET S
      OBVIOUS
    <2> HIDE DEF bad
    <2> QED
      BY <1>1, <2>1, LeastSubset
  <1>3. U \in SUBSET S /\ IsFiniteSet(U)
    BY FS_Subset
  <1>4. U # {}
    <2>1. ASSUME U = {}
          PROVE  SumFunctionOnSet(F, U) = 0
      BY <2>1, SumOfNone
    <2> QED
      BY <1>2, <2>1
  <1>5. Pick(U) \in U
    BY <1>4, PickIn
  <1>6. SumFunctionOnSet(F, U) = F[Pick(U)] + SumFunctionOnSet(F, U \ {Pick(U)})
    <2> HIDE DEF bad
    <2> QED
      BY <1>3, <1>4, SumOfSome
  <1>7. SumFunctionOnSet(F, U \ {Pick(U)}) \in Int
    BY <1>2, <1>3, <1>5
  <1>8. F[Pick(U)] \in Int
    BY <1>3, <1>5
  <1> QED
    BY <1>2, <1>6, <1>7, <1>8

(* Any element may be counted first. *)
LEMMA SumTakesOut ==
    ASSUME NEW F, NEW S, IsFiniteSet(S), \A x \in S : F[x] \in Int, NEW e \in S
    PROVE  SumFunctionOnSet(F, S) = F[e] + SumFunctionOnSet(F, S \ {e})
  <1> DEFINE Sum(U) == SumFunctionOnSet(F, U)
             bad == {U \in SUBSET S : \E x \in U : Sum(U) # F[x] + Sum(U \ {x})}
  <1>1. SUFFICES ASSUME bad # {}
                 PROVE  FALSE
    OBVIOUS
  <1>2. PICK U \in bad : \A V \in bad : V \subseteq U => V = U
    <2>1. bad \in SUBSET SUBSET S
      OBVIOUS
    <2> HIDE DEF bad
    <2> QED
      BY <1>1, <2>1, LeastSubset
  <1>3. PICK x \in U : Sum(U) # F[x] + Sum(U \ {x})
    BY <1>2
  <1>4. U \in SUBSET S /\ IsFiniteSet(U) /\ U # {}
    BY <1>3, FS_Subset
  <1> DEFINE c == Pick(U)
  <1>5. c \in U
    BY <1>4, PickIn
  <1>6. Sum(U) = F[c] + Sum(U \ {c})
    <2> HIDE DEF bad
    <2> QED
      BY <1>4, SumOfSome
  <1>7. c # x
    BY <1>3, <1>6
  <1> HIDE DEF c
  <1>8. U \ {c} \notin bad /\ U \ {x} \notin bad
    BY <1>2, <1>3, <1>5
  <1>9. Sum(U \ {c}) = F[x] + Sum((U \ {c}) \ {x}) /\ Sum(U \ {x}) = F[c] + Sum((U \ {x}) \ {c})
    BY <1>3, <1>4, <1>5, <1>7, <1>8
  <1>10. (U \ {c}) \ {x} = (U \ {x}) \ {c}
    OBVIOUS
  <1>11. Sum((U \ {c}) \ {x}) \in Int
    <2>1. IsFiniteSet((U \ {c}) \ {x}) /\ \A y \in (U \ {c}) \ {x} : F[y] \in Int
      BY <1>4, FS_RemoveElement
    <2> QED
      BY <2>1, SumIsInteger
  <1>12. F[c] \in Int /\ F[x] \in Int
    BY <1>3, <1>4, <1>5
  <1> HIDE DEF Sum
  <1> QED
    BY <1>3, <1>6, <1>9, <1>10, <1>11, <1>12

LEMMA SumPutsIn ==
    ASSUME NEW F, NEW S, IsFiniteSet(S), NEW e, e \notin S, \A x \in S \cup {e} : F[x] \in Int
    PROVE  SumFunctionOnSet(F, S \cup {e}) = SumFunctionOnSet(F, S) + F[e]
  <1>1. IsFiniteSet(S \cup {e}) /\ (S \cup {e}) \ {e} = S /\ e \in S \cup {e}
    BY FS_AddElement
  <1>2. SumFunctionOnSet(F, S \cup {e}) = F[e] + SumFunctionOnSet(F, (S \cup {e}) \ {e})
    <2> DEFINE T == S \cup {e}
    <2> HIDE DEF T
    <2>1. IsFiniteSet(T) /\ e \in T /\ \A x \in T : F[x] \in Int
      BY <1>1 DEF T
    <2>2. SumFunctionOnSet(F, T) = F[e] + SumFunctionOnSet(F, T \ {e})
      BY <2>1, SumTakesOut
    <2> QED
      BY <2>2 DEF T
  <1>3. SumFunctionOnSet(F, S) \in Int /\ F[e] \in Int
    BY SumIsInteger
  <1>4. SumFunctionOnSet(F, (S \cup {e}) \ {e}) = SumFunctionOnSet(F, S)
    BY <1>1
  <1> QED
    BY <1>2, <1>3, <1>4

(* Sums of what is nowhere less. *)
LEMMA SumOfLess ==
    ASSUME NEW F, NEW G, NEW S, IsFiniteSet(S),
           \A x \in S : F[x] \in Int /\ G[x] \in Int /\ F[x] <= G[x]
    PROVE  SumFunctionOnSet(F, S) <= SumFunctionOnSet(G, S)
  <1> DEFINE bad == {U \in SUBSET S : ~(SumFunctionOnSet(F, U) <= SumFunctionOnSet(G, U))}
  <1>1. SUFFICES ASSUME bad # {}
                 PROVE  FALSE
    OBVIOUS
  <1>2. PICK U \in bad : \A V \in bad : V \subseteq U => V = U
    <2>1. bad \in SUBSET SUBSET S
      OBVIOUS
    <2> HIDE DEF bad
    <2> QED
      BY <1>1, <2>1, LeastSubset
  <1>3. U \in SUBSET S /\ IsFiniteSet(U)
    BY FS_Subset
  <1>4. U # {}
    <2>1. ASSUME U = {}
          PROVE  SumFunctionOnSet(F, U) = 0 /\ SumFunctionOnSet(G, U) = 0
      <3>1. SumFunctionOnSet(F, {}) = 0
        BY SumOfNone
      <3>2. SumFunctionOnSet(G, {}) = 0
        BY SumOfNone
      <3> QED
        BY <2>1, <3>1, <3>2
    <2> QED
      BY <1>2, <2>1
  <1>5. PICK e : e \in U
    BY <1>4
  <1>6. /\ SumFunctionOnSet(F, U) = F[e] + SumFunctionOnSet(F, U \ {e})
        /\ SumFunctionOnSet(G, U) = G[e] + SumFunctionOnSet(G, U \ {e})
    <2>1. \A x \in U : F[x] \in Int /\ G[x] \in Int
      BY <1>3
    <2> HIDE DEF bad
    <2>2. SumFunctionOnSet(F, U) = F[e] + SumFunctionOnSet(F, U \ {e})
      BY <1>3, <1>5, <2>1, SumTakesOut
    <2>3. SumFunctionOnSet(G, U) = G[e] + SumFunctionOnSet(G, U \ {e})
      BY <1>3, <1>5, <2>1, SumTakesOut
    <2> QED
      BY <2>2, <2>3
  <1>7. SumFunctionOnSet(F, U \ {e}) <= SumFunctionOnSet(G, U \ {e})
    BY <1>2, <1>3, <1>5
  <1>8. SumFunctionOnSet(F, U \ {e}) \in Int /\ SumFunctionOnSet(G, U \ {e}) \in Int
    <2>1. IsFiniteSet(U \ {e}) /\ \A x \in U \ {e} : F[x] \in Int /\ G[x] \in Int
      BY <1>3, FS_RemoveElement
    <2> QED
      BY <2>1, SumIsInteger
  <1>9. F[e] \in Int /\ G[e] \in Int /\ F[e] <= G[e]
    BY <1>3, <1>5
  <1>10. SumFunctionOnSet(F, U) <= SumFunctionOnSet(G, U)
    <2> HIDE DEF bad
    <2> QED
      BY <1>6, <1>7, <1>8, <1>9
  <1> QED
    BY <1>2, <1>10

LEMMA SumOfSame ==
    ASSUME NEW F, NEW G, NEW S, IsFiniteSet(S),
           \A x \in S : F[x] \in Int /\ F[x] = G[x]
    PROVE  SumFunctionOnSet(F, S) = SumFunctionOnSet(G, S)
  <1>1. SumFunctionOnSet(F, S) <= SumFunctionOnSet(G, S) /\ SumFunctionOnSet(G, S) <= SumFunctionOnSet(F, S)
    BY SumOfLess
  <1>2. SumFunctionOnSet(F, S) \in Int /\ SumFunctionOnSet(G, S) \in Int
    BY SumIsInteger
  <1> QED
    BY <1>1, <1>2

(* What adds nothing may be left out. *)
LEMMA SumLeavesOut ==
    ASSUME NEW F, NEW S, IsFiniteSet(S), NEW T \in SUBSET S,
           \A x \in S : F[x] \in Int, \A x \in S \ T : F[x] = 0
    PROVE  SumFunctionOnSet(F, S) = SumFunctionOnSet(F, T)
  <1> DEFINE bad == {U \in SUBSET S : T \subseteq U /\ SumFunctionOnSet(F, U) # SumFunctionOnSet(F, T)}
  <1>1. SUFFICES ASSUME bad # {}
                 PROVE  FALSE
    OBVIOUS
  <1>2. PICK U \in bad : \A V \in bad : V \subseteq U => V = U
    <2>1. bad \in SUBSET SUBSET S
      OBVIOUS
    <2> HIDE DEF bad
    <2> QED
      BY <1>1, <2>1, LeastSubset
  <1>3. U \in SUBSET S /\ T \subseteq U /\ IsFiniteSet(U) /\ SumFunctionOnSet(F, U) # SumFunctionOnSet(F, T)
    BY FS_Subset
  <1>4. PICK e : e \in U \ T
    BY <1>3
  <1>5. U \ {e} \notin bad
    BY <1>2, <1>4
  <1>6. SumFunctionOnSet(F, U \ {e}) = SumFunctionOnSet(F, T)
    BY <1>3, <1>4, <1>5
  <1> HIDE DEF bad
  <1>7. SumFunctionOnSet(F, U) = F[e] + SumFunctionOnSet(F, U \ {e})
    BY <1>3, <1>4, SumTakesOut
  <1>8. F[e] = 0 /\ SumFunctionOnSet(F, U \ {e}) \in Int
    <2>1. IsFiniteSet(U \ {e}) /\ \A x \in U \ {e} : F[x] \in Int
      BY <1>3, FS_RemoveElement
    <2> QED
      BY <1>3, <1>4, <2>1, SumIsInteger
  <1> QED
    BY <1>3, <1>6, <1>7, <1>8

LEMMA SumOfTwo ==
    ASSUME NEW F, NEW S, NEW T, IsFiniteSet(S), IsFiniteSet(T), S \cap T = {},
           \A x \in S \cup T : F[x] \in Int
    PROVE  SumFunctionOnSet(F, S \cup T) = SumFunctionOnSet(F, S) + SumFunctionOnSet(F, T)
  <1> DEFINE Sum(U) == SumFunctionOnSet(F, U)
             bad == {U \in SUBSET T : Sum(S \cup U) # Sum(S) + Sum(U)}
  <1>1. SUFFICES ASSUME bad # {}
                 PROVE  FALSE
    BY DEF bad
  <1>2. PICK U \in bad : \A V \in bad : V \subseteq U => V = U
    <2>1. bad \in SUBSET SUBSET T
      OBVIOUS
    <2> HIDE DEF bad
    <2> QED
      BY <1>1, <2>1, LeastSubset
  <1>3. U \in SUBSET T /\ IsFiniteSet(U) /\ Sum(S \cup U) # Sum(S) + Sum(U)
    BY FS_Subset
  <1>4. Sum(S) \in Int
    BY SumIsInteger
  <1>5. U # {}
    <2>1. ASSUME U = {}
          PROVE  Sum(S \cup U) = Sum(S) + Sum(U)
      <3>1. Sum(U) = 0
        BY <2>1, SumOfNone
      <3>2. S \cup U = S
        BY <2>1
      <3>3. Sum(S \cup U) = Sum(S)
        BY <3>2
      <3> HIDE DEF Sum, bad
      <3> QED
        BY <1>4, <3>1, <3>3
    <2> QED
      BY <1>3, <2>1
  <1>6. PICK e : e \in U
    BY <1>5
  <1>7. U \ {e} \notin bad
    BY <1>2, <1>6
  <1>8. Sum(S \cup (U \ {e})) = Sum(S) + Sum(U \ {e})
    BY <1>3, <1>7
  <1>9. /\ IsFiniteSet(U \ {e}) /\ IsFiniteSet(S \cup (U \ {e}))
        /\ S \cup U = (S \cup (U \ {e})) \cup {e} /\ U = (U \ {e}) \cup {e}
        /\ e \notin S \cup (U \ {e})
    <2>1. IsFiniteSet(U \ {e})
      BY <1>3, <1>6, FS_RemoveElement
    <2>2. IsFiniteSet(S \cup (U \ {e}))
      BY <2>1, FS_Union
    <2>3. S \cup U = (S \cup (U \ {e})) \cup {e} /\ U = (U \ {e}) \cup {e}
      BY <1>6
    <2>4. e \notin S
      BY <1>3, <1>6
    <2> QED
      BY <2>1, <2>2, <2>3, <2>4
  <1>10. Sum((S \cup (U \ {e})) \cup {e}) = Sum(S \cup (U \ {e})) + F[e]
    <2> DEFINE R == S \cup (U \ {e})
    <2>1. IsFiniteSet(R) /\ e \notin R /\ \A x \in R \cup {e} : F[x] \in Int
      BY <1>3, <1>6, <1>9
    <2> HIDE DEF R, bad
    <2>2. SumFunctionOnSet(F, R \cup {e}) = SumFunctionOnSet(F, R) + F[e]
      BY <2>1, SumPutsIn
    <2> QED
      BY <2>2 DEF R
  <1>11. Sum((U \ {e}) \cup {e}) = Sum(U \ {e}) + F[e]
    <2> DEFINE R == U \ {e}
    <2>1. IsFiniteSet(R) /\ e \notin R /\ \A x \in R \cup {e} : F[x] \in Int
      BY <1>3, <1>6, <1>9
    <2> HIDE DEF R, bad
    <2>2. SumFunctionOnSet(F, R \cup {e}) = SumFunctionOnSet(F, R) + F[e]
      BY <2>1, SumPutsIn
    <2> QED
      BY <2>2 DEF R
  <1>12. Sum(U \ {e}) \in Int /\ F[e] \in Int
    <2>1. \A x \in U \ {e} : F[x] \in Int
      BY <1>3
    <2> HIDE DEF bad
    <2> QED
      BY <1>3, <1>6, <1>9, <2>1, SumIsInteger
  <1>13. Sum(S \cup U) = Sum((S \cup (U \ {e})) \cup {e}) /\ Sum(U) = Sum((U \ {e}) \cup {e})
    BY <1>9
  <1> HIDE DEF Sum, bad
  <1> QED
    BY <1>3, <1>4, <1>8, <1>10, <1>11, <1>12, <1>13

LEMMA SumIsNatural ==
    ASSUME NEW F, NEW S, IsFiniteSet(S), \A x \in S : F[x] \in Nat
    PROVE  SumFunctionOnSet(F, S) \in Nat
  <1> DEFINE G == [x \in S |-> 0]
  <1>1. \A x \in S : G[x] \in Int /\ F[x] \in Int /\ G[x] <= F[x]
    OBVIOUS
  <1>2. SumFunctionOnSet(G, S) <= SumFunctionOnSet(F, S)
    <2> HIDE DEF G
    <2> QED
      BY <1>1, SumOfLess
  <1>3. SumFunctionOnSet(G, S) = SumFunctionOnSet(G, {})
    <2>1. {} \in SUBSET S /\ \A x \in S : G[x] \in Int /\ \A y \in S \ {} : G[y] = 0
      OBVIOUS
    <2> HIDE DEF G
    <2> QED
      BY <2>1, SumLeavesOut
  <1>4. SumFunctionOnSet(G, {}) = 0
    BY SumOfNone
  <1>5. SumFunctionOnSet(F, S) \in Int
    BY SumIsInteger
  <1> HIDE DEF G
  <1> QED
    BY <1>2, <1>3, <1>4, <1>5

(* More of what is nowhere negative. *)
LEMMA SumOfMore ==
    ASSUME NEW F, NEW S, NEW T, IsFiniteSet(T), S \subseteq T, \A x \in T : F[x] \in Nat
    PROVE  /\ SumFunctionOnSet(F, S) \in Nat /\ SumFunctionOnSet(F, T) \in Nat
           /\ SumFunctionOnSet(F, S) <= SumFunctionOnSet(F, T)
  <1> DEFINE U == T \ S
  <1>1. IsFiniteSet(S) /\ IsFiniteSet(U) /\ S \cap U = {} /\ S \cup U = T
    <2>1. IsFiniteSet(S) /\ IsFiniteSet(U)
      BY FS_Subset
    <2> QED
      BY <2>1
  <1>2. (\A x \in S : F[x] \in Nat) /\ (\A x \in U : F[x] \in Nat) /\ (\A x \in S \cup U : F[x] \in Int)
    OBVIOUS
  <1> HIDE DEF U
  <1>3. SumFunctionOnSet(F, S) \in Nat /\ SumFunctionOnSet(F, U) \in Nat
    BY <1>1, <1>2, SumIsNatural
  <1>4. SumFunctionOnSet(F, S \cup U) = SumFunctionOnSet(F, S) + SumFunctionOnSet(F, U)
    BY <1>1, <1>2, SumOfTwo
  <1>5. SumFunctionOnSet(F, T) = SumFunctionOnSet(F, S) + SumFunctionOnSet(F, U)
    BY <1>1, <1>4
  <1> QED
    BY <1>3, <1>5

-----------------------------------------------------------------------------
(* Sequences, place by place.                                              *)

LEMMA Appended ==
    ASSUME NEW S, NEW q \in Seq(S), NEW x \in S
    PROVE  /\ Append(q, x) \in Seq(S) /\ Len(Append(q, x)) = Len(q) + 1 /\ Len(q) \in Nat
           /\ \A i \in 1..Len(q) : Append(q, x)[i] = q[i]
           /\ Append(q, x)[Len(q) + 1] = x
  BY AppendProperties, LenProperties

LEMMA AppendedAny ==
    ASSUME NEW S, NEW q \in Seq(S), NEW x
    PROVE  /\ Len(Append(q, x)) = Len(q) + 1
           /\ \A i \in 1..Len(q) : Append(q, x)[i] = q[i]
           /\ Append(q, x)[Len(q) + 1] = x
  <1>1. q \in Seq(S \cup {x})
    BY SeqMonotonic
  <1> QED
    BY <1>1, Appended

LEMMA Shortened ==
    ASSUME NEW S, NEW q \in Seq(S), q # <<>>
    PROVE  /\ Tail(q) \in Seq(S) /\ Len(Tail(q)) = Len(q) - 1
           /\ Len(q) \in Nat /\ Len(q) >= 1
           /\ Head(q) \in S /\ Head(q) = q[1]
           /\ \A i \in 1..Len(Tail(q)) : Tail(q)[i] = q[i + 1]
  <1>1. Len(q) \in Nat /\ Len(q) # 0
    BY EmptySeq, LenProperties
  <1> QED
    BY <1>1, HeadTailProperties, ElementOfSeq

LEMMA CutShort ==
    ASSUME NEW S, NEW q \in Seq(S), NEW m \in Nat, NEW n \in 0..Len(q), m >= 1
    PROVE  /\ SubSeq(q, m, n) \in Seq(S)
           /\ Len(SubSeq(q, m, n)) = IF m <= n THEN n - m + 1 ELSE 0
           /\ \A i \in 1..Len(SubSeq(q, m, n)) : SubSeq(q, m, n)[i] = q[m + i - 1]
  <1>1. \A i \in m..n : q[i] \in S
    BY ElementOfSeq, LenProperties
  <1> QED
    BY <1>1, SubSeqProperties, LenProperties

LEMMA Joined ==
    ASSUME NEW S, NEW q \in Seq(S), NEW r \in Seq(S)
    PROVE  /\ q \o r \in Seq(S) /\ Len(q \o r) = Len(q) + Len(r)
           /\ Len(q) \in Nat /\ Len(r) \in Nat
           /\ \A i \in 1..(Len(q) + Len(r)) :
                 (q \o r)[i] = IF i <= Len(q) THEN q[i] ELSE r[i - Len(q)]
  BY ConcatProperties, LenProperties

-----------------------------------------------------------------------------
(* Types, with what they rest on: a trade is an event, and its frames are   *)
(* copies of it.                                                            *)

FramesInv ==
    /\ Len(trades) <= now
    /\ \A i \in 1..Len(trades) : trades[i].trade = i /\ trades[i].ts <= now
    /\ \A j \in 1..Len(fills) : fills[j].trade \in 1..Len(trades) /\ fills[j] = trades[fills[j].trade]

TypeInv == TypeOK /\ FramesInv

LEMMA TypeInvInit == Init => TypeInv
  <1> SUFFICES ASSUME Init
               PROVE  TypeInv
    OBVIOUS
  <1>1. Len(trades) = 0 /\ Len(fills) = 0
    BY DEF Init, TrackerInit
  <1>2. FramesInv
    BY <1>1 DEF Init, TrackerInit, FramesInv
  <1>3. TypeOK
    BY <1>1, TrackerAssumption DEF Init, TrackerInit, TypeOK, TrackerTypeOK, Times, Tracked, Nobody, Nothing, Unread
  <1> QED
    BY <1>2, <1>3 DEF TypeInv

(* The parts of the types. *)
VenueTypes ==
    /\ venue \in [Orders -> [status: {"new", "live"} \cup Terminal, filled: Nat, placed: Times]]
    /\ \A o \in Orders : venue[o].filled <= IF venue[o].status = "new" THEN 0 ELSE Size[o]
    /\ trades \in Seq(Fills)
    /\ now \in Times

WireTypes ==
    /\ link \in {"up", "down"}
    /\ replies \subseteq Replies
    /\ fills \in Seq(Fills)
    /\ updates \in Seq(Updates)
    /\ drops \in 0..MaxDrops

BookTypes ==
    /\ rows \subseteq Updates
    /\ orders \in [Orders -> Tracked]
    /\ position \in Int
    /\ seen \in Seq(TradeIds) /\ Len(seen) <= MaxSeenTrades
    /\ applied \subseteq 1..Len(trades)
    /\ overtaken \subseteq Orders

PollTypes ==
    /\ poll \in {"sleep", "account", "compare"}
    /\ open \subseteq Updates /\ account \in Int
    /\ report \in [missing : SUBSET Orders, drift : BOOLEAN]

LEMMA TypeParts == TypeOK <=> VenueTypes /\ WireTypes /\ BookTypes /\ PollTypes
  BY DEF TypeOK, TrackerTypeOK, VenueTypes, WireTypes, BookTypes, PollTypes

LEMMA Constants ==
    /\ MaxEvents \in Nat /\ MaxDrops \in Nat /\ MaxSeenTrades \in Nat \ {0}
    /\ ReplayDepth \in Nat /\ ReplayDepth <= MaxSeenTrades
    /\ \A o \in Orders : Size[o] \in Nat \ {0}
    /\ Foreign \subseteq Orders /\ Sells \subseteq Orders
  BY TrackerAssumption

LEMMA ReportIsOne ==
    ASSUME TypeOK, now < MaxEvents, NEW o \in Orders, NEW left \in 0..Size[o],
           NEW status \in {"resting", "filled", "cancelled"}
    PROVE  Report(o, status, left) \in Updates
  BY Constants DEF TypeOK, TrackerTypeOK, Report, Updates, Terminal, Times

LEMMA SaidIs ==
    ASSUME NEW S, NEW channel \in Seq(S), NEW frame \in S
    PROVE  Said(channel, frame) \in Seq(S)
  BY Appended DEF Said

(* What an execution makes of its order. *)
ExecutedOrder(o, qty) ==
    [status |-> IF qty = Left(o) THEN "filled" ELSE "live",
     filled |-> venue[o].filled + qty,
     placed |-> IF venue[o].status = "new" THEN now + 1 ELSE venue[o].placed]

LEMMA VenueAfterExecute ==
    ASSUME TypeInv, NEW o \in Orders, NEW qty \in Nat \ {0}, Execute(o, qty), now + 1 \in Times
    PROVE  /\ venue' \in [Orders -> [status: {"new", "live"} \cup Terminal, filled: Nat, placed: Times]]
           /\ venue'[o] = ExecutedOrder(o, qty)
           /\ \A p \in Orders \ {o} : venue'[p] = venue[p]
  <1> DEFINE V == [status: {"new", "live"} \cup Terminal, filled: Nat, placed: Times]
  <1>1. venue \in [Orders -> V]
    BY DEF TypeInv, TypeOK, TrackerTypeOK
  <1>2. venue[o] \in V /\ ExecutedOrder(o, qty) \in V
    BY <1>1 DEF ExecutedOrder, Terminal
  <1>3. venue' = [venue EXCEPT ![o] = ExecutedOrder(o, qty)]
    BY <1>1, <1>2 DEF Execute, ExecutedOrder
  <1> HIDE DEF V
  <1>4. venue' \in [Orders -> V] /\ venue'[o] = ExecutedOrder(o, qty)
        /\ \A p \in Orders \ {o} : venue'[p] = venue[p]
    BY <1>1, <1>2, <1>3
  <1> QED
    BY <1>4 DEF V

(* What an execution does to types. *)
LEMMA ExecuteTypes ==
    ASSUME TypeInv, now < MaxEvents, NEW o \in Orders, NEW qty \in Nat \ {0}, qty <= Left(o), Execute(o, qty),
           replies' \subseteq Replies, UNCHANGED pollVars
    PROVE  TypeInv'
  <1> DEFINE trade == [trade |-> Len(trades) + 1, order |-> o, qty |-> qty, ts |-> now + 1]
  <1>1. VenueTypes /\ WireTypes /\ BookTypes /\ PollTypes /\ FramesInv
    BY TypeParts DEF TypeInv
  <1>2. Len(trades) \in Nat /\ now \in Nat /\ now + 1 \in Times /\ Size[o] \in Nat
        /\ Left(o) \in 0..Size[o] /\ Left(o) - qty \in 0..Size[o] /\ venue[o].filled \in Nat
    BY <1>1, Constants, LenProperties DEF VenueTypes, Times, Left
  <1>3. trade \in Fills
    BY <1>1, <1>2, Constants DEF Fills, TradeIds, Times, FramesInv
  <1>4. /\ trades' = Append(trades, trade) /\ fills' = Said(fills, trade) /\ now' = now + 1
        /\ UNCHANGED <<link, drops, rows, orders, position, seen, applied, overtaken>>
    BY DEF Execute, trackerVars
  <1> HIDE DEF trade
  <1>5. /\ trades' \in Seq(Fills) /\ Len(trades') = Len(trades) + 1 /\ trades'[Len(trades) + 1] = trade
        /\ \A i \in 1..Len(trades) : trades'[i] = trades[i]
    BY <1>1, <1>3, <1>4, Appended DEF VenueTypes
  <1>6. VenueTypes'
    <2>1. venue' \in [Orders -> [status: {"new", "live"} \cup Terminal, filled: Nat, placed: Times]]
      BY <1>1, <1>2, VenueAfterExecute DEF Terminal
    <2>2. ASSUME NEW p \in Orders
          PROVE  venue'[p].filled <= IF venue'[p].status = "new" THEN 0 ELSE Size[p]
      <3>1. CASE p = o
        <4>1. venue'[o] = ExecutedOrder(o, qty)
          BY <1>2, VenueAfterExecute
        <4> QED
          BY <1>2, <3>1, <4>1 DEF Left, ExecutedOrder
      <3>2. CASE p # o
        <4>1. venue'[p] = venue[p]
          BY <1>2, <3>2, VenueAfterExecute
        <4> QED
          BY <1>1, <4>1 DEF VenueTypes
      <3> QED
        BY <3>1, <3>2
    <2> QED
      BY <1>2, <1>4, <1>5, <2>1, <2>2 DEF VenueTypes
  <1>7. WireTypes'
    <2>1. fills' \in Seq(Fills)
      BY <1>1, <1>3, <1>4, SaidIs DEF WireTypes
    <2>2. updates' \in Seq(Updates)
      <3>1. Report(o, IF qty = Left(o) THEN "filled" ELSE "resting", Left(o) - qty) \in Updates
        BY <1>2, ReportIsOne DEF TypeInv
      <3> QED
        BY <1>1, <3>1, SaidIs DEF Execute, WireTypes
    <2> QED
      BY <1>1, <1>4, <2>1, <2>2 DEF WireTypes
  <1>8. BookTypes' /\ PollTypes'
    BY <1>1, <1>2, <1>4, <1>5 DEF BookTypes, PollTypes, pollVars
  <1>9. FramesInv'
    <2>1. ASSUME NEW i \in 1..Len(trades')
          PROVE  trades'[i].trade = i /\ trades'[i].ts <= now'
      <3>1. CASE i \in 1..Len(trades)
        <4>1. trades'[i] = trades[i] /\ trades[i] \in Fills
          BY <1>1, <1>5, <3>1, ElementOfSeq DEF VenueTypes
        <4>2. trades[i].trade = i /\ trades[i].ts <= now /\ trades[i].ts \in Nat
          BY <1>1, <3>1, <4>1 DEF FramesInv, Fills, Times
        <4> QED
          BY <1>2, <1>4, <4>1, <4>2
      <3>2. CASE i = Len(trades) + 1
        BY <1>2, <1>4, <1>5, <3>2 DEF trade
      <3> QED
        BY <1>2, <1>5, <3>1, <3>2
    <2>2. ASSUME NEW j \in 1..Len(fills')
          PROVE  fills'[j].trade \in 1..Len(trades') /\ fills'[j] = trades'[fills'[j].trade]
      <3>1. CASE j \in 1..Len(fills) /\ fills'[j] = fills[j]
        BY <1>1, <1>2, <1>5, <3>1 DEF FramesInv
      <3>2. CASE fills'[j] = trade
        BY <1>2, <1>5, <3>2 DEF trade
      <3>3. \/ j \in 1..Len(fills) /\ fills'[j] = fills[j]
            \/ fills'[j] = trade
        BY <1>1, <1>3, <1>4, Appended DEF Said, WireTypes
      <3> QED
        BY <3>1, <3>2, <3>3
    <2> QED
      BY <1>1, <1>2, <1>4, <1>5, <2>1, <2>2 DEF FramesInv
  <1> QED
    BY <1>6, <1>7, <1>8, <1>9, TypeParts, PTL DEF TypeInv

LEMMA PlaceRestingTypes ==
    ASSUME TypeInv, now < MaxEvents, NEW o \in Orders, PlaceResting(o), UNCHANGED pollVars
    PROVE  TypeInv'
  <1>1. VenueTypes /\ WireTypes /\ BookTypes /\ PollTypes /\ FramesInv
    BY TypeParts DEF TypeInv
  <1>2. now \in Nat /\ now + 1 \in Times /\ Size[o] \in Nat
    BY <1>1, Constants DEF VenueTypes, Times
  <1>3. now' = now + 1 /\ UNCHANGED <<trades, link, fills, drops, rows, orders, position, seen, applied, overtaken>>
    BY DEF PlaceResting, trackerVars
  <1>4. VenueTypes'
    BY <1>1, <1>2, <1>3 DEF PlaceResting, VenueTypes
  <1>5. WireTypes'
    <2>1. Report(o, "resting", Size[o]) \in Updates
      BY <1>2, ReportIsOne DEF TypeInv
    <2>2. updates' \in Seq(Updates)
      BY <1>1, <2>1, SaidIs DEF PlaceResting, WireTypes
    <2>3. replies' \subseteq Replies
      BY <1>1 DEF PlaceResting, WireTypes, Replies
    <2> QED
      BY <1>1, <1>3, <2>2, <2>3 DEF WireTypes
  <1>6. BookTypes' /\ PollTypes'
    BY <1>1, <1>3 DEF BookTypes, PollTypes, pollVars
  <1>7. FramesInv'
    <2>1. ASSUME NEW i \in 1..Len(trades)
          PROVE  trades[i].ts <= now + 1
      <3>1. trades[i].ts \in Nat /\ trades[i].ts <= now
        BY <1>1, ElementOfSeq DEF VenueTypes, Fills, Times, FramesInv
      <3> QED
        BY <1>2, <3>1
    <2> QED
      BY <1>1, <1>2, <1>3, <2>1, LenProperties DEF FramesInv, VenueTypes
  <1> QED
    BY <1>4, <1>5, <1>6, <1>7, TypeParts, PTL DEF TypeInv

LEMMA CancelTypes ==
    ASSUME TypeInv, now < MaxEvents, NEW o \in Orders, Cancel(o), UNCHANGED pollVars
    PROVE  TypeInv'
  <1>1. VenueTypes /\ WireTypes /\ BookTypes /\ PollTypes /\ FramesInv
    BY TypeParts DEF TypeInv
  <1>2. now \in Nat /\ now + 1 \in Times /\ Size[o] \in Nat /\ Left(o) \in 0..Size[o]
    BY <1>1, Constants DEF VenueTypes, Times, Left
  <1>3. now' = now + 1
        /\ UNCHANGED <<trades, replies, link, fills, drops, rows, orders, position, seen, applied, overtaken>>
    BY DEF Cancel, trackerVars
  <1>4. VenueTypes'
    BY <1>1, <1>2, <1>3 DEF Cancel, VenueTypes, Terminal
  <1>5. WireTypes'
    <2>1. Report(o, "cancelled", Left(o)) \in Updates
      BY <1>2, ReportIsOne DEF TypeInv
    <2>2. updates' \in Seq(Updates)
      BY <1>1, <2>1, SaidIs DEF Cancel, WireTypes
    <2> QED
      BY <1>1, <1>3, <2>2 DEF WireTypes
  <1>6. BookTypes' /\ PollTypes'
    BY <1>1, <1>3 DEF BookTypes, PollTypes, pollVars
  <1>7. FramesInv'
    <2>1. ASSUME NEW i \in 1..Len(trades)
          PROVE  trades[i].ts <= now + 1
      <3>1. trades[i].ts \in Nat /\ trades[i].ts <= now
        BY <1>1, ElementOfSeq DEF VenueTypes, Fills, Times, FramesInv
      <3> QED
        BY <1>2, <3>1
    <2> QED
      BY <1>1, <1>2, <1>3, <2>1, LenProperties DEF FramesInv, VenueTypes
  <1> QED
    BY <1>4, <1>5, <1>6, <1>7, TypeParts, PTL DEF TypeInv

LEMMA DropTypes ==
    ASSUME TypeInv, Drop, UNCHANGED pollVars
    PROVE  TypeInv'
  <1>1. VenueTypes /\ WireTypes /\ BookTypes /\ PollTypes /\ FramesInv
    BY TypeParts DEF TypeInv
  <1>2. PICK f \in 0..Len(fills), u \in 0..Len(updates) :
            fills' = SubSeq(fills, 1, f) /\ updates' = SubSeq(updates, 1, u)
    BY DEF Drop
  <1>3. UNCHANGED <<venue, trades, now, replies, rows, orders, position, seen, applied, overtaken>>
    BY DEF Drop, venueVars, trackerVars
  <1>4. /\ fills' \in Seq(Fills) /\ updates' \in Seq(Updates)
        /\ \A j \in 1..Len(fills') : j \in 1..Len(fills) /\ fills'[j] = fills[j]
    <2>1. fills' \in Seq(Fills) /\ \A j \in 1..Len(fills') : j \in 1..Len(fills) /\ fills'[j] = fills[j]
      BY <1>1, <1>2, CutShort, LenProperties DEF WireTypes
    <2>2. updates' \in Seq(Updates)
      BY <1>1, <1>2, CutShort DEF WireTypes
    <2> QED
      BY <2>1, <2>2
  <1>5. VenueTypes' /\ BookTypes' /\ PollTypes'
    BY <1>1, <1>3 DEF VenueTypes, BookTypes, PollTypes, pollVars
  <1>6. WireTypes'
    BY <1>1, <1>3, <1>4, Constants DEF Drop, WireTypes
  <1>7. FramesInv'
    BY <1>1, <1>3, <1>4 DEF FramesInv
  <1> QED
    BY <1>5, <1>6, <1>7, TypeParts, PTL DEF TypeInv

(* The replay, trade by trade: the last ReplayDepth of them, in order. *)
Oldest == IF Len(trades) > ReplayDepth THEN Len(trades) - ReplayDepth ELSE 0

LEMMA Replayed ==
    ASSUME TypeInv, Resubscribe
    PROVE  /\ Len(trades) \in Nat /\ Len(fills) \in Nat /\ Oldest \in 0..Len(trades)
           /\ fills' \in Seq(Fills) /\ Len(fills') = Len(fills) + (Len(trades) - Oldest)
           /\ \A i \in 1..Len(fills) : fills'[i] = fills[i]
           /\ \A i \in (Len(fills) + 1)..Len(fills') :
                 /\ Oldest + (i - Len(fills)) \in 1..Len(trades)
                 /\ fills'[i] = trades[Oldest + (i - Len(fills))]
  <1> DEFINE replay == SubSeq(trades, Oldest + 1, Len(trades))
  <1>1. /\ trades \in Seq(Fills) /\ fills \in Seq(Fills) /\ Len(trades) \in Nat /\ Len(fills) \in Nat
        /\ Oldest \in 0..Len(trades)
    BY Constants, LenProperties DEF TypeInv, TypeOK, TrackerTypeOK, Oldest
  <1>2. /\ replay \in Seq(Fills) /\ Len(replay) = Len(trades) - Oldest
        /\ \A i \in 1..Len(replay) : replay[i] = trades[Oldest + i]
    BY <1>1, CutShort
  <1>3. fills' = fills \o replay
    BY DEF Resubscribe, Oldest
  <1> HIDE DEF replay
  <1>4. /\ fills' \in Seq(Fills) /\ Len(fills') = Len(fills) + Len(replay)
        /\ \A i \in 1..(Len(fills) + Len(replay)) :
              fills'[i] = IF i <= Len(fills) THEN fills[i] ELSE replay[i - Len(fills)]
    BY <1>1, <1>2, <1>3, Joined
  <1>5. ASSUME NEW i \in (Len(fills) + 1)..Len(fills')
        PROVE  /\ Oldest + (i - Len(fills)) \in 1..Len(trades)
               /\ fills'[i] = trades[Oldest + (i - Len(fills))]
    <2>1. i - Len(fills) \in 1..Len(replay) /\ i \in 1..(Len(fills) + Len(replay)) /\ ~(i <= Len(fills))
      BY <1>1, <1>2, <1>4, <1>5
    <2>2. fills'[i] = replay[i - Len(fills)]
      BY <1>4, <2>1
    <2>3. replay[i - Len(fills)] = trades[Oldest + (i - Len(fills))]
      BY <1>2, <2>1
    <2>4. Oldest + (i - Len(fills)) \in 1..Len(trades)
      <3>1. \A k \in 1..Len(replay) : Oldest + k \in 1..Len(trades)
        BY <1>1, <1>2
      <3> QED
        BY <2>1, <3>1
    <2> QED
      BY <2>2, <2>3, <2>4
  <1>6. ASSUME NEW i \in 1..Len(fills)
        PROVE  fills'[i] = fills[i]
    <2>1. i \in 1..(Len(fills) + Len(replay)) /\ i <= Len(fills)
      BY <1>1, <1>2, <1>6
    <2> QED
      BY <1>4, <2>1
  <1> QED
    BY <1>1, <1>2, <1>4, <1>5, <1>6

LEMMA ResubscribeTypes ==
    ASSUME TypeInv, Resubscribe, UNCHANGED pollVars
    PROVE  TypeInv'
  <1>1. VenueTypes /\ WireTypes /\ BookTypes /\ PollTypes /\ FramesInv
    BY TypeParts DEF TypeInv
  <1>2. UNCHANGED <<venue, trades, now, replies, updates, drops, rows, orders, position, seen, applied, overtaken>>
        /\ link' = "up"
    BY DEF Resubscribe, venueVars, trackerVars
  <1>3. VenueTypes' /\ WireTypes' /\ BookTypes' /\ PollTypes'
    BY <1>1, <1>2, Replayed DEF VenueTypes, WireTypes, BookTypes, PollTypes, pollVars
  <1>4. FramesInv'
    <2>1. ASSUME NEW j \in 1..Len(fills')
          PROVE  fills'[j].trade \in 1..Len(trades) /\ fills'[j] = trades[fills'[j].trade]
      <3>1. CASE j \in 1..Len(fills)
        BY <1>1, <3>1, Replayed DEF FramesInv
      <3>2. CASE j \in (Len(fills) + 1)..Len(fills')
        <4>1. PICK i \in 1..Len(trades) : fills'[j] = trades[i]
          BY <3>2, Replayed
        <4> QED
          BY <1>1, <4>1 DEF FramesInv
      <3> QED
        BY <3>1, <3>2, Replayed
    <2> QED
      BY <1>1, <1>2, <2>1 DEF FramesInv
  <1> QED
    BY <1>3, <1>4, TypeParts, PTL DEF TypeInv

(* What a report makes of an order. *)
LEMMA UpdatedIs ==
    ASSUME NEW u
    PROVE  LET o      == orders[u.order]
               filled == GreaterOf(o.filled, Size[u.order] - u.left)
               status == IF u.status \in Terminal \/ u.ts >= o.last THEN u.status ELSE o.status
           IN  Updated(u) = IF o.status = "unknown" THEN (IF u.status \in Terminal THEN o ELSE Adopt(u))
                            ELSE IF o.status \in Terminal THEN o
                            ELSE [status |-> IF filled >= Size[u.order] /\ status \notin Terminal
                                             THEN "filled" ELSE status,
                                  filled |-> filled,
                                  last   |-> IF u.ts > o.last THEN u.ts ELSE o.last]
  BY DEF Updated, Terminal

LEMMA OneUpdateTypes ==
    ASSUME TypeInv, NEW u \in Updates
    PROVE  Updated(u) \in Tracked /\ u.order \in Orders
  <1>1. /\ u.order \in Orders /\ u.left \in Nat /\ u.left <= Size[u.order] /\ u.ts \in Times
        /\ u.status \in {"resting", "filled", "cancelled"} /\ Size[u.order] - u.left \in Nat
    BY Constants DEF Updates, Terminal
  <1> DEFINE o == orders[u.order]
             filled == GreaterOf(o.filled, Size[u.order] - u.left)
             status == IF u.status \in Terminal \/ u.ts >= o.last THEN u.status ELSE o.status
  <1>2. o \in Tracked
    BY <1>1 DEF TypeInv, TypeOK, TrackerTypeOK
  <1>3. Adopt(u) \in Tracked
    BY <1>1 DEF Adopt, Tracked, Live, Terminal
  <1>4. filled \in Nat /\ status \in {"unknown"} \cup Live \cup Terminal
    BY <1>1, <1>2 DEF GreaterOf, Tracked, Live, Terminal
  <1>5. Updated(u) = IF o.status = "unknown" THEN (IF u.status \in Terminal THEN o ELSE Adopt(u))
                     ELSE IF o.status \in Terminal THEN o
                     ELSE [status |-> IF filled >= Size[u.order] /\ status \notin Terminal THEN "filled" ELSE status,
                           filled |-> filled,
                           last   |-> IF u.ts > o.last THEN u.ts ELSE o.last]
    BY UpdatedIs
  <1> HIDE DEF filled, status
  <1> QED
    BY <1>1, <1>2, <1>3, <1>4, <1>5 DEF Tracked, Live, Terminal

LEMMA HeadFill ==
    ASSUME TypeInv, fills # <<>>, fills' = Tail(fills)
    PROVE  /\ Len(fills) \in Nat /\ Len(fills) >= 1
           /\ Head(fills) \in Fills /\ Head(fills) = fills[1] /\ Head(fills).trade \in 1..Len(trades)
           /\ Head(fills) = trades[Head(fills).trade]
           /\ fills' \in Seq(Fills) /\ Len(fills') = Len(fills) - 1
           /\ \A i \in 1..Len(fills') : i + 1 \in 1..Len(fills) /\ fills'[i] = fills[i + 1]
  <1>1. fills \in Seq(Fills)
    BY DEF TypeInv, TypeOK, TrackerTypeOK
  <1>2. /\ Len(fills) \in Nat /\ Len(fills) >= 1 /\ Head(fills) \in Fills /\ Head(fills) = fills[1]
        /\ fills' \in Seq(Fills) /\ Len(fills') = Len(fills) - 1
        /\ \A i \in 1..Len(fills') : fills'[i] = fills[i + 1]
    BY <1>1, Shortened
  <1>3. 1 \in 1..Len(fills) /\ \A i \in 1..Len(fills') : i + 1 \in 1..Len(fills)
    BY <1>2
  <1>4. fills[1].trade \in 1..Len(trades) /\ fills[1] = trades[fills[1].trade]
    BY <1>3 DEF TypeInv, FramesInv
  <1> QED
    BY <1>2, <1>3, <1>4

LEMMA RememberTypes ==
    ASSUME TypeInv, NEW trade \in TradeIds, Remember(trade)
    PROVE  seen' \in Seq(TradeIds) /\ Len(seen') <= MaxSeenTrades
  <1>1. seen \in Seq(TradeIds) /\ Len(seen) \in Nat /\ Len(seen) <= MaxSeenTrades
    BY LenProperties DEF TypeInv, TypeOK, TrackerTypeOK
  <1> DEFINE kept == IF Len(seen) >= MaxSeenTrades THEN Tail(seen) ELSE seen
  <1>2. kept \in Seq(TradeIds) /\ Len(kept) <= MaxSeenTrades - 1 /\ Len(kept) \in Nat
    <2>1. CASE Len(seen) >= MaxSeenTrades
      <3>1. seen # <<>>
        BY <2>1, Constants, EmptySeq
      <3>2. Tail(seen) \in Seq(TradeIds) /\ Len(Tail(seen)) = Len(seen) - 1
        BY <1>1, <3>1, Shortened
      <3> QED
        BY <1>1, <2>1, <3>2, Constants
    <2>2. CASE ~(Len(seen) >= MaxSeenTrades)
      BY <1>1, <2>2, Constants
    <2> QED
      BY <2>1, <2>2
  <1>3. seen' = Append(kept, trade)
    BY DEF Remember
  <1> HIDE DEF kept
  <1> QED
    BY <1>2, <1>3, Appended, Constants

LEMMA TrackerTypes ==
    ASSUME TypeInv, TrackerStep, UNCHANGED pollVars
    PROVE  TypeInv'
  <1>1. VenueTypes /\ WireTypes /\ BookTypes /\ PollTypes /\ FramesInv
    BY TypeParts DEF TypeInv
  <1>2. VenueTypes' /\ WireTypes' /\ BookTypes' /\ FramesInv'
    <2>1. VenueTypes'
      BY <1>1 DEF TrackerStep, OnAck, ApplyFill, ApplyUpdate, ApplyRow, VenueTypes, venueVars
    <2>2. ASSUME NEW reply \in replies, OnAck(reply)
          PROVE  WireTypes' /\ BookTypes' /\ FramesInv'
      <3>1. reply \in Replies
        BY <1>1 DEF WireTypes
      <3>2. Acked(reply) \in Tracked
        BY <1>1, <3>1, Constants DEF Acked, Tracked, Live, Terminal, Times, Replies, VenueTypes
      <3>3. orders' \in [Orders -> Tracked]
        BY <1>1, <2>2, <3>2 DEF OnAck, BookTypes
      <3> QED
        BY <1>1, <2>2, <3>3 DEF OnAck, WireTypes, BookTypes, FramesInv, venueVars, linkVars
    <2>3. CASE ApplyFill
      <3>1. fills # <<>> /\ fills' = Tail(fills)
            /\ UNCHANGED <<venue, trades, now, replies, link, updates, drops, rows>>
        BY <2>3 DEF ApplyFill, venueVars
      <3>2. WireTypes'
        BY <1>1, <3>1, HeadFill DEF WireTypes
      <3>3. FramesInv'
        BY <1>1, <3>1, HeadFill DEF FramesInv
      <3>4. PICK f : f = Head(fills) /\ f \in Fills /\ f.trade \in 1..Len(trades)
        BY <3>1, HeadFill
      <3>5. overtaken' \subseteq Orders
        BY <1>1, <2>3, <3>4 DEF ApplyFill, Overtakes, BookTypes, Fills
      <3>6. CASE Seen(f.trade)
        BY <1>1, <2>1, <2>3, <3>1, <3>4, <3>5, <3>6, <3>2, <3>3 DEF ApplyFill, BookTypes, trackerVars
      <3>7. CASE ~Seen(f.trade)
        <4>1. Remember(f.trade) /\ position' = position + Signed(f.order, f.qty)
              /\ orders' = [orders EXCEPT ![f.order] = Attribute(f)] /\ applied' = applied \cup {f.trade}
          BY <2>3, <3>4, <3>7 DEF ApplyFill
        <4>2. f.trade \in TradeIds /\ f.order \in Orders /\ f.qty \in Nat
          BY <3>4 DEF Fills
        <4>3. seen' \in Seq(TradeIds) /\ Len(seen') <= MaxSeenTrades
          BY <4>1, <4>2, RememberTypes
        <4>4. position' \in Int
          BY <1>1, <4>1, <4>2 DEF Signed, BookTypes
        <4>5. orders' \in [Orders -> Tracked]
          <5>1. orders[f.order] \in Tracked /\ f.ts \in Times /\ Size[f.order] \in Nat
            BY <1>1, <3>4, <4>2, Constants DEF BookTypes, Fills
          <5>2. Attribute(f) \in Tracked
            BY <4>2, <5>1 DEF Attribute, Tracked, Live, Terminal, Times
          <5> QED
            BY <1>1, <4>1, <5>2 DEF BookTypes
        <4> QED
          BY <1>1, <2>1, <3>1, <3>2, <3>3, <3>4, <3>5, <4>1, <4>3, <4>4, <4>5 DEF BookTypes
      <3> QED
        BY <3>6, <3>7
    <2>4. CASE ApplyUpdate
      <3>1. /\ updates # <<>> /\ updates' = Tail(updates) /\ orders' = [orders EXCEPT ![Head(updates).order] = Updated(Head(updates))]
            /\ Overtakes(Head(updates).order, FillsMissing(Head(updates)))
            /\ UNCHANGED <<venue, trades, now, replies, link, fills, drops, rows, position, seen, applied>>
        BY <2>4 DEF ApplyUpdate, venueVars
      <3>2. Head(updates) \in Updates /\ updates' \in Seq(Updates)
        BY <1>1, <3>1, Shortened DEF WireTypes
      <3>3. orders' \in [Orders -> Tracked] /\ overtaken' \subseteq Orders
        <4>1. Updated(Head(updates)) \in Tracked /\ Head(updates).order \in Orders
          BY <3>2, OneUpdateTypes
        <4> QED
          BY <1>1, <3>1, <4>1 DEF BookTypes, Overtakes
      <3> QED
        BY <1>1, <2>1, <3>1, <3>2, <3>3 DEF WireTypes, BookTypes, FramesInv
    <2>5. ASSUME NEW u \in rows, ApplyRow(u)
          PROVE  WireTypes' /\ BookTypes' /\ FramesInv'
      <3>1. /\ rows' = rows \ {u} /\ orders' = [orders EXCEPT ![u.order] = Updated(u)]
            /\ Overtakes(u.order, FillsMissing(u))
            /\ UNCHANGED <<venue, trades, now, replies, link, fills, updates, drops, position, seen, applied>>
        BY <2>5 DEF ApplyRow, venueVars, linkVars
      <3>2. u \in Updates
        BY <1>1 DEF BookTypes
      <3>3. orders' \in [Orders -> Tracked] /\ overtaken' \subseteq Orders
        <4>1. Updated(u) \in Tracked /\ u.order \in Orders
          BY <3>2, OneUpdateTypes
        <4> QED
          BY <1>1, <3>1, <4>1 DEF BookTypes, Overtakes
      <3> QED
        BY <1>1, <3>1, <3>2, <3>3 DEF WireTypes, BookTypes, FramesInv
    <2> QED
      BY <2>1, <2>2, <2>3, <2>4, <2>5 DEF TrackerStep
  <1>3. PollTypes'
    BY <1>1 DEF PollTypes, pollVars
  <1> QED
    BY <1>2, <1>3, TypeParts, PTL DEF TypeInv

(* The venue's position is a number. *)
LEMMA MovesAre ==
    ASSUME TypeInv
    PROVE  /\ IsFiniteSet(1..Len(trades)) /\ DOMAIN Moves = 1..Len(trades)
           /\ \A i \in 1..Len(trades) : Moves[i] \in Int /\ trades[i].qty \in Nat \ {0} /\ trades[i].order \in Orders
           /\ VenuePosition = SumFunctionOnSet(Moves, 1..Len(trades)) /\ VenuePosition \in Int
  <1>1. trades \in Seq(Fills) /\ Len(trades) \in Nat
    BY LenProperties DEF TypeInv, TypeOK, TrackerTypeOK
  <1>2. ASSUME NEW i \in 1..Len(trades)
        PROVE  Moves[i] \in Int /\ trades[i].qty \in Nat \ {0} /\ trades[i].order \in Orders
    <2>1. trades[i] \in Fills
      BY <1>1, ElementOfSeq
    <2> QED
      BY <2>1 DEF Moves, Signed, Fills
  <1>3. IsFiniteSet(1..Len(trades)) /\ DOMAIN Moves = 1..Len(trades)
    BY <1>1, FS_Interval DEF Moves
  <1>4. VenuePosition = SumFunctionOnSet(Moves, 1..Len(trades))
    BY <1>3 DEF VenuePosition, SumFunction
  <1>5. SumFunctionOnSet(Moves, 1..Len(trades)) \in Int
    BY <1>2, <1>3, SumIsInteger
  <1> QED
    BY <1>2, <1>3, <1>4, <1>5

LEMMA AppliedIsFinite ==
    ASSUME TypeInv
    PROVE  IsFiniteSet(applied)
  <1>1. applied \subseteq 1..Len(trades)
    BY DEF TypeInv, TypeOK, TrackerTypeOK
  <1> QED
    BY <1>1, MovesAre, FS_Subset

LEMMA PollTypesKept ==
    ASSUME TypeInv, PollStep
    PROVE  TypeInv'
  <1>1. VenueTypes /\ WireTypes /\ BookTypes /\ PollTypes /\ FramesInv
    BY TypeParts DEF TypeInv
  <1>2. UNCHANGED <<venueVars, replies, linkVars, trackerVars, overtaken>>
    BY DEF PollStep, AskOrders, ReadAccount, AccountRefused, AccountFails, PublishAll, Publish, accountVars
  <1>3. VenueTypes' /\ WireTypes' /\ FramesInv'
    BY <1>1, <1>2 DEF VenueTypes, WireTypes, FramesInv, venueVars, linkVars
  <1>4. BookTypes' /\ PollTypes'
    <2>1. CASE AskOrders
      <3>1. open' \subseteq Updates
        BY <1>1, <2>1, Constants DEF AskOrders, VenueTypes, VenueLive, Updates, Left
      <3> QED
        BY <1>1, <2>1, <3>1 DEF AskOrders, BookTypes, PollTypes, Nothing, accountVars, trackerVars, venueVars
    <2>2. CASE ReadAccount \/ AccountRefused \/ AccountFails
      <3>1. VenuePosition \in Int
        BY MovesAre
      <3>2. open' \subseteq Updates /\ account' \in Int /\ poll' \in {"sleep", "account", "compare"} /\ report' = report
        BY <1>1, <2>2, <3>1 DEF ReadAccount, AccountRefused, AccountFails, PollTypes, Unread
      <3>3. BookTypes'
        BY <1>1, <2>2 DEF ReadAccount, AccountRefused, AccountFails, BookTypes, accountVars, trackerVars, venueVars
      <3> QED
        BY <1>1, <3>2, <3>3 DEF PollTypes
    <2>3. ASSUME NEW young, NEW sent \in SUBSET open, Publish(young, sent)
          PROVE  BookTypes' /\ PollTypes'
      <3>1. Missing(young) \subseteq Orders
        BY DEF Missing, OpenOrders
      <3> QED
        BY <1>1, <1>2, <2>3, <3>1
        DEF Publish, BookTypes, PollTypes, Unread, Difference, trackerVars, venueVars
    <2> QED
      BY <2>1, <2>2, <2>3 DEF PollStep, PublishAll
  <1> QED
    BY <1>3, <1>4, TypeParts, PTL DEF TypeInv

LEMMA VenueTypesKept ==
    ASSUME TypeInv, VenueStep, UNCHANGED pollVars
    PROVE  TypeInv'
  <1>1. ASSUME NEW o \in Orders, PlaceFilled(o), now < MaxEvents
        PROVE  TypeInv'
    <2>1. Size[o] \in Nat \ {0} /\ Left(o) = Size[o]
      BY <1>1, Constants DEF PlaceFilled, Left, TypeInv, TypeOK, TrackerTypeOK
    <2>2. replies' \subseteq Replies
      BY <1>1 DEF PlaceFilled, TypeInv, TypeOK, TrackerTypeOK, Replies
    <2> QED
      BY <1>1, <2>1, <2>2, ExecuteTypes DEF PlaceFilled
  <1>2. ASSUME NEW o \in Orders, NEW qty \in 1..Size[o], Trade(o, qty), now < MaxEvents
        PROVE  TypeInv'
    <2>1. qty \in Nat \ {0} /\ replies' \subseteq Replies
      BY <1>2, Constants DEF Trade, TypeInv, TypeOK, TrackerTypeOK
    <2> QED
      BY <1>2, <2>1, ExecuteTypes DEF Trade
  <1> QED
    BY <1>1, <1>2, PlaceRestingTypes, CancelTypes, DropTypes DEF VenueStep

LEMMA TypeInvNext == TypeInv /\ [Next]_vars => TypeInv'
  <1> SUFFICES ASSUME TypeInv, [Next]_vars
               PROVE  TypeInv'
    OBVIOUS
  <1>1. CASE UNCHANGED vars
    BY <1>1 DEF vars, accountVars, venueVars, linkVars, trackerVars, pollVars, TypeInv, TypeOK, TrackerTypeOK, FramesInv
  <1> QED
    BY <1>1, VenueTypesKept, ResubscribeTypes, TrackerTypes, PollTypesKept DEF Next

-----------------------------------------------------------------------------
(* Every execution counts once.                                             *)

AppliedAddsUp == position = SumFunctionOnSet(Moves, applied)

(* The ids remembered ascend, and are the last ones applied. *)
SeenInv ==
    /\ \A i, j \in 1..Len(seen) : i <= j => seen[j] - seen[i] >= j - i
    /\ \A i \in 1..Len(seen) : seen[i] \in applied
    /\ \A t \in applied : Seen(t) \/ (Len(seen) = MaxSeenTrades /\ t < seen[1])

(* The first frame of a fill that was not applied. *)
Fresh(k) == fills[k].trade \notin applied /\ \A j \in 1..(k - 1) : fills[j].trade # fills[k].trade

(* Fills come first in their order, and what is applied or on the channel ahead
   of a frame is never a window ahead of its fill. *)
ChannelInv ==
    \A k \in 1..Len(fills) :
        /\ Fresh(k) => /\ \A u \in applied : u < fills[k].trade
                       /\ \A j \in 1..(k - 1) : fills[j].trade < fills[k].trade
        /\ \A u \in applied : u - fills[k].trade < MaxSeenTrades
        /\ \A j \in 1..(k - 1) : fills[j].trade - fills[k].trade < MaxSeenTrades

(* A fill that a socket took with it is out of the next one's reach before
   anything after it is heard of. *)
LossesInv ==
    \A t \in Unheard :
        (link = "up" \/ \E u \in applied \cup OnTheChannel : u > t) => t <= Len(trades) - ReplayDepth

CountInv == AppliedAddsUp /\ SeenInv /\ ChannelInv /\ LossesInv

countVars == <<trades, fills, link, applied, seen, position>>

LEMMA CountInvInit == Init => CountInv
  <1> SUFFICES ASSUME Init
               PROVE  CountInv
    OBVIOUS
  <1>1. Len(trades) = 0 /\ Len(fills) = 0 /\ Len(seen) = 0 /\ applied = {} /\ position = 0
    BY DEF Init, TrackerInit
  <1>2. AppliedAddsUp
    BY <1>1, SumOfNone DEF AppliedAddsUp
  <1> QED
    BY <1>1, <1>2 DEF CountInv, SeenInv, ChannelInv, LossesInv, Unheard

LEMMA CountStays ==
    ASSUME CountInv, UNCHANGED countVars
    PROVE  CountInv'
  <1>1. UNCHANGED <<Moves, Unheard, OnTheChannel>> /\ \A t : Seen(t)' = Seen(t) /\ Fresh(t)' = Fresh(t)
    BY DEF countVars, Moves, Unheard, OnTheChannel, Seen, Fresh
  <1>2. AppliedAddsUp'
    BY <1>1 DEF CountInv, AppliedAddsUp, countVars
  <1>3. SeenInv'
    BY <1>1 DEF CountInv, SeenInv, countVars, Seen
  <1>4. ChannelInv'
    BY <1>1 DEF CountInv, ChannelInv, countVars, Fresh
  <1>5. LossesInv'
    BY <1>1 DEF CountInv, LossesInv, countVars
  <1> QED
    BY <1>2, <1>3, <1>4, <1>5 DEF CountInv

(* Numbers the steps below compare. *)
LEMMA CountTypes ==
    ASSUME TypeInv
    PROVE  /\ Len(trades) \in Nat /\ Len(fills) \in Nat /\ Len(seen) \in Nat /\ Len(seen) <= MaxSeenTrades
           /\ \A k \in 1..Len(fills) : fills[k].trade \in 1..Len(trades) /\ fills[k].trade \in Nat
           /\ \A u \in applied : u \in 1..Len(trades) /\ u \in Nat
           /\ \A u \in OnTheChannel : u \in 1..Len(trades) /\ u \in Nat
           /\ \A i \in 1..Len(seen) : seen[i] \in Nat
           /\ DOMAIN fills = 1..Len(fills)
  <1>1. trades \in Seq(Fills) /\ fills \in Seq(Fills) /\ seen \in Seq(TradeIds) /\ Len(seen) <= MaxSeenTrades
        /\ applied \subseteq 1..Len(trades)
    BY DEF TypeInv, TypeOK, TrackerTypeOK
  <1>2. Len(trades) \in Nat /\ Len(fills) \in Nat /\ Len(seen) \in Nat /\ DOMAIN fills = 1..Len(fills)
    BY <1>1, LenProperties
  <1>3. \A k \in 1..Len(fills) : fills[k].trade \in 1..Len(trades) /\ fills[k].trade \in Nat
    BY <1>2 DEF TypeInv, FramesInv
  <1>4. ASSUME NEW i \in 1..Len(seen)
        PROVE  seen[i] \in Nat
    <2>1. seen[i] \in TradeIds
      BY <1>1, ElementOfSeq
    <2> QED
      BY <2>1, Constants DEF TradeIds
  <1>5. \A u \in OnTheChannel : u \in 1..Len(trades) /\ u \in Nat
    BY <1>2, <1>3 DEF OnTheChannel
  <1>6. \A u \in applied : u \in 1..Len(trades) /\ u \in Nat
    BY <1>1, <1>2
  <1> QED
    BY <1>1, <1>2, <1>3, <1>4, <1>5, <1>6

(* What is on the channel, place by place. *)
LEMMA ChannelIs ==
    ASSUME TypeInv, NEW u
    PROVE  u \in OnTheChannel <=> \E k \in 1..Len(fills) : u = fills[k].trade
  BY CountTypes DEF OnTheChannel

LEMMA CountWhenExecuted ==
    ASSUME TypeInv, TypeInv', CountInv, NEW o \in Orders, NEW qty, Execute(o, qty)
    PROVE  CountInv'
  <1> DEFINE L == Len(trades)
             trade == [trade |-> L + 1, order |-> o, qty |-> qty, ts |-> now + 1]
  <1>1. /\ trades' = Append(trades, trade) /\ fills' = Said(fills, trade)
        /\ UNCHANGED <<link, orders, position, seen, applied>>
    BY DEF Execute, trackerVars
  <1>2. /\ L \in Nat /\ Len(trades') = L + 1 /\ trades'[L + 1] = trade
        /\ \A i \in 1..L : trades'[i] = trades[i]
    BY <1>1, CountTypes, AppendProperties, AppendedAny DEF TypeInv, TypeOK, TrackerTypeOK
  <1>3. AppliedAddsUp'
    <2>1. \A i \in applied : Moves'[i] = Moves[i] /\ Moves[i] \in Int
      BY <1>2, CountTypes, MovesAre DEF Moves
    <2>2. IsFiniteSet(applied)
      BY AppliedIsFinite
    <2>3. SumFunctionOnSet(Moves, applied) = SumFunctionOnSet(Moves', applied)
      BY <2>1, <2>2, SumOfSame
    <2> QED
      BY <1>1, <2>3 DEF CountInv, AppliedAddsUp
  <1>4. SeenInv'
    BY <1>1 DEF CountInv, SeenInv, Seen
  <1>5. CASE link = "up"
    <2>1. /\ Len(fills') = Len(fills) + 1 /\ fills'[Len(fills) + 1] = trade
          /\ \A i \in 1..Len(fills) : fills'[i] = fills[i]
      BY <1>1, <1>5, CountTypes, AppendedAny DEF Said, TypeInv, TypeOK, TrackerTypeOK
    <2>2. ChannelInv'
      <3> SUFFICES ASSUME NEW k \in 1..(Len(fills) + 1)
                   PROVE  /\ Fresh(k)' => /\ \A u \in applied : u < fills'[k].trade
                                          /\ \A j \in 1..(k - 1) : fills'[j].trade < fills'[k].trade
                          /\ \A u \in applied : u - fills'[k].trade < MaxSeenTrades
                          /\ \A j \in 1..(k - 1) : fills'[j].trade - fills'[k].trade < MaxSeenTrades
        BY <1>1, <2>1 DEF ChannelInv
      <3>1. CASE k \in 1..Len(fills)
        <4>1. fills'[k] = fills[k] /\ \A j \in 1..(k - 1) : j \in 1..Len(fills) /\ fills'[j] = fills[j]
          BY <2>1, <3>1, CountTypes
        <4>2. Fresh(k)' <=> Fresh(k)
          BY <1>1, <4>1 DEF Fresh
        <4> QED
          BY <3>1, <4>1, <4>2 DEF CountInv, ChannelInv
      <3>2. CASE k = Len(fills) + 1
        <4>1. fills'[k].trade = L + 1 /\ \A j \in 1..(k - 1) : fills'[j].trade \in 1..L
          BY <2>1, <3>2, CountTypes
        <4> QED
          BY <1>2, <4>1, CountTypes, Constants
      <3>3. k \in 1..Len(fills) \/ k = Len(fills) + 1
        BY CountTypes
      <3> QED
        BY <3>1, <3>2, <3>3
    <2>3. LossesInv'
      <3>1. ASSUME NEW t \in Unheard'
            PROVE  t \in Unheard
        <4>1. t \in 1..(L + 1) /\ t \notin applied /\ t \notin OnTheChannel'
          BY <1>1, <1>2, <3>1 DEF Unheard
        <4>2. \A k \in 1..(Len(fills) + 1) : t # fills'[k].trade
          <5>1. fills' \in Seq(Fills)
            BY DEF TypeInv, TypeOK, TrackerTypeOK
          <5>2. DOMAIN fills' = 1..(Len(fills) + 1)
            BY <2>1, <5>1, LenProperties
          <5> QED
            BY <4>1, <5>2 DEF OnTheChannel
        <4>3. t # L + 1
          BY <2>1, <4>2, CountTypes
        <4>4. \A k \in 1..Len(fills) : t # fills[k].trade
          BY <2>1, <4>2, CountTypes
        <4> QED
          BY <1>2, <4>1, <4>3, <4>4, ChannelIs DEF Unheard
      <3>2. \A t \in Unheard : t <= L - ReplayDepth /\ t \in Nat
        BY <1>2, <1>5 DEF CountInv, LossesInv, Unheard
      <3> QED
        BY <1>2, <3>1, <3>2, Constants DEF LossesInv
    <2> QED
      BY <1>3, <1>4, <2>2, <2>3 DEF CountInv
  <1>6. CASE link # "up"
    <2>1. fills' = fills /\ OnTheChannel' = OnTheChannel
      BY <1>1, <1>6 DEF Said, OnTheChannel
    <2>2. ChannelInv'
      BY <1>1, <2>1 DEF CountInv, ChannelInv, Fresh
    <2>3. LossesInv'
      <3>1. ASSUME NEW t \in Unheard', NEW u \in applied \cup OnTheChannel, u > t
            PROVE  t <= (L + 1) - ReplayDepth
        <4>1. t \in 1..(L + 1) /\ t \notin applied \cup OnTheChannel /\ u \in 1..L
          BY <1>1, <1>2, <2>1, CountTypes DEF Unheard
        <4>2. t \in Unheard
          BY <1>2, <3>1, <4>1 DEF Unheard
        <4>3. t <= L - ReplayDepth
          BY <3>1, <4>2 DEF CountInv, LossesInv
        <4> QED
          BY <1>2, <4>1, <4>3, Constants
      <3>2. link' # "up" /\ applied' \cup OnTheChannel' = applied \cup OnTheChannel
        BY <1>1, <1>6, <2>1
      <3> QED
        BY <1>2, <3>1, <3>2 DEF LossesInv
    <2> QED
      BY <1>3, <1>4, <2>2, <2>3 DEF CountInv
  <1> QED
    BY <1>5, <1>6

(* A frame's fill has a first frame, no later than it. *)
LEMMA FirstFrame ==
    ASSUME TypeInv, NEW k \in 1..Len(fills)
    PROVE  \E m \in 1..k : /\ fills[m].trade = fills[k].trade
                            /\ \A j \in 1..(m - 1) : fills[j].trade # fills[k].trade
  <1> DEFINE T == {m \in 1..k : fills[m].trade = fills[k].trade}
  <1>1. k \in T /\ T \subseteq Nat
    BY CountTypes
  <1>2. PICK m \in T : \A n \in T : m <= n
    BY <1>1, LeastNumber
  <1>3. \A j \in 1..(m - 1) : j \in 1..k /\ ~(m <= j)
    BY <1>2, CountTypes
  <1> QED
    BY <1>2, <1>3

LEMMA CountWhenDropped ==
    ASSUME TypeInv, CountInv, Drop
    PROVE  CountInv'
  <1>1. PICK f \in 0..Len(fills) : fills' = SubSeq(fills, 1, f)
    BY DEF Drop
  <1>2. link = "up" /\ link' = "down" /\ UNCHANGED <<trades, seen, position, applied>>
    BY DEF Drop, venueVars, trackerVars
  <1>3. /\ fills' \in Seq(Fills) /\ Len(fills') = f /\ DOMAIN fills' = 1..f /\ f \in Nat /\ f <= Len(fills)
        /\ \A i \in 1..f : i \in 1..Len(fills) /\ fills'[i] = fills[i]
    <2>1. fills \in Seq(Fills) /\ Len(fills) \in Nat
      BY CountTypes DEF TypeInv, TypeOK, TrackerTypeOK
    <2>2. /\ fills' \in Seq(Fills) /\ Len(fills') = f
          /\ \A i \in 1..f : fills'[i] = fills[i]
      BY <1>1, <2>1, CutShort
    <2> QED
      BY <2>1, <2>2, LenProperties
  <1>4. AppliedAddsUp' /\ SeenInv'
    BY <1>2 DEF CountInv, AppliedAddsUp, SeenInv, Moves, Seen
  <1>5. ChannelInv'
    <2> SUFFICES ASSUME NEW k \in 1..f
                 PROVE  /\ Fresh(k)' => /\ \A u \in applied : u < fills'[k].trade
                                        /\ \A j \in 1..(k - 1) : fills'[j].trade < fills'[k].trade
                        /\ \A u \in applied : u - fills'[k].trade < MaxSeenTrades
                        /\ \A j \in 1..(k - 1) : fills'[j].trade - fills'[k].trade < MaxSeenTrades
      BY <1>2, <1>3 DEF ChannelInv
    <2>1. k \in 1..Len(fills) /\ fills'[k] = fills[k] /\ \A j \in 1..(k - 1) : j \in 1..f /\ fills'[j] = fills[j]
      BY <1>3
    <2>2. Fresh(k)' <=> Fresh(k)
      BY <1>2, <2>1 DEF Fresh
    <2> QED
      BY <2>1, <2>2 DEF CountInv, ChannelInv
  <1>6. LossesInv'
    <2> SUFFICES ASSUME NEW t \in Unheard', NEW u \in applied \cup OnTheChannel', u > t
                 PROVE  t <= Len(trades) - ReplayDepth
      <3>1. \A t \in Unheard' : (\E u \in applied \cup OnTheChannel' : u > t) => t <= Len(trades) - ReplayDepth
        OBVIOUS
      <3> QED
        BY <1>2, <3>1 DEF LossesInv
    <2>1. t \in 1..Len(trades) /\ t \in Nat /\ t \notin applied /\ \A i \in 1..f : t # fills[i].trade
      BY <1>2, <1>3, CountTypes DEF Unheard, OnTheChannel
    <2>2. CASE t \in Unheard
      BY <1>2, <2>2 DEF CountInv, LossesInv
    <2>3. CASE t \notin Unheard
      <3>1. PICK k \in 1..Len(fills) : t = fills[k].trade
        BY <2>1, <2>3, ChannelIs DEF Unheard
      <3>2. PICK m \in 1..k : fills[m].trade = t /\ \A j \in 1..(m - 1) : fills[j].trade # t
        BY <3>1, FirstFrame
      <3>3. m \in 1..Len(fills) /\ m > f
        BY <1>3, <2>1, <3>2, CountTypes
      <3>4. Fresh(m)
        BY <2>1, <3>2 DEF Fresh
      <3>5. (\A v \in applied : v < t) /\ (\A j \in 1..(m - 1) : fills[j].trade < t)
        BY <3>2, <3>3, <3>4 DEF CountInv, ChannelInv
      <3>6. CASE u \in applied
        BY <2>1, <3>5, <3>6, CountTypes
      <3>7. CASE u \in OnTheChannel'
        <4>1. PICK i \in 1..f : u = fills[i].trade
          BY <1>3, <3>7 DEF OnTheChannel
        <4>2. i \in 1..(m - 1) /\ fills[i].trade \in Nat
          BY <1>3, <3>3, CountTypes
        <4> QED
          BY <2>1, <3>5, <4>1, <4>2
      <3> QED
        BY <3>6, <3>7
    <2> QED
      BY <2>2, <2>3
  <1> QED
    BY <1>4, <1>5, <1>6 DEF CountInv

LEMMA CountWhenResubscribed ==
    ASSUME TypeInv, CountInv, Resubscribe
    PROVE  CountInv'
  <1> DEFINE L == Len(trades)
             n == Len(fills)
  <1>1. link = "down" /\ link' = "up" /\ UNCHANGED <<trades, seen, position, applied>>
    BY DEF Resubscribe, venueVars, trackerVars
  <1>2. /\ L \in Nat /\ n \in Nat /\ Oldest \in 0..L /\ L - Oldest <= ReplayDepth
        /\ Oldest = L - ReplayDepth \/ (Oldest = 0 /\ L <= ReplayDepth)
        /\ fills' \in Seq(Fills) /\ Len(fills') = n + (L - Oldest) /\ DOMAIN fills' = 1..(n + (L - Oldest))
    <2>1. /\ L \in Nat /\ n \in Nat /\ Oldest \in 0..L
          /\ fills' \in Seq(Fills) /\ Len(fills') = n + (L - Oldest)
      BY Replayed
    <2>2. L - Oldest <= ReplayDepth /\ (Oldest = L - ReplayDepth \/ (Oldest = 0 /\ L <= ReplayDepth))
      BY <2>1, Constants DEF Oldest
    <2> QED
      BY <2>1, <2>2, LenProperties
  <1>3. ASSUME NEW i \in 1..n
        PROVE  fills'[i].trade = fills[i].trade /\ fills'[i].trade \in 1..L /\ fills'[i].trade \in Nat
    BY <1>2, Replayed, CountTypes
  <1>4. ASSUME NEW i \in (n + 1)..Len(fills')
        PROVE  fills'[i].trade = Oldest + (i - n) /\ fills'[i].trade \in 1..L /\ fills'[i].trade \in Nat
    <2>1. Oldest + (i - n) \in 1..L /\ fills'[i] = trades[Oldest + (i - n)]
      BY Replayed
    <2> QED
      BY <1>2, <2>1 DEF TypeInv, FramesInv
  <1>5. AppliedAddsUp' /\ SeenInv'
    BY <1>1 DEF CountInv, AppliedAddsUp, SeenInv, Moves, Seen
  <1> HIDE DEF L, n
  <1>6. ASSUME NEW k \in (n + 1)..Len(fills'), Fresh(k)'
        PROVE  fills'[k].trade \in Unheard /\ fills'[k].trade > L - ReplayDepth
    <2>1. fills'[k].trade \notin applied /\ \A j \in 1..(k - 1) : fills'[j].trade # fills'[k].trade
      BY <1>1, <1>6 DEF Fresh
    <2>2. \A j \in 1..n : j \in 1..(k - 1)
      BY <1>2
    <2>3. \A j \in 1..n : fills[j].trade # fills'[k].trade
      BY <1>3, <2>1, <2>2
    <2>4. fills'[k].trade \notin OnTheChannel
      BY <2>3, ChannelIs DEF n
    <2>5. fills'[k].trade \in 1..L /\ fills'[k].trade > Oldest
      BY <1>2, <1>4
    <2> QED
      BY <1>2, <2>1, <2>4, <2>5, Constants DEF Unheard, L
  <1>7. ChannelInv'
    <2> SUFFICES ASSUME NEW k \in 1..Len(fills')
                 PROVE  /\ Fresh(k)' => /\ \A u \in applied : u < fills'[k].trade
                                        /\ \A j \in 1..(k - 1) : fills'[j].trade < fills'[k].trade
                        /\ \A u \in applied : u - fills'[k].trade < MaxSeenTrades
                        /\ \A j \in 1..(k - 1) : fills'[j].trade - fills'[k].trade < MaxSeenTrades
      BY <1>1 DEF ChannelInv
    <2>1. CASE k \in 1..n
      <3>1. fills'[k].trade = fills[k].trade /\ \A j \in 1..(k - 1) : j \in 1..n /\ fills'[j].trade = fills[j].trade
        BY <1>2, <1>3, <2>1
      <3>2. Fresh(k)' <=> Fresh(k)
        BY <1>1, <3>1 DEF Fresh
      <3> QED
        BY <2>1, <3>1, <3>2 DEF CountInv, ChannelInv, n
    <2>2. CASE k \in (n + 1)..Len(fills')
      <3> DEFINE t == fills'[k].trade
      <3>2. t \in 1..L /\ t > L - MaxSeenTrades
        BY <1>2, <1>4, <2>2, Constants
      <3>3. \A u \in 1..L : u - t < MaxSeenTrades
        BY <1>2, <3>2, Constants
      <3>4. \A u \in applied : u \in 1..L
        BY CountTypes DEF L
      <3>5. \A j \in 1..(k - 1) : fills'[j].trade \in 1..L
        <4> TAKE j \in 1..(k - 1)
        <4>1. j \in 1..n \/ j \in (n + 1)..Len(fills')
          BY <1>2, <2>2
        <4> QED
          BY <1>3, <1>4, <4>1
      <3>6. ASSUME Fresh(k)'
            PROVE  /\ \A u \in applied : u < t
                   /\ \A j \in 1..(k - 1) : fills'[j].trade < t
        <4>1. t \in Unheard /\ t > L - ReplayDepth
          BY <1>6, <2>2, <3>6
        <4>2. \A u \in applied \cup OnTheChannel : ~(u > t)
          <5>1. L - ReplayDepth \in Int /\ t \in Int
            BY <1>2, <3>2, Constants
          <5> QED
            BY <4>1, <5>1 DEF CountInv, LossesInv, L
        <4>3. \A u \in applied \cup OnTheChannel : u \in Nat /\ u # t
          BY <4>1, CountTypes DEF Unheard
        <4>4. \A u \in applied \cup OnTheChannel : u < t
          BY <3>2, <4>2, <4>3
        <4>5. ASSUME NEW j \in 1..(k - 1)
              PROVE  fills'[j].trade < t
          <5>1. CASE j \in 1..n
            BY <1>3, <4>4, <5>1, ChannelIs DEF n
          <5>2. CASE j \in (n + 1)..Len(fills')
            BY <1>2, <1>4, <2>2, <5>2
          <5> QED
            BY <1>2, <2>2, <5>1, <5>2
        <4> QED
          BY <4>4, <4>5
      <3> QED
        BY <3>3, <3>4, <3>5, <3>6
    <2> QED
      BY <1>2, <2>1, <2>2
  <1>8. LossesInv'
    <2> SUFFICES ASSUME NEW t \in Unheard'
                 PROVE  t <= L - ReplayDepth
      <3>1. \A t \in Unheard' : t <= L - ReplayDepth
        OBVIOUS
      <3> QED
        BY <1>1, <3>1 DEF LossesInv, L
    <2>1. t \in 1..L /\ \A k \in 1..Len(fills') : t # fills'[k].trade
      BY <1>1, <1>2 DEF Unheard, OnTheChannel, L
    <2>2. CASE t > Oldest
      <3>1. n + (t - Oldest) \in (n + 1)..Len(fills') /\ n + (t - Oldest) \in 1..Len(fills')
        BY <1>2, <2>1, <2>2
      <3>2. fills'[n + (t - Oldest)].trade = Oldest + ((n + (t - Oldest)) - n)
        BY <1>4, <3>1
      <3> QED
        BY <1>2, <2>1, <3>1, <3>2
    <2>3. CASE ~(t > Oldest)
      BY <1>2, <2>1, <2>3, Constants
    <2> QED
      BY <2>2, <2>3
  <1> QED
    BY <1>5, <1>7, <1>8 DEF CountInv

(* The window knows of every frame whether its fill was applied. *)
LEMMA WindowIsEnough ==
    ASSUME TypeInv, CountInv, NEW k \in 1..Len(fills)
    PROVE  Seen(fills[k].trade) <=> fills[k].trade \in applied
  <1> DEFINE t == fills[k].trade
  <1>1. ASSUME Seen(t)
        PROVE  t \in applied
    BY <1>1 DEF Seen, CountInv, SeenInv
  <1>2. ASSUME t \in applied, ~Seen(t)
        PROVE  FALSE
    <2>1. Len(seen) = MaxSeenTrades /\ t < seen[1]
      BY <1>2 DEF CountInv, SeenInv
    <2>2. 1 \in 1..Len(seen) /\ Len(seen) \in 1..Len(seen)
      BY <2>1, Constants, CountTypes
    <2>3. seen[Len(seen)] - seen[1] >= Len(seen) - 1 /\ seen[Len(seen)] \in applied
      BY <2>2 DEF CountInv, SeenInv
    <2>4. seen[Len(seen)] - t < MaxSeenTrades
      BY <2>3 DEF CountInv, ChannelInv
    <2>5. t \in Nat /\ seen[1] \in Nat /\ seen[Len(seen)] \in Nat
      BY <2>2, CountTypes
    <2> QED
      BY <2>1, <2>3, <2>4, <2>5, Constants
  <1> QED
    BY <1>1, <1>2

(* The oldest id makes room for a newer one. *)
LEMMA SeenWhenRemembered ==
    ASSUME TypeInv, SeenInv, NEW t \in Nat, \A u \in applied : u < t, Remember(t), applied' = applied \cup {t}
    PROVE  SeenInv'
  <1> DEFINE kept == IF Len(seen) >= MaxSeenTrades THEN Tail(seen) ELSE seen
             cut == IF Len(seen) >= MaxSeenTrades THEN 1 ELSE 0
  <1>1. /\ seen \in Seq(TradeIds) /\ Len(seen) \in Nat /\ Len(seen) <= MaxSeenTrades
        /\ \A i \in 1..Len(seen) : seen[i] \in Nat
    BY CountTypes DEF TypeInv, TypeOK, TrackerTypeOK
  <1>2. /\ kept \in Seq(TradeIds) /\ Len(kept) = Len(seen) - cut /\ Len(kept) \in Nat /\ cut \in {0, 1}
        /\ \A i \in 1..Len(kept) : i + cut \in 1..Len(seen) /\ kept[i] = seen[i + cut]
    <2>1. CASE Len(seen) >= MaxSeenTrades
      <3>1. seen # <<>> /\ Len(seen) >= 1
        BY <1>1, <2>1, Constants, EmptySeq
      <3>2. Tail(seen) \in Seq(TradeIds) /\ Len(Tail(seen)) = Len(seen) - 1
            /\ \A i \in 1..Len(Tail(seen)) : Tail(seen)[i] = seen[i + 1]
        BY <1>1, <3>1, Shortened
      <3> QED
        BY <1>1, <2>1, <3>1, <3>2
    <2>2. CASE ~(Len(seen) >= MaxSeenTrades)
      BY <1>1, <2>2
    <2> QED
      BY <2>1, <2>2
  <1>3. seen' = Append(kept, t) /\ (cut = 1 => Len(seen) >= MaxSeenTrades) /\ (cut = 0 => ~(Len(seen) >= MaxSeenTrades))
    BY DEF Remember
  <1> HIDE DEF kept, cut
  <1>4. /\ Len(seen') = Len(kept) + 1 /\ seen'[Len(kept) + 1] = t
        /\ \A i \in 1..Len(kept) : seen'[i] = seen[i + cut]
    BY <1>2, <1>3, AppendedAny
  <1>5. ASSUME NEW i \in 1..Len(seen'), NEW j \in 1..Len(seen'), i <= j
        PROVE  seen'[j] - seen'[i] >= j - i
    <2>1. CASE j \in 1..Len(kept)
      <3>1. i \in 1..Len(kept) /\ i + cut \in 1..Len(seen) /\ j + cut \in 1..Len(seen) /\ i + cut <= j + cut
        BY <1>2, <1>5, <2>1
      <3>2. seen[j + cut] - seen[i + cut] >= (j + cut) - (i + cut)
        BY <3>1 DEF SeenInv
      <3> QED
        BY <1>2, <1>4, <2>1, <3>1, <3>2
    <2>2. CASE j = Len(kept) + 1 /\ i = j
      BY <1>4, <2>2
    <2>3. CASE j = Len(kept) + 1 /\ i # j
      <3>1. i \in 1..Len(kept) /\ i + cut \in 1..Len(seen) /\ Len(seen) \in 1..Len(seen) /\ i + cut <= Len(seen)
        BY <1>1, <1>2, <1>5, <2>3
      <3>2. seen[Len(seen)] - seen[i + cut] >= Len(seen) - (i + cut) /\ seen[Len(seen)] < t
        BY <3>1 DEF SeenInv
      <3>3. seen[Len(seen)] \in Nat /\ seen[i + cut] \in Nat /\ seen'[i] = seen[i + cut] /\ seen'[j] = t
        BY <1>1, <1>4, <2>3, <3>1
      <3>4. t - seen[i + cut] >= (Len(seen) - (i + cut)) + 1
        BY <1>1, <1>2, <3>1, <3>2, <3>3
      <3>5. (Len(seen) - (i + cut)) + 1 = j - i
        BY <1>1, <1>2, <2>3
      <3> QED
        BY <3>3, <3>4, <3>5
    <2>4. j \in 1..Len(kept) \/ j = Len(kept) + 1
      BY <1>2, <1>4
    <2> QED
      BY <2>1, <2>2, <2>3, <2>4
  <1>6. ASSUME NEW i \in 1..Len(seen')
        PROVE  seen'[i] \in applied'
    <2>1. CASE i \in 1..Len(kept)
      BY <1>2, <1>4, <2>1 DEF SeenInv
    <2>2. CASE i = Len(kept) + 1
      BY <1>4, <2>2
    <2> QED
      BY <1>2, <1>4, <2>1, <2>2
  <1>7. ASSUME NEW u \in applied', ~Seen(u)'
        PROVE  Len(seen') = MaxSeenTrades /\ u < seen'[1]
    <2>1. \A i \in 1..Len(seen') : seen'[i] # u
      BY <1>7 DEF Seen
    <2>2. u # t /\ u \in applied
      BY <1>2, <1>4, <2>1
    <2>3. \A i \in (1 + cut)..Len(seen) : seen[i] # u
      <3> TAKE i \in (1 + cut)..Len(seen)
      <3>1. i - cut \in 1..Len(kept) /\ (i - cut) + cut = i /\ i - cut \in 1..Len(seen')
        BY <1>1, <1>2, <1>4
      <3>2. seen'[i - cut] = seen[(i - cut) + cut]
        BY <1>4, <3>1
      <3> QED
        BY <2>1, <3>1, <3>2
    <2>4. CASE cut = 0
      <3>1. ~Seen(u) /\ Len(seen) # MaxSeenTrades
        BY <1>1, <1>3, <2>3, <2>4, Constants DEF Seen
      <3> QED
        BY <2>2, <3>1 DEF SeenInv
    <2>5. CASE cut = 1
      <3>1. Len(seen) = MaxSeenTrades /\ Len(kept) = MaxSeenTrades - 1 /\ 1 \in 1..Len(seen) /\ u \in Nat /\ Len(seen') = MaxSeenTrades
        BY <1>1, <1>2, <1>3, <1>4, <2>2, <2>5, Constants, CountTypes
      <3>2. u <= seen[1]
        <4>1. CASE Seen(u)
          <5>1. PICK i \in 1..Len(seen) : seen[i] = u
            BY <4>1 DEF Seen
          <5>2. i = 1
            BY <1>1, <2>3, <2>5, <5>1
          <5> QED
            BY <1>1, <3>1, <5>1, <5>2
        <4>2. CASE ~Seen(u)
          BY <1>1, <2>2, <3>1, <4>2 DEF SeenInv
        <4> QED
          BY <4>1, <4>2
      <3>3. CASE Len(kept) >= 1
        <4>1. 1 \in 1..Len(kept) /\ 2 \in 1..Len(seen)
          BY <1>2, <3>1, <3>3, Constants
        <4>2. seen'[1] = seen[1 + cut] /\ 1 + cut = 2
          BY <1>4, <2>5, <4>1
        <4>3. seen[2] - seen[1] >= 2 - 1
          BY <3>1, <4>1 DEF SeenInv
        <4> QED
          BY <1>1, <3>1, <3>2, <4>1, <4>2, <4>3
      <3>4. CASE Len(kept) = 0
        <4>1. seen'[1] = t
          BY <1>4, <3>4
        <4> QED
          BY <2>2, <3>1, <4>1
      <3> QED
        BY <1>2, <3>3, <3>4
    <2> QED
      BY <1>2, <2>4, <2>5
  <1> QED
    BY <1>5, <1>6, <1>7 DEF SeenInv

LEMMA CountWhenFilled ==
    ASSUME TypeInv, CountInv, ApplyFill
    PROVE  CountInv'
  <1>1. PICK f : f = Head(fills)
    OBVIOUS
  <1>2. fills # <<>> /\ fills' = Tail(fills) /\ UNCHANGED <<trades, link>>
    BY DEF ApplyFill, venueVars
  <1>3. /\ Len(fills) \in Nat /\ Len(fills) >= 1 /\ f = fills[1] /\ 1 \in 1..Len(fills)
        /\ f.trade \in 1..Len(trades) /\ f.trade \in Nat /\ f = trades[f.trade]
        /\ fills' \in Seq(Fills) /\ Len(fills') = Len(fills) - 1 /\ DOMAIN fills' = 1..(Len(fills) - 1)
        /\ \A i \in 1..Len(fills') : i + 1 \in 1..Len(fills) /\ fills'[i] = fills[i + 1]
    <2>1. /\ Len(fills) \in Nat /\ Len(fills) >= 1 /\ f = fills[1] /\ f.trade \in 1..Len(trades)
          /\ f = trades[f.trade]
          /\ fills' \in Seq(Fills) /\ Len(fills') = Len(fills) - 1
          /\ \A i \in 1..Len(fills') : i + 1 \in 1..Len(fills) /\ fills'[i] = fills[i + 1]
      BY <1>1, <1>2, HeadFill
    <2>2. DOMAIN fills' = 1..(Len(fills) - 1) /\ Len(trades) \in Nat
      BY <2>1, LenProperties, CountTypes
    <2> QED
      BY <2>1, <2>2
  <1>4. Seen(f.trade) <=> f.trade \in applied
    BY <1>3, WindowIsEnough
  <1>5. applied' = applied \cup {f.trade}
    <2>1. CASE Seen(f.trade)
      BY <1>1, <1>4, <2>1 DEF ApplyFill, trackerVars
    <2>2. CASE ~Seen(f.trade)
      BY <1>1, <2>2 DEF ApplyFill
    <2> QED
      BY <2>1, <2>2
  <1>6. OnTheChannel = {f.trade} \cup OnTheChannel'
    <2>1. ASSUME NEW u \in OnTheChannel
          PROVE  u = f.trade \/ u \in OnTheChannel'
      <3>1. PICK k \in 1..Len(fills) : u = fills[k].trade
        BY ChannelIs
      <3>2. CASE k # 1
        <4>1. k - 1 \in 1..Len(fills') /\ fills'[k - 1] = fills[(k - 1) + 1] /\ (k - 1) + 1 = k
          BY <1>3, <3>2
        <4> QED
          BY <1>3, <3>1, <4>1 DEF OnTheChannel
      <3> QED
        BY <1>3, <3>1, <3>2
    <2>2. ASSUME NEW u \in OnTheChannel'
          PROVE  u \in OnTheChannel
      <3>1. PICK i \in 1..(Len(fills) - 1) : u = fills'[i].trade
        BY <1>3 DEF OnTheChannel
      <3> QED
        BY <1>3, <3>1, ChannelIs
    <2>3. f.trade \in OnTheChannel
      BY <1>3, ChannelIs
    <2> QED
      BY <2>1, <2>2, <2>3
  <1>7. AppliedAddsUp' /\ SeenInv'
    <2>1. Moves' = Moves
      BY <1>2 DEF Moves
    <2>2. CASE Seen(f.trade)
      <3>1. UNCHANGED <<position, seen, applied>>
        BY <1>1, <2>2 DEF ApplyFill, trackerVars
      <3> QED
        BY <2>1, <3>1 DEF CountInv, AppliedAddsUp, SeenInv, Seen
    <2>3. CASE ~Seen(f.trade)
      <3>1. position' = position + Signed(f.order, f.qty) /\ Remember(f.trade)
        BY <1>1, <2>3 DEF ApplyFill
      <3>2. f.trade \notin applied /\ \A u \in applied : u < f.trade
        <4>1. Fresh(1)
          BY <1>3, <1>4, <2>3 DEF Fresh
        <4> QED
          BY <1>3, <1>4, <2>3, <4>1 DEF CountInv, ChannelInv
      <3>3. Moves[f.trade] = Signed(f.order, f.qty)
        BY <1>3 DEF Moves
      <3>4. SumFunctionOnSet(Moves, applied \cup {f.trade}) = SumFunctionOnSet(Moves, applied) + Moves[f.trade]
        <4>1. IsFiniteSet(applied) /\ \A i \in applied \cup {f.trade} : Moves[i] \in Int
          BY <1>3, AppliedIsFinite, MovesAre, CountTypes
        <4> QED
          BY <3>2, <4>1, SumPutsIn
      <3>5. AppliedAddsUp'
        BY <1>5, <2>1, <3>1, <3>3, <3>4 DEF CountInv, AppliedAddsUp
      <3>6. SeenInv'
        BY <1>3, <1>5, <3>1, <3>2, SeenWhenRemembered DEF CountInv
      <3> QED
        BY <3>5, <3>6
    <2> QED
      BY <2>2, <2>3
  <1>8. ChannelInv'
    <2> SUFFICES ASSUME NEW k \in 1..(Len(fills) - 1)
                 PROVE  /\ Fresh(k)' => /\ \A u \in applied' : u < fills'[k].trade
                                        /\ \A j \in 1..(k - 1) : fills'[j].trade < fills'[k].trade
                        /\ \A u \in applied' : u - fills'[k].trade < MaxSeenTrades
                        /\ \A j \in 1..(k - 1) : fills'[j].trade - fills'[k].trade < MaxSeenTrades
      BY <1>3 DEF ChannelInv
    <2>1. k + 1 \in 1..Len(fills) /\ fills'[k] = fills[k + 1] /\ 1 \in 1..((k + 1) - 1)
      BY <1>3
    <2>2. \A j \in 1..(k - 1) : j + 1 \in 1..((k + 1) - 1) /\ fills'[j] = fills[j + 1]
      BY <1>3
    <2>3. Fresh(k)' => Fresh(k + 1)
      <3> SUFFICES ASSUME Fresh(k)', NEW j \in 1..((k + 1) - 1)
                   PROVE  fills[k + 1].trade \notin applied /\ fills[j].trade # fills[k + 1].trade
        <4>1. Fresh(k)' => fills[k + 1].trade \notin applied /\ \A j \in 1..((k + 1) - 1) : fills[j].trade # fills[k + 1].trade
          <5>1. 1 \in 1..((k + 1) - 1)
            BY <2>1
          <5> QED
            BY <5>1
        <4> QED
          BY <4>1 DEF Fresh
      <3>1. fills'[k].trade \notin applied' /\ \A i \in 1..(k - 1) : fills'[i].trade # fills'[k].trade
        BY DEF Fresh
      <3>2. CASE j = 1
        BY <1>3, <1>5, <2>1, <3>1, <3>2
      <3>3. CASE j # 1
        <4>1. j - 1 \in 1..(k - 1) /\ (j - 1) + 1 = j
          BY <3>3
        <4>2. fills'[j - 1] = fills[j]
          BY <2>2, <4>1
        <4> QED
          BY <1>5, <2>1, <3>1, <4>1, <4>2
      <3> QED
        BY <3>2, <3>3
    <2>4. /\ \A u \in applied : u - fills[k + 1].trade < MaxSeenTrades
          /\ \A j \in 1..((k + 1) - 1) : fills[j].trade - fills[k + 1].trade < MaxSeenTrades
      BY <2>1 DEF CountInv, ChannelInv
    <2>5. Fresh(k + 1) => /\ \A u \in applied : u < fills[k + 1].trade
                          /\ \A j \in 1..((k + 1) - 1) : fills[j].trade < fills[k + 1].trade
      BY <2>1 DEF CountInv, ChannelInv
    <2>6. /\ \A u \in applied' : u - fills'[k].trade < MaxSeenTrades
          /\ \A j \in 1..(k - 1) : fills'[j].trade - fills'[k].trade < MaxSeenTrades
      BY <1>3, <1>5, <2>1, <2>2, <2>4
    <2>7. Fresh(k)' => /\ \A u \in applied' : u < fills'[k].trade
                       /\ \A j \in 1..(k - 1) : fills'[j].trade < fills'[k].trade
      BY <1>3, <1>5, <2>1, <2>2, <2>3, <2>5
    <2> QED
      BY <2>6, <2>7
  <1>9. LossesInv'
    <2>1. applied' \cup OnTheChannel' = applied \cup OnTheChannel
      BY <1>5, <1>6
    <2>2. Unheard' = Unheard
      BY <1>2, <2>1 DEF Unheard
    <2> QED
      BY <1>2, <2>1, <2>2 DEF CountInv, LossesInv
  <1> QED
    BY <1>7, <1>8, <1>9 DEF CountInv

LEMMA CountInvNext == TypeInv /\ TypeInv' /\ CountInv /\ [Next]_vars => CountInv'
  <1> SUFFICES ASSUME TypeInv, TypeInv', CountInv, [Next]_vars
               PROVE  CountInv'
    OBVIOUS
  <1>1. CASE UNCHANGED countVars
    BY <1>1, CountStays
  <1>2. ASSUME NEW o \in Orders, NEW qty, Execute(o, qty)
        PROVE  CountInv'
    BY <1>2, CountWhenExecuted
  <1>3. CASE VenueStep
    <2>1. ASSUME NEW o \in Orders, PlaceResting(o) \/ Cancel(o)
          PROVE  CountInv'
      BY <1>1, <2>1 DEF PlaceResting, Cancel, countVars, trackerVars
    <2> QED
      BY <1>2, <1>3, <2>1, CountWhenDropped DEF VenueStep, PlaceFilled, Trade
  <1>4. CASE TrackerStep
    <2>1. ASSUME NEW reply, OnAck(reply)
          PROVE  UNCHANGED countVars
      BY <2>1 DEF OnAck, countVars, venueVars, linkVars
    <2>2. ASSUME NEW u, ApplyRow(u)
          PROVE  UNCHANGED countVars
      BY <2>2 DEF ApplyRow, countVars, venueVars, linkVars
    <2>3. ApplyUpdate => UNCHANGED countVars
      BY DEF ApplyUpdate, countVars, venueVars
    <2> QED
      BY <1>1, <1>4, <2>1, <2>2, <2>3, CountWhenFilled DEF TrackerStep
  <1>5. CASE PollStep \/ UNCHANGED vars
    <2>1. UNCHANGED <<venueVars, linkVars, trackerVars>>
      BY <1>5 DEF PollStep, AskOrders, ReadAccount, AccountRefused, AccountFails, PublishAll, Publish, accountVars, vars
    <2> QED
      BY <1>1, <2>1 DEF countVars, venueVars, linkVars, trackerVars
  <1> QED
    BY <1>3, <1>4, <1>5, CountWhenResubscribed DEF Next

(* What was applied, what is on the channel and what nobody heard of are the
   trades, each once. *)
LEMMA TheCountIsTheVenues ==
    ASSUME TypeInv, CountInv
    PROVE  PositionIsTheVenues
  <1> DEFINE all == 1..Len(trades)
  <1>1. IsFiniteSet(all) /\ applied \subseteq all /\ \A i \in all : Moves[i] \in Int
    BY MovesAre DEF TypeInv, TypeOK, TrackerTypeOK
  <1>2. OnTheChannel \subseteq all
    BY CountTypes
  <1>3. Unapplied = OnTheChannel \ applied
    <2>1. \A u \in OnTheChannel : Seen(u) <=> u \in applied
      BY ChannelIs, WindowIsEnough
    <2> QED
      BY <2>1 DEF Unapplied
  <1>4. /\ applied \cap Unapplied = {} /\ (applied \cup Unapplied) \cap Unheard = {}
        /\ (applied \cup Unapplied) \cup Unheard = all
    BY <1>1, <1>2, <1>3 DEF Unheard
  <1> HIDE DEF all
  <1>5. IsFiniteSet(applied) /\ IsFiniteSet(Unapplied) /\ IsFiniteSet(Unheard) /\ IsFiniteSet(applied \cup Unapplied)
    <2>1. applied \subseteq all /\ Unapplied \subseteq all /\ Unheard \subseteq all /\ applied \cup Unapplied \subseteq all
      BY <1>4
    <2> QED
      BY <1>1, <2>1, FS_Subset
  <1>6. /\ \A i \in applied \cup Unapplied : Moves[i] \in Int
        /\ \A i \in (applied \cup Unapplied) \cup Unheard : Moves[i] \in Int
    BY <1>1, <1>4
  <1>7. SumFunctionOnSet(Moves, applied \cup Unapplied)
          = SumFunctionOnSet(Moves, applied) + SumFunctionOnSet(Moves, Unapplied)
    BY <1>4, <1>5, <1>6, SumOfTwo
  <1>8. SumFunctionOnSet(Moves, (applied \cup Unapplied) \cup Unheard)
          = SumFunctionOnSet(Moves, applied \cup Unapplied) + SumFunctionOnSet(Moves, Unheard)
    BY <1>4, <1>5, <1>6, SumOfTwo
  <1>9. VenuePosition = SumFunctionOnSet(Moves, (applied \cup Unapplied) \cup Unheard)
    BY <1>4, MovesAre DEF all
  <1> QED
    BY <1>7, <1>8, <1>9 DEF PositionIsTheVenues, CountInv, AppliedAddsUp

-----------------------------------------------------------------------------
(* What is believed of each order.  Sums of what executed of it.            *)

TradesOf(o) == {i \in 1..Len(trades) : trades[i].order = o}
Executed == [i \in 1..Len(trades) |-> trades[i].qty]
FilledBy(o, ids) == SumFunctionOnSet(Executed, TradesOf(o) \cap ids)
FilledOf(o) == SumFunctionOnSet(Executed, TradesOf(o))

(* The trades up to a moment. *)
Before(ts) == {i \in 1..Len(trades) : trades[i].ts <= ts}

LEMMA FilledIs ==
    ASSUME TypeInv, NEW o
    PROVE  /\ TradesOf(o) \subseteq 1..Len(trades) /\ IsFiniteSet(TradesOf(o))
           /\ \A i \in TradesOf(o) : Executed[i] \in Nat /\ Executed[i] = trades[i].qty
  <1>1. TradesOf(o) \subseteq 1..Len(trades)
    BY DEF TradesOf
  <1>2. IsFiniteSet(TradesOf(o))
    BY <1>1, MovesAre, FS_Subset
  <1> QED
    BY <1>1, <1>2, MovesAre DEF Executed

LEMMA FilledMore ==
    ASSUME TypeInv, NEW o, NEW ids, NEW more, TradesOf(o) \cap ids \subseteq more
    PROVE  FilledBy(o, ids) \in Nat /\ FilledBy(o, more) \in Nat /\ FilledBy(o, ids) <= FilledBy(o, more)
  <1> DEFINE S == TradesOf(o) \cap ids
             T == TradesOf(o) \cap more
  <1>1. IsFiniteSet(T) /\ S \subseteq T /\ \A x \in T : Executed[x] \in Nat
    BY FilledIs, FS_Subset
  <1> HIDE DEF S, T
  <1>2. SumFunctionOnSet(Executed, S) \in Nat /\ SumFunctionOnSet(Executed, T) \in Nat
        /\ SumFunctionOnSet(Executed, S) <= SumFunctionOnSet(Executed, T)
    BY <1>1, SumOfMore
  <1> QED
    BY <1>2 DEF FilledBy, S, T

LEMMA FilledAll ==
    ASSUME TypeInv, NEW o, NEW ids
    PROVE  /\ FilledBy(o, ids) <= FilledOf(o) /\ FilledBy(o, ids) \in Nat /\ FilledOf(o) \in Nat
           /\ TradesOf(o) \subseteq ids => FilledBy(o, ids) = FilledOf(o)
  <1>1. FilledOf(o) = FilledBy(o, TradesOf(o))
    <2>1. TradesOf(o) \cap TradesOf(o) = TradesOf(o)
      OBVIOUS
    <2> QED
      BY <2>1 DEF FilledOf, FilledBy
  <1>2. FilledBy(o, ids) <= FilledBy(o, TradesOf(o)) /\ FilledBy(o, ids) \in Nat /\ FilledBy(o, TradesOf(o)) \in Nat
    BY FilledMore
  <1>3. ASSUME TradesOf(o) \subseteq ids
        PROVE  FilledBy(o, ids) = FilledOf(o)
    <2>1. TradesOf(o) \cap ids = TradesOf(o)
      BY <1>3
    <2> QED
      BY <2>1 DEF FilledOf, FilledBy
  <1> QED
    BY <1>1, <1>2, <1>3

(* One more of the trades of an order adds its quantity. *)
LEMMA FilledWith ==
    ASSUME TypeInv, NEW o, NEW ids, NEW t \in TradesOf(o), t \notin ids
    PROVE  FilledBy(o, ids \cup {t}) = FilledBy(o, ids) + trades[t].qty
  <1> DEFINE S == TradesOf(o) \cap ids
  <1>1. IsFiniteSet(S) /\ t \notin S /\ \A x \in S \cup {t} : Executed[x] \in Int
    <2>1. S \subseteq TradesOf(o)
      OBVIOUS
    <2>2. IsFiniteSet(S)
      BY <2>1, FilledIs, FS_Subset
    <2>3. \A x \in TradesOf(o) : Executed[x] \in Int
      BY FilledIs
    <2> QED
      BY <2>1, <2>2, <2>3
  <1>2. TradesOf(o) \cap (ids \cup {t}) = S \cup {t}
    OBVIOUS
  <1> HIDE DEF S
  <1>3. SumFunctionOnSet(Executed, S \cup {t}) = SumFunctionOnSet(Executed, S) + Executed[t]
    BY <1>1, SumPutsIn
  <1>4. Executed[t] = trades[t].qty
    BY FilledIs
  <1> QED
    BY <1>2, <1>3, <1>4 DEF FilledBy, S

LEMMA FilledWithout ==
    ASSUME NEW o, NEW ids, NEW t, t \notin TradesOf(o)
    PROVE  FilledBy(o, ids \cup {t}) = FilledBy(o, ids)
  <1>1. TradesOf(o) \cap (ids \cup {t}) = TradesOf(o) \cap ids
    OBVIOUS
  <1> QED
    BY <1>1 DEF FilledBy

(* An execution leaves the sums over the trades before it. *)
LEMMA FilledAfterExecute ==
    ASSUME TypeInv, NEW o \in Orders, NEW qty \in Nat, Execute(o, qty)
    PROVE  /\ Len(trades) \in Nat /\ Len(trades') = Len(trades) + 1
           /\ trades'[Len(trades) + 1] = [trade |-> Len(trades) + 1, order |-> o, qty |-> qty, ts |-> now + 1]
           /\ \A i \in 1..Len(trades) : trades'[i] = trades[i]
           /\ TradesOf(o)' = TradesOf(o) \cup {Len(trades) + 1}
           /\ \A p \in Orders \ {o} : TradesOf(p)' = TradesOf(p)
           /\ \A p \in Orders, ids \in SUBSET (1..Len(trades)) : FilledBy(p, ids)' = FilledBy(p, ids)
           /\ FilledOf(o)' = FilledOf(o) + qty
           /\ \A p \in Orders \ {o} : FilledOf(p)' = FilledOf(p)
  <1> DEFINE trade == [trade |-> Len(trades) + 1, order |-> o, qty |-> qty, ts |-> now + 1]
  <1>1. trades' = Append(trades, trade)
    BY DEF Execute
  <1>2. /\ Len(trades) \in Nat /\ Len(trades') = Len(trades) + 1 /\ trades'[Len(trades) + 1] = trade
        /\ \A i \in 1..Len(trades) : trades'[i] = trades[i]
    BY <1>1, CountTypes, AppendedAny DEF TypeInv, TypeOK, TrackerTypeOK
  <1>3. TradesOf(o)' = TradesOf(o) \cup {Len(trades) + 1} /\ \A p \in Orders \ {o} : TradesOf(p)' = TradesOf(p)
    <2>1. 1..Len(trades') = 1..Len(trades) \cup {Len(trades) + 1}
      BY <1>2
    <2> QED
      BY <1>2, <2>1 DEF TradesOf
  <1>4. ASSUME NEW p \in Orders, NEW ids \in SUBSET (1..Len(trades))
        PROVE  FilledBy(p, ids)' = FilledBy(p, ids)
    <2> DEFINE S == TradesOf(p) \cap ids
    <2>1. TradesOf(p)' \cap ids = S
      BY <1>2, <1>3
    <2>2. IsFiniteSet(S) /\ \A i \in S : Executed[i] \in Int /\ Executed[i] = Executed'[i]
      <3>1. S \subseteq TradesOf(p)
        OBVIOUS
      <3>2. IsFiniteSet(S)
        BY <3>1, FilledIs, FS_Subset
      <3>3. \A i \in TradesOf(p) : Executed[i] \in Int /\ i \in 1..Len(trades)
        BY FilledIs
      <3>4. \A i \in 1..Len(trades) : Executed[i] = Executed'[i]
        BY <1>2 DEF Executed
      <3> QED
        BY <3>1, <3>2, <3>3, <3>4
    <2> HIDE DEF S
    <2>3. SumFunctionOnSet(Executed, S) = SumFunctionOnSet(Executed', S)
      BY <2>2, SumOfSame
    <2> QED
      BY <2>1, <2>3 DEF FilledBy, S
  <1>5. ASSUME NEW p \in Orders
        PROVE  SumFunctionOnSet(Executed', TradesOf(p)) = FilledOf(p)
    <2>1. IsFiniteSet(TradesOf(p)) /\ \A i \in TradesOf(p) : Executed[i] \in Int /\ Executed[i] = Executed'[i]
      <3>1. \A i \in TradesOf(p) : i \in 1..Len(trades)
        BY FilledIs
      <3>2. \A i \in 1..Len(trades) : Executed[i] = Executed'[i]
        BY <1>2 DEF Executed
      <3> QED
        BY <3>1, <3>2, FilledIs
    <2>2. SumFunctionOnSet(Executed, TradesOf(p)) = SumFunctionOnSet(Executed', TradesOf(p))
      BY <2>1, SumOfSame
    <2> QED
      BY <2>2 DEF FilledOf
  <1>6. FilledOf(o)' = FilledOf(o) + qty
    <2> DEFINE S == TradesOf(o)
               t == Len(trades) + 1
    <2>1. IsFiniteSet(S) /\ t \notin S /\ \A i \in S \cup {t} : Executed'[i] \in Int
      <3>1. IsFiniteSet(S) /\ t \notin 1..Len(trades) /\ S \subseteq 1..Len(trades)
        BY <1>2, FilledIs
      <3>2. \A i \in S : Executed'[i] \in Int
        <4>1. \A i \in 1..Len(trades) : Executed[i] = Executed'[i]
          BY <1>2 DEF Executed
        <4>2. \A i \in S : Executed[i] \in Int /\ i \in 1..Len(trades)
          BY FilledIs
        <4> QED
          BY <4>1, <4>2
      <3>3. Executed'[t] = qty
        BY <1>2 DEF Executed
      <3> QED
        BY <3>1, <3>2, <3>3
    <2>2. Executed'[t] = qty
      BY <1>2 DEF Executed
    <2>3. TradesOf(o)' = S \cup {t}
      BY <1>3
    <2> HIDE DEF S, t
    <2>4. SumFunctionOnSet(Executed', S \cup {t}) = SumFunctionOnSet(Executed', S) + Executed'[t]
      BY <2>1, SumPutsIn
    <2> QED
      BY <1>5, <2>2, <2>3, <2>4 DEF FilledOf, S
  <1>7. \A p \in Orders \ {o} : FilledOf(p)' = FilledOf(p)
    BY <1>3, <1>5 DEF FilledOf
  <1> QED
    BY <1>2, <1>3, <1>4, <1>6, <1>7

-----------------------------------------------------------------------------
(* The invariant of the orders.                                             *)

Ended(o) == venue[o].status \in Terminal
Known(o) == orders[o].status # "unknown"

(* What the venue has executed of an order is what it was filled; of an order
   it has not seen, nothing is believed. *)
SourceInv ==
    \A o \in Orders :
        /\ venue[o].filled = FilledOf(o)
        /\ venue[o].status = "live" => venue[o].filled < Size[o]
        /\ venue[o].status = "new" => orders[o] = Nobody

(* What is said of an order was so, and an end is final. *)
TrueUpdate(u) ==
    /\ venue[u.order].status # "new"
    /\ u.ts <= now
    /\ Size[u.order] - u.left <= FilledBy(u.order, Before(u.ts))
    /\ u.status \in Terminal => Ended(u.order)

TrueRow(u) ==
    /\ venue[u.order].status # "new"
    /\ u.status = "resting"
    /\ Size[u.order] - u.left <= venue[u.order].filled

TrueReply(r) ==
    /\ venue[r.order].status # "new"
    /\ r.order \notin Foreign
    /\ r.status = "filled" => Ended(r.order)
    /\ \A q \in replies : q.order = r.order => q = r
    /\ r.order \notin overtaken => ~Known(r.order)

SaidOfOrders == {updates[j] : j \in 1..Len(updates)}

ReportsInv ==
    /\ \A u \in SaidOfOrders : TrueUpdate(u)
    /\ \A u \in rows \cup open : TrueRow(u)
    /\ \A r \in replies : TrueReply(r)

(* Of an order whose news came in order: no more is counted than was applied of
   it, it is open while it rests, and ours are known once their reply is. *)
BelievedInv ==
    \A o \in Orders \ overtaken :
        /\ orders[o].filled <= FilledBy(o, applied)
        /\ venue[o].status = "live" /\ Known(o) => orders[o].status \in Live
        /\ venue[o].status # "new" /\ o \notin Foreign => Known(o) \/ \E r \in replies : r.order = o

(* While no socket has dropped, the channel still holds what the tracker has yet
   to learn: of another process's order that it rests, of any that it ended. *)
RestIsFirst(o) ==
    \E j \in 1..Len(updates) : /\ updates[j].order = o /\ updates[j].status = "resting"
                               /\ \A k \in 1..(j - 1) : updates[k].order # o

EndIsToCome(o) == \E j \in 1..Len(updates) : updates[j].order = o /\ updates[j].status \in Terminal

GaplessInv ==
    drops = 0 =>
        /\ link = "up"
        /\ \A o \in Foreign : venue[o].status # "new" /\ ~Known(o) => RestIsFirst(o)
        /\ \A o \in Orders \ overtaken : Ended(o) => orders[o].status \in Terminal \/ EndIsToCome(o)

OrdersInv == SourceInv /\ ReportsInv /\ BelievedInv /\ GaplessInv

LEMMA OrdersInvInit == Init => OrdersInv
  <1> SUFFICES ASSUME Init
               PROVE  OrdersInv
    OBVIOUS
  <1>1. Len(trades) = 0 /\ Len(updates) = 0 /\ rows = {} /\ open = {} /\ replies = {} /\ link = "up" /\ applied = {}
        /\ \A o \in Orders : venue[o] = [status |-> "new", filled |-> 0, placed |-> 0] /\ orders[o] = Nobody
    BY DEF Init, TrackerInit
  <1>2. \A o : FilledOf(o) = 0 /\ FilledBy(o, applied) = 0
    <2> TAKE o
    <2>1. TradesOf(o) = {} /\ TradesOf(o) \cap applied = {}
      BY <1>1 DEF TradesOf
    <2> QED
      BY <2>1, SumOfNone DEF FilledOf, FilledBy
  <1>3. SourceInv /\ BelievedInv
    BY <1>1, <1>2 DEF SourceInv, BelievedInv, Nobody, Known
  <1>4. ReportsInv
    BY <1>1 DEF ReportsInv, SaidOfOrders
  <1>5. GaplessInv
    BY <1>1, Constants DEF GaplessInv, Ended, Terminal
  <1> QED
    BY <1>3, <1>4, <1>5 DEF OrdersInv

(* What is appended to the channel of updates, and what is taken from it. *)
LEMMA UpdatesGrow ==
    ASSUME TypeInv, NEW frame, updates' = Said(updates, frame)
    PROVE  /\ \A j \in 1..Len(updates') : \/ j \in 1..Len(updates) /\ updates'[j] = updates[j]
                                          \/ updates'[j] = frame
           /\ \A j \in 1..Len(updates) : j \in 1..Len(updates') /\ updates'[j] = updates[j]
           /\ link = "up" => Len(updates) + 1 \in 1..Len(updates') /\ updates'[Len(updates) + 1] = frame
           /\ Len(updates) \in Nat
           /\ SaidOfOrders' \subseteq SaidOfOrders \cup {frame}
  <1>1. updates \in Seq(Updates) /\ Len(updates) \in Nat
    BY LenProperties DEF TypeInv, TypeOK, TrackerTypeOK
  <1>2. CASE link = "up"
    <2>1. /\ Len(updates') = Len(updates) + 1 /\ updates'[Len(updates) + 1] = frame
          /\ \A j \in 1..Len(updates) : updates'[j] = updates[j]
      BY <1>1, <1>2, AppendedAny DEF Said
    <2>2. \A j \in 1..Len(updates') : j \in 1..Len(updates) \/ j = Len(updates) + 1
      BY <1>1, <2>1
    <2>3. (\A j \in 1..Len(updates) : j \in 1..Len(updates')) /\ Len(updates) + 1 \in 1..Len(updates')
      BY <1>1, <2>1
    <2> QED
      BY <1>1, <2>1, <2>2, <2>3 DEF SaidOfOrders
  <1>3. CASE link # "up"
    BY <1>1, <1>3 DEF Said, SaidOfOrders
  <1> QED
    BY <1>2, <1>3

LEMMA StillToCome ==
    ASSUME TypeInv, NEW frame, updates' = Said(updates, frame), NEW o
    PROVE  (RestIsFirst(o) => RestIsFirst(o)') /\ (EndIsToCome(o) => EndIsToCome(o)')
  <1>1. ASSUME RestIsFirst(o)
        PROVE  RestIsFirst(o)'
    <2>1. PICK j \in 1..Len(updates) : /\ updates[j].order = o /\ updates[j].status = "resting"
                                       /\ \A k \in 1..(j - 1) : updates[k].order # o
      BY <1>1 DEF RestIsFirst
    <2>2. j \in 1..Len(updates') /\ updates'[j] = updates[j]
      BY UpdatesGrow
    <2>3. ASSUME NEW k \in 1..(j - 1)
          PROVE  updates'[k].order # o
      <3>1. k \in 1..Len(updates)
        BY UpdatesGrow
      <3>2. updates'[k] = updates[k]
        BY <3>1, UpdatesGrow
      <3> QED
        BY <2>1, <3>2
    <2> QED
      BY <2>1, <2>2, <2>3 DEF RestIsFirst
  <1>2. ASSUME EndIsToCome(o)
        PROVE  EndIsToCome(o)'
    <2>1. PICK j \in 1..Len(updates) : updates[j].order = o /\ updates[j].status \in Terminal
      BY <1>2 DEF EndIsToCome
    <2>2. j \in 1..Len(updates') /\ updates'[j] = updates[j]
      BY UpdatesGrow
    <2> QED
      BY <2>1, <2>2 DEF EndIsToCome
  <1> QED
    BY <1>1, <1>2

LEMMA UpdatesShrink ==
    ASSUME TypeInv, updates # <<>>, updates' = Tail(updates)
    PROVE  /\ Head(updates) \in Updates /\ Head(updates) = updates[1] /\ 1 \in 1..Len(updates) /\ Len(updates) \in Nat
           /\ \A j \in 1..Len(updates') : j + 1 \in 1..Len(updates) /\ updates'[j] = updates[j + 1]
           /\ \A j \in 1..Len(updates) : j # 1 => j - 1 \in 1..Len(updates') /\ updates'[j - 1] = updates[j]
           /\ Len(updates') = Len(updates) - 1
           /\ Head(updates) \in SaidOfOrders /\ SaidOfOrders' \subseteq SaidOfOrders
  <1>1. updates \in Seq(Updates)
    BY DEF TypeInv, TypeOK, TrackerTypeOK
  <1>2. /\ Head(updates) \in Updates /\ Head(updates) = updates[1] /\ Len(updates) \in Nat /\ Len(updates) >= 1
        /\ Len(updates') = Len(updates) - 1 /\ \A j \in 1..Len(updates') : updates'[j] = updates[j + 1]
    BY <1>1, Shortened
  <1>3. ASSUME NEW j \in 1..Len(updates), j # 1
        PROVE  j - 1 \in 1..Len(updates') /\ updates'[j - 1] = updates[j]
    <2>1. j - 1 \in 1..Len(updates') /\ (j - 1) + 1 = j
      BY <1>2, <1>3
    <2>2. updates'[j - 1] = updates[(j - 1) + 1]
      BY <1>2, <2>1
    <2> QED
      BY <2>1, <2>2
  <1>4. 1 \in 1..Len(updates) /\ \A j \in 1..Len(updates') : j + 1 \in 1..Len(updates)
    BY <1>2
  <1> QED
    BY <1>2, <1>3, <1>4 DEF SaidOfOrders

(* The channel moves on: of an order other than its head's nothing is lost. *)
LEMMA OthersToCome ==
    ASSUME TypeInv, updates # <<>>, updates' = Tail(updates), NEW o
    PROVE  /\ RestIsFirst(o) => \/ RestIsFirst(o)'
                                \/ Head(updates).order = o /\ Head(updates).status = "resting"
           /\ EndIsToCome(o) => \/ EndIsToCome(o)'
                                \/ Head(updates).order = o /\ Head(updates).status \in Terminal
  <1>1. ASSUME RestIsFirst(o), ~(Head(updates).order = o /\ Head(updates).status = "resting")
        PROVE  RestIsFirst(o)'
    <2>1. PICK j \in 1..Len(updates) : /\ updates[j].order = o /\ updates[j].status = "resting"
                                       /\ \A k \in 1..(j - 1) : updates[k].order # o
      BY <1>1 DEF RestIsFirst
    <2>2. j # 1
      BY <1>1, <2>1, UpdatesShrink
    <2>3. j - 1 \in 1..Len(updates') /\ updates'[j - 1] = updates[j]
      BY <2>2, UpdatesShrink
    <2>4. ASSUME NEW k \in 1..((j - 1) - 1)
          PROVE  updates'[k].order # o
      <3>1. k \in 1..Len(updates') /\ k + 1 \in 1..(j - 1)
        BY <2>3, UpdatesShrink
      <3>2. updates'[k] = updates[k + 1]
        BY <3>1, UpdatesShrink
      <3> QED
        BY <2>1, <3>1, <3>2
    <2> QED
      BY <2>1, <2>3, <2>4 DEF RestIsFirst
  <1>2. ASSUME EndIsToCome(o), ~(Head(updates).order = o /\ Head(updates).status \in Terminal)
        PROVE  EndIsToCome(o)'
    <2>1. PICK j \in 1..Len(updates) : updates[j].order = o /\ updates[j].status \in Terminal
      BY <1>2 DEF EndIsToCome
    <2>2. j # 1
      BY <1>2, <2>1, UpdatesShrink
    <2>3. j - 1 \in 1..Len(updates') /\ updates'[j - 1] = updates[j]
      BY <2>1, <2>2, UpdatesShrink
    <2> QED
      BY <2>1, <2>3 DEF EndIsToCome
  <1> QED
    BY <1>1, <1>2

(* Types of what the steps below compare. *)
LEMMA OrderFacts ==
    ASSUME TypeInv, NEW o \in Orders
    PROVE  /\ Size[o] \in Nat \ {0} /\ venue[o].filled \in Nat /\ venue[o].filled <= Size[o]
           /\ venue[o].status \in {"new", "live", "filled", "cancelled"}
           /\ venue[o].status = "new" => venue[o].filled = 0
           /\ orders[o] \in Tracked /\ orders[o].filled \in Nat
           /\ Left(o) = Size[o] - venue[o].filled
           /\ venue \in [Orders -> [status: {"new", "live"} \cup Terminal, filled: Nat, placed: Times]]
           /\ orders \in [Orders -> Tracked]
           /\ now \in Nat
  <1>1. venue \in [Orders -> [status: {"new", "live"} \cup Terminal, filled: Nat, placed: Times]]
        /\ orders \in [Orders -> Tracked] /\ now \in Nat
        /\ venue[o].filled <= IF venue[o].status = "new" THEN 0 ELSE Size[o]
    BY DEF TypeInv, TypeOK, TrackerTypeOK, Times
  <1>2. venue[o] \in [status: {"new", "live"} \cup Terminal, filled: Nat, placed: Times] /\ orders[o] \in Tracked
    BY <1>1
  <1>3. Size[o] \in Nat \ {0}
    BY Constants
  <1> QED
    BY <1>1, <1>2, <1>3 DEF Left, Terminal, Tracked

LEMMA FrameFacts ==
    ASSUME TypeInv
    PROVE  /\ \A u \in SaidOfOrders : u \in Updates /\ u.order \in Orders
           /\ \A u \in rows \cup open : u \in Updates /\ u.order \in Orders
           /\ \A r \in replies : r \in Replies /\ r.order \in Orders /\ r.status \in {"resting", "filled"}
           /\ \A u \in Updates : /\ u.order \in Orders /\ u.left \in Nat /\ u.left <= Size[u.order] /\ u.ts \in Nat
                                  /\ Size[u.order] - u.left \in Nat /\ u.status \in {"resting", "filled", "cancelled"}
  <1>1. updates \in Seq(Updates) /\ rows \cup open \subseteq Updates /\ replies \subseteq Replies
    BY DEF TypeInv, TypeOK, TrackerTypeOK
  <1>2. \A u \in Updates : /\ u.order \in Orders /\ u.left \in Nat /\ u.left <= Size[u.order] /\ u.ts \in Nat
                           /\ Size[u.order] - u.left \in Nat /\ u.status \in {"resting", "filled", "cancelled"}
    BY Constants DEF Updates, Times, Terminal
  <1>3. \A u \in SaidOfOrders : u \in Updates
    BY <1>1, ElementOfSeq DEF SaidOfOrders
  <1> QED
    BY <1>1, <1>2, <1>3 DEF Replies

(* When nothing trades, the sums stay. *)
LEMMA SumsStay ==
    ASSUME trades' = trades
    PROVE  \A o : /\ FilledOf(o)' = FilledOf(o)
                  /\ \A ids : FilledBy(o, ids)' = FilledBy(o, ids)
                  /\ \A ts : FilledBy(o, Before(ts))' = FilledBy(o, Before(ts))
  BY DEF FilledOf, FilledBy, Executed, TradesOf, Before

(* All trades are before the present. *)
LEMMA AllBefore ==
    ASSUME TypeInv, NEW o, NEW ts \in Nat, now <= ts
    PROVE  FilledBy(o, Before(ts)) = FilledOf(o)
  <1>1. ASSUME NEW i \in TradesOf(o)
        PROVE  i \in Before(ts)
    <2>1. i \in 1..Len(trades) /\ trades \in Seq(Fills)
      BY DEF TradesOf, TypeInv, TypeOK, TrackerTypeOK
    <2>2. trades[i] \in Fills /\ trades[i].ts <= now
      BY <2>1, ElementOfSeq DEF TypeInv, FramesInv
    <2>3. trades[i].ts \in Nat /\ now \in Nat
      BY <2>2 DEF Fills, Times, TypeInv, TypeOK, TrackerTypeOK
    <2> QED
      BY <2>1, <2>2, <2>3 DEF Before
  <1> QED
    BY <1>1, FilledAll

LEMMA OrdersWhenPlaced ==
    ASSUME TypeInv, OrdersInv, now < MaxEvents, NEW o \in Orders, PlaceResting(o), UNCHANGED pollVars
    PROVE  OrdersInv'
  <1> DEFINE frame == Report(o, "resting", Size[o])
             e == [status |-> "live", filled |-> 0, placed |-> now + 1]
             reply == [order |-> o, status |-> "resting"]
  <1>1. /\ venue[o].status = "new" /\ now' = now + 1 /\ updates' = Said(updates, frame)
        /\ replies' = IF o \in Foreign THEN replies ELSE replies \cup {reply}
        /\ UNCHANGED <<trades, link, fills, drops, rows, orders, position, seen, applied, overtaken, open>>
    BY DEF PlaceResting, trackerVars, pollVars
  <1>2. venue'[o] = e /\ \A p \in Orders \ {o} : venue'[p] = venue[p]
    BY OrderFacts DEF PlaceResting
  <1>3. frame.order = o /\ frame.status = "resting" /\ frame.left = Size[o] /\ frame.ts = now + 1
    BY DEF Report
  <1>4. \A p : FilledOf(p)' = FilledOf(p) /\ FilledBy(p, applied)' = FilledBy(p, applied)
        /\ \A ts : FilledBy(p, Before(ts))' = FilledBy(p, Before(ts))
    BY <1>1, SumsStay DEF FilledBy
  <1>5. orders[o] = Nobody /\ ~Known(o) /\ orders[o].filled = 0
    BY <1>1 DEF OrdersInv, SourceInv, Nobody, Known
  <1> HIDE DEF frame, e
  <1>6. SourceInv'
    <2> SUFFICES ASSUME NEW p \in Orders
                 PROVE  /\ venue'[p].filled = FilledOf(p)
                        /\ venue'[p].status = "live" => venue'[p].filled < Size[p]
                        /\ venue'[p].status = "new" => orders[p] = Nobody
      BY <1>1, <1>4 DEF SourceInv
    <2>1. CASE p = o
      <3>1. FilledOf(o) = 0
        BY <1>1, OrderFacts DEF OrdersInv, SourceInv
      <3> QED
        BY <1>2, <2>1, <3>1, OrderFacts DEF e
    <2>2. CASE p # o
      BY <1>2, <2>2 DEF OrdersInv, SourceInv
    <2> QED
      BY <2>1, <2>2
  <1>7. \A p \in Orders : (venue[p].status # "new" => venue'[p] = venue[p]) /\ (Ended(p) <=> Ended(p)')
    BY <1>1, <1>2 DEF Ended, Terminal, e
  <1>8. ReportsInv'
    <2>1. ASSUME NEW u \in SaidOfOrders'
          PROVE  TrueUpdate(u)'
      <3>1. CASE u \in SaidOfOrders
        <4>1. TrueUpdate(u) /\ u \in Updates /\ u.order \in Orders
          BY <3>1, FrameFacts DEF OrdersInv, ReportsInv
        <4>2. u.ts <= now + 1
          BY <4>1, FrameFacts, OrderFacts DEF TrueUpdate
        <4>3. venue'[u.order] = venue[u.order] /\ (Ended(u.order) <=> Ended(u.order)')
          BY <1>7, <4>1 DEF TrueUpdate
        <4> QED
          BY <1>1, <1>4, <4>1, <4>2, <4>3 DEF TrueUpdate
      <3>2. CASE u = frame
        <4>1. FilledBy(o, Before(u.ts))' \in Nat /\ Size[o] - Size[o] = 0
          BY <1>4, FilledAll, OrderFacts
        <4> QED
          BY <1>1, <1>2, <1>3, <3>2, <4>1, OrderFacts DEF TrueUpdate, Terminal, e
      <3> QED
        BY <1>1, <3>1, <3>2, UpdatesGrow
    <2>2. ASSUME NEW u \in rows \cup open
          PROVE  TrueRow(u)'
      BY <1>7, FrameFacts DEF OrdersInv, ReportsInv, TrueRow
    <2>3. ASSUME NEW r \in replies'
          PROVE  TrueReply(r)'
      <3>1. \A q \in replies : q.order # o /\ TrueReply(q) /\ q.order \in Orders
        BY <1>1, FrameFacts DEF OrdersInv, ReportsInv, TrueReply
      <3>2. CASE r \in replies
        <4>1. \A q \in replies' : q.order = r.order => q = r
          BY <1>1, <3>1, <3>2 DEF TrueReply
        <4> QED
          BY <1>1, <1>7, <3>1, <3>2, <4>1 DEF TrueReply, Known
      <3>3. CASE r = reply /\ o \notin Foreign
        <4>1. \A q \in replies' : q.order = r.order => q = r
          BY <1>1, <3>1, <3>3
        <4> QED
          BY <1>1, <1>2, <1>5, <3>3, <4>1 DEF TrueReply, Known, e
      <3> QED
        BY <1>1, <3>2, <3>3
    <2> QED
      BY <1>1, <2>1, <2>2, <2>3 DEF ReportsInv
  <1>9. BelievedInv'
    <2> HIDE DEF reply
    <2> SUFFICES ASSUME NEW p \in Orders \ overtaken
                 PROVE  /\ orders[p].filled <= FilledBy(p, applied)
                        /\ venue'[p].status = "live" /\ Known(p) => orders[p].status \in Live
                        /\ venue'[p].status # "new" /\ p \notin Foreign => Known(p) \/ \E r \in replies' : r.order = p
      BY <1>1, <1>4 DEF BelievedInv, Known
    <2>1. CASE p = o
      <3>1. o \notin Foreign => \E r \in replies' : r.order = o
        <4>1. reply.order = o
          BY DEF reply
        <4> QED
          BY <1>1, <4>1
      <3> QED
        BY <1>5, <2>1, <3>1, FilledAll
    <2>2. CASE p # o
      BY <1>1, <1>2, <2>2 DEF OrdersInv, BelievedInv
    <2> QED
      BY <2>1, <2>2
  <1>10. GaplessInv'
    <2> SUFFICES ASSUME drops = 0
                 PROVE  /\ link = "up"
                        /\ \A p \in Foreign : venue'[p].status # "new" /\ ~Known(p) => RestIsFirst(p)'
                        /\ \A p \in Orders \ overtaken : Ended(p)' => orders[p].status \in Terminal \/ EndIsToCome(p)'
      BY <1>1 DEF GaplessInv, Known
    <2>1. link = "up"
      BY DEF OrdersInv, GaplessInv
    <2>2. ASSUME NEW p \in Foreign, venue'[p].status # "new", ~Known(p)
          PROVE  RestIsFirst(p)'
      <3>1. CASE p = o
        <4>1. Len(updates) + 1 \in 1..Len(updates') /\ updates'[Len(updates) + 1] = frame /\ Len(updates) \in Nat
          BY <1>1, <2>1, UpdatesGrow
        <4>2. ASSUME NEW k \in 1..((Len(updates) + 1) - 1)
              PROVE  updates'[k].order # o
          <5>1. k \in 1..Len(updates)
            BY <4>1
          <5>2. updates'[k] = updates[k]
            BY <1>1, <5>1, UpdatesGrow
          <5> QED
            BY <1>1, <5>1, <5>2 DEF OrdersInv, ReportsInv, TrueUpdate, SaidOfOrders
        <4> QED
          BY <1>3, <3>1, <4>1, <4>2 DEF RestIsFirst
      <3>2. CASE p # o
        <4>1. RestIsFirst(p)
          BY <1>2, <2>2, <3>2, Constants DEF OrdersInv, GaplessInv
        <4> QED
          BY <1>1, <4>1, StillToCome
      <3> QED
        BY <3>1, <3>2
    <2>3. ASSUME NEW p \in Orders \ overtaken, Ended(p)'
          PROVE  orders[p].status \in Terminal \/ EndIsToCome(p)'
      <3>1. orders[p].status \in Terminal \/ EndIsToCome(p)
        BY <1>7, <2>3 DEF OrdersInv, GaplessInv
      <3> QED
        BY <1>1, <3>1, StillToCome
    <2> QED
      BY <2>1, <2>2, <2>3
  <1> QED
    BY <1>6, <1>8, <1>9, <1>10 DEF OrdersInv

LEMMA OrdersWhenExecuted ==
    ASSUME TypeInv, TypeInv', OrdersInv, now < MaxEvents, NEW o \in Orders, NEW qty \in Nat \ {0}, qty <= Left(o),
           Execute(o, qty), UNCHANGED pollVars,
           \/ /\ venue[o].status = "live" /\ replies' = replies
           \/ /\ venue[o].status = "new" /\ o \notin Foreign /\ qty = Left(o)
              /\ replies' = replies \cup {[order |-> o, status |-> "filled"]}
    PROVE  OrdersInv'
  <1> DEFINE frame == Report(o, IF qty = Left(o) THEN "filled" ELSE "resting", Left(o) - qty)
             e == ExecutedOrder(o, qty)
             reply == [order |-> o, status |-> "filled"]
  <1>1. /\ now' = now + 1 /\ updates' = Said(updates, frame)
        /\ UNCHANGED <<link, drops, rows, orders, position, seen, applied, overtaken, open>>
    BY DEF Execute, trackerVars, pollVars
  <1>2. venue'[o] = e /\ \A p \in Orders \ {o} : venue'[p] = venue[p]
    <2>1. now + 1 \in Times
      BY OrderFacts, Constants DEF Times
    <2> QED
      BY <2>1, VenueAfterExecute
  <1>3. /\ e.filled = venue[o].filled + qty /\ e.status = (IF qty = Left(o) THEN "filled" ELSE "live")
        /\ frame.order = o /\ frame.status = (IF qty = Left(o) THEN "filled" ELSE "resting")
        /\ frame.left = Left(o) - qty /\ frame.ts = now + 1
    BY DEF ExecutedOrder, Report
  <1>4. /\ \A p \in Orders, ids \in SUBSET (1..Len(trades)) : FilledBy(p, ids)' = FilledBy(p, ids)
        /\ FilledOf(o)' = FilledOf(o) + qty /\ \A p \in Orders \ {o} : FilledOf(p)' = FilledOf(p)
        /\ Len(trades) \in Nat /\ Len(trades') = Len(trades) + 1
        /\ trades'[Len(trades) + 1].ts = now + 1 /\ \A i \in 1..Len(trades) : trades'[i] = trades[i]
    <2>1. qty \in Nat
      OBVIOUS
    <2>2. trades'[Len(trades) + 1] = [trade |-> Len(trades) + 1, order |-> o, qty |-> qty, ts |-> now + 1]
      BY <2>1, FilledAfterExecute
    <2>3. trades'[Len(trades) + 1].ts = now + 1
      BY <2>2
    <2>4. \A p \in Orders, ids \in SUBSET (1..Len(trades)) : FilledBy(p, ids)' = FilledBy(p, ids)
      BY <2>1, FilledAfterExecute
    <2>5. FilledOf(o)' = FilledOf(o) + qty /\ \A p \in Orders \ {o} : FilledOf(p)' = FilledOf(p)
      BY <2>1, FilledAfterExecute
    <2>6. Len(trades) \in Nat /\ Len(trades') = Len(trades) + 1 /\ \A i \in 1..Len(trades) : trades'[i] = trades[i]
      BY <2>1, FilledAfterExecute
    <2> QED
      BY <2>3, <2>4, <2>5, <2>6
  <1>5. applied \in SUBSET (1..Len(trades))
    BY DEF TypeInv, TypeOK, TrackerTypeOK
  <1>6. venue[o].filled = FilledOf(o)
    BY DEF OrdersInv, SourceInv
  <1> HIDE DEF frame, e, reply
  <1>7. /\ \A p \in Orders : venue[p].status # "new" => venue'[p].status # "new" /\ (Ended(p) => Ended(p)')
        /\ Ended(o)' => qty = Left(o)
        /\ \A p \in Orders : venue[p].filled <= venue'[p].filled
        /\ \A p \in Orders \ {o} : Ended(p) <=> Ended(p)'
        /\ qty = Left(o) => Ended(o)'
    BY <1>2, <1>3, OrderFacts DEF Ended, Terminal
  <1>8. SourceInv'
    <2> SUFFICES ASSUME NEW p \in Orders
                 PROVE  /\ venue'[p].filled = FilledOf(p)'
                        /\ venue'[p].status = "live" => venue'[p].filled < Size[p]
                        /\ venue'[p].status = "new" => orders[p] = Nobody
      BY <1>1 DEF SourceInv
    <2>1. CASE p = o
      <3>1. venue'[o].filled = FilledOf(o)'
        BY <1>2, <1>3, <1>4, <1>6
      <3>2. venue'[o].status # "new"
        BY <1>2, <1>3
      <3>3. venue'[o].status = "live" => venue'[o].filled < Size[o]
        <4>1. venue[o].filled \in Nat /\ Size[o] \in Nat /\ Left(o) = Size[o] - venue[o].filled
          BY OrderFacts
        <4>2. venue'[o].status = "live" => qty < Left(o)
          BY <1>2, <1>3, <4>1
        <4> QED
          BY <1>2, <1>3, <4>1, <4>2
      <3> QED
        BY <2>1, <3>1, <3>2, <3>3
    <2>2. CASE p # o
      BY <1>2, <1>4, <2>2 DEF OrdersInv, SourceInv
    <2> QED
      BY <2>1, <2>2
  <1>9. ReportsInv'
    <2>1. ASSUME NEW u \in SaidOfOrders'
          PROVE  TrueUpdate(u)'
      <3>1. CASE u \in SaidOfOrders
        <4>1. TrueUpdate(u) /\ u \in Updates /\ u.order \in Orders /\ u.ts \in Nat
          BY <3>1, FrameFacts DEF OrdersInv, ReportsInv
        <4>2. u.ts <= now + 1 /\ u.ts < now + 1
          BY <4>1, OrderFacts DEF TrueUpdate
        <4>3. Before(u.ts)' = Before(u.ts) /\ Before(u.ts) \in SUBSET (1..Len(trades))
          <5>1. \A i \in 1..(Len(trades) + 1) : trades'[i].ts <= u.ts => i \in 1..Len(trades)
            BY <1>4, <4>1, <4>2, OrderFacts
          <5> QED
            BY <1>4, <5>1 DEF Before
        <4>4. FilledBy(u.order, Before(u.ts))' = FilledBy(u.order, Before(u.ts))
          <5>1. PICK ids \in SUBSET (1..Len(trades)) : ids = Before(u.ts) /\ ids = Before(u.ts)'
            BY <4>3
          <5>2. FilledBy(u.order, ids)' = FilledBy(u.order, ids)
            BY <1>4, <4>1
          <5> QED
            BY <5>1, <5>2 DEF FilledBy
        <4> QED
          BY <1>1, <1>7, <4>1, <4>2, <4>4 DEF TrueUpdate
      <3>2. CASE u = frame
        <4>1. FilledBy(u.order, Before(u.ts))' = FilledOf(o)'
          <5>1. u.order = o /\ u.ts = now' /\ now' = now + 1
            BY <1>1, <1>3, <3>2
          <5>2. \A i \in 1..Len(trades') : trades'[i].ts <= now'
            BY DEF TypeInv, FramesInv
          <5>3. TradesOf(o)' \cap Before(u.ts)' = TradesOf(o)'
            BY <5>1, <5>2 DEF TradesOf, Before
          <5> QED
            BY <5>1, <5>3 DEF FilledBy, FilledOf
        <4>2. Size[o] - u.left = FilledOf(o)' /\ FilledOf(o) \in Nat
          BY <1>3, <1>4, <1>6, <3>2, OrderFacts, FilledAll
        <4>3. u.ts = now + 1 /\ u.order = o /\ (u.status \in Terminal => Ended(o)') /\ venue'[o].status # "new"
          BY <1>2, <1>3, <1>7, <3>2 DEF Terminal
        <4>4. now + 1 <= now'
          BY <1>1, OrderFacts
        <4> QED
          BY <1>4, <4>1, <4>2, <4>3, <4>4 DEF TrueUpdate
      <3> QED
        BY <1>1, <3>1, <3>2, UpdatesGrow
    <2>2. ASSUME NEW u \in rows \cup open
          PROVE  TrueRow(u)'
      <3>1. TrueRow(u) /\ u.order \in Orders /\ Size[u.order] - u.left \in Nat
        BY FrameFacts DEF OrdersInv, ReportsInv
      <3>2. venue[u.order].filled \in Nat /\ venue'[u.order].filled \in Nat
        BY <1>2, <1>3, <3>1, OrderFacts
      <3> QED
        BY <1>7, <3>1, <3>2 DEF TrueRow
    <2>3. ASSUME NEW r \in replies'
          PROVE  TrueReply(r)'
      <3>1. \A q \in replies : TrueReply(q) /\ q.order \in Orders
        BY FrameFacts DEF OrdersInv, ReportsInv
      <3>2. CASE venue[o].status = "live"
        BY <1>1, <1>7, <3>1, <3>2 DEF TrueReply, Known
      <3>3. CASE venue[o].status = "new"
        <4>1. o \notin Foreign /\ qty = Left(o) /\ replies' = replies \cup {reply} /\ reply.order = o
          BY <3>3 DEF reply
        <4>2. \A q \in replies : q.order # o
          BY <3>1, <3>3 DEF TrueReply
        <4>3. CASE r \in replies
          <5>1. \A q \in replies' : q.order = r.order => q = r
            BY <3>1, <4>1, <4>2, <4>3 DEF TrueReply
          <5> QED
            BY <1>1, <1>7, <3>1, <4>3, <5>1 DEF TrueReply, Known
        <4>4. CASE r = reply
          <5>1. \A q \in replies' : q.order = r.order => q = r
            BY <4>1, <4>2, <4>4
          <5>2. ~Known(o)
            BY <3>3 DEF OrdersInv, SourceInv, Known, Nobody
          <5>3. venue'[o].status # "new"
            BY <1>2, <1>3
          <5> QED
            BY <1>1, <1>7, <4>1, <4>4, <5>1, <5>2, <5>3 DEF TrueReply, Known
        <4> QED
          BY <4>1, <4>3, <4>4
      <3> QED
        BY <3>2, <3>3
    <2> QED
      BY <1>1, <2>1, <2>2, <2>3 DEF ReportsInv
  <1>10. BelievedInv'
    <2> SUFFICES ASSUME NEW p \in Orders \ overtaken
                 PROVE  /\ orders[p].filled <= FilledBy(p, applied)
                        /\ venue'[p].status = "live" /\ Known(p) => orders[p].status \in Live
                        /\ venue'[p].status # "new" /\ p \notin Foreign => Known(p) \/ \E r \in replies' : r.order = p
      <3>1. \A p \in Orders : FilledBy(p, applied)' = FilledBy(p, applied)
        BY <1>1, <1>4, <1>5 DEF FilledBy
      <3> QED
        BY <1>1, <3>1 DEF BelievedInv, Known
    <2>1. orders[p].filled <= FilledBy(p, applied)
      BY DEF OrdersInv, BelievedInv
    <2>2. ASSUME venue'[p].status = "live", Known(p)
          PROVE  orders[p].status \in Live
      <3>1. venue[p].status = "live"
        <4>1. venue[o].status = "new" => ~Known(o)
          BY DEF OrdersInv, SourceInv, Known, Nobody
        <4> QED
          BY <1>2, <2>2, <4>1
      <3> QED
        BY <2>2, <3>1 DEF OrdersInv, BelievedInv
    <2>3. ASSUME venue'[p].status # "new", p \notin Foreign
          PROVE  Known(p) \/ \E r \in replies' : r.order = p
      <3>1. CASE venue[p].status # "new"
        BY <2>3, <3>1 DEF OrdersInv, BelievedInv
      <3>2. CASE venue[p].status = "new"
        <4>1. p = o /\ reply \in replies' /\ reply.order = o
          BY <1>2, <2>3, <3>2 DEF reply
        <4> QED
          BY <4>1
      <3> QED
        BY <3>1, <3>2
    <2> QED
      BY <2>1, <2>2, <2>3
  <1>11. GaplessInv'
    <2> SUFFICES ASSUME drops = 0
                 PROVE  /\ link = "up"
                        /\ \A p \in Foreign : venue'[p].status # "new" /\ ~Known(p) => RestIsFirst(p)'
                        /\ \A p \in Orders \ overtaken : Ended(p)' => orders[p].status \in Terminal \/ EndIsToCome(p)'
      BY <1>1 DEF GaplessInv, Known
    <2>1. link = "up"
      BY DEF OrdersInv, GaplessInv
    <2>2. ASSUME NEW p \in Foreign, venue'[p].status # "new", ~Known(p)
          PROVE  RestIsFirst(p)'
      <3>1. venue[p].status # "new"
        BY <1>2, <2>2, Constants
      <3>2. RestIsFirst(p)
        BY <2>2, <3>1 DEF OrdersInv, GaplessInv
      <3> QED
        BY <1>1, <3>2, StillToCome
    <2>3. ASSUME NEW p \in Orders \ overtaken, Ended(p)'
          PROVE  orders[p].status \in Terminal \/ EndIsToCome(p)'
      <3>1. CASE p = o
        <4>1. Len(updates) + 1 \in 1..Len(updates') /\ updates'[Len(updates) + 1] = frame
          BY <1>1, <2>1, UpdatesGrow
        <4>2. frame.order = o /\ frame.status \in Terminal
          BY <1>3, <1>7, <2>3, <3>1 DEF Terminal
        <4> QED
          BY <3>1, <4>1, <4>2 DEF EndIsToCome
      <3>2. CASE p # o
        <4>1. orders[p].status \in Terminal \/ EndIsToCome(p)
          BY <1>7, <2>3, <3>2 DEF OrdersInv, GaplessInv
        <4> QED
          BY <1>1, <4>1, StillToCome
      <3> QED
        BY <3>1, <3>2
    <2> QED
      BY <2>1, <2>2, <2>3
  <1> QED
    BY <1>8, <1>9, <1>10, <1>11 DEF OrdersInv

LEMMA OrdersWhenCancelled ==
    ASSUME TypeInv, OrdersInv, NEW o \in Orders, Cancel(o), UNCHANGED pollVars
    PROVE  OrdersInv'
  <1> DEFINE frame == Report(o, "cancelled", Left(o))
             e == [venue[o] EXCEPT !.status = "cancelled"]
  <1>1. /\ venue[o].status = "live" /\ now' = now + 1 /\ updates' = Said(updates, frame)
        /\ UNCHANGED <<trades, replies, link, fills, drops, rows, orders, position, seen, applied, overtaken, open>>
    BY DEF Cancel, trackerVars, pollVars
  <1>2. /\ venue'[o].status = "cancelled" /\ venue'[o].filled = venue[o].filled
        /\ \A p \in Orders \ {o} : venue'[p] = venue[p]
    BY OrderFacts DEF Cancel
  <1>3. frame.order = o /\ frame.status = "cancelled" /\ frame.left = Left(o) /\ frame.ts = now + 1
    BY DEF Report
  <1>4. \A p : FilledOf(p)' = FilledOf(p) /\ FilledBy(p, applied)' = FilledBy(p, applied)
        /\ \A ts : FilledBy(p, Before(ts))' = FilledBy(p, Before(ts))
    BY <1>1, SumsStay DEF FilledBy
  <1> HIDE DEF frame, e
  <1>5. /\ \A p \in Orders : (venue[p].status = "new") <=> (venue'[p].status = "new")
        /\ \A p \in Orders : Ended(p) => Ended(p)'
        /\ \A p \in Orders \ {o} : Ended(p)' => Ended(p)
        /\ \A p \in Orders : venue'[p].status = "live" => venue[p].status = "live"
        /\ \A p \in Orders : venue'[p].filled = venue[p].filled
    BY <1>1, <1>2 DEF Ended, Terminal
  <1>6. Ended(o)'
    BY <1>2 DEF Ended, Terminal
  <1>7. SourceInv'
    <2> SUFFICES ASSUME NEW p \in Orders
                 PROVE  /\ venue'[p].filled = FilledOf(p)
                        /\ venue'[p].status = "live" => venue'[p].filled < Size[p]
                        /\ venue'[p].status = "new" => orders[p] = Nobody
      BY <1>1, <1>4 DEF SourceInv
    <2> QED
      BY <1>5 DEF OrdersInv, SourceInv
  <1>8. ReportsInv'
    <2>1. ASSUME NEW u \in SaidOfOrders'
          PROVE  TrueUpdate(u)'
      <3>1. CASE u \in SaidOfOrders
        <4>1. TrueUpdate(u) /\ u \in Updates /\ u.order \in Orders
          BY <3>1, FrameFacts DEF OrdersInv, ReportsInv
        <4>2. u.ts <= now + 1
          BY <4>1, FrameFacts, OrderFacts DEF TrueUpdate
        <4> QED
          BY <1>1, <1>4, <1>5, <4>1, <4>2 DEF TrueUpdate
      <3>2. CASE u = frame
        <4>1. FilledBy(o, Before(u.ts))' = FilledOf(o)
          <5>1. now + 1 \in Nat /\ now <= now + 1 /\ u.ts = now + 1
            BY <1>3, <3>2, OrderFacts
          <5>2. FilledBy(o, Before(now + 1)) = FilledOf(o)
            BY <5>1, AllBefore
          <5> QED
            BY <1>4, <5>1, <5>2
        <4>2. Size[o] - u.left = FilledOf(o) /\ FilledOf(o) \in Nat
          BY <1>3, <3>2, OrderFacts, FilledAll DEF OrdersInv, SourceInv
        <4>3. Size[o] - u.left <= FilledBy(o, Before(u.ts))'
          BY <4>1, <4>2
        <4>4. now + 1 <= now' /\ venue'[o].status # "new"
          BY <1>1, <1>2, OrderFacts
        <4> QED
          BY <1>3, <1>6, <3>2, <4>3, <4>4 DEF TrueUpdate
      <3> QED
        BY <1>1, <3>1, <3>2, UpdatesGrow
    <2>2. ASSUME NEW u \in rows \cup open
          PROVE  TrueRow(u)'
      BY <1>5, FrameFacts DEF OrdersInv, ReportsInv, TrueRow
    <2>3. ASSUME NEW r \in replies
          PROVE  TrueReply(r)'
      BY <1>1, <1>5, FrameFacts DEF OrdersInv, ReportsInv, TrueReply, Known
    <2> QED
      BY <1>1, <2>1, <2>2, <2>3 DEF ReportsInv
  <1>9. BelievedInv'
    <2> SUFFICES ASSUME NEW p \in Orders \ overtaken
                 PROVE  /\ orders[p].filled <= FilledBy(p, applied)
                        /\ venue'[p].status = "live" /\ Known(p) => orders[p].status \in Live
                        /\ venue'[p].status # "new" /\ p \notin Foreign => Known(p) \/ \E r \in replies : r.order = p
      BY <1>1, <1>4 DEF BelievedInv, Known
    <2> QED
      BY <1>5 DEF OrdersInv, BelievedInv
  <1>10. GaplessInv'
    <2> SUFFICES ASSUME drops = 0
                 PROVE  /\ link = "up"
                        /\ \A p \in Foreign : venue'[p].status # "new" /\ ~Known(p) => RestIsFirst(p)'
                        /\ \A p \in Orders \ overtaken : Ended(p)' => orders[p].status \in Terminal \/ EndIsToCome(p)'
      BY <1>1 DEF GaplessInv, Known
    <2>1. link = "up"
      BY DEF OrdersInv, GaplessInv
    <2>2. ASSUME NEW p \in Foreign, venue'[p].status # "new", ~Known(p)
          PROVE  RestIsFirst(p)'
      <3>1. RestIsFirst(p)
        BY <1>5, <2>2, Constants DEF OrdersInv, GaplessInv
      <3> QED
        BY <1>1, <3>1, StillToCome
    <2>3. ASSUME NEW p \in Orders \ overtaken, Ended(p)'
          PROVE  orders[p].status \in Terminal \/ EndIsToCome(p)'
      <3>1. CASE p = o
        <4>1. Len(updates) + 1 \in 1..Len(updates') /\ updates'[Len(updates) + 1] = frame
          BY <1>1, <2>1, UpdatesGrow
        <4> QED
          BY <1>3, <3>1, <4>1 DEF EndIsToCome, Terminal
      <3>2. CASE p # o
        <4>1. orders[p].status \in Terminal \/ EndIsToCome(p)
          BY <1>5, <2>3, <3>2 DEF OrdersInv, GaplessInv
        <4> QED
          BY <1>1, <4>1, StillToCome
      <3> QED
        BY <3>1, <3>2
    <2> QED
      BY <2>1, <2>2, <2>3
  <1> QED
    BY <1>7, <1>8, <1>9, <1>10 DEF OrdersInv

(* A socket that drops takes part of what was said, and the gap is known. *)
LEMMA OrdersWhenDropped ==
    ASSUME TypeInv, OrdersInv, Drop, UNCHANGED pollVars
    PROVE  OrdersInv'
  <1>1. UNCHANGED <<venue, trades, now, replies, rows, orders, applied, overtaken, open>> /\ drops' = drops + 1
    BY DEF Drop, venueVars, trackerVars, pollVars
  <1>2. SaidOfOrders' \subseteq SaidOfOrders
    <2>1. PICK n \in 0..Len(updates) : updates' = SubSeq(updates, 1, n)
      BY DEF Drop
    <2>2. updates \in Seq(Updates) /\ Len(updates) \in Nat
      BY LenProperties DEF TypeInv, TypeOK, TrackerTypeOK
    <2>3. Len(updates') = (IF 1 <= n THEN n - 1 + 1 ELSE 0)
          /\ \A i \in 1..Len(updates') : updates'[i] = updates[1 + i - 1]
      BY <2>1, <2>2, CutShort
    <2>4. \A i \in 1..Len(updates') : i \in 1..Len(updates) /\ updates'[i] = updates[i]
      BY <2>1, <2>2, <2>3
    <2> QED
      BY <2>4 DEF SaidOfOrders
  <1>3. \A o : FilledOf(o)' = FilledOf(o) /\ FilledBy(o, applied)' = FilledBy(o, applied)
        /\ \A ts : FilledBy(o, Before(ts))' = FilledBy(o, Before(ts))
    BY <1>1, SumsStay DEF FilledBy
  <1>4. SourceInv' /\ BelievedInv'
    BY <1>1, <1>3 DEF OrdersInv, SourceInv, BelievedInv, Known
  <1>5. ReportsInv'
    <2>1. ASSUME NEW u \in SaidOfOrders'
          PROVE  TrueUpdate(u)'
      <3>1. TrueUpdate(u)
        BY <1>2 DEF OrdersInv, ReportsInv
      <3> QED
        BY <1>1, <1>3, <3>1 DEF TrueUpdate, Ended
    <2> QED
      BY <1>1, <2>1 DEF OrdersInv, ReportsInv, TrueRow, TrueReply, Known, Ended
  <1>6. GaplessInv'
    <2>1. drops \in Nat
      BY Constants DEF TypeInv, TypeOK, TrackerTypeOK
    <2> QED
      BY <1>1, <2>1 DEF GaplessInv
  <1> QED
    BY <1>4, <1>5, <1>6 DEF OrdersInv

(* What the orders' part of the invariant is about. *)
orderVars == <<venue, trades, now, replies, updates, rows, open, orders, applied, overtaken, drops>>

LEMMA OrdersStay ==
    ASSUME OrdersInv, UNCHANGED orderVars, link' = link \/ link' = "up"
    PROVE  OrdersInv'
  <1>1. UNCHANGED <<venue, trades, now, replies, updates, rows, open, orders, applied, overtaken, drops, SaidOfOrders>>
    BY DEF orderVars, SaidOfOrders
  <1>2. \A o : FilledOf(o)' = FilledOf(o) /\ FilledBy(o, applied)' = FilledBy(o, applied)
        /\ \A ts : FilledBy(o, Before(ts))' = FilledBy(o, Before(ts))
    BY <1>1, SumsStay DEF FilledBy
  <1>3. SourceInv' /\ BelievedInv'
    BY <1>1, <1>2 DEF OrdersInv, SourceInv, BelievedInv, Known
  <1>4. ReportsInv'
    <2>1. ASSUME NEW u \in SaidOfOrders
          PROVE  TrueUpdate(u)'
      BY <1>1, <1>2 DEF OrdersInv, ReportsInv, TrueUpdate, Ended
    <2> QED
      BY <1>1, <2>1 DEF OrdersInv, ReportsInv, TrueRow, TrueReply, Known, Ended
  <1>5. GaplessInv'
    <2>1. \A o : (RestIsFirst(o) <=> RestIsFirst(o)') /\ (EndIsToCome(o) <=> EndIsToCome(o)')
      BY <1>1 DEF RestIsFirst, EndIsToCome
    <2> QED
      BY <1>1, <2>1 DEF OrdersInv, GaplessInv, Known, Ended
  <1> QED
    BY <1>3, <1>4, <1>5 DEF OrdersInv

(* A reply that is recorded is the first its order is known by. *)
LEMMA OrdersWhenAcked ==
    ASSUME TypeInv, OrdersInv, NEW r, OnAck(r), UNCHANGED pollVars
    PROVE  OrdersInv'
  <1> DEFINE o == r.order
  <1>1. /\ r \in replies /\ replies' = replies \ {r} /\ orders' = [orders EXCEPT ![o] = Acked(r)]
        /\ UNCHANGED <<venue, trades, now, link, updates, drops, rows, applied, overtaken, open, SaidOfOrders>>
    BY DEF OnAck, venueVars, linkVars, pollVars, SaidOfOrders
  <1>2. /\ TrueReply(r) /\ o \in Orders /\ r.status \in {"resting", "filled"}
    BY <1>1, FrameFacts DEF OrdersInv, ReportsInv
  <1>3. /\ orders'[o].status = r.status /\ orders'[o].filled = 0 /\ Known(o)'
        /\ \A p \in Orders \ {o} : orders'[p] = orders[p] /\ (Known(p)' <=> Known(p))
    BY <1>1, <1>2, OrderFacts DEF Acked, Known
  <1>4. \A p : FilledOf(p)' = FilledOf(p) /\ FilledBy(p, applied)' = FilledBy(p, applied)
        /\ \A ts : FilledBy(p, Before(ts))' = FilledBy(p, Before(ts))
    BY <1>1, SumsStay DEF FilledBy
  <1> HIDE DEF o
  <1>5. \A q \in replies' : q \in replies /\ q.order # o /\ q.order \in Orders
    BY <1>1, <1>2, FrameFacts DEF TrueReply, o
  <1>6. SourceInv'
    BY <1>1, <1>2, <1>3, <1>4 DEF OrdersInv, SourceInv, TrueReply, o
  <1>7. ReportsInv'
    <2>1. ASSUME NEW u \in SaidOfOrders
          PROVE  TrueUpdate(u)'
      BY <1>1, <1>4 DEF OrdersInv, ReportsInv, TrueUpdate, Ended
    <2>2. ASSUME NEW q \in replies'
          PROVE  TrueReply(q)'
      <3>1. TrueReply(q) /\ (Known(q.order)' <=> Known(q.order)) /\ \A x \in replies' : x \in replies
        BY <1>3, <1>5 DEF OrdersInv, ReportsInv
      <3> QED
        BY <1>1, <3>1 DEF TrueReply, Ended
    <2> QED
      BY <1>1, <2>1, <2>2 DEF OrdersInv, ReportsInv, TrueRow
  <1>8. BelievedInv'
    <2> SUFFICES ASSUME NEW p \in Orders \ overtaken
                 PROVE  /\ orders'[p].filled <= FilledBy(p, applied)
                        /\ venue[p].status = "live" /\ Known(p)' => orders'[p].status \in Live
                        /\ venue[p].status # "new" /\ p \notin Foreign => Known(p)' \/ \E q \in replies' : q.order = p
      BY <1>1, <1>4 DEF BelievedInv, Known
    <2>1. CASE p = o
      <3>1. venue[o].status = "live" => r.status = "resting"
        BY <1>2 DEF TrueReply, Ended, Terminal, o
      <3>2. 0 <= FilledBy(o, applied)
        BY FilledAll
      <3> QED
        BY <1>3, <2>1, <3>1, <3>2 DEF Live
    <2>2. CASE p # o
      <3>1. \A q \in replies : q.order = p => q \in replies'
        BY <1>1, <2>2 DEF o
      <3> QED
        BY <1>3, <2>2, <3>1 DEF OrdersInv, BelievedInv
    <2> QED
      BY <2>1, <2>2
  <1>9. GaplessInv'
    <2>1. \A p : (RestIsFirst(p) <=> RestIsFirst(p)') /\ (EndIsToCome(p) <=> EndIsToCome(p)')
      BY <1>1 DEF RestIsFirst, EndIsToCome
    <2> SUFFICES ASSUME drops = 0
                 PROVE  /\ link = "up"
                        /\ \A p \in Foreign : venue[p].status # "new" /\ ~Known(p)' => RestIsFirst(p)
                        /\ \A p \in Orders \ overtaken : Ended(p) => orders'[p].status \in Terminal \/ EndIsToCome(p)
      BY <1>1, <2>1 DEF GaplessInv, Known, Ended
    <2>2. ASSUME NEW p \in Foreign, venue[p].status # "new", ~Known(p)'
          PROVE  RestIsFirst(p)
      BY <1>2, <1>3, <2>2, Constants DEF OrdersInv, GaplessInv, TrueReply, o
    <2>3. ASSUME NEW p \in Orders \ overtaken, Ended(p)
          PROVE  orders'[p].status \in Terminal \/ EndIsToCome(p)
      <3>1. orders[p].status \in Terminal \/ EndIsToCome(p)
        BY <2>3 DEF OrdersInv, GaplessInv
      <3>2. CASE p = o
        BY <1>2, <3>1, <3>2 DEF TrueReply, Known, Terminal, o
      <3>3. CASE p # o
        BY <1>3, <3>1, <3>3
      <3> QED
        BY <3>2, <3>3
    <2> QED
      BY <2>2, <2>3 DEF OrdersInv, GaplessInv
  <1> QED
    BY <1>6, <1>7, <1>8, <1>9 DEF OrdersInv

(* News of one order, whichever way it came. *)
LEMMA OrdersWhenTold ==
    ASSUME TypeInv, OrdersInv, NEW o \in Orders, NEW e,
           orders'[o] = e, \A p \in Orders \ {o} : orders'[p] = orders[p],
           UNCHANGED <<venue, trades, now, replies, drops, link, open>>,
           SaidOfOrders' \subseteq SaidOfOrders, rows' \subseteq rows,
           overtaken \subseteq overtaken',
           \A p \in Orders \ {o} : FilledBy(p, applied)' = FilledBy(p, applied),
           \A r \in replies : r.order = o => o \in overtaken',
           Known(o) => e.status # "unknown",
           venue[o].status = "new" => e = Nobody,
           o \notin overtaken' => e.filled <= FilledBy(o, applied)',
           o \notin overtaken' /\ venue[o].status = "live" /\ e.status # "unknown" => e.status \in Live,
           drops = 0 /\ o \in Foreign /\ venue[o].status # "new" /\ e.status = "unknown" => RestIsFirst(o)',
           drops = 0 /\ o \notin overtaken' /\ Ended(o) => e.status \in Terminal \/ EndIsToCome(o)',
           \A p \in Orders \ {o} : (RestIsFirst(p) => RestIsFirst(p)') /\ (EndIsToCome(p) => EndIsToCome(p)')
    PROVE  OrdersInv'
  <1>1. \A p : FilledOf(p)' = FilledOf(p)
        /\ \A ts : FilledBy(p, Before(ts))' = FilledBy(p, Before(ts))
    BY SumsStay
  <1>2. \A p \in Orders \ {o} : Known(p)' <=> Known(p)
    BY DEF Known
  <1>3. Known(o)' <=> e.status # "unknown"
    BY DEF Known
  <1>4. SourceInv'
    BY <1>1 DEF OrdersInv, SourceInv
  <1>5. ReportsInv'
    <2>1. ASSUME NEW u \in SaidOfOrders'
          PROVE  TrueUpdate(u)'
      BY <1>1 DEF OrdersInv, ReportsInv, TrueUpdate, Ended
    <2>2. ASSUME NEW q \in replies
          PROVE  TrueReply(q)'
      <3>1. TrueReply(q) /\ q.order \in Orders
        BY FrameFacts DEF OrdersInv, ReportsInv
      <3> QED
        BY <1>2, <3>1 DEF TrueReply, Ended
    <2> QED
      BY <2>1, <2>2 DEF OrdersInv, ReportsInv, TrueRow
  <1>6. BelievedInv'
    <2> SUFFICES ASSUME NEW p \in Orders \ overtaken'
                 PROVE  /\ orders'[p].filled <= FilledBy(p, applied)'
                        /\ venue[p].status = "live" /\ Known(p)' => orders'[p].status \in Live
                        /\ venue[p].status # "new" /\ p \notin Foreign => Known(p)' \/ \E q \in replies : q.order = p
      BY DEF BelievedInv, Known
    <2>1. /\ orders[p].filled <= FilledBy(p, applied)
          /\ venue[p].status = "live" /\ Known(p) => orders[p].status \in Live
          /\ venue[p].status # "new" /\ p \notin Foreign => Known(p) \/ \E q \in replies : q.order = p
      BY DEF OrdersInv, BelievedInv
    <2>2. CASE p = o
      BY <1>3, <2>1, <2>2
    <2>3. CASE p # o
      BY <1>2, <2>1, <2>3
    <2> QED
      BY <2>2, <2>3
  <1>7. GaplessInv'
    <2> SUFFICES ASSUME drops = 0
                 PROVE  /\ link = "up"
                        /\ \A p \in Foreign : venue[p].status # "new" /\ ~Known(p)' => RestIsFirst(p)'
                        /\ \A p \in Orders \ overtaken' : Ended(p) => orders'[p].status \in Terminal \/ EndIsToCome(p)'
      BY DEF GaplessInv, Known, Ended
    <2>1. ASSUME NEW p \in Foreign, venue[p].status # "new", ~Known(p)'
          PROVE  RestIsFirst(p)'
      <3>1. CASE p = o
        BY <1>3, <2>1, <3>1
      <3>2. CASE p # o
        BY <1>2, <2>1, <3>2, Constants DEF OrdersInv, GaplessInv
      <3> QED
        BY <3>1, <3>2
    <2>2. ASSUME NEW p \in Orders \ overtaken', Ended(p)
          PROVE  orders'[p].status \in Terminal \/ EndIsToCome(p)'
      <3>1. CASE p = o
        BY <2>2, <3>1
      <3>2. CASE p # o
        BY <2>2, <3>2 DEF OrdersInv, GaplessInv
      <3> QED
        BY <3>1, <3>2
    <2> QED
      BY <2>1, <2>2 DEF OrdersInv, GaplessInv
  <1> QED
    BY <1>4, <1>5, <1>6, <1>7 DEF OrdersInv

(* What is believed to be filled of a live order is less than the whole. *)
LEMMA LiveIsNotWhole ==
    ASSUME TypeInv, OrdersInv, NEW o \in Orders, NEW ids, venue[o].status = "live"
    PROVE  FilledBy(o, ids) < Size[o] /\ FilledBy(o, ids) \in Nat
  <1>1. FilledBy(o, ids) <= FilledOf(o) /\ FilledBy(o, ids) \in Nat
    BY FilledAll
  <1>2. FilledOf(o) = venue[o].filled /\ venue[o].filled < Size[o]
    BY DEF OrdersInv, SourceInv
  <1> QED
    BY <1>1, <1>2, OrderFacts

LEMMA OrdersWhenFilled ==
    ASSUME TypeInv, TypeInv', OrdersInv, CountInv, ApplyFill, UNCHANGED pollVars
    PROVE  OrdersInv'
  <1>1. PICK f : f = Head(fills)
    OBVIOUS
  <1>2. PICK o : o = f.order
    OBVIOUS
  <1>3. fills # <<>> /\ fills' = Tail(fills)
        /\ UNCHANGED <<venue, trades, now, replies, link, updates, drops, rows, open, SaidOfOrders>>
    BY DEF ApplyFill, venueVars, pollVars, SaidOfOrders
  <1>4. /\ f \in Fills /\ f = fills[1] /\ 1 \in 1..Len(fills) /\ f.trade \in 1..Len(trades) /\ f = trades[f.trade]
        /\ o \in Orders /\ f.qty \in Nat \ {0}
    <2>1. /\ Len(fills) \in Nat /\ Len(fills) >= 1 /\ f \in Fills /\ f = fills[1] /\ f.trade \in 1..Len(trades)
          /\ f = trades[f.trade]
      BY <1>1, <1>3, HeadFill
    <2>2. o \in Orders /\ f.qty \in Nat \ {0}
      BY <1>2, <2>1 DEF Fills
    <2> QED
      BY <2>1, <2>2
  <1>5. Seen(f.trade) <=> f.trade \in applied
    BY <1>4, WindowIsEnough
  <1>6. overtaken' = IF \E r \in replies : r.order = o THEN overtaken \cup {o} ELSE overtaken
    BY <1>1, <1>2 DEF ApplyFill, Overtakes
  <1>7. \A p : (RestIsFirst(p) <=> RestIsFirst(p)') /\ (EndIsToCome(p) <=> EndIsToCome(p)')
    BY <1>3 DEF RestIsFirst, EndIsToCome
  <1>8. CASE Seen(f.trade)
    <2>1. UNCHANGED <<orders, applied>>
      BY <1>1, <1>8 DEF ApplyFill, trackerVars
    <2>2. \A p : FilledBy(p, applied)' = FilledBy(p, applied)
      BY <1>3, <2>1, SumsStay DEF FilledBy
    <2>3. \A p \in Orders \ overtaken' : p \notin overtaken
      BY <1>6
    <2>4. /\ venue[o].status = "new" => orders[o] = Nobody
          /\ o \notin overtaken' => orders[o].filled <= FilledBy(o, applied)'
          /\ o \notin overtaken' /\ venue[o].status = "live" /\ orders[o].status # "unknown" => orders[o].status \in Live
          /\ drops = 0 /\ o \in Foreign /\ venue[o].status # "new" /\ orders[o].status = "unknown" => RestIsFirst(o)'
          /\ drops = 0 /\ o \notin overtaken' /\ Ended(o) => orders[o].status \in Terminal \/ EndIsToCome(o)'
      BY <1>4, <1>7, <2>2, <2>3 DEF OrdersInv, SourceInv, BelievedInv, GaplessInv, Known
    <2> QED
      BY <1>3, <1>4, <1>6, <1>7, <2>1, <2>2, <2>4, OrdersWhenTold DEF Known
  <1>9. CASE ~Seen(f.trade)
    <2> DEFINE e == Attribute(f)
               t == f.trade
    <2>1. orders' = [orders EXCEPT ![o] = e] /\ applied' = applied \cup {t} /\ t \notin applied
      BY <1>1, <1>2, <1>5, <1>9 DEF ApplyFill
    <2>2. orders'[o] = e /\ \A p \in Orders \ {o} : orders'[p] = orders[p]
      BY <1>4, <2>1, OrderFacts
    <2>3. t \in TradesOf(o) /\ \A p \in Orders \ {o} : t \notin TradesOf(p)
      BY <1>2, <1>4 DEF TradesOf
    <2>4. /\ FilledBy(o, applied)' = FilledBy(o, applied) + f.qty
          /\ \A p \in Orders \ {o} : FilledBy(p, applied)' = FilledBy(p, applied)
      <3>1. \A p : FilledBy(p, applied)' = FilledBy(p, applied \cup {t})
        BY <1>3, <2>1, SumsStay DEF FilledBy
      <3>2. FilledBy(o, applied \cup {t}) = FilledBy(o, applied) + f.qty
        <4>1. trades[t].qty = f.qty
          BY <1>4 DEF t
        <4>2. FilledBy(o, applied \cup {t}) = FilledBy(o, applied) + trades[t].qty
          BY <2>1, <2>3, FilledWith
        <4> QED
          BY <4>1, <4>2
      <3>3. \A p \in Orders \ {o} : FilledBy(p, applied \cup {t}) = FilledBy(p, applied)
        BY <2>3, FilledWithout
      <3> QED
        BY <3>1, <3>2, <3>3
    <2>5. orders[o] \in Tracked /\ orders[o].filled \in Nat /\ Size[o] \in Nat /\ FilledBy(o, applied) \in Nat
      BY <1>4, OrderFacts, FilledAll
    <2>6. /\ orders[o].status = "unknown" => e = orders[o]
          /\ orders[o].status # "unknown" =>
                /\ e.filled = orders[o].filled + f.qty
                /\ e.status = IF orders[o].filled + f.qty >= Size[o] THEN "filled"
                              ELSE IF orders[o].status \in Terminal THEN orders[o].status ELSE "partial"
      BY <1>2 DEF Attribute
    <2> HIDE DEF e, t
    <2>7. Known(o) => e.status # "unknown"
      BY <2>6 DEF Known, Terminal
    <2>8. venue[o].status = "new" => e = Nobody
      BY <1>4, <2>6 DEF OrdersInv, SourceInv, Nobody
    <2>9. ASSUME o \notin overtaken'
          PROVE  e.filled <= FilledBy(o, applied)'
      <3>1. orders[o].filled <= FilledBy(o, applied)
        BY <1>4, <1>6, <2>9 DEF OrdersInv, BelievedInv
      <3> QED
        BY <1>4, <2>4, <2>5, <2>6, <3>1
    <2>10. ASSUME o \notin overtaken', venue[o].status = "live", e.status # "unknown"
           PROVE  e.status \in Live
      <3>1. orders[o].status # "unknown" /\ orders[o].status \in Live
        BY <1>4, <1>6, <2>6, <2>10 DEF OrdersInv, BelievedInv, Known
      <3>2. FilledBy(o, applied \cup {t}) < Size[o] /\ FilledBy(o, applied \cup {t}) \in Nat
        BY <1>4, <2>10, LiveIsNotWhole
      <3>3. FilledBy(o, applied)' = FilledBy(o, applied \cup {t})
        BY <1>3, <2>1, SumsStay DEF FilledBy
      <3>4. ~(orders[o].filled + f.qty >= Size[o])
        BY <1>4, <2>5, <2>6, <2>9, <2>10, <3>1, <3>2, <3>3
      <3> QED
        BY <2>6, <3>1, <3>4 DEF Live, Terminal
    <2>11. drops = 0 /\ o \in Foreign /\ venue[o].status # "new" /\ e.status = "unknown" => RestIsFirst(o)'
      BY <1>7, <2>7 DEF OrdersInv, GaplessInv
    <2>12. ASSUME drops = 0, o \notin overtaken', Ended(o)
           PROVE  e.status \in Terminal \/ EndIsToCome(o)'
      <3>1. orders[o].status \in Terminal \/ EndIsToCome(o)
        BY <1>4, <1>6, <2>12 DEF OrdersInv, GaplessInv
      <3> QED
        BY <1>7, <2>6, <3>1 DEF Terminal
    <2>13. overtaken \subseteq overtaken' /\ \A r \in replies : r.order = o => o \in overtaken'
      BY <1>6
    <2> QED
      BY <1>3, <1>4, <1>7, <2>2, <2>4, <2>7, <2>8, <2>9, <2>10, <2>11, <2>12, <2>13, OrdersWhenTold
  <1> QED
    BY <1>8, <1>9

(* What a report may make of what is believed. *)
LEMMA UpdatedFacts ==
    ASSUME TypeInv, NEW u \in Updates
    PROVE  LET b == orders[u.order]
               e == Updated(u)
               venues == Size[u.order] - u.left
           IN  /\ b.status # "unknown" => e.status # "unknown"
               /\ b.status \in Terminal => e.status \in Terminal
               /\ u.status \notin Terminal => e.status # "unknown"
               /\ b.status # "unknown" /\ u.status \in Terminal => e.status \in Terminal
               /\ e.filled = b.filled \/ e.filled = venues
               /\ (/\ u.status \notin Terminal /\ b.status \in Live \cup {"unknown"}
                   /\ b.filled < Size[u.order] /\ venues < Size[u.order]) => e.status \in Live
  <1> DEFINE b == orders[u.order]
             venues == Size[u.order] - u.left
             filled == GreaterOf(b.filled, venues)
             status == IF u.status \in Terminal \/ u.ts >= b.last THEN u.status ELSE b.status
  <1>1. u.order \in Orders /\ u.status \in {"resting", "filled", "cancelled"} /\ venues \in Nat
    BY FrameFacts
  <1>2. b.filled \in Nat /\ b.status \in {"unknown"} \cup Live \cup Terminal
    BY <1>1, OrderFacts DEF Tracked
  <1>3. Updated(u) = IF b.status = "unknown" THEN (IF u.status \in Terminal THEN b ELSE Adopt(u))
                     ELSE IF b.status \in Terminal THEN b
                     ELSE [status |-> IF filled >= Size[u.order] /\ status \notin Terminal THEN "filled" ELSE status,
                           filled |-> filled,
                           last   |-> IF u.ts > b.last THEN u.ts ELSE b.last]
    BY UpdatedIs
  <1>4. filled = b.filled \/ filled = venues
    BY DEF GreaterOf
  <1>5. Adopt(u).status = u.status /\ Adopt(u).filled = venues
    BY DEF Adopt
  <1>6. Size[u.order] \in Nat
    BY <1>1, Constants
  <1> HIDE DEF b, venues, filled
  <1> SUFFICES /\ b.status # "unknown" => Updated(u).status # "unknown"
               /\ b.status \in Terminal => Updated(u).status \in Terminal
               /\ u.status \notin Terminal => Updated(u).status # "unknown"
               /\ b.status # "unknown" /\ u.status \in Terminal => Updated(u).status \in Terminal
               /\ Updated(u).filled = b.filled \/ Updated(u).filled = venues
               /\ (/\ u.status \notin Terminal /\ b.status \in Live \cup {"unknown"}
                   /\ b.filled < Size[u.order] /\ venues < Size[u.order]) => Updated(u).status \in Live
    BY DEF b, venues
  <1>7. CASE b.status = "unknown"
    BY <1>1, <1>3, <1>5, <1>7 DEF Live, Terminal
  <1>8. CASE b.status \in Terminal
    BY <1>3, <1>8 DEF Live, Terminal
  <1>9. CASE b.status \in Live
    <2>1. Updated(u).status = (IF filled >= Size[u.order] /\ status \notin Terminal THEN "filled" ELSE status)
          /\ Updated(u).filled = filled
      BY <1>3, <1>9 DEF Live, Terminal
    <2>2. status \in {u.status, b.status} /\ (u.status \in Terminal => status = u.status)
      OBVIOUS
    <2> HIDE DEF status
    <2> QED
      BY <1>1, <1>2, <1>4, <1>6, <1>9, <2>1, <2>2 DEF Live, Terminal
  <1> QED
    BY <1>2, <1>7, <1>8, <1>9

LEMMA OrdersWhenUpdated ==
    ASSUME TypeInv, OrdersInv, ApplyUpdate, UNCHANGED pollVars
    PROVE  OrdersInv'
  <1>1. PICK u : u = Head(updates)
    OBVIOUS
  <1>2. PICK o : o = u.order
    OBVIOUS
  <1>3. /\ updates # <<>> /\ updates' = Tail(updates) /\ orders' = [orders EXCEPT ![o] = Updated(u)]
        /\ UNCHANGED <<venue, trades, now, replies, link, drops, rows, applied, open>>
        /\ overtaken' = IF FillsMissing(u) \/ \E r \in replies : r.order = o THEN overtaken \cup {o} ELSE overtaken
    BY <1>1, <1>2 DEF ApplyUpdate, venueVars, pollVars, Overtakes
  <1>4. /\ u \in Updates /\ o \in Orders /\ TrueUpdate(u) /\ u.status \in {"resting", "filled", "cancelled"}
        /\ SaidOfOrders' \subseteq SaidOfOrders /\ u = updates[1] /\ 1 \in 1..Len(updates)
        /\ Size[o] - u.left \in Nat
    BY <1>1, <1>2, <1>3, UpdatesShrink, FrameFacts DEF OrdersInv, ReportsInv
  <1> DEFINE b == orders[o]
             e == Updated(u)
  <1>5. orders'[o] = e /\ \A p \in Orders \ {o} : orders'[p] = orders[p]
    BY <1>3, <1>4, OrderFacts
  <1>6. /\ b.status # "unknown" => e.status # "unknown"
        /\ b.status \in Terminal => e.status \in Terminal
        /\ u.status \notin Terminal => e.status # "unknown"
        /\ b.status # "unknown" /\ u.status \in Terminal => e.status \in Terminal
        /\ e.filled = b.filled \/ e.filled = Size[o] - u.left
        /\ (/\ u.status \notin Terminal /\ b.status \in Live \cup {"unknown"}
            /\ b.filled < Size[o] /\ Size[o] - u.left < Size[o]) => e.status \in Live
    BY <1>2, <1>4, UpdatedFacts
  <1> HIDE DEF e
  <1>7. \A p : FilledBy(p, applied)' = FilledBy(p, applied)
    BY <1>3, SumsStay DEF FilledBy
  <1>8. venue[o].status # "new"
    BY <1>2, <1>4 DEF TrueUpdate
  <1>9. ASSUME o \notin overtaken'
        PROVE  b.filled <= FilledBy(o, applied) /\ Size[o] - u.left <= FilledBy(o, applied)
    <2>1. b.filled <= FilledBy(o, applied)
      BY <1>3, <1>4, <1>9 DEF OrdersInv, BelievedInv
    <2>2. TradesOf(o) \cap Before(u.ts) \subseteq applied
      BY <1>2, <1>3, <1>9 DEF TradesOf, Before, FillsMissing
    <2>3. FilledBy(o, Before(u.ts)) <= FilledBy(o, applied) /\ FilledBy(o, Before(u.ts)) \in Nat
          /\ FilledBy(o, applied) \in Nat
      BY <2>2, FilledMore
    <2> QED
      BY <1>2, <1>4, <2>1, <2>3 DEF TrueUpdate
  <1>10. o \notin overtaken' => e.filled <= FilledBy(o, applied)'
    BY <1>6, <1>7, <1>9
  <1>11. ASSUME o \notin overtaken', venue[o].status = "live", e.status # "unknown"
         PROVE  e.status \in Live
    <2>1. u.status \notin Terminal
      BY <1>2, <1>4, <1>11 DEF TrueUpdate, Ended, Terminal
    <2>2. b.status \in Live \cup {"unknown"}
      BY <1>3, <1>4, <1>11 DEF OrdersInv, BelievedInv, Known
    <2>3. b.filled < Size[o] /\ Size[o] - u.left < Size[o]
      <3>1. FilledBy(o, applied) < Size[o] /\ FilledBy(o, applied) \in Nat
        BY <1>4, <1>11, LiveIsNotWhole
      <3> QED
        BY <1>4, <1>9, <1>11, <3>1, OrderFacts
    <2> QED
      BY <1>6, <2>1, <2>2, <2>3
  <1>12. ASSUME drops = 0, o \in Foreign, e.status = "unknown"
         PROVE  RestIsFirst(o)'
    <2>1. RestIsFirst(o) /\ u.status # "resting"
      BY <1>6, <1>8, <1>12 DEF OrdersInv, GaplessInv, Known, Terminal
    <2> QED
      BY <1>1, <1>3, <2>1, OthersToCome
  <1>13. ASSUME drops = 0, o \notin overtaken', Ended(o)
         PROVE  e.status \in Terminal \/ EndIsToCome(o)'
    <2>1. b.status \in Terminal \/ EndIsToCome(o)
      BY <1>3, <1>4, <1>13 DEF OrdersInv, GaplessInv
    <2>2. EndIsToCome(o) => EndIsToCome(o)' \/ u.status \in Terminal
      BY <1>1, <1>3, OthersToCome
    <2>3. CASE u.status \in Terminal
      <3>1. CASE b.status # "unknown"
        BY <1>6, <2>3, <3>1
      <3>2. CASE b.status = "unknown" /\ o \notin Foreign
        BY <1>3, <1>4, <1>8, <1>13, <3>2 DEF OrdersInv, BelievedInv, Known
      <3>3. CASE b.status = "unknown" /\ o \in Foreign
        <4>1. RestIsFirst(o)
          BY <1>8, <1>13, <3>3 DEF OrdersInv, GaplessInv, Known
        <4>2. PICK j \in 1..Len(updates) : /\ updates[j].order = o /\ updates[j].status = "resting"
                                           /\ \A k \in 1..(j - 1) : updates[k].order # o
          BY <4>1 DEF RestIsFirst
        <4>3. j # 1
          BY <1>4, <2>3, <4>2 DEF Terminal
        <4>4. 1 \in 1..(j - 1)
          BY <4>2, <4>3
        <4> QED
          BY <1>2, <1>4, <4>2, <4>4
      <3> QED
        BY <3>1, <3>2, <3>3
    <2> QED
      BY <1>6, <2>1, <2>2, <2>3
  <1>14. \A p \in Orders \ {o} : (RestIsFirst(p) => RestIsFirst(p)') /\ (EndIsToCome(p) => EndIsToCome(p)')
    BY <1>1, <1>2, <1>3, OthersToCome
  <1>15. overtaken \subseteq overtaken' /\ \A r \in replies : r.order = o => o \in overtaken'
    BY <1>3
  <1>16. Known(o) => e.status # "unknown"
    BY <1>6 DEF Known
  <1> HIDE DEF b
  <1> QED
    BY <1>3, <1>4, <1>5, <1>7, <1>8, <1>10, <1>11, <1>12, <1>13, <1>14, <1>15, <1>16, OrdersWhenTold

LEMMA OrdersWhenRow ==
    ASSUME TypeInv, OrdersInv, NEW u, ApplyRow(u), UNCHANGED pollVars
    PROVE  OrdersInv'
  <1>1. PICK o : o = u.order
    OBVIOUS
  <1>2. /\ u \in rows /\ rows' = rows \ {u} /\ orders' = [orders EXCEPT ![o] = Updated(u)]
        /\ UNCHANGED <<venue, trades, now, replies, link, updates, drops, applied, open, SaidOfOrders>>
        /\ overtaken' = IF FillsMissing(u) \/ \E r \in replies : r.order = o THEN overtaken \cup {o} ELSE overtaken
    BY <1>1 DEF ApplyRow, venueVars, linkVars, pollVars, Overtakes, SaidOfOrders
  <1>3. u \in Updates /\ o \in Orders /\ TrueRow(u) /\ Size[o] - u.left \in Nat
    BY <1>1, <1>2, FrameFacts DEF OrdersInv, ReportsInv
  <1>4. u.status = "resting" /\ venue[o].status # "new" /\ Size[o] - u.left <= venue[o].filled
    BY <1>1, <1>3 DEF TrueRow
  <1> DEFINE b == orders[o]
             e == Updated(u)
  <1>5. orders'[o] = e /\ \A p \in Orders \ {o} : orders'[p] = orders[p]
    BY <1>2, <1>3, OrderFacts
  <1>6. /\ b.status \in Terminal => e.status \in Terminal
        /\ e.status # "unknown"
        /\ e.filled = b.filled \/ e.filled = Size[o] - u.left
        /\ (/\ b.status \in Live \cup {"unknown"}
            /\ b.filled < Size[o] /\ Size[o] - u.left < Size[o]) => e.status \in Live
    BY <1>1, <1>3, <1>4, UpdatedFacts DEF Terminal
  <1> HIDE DEF e
  <1>7. \A p : /\ FilledBy(p, applied)' = FilledBy(p, applied)
               /\ RestIsFirst(p) <=> RestIsFirst(p)'
               /\ EndIsToCome(p) <=> EndIsToCome(p)'
    BY <1>2, SumsStay DEF FilledBy, RestIsFirst, EndIsToCome
  <1>8. ASSUME o \notin overtaken'
        PROVE  b.filled <= FilledBy(o, applied) /\ Size[o] - u.left <= FilledBy(o, applied)
    <2>1. b.filled <= FilledBy(o, applied)
      BY <1>2, <1>3, <1>8 DEF OrdersInv, BelievedInv
    <2>2. TradesOf(o) \subseteq applied
      BY <1>1, <1>2, <1>8 DEF TradesOf, FillsMissing
    <2>3. FilledBy(o, applied) = FilledOf(o)
      BY <2>2, FilledAll
    <2> QED
      BY <1>3, <1>4, <2>1, <2>3 DEF OrdersInv, SourceInv
  <1>9. o \notin overtaken' => e.filled <= FilledBy(o, applied)'
    BY <1>6, <1>7, <1>8
  <1>10. ASSUME o \notin overtaken', venue[o].status = "live"
         PROVE  e.status \in Live
    <2>1. b.status \in Live \cup {"unknown"}
      BY <1>2, <1>3, <1>10 DEF OrdersInv, BelievedInv, Known
    <2>2. b.filled < Size[o] /\ Size[o] - u.left < Size[o]
      <3>1. FilledBy(o, applied) < Size[o] /\ FilledBy(o, applied) \in Nat
        BY <1>3, <1>10, LiveIsNotWhole
      <3> QED
        BY <1>3, <1>8, <1>10, <3>1, OrderFacts
    <2> QED
      BY <1>6, <2>1, <2>2
  <1>11. ASSUME drops = 0, o \notin overtaken', Ended(o)
         PROVE  e.status \in Terminal \/ EndIsToCome(o)'
    BY <1>2, <1>3, <1>6, <1>7, <1>11 DEF OrdersInv, GaplessInv
  <1>12. overtaken \subseteq overtaken' /\ \A r \in replies : r.order = o => o \in overtaken'
    BY <1>2
  <1> HIDE DEF b
  <1> QED
    BY <1>2, <1>3, <1>4, <1>5, <1>6, <1>7, <1>9, <1>10, <1>11, <1>12, OrdersWhenTold

(* A poll lists the orders at rest as they are, and later hands the rows on. *)
LEMMA OrdersWhenPolled ==
    ASSUME TypeInv, OrdersInv, PollStep
    PROVE  OrdersInv'
  <1>1. UNCHANGED <<venue, trades, now, replies, link, updates, drops, orders, applied, overtaken, SaidOfOrders>>
    BY DEF PollStep, AskOrders, ReadAccount, AccountRefused, AccountFails, PublishAll, Publish, accountVars, venueVars,
           linkVars, trackerVars, SaidOfOrders
  <1>2. \A u \in rows' \cup open' : TrueRow(u)
    <2>1. CASE AskOrders
      <3>1. rows' = rows
        BY <2>1 DEF AskOrders, accountVars
      <3>2. ASSUME NEW u \in open'
            PROVE  TrueRow(u)
        <4>1. PICK o \in VenueLive : u = [order |-> o, status |-> "resting", left |-> Left(o), ts |-> venue[o].placed]
          BY <2>1, <3>2 DEF AskOrders
        <4>2. o \in Orders /\ venue[o].status = "live"
          BY DEF VenueLive
        <4>3. Size[o] - Left(o) = venue[o].filled /\ venue[o].filled \in Nat
          BY <4>2, OrderFacts
        <4> QED
          BY <4>1, <4>2, <4>3 DEF TrueRow
      <3> QED
        BY <3>1, <3>2 DEF OrdersInv, ReportsInv
    <2>2. CASE ReadAccount \/ AccountRefused \/ AccountFails
      <3>1. rows' = rows /\ open' \subseteq open
        BY <2>2 DEF ReadAccount, AccountRefused, AccountFails, accountVars
      <3> QED
        BY <3>1 DEF OrdersInv, ReportsInv
    <2>3. ASSUME NEW young, NEW sent \in SUBSET open, Publish(young, sent)
          PROVE  rows' \subseteq rows \cup open /\ open' = {}
      BY <2>3 DEF Publish
    <2>4. CASE PublishAll
      BY <2>3, <2>4 DEF PublishAll, OrdersInv, ReportsInv
    <2>5. CASE \E young \in SUBSET OpenOrders, sent \in SUBSET open : Publish(young, sent)
      BY <2>3, <2>5 DEF OrdersInv, ReportsInv
    <2> QED
      BY <2>1, <2>2, <2>4, <2>5 DEF PollStep
  <1>3. \A p : /\ FilledOf(p)' = FilledOf(p)
               /\ FilledBy(p, applied)' = FilledBy(p, applied)
               /\ \A ts : FilledBy(p, Before(ts))' = FilledBy(p, Before(ts))
    BY <1>1, SumsStay DEF FilledBy
  <1>4. \A p : (RestIsFirst(p) <=> RestIsFirst(p)') /\ (EndIsToCome(p) <=> EndIsToCome(p)')
    BY <1>1 DEF RestIsFirst, EndIsToCome
  <1>5. SourceInv' /\ BelievedInv'
    BY <1>1, <1>3 DEF OrdersInv, SourceInv, BelievedInv, Known
  <1>6. ReportsInv'
    <2>1. \A u \in SaidOfOrders : TrueUpdate(u)'
      BY <1>1, <1>3 DEF OrdersInv, ReportsInv, TrueUpdate, Ended
    <2>2. \A r \in replies : TrueReply(r)'
      BY <1>1 DEF OrdersInv, ReportsInv, TrueReply, Known, Ended
    <2>3. \A u \in rows' \cup open' : TrueRow(u)'
      BY <1>1, <1>2 DEF TrueRow
    <2> QED
      BY <1>1, <2>1, <2>2, <2>3 DEF ReportsInv
  <1>7. GaplessInv'
    BY <1>1, <1>4 DEF OrdersInv, GaplessInv, Known, Ended
  <1> QED
    BY <1>5, <1>6, <1>7 DEF OrdersInv

LEMMA OrdersInvNext ==
    ASSUME TypeInv, TypeInv', OrdersInv, CountInv, [Next]_vars
    PROVE  OrdersInv'
  <1>1. CASE VenueStep /\ UNCHANGED pollVars
    <2>1. ASSUME NEW o \in Orders, PlaceFilled(o), now < MaxEvents
          PROVE  OrdersInv'
      <3>1. Size[o] \in Nat \ {0} /\ Left(o) = Size[o]
        BY <2>1, OrderFacts DEF PlaceFilled
      <3>2. /\ Execute(o, Size[o]) /\ Size[o] <= Left(o) /\ venue[o].status = "new" /\ o \notin Foreign
            /\ replies' = replies \cup {[order |-> o, status |-> "filled"]}
        BY <2>1, <3>1 DEF PlaceFilled
      <3> QED
        BY <1>1, <2>1, <3>1, <3>2, OrdersWhenExecuted
    <2>2. ASSUME NEW o \in Orders, NEW qty \in 1..Size[o], Trade(o, qty), now < MaxEvents
          PROVE  OrdersInv'
      <3>1. qty \in Nat \ {0} /\ Execute(o, qty) /\ qty <= Left(o) /\ venue[o].status = "live" /\ replies' = replies
        BY <2>2, OrderFacts DEF Trade
      <3> QED
        BY <1>1, <2>2, <3>1, OrdersWhenExecuted
    <2> QED
      BY <1>1, <2>1, <2>2, OrdersWhenPlaced, OrdersWhenCancelled, OrdersWhenDropped DEF VenueStep
  <1>2. CASE TrackerStep /\ UNCHANGED pollVars
    BY <1>2, OrdersWhenAcked, OrdersWhenFilled, OrdersWhenUpdated, OrdersWhenRow DEF TrackerStep
  <1>3. CASE Resubscribe /\ UNCHANGED pollVars
    <2>1. UNCHANGED orderVars /\ link' = "up"
      BY <1>3 DEF Resubscribe, orderVars, venueVars, trackerVars, pollVars
    <2> QED
      BY <2>1, OrdersStay
  <1>4. CASE UNCHANGED vars
    <2>1. UNCHANGED orderVars /\ link' = link
      BY <1>4 DEF vars, accountVars, venueVars, linkVars, trackerVars, pollVars, orderVars
    <2> QED
      BY <2>1, OrdersStay
  <1> QED
    BY <1>1, <1>2, <1>3, <1>4, OrdersWhenPolled DEF Next

-----------------------------------------------------------------------------
(* What follows of the orders.                                              *)

LEMMA BelievedIsTrue ==
    ASSUME TypeInv, OrdersInv
    PROVE  InOrderNeverOverfilled /\ OwnOrdersAreCounted
  <1>1. ASSUME NEW o \in Orders \ overtaken
        PROVE  orders[o].filled <= venue[o].filled
    <2>1. orders[o].filled <= FilledBy(o, applied) /\ venue[o].filled = FilledOf(o)
      BY DEF OrdersInv, BelievedInv, SourceInv
    <2>2. FilledBy(o, applied) <= FilledOf(o) /\ FilledBy(o, applied) \in Nat /\ FilledOf(o) \in Nat
      BY FilledAll
    <2> QED
      BY <2>1, <2>2, OrderFacts
  <1>2. OwnOrdersAreCounted
    BY DEF OwnOrdersAreCounted, VenueLive, OpenOrders, OrdersInv, BelievedInv
  <1> QED
    BY <1>1, <1>2 DEF InOrderNeverOverfilled

LEMMA SettledIsTrue ==
    ASSUME TypeInv, OrdersInv
    PROVE  SettledIsTheVenues
  <1> SUFFICES ASSUME replies = {}, updates = <<>>, drops = 0, NEW o \in Orders \ overtaken
               PROVE  o \in OpenOrders <=> o \in VenueLive
    BY DEF SettledIsTheVenues
  <1>1. ~RestIsFirst(o) /\ ~EndIsToCome(o)
    <2>1. Len(updates) = 0
      OBVIOUS
    <2> QED
      BY <2>1 DEF RestIsFirst, EndIsToCome
  <1>2. CASE venue[o].status = "new"
    BY <1>2 DEF OrdersInv, SourceInv, Nobody, OpenOrders, VenueLive, Live
  <1>3. CASE venue[o].status = "live"
    <2>1. Known(o)
      BY <1>1, <1>3 DEF OrdersInv, BelievedInv, GaplessInv
    <2> QED
      BY <1>3, <2>1 DEF OrdersInv, BelievedInv, OpenOrders, VenueLive
  <1>4. CASE Ended(o)
    <2>1. orders[o].status \in Terminal
      BY <1>1, <1>4 DEF OrdersInv, GaplessInv
    <2> QED
      BY <1>4, <2>1 DEF Ended, Terminal, OpenOrders, VenueLive, Live
  <1> QED
    BY <1>2, <1>3, <1>4, OrderFacts DEF Ended, Terminal

-----------------------------------------------------------------------------

IInv == TypeInv /\ CountInv /\ OrdersInv

LEMMA IInvAlways == Spec => []IInv
  <1>1. Init => IInv
    BY TypeInvInit, CountInvInit, OrdersInvInit DEF IInv
  <1>2. IInv /\ [Next]_vars => IInv'
    <2> SUFFICES ASSUME IInv, [Next]_vars
                 PROVE  IInv'
      OBVIOUS
    <2>1. TypeInv'
      BY TypeInvNext DEF IInv
    <2> QED
      BY <2>1, CountInvNext, OrdersInvNext DEF IInv
  <1> QED
    BY <1>1, <1>2, PTL DEF Spec

(* However the reply to a placement, the fills, the order updates and the rows
   of a poll interleave, and whatever a socket that drops takes with it and the
   next one replays: each execution counts once in the position (tracker.rs
   apply_fill and its window of seen trade ids), an order whose news came in
   order is not believed more filled than it is, and a resting order of ours is
   on the book from its reply on (failure mode 4). *)
THEOREM AccountIsKept == Spec => []AccountInv
  <1>1. IInv => AccountInv
    BY TheCountIsTheVenues, BelievedIsTrue DEF IInv, TypeInv, TypeOK, AccountInv, TrackerInv
  <1> QED
    BY <1>1, IInvAlways, PTL

(* While no socket has dropped, once everything that was sent is applied the
   tracker's open orders are the venue's, another process's included
   (apply_update adopts what it does not know, failure mode 2). *)
THEOREM SettlesOnTheVenues == Spec => []SettledIsTheVenues
  <1>1. IInv => SettledIsTheVenues
    BY SettledIsTrue DEF IInv
  <1> QED
    BY <1>1, IInvAlways, PTL
=============================================================================
