-------------------------- MODULE TargetBookProofs --------------------------
(***************************************************************************)
(* Proofs about TargetBook, for every session that can be configured, any  *)
(* number of producers and symbols, and every bound: BookInv.  An          *)
(* instrument answers to one producer where overlap is exclusive, no id    *)
(* is sent for two decisions of a kind, and the allocation fits into the   *)
(* budgets, the limits and the breadth.  What the model's functions say of *)
(* one claim is carried to a weight by the lemmas about sums, and what     *)
(* they say of one record to the records of a pass by StatedIs.            *)
(***************************************************************************)
EXTENDS TargetBook, FiniteSetTheorems, WellFoundedInduction, SequenceTheorems, FunctionTheorems, TLAPS

-----------------------------------------------------------------------------
(* Sums over finite sets: the fold that adds a function's values up depends  *)
(* on no order, and changes by what one element adds.  Induction is by the   *)
(* smallest counterexample.                                                  *)

LEMMA LeastNumber ==
    ASSUME NEW T \in SUBSET Nat, T # {}
    PROVE  \E m \in T : \A n \in T : m <= n
  <1> DEFINE R == {ss \in Nat \X Nat : ss[1] < ss[2]}
  <1>1. IsWellFoundedOn(R, Nat)
    BY NatLessThanWellFounded DEF OpToRel
  <1>2. PICK m \in T : \A n \in T : <<n, m>> \notin R
    <2> HIDE DEF R
    <2> QED
      BY <1>1, WFMin
  <1>3. ASSUME NEW n \in T
        PROVE  m <= n
    <2>1. <<n, m>> \in Nat \X Nat /\ <<n, m>>[1] = n /\ <<n, m>>[2] = m
      OBVIOUS
    <2>2. ~(n < m)
      BY <1>2, <2>1
    <2> QED
      BY <2>2
  <1> QED
    BY <1>3

LEMMA LeastSubset ==
    ASSUME NEW S, IsFiniteSet(S), NEW family \in SUBSET SUBSET S, family # {}
    PROVE  \E T \in family : \A U \in family : U \subseteq T => U = T
  <1> DEFINE R == StrictSubsetOrdering(S)
  <1>1. IsWellFoundedOn(R, FiniteSubsetsOf(S)) /\ FiniteSubsetsOf(S) = SUBSET S
    BY FS_StrictSubsetOrderingWellFounded, FS_FiniteSubsetsOfFinite
  <1>2. PICK T \in family : \A U \in family : <<U, T>> \notin R
    <2> HIDE DEF R
    <2> QED
      BY <1>1, WFMin
  <1>3. ASSUME NEW U \in family, U \subseteq T
        PROVE  U = T
    <2>1. <<U, T>> \in (SUBSET S) \X (SUBSET S) /\ <<U, T>>[1] = U /\ <<U, T>>[2] = T
      OBVIOUS
    <2>2. ~(U # T)
      BY <1>2, <1>3, <2>1 DEF StrictSubsetOrdering
    <2> QED
      BY <2>2
  <1> QED
    BY <1>3

Pick(s) == CHOOSE x \in s : TRUE

LEMMA PickIn ==
    ASSUME NEW s, s # {}
    PROVE  Pick(s) \in s
  BY DEF Pick

AddsUp(f, F, D) == f = [s \in D |-> IF s = {} THEN 0 ELSE F[Pick(s)] + f[s \ {Pick(s)}]]

LEMMA SumUnfolds ==
    ASSUME NEW F, NEW S
    PROVE  SumFunctionOnSet(F, S) = (CHOOSE f : AddsUp(f, F, SUBSET S))[S]
  BY DEF SumFunctionOnSet, FoldFunctionOnSet, MapThenFoldSet, AddsUp, Pick

LEMMA SomeFunctionAddsUp ==
    ASSUME NEW F, NEW S, IsFiniteSet(S)
    PROVE  \E f : AddsUp(f, F, SUBSET S)
  <1> DEFINE D(n) == {T \in SUBSET S : Cardinality(T) <= n}
             bad == {n \in Nat : ~\E f : AddsUp(f, F, D(n))}
  <1>1. ASSUME NEW T \in SUBSET S
        PROVE  IsFiniteSet(T) /\ Cardinality(T) \in Nat /\ Cardinality(T) <= Cardinality(S)
               /\ (Cardinality(T) = 0 <=> T = {})
    BY FS_Subset, FS_CardinalityType, FS_EmptySet
  <1>2. SUFFICES bad = {}
    <2>1. D(Cardinality(S)) = SUBSET S /\ Cardinality(S) \in Nat
      BY <1>1, FS_CardinalityType
    <2> QED
      BY <1>2, <2>1
  <1>3. SUFFICES ASSUME bad # {}
                 PROVE  FALSE
    OBVIOUS
  <1>4. PICK n \in bad : \A k \in bad : n <= k
    BY <1>3, LeastNumber
  <1>5. CASE n = 0
    <2>1. \A T \in D(0) : T = {}
      BY <1>1
    <2> DEFINE f == [s \in D(0) |-> 0]
    <2>2. f = [s \in D(0) |-> IF s = {} THEN 0 ELSE F[Pick(s)] + f[s \ {Pick(s)}]]
      BY <2>1
    <2>3. AddsUp(f, F, D(0))
      BY <2>2 DEF AddsUp
    <2> QED
      BY <1>4, <1>5, <2>3
  <1>6. CASE n # 0
    <2>1. n - 1 \in Nat /\ n - 1 \notin bad
      <3>1. n \in Nat /\ n - 1 \in Nat /\ ~(n <= n - 1)
        BY <1>4, <1>6
      <3> HIDE DEF bad
      <3> QED
        BY <1>4, <3>1
    <2>2. PICK f : AddsUp(f, F, D(n - 1))
      BY <2>1
    <2> DEFINE g == [s \in D(n) |-> IF s = {} THEN 0 ELSE F[Pick(s)] + f[s \ {Pick(s)}]]
    <2>3. ASSUME NEW T \in D(n), T # {}
          PROVE  g[T \ {Pick(T)}] = f[T \ {Pick(T)}]
      <3>1. Pick(T) \in T
        BY <2>3, PickIn
      <3>2. T \ {Pick(T)} \in SUBSET S /\ Cardinality(T \ {Pick(T)}) = Cardinality(T) - 1
        BY <1>1, <3>1, FS_RemoveElement
      <3>3. T \ {Pick(T)} \in D(n - 1) /\ T \ {Pick(T)} \in D(n)
        BY <1>1, <3>2
      <3> DEFINE U == T \ {Pick(T)}
      <3>4. f[U] = IF U = {} THEN 0 ELSE F[Pick(U)] + f[U \ {Pick(U)}]
        <4> HIDE DEF D
        <4> HIDE DEF U
        <4>1. f = [s \in D(n - 1) |-> IF s = {} THEN 0 ELSE F[Pick(s)] + f[s \ {Pick(s)}]]
          BY <2>2 DEF AddsUp
        <4>2. U \in D(n - 1)
          BY <3>3 DEF U
        <4> QED
          BY <4>1, <4>2
      <3>5. g[U] = IF U = {} THEN 0 ELSE F[Pick(U)] + f[U \ {Pick(U)}]
        BY <3>3
      <3> QED
        BY <3>4, <3>5
    <2>4. AddsUp(g, F, D(n))
      <3> HIDE DEF D
      <3>1. g = [s \in D(n) |-> IF s = {} THEN 0 ELSE F[Pick(s)] + g[s \ {Pick(s)}]]
        BY <2>3
      <3> QED
        BY <3>1 DEF AddsUp
    <2> QED
      BY <1>4, <2>4
  <1> QED
    BY <1>5, <1>6

LEMMA SumIs ==
    ASSUME NEW F, NEW S, IsFiniteSet(S)
    PROVE  \E f : AddsUp(f, F, SUBSET S) /\ SumFunctionOnSet(F, S) = f[S]
  BY SumUnfolds, SomeFunctionAddsUp

LEMMA AddsUpAt ==
    ASSUME NEW F, NEW S, NEW f, AddsUp(f, F, SUBSET S), NEW T \in SUBSET S
    PROVE  f[T] = IF T = {} THEN 0 ELSE F[Pick(T)] + f[T \ {Pick(T)}]
  <1>1. f = [s \in SUBSET S |-> IF s = {} THEN 0 ELSE F[Pick(s)] + f[s \ {Pick(s)}]]
    BY DEF AddsUp
  <1> QED
    BY <1>1

(* Two that add up agree wherever both do. *)
LEMMA SumsAgree ==
    ASSUME NEW F, NEW S, NEW T, NEW f, NEW g, IsFiniteSet(S), T \subseteq S,
           AddsUp(f, F, SUBSET S), AddsUp(g, F, SUBSET T)
    PROVE  f[T] = g[T]
  <1> DEFINE bad == {U \in SUBSET T : f[U] # g[U]}
  <1>1. SUFFICES ASSUME bad # {}
                 PROVE  FALSE
    OBVIOUS
  <1>2. IsFiniteSet(T) /\ bad \in SUBSET SUBSET T
    BY FS_Subset
  <1>3. PICK U \in bad : \A V \in bad : V \subseteq U => V = U
    <2> HIDE DEF bad
    <2> QED
      BY <1>1, <1>2, LeastSubset
  <1>4. /\ f[U] = IF U = {} THEN 0 ELSE F[Pick(U)] + f[U \ {Pick(U)}]
        /\ g[U] = IF U = {} THEN 0 ELSE F[Pick(U)] + g[U \ {Pick(U)}]
    <2>1. U \in SUBSET S /\ U \in SUBSET T
      BY <1>2
    <2> HIDE DEF bad
    <2>2. f[U] = IF U = {} THEN 0 ELSE F[Pick(U)] + f[U \ {Pick(U)}]
      BY <2>1, AddsUpAt
    <2>3. g[U] = IF U = {} THEN 0 ELSE F[Pick(U)] + g[U \ {Pick(U)}]
      BY <2>1, AddsUpAt
    <2> QED
      BY <2>2, <2>3
  <1>5. U # {} /\ Pick(U) \in U
    BY <1>3, <1>4, PickIn
  <1>6. U \ {Pick(U)} \notin bad
    BY <1>3, <1>5
  <1>7. f[U \ {Pick(U)}] = g[U \ {Pick(U)}]
    BY <1>2, <1>6
  <1> QED
    BY <1>3, <1>4, <1>5, <1>7

LEMMA SumOfNone ==
    ASSUME NEW F
    PROVE  SumFunctionOnSet(F, {}) = 0
  <1>1. IsFiniteSet({})
    BY FS_EmptySet
  <1>2. PICK f : AddsUp(f, F, SUBSET {}) /\ SumFunctionOnSet(F, {}) = f[{}]
    BY <1>1, SumIs
  <1> QED
    BY <1>2, AddsUpAt

LEMMA SumOfSome ==
    ASSUME NEW F, NEW S, IsFiniteSet(S), S # {}
    PROVE  SumFunctionOnSet(F, S) = F[Pick(S)] + SumFunctionOnSet(F, S \ {Pick(S)})
  <1> DEFINE T == S \ {Pick(S)}
  <1>1. T \in SUBSET S /\ IsFiniteSet(T)
    BY FS_Subset
  <1>2. PICK f : AddsUp(f, F, SUBSET S) /\ SumFunctionOnSet(F, S) = f[S]
    BY SumIs
  <1>3. PICK g : AddsUp(g, F, SUBSET T) /\ SumFunctionOnSet(F, T) = g[T]
    BY <1>1, SumIs
  <1>4. f[T] = g[T]
    <2>1. ASSUME NEW U \in SUBSET S, AddsUp(g, F, SUBSET U)
          PROVE  f[U] = g[U]
      <3>1. AddsUp(f, F, SUBSET S)
        BY <1>2
      <3> QED
        BY <2>1, <3>1, SumsAgree
    <2> QED
      BY <1>1, <1>3, <2>1
  <1>5. f[S] = F[Pick(S)] + f[T]
    BY <1>2, AddsUpAt
  <1> QED
    BY <1>2, <1>3, <1>4, <1>5

LEMMA SumIsInteger ==
    ASSUME NEW F, NEW S, IsFiniteSet(S), \A x \in S : F[x] \in Int
    PROVE  SumFunctionOnSet(F, S) \in Int
  <1> DEFINE bad == {U \in SUBSET S : SumFunctionOnSet(F, U) \notin Int}
  <1>1. SUFFICES ASSUME bad # {}
                 PROVE  FALSE
    OBVIOUS
  <1>2. PICK U \in bad : \A V \in bad : V \subseteq U => V = U
    <2>1. bad \in SUBSET SUBSET S
      OBVIOUS
    <2> HIDE DEF bad
    <2> QED
      BY <1>1, <2>1, LeastSubset
  <1>3. U \in SUBSET S /\ IsFiniteSet(U)
    BY FS_Subset
  <1>4. U # {}
    <2>1. ASSUME U = {}
          PROVE  SumFunctionOnSet(F, U) = 0
      BY <2>1, SumOfNone
    <2> QED
      BY <1>2, <2>1
  <1>5. Pick(U) \in U
    BY <1>4, PickIn
  <1>6. SumFunctionOnSet(F, U) = F[Pick(U)] + SumFunctionOnSet(F, U \ {Pick(U)})
    <2> HIDE DEF bad
    <2> QED
      BY <1>3, <1>4, SumOfSome
  <1>7. SumFunctionOnSet(F, U \ {Pick(U)}) \in Int
    BY <1>2, <1>3, <1>5
  <1>8. F[Pick(U)] \in Int
    BY <1>3, <1>5
  <1> QED
    BY <1>2, <1>6, <1>7, <1>8

(* Any element may be counted first. *)
LEMMA SumTakesOut ==
    ASSUME NEW F, NEW S, IsFiniteSet(S), \A x \in S : F[x] \in Int, NEW e \in S
    PROVE  SumFunctionOnSet(F, S) = F[e] + SumFunctionOnSet(F, S \ {e})
  <1> DEFINE Sum(U) == SumFunctionOnSet(F, U)
             bad == {U \in SUBSET S : \E x \in U : Sum(U) # F[x] + Sum(U \ {x})}
  <1>1. SUFFICES ASSUME bad # {}
                 PROVE  FALSE
    OBVIOUS
  <1>2. PICK U \in bad : \A V \in bad : V \subseteq U => V = U
    <2>1. bad \in SUBSET SUBSET S
      OBVIOUS
    <2> HIDE DEF bad
    <2> QED
      BY <1>1, <2>1, LeastSubset
  <1>3. PICK x \in U : Sum(U) # F[x] + Sum(U \ {x})
    BY <1>2
  <1>4. U \in SUBSET S /\ IsFiniteSet(U) /\ U # {}
    BY <1>3, FS_Subset
  <1> DEFINE c == Pick(U)
  <1>5. c \in U
    BY <1>4, PickIn
  <1>6. Sum(U) = F[c] + Sum(U \ {c})
    <2> HIDE DEF bad
    <2> QED
      BY <1>4, SumOfSome
  <1>7. c # x
    BY <1>3, <1>6
  <1> HIDE DEF c
  <1>8. U \ {c} \notin bad /\ U \ {x} \notin bad
    BY <1>2, <1>3, <1>5
  <1>9. Sum(U \ {c}) = F[x] + Sum((U \ {c}) \ {x}) /\ Sum(U \ {x}) = F[c] + Sum((U \ {x}) \ {c})
    BY <1>3, <1>4, <1>5, <1>7, <1>8
  <1>10. (U \ {c}) \ {x} = (U \ {x}) \ {c}
    OBVIOUS
  <1>11. Sum((U \ {c}) \ {x}) \in Int
    <2>1. IsFiniteSet((U \ {c}) \ {x}) /\ \A y \in (U \ {c}) \ {x} : F[y] \in Int
      BY <1>4, FS_RemoveElement
    <2> QED
      BY <2>1, SumIsInteger
  <1>12. F[c] \in Int /\ F[x] \in Int
    BY <1>3, <1>4, <1>5
  <1> HIDE DEF Sum
  <1> QED
    BY <1>3, <1>6, <1>9, <1>10, <1>11, <1>12

-----------------------------------------------------------------------------
(* Sums and ranks.                                                         *)

(* What holds of every term holds of the sums. *)
Below(F, G, H, S, u, v, w) ==
    \A x \in S : F[x] \in Int /\ G[x] \in Int /\ H[x] \in Int /\ u * F[x] <= v * G[x] + w * H[x]

LEMMA SumsStayBelow ==
    ASSUME NEW F, NEW G, NEW H, NEW S, IsFiniteSet(S), NEW u \in Int, NEW v \in Int, NEW w \in Int,
           Below(F, G, H, S, u, v, w)
    PROVE  u * SumFunctionOnSet(F, S) <= v * SumFunctionOnSet(G, S) + w * SumFunctionOnSet(H, S)
  <1> DEFINE SF(U) == SumFunctionOnSet(F, U)
             SG(U) == SumFunctionOnSet(G, U)
             SH(U) == SumFunctionOnSet(H, U)
             bad == {U \in SUBSET S : ~(u * SF(U) <= v * SG(U) + w * SH(U))}
  <1>1. SUFFICES ASSUME bad # {}
                 PROVE  FALSE
    OBVIOUS
  <1>2. PICK U \in bad : \A V \in bad : V \subseteq U => V = U
    <2>1. bad \in SUBSET SUBSET S
      OBVIOUS
    <2> HIDE DEF bad
    <2> QED
      BY <1>1, <2>1, LeastSubset
  <1>3. U \in SUBSET S /\ IsFiniteSet(U)
    BY FS_Subset
  <1>4. U # {}
    <2>1. ASSUME U = {}
          PROVE  SF(U) = 0 /\ SG(U) = 0 /\ SH(U) = 0
      <3>1. SF({}) = 0
        BY SumOfNone
      <3>2. SG({}) = 0
        BY SumOfNone
      <3>3. SH({}) = 0
        BY SumOfNone
      <3> QED
        BY <2>1, <3>1, <3>2, <3>3
    <2> QED
      BY <1>2, <2>1
  <1>5. PICK e : e \in U
    BY <1>4
  <1> DEFINE V == U \ {e}
  <1>6. \A x \in U : F[x] \in Int /\ G[x] \in Int /\ H[x] \in Int
    BY <1>3 DEF Below
  <1>7. SF(U) = F[e] + SF(V) /\ SG(U) = G[e] + SG(V) /\ SH(U) = H[e] + SH(V)
    <2> HIDE DEF bad
    <2>1. SF(U) = F[e] + SF(V)
      BY <1>3, <1>5, <1>6, SumTakesOut
    <2>2. SG(U) = G[e] + SG(V)
      BY <1>3, <1>5, <1>6, SumTakesOut
    <2>3. SH(U) = H[e] + SH(V)
      BY <1>3, <1>5, <1>6, SumTakesOut
    <2> QED
      BY <2>1, <2>2, <2>3
  <1>8. SF(V) \in Int /\ SG(V) \in Int /\ SH(V) \in Int
    <2>1. IsFiniteSet(V) /\ \A x \in V : F[x] \in Int /\ G[x] \in Int /\ H[x] \in Int
      BY <1>3, <1>6, FS_RemoveElement
    <2> HIDE DEF bad, V
    <2>2. SF(V) \in Int
      BY <2>1, SumIsInteger
    <2>3. SG(V) \in Int
      BY <2>1, SumIsInteger
    <2>4. SH(V) \in Int
      BY <2>1, SumIsInteger
    <2> QED
      BY <2>2, <2>3, <2>4
  <1>9. u * SF(V) <= v * SG(V) + w * SH(V)
    BY <1>2, <1>3, <1>5
  <1>10. F[e] \in Int /\ G[e] \in Int /\ H[e] \in Int /\ u * F[e] <= v * G[e] + w * H[e]
    BY <1>3, <1>5 DEF Below
  <1>11. u * SF(U) <= v * SG(U) + w * SH(U)
    <2> DEFINE f == SF(V)  g == SG(V)  h == SH(V)
    <2>1. /\ u * (F[e] + f) = u * F[e] + u * f
          /\ v * (G[e] + g) = v * G[e] + v * g
          /\ w * (H[e] + h) = w * H[e] + w * h
      <3> HIDE DEF bad, f, g, h
      <3> QED
        BY <1>8, <1>10 DEF f, g, h
    <2>2. /\ u * F[e] \in Int /\ u * f \in Int /\ v * G[e] \in Int /\ v * g \in Int
          /\ w * H[e] \in Int /\ w * h \in Int
      <3> HIDE DEF bad, f, g, h
      <3> QED
        BY <1>8, <1>10 DEF f, g, h
    <2> HIDE DEF bad, f, g, h
    <2> QED
      BY <1>7, <1>9, <1>10, <2>1, <2>2 DEF f, g, h
  <1> QED
    BY <1>2, <1>11

LEMMA SumIsNatural ==
    ASSUME NEW F, NEW S, IsFiniteSet(S), \A x \in S : F[x] \in Nat
    PROVE  SumFunctionOnSet(F, S) \in Nat
  <1> DEFINE Z == [x \in S |-> 0]
  <1>1. \A x \in S : Z[x] = 0 /\ F[x] \in Int
    OBVIOUS
  <1> HIDE DEF Z
  <1>2. SumFunctionOnSet(F, S) \in Int /\ SumFunctionOnSet(Z, S) \in Int
    BY <1>1, SumIsInteger
  <1>3. Below(Z, F, Z, S, 0, 1, 0)
    BY <1>1 DEF Below
  <1>4. 0 * SumFunctionOnSet(Z, S) <= 1 * SumFunctionOnSet(F, S) + 0 * SumFunctionOnSet(Z, S)
    BY <1>3, SumsStayBelow
  <1> QED
    BY <1>2, <1>4

(* Of ones, the sum is the number of terms. *)
LEMMA SumOfOnes ==
    ASSUME NEW F, NEW S, IsFiniteSet(S), \A x \in S : F[x] = 1
    PROVE  SumFunctionOnSet(F, S) = Cardinality(S)
  <1> DEFINE bad == {U \in SUBSET S : SumFunctionOnSet(F, U) # Cardinality(U)}
  <1>1. SUFFICES ASSUME bad # {}
                 PROVE  FALSE
    OBVIOUS
  <1>2. PICK U \in bad : \A V \in bad : V \subseteq U => V = U
    <2>1. bad \in SUBSET SUBSET S
      OBVIOUS
    <2> HIDE DEF bad
    <2> QED
      BY <1>1, <2>1, LeastSubset
  <1>3. U \in SUBSET S /\ IsFiniteSet(U)
    BY FS_Subset
  <1>4. U # {}
    BY <1>2, SumOfNone, FS_EmptySet
  <1>5. PICK e : e \in U
    BY <1>4
  <1>6. SumFunctionOnSet(F, U) = F[e] + SumFunctionOnSet(F, U \ {e})
    <2>1. \A x \in U : F[x] \in Int
      BY <1>3
    <2> HIDE DEF bad
    <2> QED
      BY <1>3, <1>5, <2>1, SumTakesOut
  <1>7. SumFunctionOnSet(F, U \ {e}) = Cardinality(U \ {e})
    BY <1>2, <1>3, <1>5
  <1>8. Cardinality(U \ {e}) = Cardinality(U) - 1 /\ Cardinality(U) \in Nat
    <2> HIDE DEF bad
    <2> QED
      BY <1>3, <1>5, FS_RemoveElement, FS_CardinalityType
  <1>9. SumFunctionOnSet(F, U) = Cardinality(U)
    <2>1. F[e] = 1
      BY <1>3, <1>5
    <2> HIDE DEF bad
    <2> QED
      BY <1>6, <1>7, <1>8, <2>1
  <1> QED
    BY <1>2, <1>9

(* In a finite set with an order, of which before[r] has what comes before r,
   ranks are told apart, and every rank is taken. *)
Orders(S, before) ==
    /\ before \in [S -> SUBSET S]
    /\ \A a \in S : a \notin before[a]
    /\ \A a, b \in S : a # b => a \in before[b] \/ b \in before[a]
    /\ \A a, b \in S : a \in before[b] => before[a] \subseteq before[b]

LEMMA RanksDiffer ==
    ASSUME NEW S, IsFiniteSet(S), NEW before, Orders(S, before)
    PROVE  /\ \A a \in S : Cardinality(before[a]) \in 0..(Cardinality(S) - 1)
           /\ \A a, b \in S : Cardinality(before[a]) = Cardinality(before[b]) => a = b
  <1>1. ASSUME NEW a \in S
        PROVE  IsFiniteSet(before[a]) /\ Cardinality(before[a]) \in Nat /\ before[a] \subseteq S
    <2>1. before[a] \in SUBSET S
      BY DEF Orders
    <2> QED
      BY <2>1, FS_Subset, FS_CardinalityType
  <1>2. ASSUME NEW a \in S, NEW b \in S, a \in before[b]
        PROVE  Cardinality(before[a]) < Cardinality(before[b])
    <2>1. before[a] \in SUBSET (before[b]) /\ before[a] # before[b]
      BY <1>2 DEF Orders
    <2> QED
      BY <1>1, <2>1, FS_Subset
  <1>3. ASSUME NEW a \in S
        PROVE  Cardinality(before[a]) \in 0..(Cardinality(S) - 1)
    <2>1. before[a] \in SUBSET S /\ before[a] # S
      BY <1>1 DEF Orders
    <2>2. Cardinality(before[a]) <= Cardinality(S) /\ Cardinality(before[a]) # Cardinality(S)
      BY <2>1, FS_Subset
    <2>3. Cardinality(S) \in Nat
      BY FS_CardinalityType
    <2> QED
      BY <1>1, <2>2, <2>3
  <1>4. ASSUME NEW a \in S, NEW b \in S, Cardinality(before[a]) = Cardinality(before[b])
        PROVE  a = b
    <2>1. a \notin before[b] /\ b \notin before[a]
      BY <1>1, <1>2, <1>4
    <2> QED
      BY <2>1 DEF Orders
  <1> QED
    BY <1>3, <1>4

LEMMA RanksAreTaken ==
    ASSUME NEW S, IsFiniteSet(S), NEW before, Orders(S, before), NEW i \in 1..Cardinality(S)
    PROVE  \E r \in S : Cardinality(before[r]) = i - 1
  <1> DEFINE n == Cardinality(S)
             rank == [r \in S |-> Cardinality(before[r])]
             D == 0..(n - 1)
  <1>1. n \in Nat
    BY FS_CardinalityType
  <1>2. IsFiniteSet(D) /\ Cardinality(D) = n
    <2> HIDE DEF n
    <2>1. 0 \in Int /\ n - 1 \in Int
      BY <1>1
    <2> QED
      BY <1>1, <2>1, FS_Interval
  <1>3. rank \in [S -> D] /\ \A a, b \in S : rank[a] = rank[b] => a = b
    BY RanksDiffer
  <1>4. rank \in Injection(S, D)
    <2> HIDE DEF rank, D
    <2> QED
      BY <1>3, Fun_IsInj
  <1>5. rank \in Surjection(S, D)
    <2> HIDE DEF rank, D
    <2> QED
      BY <1>2, <1>4, FS_Injection DEF n
  <1>6. \A t \in D : \E r \in S : rank[r] = t
    <2> HIDE DEF rank, D
    <2> QED
      BY <1>5, Fun_SurjectionProperties
  <1>7. i - 1 \in D
    <2> HIDE DEF n
    <2> QED
      BY <1>1 DEF n
  <1> QED
    BY <1>6, <1>7

(* No more than n have a rank below n. *)
LEMMA FewRanksBelow ==
    ASSUME NEW S, IsFiniteSet(S), NEW before, Orders(S, before), NEW n \in Nat
    PROVE  /\ IsFiniteSet({r \in S : Cardinality(before[r]) < n})
           /\ Cardinality({r \in S : Cardinality(before[r]) < n}) <= n
  <1> DEFINE T == {r \in S : Cardinality(before[r]) < n}
             rank == [r \in T |-> Cardinality(before[r])]
             D == 0..(n - 1)
  <1>1. IsFiniteSet(D) /\ Cardinality(D) = n
    <2>1. 0 \in Int /\ n - 1 \in Int
      OBVIOUS
    <2> QED
      BY <2>1, FS_Interval
  <1>2. rank \in [T -> D] /\ \A a, b \in T : rank[a] = rank[b] => a = b
    <2>1. \A a \in S : Cardinality(before[a]) \in 0..(Cardinality(S) - 1)
      BY RanksDiffer
    <2>2. Cardinality(S) \in Nat
      BY FS_CardinalityType
    <2>3. \A a \in T : Cardinality(before[a]) \in D
      BY <2>1, <2>2
    <2>4. \A a, b \in S : Cardinality(before[a]) = Cardinality(before[b]) => a = b
      BY RanksDiffer
    <2> QED
      BY <2>3, <2>4
  <1>3. rank \in Injection(T, D)
    <2> HIDE DEF rank, D, T
    <2> QED
      BY <1>2, Fun_IsInj
  <1>4. IsFiniteSet(T) /\ Cardinality(T) <= Cardinality(D)
    <2> HIDE DEF rank, D, T
    <2> QED
      BY <1>1, <1>3, FS_Injection
  <1> QED
    BY <1>1, <1>4

-----------------------------------------------------------------------------
(* The inductive invariant.                                                *)

Flags == {"reduce", "close"}
Claim == [seq : Nat, ts : Nat, qty : Int, flags : SUBSET Flags, age : 0..MaxAge]
Record == [producer : Producers, symbol : Symbols, seq : Nat, ts : Nat, qty : Int, flags : SUBSET Flags]
IsOrder(o) == o = [slot |-> o.slot, qty |-> o.qty, age |-> o.age, asked |-> o.asked] /\ o.qty \in Int
AreOrders(orders) == IsFiniteSet(orders) /\ \A o \in orders : IsOrder(o)

Types ==
    /\ session \in Sessions
    /\ now \in 1..session.ticks /\ sinceSweep \in 0..MaxAge
    /\ pass \in {"due", "allocate", "plan", "done"} /\ (alloc = None <=> pass # "plan")
    /\ touched \subseteq Symbols /\ unquoted \subseteq Symbols /\ stranded \subseteq Symbols
    /\ stated \in [Producers -> Nat]
    /\ inbox \subseteq Record /\ IsFiniteSet(inbox) /\ carried \in Seq(Record)
    /\ claims \in [Producers -> [Symbols -> Claim \cup {None}]]
    /\ netSeq \in [Symbols -> 0..MaxNetSeq]
    /\ requotes \in [Symbols -> 0..session.requotes]
    /\ position \in [Symbols -> Int]
    /\ DOMAIN working = Symbols /\ \A s \in Symbols : AreOrders(working[s])
    /\ market \in [Symbols -> session.moods \cup {"open"}]
    /\ switched \in 0..session.halts
    /\ DOMAIN intents = Symbols
    /\ \A s \in Symbols : intents[s] # None => intents[s].qty \in Int
    /\ refusals \in 0..session.refusals /\ failures \in 0..session.failures

(* A record is newer than what its producer last stated for the symbol. *)
Newer(rec) ==
    claims[rec.producer][rec.symbol] # None => claims[rec.producer][rec.symbol].seq < rec.seq
Alike(a, b) == a.producer = b.producer /\ a.symbol = b.symbol

(* What waits on the rings: one record for a producer and a symbol, and no
   two of a producer with one number. *)
TheInboxIsNew ==
    /\ \A r \in inbox : r.seq <= stated[r.producer] /\ r.ts <= now /\ Newer(r)
    /\ \A r, q \in inbox : r.producer = q.producer /\ (r.symbol = q.symbol \/ r.seq = q.seq) => r = q

(* What the gate held back: older than anything that still waits. *)
TheCarriedAreNew ==
    /\ \A i \in DOMAIN carried :
        /\ carried[i].seq <= stated[carried[i].producer] /\ carried[i].ts <= now /\ Newer(carried[i])
        /\ \A r \in inbox : Alike(r, carried[i]) => carried[i].seq < r.seq
    /\ \A i, j \in DOMAIN carried : Alike(carried[i], carried[j]) => i = j

(* A claim is of a symbol its producer owns, and was written before. *)
ClaimsAreOwned ==
    \A p \in Producers, s \in Symbols :
        claims[p][s] # None =>
            s \in session.owns[p] /\ claims[p][s].ts <= now /\ claims[p][s].seq <= stated[p]

(* Exclusive overlap, producer by producer. *)
HeldByOne ==
    session.overlap = "Exclusive" =>
        \A p, q \in Producers, s \in Symbols : claims[p][s] # None /\ claims[q][s] # None => p = q

(* The number of an order for a producer's own target is used up: while the
   producer is alone with the symbol its claim bears no smaller one, and a
   larger one when a pass has changed it and will plan it. *)
OwnIs(seq, s) ==
    /\ Contributors(s) # {}
    /\ \A p \in Producers : Contributors(s) = {p} =>
            seq <= claims[p][s].seq /\ (s \in touched => seq < claims[p][s].seq)

(* What was sent bears a moment before the coming pass; the number of a
   synthesized target is one that netSeq has left behind. *)
MintedAre ==
    \A m \in minted :
        /\ m.at \in Nat /\ m.at <= now /\ m.at < session.ticks /\ (pass # "done" => m.at < now)
        /\ m.own \in BOOLEAN
        /\ m.id[2] \in Nat /\ m.id[3] \in Symbols
        /\ IF m.own THEN m.id[1] <= m.at /\ OwnIs(m.id[2], m.id[3]) ELSE m.id[2] <= netSeq[m.id[3]]

(* Between the two stages of a pass the tracker's lock is held: nothing that
   the allocation was made of has changed. *)
AllocIs == pass = "plan" => alloc = Allocation

Ind == /\ Types /\ TheInboxIsNew /\ TheCarriedAreNew /\ ClaimsAreOwned /\ HeldByOne
       /\ MintedAre /\ IdsOfAKindDiffer /\ AllocIs

-----------------------------------------------------------------------------
(* What the session and the types are.                                     *)

LEMMA SessionIs ==
    ASSUME Types
    PROVE  /\ IsFiniteSet(Producers) /\ Producers \subseteq Nat
           /\ IsFiniteSet(Symbols) /\ Symbols \subseteq Nat
           /\ \A p \in Producers : /\ session.policies[p] \in Policy /\ session.budgets[p] \in Nat
                                   /\ session.owns[p] \subseteq Symbols
           /\ \A s \in Symbols : session.marks[s] \in Nat
           /\ session.gross \in Nat /\ session.net \in Nat /\ session.symbols \in Nat
           /\ session.requotes \in Nat /\ session.refusals \in Nat
           /\ session.halts \in Nat /\ session.failures \in Nat
           /\ session.ticks \in Nat /\ session.ticks > 0
           /\ session.asks \subseteq [qty : Int, flags : SUBSET Flags]
           /\ MaxAge \in Nat /\ MaxAge > 0 /\ MaxNetSeq \in Nat
  <1>1. IsSession(session)
    BY TargetBookAssumption DEF Types
  <1> DEFINE policies == session.policies
             marks == session.marks
  <1>2. policies \in Seq(Policy) /\ marks \in Seq(Nat)
    BY <1>1 DEF IsSession
  <1>3. /\ Len(policies) \in Nat /\ DOMAIN policies = 1..Len(policies) /\ policies \in [1..Len(policies) -> Policy]
    <2> HIDE DEF policies
    <2> QED
      BY <1>2, LenProperties
  <1>4. /\ Len(marks) \in Nat /\ DOMAIN marks = 1..Len(marks) /\ marks \in [1..Len(marks) -> Nat]
    <2> HIDE DEF marks
    <2> QED
      BY <1>2, LenProperties
  <1>5. \A n \in Nat : IsFiniteSet(1..n)
    <2>1. ASSUME NEW n \in Nat
          PROVE  IsFiniteSet(1..n)
      <3>1. n \in Int /\ 1 \in Int
        OBVIOUS
      <3> QED
        BY <3>1, FS_Interval
    <2> QED
      BY <2>1
  <1>6. IsFiniteSet(Producers) /\ Producers \subseteq Nat /\ IsFiniteSet(Symbols) /\ Symbols \subseteq Nat
    BY <1>3, <1>4, <1>5 DEF Producers, Symbols
  <1>7. \A p \in Producers : /\ session.policies[p] \in Policy /\ session.budgets[p] \in Nat
                             /\ session.owns[p] \subseteq Symbols
    BY <1>1, <1>3 DEF IsSession, Producers, Symbols
  <1>8. \A s \in Symbols : session.marks[s] \in Nat
    BY <1>4 DEF Symbols
  <1>9. /\ session.gross \in Nat /\ session.net \in Nat /\ session.symbols \in Nat
        /\ session.requotes \in Nat /\ session.refusals \in Nat
        /\ session.halts \in Nat /\ session.failures \in Nat
        /\ session.ticks \in Nat /\ session.ticks > 0
        /\ session.asks \subseteq [qty : Int, flags : SUBSET Flags]
    BY <1>1 DEF IsSession, Flags
  <1> QED
    BY <1>6, <1>7, <1>8, <1>9, TargetBookAssumption

LEMMA ClaimsAre ==
    ASSUME Types, NEW p \in Producers, NEW s \in Symbols, claims[p][s] # None
    PROVE  /\ claims[p][s] \in Claim
           /\ claims[p][s].seq \in Nat /\ claims[p][s].ts \in Nat /\ claims[p][s].qty \in Int
           /\ claims[p][s].flags \in SUBSET Flags /\ claims[p][s].age \in 0..MaxAge
  BY DEF Types, Claim

LEMMA ContributorsAre ==
    ASSUME Types, NEW s \in Symbols
    PROVE  /\ Contributors(s) \subseteq Producers /\ IsFiniteSet(Contributors(s))
           /\ Cardinality(Contributors(s)) \in Nat
           /\ \A p \in Contributors(s) : claims[p][s] # None /\ p \in Producers
  <1>1. Contributors(s) \in SUBSET Producers
    BY DEF Contributors
  <1>2. IsFiniteSet(Contributors(s))
    BY <1>1, SessionIs, FS_Subset
  <1>3. Cardinality(Contributors(s)) \in Nat
    BY <1>2, FS_CardinalityType
  <1> QED
    BY <1>1, <1>2, <1>3 DEF Contributors

-----------------------------------------------------------------------------
(* Factors, and what they leave of a quantity.                             *)

IsFactor(f) == f \in [num : Nat, den : Nat \ {0}] /\ f.num <= f.den

LEMMA GrossScaleIs ==
    ASSUME NEW weight \in Nat, NEW limit \in Nat
    PROVE  /\ IsFactor(GrossScale(weight, limit))
           /\ limit # Unbounded =>
                GrossScale(weight, limit).num * weight <= limit * GrossScale(weight, limit).den
  <1>1. CASE limit = Unbounded \/ weight <= limit
    <2>1. GrossScale(weight, limit) = [num |-> 1, den |-> 1]
      BY <1>1 DEF GrossScale, One
    <2> QED
      BY <1>1, <2>1 DEF IsFactor
  <1>2. CASE ~(limit = Unbounded \/ weight <= limit)
    <2>1. GrossScale(weight, limit) = [num |-> limit, den |-> weight]
      BY <1>2 DEF GrossScale
    <2>2. weight > limit /\ limit > 0
      BY <1>2 DEF Unbounded
    <2> QED
      BY <2>1, <2>2 DEF IsFactor
  <1> QED
    BY <1>1, <1>2

LEMMA OneIsAFactor == IsFactor(One)
  BY DEF One, IsFactor

LEMMA FactorIs ==
    ASSUME NEW f, IsFactor(f)
    PROVE  f.num \in Nat /\ f.den \in Nat /\ f.den > 0 /\ f.num <= f.den
  BY DEF IsFactor

(* Products. *)
LEMMA ProductsAre ==
    /\ \A a, b \in Nat : a * b \in Nat
    /\ \A a, b \in Int : a * b \in Int
  OBVIOUS

LEMMA LessTimes ==
    ASSUME NEW a \in Int, NEW b \in Int, NEW c \in Nat, a <= b
    PROVE  a * c <= b * c /\ c * a <= c * b
  OBVIOUS

LEMMA Cancelled ==
    ASSUME NEW a \in Int, NEW b \in Int, NEW c \in Nat, c > 0
    PROVE  /\ c * a <= c * b => a <= b
           /\ c * a < c * b => a < b
  OBVIOUS

LEMMA Quotient ==
    ASSUME NEW m \in Nat, NEW d \in Nat, d > 0
    PROVE  /\ m \div d \in Nat
           /\ d * (m \div d) <= m /\ m < d * (m \div d) + d
  OBVIOUS

(* What a factor leaves of a quantity, cut toward zero. *)
Part(q, f) ==
    IF f.num >= f.den THEN q
    ELSE IF q >= 0 THEN (q * f.num) \div f.den
    ELSE -((-q * f.num) \div f.den)

LEMMA PartOfNat ==
    ASSUME NEW q \in Nat, NEW f, IsFactor(f)
    PROVE  /\ Part(q, f) \in Nat
           /\ f.den * Part(q, f) <= q * f.num
           /\ q * f.num < f.den * Part(q, f) + f.den
  <1>1. f.num \in Nat /\ f.den \in Nat /\ f.den > 0 /\ f.num <= f.den
    BY FactorIs
  <1>2. CASE f.num >= f.den
    <2>1. f.num = f.den /\ Part(q, f) = q
      BY <1>1, <1>2 DEF Part
    <2>2. f.den * q = q * f.num /\ q * f.num \in Nat
      BY <1>1, <2>1
    <2> QED
      BY <1>1, <2>1, <2>2
  <1>3. CASE ~(f.num >= f.den)
    <2> DEFINE m == q * f.num
    <2>1. Part(q, f) = m \div f.den
      BY <1>3 DEF Part
    <2>2. m \in Nat
      BY <1>1
    <2>3. m \div f.den \in Nat /\ f.den * (m \div f.den) <= m /\ m < f.den * (m \div f.den) + f.den
      <3> HIDE DEF m
      <3> QED
        BY <1>1, <2>2, Quotient
    <2> QED
      BY <2>1, <2>3
  <1> QED
    BY <1>2, <1>3

LEMMA PartOfNegative ==
    ASSUME NEW q \in Int, q < 0, NEW f, IsFactor(f)
    PROVE  Part(q, f) = -Part(-q, f) /\ -q \in Nat
  <1>1. f.num \in Nat /\ f.den \in Nat /\ f.den > 0 /\ f.num <= f.den
    BY FactorIs
  <1>2. -q \in Nat /\ -q >= 0 /\ ~(q >= 0) /\ -(-q) = q
    OBVIOUS
  <1> QED
    BY <1>1, <1>2 DEF Part

(* No more is left than the factor's share. *)
LEMMA PartIsSmall ==
    ASSUME NEW q \in Int, NEW f, IsFactor(f)
    PROVE  Part(q, f) \in Int /\ Abs(Part(q, f)) \in Nat /\ f.den * Abs(Part(q, f)) <= f.num * Abs(q)
  <1>1. f.num \in Nat /\ f.den \in Nat
    BY FactorIs
  <1>2. CASE q >= 0
    <2>1. q \in Nat
      BY <1>2
    <2>2. Part(q, f) \in Nat /\ f.den * Part(q, f) <= q * f.num
      BY <2>1, PartOfNat
    <2>3. Abs(Part(q, f)) = Part(q, f) /\ Abs(q) = q /\ f.num * q = q * f.num
      BY <1>1, <2>1, <2>2 DEF Abs
    <2> QED
      BY <2>2, <2>3
  <1>3. CASE q < 0
    <2> DEFINE x == Part(-q, f)
    <2>1. Part(q, f) = -x /\ -q \in Nat
      BY <1>3, PartOfNegative
    <2>2. x \in Nat /\ f.den * x <= (-q) * f.num
      BY <2>1, PartOfNat
    <2> HIDE DEF x
    <2>3. Abs(Part(q, f)) = x /\ Abs(q) = -q /\ f.num * (-q) = (-q) * f.num
      BY <1>1, <1>3, <2>1, <2>2 DEF Abs
    <2> QED
      BY <2>1, <2>2, <2>3
  <1> QED
    BY <1>2, <1>3

(* Two factors one after the other, and their product: not a unit between. *)
LEMMA TimesIsAFactor ==
    ASSUME NEW f, NEW b, IsFactor(f), IsFactor(b)
    PROVE  /\ IsFactor(Times(f, b))
           /\ Times(f, b).num = f.num * b.num /\ Times(f, b).den = f.den * b.den
  <1>1. /\ f.num \in Nat /\ f.den \in Nat /\ f.den > 0 /\ f.num <= f.den
        /\ b.num \in Nat /\ b.den \in Nat /\ b.den > 0 /\ b.num <= b.den
    BY FactorIs
  <1> DEFINE n == f.num * b.num
             d == f.den * b.den
  <1>2. n \in Nat /\ d \in Nat /\ d # 0
    BY <1>1
  <1>3. n <= d
    <2>1. f.num * b.num <= f.den * b.num /\ f.den * b.num <= f.den * b.den
      BY <1>1, LessTimes
    <2> QED
      BY <1>1, <2>1
  <1>4. Times(f, b) = [num |-> n, den |-> d]
    BY DEF Times
  <1> HIDE DEF n, d
  <1>5. IsFactor(Times(f, b)) /\ Times(f, b).num = n /\ Times(f, b).den = d
    BY <1>2, <1>3, <1>4 DEF IsFactor
  <1> QED
    BY <1>5 DEF n, d

LEMMA PartsOfNat ==
    ASSUME NEW q \in Nat, NEW f, NEW b, IsFactor(f), IsFactor(b)
    PROVE  /\ b.den * Part(q, Times(f, b)) <= b.num * Part(q, f) + b.den
           /\ b.num * Part(q, f) <= b.den * Part(q, Times(f, b)) + b.den
  <1> DEFINE a == Part(q, f)
             c == Part(q, Times(f, b))
             on == f.num
             od == f.den
             bn == b.num
             bd == b.den
  <1>1. on \in Nat /\ od \in Nat /\ od > 0 /\ bn \in Nat /\ bd \in Nat /\ bd > 0 /\ bn <= bd
    BY FactorIs
  <1>2. a \in Nat /\ od * a <= q * on /\ q * on < od * a + od
    BY PartOfNat
  <1>3. c \in Nat /\ (od * bd) * c <= q * (on * bn) /\ q * (on * bn) < (od * bd) * c + (od * bd)
    BY PartOfNat, TimesIsAFactor
  <1> HIDE DEF a, c, on, od, bn, bd
  <1> DEFINE m == q * on
  <1>4. m \in Nat /\ q * (on * bn) = m * bn /\ (od * bd) * c = od * (bd * c) /\ od * bd = od * bd
    BY <1>1, <1>3
  <1>5. /\ bd * c \in Nat /\ bn * a \in Nat /\ od * a \in Nat
    BY <1>1, <1>2, <1>3
  <1>6. (od * a + od) * bn = od * (bn * a + bn) /\ (od * a) * bn = od * (bn * a)
    BY <1>1, <1>2
  <1>7. od * (bd * c) + od * bd = od * (bd * c + bd)
    BY <1>1, <1>5
  <1> DEFINE x == bd * c
             y == bn * a
  <1>8. od * x <= m * bn /\ m * bn < od * (x + bd)
    BY <1>3, <1>4, <1>7
  <1>9. od * a <= m /\ m <= od * a + od
    BY <1>1, <1>2, <1>4, <1>5
  <1> HIDE DEF m
  <1>10. (od * a) * bn <= m * bn /\ m * bn <= (od * a + od) * bn
    <2> DEFINE z == od * a
    <2>1. z \in Nat /\ z <= m /\ m <= z + od
      BY <1>5, <1>9
    <2> HIDE DEF z
    <2>2. z * bn <= m * bn /\ m * bn <= (z + od) * bn
      BY <1>1, <1>4, <2>1, LessTimes
    <2> QED
      BY <2>2 DEF z
  <1>11. x \in Nat /\ y \in Nat /\ m * bn \in Nat
    BY <1>1, <1>4, <1>5
  <1>12. od * y <= m * bn /\ m * bn <= od * (y + bn)
    BY <1>6, <1>10
  <1> HIDE DEF x, y
  <1>13. od * x \in Int /\ od * y \in Int /\ od * (x + bd) \in Int /\ od * (y + bn) \in Int
    BY <1>1, <1>11
  <1>14. od * x <= od * (y + bn) /\ od * y < od * (x + bd)
    BY <1>8, <1>11, <1>12, <1>13
  <1>15. x <= y + bn /\ y < x + bd
    BY <1>1, <1>11, <1>14, Cancelled
  <1>16. x <= y + bd /\ y <= x + bd
    BY <1>1, <1>11, <1>15
  <1> QED
    BY <1>16 DEF x, y, a, c, bn, bd

LEMMA PartsAreNear ==
    ASSUME NEW q \in Int, NEW f, NEW b, IsFactor(f), IsFactor(b)
    PROVE  /\ Part(q, f) \in Int /\ Part(q, Times(f, b)) \in Int
           /\ b.den * Part(q, Times(f, b)) <= b.num * Part(q, f) + b.den
           /\ b.num * Part(q, f) <= b.den * Part(q, Times(f, b)) + b.den
  <1>1. Part(q, f) \in Int /\ Part(q, Times(f, b)) \in Int
    BY TimesIsAFactor, PartIsSmall
  <1>2. CASE q >= 0
    <2>1. q \in Nat
      BY <1>2
    <2> QED
      BY <1>1, <2>1, PartsOfNat
  <1>3. CASE q < 0
    <2> DEFINE a == Part(-q, f)
               c == Part(-q, Times(f, b))
    <2>1. Part(q, f) = -a /\ Part(q, Times(f, b)) = -c /\ -q \in Nat
      BY <1>3, PartOfNegative, TimesIsAFactor
    <2>2. b.den * c <= b.num * a + b.den /\ b.num * a <= b.den * c + b.den
      BY <2>1, PartsOfNat
    <2>3. a \in Int /\ c \in Int
      BY TimesIsAFactor, PartIsSmall, <2>1
    <2>4. b.den \in Nat /\ b.num \in Nat
      BY FactorIs
    <2> HIDE DEF a, c
    <2>5. b.den * (-c) = -(b.den * c) /\ b.num * (-a) = -(b.num * a) /\ b.den * c \in Int /\ b.num * a \in Int
      BY <2>3, <2>4
    <2>6. b.den * (-c) <= b.num * (-a) + b.den /\ b.num * (-a) <= b.den * (-c) + b.den
      BY <2>2, <2>4, <2>5
    <2> QED
      BY <1>1, <2>1, <2>6
  <1> QED
    BY <1>2, <1>3

-----------------------------------------------------------------------------
(* The allocation fits.                                                    *)

(* A share is nothing, or the factor's part of the claim. *)
LEMMA ShareIs ==
    ASSUME Types, NEW p \in Producers, NEW s \in Symbols, claims[p][s] # None, NEW factors
    PROVE  Share(p, s, factors) =
            IF Zeroed(p, s) \/ "close" \in claims[p][s].flags THEN 0
            ELSE Part(claims[p][s].qty, factors[p])
  BY DEF Share, Part

LEMMA AbsIs ==
    ASSUME NEW n \in Int
    PROVE  Abs(n) \in Nat /\ (Abs(n) = n \/ Abs(n) = -n) /\ n <= Abs(n) /\ -n <= Abs(n)
  BY DEF Abs

(* The weight of a book is minus one, when it is not priced, or its sum. *)
Weights(want) == [s \in DOMAIN want |-> Abs(want[s]) * session.marks[s]]

LEMMA WeighIs ==
    ASSUME Types, NEW D \in SUBSET Symbols, NEW want \in [D -> Int]
    PROVE  /\ IsFiniteSet(D)
           /\ \A s \in D : Abs(want[s]) \in Nat /\ Weights(want)[s] = Abs(want[s]) * session.marks[s]
                           /\ Weights(want)[s] \in Nat
           /\ SumFunctionOnSet(Weights(want), D) \in Nat
           /\ \/ Weigh(want) = -1
              \/ Weigh(want) = SumFunctionOnSet(Weights(want), D)
  <1>1. IsFiniteSet(D)
    BY SessionIs, FS_Subset
  <1>2. DOMAIN want = D
    OBVIOUS
  <1>3. ASSUME NEW s \in D
        PROVE  /\ Abs(want[s]) \in Nat /\ Weights(want)[s] = Abs(want[s]) * session.marks[s]
               /\ Weights(want)[s] \in Nat
    <2>1. Abs(want[s]) \in Nat
      BY AbsIs
    <2>2. session.marks[s] \in Nat
      BY SessionIs
    <2>3. Abs(want[s]) * session.marks[s] \in Nat
      BY <2>1, <2>2, ProductsAre
    <2>4. Weights(want)[s] = Abs(want[s]) * session.marks[s]
      BY <1>2 DEF Weights
    <2> QED
      BY <2>1, <2>3, <2>4
  <1>4. SumFunctionOnSet(Weights(want), D) \in Nat
    <2>1. \A s \in D : Weights(want)[s] \in Nat
      BY <1>3
    <2> QED
      BY <1>1, <2>1, SumIsNatural
  <1>5. Weigh(want) = -1 \/ Weigh(want) = SumFunctionOnSet(Weights(want), D)
    BY <1>2 DEF Weigh, Weights
  <1> QED
    BY <1>1, <1>3, <1>4, <1>5

(* What a producer wants, and its factor. *)
LEMMA WantsAre ==
    ASSUME Types, NEW p \in Producers
    PROVE  /\ Claimed(p) \in SUBSET Symbols
           /\ Wants(p) \in [Claimed(p) -> Int]
           /\ \A s \in Claimed(p) : /\ claims[p][s] # None
                                    /\ Wants(p)[s] = IF "close" \in claims[p][s].flags THEN 0 ELSE claims[p][s].qty
  <1>1. \A s \in Claimed(p) : s \in Symbols /\ claims[p][s] # None
    BY DEF Claimed
  <1>2. \A s \in Claimed(p) : claims[p][s].qty \in Int
    BY <1>1, ClaimsAre
  <1> QED
    BY <1>1, <1>2 DEF Wants

LEMMA BudgetFactorIs ==
    ASSUME Types, NEW p \in Producers
    PROVE  /\ IsFactor(BudgetFactor(p))
           /\ session.budgets[p] # Unbounded /\ Weigh(Wants(p)) # -1 =>
                BudgetFactor(p).num * Weigh(Wants(p)) <= session.budgets[p] * BudgetFactor(p).den
  <1>1. session.budgets[p] \in Nat
    BY SessionIs
  <1>2. CASE Weigh(Wants(p)) = -1
    <2>1. BudgetFactor(p) = One
      BY <1>2 DEF BudgetFactor
    <2> QED
      BY <1>2, <2>1, OneIsAFactor
  <1>3. CASE Weigh(Wants(p)) # -1
    <2> DEFINE w == Weigh(Wants(p))
    <2>1. w \in Nat
      BY <1>3, WantsAre, WeighIs
    <2>2. BudgetFactor(p) = GrossScale(w, session.budgets[p])
      BY <1>3 DEF BudgetFactor
    <2> HIDE DEF w
    <2>3. IsFactor(GrossScale(w, session.budgets[p]))
          /\ (session.budgets[p] # Unbounded =>
                GrossScale(w, session.budgets[p]).num * w <= session.budgets[p] * GrossScale(w, session.budgets[p]).den)
      BY <1>1, <2>1, GrossScaleIs
    <2> QED
      BY <2>2, <2>3 DEF w
  <1> QED
    BY <1>2, <1>3

LEMMA SharesAreParts ==
    ASSUME Types, NEW p \in Producers, NEW s \in Symbols, claims[p][s] # None,
           NEW factors, IsFactor(factors[p])
    PROVE  /\ Share(p, s, factors) \in Int
           /\ factors[p].den * Abs(Share(p, s, factors))
                <= factors[p].num * Abs(IF "close" \in claims[p][s].flags THEN 0 ELSE claims[p][s].qty)
  <1> DEFINE q == claims[p][s].qty
             f == factors[p]
             closing == "close" \in claims[p][s].flags
  <1>1. q \in Int
    BY ClaimsAre
  <1>2. f.num \in Nat /\ f.den \in Nat
    BY FactorIs
  <1>3. CASE Zeroed(p, s) \/ closing
    <2>1. Share(p, s, factors) = 0 /\ Abs(0) = 0
      BY <1>3, ShareIs DEF Abs
    <2> DEFINE w == Abs(IF closing THEN 0 ELSE q)
    <2>2. w \in Nat
      BY <1>1, AbsIs
    <2> HIDE DEF w, f
    <2>3. f.num * w \in Nat /\ f.den * 0 = 0
      BY <1>2, <2>2
    <2> QED
      BY <2>1, <2>3 DEF w, f
  <1>4. CASE ~(Zeroed(p, s) \/ closing)
    <2>1. Share(p, s, factors) = Part(q, f)
      BY <1>4, ShareIs
    <2>2. Part(q, f) \in Int /\ f.den * Abs(Part(q, f)) <= f.num * Abs(q)
      <3> HIDE DEF q, f
      <3> QED
        BY <1>1, PartIsSmall DEF f
    <2> QED
      BY <1>4, <2>1, <2>2
  <1> QED
    BY <1>3, <1>4

(* From the terms to the weights. *)
LEMMA WeightsStayBelow ==
    ASSUME Types, NEW D \in SUBSET Symbols, NEW want \in [D -> Int], NEW had \in [D -> Int],
           NEW f, IsFactor(f), \A s \in D : f.den * Abs(want[s]) <= f.num * Abs(had[s])
    PROVE  f.den * SumFunctionOnSet(Weights(want), D) <= f.num * SumFunctionOnSet(Weights(had), D)
  <1> DEFINE F == Weights(want)
             G == Weights(had)
             u == f.den
             v == f.num
  <1>1. u \in Nat /\ v \in Nat
    BY FactorIs
  <1>2. IsFiniteSet(D)
    BY WeighIs
  <1>3. Below(F, G, G, D, u, v, 0)
    <2>1. ASSUME NEW s \in D
          PROVE  F[s] \in Int /\ G[s] \in Int /\ u * F[s] <= v * G[s] + 0 * G[s]
      <3> DEFINE a == Abs(want[s])
                 b == Abs(had[s])
                 m == session.marks[s]
      <3>1. F[s] = a * m /\ F[s] \in Nat /\ a \in Nat
        BY WeighIs
      <3>2. G[s] = b * m /\ G[s] \in Nat /\ b \in Nat
        BY WeighIs
      <3>3. m \in Nat
        BY SessionIs
      <3>4. u * a <= v * b
        OBVIOUS
      <3> HIDE DEF F, G, a, b, m, u, v
      <3>5. (u * a) * m <= (v * b) * m
        <4> DEFINE x == u * a
                   y == v * b
        <4>1. x \in Nat /\ y \in Nat /\ x <= y
          BY <1>1, <3>1, <3>2, <3>4
        <4> HIDE DEF x, y
        <4>2. x * m <= y * m
          BY <3>3, <4>1, LessTimes
        <4> QED
          BY <4>2 DEF x, y
      <3>6. u * (a * m) = (u * a) * m /\ v * (b * m) = (v * b) * m
        BY <1>1, <3>1, <3>2, <3>3
      <3>7. 0 * G[s] = 0 /\ v * G[s] \in Int
        BY <1>1, <3>2
      <3> QED
        BY <3>1, <3>2, <3>5, <3>6, <3>7
    <2> QED
      BY <2>1 DEF Below
  <1> DEFINE SF == SumFunctionOnSet(F, D)
             SG == SumFunctionOnSet(G, D)
  <1>4. SF \in Nat /\ SG \in Nat
    BY WeighIs
  <1>5. u * SF <= v * SG + 0 * SG
    <2> HIDE DEF F, G, u, v
    <2>1. u \in Int /\ v \in Int /\ 0 \in Int
      BY <1>1
    <2> QED
      BY <1>2, <1>3, <2>1, SumsStayBelow
  <1>6. 0 * SG = 0 /\ v * SG \in Int
    <2> HIDE DEF SG, v
    <2> QED
      BY <1>1, <1>4
  <1> QED
    BY <1>5, <1>6

LEMMA TheBudgetsHold ==
    ASSUME Types, alloc = Allocation
    PROVE  BudgetsHold
  <1>1. ASSUME NEW p \in Producers, session.budgets[p] # Unbounded, Weigh(Wants(p)) # -1
        PROVE  Weigh([s \in Claimed(p) |-> Share(p, s, alloc.own)]) <= session.budgets[p]
    <2> DEFINE D == Claimed(p)
               had == Wants(p)
               want == [s \in D |-> Share(p, s, alloc.own)]
               f == BudgetFactor(p)
               limit == session.budgets[p]
    <2>1. alloc.own = BudgetFactors /\ alloc.own[p] = f
      BY DEF Allocation, BudgetFactors
    <2>2. D \in SUBSET Symbols /\ had \in [D -> Int]
      BY WantsAre
    <2>3. IsFactor(f) /\ f.num * Weigh(had) <= limit * f.den
      BY <1>1, BudgetFactorIs
    <2>4. ASSUME NEW s \in D
          PROVE  want[s] \in Int /\ f.den * Abs(want[s]) <= f.num * Abs(had[s])
      <3>1. s \in Symbols /\ claims[p][s] # None
            /\ had[s] = IF "close" \in claims[p][s].flags THEN 0 ELSE claims[p][s].qty
        BY WantsAre
      <3>2. /\ Share(p, s, alloc.own) \in Int
            /\ f.den * Abs(Share(p, s, alloc.own)) <= f.num * Abs(had[s])
        <4>1. IsFactor(alloc.own[p])
          BY <2>1, <2>3
        <4>2. /\ Share(p, s, alloc.own) \in Int
              /\ alloc.own[p].den * Abs(Share(p, s, alloc.own))
                 <= alloc.own[p].num * Abs(IF "close" \in claims[p][s].flags THEN 0 ELSE claims[p][s].qty)
          BY <3>1, <4>1, SharesAreParts
        <4> QED
          BY <2>1, <3>1, <4>2
      <3> QED
        BY <3>2
    <2>5. want \in [D -> Int]
      BY <2>4
    <2> HIDE DEF want, f, had, D
    <2>6. f.den * SumFunctionOnSet(Weights(want), D) <= f.num * SumFunctionOnSet(Weights(had), D)
      <3>1. \A s \in D : f.den * Abs(want[s]) <= f.num * Abs(had[s])
        BY <2>4
      <3> QED
        BY <2>2, <2>3, <2>5, <3>1, WeightsStayBelow
    <2>7. Weigh(had) = SumFunctionOnSet(Weights(had), D) /\ Weigh(had) \in Nat
      BY <1>1, <2>2, WeighIs DEF had
    <2>8. SumFunctionOnSet(Weights(want), D) \in Nat
          /\ (Weigh(want) = -1 \/ Weigh(want) = SumFunctionOnSet(Weights(want), D))
      BY <2>2, <2>5, WeighIs
    <2>9. limit \in Nat
      BY SessionIs
    <2>10. f.num \in Nat /\ f.den \in Nat /\ f.den > 0
      BY <2>3, FactorIs
    <2> DEFINE x == SumFunctionOnSet(Weights(want), D)
    <2>11. x <= limit
      <3> HIDE DEF x, limit
      <3>1. f.den * x \in Int /\ f.num * Weigh(had) \in Int /\ limit * f.den = f.den * limit /\ f.den * limit \in Int
        BY <2>7, <2>8, <2>9, <2>10 DEF x
      <3>2. f.den * x <= f.num * Weigh(had) /\ f.num * Weigh(had) <= f.den * limit
        BY <2>3, <2>6, <2>7, <3>1 DEF x, limit
      <3>3. f.den * x <= f.den * limit
        BY <3>1, <3>2
      <3>4. x \in Int /\ limit \in Int
        BY <2>8, <2>9 DEF x, limit
      <3> QED
        BY <2>10, <3>3, <3>4, Cancelled
    <2>12. Weigh(want) <= limit
      BY <2>8, <2>9, <2>11
    <2> QED
      BY <2>12 DEF want, D
  <1> QED
    BY <1>1 DEF BudgetsHold

(* A net is the sum of its shares, and the book's factor takes it no further
   from its part than a unit for each claim. *)
LEMMA SharesAreNear ==
    ASSUME Types, NEW p \in Producers, NEW s \in Symbols, claims[p][s] # None, NEW own, NEW factors,
           NEW b, IsFactor(own[p]), IsFactor(b), factors[p] = Times(own[p], b)
    PROVE  /\ Share(p, s, own) \in Int /\ Share(p, s, factors) \in Int
           /\ b.den * Share(p, s, factors) <= b.num * Share(p, s, own) + b.den
           /\ b.num * Share(p, s, own) <= b.den * Share(p, s, factors) + b.den
  <1> DEFINE q == claims[p][s].qty
             closing == "close" \in claims[p][s].flags
  <1>1. q \in Int
    BY ClaimsAre
  <1>2. b.num \in Nat /\ b.den \in Nat
    BY FactorIs
  <1>3. CASE Zeroed(p, s) \/ closing
    <2>1. Share(p, s, own) = 0 /\ Share(p, s, factors) = 0
      BY <1>3, ShareIs
    <2>2. b.den * 0 = 0 /\ b.num * 0 = 0
      BY <1>2
    <2> QED
      BY <1>2, <2>1, <2>2
  <1>4. CASE ~(Zeroed(p, s) \/ closing)
    <2>1. Share(p, s, own) = Part(q, own[p]) /\ Share(p, s, factors) = Part(q, Times(own[p], b))
      BY <1>4, ShareIs
    <2> HIDE DEF q
    <2> QED
      BY <1>1, <2>1, PartsAreNear
  <1> QED
    BY <1>3, <1>4

IsFactors(own) == \A p \in Producers : IsFactor(own[p])
Timed(own, factors, b) == \A p \in Producers : factors[p] = Times(own[p], b)

LEMMA NetQtyIs ==
    ASSUME Types, NEW s \in Symbols, NEW own, IsFactors(own)
    PROVE  NetQty(s, own) \in Int
  <1> DEFINE C == Contributors(s)
             F == [p \in C |-> Share(p, s, own)]
  <1>1. \A p \in C : F[p] \in Int
    <2>1. \A p \in C : p \in Producers /\ claims[p][s] # None
      BY ContributorsAre
    <2>2. ASSUME NEW p \in C
          PROVE  Share(p, s, own) \in Int
      <3>1. IsFactor(own[p])
        BY <2>1 DEF IsFactors
      <3> QED
        BY <2>1, <3>1, SharesAreParts
    <2> QED
      BY <2>2
  <1>2. IsFiniteSet(C)
    BY ContributorsAre
  <1>3. SumFunctionOnSet(F, C) \in Int
    <2> HIDE DEF F, C
    <2> QED
      BY <1>1, <1>2, SumIsInteger
  <1> QED
    BY <1>3 DEF NetQty

LEMMA NetsAreNear ==
    ASSUME Types, NEW s \in Symbols, NEW own, NEW factors, NEW b, IsFactors(own), IsFactor(b),
           Timed(own, factors, b)
    PROVE  /\ NetQty(s, own) \in Int /\ NetQty(s, factors) \in Int
           /\ b.den * NetQty(s, factors)
                <= b.num * NetQty(s, own) + b.den * Cardinality(Contributors(s))
           /\ b.num * NetQty(s, own)
                <= b.den * NetQty(s, factors) + b.den * Cardinality(Contributors(s))
  <1> DEFINE C == Contributors(s)
             F == [p \in C |-> Share(p, s, factors)]
             G == [p \in C |-> Share(p, s, own)]
             H == [p \in C |-> 1]
             u == b.den
             v == b.num
  <1>1. IsFiniteSet(C) /\ \A p \in C : p \in Producers /\ claims[p][s] # None
    BY ContributorsAre
  <1>2. u \in Nat /\ v \in Nat
    BY FactorIs
  <1>3. ASSUME NEW p \in C
        PROVE  /\ F[p] \in Int /\ G[p] \in Int /\ H[p] = 1
               /\ u * F[p] <= v * G[p] + u /\ v * G[p] <= u * F[p] + u
    <2>1. p \in Producers /\ claims[p][s] # None /\ IsFactor(own[p]) /\ factors[p] = Times(own[p], b)
      BY <1>1 DEF IsFactors, Timed
    <2>2. /\ Share(p, s, own) \in Int /\ Share(p, s, factors) \in Int
          /\ b.den * Share(p, s, factors) <= b.num * Share(p, s, own) + b.den
          /\ b.num * Share(p, s, own) <= b.den * Share(p, s, factors) + b.den
      BY <2>1, SharesAreNear
    <2> QED
      BY <2>2
  <1>4. NetQty(s, factors) = SumFunctionOnSet(F, C) /\ NetQty(s, own) = SumFunctionOnSet(G, C)
    BY DEF NetQty
  <1>5. SumFunctionOnSet(H, C) = Cardinality(C)
    <2>1. \A p \in C : H[p] = 1
      BY <1>3
    <2> HIDE DEF H, C
    <2> QED
      BY <1>1, <2>1, SumOfOnes
  <1> HIDE DEF F, G, H, C, u, v
  <1>6. Below(F, G, H, C, u, v, u)
    <2>1. \A p \in C : u * H[p] = u /\ H[p] \in Int
      BY <1>2, <1>3
    <2> QED
      BY <1>3, <2>1 DEF Below
  <1>7. Below(G, F, H, C, v, u, u)
    <2>1. \A p \in C : u * H[p] = u /\ H[p] \in Int
      BY <1>2, <1>3
    <2> QED
      BY <1>3, <2>1 DEF Below
  <1>8. u \in Int /\ v \in Int
    BY <1>2
  <1>9. u * SumFunctionOnSet(F, C) <= v * SumFunctionOnSet(G, C) + u * SumFunctionOnSet(H, C)
    BY <1>1, <1>6, <1>8, SumsStayBelow
  <1>10. v * SumFunctionOnSet(G, C) <= u * SumFunctionOnSet(F, C) + u * SumFunctionOnSet(H, C)
    BY <1>1, <1>7, <1>8, SumsStayBelow
  <1>11. SumFunctionOnSet(F, C) \in Int /\ SumFunctionOnSet(G, C) \in Int
    <2>1. SumFunctionOnSet(F, C) \in Int
      BY <1>1, <1>3, SumIsInteger
    <2>2. SumFunctionOnSet(G, C) \in Int
      BY <1>1, <1>3, SumIsInteger
    <2> QED
      BY <2>1, <2>2
  <1> QED
    BY <1>4, <1>5, <1>9, <1>10, <1>11 DEF u, v, C

Netted(factors) == [s \in Symbols |-> NetQty(s, factors)]
Directions(want) == [s \in Symbols |-> want[s] * session.marks[s]]
Room == [s \in Symbols |-> Cardinality(Contributors(s)) * session.marks[s]]

LEMMA DirectedIs ==
    ASSUME Types, NEW want \in [Symbols -> Int]
    PROVE  /\ \A s \in Symbols : Directions(want)[s] = want[s] * session.marks[s] /\ Directions(want)[s] \in Int
           /\ Directed(want) = SumFunctionOnSet(Directions(want), Symbols)
           /\ Directed(want) \in Int
  <1>1. ASSUME NEW s \in Symbols
        PROVE  Directions(want)[s] = want[s] * session.marks[s] /\ Directions(want)[s] \in Int
    <2>1. want[s] \in Int /\ session.marks[s] \in Int
      BY SessionIs
    <2>2. want[s] * session.marks[s] \in Int
      BY <2>1, ProductsAre
    <2> QED
      BY <2>2 DEF Directions
  <1>2. Directed(want) = SumFunctionOnSet(Directions(want), Symbols)
    BY DEF Directed, Directions
  <1>3. SumFunctionOnSet(Directions(want), Symbols) \in Int
    BY <1>1, SessionIs, SumIsInteger
  <1> QED
    BY <1>1, <1>2, <1>3

LEMMA RoomIs ==
    ASSUME Types
    PROVE  /\ \A s \in Symbols : Room[s] = Cardinality(Contributors(s)) * session.marks[s] /\ Room[s] \in Nat
           /\ Slack = SumFunctionOnSet(Room, Symbols)
           /\ Slack \in Nat
  <1>1. ASSUME NEW s \in Symbols
        PROVE  Room[s] = Cardinality(Contributors(s)) * session.marks[s] /\ Room[s] \in Nat
    <2>1. Cardinality(Contributors(s)) \in Nat /\ session.marks[s] \in Nat
      BY SessionIs, ContributorsAre
    <2>2. Cardinality(Contributors(s)) * session.marks[s] \in Nat
      BY <2>1, ProductsAre
    <2> QED
      BY <2>2 DEF Room
  <1>2. Slack = SumFunctionOnSet(Room, Symbols)
    BY DEF Slack, Room
  <1>3. SumFunctionOnSet(Room, Symbols) \in Nat
    <2>1. \A s \in Symbols : Room[s] \in Nat
      BY <1>1
    <2> QED
      BY <2>1, SessionIs, SumIsNatural
  <1> QED
    BY <1>1, <1>2, <1>3

LEMMA NettedIs ==
    ASSUME Types, NEW own, IsFactors(own)
    PROVE  Netted(own) \in [Symbols -> Int] /\ \A s \in Symbols : Netted(own)[s] = NetQty(s, own)
  BY NetQtyIs DEF Netted

(* Of what is near, the magnitudes are near. *)
LEMMA AbsAreNear ==
    ASSUME NEW x \in Int, NEW y \in Int, NEW u \in Nat, NEW v \in Nat, NEW c \in Nat,
           u * x <= v * y + c, v * y <= u * x + c
    PROVE  u * Abs(x) <= v * Abs(y) + c
  <1>1. Abs(x) \in Nat /\ (Abs(x) = x \/ Abs(x) = -x) /\ Abs(y) \in Nat /\ y <= Abs(y) /\ -y <= Abs(y)
    BY AbsIs
  <1>2. u * (-x) = -(u * x) /\ v * (-y) = -(v * y) /\ u * x \in Int /\ v * y \in Int
    OBVIOUS
  <1>3. v * y <= v * Abs(y) /\ v * (-y) <= v * Abs(y) /\ v * Abs(y) \in Int
    <2>1. v * y <= v * Abs(y)
      BY <1>1, LessTimes
    <2>2. v * (-y) <= v * Abs(y)
      BY <1>1, LessTimes
    <2> QED
      BY <1>1, <2>1, <2>2
  <1> DEFINE p == u * x
             q == v * y
             r == v * Abs(y)
  <1>4. p \in Int /\ q \in Int /\ r \in Int /\ p <= q + c /\ q <= p + c /\ q <= r /\ -q <= r
    BY <1>2, <1>3
  <1> HIDE DEF p, q, r
  <1>5. p <= r + c /\ -p <= r + c
    BY <1>4
  <1>6. CASE Abs(x) = x
    BY <1>5, <1>6 DEF p, r
  <1>7. CASE Abs(x) = -x
    BY <1>2, <1>5, <1>7 DEF p, r
  <1> QED
    BY <1>1, <1>6, <1>7

(* A bound on each term, times its price. *)
LEMMA Priced ==
    ASSUME NEW x \in Int, NEW y \in Int, NEW c \in Int, NEW u \in Int, NEW v \in Int, NEW m \in Nat,
           u * x <= v * y + c
    PROVE  u * (x * m) <= v * (y * m) + c * m
  <1> DEFINE p == u * x
             q == v * y + c
  <1>1. p \in Int /\ q \in Int /\ p <= q
    OBVIOUS
  <1>2. p * m <= q * m
    <2> HIDE DEF p, q
    <2> QED
      BY <1>1, LessTimes
  <1>3. p * m = u * (x * m)
    OBVIOUS
  <1>4. q * m = v * (y * m) + c * m
    <2> DEFINE z == v * y
    <2>1. (z + c) * m = z * m + c * m
      <3>1. z \in Int
        OBVIOUS
      <3> HIDE DEF z
      <3> QED
        BY <3>1
    <2>2. z * m = v * (y * m)
      OBVIOUS
    <2> QED
      BY <2>1, <2>2
  <1> QED
    BY <1>2, <1>3, <1>4

LEMMA BooksAreNear ==
    ASSUME Types, NEW own, NEW factors, NEW b, IsFactors(own), IsFactors(factors), IsFactor(b),
           Timed(own, factors, b)
    PROVE  /\ b.den * SumFunctionOnSet(Weights(Netted(factors)), Symbols)
                <= b.num * SumFunctionOnSet(Weights(Netted(own)), Symbols) + b.den * Slack
           /\ b.den * Directed(Netted(factors)) <= b.num * Directed(Netted(own)) + b.den * Slack
           /\ b.num * Directed(Netted(own)) <= b.den * Directed(Netted(factors)) + b.den * Slack
  <1> DEFINE W == Netted(factors)
             A == Netted(own)
             u == b.den
             v == b.num
             FW == Weights(W)
             FA == Weights(A)
             DW == Directions(W)
             DA == Directions(A)
  <1>1. u \in Nat /\ v \in Nat /\ u \in Int /\ v \in Int
    BY FactorIs
  <1>2. IsFiniteSet(Symbols)
    BY SessionIs
  <1>3. W \in [Symbols -> Int] /\ A \in [Symbols -> Int]
    BY NettedIs
  <1>4. ASSUME NEW s \in Symbols
        PROVE  /\ FW[s] \in Int /\ FA[s] \in Int /\ DW[s] \in Int /\ DA[s] \in Int /\ Room[s] \in Int
               /\ u * FW[s] <= v * FA[s] + u * Room[s]
               /\ u * DW[s] <= v * DA[s] + u * Room[s]
               /\ v * DA[s] <= u * DW[s] + u * Room[s]
    <2> DEFINE n == Cardinality(Contributors(s))
               c == u * n
               m == session.marks[s]
               w == W[s]
               a == A[s]
    <2>1. n \in Nat /\ m \in Nat /\ w \in Int /\ a \in Int
      BY <1>3, SessionIs, ContributorsAre
    <2>2. u * w <= v * a + c /\ v * a <= u * w + c
      <3>1. W[s] = NetQty(s, factors) /\ A[s] = NetQty(s, own)
        BY NettedIs
      <3> QED
        BY <3>1, NetsAreNear
    <2>3. FW[s] = Abs(w) * m /\ FW[s] \in Nat /\ FA[s] = Abs(a) * m /\ FA[s] \in Nat
      <3>1. FW[s] = Abs(w) * m /\ FW[s] \in Nat
        BY <1>3, WeighIs
      <3>2. FA[s] = Abs(a) * m /\ FA[s] \in Nat
        BY <1>3, WeighIs
      <3> QED
        BY <3>1, <3>2
    <2>4. DW[s] = w * m /\ DW[s] \in Int /\ DA[s] = a * m /\ DA[s] \in Int
      <3>1. DW[s] = w * m /\ DW[s] \in Int
        BY <1>3, DirectedIs
      <3>2. DA[s] = a * m /\ DA[s] \in Int
        BY <1>3, DirectedIs
      <3> QED
        BY <3>1, <3>2
    <2>5. Room[s] = n * m /\ Room[s] \in Nat
      BY RoomIs
    <2>6. c \in Nat
      <3> HIDE DEF n, u
      <3> QED
        BY <1>1, <2>1
    <2>7. c * m = u * (n * m)
      <3> HIDE DEF n, m, u
      <3> QED
        BY <1>1, <2>1
    <2> HIDE DEF n, m, w, a, u, v, W, A, FW, FA, DW, DA
    <2>8. u * (w * m) <= v * (a * m) + c * m
      <3> HIDE DEF c
      <3> QED
        BY <1>1, <2>1, <2>2, <2>6, Priced
    <2>9. v * (a * m) <= u * (w * m) + c * m
      <3> HIDE DEF c
      <3> QED
        BY <1>1, <2>1, <2>2, <2>6, Priced
    <2>10. u * (Abs(w) * m) <= v * (Abs(a) * m) + c * m
      <3> HIDE DEF c
      <3>1. u * Abs(w) <= v * Abs(a) + c
        BY <1>1, <2>1, <2>2, <2>6, AbsAreNear
      <3>2. Abs(w) \in Int /\ Abs(a) \in Int
        BY <2>1, AbsIs
      <3> QED
        BY <1>1, <2>1, <2>6, <3>1, <3>2, Priced
    <2> HIDE DEF c
    <2> QED
      BY <2>3, <2>4, <2>5, <2>7, <2>8, <2>9, <2>10
  <1>5. /\ SumFunctionOnSet(Room, Symbols) = Slack
        /\ SumFunctionOnSet(DW, Symbols) = Directed(W) /\ SumFunctionOnSet(DA, Symbols) = Directed(A)
    <2>1. SumFunctionOnSet(DW, Symbols) = Directed(W)
      BY <1>3, DirectedIs
    <2>2. SumFunctionOnSet(DA, Symbols) = Directed(A)
      BY <1>3, DirectedIs
    <2> QED
      BY <2>1, <2>2, RoomIs
  <1> HIDE DEF W, A, u, v, FW, FA, DW, DA
  <1>6. Below(FW, FA, Room, Symbols, u, v, u)
    BY <1>4 DEF Below
  <1>7. Below(DW, DA, Room, Symbols, u, v, u)
    BY <1>4 DEF Below
  <1>8. Below(DA, DW, Room, Symbols, v, u, u)
    BY <1>4 DEF Below
  <1>9. u * SumFunctionOnSet(FW, Symbols) <= v * SumFunctionOnSet(FA, Symbols) + u * SumFunctionOnSet(Room, Symbols)
    BY <1>1, <1>2, <1>6, SumsStayBelow
  <1>10. u * SumFunctionOnSet(DW, Symbols) <= v * SumFunctionOnSet(DA, Symbols) + u * SumFunctionOnSet(Room, Symbols)
    BY <1>1, <1>2, <1>7, SumsStayBelow
  <1>11. v * SumFunctionOnSet(DA, Symbols) <= u * SumFunctionOnSet(DW, Symbols) + u * SumFunctionOnSet(Room, Symbols)
    BY <1>1, <1>2, <1>8, SumsStayBelow
  <1> QED
    BY <1>5, <1>9, <1>10, <1>11 DEF W, A, u, v, FW, FA

(* The smaller of two factors is as small as either asks for. *)
LEMMA SmallerIs ==
    ASSUME NEW f, NEW g, IsFactor(f), IsFactor(g)
    PROVE  /\ IsFactor(Smaller(f, g))
           /\ \A w, l \in Nat : f.num * w <= l * f.den => Smaller(f, g).num * w <= l * Smaller(f, g).den
           /\ \A w, l \in Nat : g.num * w <= l * g.den => Smaller(f, g).num * w <= l * Smaller(f, g).den
  <1> DEFINE Less(x, y) == x.num * y.den <= y.num * x.den
  <1>1. ASSUME NEW x, NEW y, IsFactor(x), IsFactor(y), Less(x, y), NEW w \in Nat, NEW l \in Nat,
               y.num * w <= l * y.den
        PROVE  x.num * w <= l * x.den
    <2> DEFINE a == x.num
               b == x.den
               c == y.num
               d == y.den
    <2>1. a \in Nat /\ b \in Nat /\ c \in Nat /\ d \in Nat /\ d > 0 /\ b > 0
      BY <1>1, FactorIs
    <2>2. a * d <= c * b /\ c * w <= l * d
      BY <1>1
    <2> HIDE DEF a, b, c, d
    <2>3. (a * d) * w <= (c * b) * w
      <3> DEFINE p == a * d
                 q == c * b
      <3>1. p \in Int /\ q \in Int /\ p <= q
        BY <2>1, <2>2
      <3> HIDE DEF p, q
      <3>2. p * w <= q * w
        BY <3>1, LessTimes
      <3> QED
        BY <3>2 DEF p, q
    <2>4. b * (c * w) <= b * (l * d)
      <3> DEFINE p == c * w
                 q == l * d
      <3>1. p \in Int /\ q \in Int /\ p <= q
        BY <2>1, <2>2
      <3> HIDE DEF p, q
      <3>2. b * p <= b * q
        BY <2>1, <3>1, LessTimes
      <3> QED
        BY <3>2 DEF p, q
    <2>5. (a * d) * w = d * (a * w) /\ (c * b) * w = b * (c * w) /\ b * (l * d) = d * (l * b)
      BY <2>1
    <2>6. d * (a * w) <= d * (l * b)
      <3> DEFINE p == d * (a * w)
                 q == b * (c * w)
                 r == d * (l * b)
      <3>1. p \in Int /\ q \in Int /\ r \in Int
        BY <2>1
      <3>2. p <= q /\ q <= r
        BY <2>3, <2>4, <2>5
      <3> HIDE DEF p, q, r
      <3>3. p <= r
        BY <3>1, <3>2
      <3> QED
        BY <3>3 DEF p, r
    <2>7. a * w \in Int /\ l * b \in Int
      BY <2>1
    <2>8. a * w <= l * b
      <3> DEFINE p == a * w
                 q == l * b
      <3>1. d * p <= d * q /\ p \in Int /\ q \in Int
        BY <2>6, <2>7
      <3> HIDE DEF p, q
      <3>2. p <= q
        BY <2>1, <3>1, Cancelled
      <3> QED
        BY <3>2 DEF p, q
    <2> QED
      BY <2>8 DEF a, b
  <1>2. CASE Less(f, g)
    <2>1. Smaller(f, g) = f
      BY <1>2 DEF Smaller
    <2> HIDE DEF Less
    <2>2. \A w, l \in Nat : g.num * w <= l * g.den => f.num * w <= l * f.den
      BY <1>1, <1>2
    <2> QED
      BY <2>1, <2>2
  <1>3. CASE ~Less(f, g)
    <2>1. Smaller(f, g) = g
      BY <1>3 DEF Smaller
    <2>2. Less(g, f)
      <3>1. f.num * g.den \in Int /\ g.num * f.den \in Int
        BY FactorIs
      <3> QED
        BY <1>3, <3>1
    <2> HIDE DEF Less
    <2>3. \A w, l \in Nat : f.num * w <= l * f.den => g.num * w <= l * g.den
      BY <1>1, <2>2
    <2> QED
      BY <2>1, <2>3
  <1> QED
    BY <1>2, <1>3

LEMMA OneTimes ==
    ASSUME NEW f, IsFactor(f)
    PROVE  Times(f, One) = f
  <1>1. f.num \in Nat /\ f.den \in Nat
    BY FactorIs
  <1>2. f = [num |-> f.num, den |-> f.den]
    BY DEF IsFactor
  <1>3. f.num * 1 = f.num /\ f.den * 1 = f.den
    BY <1>1
  <1> QED
    BY <1>2, <1>3 DEF Times, One

LEMMA BookFactorIs ==
    ASSUME Types, NEW own, IsFactors(own)
    PROVE  /\ IsFactor(BookFactor(own))
           /\ Weigh(Netted(own)) = -1 => BookFactor(own) = One
           /\ session.scaleToFit /\ Weigh(Netted(own)) # -1 =>
                /\ session.gross # Unbounded =>
                    BookFactor(own).num * Weigh(Netted(own)) <= session.gross * BookFactor(own).den
                /\ session.net # Unbounded =>
                    BookFactor(own).num * Abs(Directed(Netted(own))) <= session.net * BookFactor(own).den
  <1> DEFINE A == Netted(own)
             g == Weigh(A)
             n == Abs(Directed(A))
             b == BookFactor(own)
  <1>1. A \in [Symbols -> Int]
    BY NettedIs
  <1>2. b = IF ~session.scaleToFit \/ g = -1 THEN One
            ELSE Smaller(GrossScale(g, session.gross), GrossScale(n, session.net))
    BY DEF BookFactor, Netted
  <1>3. CASE ~session.scaleToFit \/ g = -1
    BY <1>2, <1>3, OneIsAFactor
  <1>4. CASE ~(~session.scaleToFit \/ g = -1)
    <2>1. g \in Nat /\ n \in Nat
      <3>1. g \in Nat
        BY <1>1, <1>4, WeighIs
      <3>2. n \in Nat
        BY <1>1, DirectedIs, AbsIs
      <3> QED
        BY <3>1, <3>2
    <2>2. session.gross \in Nat /\ session.net \in Nat
      BY SessionIs
    <2> DEFINE x == GrossScale(g, session.gross)
               y == GrossScale(n, session.net)
    <2>3. /\ IsFactor(x) /\ (session.gross # Unbounded => x.num * g <= session.gross * x.den)
          /\ IsFactor(y) /\ (session.net # Unbounded => y.num * n <= session.net * y.den)
      <3> HIDE DEF g, n
      <3>1. IsFactor(x) /\ (session.gross # Unbounded => x.num * g <= session.gross * x.den)
        BY <2>1, <2>2, GrossScaleIs
      <3>2. IsFactor(y) /\ (session.net # Unbounded => y.num * n <= session.net * y.den)
        BY <2>1, <2>2, GrossScaleIs
      <3> QED
        BY <3>1, <3>2
    <2>4. b = Smaller(x, y)
      BY <1>2, <1>4
    <2> HIDE DEF x, y, g, n, b
    <2>5. IsFactor(b) /\ (session.gross # Unbounded => b.num * g <= session.gross * b.den)
                      /\ (session.net # Unbounded => b.num * n <= session.net * b.den)
      <3>1. \A w, l \in Nat : x.num * w <= l * x.den => b.num * w <= l * b.den
        BY <2>3, <2>4, SmallerIs
      <3>2. \A w, l \in Nat : y.num * w <= l * y.den => b.num * w <= l * b.den
        BY <2>3, <2>4, SmallerIs
      <3> QED
        BY <2>1, <2>2, <2>3, <2>4, <3>1, <3>2, SmallerIs
    <2> QED
      BY <1>4, <2>5 DEF g, n, b
  <1> QED
    BY <1>3, <1>4

(* b * x <= v and v <= l * b + b * s: then x is no more than l and s. *)
LEMMA WithinTheLimit ==
    ASSUME NEW x \in Int, NEW d \in Nat, d > 0, NEW l \in Nat, NEW r \in Nat, NEW v \in Int,
           d * x <= v + d * r, v <= l * d
    PROVE  x <= l + r
  <1> DEFINE p == d * x
             q == d * r
             t == l * d
  <1>1. p \in Int /\ q \in Int /\ t \in Int /\ d * (l + r) = t + q
    OBVIOUS
  <1>2. p <= t + q
    <2>1. p <= v + q /\ v <= t
      OBVIOUS
    <2> HIDE DEF p, q, t
    <2> QED
      BY <1>1, <2>1
  <1>3. d * x <= d * (l + r)
    BY <1>1, <1>2
  <1>4. l + r \in Int
    OBVIOUS
  <1> DEFINE m == l + r
  <1>5. d * x <= d * m /\ m \in Int
    BY <1>3, <1>4
  <1> HIDE DEF m, p, q, t
  <1>6. x <= m
    BY <1>5, Cancelled
  <1> QED
    BY <1>6 DEF m

LEMMA AllocationIs ==
    ASSUME Types, alloc = Allocation
    PROVE  /\ alloc.own = BudgetFactors /\ IsFactors(alloc.own) /\ IsFactors(alloc.factors)
           /\ IsFactor(BookFactor(alloc.own)) /\ Timed(alloc.own, alloc.factors, BookFactor(alloc.own))
           /\ alloc.denied = Denied(alloc.factors)
  <1> DEFINE own == BudgetFactors
             b == BookFactor(own)
             factors == [p \in Producers |-> Times(own[p], b)]
  <1>1. alloc.own = own /\ alloc.factors = factors /\ alloc.denied = Denied(factors)
    BY DEF Allocation
  <1>2. IsFactors(own)
    BY BudgetFactorIs DEF BudgetFactors, IsFactors
  <1> HIDE DEF own
  <1>3. IsFactor(b)
    BY <1>2, BookFactorIs
  <1>4. Timed(own, factors, b)
    BY DEF Timed
  <1>5. IsFactors(factors)
    <2>1. ASSUME NEW p \in Producers
          PROVE  IsFactor(factors[p])
      <3>1. IsFactor(own[p]) /\ factors[p] = Times(own[p], b)
        BY <1>2 DEF IsFactors
      <3> HIDE DEF b, factors
      <3> QED
        BY <1>3, <3>1, TimesIsAFactor
    <2> QED
      BY <2>1 DEF IsFactors
  <1> HIDE DEF factors
  <1> QED
    BY <1>1, <1>2, <1>3, <1>4, <1>5 DEF own, b

LEMMA TheBookIsFit ==
    ASSUME Types, alloc = Allocation
    PROVE  TheBookFits
  <1> DEFINE own == alloc.own
             factors == alloc.factors
             b == BookFactor(own)
             W == Netted(factors)
             A == Netted(own)
             SW == SumFunctionOnSet(Weights(W), Symbols)
             SA == SumFunctionOnSet(Weights(A), Symbols)
  <1>1. IsFactors(own) /\ IsFactors(factors) /\ IsFactor(b) /\ Timed(own, factors, b)
    BY AllocationIs
  <1>2. W \in [Symbols -> Int] /\ A \in [Symbols -> Int]
    BY <1>1, NettedIs
  <1>3. /\ SW \in Nat /\ (Weigh(W) = -1 \/ Weigh(W) = SW)
        /\ SA \in Nat /\ (Weigh(A) = -1 \/ Weigh(A) = SA)
    <2>1. SW \in Nat /\ (Weigh(W) = -1 \/ Weigh(W) = SW)
      BY <1>2, WeighIs
    <2>2. SA \in Nat /\ (Weigh(A) = -1 \/ Weigh(A) = SA)
      BY <1>2, WeighIs
    <2> QED
      BY <2>1, <2>2
  <1>4. Directed(W) \in Int /\ Directed(A) \in Int
    <2>1. Directed(W) \in Int
      BY <1>2, DirectedIs
    <2>2. Directed(A) \in Int
      BY <1>2, DirectedIs
    <2> QED
      BY <2>1, <2>2
  <1>5. Slack \in Nat /\ session.gross \in Nat /\ session.net \in Nat
    BY RoomIs, SessionIs
  <1>6. SUFFICES ASSUME session.scaleToFit
                 PROVE  /\ session.gross # Unbounded => Weigh(W) <= session.gross + Slack
                        /\ session.net # Unbounded /\ Weigh(W) # -1 =>
                                Abs(Directed(W)) <= session.net + Slack
    BY DEF TheBookFits, Netted
  <1>7. CASE Weigh(A) = -1
    <2>1. b = One
      BY <1>1, <1>7, BookFactorIs
    <2>2. \A p \in Producers : factors[p] = own[p]
      <3>1. ASSUME NEW p \in Producers
            PROVE  factors[p] = own[p]
        <4>1. factors[p] = Times(own[p], One) /\ IsFactor(own[p])
          BY <1>1, <2>1 DEF Timed, IsFactors
        <4> QED
          BY <4>1, OneTimes
      <3> QED
        BY <3>1
    <2>3. \A s \in Symbols : NetQty(s, factors) = NetQty(s, own)
      <3>1. ASSUME NEW s \in Symbols
            PROVE  NetQty(s, factors) = NetQty(s, own)
        <4>1. \A p \in Contributors(s) : Share(p, s, factors) = Share(p, s, own)
          BY <2>2, ContributorsAre DEF Share
        <4>2. [p \in Contributors(s) |-> Share(p, s, factors)] = [p \in Contributors(s) |-> Share(p, s, own)]
          BY <4>1
        <4> QED
          BY <4>2 DEF NetQty
      <3> QED
        BY <3>1
    <2>4. W = A
      BY <2>3 DEF Netted
    <2> HIDE DEF W, A
    <2> QED
      BY <1>5, <1>7, <2>4
  <1>8. CASE Weigh(A) # -1
    <2>1. /\ session.gross # Unbounded => b.num * SA <= session.gross * b.den
          /\ session.net # Unbounded => b.num * Abs(Directed(A)) <= session.net * b.den
      <3>1. Weigh(A) = SA
        BY <1>3, <1>8
      <3> QED
        BY <1>1, <1>6, <1>8, <3>1, BookFactorIs
    <2>2. /\ b.den * SW <= b.num * SA + b.den * Slack
          /\ b.den * Directed(W) <= b.num * Directed(A) + b.den * Slack
          /\ b.num * Directed(A) <= b.den * Directed(W) + b.den * Slack
      BY <1>1, BooksAreNear
    <2>3. b.num \in Nat /\ b.den \in Nat /\ b.den > 0
      BY <1>1, FactorIs
    <2> DEFINE d == b.den
               n == b.num
               dw == Directed(W)
               da == Directed(A)
    <2> HIDE DEF W, A, SW, SA, d, n, dw, da, b
    <2>4. ASSUME session.gross # Unbounded
          PROVE  SW <= session.gross + Slack
      <3>1. n * SA \in Int /\ d * SW <= n * SA + d * Slack /\ n * SA <= session.gross * d
        BY <1>3, <2>1, <2>2, <2>3, <2>4 DEF n, d
      <3>2. SW \in Int /\ d \in Nat /\ d > 0
        BY <1>3, <2>3 DEF d
      <3> DEFINE v == n * SA
      <3> HIDE DEF v
      <3>3. v \in Int /\ d * SW <= v + d * Slack /\ v <= session.gross * d
        BY <3>1 DEF v
      <3> QED
        BY <1>5, <3>2, <3>3, WithinTheLimit
    <2>5. ASSUME session.net # Unbounded
          PROVE  Abs(dw) <= session.net + Slack
      <3>1. dw \in Int /\ da \in Int /\ d \in Nat /\ n \in Nat /\ d > 0 /\ d * Slack \in Nat
        BY <1>4, <1>5, <2>3 DEF dw, da, d, n
      <3>2. d * dw <= n * da + d * Slack /\ n * da <= d * dw + d * Slack
        BY <2>2 DEF dw, da, d, n
      <3> DEFINE r == d * Slack
                 v == n * Abs(da)
      <3>3. r \in Nat /\ d * dw <= n * da + r /\ n * da <= d * dw + r
        BY <3>1, <3>2
      <3>4. d * Abs(dw) <= n * Abs(da) + r
        <4> HIDE DEF r
        <4> QED
          BY <3>1, <3>3, AbsAreNear
      <3>5. Abs(da) \in Nat /\ Abs(dw) \in Int
        BY <3>1, AbsIs
      <3>6. v \in Int /\ v <= session.net * d
        BY <2>1, <2>5, <3>1, <3>5 DEF n, d, da
      <3> HIDE DEF v
      <3>7. d * Abs(dw) <= v + d * Slack
        BY <3>4 DEF v
      <3> QED
        BY <1>5, <3>1, <3>5, <3>6, <3>7, WithinTheLimit
    <2> QED
      BY <1>3, <1>5, <2>4, <2>5 DEF dw
  <1> QED
    BY <1>7, <1>8

(* Breadth. *)
LEMMA TheBreadthHolds ==
    ASSUME Types, alloc = Allocation
    PROVE  BreadthHolds
  <1> DEFINE factors == alloc.factors
             wants == [s \in Symbols |-> NetQty(s, factors)]
             open == {s \in Symbols : position[s] # 0}
             size == [s \in Symbols |-> Abs(wants[s]) * session.marks[s]]
             wanted == {s \in Symbols \ open : wants[s] # 0}
             Before(s) == {t \in wanted : size[t] > size[s] \/ (size[t] = size[s] /\ t < s)}
             before == [s \in wanted |-> Before(s)]
             room == session.symbols - Cardinality(open)
             opened == {s \in Symbols \ alloc.denied : NetQty(s, factors) # 0}
             n == IF room > 0 THEN room ELSE 0
  <1>1. IsFactors(factors) /\ alloc.denied = Denied(factors)
    BY AllocationIs
  <1>2. \A s \in Symbols : size[s] \in Nat
    <2>1. ASSUME NEW s \in Symbols
          PROVE  size[s] \in Nat
      <3>1. NetQty(s, factors) \in Int
        BY <1>1, NetQtyIs
      <3>2. Abs(NetQty(s, factors)) \in Nat
        BY <3>1, AbsIs
      <3>3. session.marks[s] \in Nat
        BY SessionIs
      <3>4. Abs(NetQty(s, factors)) * session.marks[s] \in Nat
        BY <3>2, <3>3, ProductsAre
      <3> QED
        BY <3>4
    <2> QED
      BY <2>1
  <1>3. IsFiniteSet(wanted) /\ IsFiniteSet(open) /\ Symbols \subseteq Nat
    <2>1. wanted \in SUBSET Symbols /\ open \in SUBSET Symbols
      OBVIOUS
    <2> HIDE DEF wanted, open
    <2> QED
      BY <2>1, SessionIs, FS_Subset
  <1>4. Cardinality(open) \in Nat /\ session.symbols \in Nat
    BY <1>3, SessionIs, FS_CardinalityType
  <1>5. Orders(wanted, before)
    <2>1. \A s \in wanted : s \in Nat /\ size[s] \in Nat
      BY <1>2, <1>3
    <2>2. \A s \in wanted : before[s] = Before(s)
      OBVIOUS
    <2> HIDE DEF size, wanted
    <2>3. before \in [wanted -> SUBSET wanted]
      OBVIOUS
    <2>4. \A a \in wanted : a \notin before[a]
      BY <2>1, <2>2
    <2>5. \A a, b \in wanted : a # b => a \in before[b] \/ b \in before[a]
      BY <2>1, <2>2
    <2>6. \A a, b \in wanted : a \in before[b] => before[a] \subseteq before[b]
      BY <2>1, <2>2
    <2> HIDE DEF before
    <2> QED
      BY <2>3, <2>4, <2>5, <2>6 DEF Orders
  <1>6. ASSUME session.symbols # Unbounded
        PROVE  Cardinality(opened \ open) <= n
    <2>1. Denied(factors) = {s \in wanted : Cardinality(Before(s)) + Cardinality(open) >= session.symbols}
      BY <1>6 DEF Denied
    <2>2. \A s \in wanted : Cardinality(before[s]) \in Nat /\ before[s] = Before(s)
      <3>1. \A s \in wanted : Cardinality(before[s]) \in 0..(Cardinality(wanted) - 1)
        <4> HIDE DEF wanted, before
        <4> QED
          BY <1>3, <1>5, RanksDiffer
      <3>2. \A s \in wanted : Cardinality(before[s]) \in Nat
        <4> HIDE DEF wanted, before
        <4> QED
          BY <3>1
      <3>3. \A s \in wanted : before[s] = Before(s)
        <4> HIDE DEF wanted
        <4> QED
          OBVIOUS
      <3> HIDE DEF wanted, before
      <3> QED
        BY <3>2, <3>3
    <2> DEFINE few == {s \in wanted : Cardinality(before[s]) < n}
    <2>3. opened \ open = {s \in wanted : s \notin Denied(factors)}
      BY <1>1
    <2>4. n \in Nat
      <3> HIDE DEF open
      <3> QED
        BY <1>4
    <2>5. \A s \in wanted : s \notin Denied(factors) <=> Cardinality(before[s]) < n
      <3>1. \A s \in wanted : s \notin Denied(factors) <=> ~(Cardinality(before[s]) + Cardinality(open) >= session.symbols)
        <4> HIDE DEF wanted
        <4> QED
          BY <2>1, <2>2
      <3>2. \A s \in wanted : ~(Cardinality(before[s]) + Cardinality(open) >= session.symbols)
                                <=> Cardinality(before[s]) < n
        <4> HIDE DEF wanted, open, before
        <4> QED
          BY <1>4, <2>2
      <3> QED
        BY <3>1, <3>2
    <2>6. opened \ open = few
      <3> HIDE DEF wanted, opened, open, before, n
      <3> QED
        BY <2>3, <2>5
    <2>7. Cardinality(few) <= n
      <3> HIDE DEF wanted, before, n
      <3> QED
        BY <1>3, <1>5, <2>4, FewRanksBelow
    <2> QED
      BY <2>6, <2>7
  <1> QED
    BY <1>6 DEF BreadthHolds

LEMMA TheAllocationIsFit ==
    ASSUME Types, AllocIs
    PROVE  TheAllocationFits
  BY TheBudgetsHold, TheBookIsFit, TheBreadthHolds DEF TheAllocationFits, AllocIs

-----------------------------------------------------------------------------
(* The records of a pass.                                                  *)

LEMMA NoneIsNone == \A c \in Claim : c # None
  <1>1. None.none = TRUE /\ DOMAIN None = {"none"}
    BY DEF None
  <1>2. \A c \in Claim : DOMAIN c = {"seq", "ts", "qty", "flags", "age"}
    BY DEF Claim
  <1>3. "seq" \notin {"none"}
    OBVIOUS
  <1> QED
    BY <1>1, <1>2, <1>3

LEMMA RecordIs ==
    ASSUME NEW r \in Record
    PROVE  /\ r.producer \in Producers /\ r.symbol \in Symbols /\ r.seq \in Nat /\ r.ts \in Nat
           /\ r.qty \in Int /\ r.flags \in SUBSET Flags
  BY DEF Record

LEMMA SameInterval ==
    ASSUME NEW a \in Nat, NEW b \in Nat, 1..a = 1..b
    PROVE  a = b
  <1>1. (a > 0 => a \in 1..b) /\ (b > 0 => b \in 1..a)
    BY Z3
  <1> QED
    BY <1>1

(* A record that may be stated: no later than now, and newer than the claim. *)
Fit(r) == r \in Record /\ r.seq <= stated[r.producer] /\ r.ts <= now /\ Newer(r)
NoneAlike(recs) == \A i, j \in 1..Len(recs) : Alike(recs[i], recs[j]) => i = j

LEMMA CarriedAre ==
    ASSUME Types, TheCarriedAreNew
    PROVE  /\ Len(carried) \in Nat /\ DOMAIN carried = 1..Len(carried)
           /\ \A i \in 1..Len(carried) : Fit(carried[i])
           /\ NoneAlike(carried)
  <1>1. carried \in Seq(Record)
    BY DEF Types
  <1>2. Len(carried) \in Nat /\ DOMAIN carried = 1..Len(carried) /\ \A i \in 1..Len(carried) : carried[i] \in Record
    BY <1>1, LenProperties, ElementOfSeq
  <1> QED
    BY <1>2 DEF TheCarriedAreNew, Fit, NoneAlike

LEMMA NewestIs ==
    ASSUME Types, TheInboxIsNew, NEW c, Fit(c)
    PROVE  Fit(Newest(c)) /\ Alike(Newest(c), c)
  <1> DEFINE newer == {r \in inbox : r.producer = c.producer /\ r.symbol = c.symbol}
  <1>1. CASE newer = {}
    BY <1>1 DEF Newest, Alike
  <1>2. CASE newer # {}
    <2>1. Newest(c) = CHOOSE r \in newer : TRUE
      BY <1>2 DEF Newest
    <2>2. Newest(c) \in newer
      <3> HIDE DEF newer
      <3> QED
        BY <1>2, <2>1
    <2>3. Newest(c) \in inbox /\ Alike(Newest(c), c)
      BY <2>2 DEF Alike
    <2> QED
      BY <2>3 DEF Types, TheInboxIsNew, Fit
  <1> QED
    BY <1>1, <1>2

Fresh == {r \in inbox : \A i \in DOMAIN carried :
                            <<carried[i].producer, carried[i].symbol>> # <<r.producer, r.symbol>>}
First(r) == {o \in Fresh : o.producer < r.producer \/ (o.producer = r.producer /\ o.seq < r.seq)}
Displaced == [i \in DOMAIN carried |-> Newest(carried[i])]
Following == [i \in 1..Cardinality(Fresh) |-> CHOOSE r \in Fresh : Cardinality(First(r)) = i - 1]

LEMMA PassRecordsUnfold == PassRecords = Displaced \o Following
  BY DEF PassRecords, Displaced, Following, Fresh, First

LEMMA FreshIs ==
    ASSUME Types, TheInboxIsNew
    PROVE  /\ IsFiniteSet(Fresh) /\ Cardinality(Fresh) \in Nat
           /\ \A r \in Fresh : /\ Fit(r) /\ r \in inbox
                               /\ \A i \in DOMAIN carried : ~Alike(r, carried[i])
           /\ \A r, q \in Fresh : Alike(r, q) => r = q
           /\ Orders(Fresh, [r \in Fresh |-> First(r)])
  <1>1. IsFiniteSet(inbox) /\ Fresh \in SUBSET inbox
    BY DEF Types, Fresh
  <1>2. IsFiniteSet(Fresh) /\ Cardinality(Fresh) \in Nat
    BY <1>1, FS_Subset, FS_CardinalityType
  <1>3. \A r \in Fresh : Fit(r) /\ r \in inbox
    BY <1>1 DEF Types, TheInboxIsNew, Fit
  <1>4. \A r \in Fresh : \A i \in DOMAIN carried : ~Alike(r, carried[i])
    BY DEF Fresh, Alike
  <1>5. \A r, q \in Fresh : Alike(r, q) => r = q
    BY <1>3 DEF TheInboxIsNew, Alike
  <1>6. \A r, q \in Fresh : r.producer = q.producer /\ r.seq = q.seq => r = q
    BY <1>3 DEF TheInboxIsNew
  <1>7. \A r \in Fresh : r.producer \in Nat /\ r.seq \in Nat
    <2>1. \A r \in Fresh : r.producer \in Producers /\ r.seq \in Nat
      BY <1>3, RecordIs DEF Fit
    <2> QED
      BY <2>1, SessionIs
  <1> DEFINE before == [r \in Fresh |-> First(r)]
  <1>8. \A r \in Fresh : before[r] = {o \in Fresh : o.producer < r.producer \/ (o.producer = r.producer /\ o.seq < r.seq)}
    BY DEF First
  <1>9. Orders(Fresh, before)
    <2>1. before \in [Fresh -> SUBSET Fresh]
      BY DEF First
    <2> HIDE DEF before
    <2>2. \A a \in Fresh : a \notin before[a]
      BY <1>7, <1>8
    <2>3. \A a, b \in Fresh : a # b => a \in before[b] \/ b \in before[a]
      BY <1>6, <1>7, <1>8
    <2>4. \A a, b \in Fresh : a \in before[b] => before[a] \subseteq before[b]
      BY <1>7, <1>8
    <2> QED
      BY <2>1, <2>2, <2>3, <2>4 DEF Orders
  <1> QED
    BY <1>2, <1>3, <1>4, <1>5, <1>9

LEMMA DisplacedIs ==
    ASSUME Types, TheInboxIsNew, TheCarriedAreNew
    PROVE  /\ Displaced \in Seq(Record) /\ Len(Displaced) = Len(carried)
           /\ \A i \in 1..Len(carried) : Fit(Displaced[i]) /\ Alike(Displaced[i], carried[i])
  <1>1. Len(carried) \in Nat /\ DOMAIN carried = 1..Len(carried)
    BY CarriedAre
  <1>2. \A i \in 1..Len(carried) : Fit(Displaced[i]) /\ Alike(Displaced[i], carried[i])
    <2>1. ASSUME NEW i \in 1..Len(carried)
          PROVE  Fit(Displaced[i]) /\ Alike(Displaced[i], carried[i])
      <3>1. Fit(carried[i])
        BY CarriedAre
      <3>2. Displaced[i] = Newest(carried[i])
        BY <1>1 DEF Displaced
      <3> QED
        BY <3>1, <3>2, NewestIs
    <2> QED
      BY <2>1
  <1>3. Displaced = [i \in 1..Len(carried) |-> Displaced[i]]
    BY <1>1 DEF Displaced
  <1>4. \A i \in 1..Len(carried) : Displaced[i] \in Record
    BY <1>2 DEF Fit
  <1>5. Displaced \in Seq(Record)
    <2> DEFINE d == Displaced
    <2> HIDE DEF d
    <2>1. d = [i \in 1..Len(carried) |-> d[i]] /\ \A i \in 1..Len(carried) : d[i] \in Record
      BY <1>3, <1>4 DEF d
    <2>2. d \in Seq(Record)
      BY <1>1, <2>1, IsASeq
    <2> QED
      BY <2>2 DEF d
  <1>6. Len(Displaced) = Len(carried)
    <2>1. Len(Displaced) \in Nat /\ DOMAIN Displaced = 1..Len(Displaced)
      BY <1>5, LenProperties
    <2>2. DOMAIN Displaced = 1..Len(carried)
      BY <1>3
    <2> QED
      BY <1>1, <2>1, <2>2, SameInterval
  <1> QED
    BY <1>2, <1>5, <1>6

LEMMA FollowingIs ==
    ASSUME Types, TheInboxIsNew
    PROVE  /\ Following \in Seq(Record) /\ Len(Following) = Cardinality(Fresh)
           /\ \A i \in 1..Cardinality(Fresh) : Following[i] \in Fresh
           /\ NoneAlike(Following)
  <1> DEFINE n == Cardinality(Fresh)
             before == [r \in Fresh |-> First(r)]
  <1>1. n \in Nat /\ IsFiniteSet(Fresh) /\ Orders(Fresh, before)
    BY FreshIs
  <1>2. ASSUME NEW i \in 1..n
        PROVE  Following[i] \in Fresh /\ Cardinality(First(Following[i])) = i - 1
    <2>1. PICK r \in Fresh : Cardinality(before[r]) = i - 1
      <3> HIDE DEF before
      <3> QED
        BY <1>1, RanksAreTaken
    <2>2. r \in Fresh /\ Cardinality(First(r)) = i - 1
      BY <2>1
    <2>3. Following[i] = CHOOSE q \in Fresh : Cardinality(First(q)) = i - 1
      BY DEF Following
    <2> QED
      BY <2>2, <2>3
  <1>3. Following = [i \in 1..n |-> Following[i]]
    BY DEF Following
  <1>4. \A i \in 1..n : Following[i] \in Record
    BY <1>2, FreshIs DEF Fit
  <1>5. Following \in Seq(Record)
    <2> DEFINE d == Following
    <2> HIDE DEF d, n
    <2>1. d = [i \in 1..n |-> d[i]] /\ \A i \in 1..n : d[i] \in Record
      BY <1>3, <1>4 DEF d
    <2>2. d \in Seq(Record)
      BY <1>1, <2>1, IsASeq
    <2> QED
      BY <2>2 DEF d
  <1>6. Len(Following) = n
    <2>1. Len(Following) \in Nat /\ DOMAIN Following = 1..Len(Following)
      BY <1>5, LenProperties
    <2>2. DOMAIN Following = 1..n
      BY <1>3
    <2> HIDE DEF n
    <2> QED
      BY <1>1, <2>1, <2>2, SameInterval
  <1>7. NoneAlike(Following)
    <2>1. ASSUME NEW i \in 1..n, NEW j \in 1..n, Alike(Following[i], Following[j])
          PROVE  i = j
      <3>1. Following[i] = Following[j]
        BY <1>2, <2>1, FreshIs
      <3>2. i - 1 = j - 1
        BY <1>2, <3>1
      <3> HIDE DEF n
      <3> QED
        BY <1>1, <3>2
    <2> QED
      BY <1>6, <2>1 DEF NoneAlike
  <1> QED
    BY <1>2, <1>5, <1>6, <1>7

LEMMA PassRecordsAre ==
    ASSUME Types, TheInboxIsNew, TheCarriedAreNew
    PROVE  /\ PassRecords \in Seq(Record) /\ Len(PassRecords) \in Nat
           /\ \A i \in 1..Len(PassRecords) : Fit(PassRecords[i])
           /\ NoneAlike(PassRecords)
  <1> DEFINE a == Displaced
             b == Following
             recs == a \o b
             m == Len(a)
             n == Len(b)
  <1>1. /\ a \in Seq(Record) /\ m = Len(carried) /\ m \in Nat
        /\ \A i \in 1..m : Fit(a[i]) /\ Alike(a[i], carried[i])
    BY DisplacedIs, CarriedAre
  <1>2. /\ b \in Seq(Record) /\ n \in Nat
        /\ \A i \in 1..n : b[i] \in Fresh
        /\ NoneAlike(b)
    BY FollowingIs, FreshIs
  <1>3. /\ recs \in Seq(Record) /\ Len(recs) = m + n
        /\ \A i \in 1..(m + n) : recs[i] = IF i <= m THEN a[i] ELSE b[i - m]
    <2> HIDE DEF a, b
    <2> QED
      BY <1>1, <1>2, ConcatProperties
  <1>4. /\ \A r \in Fresh : Fit(r)
        /\ \A r \in Fresh : \A i \in 1..m : ~Alike(r, carried[i])
    <2>1. DOMAIN carried = 1..m
      BY <1>1, CarriedAre
    <2> QED
      BY <2>1, FreshIs
  <1>5. NoneAlike(carried) /\ NoneAlike(b)
    BY <1>2, CarriedAre
  <1> HIDE DEF a, b, recs, m, n
  <1>6. \A i \in 1..(m + n) : Fit(recs[i])
    <2>1. ASSUME NEW i \in 1..(m + n)
          PROVE  Fit(recs[i])
      <3>1. CASE i <= m
        BY <1>1, <1>3, <3>1
      <3>2. CASE ~(i <= m)
        <4>1. i - m \in 1..n /\ recs[i] = b[i - m]
          BY <1>1, <1>2, <1>3, <3>2
        <4> QED
          BY <1>2, <1>4, <4>1
      <3> QED
        BY <3>1, <3>2
    <2> QED
      BY <2>1
  <1>7. ASSUME NEW i \in 1..(m + n), NEW j \in 1..(m + n), Alike(recs[i], recs[j])
        PROVE  i = j
    <2>1. CASE i <= m /\ j <= m
      <3>1. i \in 1..m /\ j \in 1..m /\ recs[i] = a[i] /\ recs[j] = a[j]
        BY <1>1, <1>2, <1>3, <2>1
      <3>2. Alike(carried[i], carried[j])
        BY <1>1, <1>7, <3>1 DEF Alike
      <3> QED
        BY <1>1, <1>5, <3>1, <3>2 DEF NoneAlike
    <2>2. CASE ~(i <= m) /\ ~(j <= m)
      <3>1. i - m \in 1..n /\ j - m \in 1..n /\ recs[i] = b[i - m] /\ recs[j] = b[j - m]
        BY <1>1, <1>2, <1>3, <2>2
      <3>2. i - m = j - m
        BY <1>5, <1>7, <3>1 DEF NoneAlike, n
      <3> QED
        BY <1>1, <1>2, <3>2
    <2>3. CASE i <= m /\ ~(j <= m)
      <3>1. i \in 1..m /\ j - m \in 1..n /\ recs[i] = a[i] /\ recs[j] = b[j - m]
        BY <1>1, <1>2, <1>3, <2>3
      <3>2. b[j - m] \in Fresh
        BY <1>2, <3>1
      <3>3. Alike(b[j - m], carried[i])
        BY <1>1, <1>7, <3>1 DEF Alike
      <3> QED
        BY <1>4, <3>1, <3>2, <3>3
    <2>4. CASE ~(i <= m) /\ j <= m
      <3>1. j \in 1..m /\ i - m \in 1..n /\ recs[j] = a[j] /\ recs[i] = b[i - m]
        BY <1>1, <1>2, <1>3, <2>4
      <3>2. b[i - m] \in Fresh
        BY <1>2, <3>1
      <3>3. Alike(b[i - m], carried[j])
        BY <1>1, <1>7, <3>1 DEF Alike
      <3> QED
        BY <1>4, <3>1, <3>2, <3>3
    <2> QED
      BY <2>1, <2>2, <2>3, <2>4
  <1>8. PassRecords = recs
    BY PassRecordsUnfold DEF recs, a, b
  <1> QED
    BY <1>1, <1>2, <1>3, <1>6, <1>7, <1>8 DEF NoneAlike

(* Walks: a recursion over the places of a sequence has the value at every *)
(* place that one step makes of the value before.                          *)

Steps(g, n, S) == \A k \in 1..n : \A x \in S : g[k][x] \in S

Walks(f, g, a, n, S) ==
    f \in [0..n -> S] /\ f[0] = a /\ \A k \in 1..n : f[k] = g[k][f[k - 1]]

LEMMA Walk ==
    ASSUME NEW S, NEW a \in S, NEW n \in Nat, NEW g, Steps(g, n, S)
    PROVE  \E f : Walks(f, g, a, n, S)
  <1> USE DEF Steps, Walks
  <1> DEFINE Goes(f, m) == Walks(f, g, a, m, S)
             bad == {m \in 0..n : ~\E f : Goes(f, m)}
  <1>1. SUFFICES ASSUME bad # {}
                 PROVE  FALSE
    <2>1. n \in 0..n /\ n \notin bad
      BY <1>1
    <2>2. PICK f : Goes(f, n)
      BY <2>1
    <2> QED
      BY <2>2
  <1>2. PICK m \in bad : \A k \in bad : m <= k
    <2>1. bad \in SUBSET Nat
      OBVIOUS
    <2> HIDE DEF bad
    <2> QED
      BY <1>1, <2>1, LeastNumber
  <1>3. CASE m = 0
    <2> DEFINE f == [k \in 0..0 |-> a]
    <2>1. Goes(f, 0)
      OBVIOUS
    <2> QED
      BY <1>2, <1>3, <2>1
  <1>4. CASE m # 0
    <2>1. m \in 1..n /\ m - 1 \in 0..n /\ ~(m <= m - 1)
      BY <1>2, <1>4
    <2>2. m - 1 \notin bad
      <3> HIDE DEF bad
      <3> QED
        BY <1>2, <2>1
    <2>3. PICK f : Goes(f, m - 1)
      BY <2>1, <2>2
    <2> DEFINE h == [k \in 0..m |-> IF k = m THEN g[m][f[m - 1]] ELSE f[k]]
    <2>4. f[m - 1] \in S /\ g[m][f[m - 1]] \in S
      BY <2>1, <2>3
    <2>5. h \in [0..m -> S] /\ h[0] = a
      BY <2>1, <2>3, <2>4
    <2>6. ASSUME NEW k \in 1..m
          PROVE  h[k] = g[k][h[k - 1]]
      <3>1. CASE k = m
        <4>1. h[m] = g[m][f[m - 1]] /\ h[m - 1] = f[m - 1]
          BY <2>1
        <4> QED
          BY <3>1, <4>1
      <3>2. CASE k # m
        <4>1. k \in 1..(m - 1) /\ h[k] = f[k] /\ h[k - 1] = f[k - 1]
          BY <2>1, <3>2
        <4> QED
          BY <2>3, <4>1
      <3> QED
        BY <3>1, <3>2
    <2>7. Goes(h, m)
      BY <2>5, <2>6
    <2> QED
      BY <1>2, <2>7
  <1> QED
    BY <1>3, <1>4

-----------------------------------------------------------------------------
(* The book after the records of a pass.                                   *)

Books == [claims : [Producers -> [Symbols -> Claim \cup {None}]],
          touched : SUBSET Symbols, carried : Seq(Record)]
ClaimOf(r) == [seq |-> r.seq, ts |-> r.ts, qty |-> r.qty, flags |-> r.flags, age |-> 0]
Empty == [claims |-> claims, touched |-> {}, carried |-> <<>>]

LEMMA ClaimOfIs ==
    ASSUME Types, NEW r \in Record
    PROVE  ClaimOf(r) \in Claim /\ ClaimOf(r) # None
           /\ ClaimOf(r).seq = r.seq /\ ClaimOf(r).ts = r.ts
  <1>1. 0 \in 0..MaxAge
    BY SessionIs
  <1>2. ClaimOf(r) \in Claim
    BY <1>1, RecordIs DEF ClaimOf, Claim
  <1> QED
    BY <1>2, NoneIsNone DEF ClaimOf

LEMMA BooksAre ==
    ASSUME NEW b \in Books
    PROVE  /\ b.claims \in [Producers -> [Symbols -> Claim \cup {None}]]
           /\ b.touched \subseteq Symbols /\ b.carried \in Seq(Record)
           /\ b = [claims |-> b.claims, touched |-> b.touched, carried |-> b.carried]
  BY DEF Books

(* Stating a record: it is held back, refused, or the claim. *)
LEMMA StateIs ==
    ASSUME Types, NEW b \in Books, NEW r \in Record
    PROVE  /\ State(b, r) \in Books
           /\ intents[r.symbol] # None =>
                /\ State(b, r).claims = b.claims /\ State(b, r).touched = b.touched
                /\ State(b, r).carried = Append(b.carried, r)
           /\ intents[r.symbol] = None => State(b, r).carried = b.carried
           /\ intents[r.symbol] = None /\ BelongsToAnother(b, r.producer, r.symbol) => State(b, r) = b
           /\ intents[r.symbol] = None /\ ~BelongsToAnother(b, r.producer, r.symbol) =>
                /\ State(b, r).claims = [b.claims EXCEPT ![r.producer][r.symbol] = ClaimOf(r)]
                /\ State(b, r).touched = b.touched \cup {r.symbol}
  <1> DEFINE s == r.symbol
             p == r.producer
  <1>1. /\ b.claims \in [Producers -> [Symbols -> Claim \cup {None}]]
        /\ b.touched \subseteq Symbols /\ b.carried \in Seq(Record)
        /\ b = [claims |-> b.claims, touched |-> b.touched, carried |-> b.carried]
    BY BooksAre
  <1>2. p \in Producers /\ s \in Symbols
    BY RecordIs
  <1>3. CASE intents[s] # None
    <2>1. State(b, r) = [claims |-> b.claims, touched |-> b.touched, carried |-> Append(b.carried, r)]
      BY <1>1, <1>3 DEF State
    <2>2. Append(b.carried, r) \in Seq(Record)
      BY <1>1, AppendProperties
    <2>3. State(b, r) \in Books
      BY <1>1, <2>1, <2>2 DEF Books
    <2> QED
      BY <1>3, <2>1, <2>3
  <1>4. CASE intents[s] = None /\ BelongsToAnother(b, p, s)
    <2>1. State(b, r) = b
      BY <1>4 DEF State
    <2> QED
      BY <1>4, <2>1
  <1>5. CASE intents[s] = None /\ ~BelongsToAnother(b, p, s)
    <2> DEFINE c == [b.claims EXCEPT ![p][s] = ClaimOf(r)]
               t == b.touched \cup {s}
    <2>1. State(b, r) = [claims |-> c, touched |-> t, carried |-> b.carried]
      BY <1>1, <1>5 DEF State, ClaimOf
    <2>2. c \in [Producers -> [Symbols -> Claim \cup {None}]] /\ t \subseteq Symbols
      <3>1. ClaimOf(r) \in Claim \cup {None}
        BY ClaimOfIs
      <3> QED
        BY <1>1, <1>2, <3>1
    <2> HIDE DEF c, t
    <2>3. State(b, r) \in Books
      BY <1>1, <2>1, <2>2 DEF Books
    <2> QED
      BY <1>5, <2>1, <2>3 DEF c, t
  <1> QED
    BY <1>3, <1>4, <1>5

(* What the book is after k records: a claim is the one before or the one of a
   record, a symbol is touched for a record, and what is carried is of symbols
   with an intent on its way. *)
Speaks(b, p, s, k, recs) ==
    \E j \in 1..k : recs[j].producer = p /\ recs[j].symbol = s /\ b.claims[p][s] = ClaimOf(recs[j])

BookAt(b, k, recs) ==
    /\ b \in Books
    /\ \A s \in Symbols \ b.touched : \A p \in Producers : b.claims[p][s] = claims[p][s]
    /\ \A s \in b.touched : intents[s] = None /\ \E p \in Producers : Speaks(b, p, s, k, recs)
    /\ \A p \in Producers, s \in Symbols :
        b.claims[p][s] = claims[p][s] \/ (Speaks(b, p, s, k, recs) /\ s \in session.owns[p])
    /\ session.overlap = "Exclusive" =>
        \A p, q \in Producers, s \in Symbols : b.claims[p][s] # None /\ b.claims[q][s] # None => p = q
    /\ \A i \in 1..Len(b.carried) :
        \E j \in 1..k : b.carried[i] = recs[j] /\ intents[recs[j].symbol] # None
    /\ NoneAlike(b.carried)

LEMMA BookStarts ==
    ASSUME Types, HeldByOne, NEW recs
    PROVE  BookAt(Empty, 0, recs)
  <1>1. Empty \in Books
    <2>1. <<>> \in Seq(Record)
      BY EmptySeq
    <2> QED
      BY <2>1 DEF Books, Empty, Types
  <1>2. Empty.claims = claims /\ Empty.touched = {} /\ Empty.carried = <<>> /\ Len(Empty.carried) = 0
    BY DEF Empty
  <1> QED
    BY <1>1, <1>2 DEF BookAt, HeldByOne, NoneAlike

LEMMA BookGoesOn ==
    ASSUME Types, NEW recs \in Seq(Record), NoneAlike(recs), NEW k \in 1..Len(recs),
           NEW b, BookAt(b, k - 1, recs)
    PROVE  BookAt(State(b, recs[k]), k, recs)
  <1> DEFINE r == recs[k]
             c == State(b, r)
             p == r.producer
             s == r.symbol
  <1>1. r \in Record /\ Len(recs) \in Nat /\ p \in Producers /\ s \in Symbols
    <2>1. r \in Record
      BY ElementOfSeq
    <2> QED
      BY <2>1, RecordIs, LenProperties
  <1>2. b \in Books
    BY DEF BookAt
  <1>3. c \in Books
    BY <1>1, <1>2, StateIs
  <1>4. \A j \in 1..(k - 1) : j \in 1..k /\ j \in 1..Len(recs) /\ j # k
    BY <1>1
  <1>5. CASE intents[s] # None
    <2>1. c.claims = b.claims /\ c.touched = b.touched /\ c.carried = Append(b.carried, r)
      BY <1>1, <1>2, <1>5, StateIs
    <2> HIDE DEF c
    <2>2. \A q \in Producers, t \in Symbols : Speaks(b, q, t, k - 1, recs) => Speaks(c, q, t, k, recs)
      BY <1>4, <2>1 DEF Speaks
    <2>3. b.carried \in Seq(Record) /\ Len(b.carried) \in Nat
      BY <1>2, BooksAre, LenProperties
    <2>4. /\ Len(c.carried) = Len(b.carried) + 1
          /\ \A i \in 1..Len(b.carried) : c.carried[i] = b.carried[i]
          /\ c.carried[Len(b.carried) + 1] = r
      BY <1>1, <2>1, <2>3, AppendProperties
    <2> DEFINE n == Len(b.carried)
    <2>5. \A i \in 1..n : \E j \in 1..(k - 1) : b.carried[i] = recs[j] /\ intents[recs[j].symbol] # None
      BY DEF BookAt
    <2>6. \A i \in 1..(n + 1) : i \in 1..n \/ i = n + 1
      BY <2>3
    <2>7. \A i \in 1..Len(c.carried) :
            \E j \in 1..k : c.carried[i] = recs[j] /\ intents[recs[j].symbol] # None
      <3>1. k \in 1..k
        BY <1>1
      <3> QED
        BY <1>4, <1>5, <2>4, <2>5, <2>6, <3>1
    <2>8. NoneAlike(c.carried)
      <3>1. ASSUME NEW i \in 1..n
            PROVE  ~Alike(b.carried[i], r) /\ ~Alike(r, b.carried[i])
        <4>1. PICK j \in 1..(k - 1) : b.carried[i] = recs[j]
          BY <2>5
        <4>2. j \in 1..Len(recs) /\ j # k
          BY <1>4
        <4> QED
          BY <4>1, <4>2 DEF NoneAlike
      <3>2. NoneAlike(b.carried)
        BY DEF BookAt
      <3> QED
        BY <2>4, <2>6, <3>1, <3>2 DEF NoneAlike
    <2>9. b.touched \subseteq Symbols
      BY <1>2, BooksAre
    <2>10. \A t \in Symbols \ c.touched : \A q \in Producers : c.claims[q][t] = claims[q][t]
      BY <2>1 DEF BookAt
    <2>11. \A t \in c.touched : intents[t] = None /\ \E q \in Producers : Speaks(c, q, t, k, recs)
      BY <2>1, <2>2, <2>9 DEF BookAt
    <2>12. \A q \in Producers, t \in Symbols :
            c.claims[q][t] = claims[q][t] \/ (Speaks(c, q, t, k, recs) /\ t \in session.owns[q])
      BY <2>1, <2>2 DEF BookAt
    <2>13. session.overlap = "Exclusive" =>
            \A q, o \in Producers, t \in Symbols : c.claims[q][t] # None /\ c.claims[o][t] # None => q = o
      BY <2>1 DEF BookAt
    <2>14. BookAt(c, k, recs)
      BY <1>3, <2>7, <2>8, <2>10, <2>11, <2>12, <2>13 DEF BookAt
    <2> QED
      BY <2>14 DEF c
  <1>6. CASE intents[s] = None /\ BelongsToAnother(b, p, s)
    <2>1. c = b
      BY <1>1, <1>2, <1>6, StateIs
    <2>2. \A q \in Producers, t \in Symbols : Speaks(b, q, t, k - 1, recs) => Speaks(b, q, t, k, recs)
      BY <1>4 DEF Speaks
    <2>3. b.touched \subseteq Symbols
      BY <1>2, BooksAre
    <2>4. BookAt(b, k, recs)
      BY <1>4, <2>2, <2>3 DEF BookAt
    <2> QED
      BY <2>1, <2>4
  <1>7. CASE intents[s] = None /\ ~BelongsToAnother(b, p, s)
    <2>1. /\ c.claims = [b.claims EXCEPT ![p][s] = ClaimOf(r)]
          /\ c.touched = b.touched \cup {s}
          /\ c.carried = b.carried
      BY <1>1, <1>2, <1>7, StateIs
    <2> HIDE DEF c
    <2>2. b.claims \in [Producers -> [Symbols -> Claim \cup {None}]] /\ b.touched \subseteq Symbols
      BY <1>2, BooksAre
    <2>3. /\ c.claims[p][s] = ClaimOf(r)
          /\ \A q \in Producers, t \in Symbols : q # p \/ t # s => c.claims[q][t] = b.claims[q][t]
      BY <1>1, <2>1, <2>2
    <2>4. Speaks(c, p, s, k, recs)
      <3>1. k \in 1..k
        BY <1>1
      <3> QED
        BY <2>3, <3>1 DEF Speaks
    <2>5. \A q \in Producers, t \in Symbols :
            (q # p \/ t # s) /\ Speaks(b, q, t, k - 1, recs) => Speaks(c, q, t, k, recs)
      BY <1>4, <2>3 DEF Speaks
    <2>6. s \in session.owns[p]
          /\ (session.overlap = "Exclusive" => \A q \in Producers \ {p} : b.claims[q][s] = None)
      BY <1>7 DEF BelongsToAnother
    <2>7. \A t \in Symbols \ c.touched : \A q \in Producers : c.claims[q][t] = claims[q][t]
      BY <2>1, <2>3 DEF BookAt
    <2>8. \A t \in c.touched : intents[t] = None /\ \E q \in Producers : Speaks(c, q, t, k, recs)
      <3>1. ASSUME NEW t \in c.touched
            PROVE  intents[t] = None /\ \E q \in Producers : Speaks(c, q, t, k, recs)
        <4>1. CASE t = s
          BY <1>1, <1>7, <2>4, <4>1
        <4>2. CASE t # s
          <5>1. t \in b.touched /\ t \in Symbols
            BY <2>1, <2>2, <4>2
          <5>2. intents[t] = None /\ \E q \in Producers : Speaks(b, q, t, k - 1, recs)
            BY <5>1 DEF BookAt
          <5> QED
            BY <2>5, <4>2, <5>1, <5>2
        <4> QED
          BY <4>1, <4>2
      <3> QED
        BY <3>1
    <2>9. \A q \in Producers, t \in Symbols :
            c.claims[q][t] = claims[q][t] \/ (Speaks(c, q, t, k, recs) /\ t \in session.owns[q])
      <3>1. ASSUME NEW q \in Producers, NEW t \in Symbols
            PROVE  c.claims[q][t] = claims[q][t] \/ (Speaks(c, q, t, k, recs) /\ t \in session.owns[q])
        <4>1. CASE q = p /\ t = s
          BY <2>4, <2>6, <4>1
        <4>2. CASE ~(q = p /\ t = s)
          <5>1. b.claims[q][t] = claims[q][t] \/ (Speaks(b, q, t, k - 1, recs) /\ t \in session.owns[q])
            BY DEF BookAt
          <5> QED
            BY <2>3, <2>5, <4>2, <5>1
        <4> QED
          BY <4>1, <4>2
      <3> QED
        BY <3>1
    <2>10. session.overlap = "Exclusive" =>
            \A q, o \in Producers, t \in Symbols : c.claims[q][t] # None /\ c.claims[o][t] # None => q = o
      BY <2>3, <2>6 DEF BookAt
    <2>11. \A i \in 1..Len(c.carried) :
            \E j \in 1..k : c.carried[i] = recs[j] /\ intents[recs[j].symbol] # None
      BY <1>4, <2>1 DEF BookAt
    <2>12. NoneAlike(c.carried)
      BY <2>1 DEF BookAt
    <2>13. BookAt(c, k, recs)
      BY <1>3, <2>7, <2>8, <2>9, <2>10, <2>11, <2>12 DEF BookAt
    <2> QED
      BY <2>13 DEF c
  <1> QED
    BY <1>5, <1>6, <1>7

States(f, records) ==
    f = [n \in 0..Len(records) |-> IF n = 0 THEN Empty ELSE State(f[n-1], records[n])]

LEMMA StatedUnfolds ==
    ASSUME NEW records
    PROVE  Stated(records) = (CHOOSE f : States(f, records))[Len(records)]
  BY DEF Stated, States, Empty

LEMMA StatedIs ==
    ASSUME Types, HeldByOne, NEW recs \in Seq(Record), NoneAlike(recs)
    PROVE  BookAt(Stated(recs), Len(recs), recs)
  <1> DEFINE n == Len(recs)
             g == [k \in 1..n |-> [b \in Books |-> State(b, recs[k])]]
  <1>1. n \in Nat /\ \A k \in 1..n : recs[k] \in Record
    BY LenProperties, ElementOfSeq
  <1>2. Empty \in Books /\ BookAt(Empty, 0, recs)
    BY BookStarts DEF BookAt
  <1>3. ASSUME NEW k \in 1..n, NEW b \in Books
        PROVE  g[k][b] = State(b, recs[k]) /\ g[k][b] \in Books
    <2>1. State(b, recs[k]) \in Books
      BY <1>1, StateIs
    <2> QED
      BY <2>1
  <1>4. PICK f \in [0..n -> Books] : f[0] = Empty /\ \A k \in 1..n : f[k] = g[k][f[k - 1]]
    <2> HIDE DEF n, g
    <2>1. Steps(g, n, Books)
      BY <1>3 DEF Steps
    <2>2. PICK f : Walks(f, g, Empty, n, Books)
      BY <1>1, <1>2, <2>1, Walk
    <2> QED
      BY <2>2 DEF Walks
  <1>5. \A k \in 1..n : k - 1 \in 0..n /\ f[k] = State(f[k - 1], recs[k])
    <2>1. ASSUME NEW k \in 1..n
          PROVE  k - 1 \in 0..n /\ f[k] = State(f[k - 1], recs[k])
      <3>1. k - 1 \in 0..n
        BY <1>1
      <3>2. f[k - 1] \in Books
        BY <1>4, <3>1
      <3> HIDE DEF g, n
      <3> QED
        BY <1>3, <1>4, <3>1, <3>2
    <2> QED
      BY <2>1
  <1> HIDE DEF g
  <1>6. States(f, recs)
    <2>1. f = [k \in 0..n |-> f[k]]
      BY <1>4
    <2>2. \A k \in 0..n : f[k] = IF k = 0 THEN Empty ELSE State(f[k - 1], recs[k])
      <3>1. \A k \in 0..n : k # 0 => k \in 1..n
        BY <1>1
      <3> HIDE DEF n
      <3> QED
        BY <1>4, <1>5, <3>1
    <2>3. f = [k \in 0..n |-> IF k = 0 THEN Empty ELSE State(f[k - 1], recs[k])]
      <3> HIDE DEF n
      <3> QED
        BY <2>1, <2>2
    <2> QED
      BY <2>3 DEF States
  <1>7. ASSUME NEW h, States(h, recs)
        PROVE  BookAt(h[n], n, recs)
    <2> DEFINE bad == {k \in 0..n : ~BookAt(h[k], k, recs)}
    <2>1. \A k \in 0..n : h[k] = IF k = 0 THEN Empty ELSE State(h[k - 1], recs[k])
      <3>1. h = [k \in 0..n |-> IF k = 0 THEN Empty ELSE State(h[k - 1], recs[k])]
        BY <1>7 DEF States
      <3> HIDE DEF n
      <3> QED
        BY <3>1
    <2>2. SUFFICES ASSUME bad # {}
                   PROVE  FALSE
      <3>1. n \in 0..n
        BY <1>1
      <3> QED
        BY <2>2, <3>1
    <2>3. PICK k \in bad : \A j \in bad : k <= j
      <3>1. bad \in SUBSET Nat
        OBVIOUS
      <3> HIDE DEF bad
      <3> QED
        BY <2>2, <3>1, LeastNumber
    <2>4. k # 0
      BY <1>2, <2>1, <2>3
    <2>5. k \in 1..n /\ k - 1 \in 0..n /\ ~(k <= k - 1)
      BY <1>1, <2>3, <2>4
    <2>6. BookAt(h[k - 1], k - 1, recs)
      BY <2>3, <2>5
    <2>7. h[k] = State(h[k - 1], recs[k])
      BY <2>1, <2>4, <2>5
    <2>8. BookAt(h[k], k, recs)
      <3> HIDE DEF bad
      <3> QED
        BY <2>5, <2>6, <2>7, BookGoesOn
    <2> QED
      BY <2>3, <2>8
  <1> DEFINE h == CHOOSE x : States(x, recs)
  <1>8. States(h, recs)
    BY <1>6
  <1>9. Stated(recs) = h[n]
    BY StatedUnfolds
  <1> HIDE DEF h, n
  <1>10. BookAt(h[n], n, recs)
    BY <1>7, <1>8
  <1> QED
    BY <1>9, <1>10 DEF n

-----------------------------------------------------------------------------
(* The net, the plan, and the allocation.                                  *)

LEMMA LoneIs ==
    ASSUME Types, NEW s \in Symbols, Cardinality(Contributors(s)) = 1
    PROVE  \E p \in Producers : Contributors(s) = {p} /\ (CHOOSE q \in Contributors(s) : TRUE) = p
  <1>1. IsFiniteSet(Contributors(s)) /\ Contributors(s) \subseteq Producers
    BY ContributorsAre
  <1>2. PICK p : Contributors(s) = {p}
    <2> DEFINE C == Contributors(s)
    <2>1. IsFiniteSet(C) /\ Cardinality(C) = 1
      BY <1>1
    <2> HIDE DEF C
    <2>2. \E p : C = {p}
      BY <2>1, FS_Singleton
    <2> QED
      BY <2>2 DEF C
  <1>3. (CHOOSE q \in {p} : TRUE) = p
    OBVIOUS
  <1> QED
    BY <1>1, <1>2, <1>3

LEMMA NetIs ==
    ASSUME Types, NEW s \in Symbols, NEW f, IsFactors(f)
    PROVE  /\ Net(s, f).qty \in Int
           /\ Net(s, f).own \in BOOLEAN
           /\ Net(s, f).own => \E p \in Producers : /\ Contributors(s) = {p}
                                                    /\ Net(s, f).seq = claims[p][s].seq
                                                    /\ Net(s, f).ts = claims[p][s].ts
           /\ ~Net(s, f).own => Net(s, f).seq = netSeq[s] + 1
           /\ [Net(s, f) EXCEPT !.ts = now] =
                [qty |-> Net(s, f).qty, flags |-> Net(s, f).flags, own |-> Net(s, f).own,
                 seq |-> Net(s, f).seq, ts |-> now]
  <1> DEFINE all == Contributors(s)
             lone == CHOOSE p \in all : TRUE
             sum == NetQty(s, f)
             own == /\ Cardinality(all) = 1 /\ all = Live(s)
                    /\ "close" \in claims[lone][s].flags \/ sum = claims[lone][s].qty
             flags == {g \in {"reduce", "close"} : \A p \in all : g \in claims[p][s].flags}
             seq == IF own THEN claims[lone][s].seq ELSE NextSeq(s, sum)
             ts == IF own THEN claims[lone][s].ts
                   ELSE IF Live(s) = {} THEN now ELSE Max({claims[p][s].ts : p \in Live(s)})
  <1>1. Net(s, f) = [qty |-> sum, flags |-> flags, own |-> own, seq |-> seq, ts |-> ts]
    BY DEF Net
  <1>2. sum \in Int /\ own \in BOOLEAN
    BY NetQtyIs
  <1>3. own => \E p \in Producers : all = {p} /\ seq = claims[p][s].seq /\ ts = claims[p][s].ts
    BY LoneIs
  <1>4. ~own => seq = netSeq[s] + 1
    BY DEF NextSeq
  <1> HIDE DEF sum, flags, own, seq, ts
  <1>5. /\ Net(s, f).qty = sum /\ Net(s, f).own = own /\ Net(s, f).seq = seq /\ Net(s, f).ts = ts
        /\ Net(s, f).flags = flags
    BY <1>1
  <1>6. [Net(s, f) EXCEPT !.ts = now] = [qty |-> sum, flags |-> flags, own |-> own, seq |-> seq, ts |-> now]
    BY <1>1
  <1> QED
    BY <1>2, <1>3, <1>4, <1>5, <1>6

LEMMA OfTwo ==
    ASSUME NEW a \in Int, NEW b \in Int
    PROVE  Max({a, b}) \in Int /\ Min({a, b}) \in Int
  <1>1. \E x \in {a, b} : \A y \in {a, b} : x >= y
    OBVIOUS
  <1>2. \E x \in {a, b} : \A y \in {a, b} : x =< y
    OBVIOUS
  <1>3. Max({a, b}) \in {a, b}
    BY <1>1 DEF Max
  <1>4. Min({a, b}) \in {a, b}
    BY <1>2 DEF Min
  <1> QED
    BY <1>3, <1>4

LEMMA PlannedIs ==
    ASSUME Types, NEW s \in Symbols, NEW net, net.qty \in Int, Planned(s, net) # None
    PROVE  /\ Planned(s, net).qty \in Int /\ Planned(s, net).own = net.own
           /\ Planned(s, net).id = <<net.ts, net.seq, s>>
  <1> DEFINE qty == IF market[s] = "open" THEN Goal(s, net) - position[s] ELSE 0
  <1>1. position[s] \in Int
    BY DEF Types
  <1>2. Goal(s, net) \in Int
    <2> DEFINE a == Max({position[s], 0})
               b == Min({position[s], 0})
               c == Min({net.qty, a})
               d == Max({c, b})
    <2>1. a \in Int /\ b \in Int
      BY <1>1, OfTwo
    <2> HIDE DEF a, b
    <2>2. c \in Int
      BY <2>1, OfTwo
    <2> HIDE DEF c
    <2>3. d \in Int
      BY <2>1, <2>2, OfTwo
    <2> HIDE DEF d
    <2>4. Goal(s, net) = IF "close" \in net.flags THEN 0 ELSE IF "reduce" \in net.flags THEN d ELSE net.qty
      BY DEF Goal, a, b, c, d
    <2> QED
      BY <2>3, <2>4
  <1>3. Planned(s, net) = [cancel |-> Slots(working[s]), qty |-> qty, id |-> <<net.ts, net.seq, s>>,
                           own |-> net.own]
    BY DEF Planned, Cloid
  <1>4. qty \in Int
    BY <1>1, <1>2
  <1> HIDE DEF qty
  <1> QED
    BY <1>3, <1>4

LEMMA AllocatedIs ==
    ASSUME Types, AllocIs, pass = "plan", NEW s \in Symbols
    PROVE  IsFactors(Allocated(s))
  <1>1. IsFactors(alloc.factors)
    BY AllocationIs DEF AllocIs
  <1>2. IsFactors([p \in Producers |-> Zero])
    BY DEF IsFactors, IsFactor, Zero
  <1> QED
    BY <1>1, <1>2 DEF Allocated

LEMMA AllocationIsSome == Allocation # None
  <1> DEFINE own == BudgetFactors
             factors == [p \in Producers |-> Times(own[p], BookFactor(own))]
  <1>1. Allocation = [own |-> own, factors |-> factors, denied |-> Denied(factors)]
    BY DEF Allocation
  <1> HIDE DEF own, factors
  <1>2. DOMAIN Allocation = {"own", "factors", "denied"} /\ DOMAIN None = {"none"}
    BY <1>1 DEF None
  <1>3. "own" \notin {"none"}
    OBVIOUS
  <1> QED
    BY <1>2, <1>3

(* The allocation is made of the session, the claims and the positions. *)
LEMMA AllocationStays ==
    ASSUME session' = session, claims' = claims, position' = position
    PROVE  Allocation' = Allocation
  <1>1. Producers' = Producers /\ Symbols' = Symbols
    BY DEF Producers, Symbols
  <1>2. \A s : Contributors(s)' = Contributors(s)
    BY <1>1 DEF Contributors
  <1>3. \A p, s, f : Share(p, s, f)' = Share(p, s, f)
    BY DEF Share, Zeroed, Quiet
  <1>4. \A s, f : NetQty(s, f)' = NetQty(s, f)
    BY <1>2, <1>3 DEF NetQty
  <1>5. \A want : Weigh(want)' = Weigh(want) /\ Directed(want)' = Directed(want)
    BY <1>1 DEF Weigh, Directed
  <1>6. \A p : Wants(p)' = Wants(p)
    BY <1>1 DEF Wants, Claimed
  <1>7. BudgetFactors' = BudgetFactors
    BY <1>1, <1>5, <1>6 DEF BudgetFactors, BudgetFactor
  <1>8. \A own : BookFactor(own)' = BookFactor(own)
    BY <1>1, <1>4, <1>5 DEF BookFactor
  <1>9. ASSUME NEW f
        PROVE  Denied(f)' = Denied(f)
    <2> DEFINE open == {s \in Symbols : position[s] # 0}
               wants == [s \in Symbols |-> NetQty(s, f)]
               size == [s \in Symbols |-> Abs(wants[s]) * session.marks[s]]
               wanted == {s \in Symbols \ open : wants[s] # 0}
               before == [s \in wanted |-> {t \in wanted : size[t] > size[s] \/ (size[t] = size[s] /\ t < s)}]
               denied == {s \in wanted : Cardinality(before[s]) + Cardinality(open) >= session.symbols}
    <2>1. open' = open /\ wants' = wants
      BY <1>1, <1>4
    <2>2. size' = size
      <3> HIDE DEF wants
      <3> QED
        BY <1>1, <2>1
    <2>3. wanted' = wanted
      <3> HIDE DEF wants, open
      <3> QED
        BY <1>1, <2>1
    <2>4. before' = before
      <3> HIDE DEF wanted, size
      <3> QED
        BY <2>2, <2>3
    <2>5. denied' = denied
      <3> HIDE DEF wanted, before, open
      <3> QED
        BY <2>1, <2>3, <2>4
    <2>6. Denied(f) = IF session.symbols = Unbounded THEN {} ELSE denied
      BY DEF Denied
    <2>7. Denied(f)' = IF session'.symbols = Unbounded THEN {} ELSE denied'
      BY DEF Denied
    <2> QED
      BY <2>5, <2>6, <2>7
  <1> QED
    BY <1>1, <1>7, <1>8, <1>9 DEF Allocation

LEMMA AllocStays ==
    ASSUME AllocIs, UNCHANGED <<session, claims, position, alloc, pass>>
    PROVE  AllocIs'
  BY AllocationStays DEF AllocIs

-----------------------------------------------------------------------------
(* The first states, and the steps.                                        *)

LEMMA SessionStays ==
    ASSUME session' = session
    PROVE  Producers' = Producers /\ Symbols' = Symbols /\ Record' = Record
  BY DEF Producers, Symbols, Record

LEMMA InitIsRight ==
    ASSUME Init
    PROVE  Ind
  <1>1. IsSession(session) /\ session \in Sessions
    BY TargetBookAssumption DEF Init
  <1>2. /\ session.ticks \in Nat /\ session.ticks > 0 /\ session.requotes \in Nat /\ session.refusals \in Nat
        /\ session.halts \in Nat /\ session.failures \in Nat
        /\ MaxAge \in Nat /\ MaxNetSeq \in Nat
    BY <1>1, TargetBookAssumption DEF IsSession
  <1>3. /\ now \in 1..session.ticks /\ sinceSweep \in 0..MaxAge /\ refusals \in 0..session.refusals
        /\ switched \in 0..session.halts /\ failures \in 0..session.failures
        /\ 0 \in 0..MaxNetSeq /\ 0 \in 0..session.requotes
    BY <1>2 DEF Init
  <1>4. inbox \subseteq Record /\ IsFiniteSet(inbox) /\ carried \in Seq(Record)
    BY FS_EmptySet, EmptySeq DEF Init
  <1>5. /\ claims \in [Producers -> [Symbols -> Claim \cup {None}]]
        /\ DOMAIN working = Symbols /\ \A s \in Symbols : AreOrders(working[s])
        /\ market \in [Symbols -> session.moods \cup {"open"}]
        /\ stated \in [Producers -> Nat] /\ position \in [Symbols -> Int]
        /\ netSeq \in [Symbols -> 0..MaxNetSeq] /\ requotes \in [Symbols -> 0..session.requotes]
        /\ DOMAIN intents = Symbols /\ \A s \in Symbols : intents[s] = None
        /\ touched \subseteq Symbols /\ unquoted \subseteq Symbols /\ stranded \subseteq Symbols
    BY <1>3, FS_EmptySet DEF Init, AreOrders
  <1>6. Types
    BY <1>1, <1>3, <1>4, <1>5 DEF Types, Init
  <1>7. TheInboxIsNew /\ TheCarriedAreNew
    BY DEF TheInboxIsNew, TheCarriedAreNew, Init
  <1>8. ClaimsAreOwned /\ HeldByOne
    BY DEF ClaimsAreOwned, HeldByOne, Init
  <1>9. MintedAre /\ IdsOfAKindDiffer /\ AllocIs
    BY DEF MintedAre, IdsOfAKindDiffer, AllocIs, Init
  <1> QED
    BY <1>6, <1>7, <1>8, <1>9 DEF Ind

(* What the records make of the claims: each is the one before, or that of a
   fit record, newer than it. *)
LEMMA ReadClaims ==
    ASSUME Ind, Read
    PROVE  /\ session' = session /\ now' = now /\ stated' = stated
           /\ claims' \in [Producers -> [Symbols -> Claim \cup {None}]]
           /\ touched' \subseteq Symbols /\ carried' \in Seq(Record)
           /\ \A p \in Producers, s \in Symbols :
                \/ claims'[p][s] = claims[p][s]
                \/ /\ claims'[p][s] # None /\ s \in session.owns[p]
                   /\ claims'[p][s].ts <= now /\ claims'[p][s].seq <= stated[p]
                   /\ claims[p][s] # None => claims[p][s].seq < claims'[p][s].seq
           /\ \A s \in Symbols \ touched' : \A p \in Producers : claims'[p][s] = claims[p][s]
           /\ \A s \in touched' : \E p \in Producers :
                /\ claims'[p][s] # None
                /\ claims[p][s] # None => claims[p][s].seq < claims'[p][s].seq
           /\ HeldByOne'
           /\ \A i \in 1..Len(carried') : Fit(carried'[i]) /\ carried'[i].symbol \notin touched'
           /\ NoneAlike(carried')
  <1> DEFINE recs == PassRecords
             b == Stated(recs)
  <1>1. /\ recs \in Seq(Record) /\ Len(recs) \in Nat
        /\ \A i \in 1..Len(recs) : Fit(recs[i])
        /\ NoneAlike(recs)
    BY PassRecordsAre DEF Ind
  <1>2. /\ claims' = b.claims /\ touched' = b.touched /\ carried' = b.carried
        /\ session' = session /\ now' = now /\ stated' = stated
    BY DEF Read
  <1> HIDE DEF recs
  <1>3. BookAt(b, Len(recs), recs)
    BY <1>1, StatedIs DEF Ind
  <1> HIDE DEF b
  <1>4. /\ claims' \in [Producers -> [Symbols -> Claim \cup {None}]]
        /\ touched' \subseteq Symbols /\ carried' \in Seq(Record)
    BY <1>2, <1>3, BooksAre DEF BookAt
  <1>5. ASSUME NEW p \in Producers, NEW s \in Symbols, Speaks(b, p, s, Len(recs), recs)
        PROVE  /\ claims'[p][s] # None
               /\ claims'[p][s].ts <= now /\ claims'[p][s].seq <= stated[p]
               /\ claims[p][s] # None => claims[p][s].seq < claims'[p][s].seq
    <2>1. PICK j \in 1..Len(recs) : recs[j].producer = p /\ recs[j].symbol = s /\ b.claims[p][s] = ClaimOf(recs[j])
      BY <1>5 DEF Speaks
    <2>2. Fit(recs[j]) /\ recs[j] \in Record
      BY <1>1 DEF Fit
    <2>3. /\ ClaimOf(recs[j]) # None
          /\ ClaimOf(recs[j]).seq = recs[j].seq /\ ClaimOf(recs[j]).ts = recs[j].ts
      BY <2>2, ClaimOfIs DEF Ind
    <2> QED
      BY <1>2, <2>1, <2>2, <2>3 DEF Fit, Newer
  <1>6. \A p \in Producers, s \in Symbols :
            b.claims[p][s] = claims[p][s]
            \/ (Speaks(b, p, s, Len(recs), recs) /\ s \in session.owns[p])
    BY <1>3 DEF BookAt
  <1>7. \A s \in touched' : \E p \in Producers : Speaks(b, p, s, Len(recs), recs)
    BY <1>2, <1>3 DEF BookAt
  <1>8. \A s \in Symbols \ touched' : \A p \in Producers : claims'[p][s] = claims[p][s]
    BY <1>2, <1>3 DEF BookAt
  <1>9. HeldByOne'
    BY <1>2, <1>3, SessionStays DEF BookAt, HeldByOne
  <1>10. ASSUME NEW i \in 1..Len(carried')
         PROVE  Fit(carried'[i]) /\ carried'[i].symbol \notin touched'
    <2>1. PICK j \in 1..Len(recs) : carried'[i] = recs[j] /\ intents[recs[j].symbol] # None
      BY <1>2, <1>3 DEF BookAt
    <2>2. \A s \in touched' : intents[s] = None
      BY <1>2, <1>3 DEF BookAt
    <2> QED
      BY <1>1, <2>1, <2>2
  <1>11. NoneAlike(carried')
    BY <1>2, <1>3 DEF BookAt
  <1>12. \A p \in Producers, s \in Symbols :
                \/ claims'[p][s] = claims[p][s]
                \/ /\ claims'[p][s] # None /\ s \in session.owns[p]
                   /\ claims'[p][s].ts <= now /\ claims'[p][s].seq <= stated[p]
                   /\ claims[p][s] # None => claims[p][s].seq < claims'[p][s].seq
    BY <1>2, <1>5, <1>6
  <1>13. \A s \in touched' : \E p \in Producers :
                /\ claims'[p][s] # None
                /\ claims[p][s] # None => claims[p][s].seq < claims'[p][s].seq
    BY <1>4, <1>5, <1>7
  <1> QED
    BY <1>2, <1>4, <1>8, <1>9, <1>10, <1>11, <1>12, <1>13

LEMMA ReadKeeps ==
    ASSUME Ind, Read
    PROVE  Ind'
  <1> USE DEF Ind
  <1>1. /\ session' = session /\ now' = now /\ stated' = stated
        /\ Producers' = Producers /\ Symbols' = Symbols /\ Record' = Record
    BY ReadClaims, SessionStays
  <1>2. /\ inbox' = {} /\ minted' = minted /\ netSeq' = netSeq /\ pass = "due" /\ pass' \in {"done", "allocate"}
        /\ alloc' = alloc /\ sinceSweep' = sinceSweep /\ intents' = intents /\ unquoted' = unquoted
        /\ stranded' = stranded /\ market' = market /\ switched' = switched /\ failures' = failures
        /\ refusals' = refusals /\ position' = position /\ working' = working
        /\ \A s \in Symbols : requotes'[s] \in {0, requotes[s]}
        /\ requotes' = [s \in Symbols |-> requotes'[s]]
    BY DEF Read, venueVars, outside, reports
  <1>3. /\ claims' \in [Producers -> [Symbols -> Claim \cup {None}]]
        /\ touched' \subseteq Symbols /\ carried' \in Seq(Record)
    BY ReadClaims
  <1>4. Types'
    <2>1. requotes' \in [Symbols -> 0..session.requotes]
      <3>1. 0 \in 0..session.requotes /\ \A s \in Symbols : requotes[s] \in 0..session.requotes
        BY SessionIs DEF Types
      <3> QED
        BY <1>2, <3>1
    <2>2. inbox' \subseteq Record /\ IsFiniteSet(inbox')
      BY <1>2, FS_EmptySet
    <2> QED
      BY <1>1, <1>2, <1>3, <2>1, <2>2 DEF Types
  <1>5. TheInboxIsNew'
    BY <1>2 DEF TheInboxIsNew
  <1>6. TheCarriedAreNew'
    <2>1. DOMAIN carried' = 1..Len(carried')
      BY <1>3, LenProperties
    <2>2. ASSUME NEW i \in 1..Len(carried')
          PROVE  /\ carried'[i].seq <= stated'[carried'[i].producer] /\ carried'[i].ts <= now'
                 /\ claims'[carried'[i].producer][carried'[i].symbol] # None =>
                        claims'[carried'[i].producer][carried'[i].symbol].seq < carried'[i].seq
      <3>1. Fit(carried'[i]) /\ carried'[i].symbol \notin touched'
        BY ReadClaims
      <3>2. carried'[i].producer \in Producers /\ carried'[i].symbol \in Symbols
        BY <3>1, RecordIs DEF Fit
      <3>3. claims'[carried'[i].producer][carried'[i].symbol] = claims[carried'[i].producer][carried'[i].symbol]
        BY <3>1, <3>2, ReadClaims
      <3> QED
        BY <1>1, <3>1, <3>3 DEF Fit, Newer
    <2>3. NoneAlike(carried')
      BY ReadClaims
    <2> QED
      BY <1>2, <2>1, <2>2, <2>3 DEF TheCarriedAreNew, NoneAlike, Newer
  <1>7. ClaimsAreOwned'
    BY <1>1, ReadClaims DEF ClaimsAreOwned
  <1>8. HeldByOne'
    BY ReadClaims
  <1>9. MintedAre'
    <2>1. ASSUME NEW s \in Symbols, NEW seq \in Nat, OwnIs(seq, s)
          PROVE  OwnIs(seq, s)'
      <3>1. \A p \in Producers : claims[p][s] # None => claims'[p][s] # None
        BY ReadClaims
      <3>2. Contributors(s) # {} /\ Contributors(s) \subseteq Contributors(s)'
        BY <1>1, <2>1, <3>1 DEF OwnIs, Contributors
      <3>3. ASSUME NEW p \in Producers, Contributors(s)' = {p}
            PROVE  seq <= claims'[p][s].seq /\ (s \in touched' => seq < claims'[p][s].seq)
        <4>1. Contributors(s) = {p} /\ claims[p][s] # None
          BY <3>2, <3>3 DEF Contributors
        <4>2. seq <= claims[p][s].seq
          BY <2>1, <4>1 DEF OwnIs
        <4>3. claims[p][s].seq \in Nat /\ claims'[p][s] # None /\ claims'[p][s].seq \in Nat
          <5>1. claims'[p][s] # None
            BY <3>1, <4>1
          <5>2. claims'[p][s] \in Claim
            BY <1>3, <5>1
          <5> QED
            BY <4>1, <5>1, <5>2, ClaimsAre DEF Claim
        <4>4. claims'[p][s] = claims[p][s] \/ claims[p][s].seq < claims'[p][s].seq
          BY <4>1, ReadClaims
        <4>5. s \in touched' => claims[p][s].seq < claims'[p][s].seq
          <5>1. ASSUME s \in touched'
                PROVE  claims[p][s].seq < claims'[p][s].seq
            <6>1. PICK q \in Producers : /\ claims'[q][s] # None
                                         /\ claims[q][s] # None => claims[q][s].seq < claims'[q][s].seq
              BY <5>1, ReadClaims
            <6>2. q = p
              BY <1>1, <3>3, <6>1 DEF Contributors
            <6> QED
              BY <4>1, <6>1, <6>2
          <5> QED
            BY <5>1
        <4> QED
          BY <4>2, <4>3, <4>4, <4>5
      <3> QED
        BY <1>1, <3>2, <3>3 DEF OwnIs
    <2>2. ASSUME NEW m \in minted'
          PROVE  /\ m.at \in Nat /\ m.at <= now' /\ m.at < session'.ticks /\ (pass' # "done" => m.at < now')
                 /\ m.own \in BOOLEAN
                 /\ m.id[2] \in Nat /\ m.id[3] \in Symbols'
                 /\ m.own => m.id[1] <= m.at /\ OwnIs(m.id[2], m.id[3])'
                 /\ ~m.own => m.id[2] <= netSeq'[m.id[3]]
      <3>1. m \in minted
        BY <1>2
      <3>2. /\ m.at \in Nat /\ m.at <= now /\ m.at < session.ticks /\ m.at < now
            /\ m.own \in BOOLEAN
            /\ m.id[2] \in Nat /\ m.id[3] \in Symbols
            /\ m.own => m.id[1] <= m.at /\ OwnIs(m.id[2], m.id[3])
            /\ ~m.own => m.id[2] <= netSeq[m.id[3]]
        BY <1>2, <3>1 DEF MintedAre
      <3> QED
        BY <1>1, <1>2, <2>1, <3>2
    <2> QED
      BY <2>2 DEF MintedAre
  <1>10. IdsOfAKindDiffer' /\ AllocIs'
    BY <1>2 DEF IdsOfAKindDiffer, AllocIs
  <1> QED
    BY <1>4, <1>5, <1>6, <1>7, <1>8, <1>9, <1>10

LEMMA RecordsStay ==
    ASSUME Ind, UNCHANGED <<session, now, stated, inbox, carried, claims>>
    PROVE  TheInboxIsNew' /\ TheCarriedAreNew' /\ ClaimsAreOwned' /\ HeldByOne'
  <1>1. /\ session' = session /\ now' = now /\ stated' = stated /\ inbox' = inbox
        /\ carried' = carried /\ claims' = claims /\ Producers' = Producers /\ Symbols' = Symbols
    BY SessionStays
  <1>2. TheInboxIsNew'
    BY <1>1 DEF Ind, TheInboxIsNew, Newer
  <1>3. TheCarriedAreNew'
    BY <1>1 DEF Ind, TheCarriedAreNew, Newer
  <1>4. ClaimsAreOwned' /\ HeldByOne'
    BY <1>1 DEF Ind, ClaimsAreOwned, HeldByOne
  <1> QED
    BY <1>2, <1>3, <1>4

LEMMA MintedStay ==
    ASSUME Ind, UNCHANGED <<session, now, claims, touched, netSeq, minted>>, pass' # "done" => pass # "done"
    PROVE  MintedAre' /\ IdsOfAKindDiffer'
  <1>1. /\ session' = session /\ now' = now /\ claims' = claims /\ touched' = touched
        /\ netSeq' = netSeq /\ minted' = minted /\ Producers' = Producers /\ Symbols' = Symbols
    BY SessionStays
  <1>2. \A seq, s : OwnIs(seq, s)' <=> OwnIs(seq, s)
    BY <1>1 DEF OwnIs, Contributors
  <1>3. MintedAre'
    BY <1>1, <1>2 DEF Ind, MintedAre
  <1> QED
    BY <1>1, <1>3 DEF Ind, IdsOfAKindDiffer

LEMMA AllocateKeeps ==
    ASSUME Ind, Allocate
    PROVE  Ind'
  <1>1. /\ alloc' = Allocation /\ pass = "allocate" /\ pass' = "plan"
        /\ UNCHANGED <<session, now, touched, sinceSweep, stated, inbox, carried, claims, netSeq, requotes,
                       position, working, intents, unquoted, stranded, market, switched, failures, refusals, minted>>
    BY DEF Allocate, bookVars, venueVars, outside, reports
  <1>2. Producers' = Producers /\ Symbols' = Symbols /\ Record' = Record
    BY <1>1, SessionStays
  <1>3. Types'
    BY <1>1, <1>2, AllocationIsSome DEF Ind, Types
  <1>4. AllocIs'
    BY <1>1, AllocationStays DEF AllocIs
  <1>5. TheInboxIsNew' /\ TheCarriedAreNew' /\ ClaimsAreOwned' /\ HeldByOne'
    BY <1>1, RecordsStay
  <1>6. MintedAre' /\ IdsOfAKindDiffer'
    BY <1>1, MintedStay
  <1> QED
    BY <1>3, <1>4, <1>5, <1>6 DEF Ind

LEMMA StutterKeeps ==
    ASSUME Ind, UNCHANGED vars
    PROVE  Ind'
  <1>1. UNCHANGED <<session, now, pass, alloc, touched, sinceSweep, stated, inbox, carried, claims, netSeq,
                    requotes, position, working, intents, unquoted, stranded, market, switched, failures, refusals, minted>>
    BY DEF vars, bookVars, venueVars, outside, reports
  <1>2. Producers' = Producers /\ Symbols' = Symbols /\ Record' = Record
    BY <1>1, SessionStays
  <1>3. Types'
    BY <1>1, <1>2 DEF Ind, Types
  <1>4. AllocIs'
    BY <1>1, AllocStays DEF Ind
  <1>5. TheInboxIsNew' /\ TheCarriedAreNew' /\ ClaimsAreOwned' /\ HeldByOne'
    BY <1>1, RecordsStay
  <1>6. MintedAre' /\ IdsOfAKindDiffer'
    BY <1>1, MintedStay
  <1> QED
    BY <1>3, <1>4, <1>5, <1>6 DEF Ind

(* A new order is one, and those that are left are orders. *)
LEMMA OrdersStay ==
    ASSUME NEW orders, AreOrders(orders), NEW left \in SUBSET orders, NEW q \in Int
    PROVE  AreOrders(left) /\ AreOrders(Placed(left, q))
  <1> DEFINE new == [slot |-> Free(left), qty |-> q, age |-> 0, asked |-> MaxAge]
  <1>1. AreOrders(left)
    BY FS_Subset DEF AreOrders
  <1>2. IsOrder(new)
    BY DEF IsOrder
  <1>3. Placed(left, q) = left \cup {new}
    BY DEF Placed
  <1> HIDE DEF new
  <1>4. IsFiniteSet(left \cup {new})
    BY <1>1, FS_AddElement DEF AreOrders
  <1> QED
    BY <1>1, <1>2, <1>3, <1>4 DEF AreOrders

(* And so are those that have been made of orders, one of each. *)
LEMMA OrdersChange ==
    ASSUME NEW orders, IsFiniteSet(orders), NEW f, DOMAIN f = orders, \A o \in orders : IsOrder(f[o]),
           f = [o \in orders |-> f[o]]
    PROVE  AreOrders({f[o] : o \in orders})
  <1>1. f \in Surjection(orders, {f[o] : o \in orders})
    BY DEF Surjection, Range
  <1>2. IsFiniteSet({f[o] : o \in orders})
    BY <1>1, FS_Surjection
  <1> QED
    BY <1>2 DEF AreOrders

LEMMA SubmitKeeps ==
    ASSUME Ind, NEW s \in Symbols, Submit(s)
    PROVE  Ind'
  <1>1. /\ intents[s] # None /\ ~Locked
        /\ intents' = [intents EXCEPT ![s] = None]
        /\ UNCHANGED <<session, now, pass, alloc, touched, sinceSweep, stated, inbox, carried, claims, netSeq,
                       requotes, position, unquoted, stranded, market, switched, refusals, minted>>
    BY DEF Submit, bookVars, reports
  <1> DEFINE asked == {o \in working[s] : o.slot \in intents[s].cancel}
             Left(failed) == {o \in working[s] : o.slot \in intents[s].cancel => o \in failed}
  <1>2. PICK failed \in SUBSET asked :
            /\ failures + Cardinality(failed) <= session.failures
            /\ failures' = failures + Cardinality(failed)
            /\ \/ working' = [working EXCEPT ![s] = Left(failed)]
               \/ working' = [working EXCEPT ![s] = Placed(Left(failed), intents[s].qty)]
    BY DEF Submit
  <1>3. Producers' = Producers /\ Symbols' = Symbols /\ Record' = Record
    BY <1>1, SessionStays
  <1>4. /\ DOMAIN working = Symbols /\ \A t \in Symbols : AreOrders(working[t])
        /\ intents[s].qty \in Int
    BY <1>1 DEF Ind, Types
  <1>5. AreOrders(Left(failed)) /\ AreOrders(Placed(Left(failed), intents[s].qty))
    <2>1. Left(failed) \in SUBSET working[s] /\ AreOrders(working[s])
      BY <1>4
    <2> HIDE DEF Left
    <2> QED
      BY <1>4, <2>1, OrdersStay
  <1>6. DOMAIN working' = Symbols /\ \A t \in Symbols : AreOrders(working'[t])
    <2> HIDE DEF Left
    <2> QED
      BY <1>2, <1>4, <1>5
  <1>7. DOMAIN intents' = Symbols /\ \A t \in Symbols : intents'[t] # None => intents'[t].qty \in Int
    BY <1>1 DEF Ind, Types
  <1>8. failures' \in 0..session.failures
    <2>1. IsFiniteSet(failed)
      BY <1>4, FS_Subset DEF AreOrders
    <2>2. Cardinality(failed) \in Nat
      BY <2>1, FS_CardinalityType
    <2>3. failures \in Nat /\ session.failures \in Nat
      BY SessionIs DEF Ind, Types
    <2> QED
      BY <1>2, <2>2, <2>3
  <1>9. Types'
    BY <1>1, <1>3, <1>6, <1>7, <1>8 DEF Ind, Types
  <1>10. AllocIs'
    BY <1>1 DEF AllocIs, Locked
  <1>11. TheInboxIsNew' /\ TheCarriedAreNew' /\ ClaimsAreOwned' /\ HeldByOne'
    BY <1>1, RecordsStay
  <1>12. MintedAre' /\ IdsOfAKindDiffer'
    BY <1>1, MintedStay
  <1> QED
    BY <1>9, <1>10, <1>11, <1>12 DEF Ind

LEMMA FillKeeps ==
    ASSUME Ind, NEW s \in Symbols, Fill(s)
    PROVE  Ind'
  <1>1. /\ ~Locked
        /\ UNCHANGED <<session, now, pass, alloc, touched, sinceSweep, stated, inbox, carried, claims, netSeq,
                       requotes, intents, unquoted, stranded, market, switched, failures, refusals, minted>>
    BY DEF Fill, bookVars, outside, reports
  <1>2. PICK o \in working[s] : /\ position' = [position EXCEPT ![s] = @ + o.qty]
                                /\ working' = [working EXCEPT ![s] = @ \ {o}]
    BY DEF Fill
  <1>3. Producers' = Producers /\ Symbols' = Symbols /\ Record' = Record
    BY <1>1, SessionStays
  <1>4. /\ DOMAIN working = Symbols /\ \A t \in Symbols : AreOrders(working[t])
        /\ o.qty \in Int /\ position \in [Symbols -> Int]
    BY <1>2 DEF Ind, Types, AreOrders, IsOrder
  <1>5. AreOrders(working[s] \ {o})
    BY <1>4, OrdersStay
  <1>6. DOMAIN working' = Symbols /\ \A t \in Symbols : AreOrders(working'[t])
    BY <1>2, <1>4, <1>5
  <1>7. position' \in [Symbols -> Int]
    BY <1>2, <1>4
  <1>8. Types'
    BY <1>1, <1>3, <1>6, <1>7 DEF Ind, Types
  <1>9. AllocIs'
    BY <1>1 DEF AllocIs, Locked
  <1>10. TheInboxIsNew' /\ TheCarriedAreNew' /\ ClaimsAreOwned' /\ HeldByOne'
    BY <1>1, RecordsStay
  <1>11. MintedAre' /\ IdsOfAKindDiffer'
    BY <1>1, MintedStay
  <1> QED
    BY <1>8, <1>9, <1>10, <1>11 DEF Ind

LEMMA OutsideKeeps ==
    ASSUME Ind, Halt \/ \E s \in Symbols : Reprice(s)
    PROVE  Ind'
  <1>1. UNCHANGED <<session, now, pass, alloc, touched, sinceSweep, stated, inbox, carried, claims, netSeq,
                    requotes, position, working, intents, unquoted, stranded, failures, refusals, minted>>
    BY DEF Halt, Reprice, bookVars, venueVars, reports
  <1>2. Producers' = Producers /\ Symbols' = Symbols /\ Record' = Record
    BY <1>1, SessionStays
  <1>3. market' \in [Symbols -> session.moods \cup {"open"}]
    BY DEF Halt, Reprice, Ind, Types
  <1>4. switched' \in 0..session.halts
    <2>1. switched \in Nat /\ session.halts \in Nat /\ switched <= session.halts
      BY SessionIs DEF Ind, Types
    <2>2. \/ switched' = switched
          \/ switched' = switched + 1 /\ switched < session.halts
      BY DEF Halt, Reprice
    <2> QED
      BY <2>1, <2>2
  <1>5. Types'
    BY <1>1, <1>2, <1>3, <1>4 DEF Ind, Types
  <1>6. AllocIs'
    BY <1>1, AllocStays DEF Ind
  <1>7. TheInboxIsNew' /\ TheCarriedAreNew' /\ ClaimsAreOwned' /\ HeldByOne'
    BY <1>1, RecordsStay
  <1>8. MintedAre' /\ IdsOfAKindDiffer'
    BY <1>1, MintedStay
  <1> QED
    BY <1>5, <1>6, <1>7, <1>8 DEF Ind

LEMMA WriteKeeps ==
    ASSUME Ind, NEW p \in Producers, NEW s \in Symbols, NEW ask \in session.asks, Write(p, s, ask)
    PROVE  Ind'
  <1> DEFINE kept == {r \in inbox : <<r.producer, r.symbol>> # <<p, s>>}
             new == [producer |-> p, symbol |-> s, seq |-> stated[p] + 1, ts |-> now,
                     qty |-> ask.qty, flags |-> ask.flags]
  <1>1. /\ ~Locked
        /\ stated' = [stated EXCEPT ![p] = @ + 1]
        /\ inbox' = kept \cup {new}
        /\ UNCHANGED <<session, now, pass, alloc, touched, sinceSweep, carried, claims, netSeq, requotes,
                       position, working, intents, unquoted, stranded, market, switched, failures, refusals, minted>>
    BY DEF Write, bookVars, venueVars, outside, reports
  <1>2. Producers' = Producers /\ Symbols' = Symbols /\ Record' = Record
    BY <1>1, SessionStays
  <1>3. stated \in [Producers -> Nat] /\ inbox \in SUBSET Record /\ IsFiniteSet(inbox) /\ carried \in Seq(Record)
    BY DEF Ind, Types
  <1>4. now \in Nat
    BY SessionIs DEF Ind, Types
  <1>5. /\ stated' \in [Producers -> Nat] /\ stated'[p] = stated[p] + 1
        /\ \A q \in Producers : stated[q] <= stated'[q] /\ stated[q] \in Nat
    BY <1>1, <1>3
  <1>6. ask.qty \in Int /\ ask.flags \in SUBSET Flags
    <2>1. ask \in [qty : Int, flags : SUBSET Flags]
      BY SessionIs DEF Ind
    <2> QED
      BY <2>1
  <1>7. new \in Record
    BY <1>4, <1>5, <1>6 DEF Record
  <1>8. /\ new.producer = p /\ new.symbol = s /\ new.seq = stated[p] + 1 /\ new.ts = now
    OBVIOUS
  <1>9. /\ kept \in SUBSET inbox
        /\ \A r \in kept : ~(r.producer = p /\ r.symbol = s)
    OBVIOUS
  <1> HIDE DEF kept, new
  <1>10. IsFiniteSet(inbox') /\ inbox' \subseteq Record
    <2>1. IsFiniteSet(kept)
      BY <1>3, <1>9, FS_Subset
    <2> QED
      BY <1>1, <1>3, <1>7, <1>9, <2>1, FS_AddElement
  <1>11. Types'
    BY <1>1, <1>2, <1>5, <1>10 DEF Ind, Types
  <1>12. \A r \in inbox : /\ r \in Record /\ r.producer \in Producers /\ r.symbol \in Symbols
                          /\ r.seq \in Nat /\ r.seq <= stated[r.producer] /\ r.ts <= now /\ Newer(r)
    BY <1>3, RecordIs DEF Ind, TheInboxIsNew
  <1>13. \A r : Newer(r)' <=> Newer(r)
    BY <1>1 DEF Newer
  <1>14. Newer(new)
    <2>1. claims[p][s] # None => claims[p][s].seq \in Nat /\ claims[p][s].seq <= stated[p]
      BY ClaimsAre DEF Ind, ClaimsAreOwned
    <2> QED
      BY <1>5, <1>8, <2>1 DEF Newer
  <1>15. TheInboxIsNew'
    <2>1. ASSUME NEW r \in inbox'
          PROVE  r.seq <= stated'[r.producer] /\ r.ts <= now' /\ Newer(r)'
      <3>1. CASE r = new
        BY <1>1, <1>4, <1>5, <1>8, <1>13, <1>14, <3>1
      <3>2. CASE r # new
        <4>1. r \in inbox
          BY <1>1, <1>9, <3>2
        <4>2. stated[r.producer] \in Nat /\ stated'[r.producer] \in Nat /\ stated[r.producer] <= stated'[r.producer]
          BY <1>5, <1>12, <4>1
        <4> QED
          BY <1>1, <1>12, <1>13, <4>1, <4>2
      <3> QED
        BY <3>1, <3>2
    <2>2. ASSUME NEW r \in inbox', NEW q \in inbox',
                 r.producer = q.producer, r.symbol = q.symbol \/ r.seq = q.seq
          PROVE  r = q
      <3>1. ASSUME NEW a \in kept
            PROVE  ~(a.producer = p /\ (a.symbol = s \/ a.seq = new.seq))
        <4>1. a \in inbox
          BY <1>9
        <4> QED
          BY <1>5, <1>8, <1>9, <1>12, <4>1
      <3>2. CASE r \in kept /\ q \in kept
        BY <1>9, <2>2, <3>2 DEF Ind, TheInboxIsNew
      <3>3. CASE r = new /\ q = new
        BY <3>3
      <3>4. CASE r = new /\ q \in kept
        BY <1>8, <2>2, <3>1, <3>4
      <3>5. CASE r \in kept /\ q = new
        BY <1>8, <2>2, <3>1, <3>5
      <3> QED
        BY <1>1, <3>2, <3>3, <3>4, <3>5
    <2> QED
      BY <2>1, <2>2 DEF TheInboxIsNew
  <1>16. TheCarriedAreNew'
    <2>1. ASSUME NEW i \in DOMAIN carried
          PROVE  /\ carried[i] \in Record /\ carried[i].producer \in Producers /\ carried[i].seq \in Nat
                 /\ carried[i].seq <= stated[carried[i].producer] /\ carried[i].ts <= now /\ Newer(carried[i])
                 /\ \A r \in inbox : Alike(r, carried[i]) => carried[i].seq < r.seq
      <3>1. carried[i] \in Record
        BY <1>3, ElementOfSeq, LenProperties
      <3> QED
        BY <3>1, RecordIs DEF Ind, TheCarriedAreNew
    <2>2. ASSUME NEW i \in DOMAIN carried
          PROVE  /\ carried[i].seq <= stated'[carried[i].producer]
                 /\ \A r \in inbox' : Alike(r, carried[i]) => carried[i].seq < r.seq
      <3>1. carried[i].seq <= stated'[carried[i].producer]
        BY <1>5, <2>1
      <3>2. ASSUME NEW r \in inbox', Alike(r, carried[i])
            PROVE  carried[i].seq < r.seq
        <4>1. CASE r = new
          BY <1>5, <1>8, <2>1, <3>2, <4>1 DEF Alike
        <4>2. CASE r # new
          BY <1>1, <1>9, <2>1, <3>2, <4>2
        <4> QED
          BY <4>1, <4>2
      <3> QED
        BY <3>1, <3>2
    <2>3. \A i, j \in DOMAIN carried : Alike(carried[i], carried[j]) => i = j
      BY DEF Ind, TheCarriedAreNew
    <2> QED
      BY <1>1, <1>13, <2>1, <2>2, <2>3 DEF TheCarriedAreNew
  <1>17. ClaimsAreOwned' /\ HeldByOne'
    <2>1. ASSUME NEW q \in Producers, NEW t \in Symbols, claims[q][t] # None
          PROVE  t \in session.owns[q] /\ claims[q][t].ts <= now /\ claims[q][t].seq <= stated'[q]
      <3>1. /\ t \in session.owns[q] /\ claims[q][t].ts <= now /\ claims[q][t].seq <= stated[q]
            /\ claims[q][t].seq \in Nat
        BY <2>1, ClaimsAre DEF Ind, ClaimsAreOwned
      <3>2. stated[q] \in Nat /\ stated'[q] \in Nat /\ stated[q] <= stated'[q]
        BY <1>5
      <3> QED
        BY <3>1, <3>2
    <2> QED
      BY <1>1, <1>2, <2>1 DEF Ind, ClaimsAreOwned, HeldByOne
  <1>18. MintedAre' /\ IdsOfAKindDiffer'
    BY <1>1, MintedStay
  <1>19. AllocIs'
    BY <1>1 DEF AllocIs, Locked
  <1> QED
    BY <1>11, <1>15, <1>16, <1>17, <1>18, <1>19 DEF Ind

LEMMA OlderIs ==
    ASSUME Types, NEW age \in 0..MaxAge
    PROVE  Older(age) \in 0..MaxAge
  BY SessionIs DEF Older

LEMMA OrdersAge ==
    ASSUME NEW o, IsOrder(o)
    PROVE  IsOrder([o EXCEPT !.age = Older(@), !.asked = Older(@)])
  <1> DEFINE x == o.slot  y == o.qty  z == o.age  w == o.asked
             n == [o EXCEPT !.age = Older(@), !.asked = Older(@)]
             r == [slot |-> x, qty |-> y, age |-> Older(z), asked |-> Older(w)]
  <1>1. o = [slot |-> x, qty |-> y, age |-> z, asked |-> w] /\ y \in Int
    BY DEF IsOrder
  <1> HIDE DEF x, y, z, w
  <1>2. DOMAIN n = {"slot", "qty", "age", "asked"} /\ DOMAIN r = {"slot", "qty", "age", "asked"}
    BY <1>1
  <1>3. n["slot"] = x /\ n["qty"] = y /\ n["age"] = Older(z) /\ n["asked"] = Older(w)
    BY <1>1
  <1>4. r["slot"] = x /\ r["qty"] = y /\ r["age"] = Older(z) /\ r["asked"] = Older(w)
    OBVIOUS
  <1>5. n = [f \in DOMAIN n |-> n[f]] /\ r = [f \in DOMAIN r |-> r[f]]
    OBVIOUS
  <1>6. IsOrder(r)
    BY <1>1 DEF IsOrder
  <1> HIDE DEF n, r
  <1>7. n = r
    BY <1>2, <1>3, <1>4, <1>5
  <1>8. IsOrder(n)
    BY <1>6, <1>7
  <1> QED
    BY <1>8 DEF n

LEMMA TickKeeps ==
    ASSUME Ind, Tick
    PROVE  Ind'
  <1>1. /\ pass = "done" /\ pass' = "due"
        /\ now' = IF now < session.ticks THEN now + 1 ELSE now
        /\ sinceSweep' = Older(sinceSweep)
        /\ UNCHANGED <<session, alloc, touched, stated, inbox, carried, netSeq, requotes, position, intents,
                       unquoted, stranded, market, switched, failures, refusals, minted>>
    BY DEF Tick, outside, reports
  <1>2. Producers' = Producers /\ Symbols' = Symbols /\ Record' = Record
    BY <1>1, SessionStays
  <1>3. session.ticks \in Nat /\ now \in 1..session.ticks /\ now \in Nat
    BY SessionIs DEF Ind, Types
  <1>4. now' \in 1..session.ticks /\ now' \in Nat /\ now <= now'
    BY <1>1, <1>3
  <1>5. ASSUME NEW c \in Claim
        PROVE  /\ [c EXCEPT !.age = Older(@)] \in Claim
               /\ [c EXCEPT !.age = Older(@)].seq = c.seq /\ [c EXCEPT !.age = Older(@)].ts = c.ts
    <2>1. Older(c.age) \in 0..MaxAge
      BY OlderIs DEF Claim, Ind
    <2> QED
      BY <2>1 DEF Claim
  <1>6. /\ claims' \in [Producers -> [Symbols -> Claim \cup {None}]]
        /\ \A p \in Producers, s \in Symbols :
            /\ claims'[p][s] = None <=> claims[p][s] = None
            /\ claims[p][s] # None => claims'[p][s].seq = claims[p][s].seq /\ claims'[p][s].ts = claims[p][s].ts
    <2> DEFINE C == [p \in Producers |-> [s \in Symbols |->
                       IF claims[p][s] = None THEN None ELSE [claims[p][s] EXCEPT !.age = Older(@)]]]
    <2>1. claims' = C
      BY DEF Tick
    <2>2. ASSUME NEW p \in Producers, NEW s \in Symbols
          PROVE  /\ C[p][s] \in Claim \cup {None}
                 /\ C[p][s] = None <=> claims[p][s] = None
                 /\ claims[p][s] # None => C[p][s].seq = claims[p][s].seq /\ C[p][s].ts = claims[p][s].ts
      <3>1. CASE claims[p][s] = None
        BY <3>1
      <3>2. CASE claims[p][s] # None
        <4>1. claims[p][s] \in Claim
          BY <3>2, ClaimsAre DEF Ind
        <4>2. C[p][s] = [claims[p][s] EXCEPT !.age = Older(@)]
          BY <3>2
        <4> HIDE DEF C
        <4> QED
          BY <1>5, <3>2, <4>1, <4>2, NoneIsNone
      <3> QED
        BY <3>1, <3>2
    <2>3. C \in [Producers -> [Symbols -> Claim \cup {None}]]
      BY <2>2
    <2> HIDE DEF C
    <2> QED
      BY <2>1, <2>2, <2>3
  <1>7. DOMAIN working' = Symbols /\ \A s \in Symbols : AreOrders(working'[s])
    <2> DEFINE New(s) == [o \in working[s] |-> [o EXCEPT !.age = Older(@), !.asked = Older(@)]]
    <2>1. working' = [s \in Symbols |-> {New(s)[o] : o \in working[s]}]
      BY DEF Tick
    <2>2. ASSUME NEW s \in Symbols
          PROVE  AreOrders({New(s)[o] : o \in working[s]})
      <3>1. IsFiniteSet(working[s]) /\ \A o \in working[s] : IsOrder(o)
        BY DEF Ind, Types, AreOrders
      <3>2. \A o \in working[s] : IsOrder(New(s)[o])
        BY <3>1, OrdersAge
      <3>3. New(s) = [o \in working[s] |-> New(s)[o]]
        OBVIOUS
      <3> HIDE DEF New
      <3> QED
        BY <3>1, <3>2, <3>3, OrdersChange
    <2> HIDE DEF New
    <2> QED
      BY <2>1, <2>2
  <1>8. Types'
    <2>1. sinceSweep' \in 0..MaxAge
      BY <1>1, OlderIs DEF Ind, Types
    <2> QED
      BY <1>1, <1>2, <1>4, <1>6, <1>7, <2>1 DEF Ind, Types
  <1>9. ASSUME NEW r \in Record
        PROVE  Newer(r) => Newer(r)'
    BY <1>6, RecordIs DEF Newer
  <1>10. TheInboxIsNew'
    <2>1. \A r \in inbox : r \in Record /\ r.ts \in Nat
      BY RecordIs DEF Ind, Types
    <2>2. \A r \in inbox : r.ts <= now'
      BY <1>3, <1>4, <2>1 DEF Ind, TheInboxIsNew
    <2> QED
      BY <1>1, <1>9, <2>1, <2>2 DEF Ind, TheInboxIsNew
  <1>11. TheCarriedAreNew'
    <2>1. \A i \in DOMAIN carried : carried[i] \in Record /\ carried[i].ts \in Nat
      <3>1. carried \in Seq(Record)
        BY DEF Ind, Types
      <3>2. \A i \in DOMAIN carried : carried[i] \in Record
        BY <3>1, ElementOfSeq, LenProperties
      <3> QED
        BY <3>2, RecordIs
    <2>2. \A i \in DOMAIN carried : carried[i].ts <= now'
      BY <1>3, <1>4, <2>1 DEF Ind, TheCarriedAreNew
    <2> QED
      BY <1>1, <1>9, <2>1, <2>2 DEF Ind, TheCarriedAreNew
  <1>12. ClaimsAreOwned' /\ HeldByOne'
    <2>1. \A p \in Producers, s \in Symbols :
            claims[p][s] # None => claims[p][s].ts \in Nat /\ claims[p][s].ts <= now'
      BY <1>3, <1>4, ClaimsAre DEF Ind, ClaimsAreOwned
    <2> QED
      BY <1>1, <1>2, <1>6, <2>1 DEF Ind, ClaimsAreOwned, HeldByOne
  <1>13. MintedAre'
    <2>1. ASSUME NEW seq, NEW s \in Symbols, OwnIs(seq, s)
          PROVE  OwnIs(seq, s)'
      <3>1. Contributors(s)' = Contributors(s)
        BY <1>2, <1>6 DEF Contributors
      <3>2. \A p \in Producers : Contributors(s) = {p} => claims'[p][s].seq = claims[p][s].seq
        BY <1>6 DEF Contributors
      <3> QED
        BY <1>1, <1>2, <2>1, <3>1, <3>2 DEF OwnIs
    <2>2. ASSUME NEW m \in minted
          PROVE  /\ m.at <= now' /\ m.at < now'
                 /\ m.at \in Nat /\ m.at < session.ticks /\ m.own \in BOOLEAN
                 /\ m.id[2] \in Nat /\ m.id[3] \in Symbols
                 /\ m.own => m.id[1] <= m.at /\ OwnIs(m.id[2], m.id[3])
                 /\ ~m.own => m.id[2] <= netSeq[m.id[3]]
      <3>1. /\ m.at \in Nat /\ m.at <= now /\ m.at < session.ticks /\ m.own \in BOOLEAN
            /\ m.id[2] \in Nat /\ m.id[3] \in Symbols
            /\ m.own => m.id[1] <= m.at /\ OwnIs(m.id[2], m.id[3])
            /\ ~m.own => m.id[2] <= netSeq[m.id[3]]
        BY DEF Ind, MintedAre
      <3>2. m.at < now' /\ m.at <= now'
        BY <1>1, <1>3, <3>1
      <3> QED
        BY <3>1, <3>2
    <2>3. \A m \in minted : m.own => OwnIs(m.id[2], m.id[3])'
      BY <2>1, <2>2
    <2> QED
      BY <1>1, <1>2, <2>2, <2>3 DEF MintedAre
  <1>14. IdsOfAKindDiffer' /\ AllocIs'
    BY <1>1 DEF Ind, IdsOfAKindDiffer, AllocIs
  <1> QED
    BY <1>8, <1>10, <1>11, <1>12, <1>13, <1>14 DEF Ind

(* What the third stage plans, and what it sends, a symbol at a time. *)
Turn == IF RequoteDue THEN Idle ELSE {}
Spoken == touched \cup Turn
NetOf == [s \in Spoken |-> Net(s, Allocated(s))]
PlanOf == [s \in Spoken |-> IF s \in touched THEN Planned(s, NetOf[s]) ELSE Requoted(s, NetOf[s])]
Wanting == {s \in Turn : PlanOf[s] # None}
Spent == {s \in Wanting : requotes[s] >= session.requotes}
Swept == [s \in Symbols |-> IF SweepDue THEN Overage(s) ELSE {}]
Synthesized == {s \in Spoken : ~NetOf[s].own}
SendOf == [s \in Symbols |-> CASE s \in touched \cup (Wanting \ Spent) -> PlanOf[s]
                               [] Swept[s] # {} -> CancelOnly(Swept[s])
                               [] OTHER -> None]
Sending == {s \in Symbols : SendOf[s] # None}
Ids(sent) == {t \in sent : SendOf[t].qty # 0 /\ netSeq[t] < MaxNetSeq}
IdOf(s) == [at |-> now, id |-> SendOf[s].id, own |-> SendOf[s].own]

Sends(sent) ==
    /\ refusals + Cardinality(Sending \ sent) <= session.refusals
    /\ refusals' = refusals + Cardinality(Sending \ sent)
    /\ intents' = [s \in Symbols |-> IF s \in sent THEN SendOf[s] ELSE intents[s]]
    /\ requotes' = [s \in Symbols |-> IF s \in sent \cap Wanting THEN requotes[s] + 1 ELSE requotes[s]]
    /\ minted' = IF now < session.ticks THEN minted \cup {IdOf(s) : s \in Ids(sent)} ELSE minted
    /\ working' = [s \in Symbols |-> {IF s \in sent /\ o \in Swept[s] THEN [o EXCEPT !.asked = 0] ELSE o :
                                         o \in working[s]}]

LEMMA PlanAllIs ==
    ASSUME PlanAll
    PROVE  /\ pass = "plan" /\ pass' = "done" /\ alloc' = None /\ touched' = {}
           /\ \E sent \in SUBSET Sending : Sends(sent)
           /\ netSeq' = [s \in Symbols |-> IF s \in Synthesized /\ netSeq[s] < MaxNetSeq
                                           THEN NetOf[s].seq ELSE netSeq[s]]
           /\ unquoted' = IF RequoteDue THEN Spent ELSE unquoted
           /\ stranded' = IF RequoteDue THEN {s \in Turn : Stranded(s, NetOf[s])} ELSE stranded
           /\ sinceSweep' = IF SweepDue THEN 0 ELSE sinceSweep
           /\ UNCHANGED <<session, now, stated, inbox, carried, claims, position, market, switched, failures>>
  BY DEF PlanAll, Sends, Turn, Spoken, NetOf, PlanOf, Wanting, Spent, Swept, Synthesized, SendOf, Sending,
         Ids, IdOf, outside

LEMMA TurnIs ==
    ASSUME Types
    PROVE  /\ Turn \subseteq Symbols /\ Spoken \subseteq Symbols /\ Turn \cap touched = {}
           /\ \A s \in Turn : working[s] = {} /\ IsClaimed(s)
           /\ \A s \in Symbols : Swept[s] # {} => working[s] # {} /\ s \notin touched
  BY DEF Turn, Spoken, Idle, Swept, Overage, Types

(* The net of a symbol that is spoken for. *)
LEMMA NetOfIs ==
    ASSUME Ind, pass = "plan", NEW s \in Spoken
    PROVE  /\ s \in Symbols /\ NetOf[s].qty \in Int /\ NetOf[s].own \in BOOLEAN
           /\ NetOf[s].own => \E p \in Producers : /\ Contributors(s) = {p}
                                                   /\ NetOf[s].seq = claims[p][s].seq
                                                   /\ NetOf[s].ts = claims[p][s].ts
           /\ ~NetOf[s].own => NetOf[s].seq = netSeq[s] + 1
           /\ [NetOf[s] EXCEPT !.ts = now] =
                [qty |-> NetOf[s].qty, flags |-> NetOf[s].flags, own |-> NetOf[s].own,
                 seq |-> NetOf[s].seq, ts |-> now]
  <1>1. s \in Symbols
    BY TurnIs DEF Ind
  <1>2. IsFactors(Allocated(s))
    BY <1>1, AllocatedIs DEF Ind
  <1>3. NetOf[s] = Net(s, Allocated(s))
    BY DEF NetOf
  <1> DEFINE f == Allocated(s)
  <1>4. IsFactors(f) /\ NetOf[s] = Net(s, f)
    BY <1>2, <1>3
  <1> HIDE DEF f
  <1> QED
    BY <1>1, <1>4, NetIs DEF Ind

(* What is planned bears the number of its net, and the stamp of its net or,
   for a re-quote, of this moment. *)
LEMMA PlanOfIs ==
    ASSUME Ind, pass = "plan", NEW s \in Spoken, PlanOf[s] # None
    PROVE  /\ PlanOf[s].qty \in Int /\ PlanOf[s].own = NetOf[s].own
           /\ PlanOf[s].id = <<IF s \in touched THEN NetOf[s].ts ELSE now, NetOf[s].seq, s>>
  <1> DEFINE n == NetOf[s]
             q == [qty |-> n.qty, flags |-> n.flags, own |-> n.own, seq |-> n.seq, ts |-> now]
  <1>1. s \in Symbols /\ n.qty \in Int /\ [n EXCEPT !.ts = now] = q
    BY NetOfIs
  <1>2. q.qty = n.qty /\ q.own = n.own /\ q.seq = n.seq /\ q.ts = now
    OBVIOUS
  <1> HIDE DEF q
  <1>3. CASE s \in touched
    <2>1. PlanOf[s] = Planned(s, n)
      BY <1>3 DEF PlanOf
    <2> HIDE DEF n
    <2>2. /\ Planned(s, n).qty \in Int /\ Planned(s, n).own = n.own
          /\ Planned(s, n).id = <<n.ts, n.seq, s>>
      BY <1>1, <2>1, PlannedIs DEF Ind
    <2> QED
      BY <1>3, <2>1, <2>2 DEF n
  <1>4. CASE s \notin touched
    <2>1. PlanOf[s] = Planned(s, q)
      BY <1>1, <1>4 DEF PlanOf, Requoted
    <2>2. q.qty \in Int
      BY <1>1, <1>2
    <2>3. /\ Planned(s, q).qty \in Int /\ Planned(s, q).own = q.own
          /\ Planned(s, q).id = <<q.ts, q.seq, s>>
      BY <1>1, <2>1, <2>2, PlannedIs DEF Ind
    <2> QED
      BY <1>2, <1>4, <2>1, <2>3
  <1> QED
    BY <1>3, <1>4

(* What is sent is the plan of a symbol that is spoken for, with a re-quote to
   spare if it is one, or a cancel without a quantity. *)
LEMMA SendOfIs ==
    ASSUME Ind, pass = "plan", NEW s \in Sending
    PROVE  /\ s \in Symbols /\ SendOf[s].qty \in Int
           /\ SendOf[s].qty # 0 => s \in Spoken /\ PlanOf[s] # None /\ SendOf[s] = PlanOf[s]
           /\ s \in Wanting => requotes[s] < session.requotes
  <1>1. s \in Symbols /\ SendOf[s] # None
    BY DEF Sending
  <1>2. CASE s \in touched \cup (Wanting \ Spent)
    <2>1. SendOf[s] = PlanOf[s]
      <3>1. Swept[s] = {}
        BY <1>1, <1>2, TurnIs DEF Wanting, Ind
      <3> QED
        BY <1>1, <1>2, <3>1 DEF SendOf
    <2>2. s \in Spoken
      BY <1>2 DEF Spoken, Wanting
    <2>3. s \in Wanting => requotes[s] < session.requotes
      <3>1. requotes[s] \in Nat /\ session.requotes \in Nat
        BY <1>1, SessionIs DEF Ind, Types
      <3>2. s \in Wanting => s \notin touched /\ s \notin Spent
        BY <1>2, TurnIs DEF Wanting, Ind
      <3> QED
        BY <3>1, <3>2 DEF Spent
    <2> QED
      BY <1>1, <2>1, <2>2, <2>3, PlanOfIs
  <1>3. CASE s \notin touched \cup (Wanting \ Spent)
    <2>1. Swept[s] # {} /\ SendOf[s] = CancelOnly(Swept[s])
      BY <1>1, <1>3 DEF SendOf
    <2>2. SendOf[s].qty = 0
      BY <2>1 DEF CancelOnly
    <2>3. s \notin Wanting
      BY <2>1, TurnIs DEF Wanting, Ind
    <2> QED
      BY <1>1, <2>2, <2>3
  <1> QED
    BY <1>2, <1>3

(* A new id: one of a kind at this moment, of this moment. *)
LEMMA NewIds ==
    ASSUME Ind, pass = "plan", NEW sent \in SUBSET Sending, NEW s \in Ids(sent), now < session.ticks
    PROVE  /\ s \in Symbols /\ IdOf(s).at = now /\ IdOf(s).own \in BOOLEAN
           /\ IdOf(s).id[2] \in Nat /\ IdOf(s).id[3] = s
           /\ IdOf(s).own => \E p \in Producers :
                /\ Contributors(s) = {p} /\ IdOf(s).id[2] = claims[p][s].seq
                /\ IdOf(s).id[1] <= now /\ (s \notin touched => IdOf(s).id[1] = now)
           /\ ~IdOf(s).own => s \in Synthesized /\ netSeq[s] < MaxNetSeq /\ IdOf(s).id[2] = netSeq[s] + 1
                              /\ NetOf[s].seq = netSeq[s] + 1
  <1>1. s \in Sending /\ SendOf[s].qty # 0 /\ netSeq[s] < MaxNetSeq
    BY DEF Ids
  <1>2. s \in Symbols /\ s \in Spoken /\ PlanOf[s] # None /\ SendOf[s] = PlanOf[s]
    BY <1>1, SendOfIs
  <1> DEFINE ts == IF s \in touched THEN NetOf[s].ts ELSE now
  <1>3. IdOf(s).at = now /\ IdOf(s).id = <<ts, NetOf[s].seq, s>> /\ IdOf(s).own = NetOf[s].own
    BY <1>2, PlanOfIs DEF IdOf
  <1>4. IdOf(s).id[1] = ts /\ IdOf(s).id[2] = NetOf[s].seq /\ IdOf(s).id[3] = s
    BY <1>3
  <1>5. now \in Nat /\ netSeq[s] \in Nat
    BY <1>2, SessionIs DEF Ind, Types
  <1>6. NetOf[s].own \in BOOLEAN
    BY <1>2, NetOfIs
  <1>7. CASE NetOf[s].own
    <2>1. PICK p \in Producers : /\ Contributors(s) = {p} /\ NetOf[s].seq = claims[p][s].seq
                                 /\ NetOf[s].ts = claims[p][s].ts
      BY <1>2, <1>7, NetOfIs
    <2>2. claims[p][s] # None
      BY <2>1 DEF Contributors
    <2>3. claims[p][s].seq \in Nat /\ claims[p][s].ts <= now
      BY <1>2, <2>2, ClaimsAre DEF Ind, ClaimsAreOwned
    <2>4. ts <= now
      BY <1>5, <2>1, <2>3
    <2> QED
      BY <1>2, <1>3, <1>4, <1>7, <2>1, <2>3, <2>4
  <1>8. CASE ~NetOf[s].own
    <2>1. NetOf[s].seq = netSeq[s] + 1
      BY <1>2, <1>8, NetOfIs
    <2>2. s \in Synthesized
      BY <1>2, <1>8 DEF Synthesized
    <2> QED
      BY <1>1, <1>2, <1>3, <1>4, <1>5, <1>8, <1>6, <2>1, <2>2
  <1> QED
    BY <1>7, <1>8, <1>6

LEMMA NetSeqGoesOn ==
    ASSUME Ind, PlanAll
    PROVE  /\ netSeq' \in [Symbols -> 0..MaxNetSeq]
           /\ \A s \in Symbols : /\ netSeq[s] \in Nat /\ netSeq'[s] \in Nat /\ netSeq[s] <= netSeq'[s]
                                 /\ s \in Synthesized /\ netSeq[s] < MaxNetSeq =>
                                        netSeq'[s] = netSeq[s] + 1
  <1>1. /\ pass = "plan"
        /\ netSeq' = [s \in Symbols |-> IF s \in Synthesized /\ netSeq[s] < MaxNetSeq
                                        THEN NetOf[s].seq ELSE netSeq[s]]
    BY PlanAllIs
  <1>2. \A s \in Synthesized : NetOf[s].seq = netSeq[s] + 1
    BY <1>1, NetOfIs DEF Synthesized
  <1>3. netSeq \in [Symbols -> 0..MaxNetSeq] /\ MaxNetSeq \in Nat
    BY SessionIs DEF Ind, Types
  <1> QED
    BY <1>1, <1>2, <1>3

LEMMA PlanAllKeepsTypes ==
    ASSUME Ind, PlanAll
    PROVE  Types'
  <1>1. /\ pass = "plan" /\ pass' = "done" /\ alloc' = None /\ touched' = {}
        /\ unquoted' = IF RequoteDue THEN Spent ELSE unquoted
        /\ stranded' = IF RequoteDue THEN {s \in Turn : Stranded(s, NetOf[s])} ELSE stranded
        /\ sinceSweep' = IF SweepDue THEN 0 ELSE sinceSweep
        /\ UNCHANGED <<session, now, stated, inbox, carried, claims, position, market, switched, failures>>
    BY PlanAllIs
  <1>2. PICK sent \in SUBSET Sending : Sends(sent)
    BY PlanAllIs
  <1>3. Producers' = Producers /\ Symbols' = Symbols /\ Record' = Record
    BY <1>1, SessionStays
  <1>4. refusals' \in 0..session.refusals
    <2>1. Sending \in SUBSET Symbols /\ IsFiniteSet(Symbols)
      BY SessionIs DEF Ind, Sending
    <2>2. IsFiniteSet(Sending \ sent)
      BY <2>1, FS_Subset
    <2>3. Cardinality(Sending \ sent) \in Nat
      BY <2>2, FS_CardinalityType
    <2>4. refusals \in Nat /\ session.refusals \in Nat
      BY SessionIs DEF Ind, Types
    <2> QED
      BY <1>2, <2>3, <2>4 DEF Sends
  <1>5. DOMAIN intents' = Symbols /\ \A s \in Symbols : intents'[s] # None => intents'[s].qty \in Int
    <2>1. intents' = [s \in Symbols |-> IF s \in sent THEN SendOf[s] ELSE intents[s]]
      BY <1>2 DEF Sends
    <2>2. \A s \in sent : SendOf[s].qty \in Int
      BY <1>1, SendOfIs
    <2>3. \A s \in Symbols : intents[s] # None => intents[s].qty \in Int
      BY DEF Ind, Types
    <2> QED
      BY <2>1, <2>2, <2>3
  <1>6. requotes' \in [Symbols -> 0..session.requotes]
    <2>1. requotes' = [s \in Symbols |-> IF s \in sent \cap Wanting THEN requotes[s] + 1 ELSE requotes[s]]
      BY <1>2 DEF Sends
    <2>2. \A s \in sent \cap Wanting : requotes[s] < session.requotes
      BY <1>1, SendOfIs
    <2>3. requotes \in [Symbols -> 0..session.requotes] /\ session.requotes \in Nat
      BY SessionIs DEF Ind, Types
    <2> QED
      BY <2>1, <2>2, <2>3
  <1>7. unquoted' \subseteq Symbols /\ stranded' \subseteq Symbols
    BY <1>1, TurnIs DEF Spent, Wanting, Ind, Types
  <1>8. sinceSweep' \in 0..MaxAge
    BY <1>1, SessionIs DEF Ind, Types
  <1>9. netSeq' \in [Symbols -> 0..MaxNetSeq]
    BY NetSeqGoesOn
  <1>10. DOMAIN working' = Symbols /\ \A s \in Symbols : AreOrders(working'[s])
    <2> DEFINE New(s) == [o \in working[s] |->
                            IF s \in sent /\ o \in Swept[s] THEN [o EXCEPT !.asked = 0] ELSE o]
    <2>1. working' = [s \in Symbols |-> {New(s)[o] : o \in working[s]}]
      BY <1>2 DEF Sends
    <2>2. ASSUME NEW s \in Symbols
          PROVE  AreOrders({New(s)[o] : o \in working[s]})
      <3>1. IsFiniteSet(working[s]) /\ \A o \in working[s] : IsOrder(o)
        BY DEF Ind, Types, AreOrders
      <3>2. \A o \in working[s] : IsOrder(New(s)[o])
        BY <3>1 DEF IsOrder
      <3>3. New(s) = [o \in working[s] |-> New(s)[o]]
        OBVIOUS
      <3> HIDE DEF New
      <3> QED
        BY <3>1, <3>2, <3>3, OrdersChange
    <2> HIDE DEF New
    <2> QED
      BY <2>1, <2>2
  <1> QED
    BY <1>1, <1>3, <1>4, <1>5, <1>6, <1>7, <1>8, <1>9, <1>10 DEF Ind, Types

LEMMA PlanAllKeepsMinted ==
    ASSUME Ind, PlanAll
    PROVE  MintedAre' /\ IdsOfAKindDiffer'
  <1>1. /\ pass = "plan" /\ pass' = "done" /\ touched' = {} /\ session' = session /\ now' = now
        /\ claims' = claims /\ Producers' = Producers /\ Symbols' = Symbols
    BY PlanAllIs, SessionStays
  <1>2. PICK sent \in SUBSET Sending :
            minted' = IF now < session.ticks THEN minted \cup {IdOf(s) : s \in Ids(sent)} ELSE minted
    BY PlanAllIs DEF Sends
  <1>3. now \in Nat
    BY SessionIs DEF Ind, Types
  <1>4. \A m \in minted :
            /\ m.at \in Nat /\ m.at <= now /\ m.at < session.ticks /\ m.at < now
            /\ m.own \in BOOLEAN
            /\ m.id[2] \in Nat /\ m.id[3] \in Symbols
            /\ m.own => m.id[1] <= m.at /\ OwnIs(m.id[2], m.id[3])
            /\ ~m.own => m.id[2] <= netSeq[m.id[3]]
    BY <1>1 DEF Ind, MintedAre
  <1>5. \A m \in minted' : m \in minted \/ (now < session.ticks /\ \E s \in Ids(sent) : m = IdOf(s))
    BY <1>2
  <1>6. ASSUME NEW s \in Ids(sent), now < session.ticks
        PROVE  /\ s \in Symbols /\ IdOf(s).at = now /\ IdOf(s).own \in BOOLEAN
               /\ IdOf(s).id[2] \in Nat /\ IdOf(s).id[3] = s
               /\ IdOf(s).own => \E p \in Producers :
                    /\ Contributors(s) = {p} /\ IdOf(s).id[2] = claims[p][s].seq
                    /\ IdOf(s).id[1] <= now /\ (s \notin touched => IdOf(s).id[1] = now)
               /\ ~IdOf(s).own => s \in Synthesized /\ netSeq[s] < MaxNetSeq /\ IdOf(s).id[2] = netSeq[s] + 1
    BY <1>1, <1>6, NewIds
  <1>7. ASSUME NEW seq, NEW s \in Symbols, OwnIs(seq, s)
        PROVE  OwnIs(seq, s)'
    <2>1. Contributors(s)' = Contributors(s)
      BY <1>1 DEF Contributors
    <2> QED
      BY <1>1, <1>7, <2>1 DEF OwnIs
  <1>8. \A s \in Symbols : Contributors(s)' = Contributors(s)
    BY <1>1 DEF Contributors
  <1>9. ASSUME NEW m \in minted'
        PROVE  /\ m.at \in Nat /\ m.at <= now /\ m.at < session.ticks
               /\ m.own \in BOOLEAN
               /\ m.id[2] \in Nat /\ m.id[3] \in Symbols
               /\ m.own => m.id[1] <= m.at /\ OwnIs(m.id[2], m.id[3])'
               /\ ~m.own => m.id[2] <= netSeq'[m.id[3]]
    <2>1. CASE m \in minted
      <3>1. m.own => OwnIs(m.id[2], m.id[3])'
        BY <1>4, <1>7, <2>1
      <3>2. ~m.own => m.id[2] <= netSeq'[m.id[3]]
        BY <1>4, <2>1, NetSeqGoesOn
      <3> QED
        BY <1>4, <2>1, <3>1, <3>2
    <2>2. CASE now < session.ticks /\ \E s \in Ids(sent) : m = IdOf(s)
      <3>1. PICK s \in Ids(sent) : m = IdOf(s)
        BY <2>2
      <3>2. /\ s \in Symbols /\ m.at = now /\ m.own \in BOOLEAN /\ m.id[2] \in Nat /\ m.id[3] = s
            /\ m.own => \E p \in Producers :
                 /\ Contributors(s) = {p} /\ m.id[2] = claims[p][s].seq /\ m.id[1] <= now
            /\ ~m.own => s \in Synthesized /\ netSeq[s] < MaxNetSeq /\ m.id[2] = netSeq[s] + 1
        BY <1>6, <2>2, <3>1
      <3>3. ASSUME m.own
            PROVE  OwnIs(m.id[2], s)'
        <4>1. PICK p \in Producers : Contributors(s) = {p} /\ m.id[2] = claims[p][s].seq
          BY <3>2, <3>3
        <4>2. Contributors(s)' = {p}
          BY <1>8, <3>2, <4>1
        <4>3. \A q \in Producers : Contributors(s)' = {q} => q = p
          BY <4>2
        <4> QED
          BY <1>1, <3>2, <4>1, <4>2, <4>3 DEF OwnIs
      <3>4. ~m.own => m.id[2] <= netSeq'[s]
        BY <3>2, NetSeqGoesOn
      <3> QED
        BY <1>3, <2>2, <3>2, <3>3, <3>4
    <2> QED
      BY <1>5, <2>1, <2>2
  <1>10. MintedAre'
    BY <1>1, <1>9 DEF MintedAre
  <1>11. ASSUME NEW a \in minted, NEW s \in Ids(sent), now < session.ticks,
                a.own = IdOf(s).own, a.id = IdOf(s).id
         PROVE  FALSE
    <2>1. a.id[3] = s /\ s \in Symbols
      BY <1>6, <1>11
    <2>2. CASE a.own
      <3>1. PICK p \in Producers :
              /\ Contributors(s) = {p} /\ a.id[2] = claims[p][s].seq
              /\ s \notin touched => a.id[1] = now
        BY <1>6, <1>11, <2>2
      <3>2. a.id[1] <= a.at /\ OwnIs(a.id[2], s) /\ a.at < now /\ a.at \in Nat /\ a.id[2] \in Nat
        BY <1>4, <2>1, <2>2
      <3>3. s \in touched => a.id[2] < claims[p][s].seq
        BY <3>1, <3>2 DEF OwnIs
      <3>4. s \in touched => FALSE
        BY <3>1, <3>2, <3>3
      <3> QED
        BY <1>3, <3>1, <3>2, <3>4
    <2>3. CASE ~a.own
      <3>1. a.id[2] = netSeq[s] + 1
        BY <1>6, <1>11, <2>3
      <3>2. a.id[2] <= netSeq[s] /\ netSeq[s] \in Nat
        BY <1>4, <2>1, <2>3, NetSeqGoesOn
      <3> QED
        BY <3>1, <3>2
    <2> QED
      BY <2>2, <2>3
  <1>12. ASSUME NEW a \in minted', NEW b \in minted', a.own = b.own, a.id = b.id
         PROVE  a = b
    <2>1. CASE a \in minted /\ b \in minted
      BY <1>12, <2>1 DEF Ind, IdsOfAKindDiffer
    <2>2. CASE a \in minted /\ b \notin minted
      <3>1. PICK s \in Ids(sent) : b = IdOf(s) /\ now < session.ticks
        BY <1>5, <2>2
      <3> QED
        BY <1>11, <1>12, <2>2, <3>1
    <2>3. CASE a \notin minted /\ b \in minted
      <3>1. PICK s \in Ids(sent) : a = IdOf(s) /\ now < session.ticks
        BY <1>5, <2>3
      <3> QED
        BY <1>11, <1>12, <2>3, <3>1
    <2>4. CASE a \notin minted /\ b \notin minted
      <3>1. PICK s \in Ids(sent) : a = IdOf(s) /\ now < session.ticks
        BY <1>5, <2>4
      <3>2. PICK t \in Ids(sent) : b = IdOf(t) /\ now < session.ticks
        BY <1>5, <2>4
      <3>3. a.id[3] = s /\ b.id[3] = t
        BY <1>6, <3>1, <3>2
      <3> QED
        BY <1>12, <3>1, <3>2, <3>3
    <2> QED
      BY <2>1, <2>2, <2>3, <2>4
  <1> QED
    BY <1>10, <1>12 DEF IdsOfAKindDiffer

LEMMA PlanAllKeeps ==
    ASSUME Ind, PlanAll
    PROVE  Ind'
  <1>1. TheInboxIsNew' /\ TheCarriedAreNew' /\ ClaimsAreOwned' /\ HeldByOne'
    BY PlanAllIs, RecordsStay
  <1>2. AllocIs'
    BY PlanAllIs DEF AllocIs
  <1> QED
    BY <1>1, <1>2, PlanAllKeepsTypes, PlanAllKeepsMinted DEF Ind

-----------------------------------------------------------------------------
(* What the book promises holds.                                           *)

LEMMA NextKeeps ==
    ASSUME Ind, [Next]_vars
    PROVE  Ind'
  BY ReadKeeps, AllocateKeeps, PlanAllKeeps, SubmitKeeps, FillKeeps, TickKeeps, WriteKeeps, OutsideKeeps,
     StutterKeeps
     DEF Next, Core, Edge, Venue

LEMMA IndIsEnough ==
    ASSUME Ind
    PROVE  BookInv
  <1>1. TypeOK
    BY DEF Ind, Types, TheInboxIsNew, ClaimsAreOwned, TypeOK
  <1>2. OneHolder
    <2>1. ASSUME session.overlap = "Exclusive", NEW s \in Symbols
          PROVE  Cardinality(Contributors(s)) <= 1
      <3>1. CASE Contributors(s) = {}
        BY <3>1, FS_EmptySet
      <3>2. CASE Contributors(s) # {}
        <4>1. PICK p : p \in Contributors(s)
          BY <3>2
        <4>2. Contributors(s) = {p}
          BY <2>1, <4>1 DEF Ind, HeldByOne, Contributors
        <4>3. Cardinality({p}) = 1
          BY FS_Singleton
        <4> QED
          BY <4>2, <4>3
      <3> QED
        BY <3>1, <3>2
    <2> QED
      BY <2>1 DEF OneHolder
  <1>3. TheAllocationFits
    BY TheAllocationIsFit DEF Ind
  <1> QED
    BY <1>1, <1>2, <1>3 DEF Ind, BookInv

(* Whatever the producers write, the venue fills and the edge loses, in any
   order: what the book promises holds (book.rs, intent.rs, portfolio.rs). *)
THEOREM TheBookIsRight == Spec => []BookInv
  <1>1. Init => Ind
    BY InitIsRight
  <1>2. Ind /\ [Next]_vars => Ind'
    BY NextKeeps
  <1>3. Ind => BookInv
    BY IndIsEnough
  <1> QED
    BY <1>1, <1>2, <1>3, PTL DEF Spec
=============================================================================
