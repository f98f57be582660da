------------------------------ MODULE SumTheorems ------------------------------
(***************************************************************************)
(* Facts about SumFunctionOnSet(f, S), the sum of f[x] for x \in S, that    *)
(* hold for every finite set S.                                            *)
(*                                                                         *)
(* They are proved by induction over finite sets without an induction      *)
(* theorem over predicates: if a subset were not in a set G, one with the  *)
(* least cardinality would not be, by WFMin (SubsetInduction).             *)
(***************************************************************************)
EXTENDS Functions, FiniteSetTheorems, WellFoundedInduction, TLAPS

(***************************************************************************)
(* 1. Induction                                                            *)
(***************************************************************************)

Less == {pair \in Nat \X Nat : pair[1] < pair[2]}

\* A set of natural numbers has a least element.
LEMMA LeastNumber ==
    ASSUME NEW N, N \subseteq Nat, N # {}
    PROVE  \E m \in N : \A n \in N : m <= n
<1>1. IsWellFoundedOn(Less, Nat)
  BY NatLessThanWellFounded DEF OpToRel, Less
<1>2. PICK m \in N : \A n \in N : <<n, m>> \notin Less
  BY <1>1, WFMin
<1>3. \A n \in N : ~(n < m)
  BY <1>2 DEF Less
<1>. QED BY <1>3

\* A set that contains a subset of S whenever it contains all smaller ones has them all.
LEMMA SubsetInduction ==
    ASSUME NEW S, IsFiniteSet(S), NEW G,
           \A T \in SUBSET S : (\A U \in SUBSET T : U # T => U \in G) => T \in G
    PROVE  \A T \in SUBSET S : T \in G
<1>. DEFINE bad == {T \in SUBSET S : T \notin G}
            N   == {Cardinality(T) : T \in bad}
<1>. SUFFICES ASSUME bad # {} PROVE FALSE
  OBVIOUS
<1>1. \A T \in SUBSET S : IsFiniteSet(T) /\ Cardinality(T) \in Nat
  BY FS_Subset, FS_CardinalityType
<1>2. N \subseteq Nat /\ N # {}
  BY <1>1
<1>3. PICK m \in N : \A n \in N : m <= n
  BY <1>2, LeastNumber
<1>4. PICK T \in bad : m = Cardinality(T)
  OBVIOUS
<1>5. ASSUME NEW U \in SUBSET T, U # T
      PROVE  U \in G
  <2>1. Cardinality(U) <= Cardinality(T) /\ Cardinality(U) # Cardinality(T)
    BY <1>1, <1>5, FS_Subset
  <2>2. U \in SUBSET S /\ Cardinality(U) \in Nat /\ Cardinality(T) \in Nat
    BY <1>1
  <2>3. U \in bad => Cardinality(T) <= Cardinality(U)
    BY <1>3, <1>4
  <2>. QED BY <2>1, <2>2, <2>3
<1>. QED BY <1>5

(***************************************************************************)
(* 2. The fold behind the sum                                              *)
(***************************************************************************)

Pick(T) == CHOOSE x \in T : TRUE

Rest(T) == T \ {Pick(T)}

\* sum adds up f over every subset of S.
AddsUp(sum, f, S) ==
    sum = [T \in SUBSET S |-> IF T = {} THEN 0 ELSE f[Pick(T)] + sum[Rest(T)]]

\* The definition of the community modules.
LEMMA SumIsFold ==
    ASSUME NEW f, NEW S
    PROVE  SumFunctionOnSet(f, S) = (CHOOSE sum : AddsUp(sum, f, S))[S]
BY DEF SumFunctionOnSet, FoldFunctionOnSet, MapThenFoldSet, AddsUp, Rest, Pick

\* What is picked is an element, so less is left.
LEMMA RestIsLess ==
    ASSUME NEW T, T # {}
    PROVE  Pick(T) \in T /\ Rest(T) \in SUBSET T /\ Rest(T) # T
BY DEF Rest, Pick

\* What a sum over subsets is at one of them.
LEMMA AddsUpAt ==
    ASSUME NEW f, NEW S, NEW sum, AddsUp(sum, f, S), NEW T \in SUBSET S
    PROVE  sum[T] = IF T = {} THEN 0 ELSE f[Pick(T)] + sum[Rest(T)]
<1>. DEFINE value(U) == IF U = {} THEN 0 ELSE f[Pick(U)] + sum[Rest(U)]
<1>1. sum = [U \in SUBSET S |-> value(U)]
  BY DEF AddsUp
<1>. HIDE DEF value
<1>2. sum[T] = value(T)
  BY <1>1
<1>. QED BY <1>2 DEF value

\* There is one sum over subsets, whatever set they are subsets of.
LEMMA AddsUpOnce ==
    ASSUME NEW f, NEW S, IsFiniteSet(S), NEW R, S \subseteq R,
           NEW g, NEW h, AddsUp(g, f, S), AddsUp(h, f, R)
    PROVE  \A T \in SUBSET S : g[T] = h[T]
<1>. DEFINE G == {T \in SUBSET S : g[T] = h[T]}
<1>1. ASSUME NEW T \in SUBSET S, \A U \in SUBSET T : U # T => U \in G
      PROVE  T \in G
  <2>1. /\ g[T] = IF T = {} THEN 0 ELSE f[Pick(T)] + g[Rest(T)]
        /\ h[T] = IF T = {} THEN 0 ELSE f[Pick(T)] + h[Rest(T)]
    BY AddsUpAt
  <2>2. T # {} => g[Rest(T)] = h[Rest(T)]
    BY <1>1, RestIsLess
  <2>. QED BY <2>1, <2>2
<1>2. \A T \in SUBSET S : T \in G
  <2>. HIDE DEF G
  <2>. QED BY <1>1, SubsetInduction
<1>. QED BY <1>2

\* There is one.
LEMMA AddsUpExists ==
    ASSUME NEW f, NEW S, IsFiniteSet(S)
    PROVE  \E sum : AddsUp(sum, f, S)
<1>. DEFINE Of(T) == CHOOSE sum : AddsUp(sum, f, T)
            G     == {T \in SUBSET S : \E sum : AddsUp(sum, f, T)}
<1>1. ASSUME NEW T \in SUBSET S, \A U \in SUBSET T : U # T => U \in G
      PROVE  T \in G
  <2>. DEFINE sum == [U \in SUBSET T |->
                        IF U = {} THEN 0 ELSE f[Pick(U)] + Of(Rest(U))[Rest(U)]]
  <2>1. \A U \in SUBSET T : U # {} => Rest(U) \in SUBSET U /\ Rest(U) # T
    BY RestIsLess
  <2>2. \A U \in SUBSET T : U # T => AddsUp(Of(U), f, U)
    BY <1>1
  <2>3. ASSUME NEW V \in SUBSET T, V # T
        PROVE  sum[V] = Of(V)[V]
    <3>1. sum[V] = IF V = {} THEN 0 ELSE f[Pick(V)] + Of(Rest(V))[Rest(V)]
      OBVIOUS
    <3>2. Of(V)[V] = IF V = {} THEN 0 ELSE f[Pick(V)] + Of(V)[Rest(V)]
      BY <2>2, <2>3, AddsUpAt
    <3>3. V # {} => Of(Rest(V))[Rest(V)] = Of(V)[Rest(V)]
      <4>. SUFFICES ASSUME V # {} PROVE Of(Rest(V))[Rest(V)] = Of(V)[Rest(V)]
        OBVIOUS
      <4>1. Rest(V) \in SUBSET V /\ Rest(V) \in SUBSET T /\ Rest(V) # T
        BY <2>1
      <4>2. AddsUp(Of(Rest(V)), f, Rest(V)) /\ AddsUp(Of(V), f, V)
        BY <2>2, <2>3, <4>1
      <4>3. IsFiniteSet(Rest(V))
        BY <4>1, FS_Subset
      <4>. HIDE DEF Of
      <4>. QED BY <4>1, <4>2, <4>3, AddsUpOnce
    <3>. HIDE DEF sum, Of
    <3>. QED BY <3>1, <3>2, <3>3
  <2>4. \A U \in SUBSET T : U # {} => Of(Rest(U))[Rest(U)] = sum[Rest(U)]
    BY <2>1, <2>3
  <2>5. AddsUp(sum, f, T)
    <3>. HIDE DEF Of
    <3>. QED BY <2>4 DEF AddsUp
  <2>. QED BY <2>5
<1>2. S \in G
  <2>. HIDE DEF G
  <2>. QED BY <1>1, SubsetInduction
<1>. QED BY <1>2

\* The sum takes one element after the other.
LEMMA SumRest ==
    ASSUME NEW f, NEW S, IsFiniteSet(S)
    PROVE  SumFunctionOnSet(f, S) =
              IF S = {} THEN 0 ELSE f[Pick(S)] + SumFunctionOnSet(f, Rest(S))
<1>. DEFINE Of(T) == CHOOSE sum : AddsUp(sum, f, T)
<1>1. \A T : IsFiniteSet(T) => AddsUp(Of(T), f, T)
  BY AddsUpExists
<1>2. \A T : SumFunctionOnSet(f, T) = Of(T)[T]
  BY SumIsFold
<1>. HIDE DEF Of
<1>3. Of(S)[S] = IF S = {} THEN 0 ELSE f[Pick(S)] + Of(S)[Rest(S)]
  BY <1>1, AddsUpAt
<1>4. S # {} => Of(Rest(S))[Rest(S)] = Of(S)[Rest(S)]
  <2>. SUFFICES ASSUME S # {} PROVE Of(Rest(S))[Rest(S)] = Of(S)[Rest(S)]
    OBVIOUS
  <2>1. Rest(S) \in SUBSET S /\ IsFiniteSet(Rest(S))
    BY RestIsLess, FS_Subset
  <2>. QED BY <1>1, <2>1, AddsUpOnce
<1>. QED BY <1>2, <1>3, <1>4

(***************************************************************************)
(* 3. The theorems                                                         *)
(***************************************************************************)

\* Nothing sums to nothing.
LEMMA SumEmpty == \A f : SumFunctionOnSet(f, {}) = 0
BY SumRest, FS_EmptySet

\* Integers sum to an integer, and each element can be taken out.
LEMMA SumRemove ==
    ASSUME NEW S, IsFiniteSet(S), NEW f, \A x \in S : f[x] \in Int
    PROVE  /\ SumFunctionOnSet(f, S) \in Int
           /\ \A x \in S : SumFunctionOnSet(f, S) = f[x] + SumFunctionOnSet(f, S \ {x})
<1>. DEFINE Sum(T) == SumFunctionOnSet(f, T)
            G == {T \in SUBSET S : Sum(T) \in Int /\ \A x \in T : Sum(T) = f[x] + Sum(T \ {x})}
<1>1. ASSUME NEW T \in SUBSET S, \A U \in SUBSET T : U # T => U \in G
      PROVE  T \in G
  <2>1. IsFiniteSet(T)
    BY FS_Subset
  <2>2. Sum(T) = IF T = {} THEN 0 ELSE f[Pick(T)] + Sum(Rest(T))
    BY <2>1, SumRest
  <2>. HIDE DEF Sum
  <2>3. CASE T = {}
    BY <2>2, <2>3
  <2>4. CASE T # {}
    <3>. DEFINE y == Pick(T)
    <3>1. y \in T /\ Rest(T) = T \ {y} /\ Rest(T) \in G
      BY <1>1, <2>4, RestIsLess DEF Rest
    <3>2. Sum(T) = f[y] + Sum(T \ {y}) /\ Sum(T \ {y}) \in Int
      BY <2>2, <2>4, <3>1
    <3>. HIDE DEF y
    <3>3. ASSUME NEW x \in T, x # y
          PROVE  Sum(T) = f[x] + Sum(T \ {x})
      <4>1. T \ {y} \in G /\ T \ {x} \in G /\ x \in T \ {y} /\ y \in T \ {x}
        BY <1>1, <3>1, <3>3
      <4>2. /\ Sum(T \ {y}) = f[x] + Sum((T \ {y}) \ {x})
            /\ Sum(T \ {x}) = f[y] + Sum((T \ {x}) \ {y})
        BY <4>1
      <4>3. (T \ {y}) \ {x} = (T \ {x}) \ {y}
        OBVIOUS
      <4>4. (T \ {y}) \ {x} \in G
        BY <1>1, <3>1
      <4>. DEFINE both == Sum((T \ {y}) \ {x})
      <4>5. both \in Int /\ f[x] \in Int /\ f[y] \in Int
        BY <3>1, <3>3, <4>4
      <4>6. Sum(T) = f[y] + (f[x] + both) /\ Sum(T \ {x}) = f[y] + both
        BY <3>2, <4>2, <4>3
      <4>. HIDE DEF both
      <4>. QED BY <4>5, <4>6
    <3>. QED BY <3>1, <3>2, <3>3
  <2>. QED BY <2>3, <2>4
<1>2. S \in G
  <2>. HIDE DEF G
  <2>. QED BY <1>1, SubsetInduction
<1>. QED BY <1>2

\* A new element adds its value.
LEMMA SumAdd ==
    ASSUME NEW S, IsFiniteSet(S), NEW x, x \notin S, NEW f, \A y \in S \cup {x} : f[y] \in Int
    PROVE  SumFunctionOnSet(f, S \cup {x}) = SumFunctionOnSet(f, S) + f[x]
<1>1. IsFiniteSet(S \cup {x}) /\ (S \cup {x}) \ {x} = S
  BY FS_AddElement
<1>2. SumFunctionOnSet(f, S) \in Int
  BY SumRemove
<1>3. SumFunctionOnSet(f, S \cup {x}) = f[x] + SumFunctionOnSet(f, (S \cup {x}) \ {x})
  BY <1>1, SumRemove
<1>4. f[x] \in Int /\ SumFunctionOnSet(f, (S \cup {x}) \ {x}) = SumFunctionOnSet(f, S)
  BY <1>1
<1>. QED BY <1>2, <1>3, <1>4

\* The sum depends on the values of the elements only.
LEMMA SumSame ==
    ASSUME NEW S, IsFiniteSet(S), NEW f, NEW g, \A x \in S : f[x] = g[x]
    PROVE  SumFunctionOnSet(f, S) = SumFunctionOnSet(g, S)
<1>. DEFINE G == {T \in SUBSET S : SumFunctionOnSet(f, T) = SumFunctionOnSet(g, T)}
<1>1. ASSUME NEW T \in SUBSET S, \A U \in SUBSET T : U # T => U \in G
      PROVE  T \in G
  <2>1. IsFiniteSet(T)
    BY FS_Subset
  <2>2. /\ SumFunctionOnSet(f, T) =
              IF T = {} THEN 0 ELSE f[Pick(T)] + SumFunctionOnSet(f, Rest(T))
        /\ SumFunctionOnSet(g, T) =
              IF T = {} THEN 0 ELSE g[Pick(T)] + SumFunctionOnSet(g, Rest(T))
    BY <2>1, SumRest
  <2>3. T # {} => /\ f[Pick(T)] = g[Pick(T)]
                  /\ SumFunctionOnSet(f, Rest(T)) = SumFunctionOnSet(g, Rest(T))
    BY <1>1, RestIsLess
  <2>. QED BY <2>2, <2>3
<1>2. S \in G
  <2>. HIDE DEF G
  <2>. QED BY <1>1, SubsetInduction
<1>. QED BY <1>2
================================================================================
