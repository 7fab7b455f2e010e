----------------------------- MODULE SumsProofs -----------------------------
(***************************************************************************)
(* Sums, maxima and minima over finite sets. The prover cannot instantiate *)
(* an induction theorem that has an operator for its predicate, so that    *)
(* SubsetInduction has a set: strict inclusion is well founded on the      *)
(* subsets of a finite set, so that a smallest one that is not in Good     *)
(* would have to be.                                                       *)
(***************************************************************************)
EXTENDS Sums, FiniteSetTheorems, TLAPS

\* Induction over the subsets of a finite set.
LEMMA SubsetInduction ==
    ASSUME NEW S, IsFiniteSet(S), NEW Good,
           \A s \in SUBSET S : (\A t \in SUBSET s : t # s => t \in Good) => s \in Good
    PROVE  SUBSET S \subseteq Good
<1> DEFINE Bad == (SUBSET S) \ Good
<1>1. SUFFICES ASSUME Bad # {}  PROVE FALSE
  OBVIOUS
<1>2. IsWellFoundedOn(StrictSubsetOrdering(S), SUBSET S)
  BY FS_StrictSubsetOrderingWellFounded, FS_FiniteSubsetsOfFinite
<1>3. Bad \subseteq SUBSET S
  OBVIOUS
<1>4. PICK s \in Bad : \A t \in Bad : ~(<<t, s>> \in StrictSubsetOrdering(S))
  <2> HIDE DEF Bad
  <2> QED  BY <1>1, <1>2, <1>3, WFMin
<1>5. \A t \in SUBSET s : t # s => t \in Good
  BY <1>4 DEF StrictSubsetOrdering
<1> QED  BY <1>4, <1>5

-----------------------------------------------------------------------------
(* What SumOver computes                                                     *)

\* The element a sum takes first.
First(s) == CHOOSE x \in s : TRUE

\* f has the sums of all subsets of S.
IsSum(w, f, S) ==
    f = [s \in SUBSET S |-> IF s = {} THEN 0 ELSE w[First(s)] + f[s \ {First(s)}]]

LEMMA FirstIn == ASSUME NEW s, s # {}  PROVE First(s) \in s
BY DEF First

\* SumOver is defined by a recursive function, which TLA+ chooses.
LEMMA SumIsFold ==
    ASSUME NEW w, NEW S
    PROVE  SumOver(w, S) = (CHOOSE f : IsSum(w, f, S))[S]
BY Zenon DEF SumOver, MapThenSumSet, MapThenFoldSet, IsSum, First

LEMMA SumUnfolds ==
    ASSUME NEW w, NEW S, NEW f, IsSum(w, f, S)
    PROVE  /\ f[{}] = 0
           /\ \A s \in SUBSET S : s # {} => f[s] = w[First(s)] + f[s \ {First(s)}]
<1>1. \A s \in SUBSET S : f[s] = IF s = {} THEN 0 ELSE w[First(s)] + f[s \ {First(s)}]
  BY DEF IsSum
<1> QED  BY <1>1

\* Two such functions agree where both are defined.
LEMMA SumsAgree ==
    ASSUME NEW w, NEW S, IsFiniteSet(S), NEW U \in SUBSET S, NEW f, NEW g,
           IsSum(w, f, S), IsSum(w, g, U)
    PROVE  \A s \in SUBSET U : f[s] = g[s]
<1> DEFINE Good == {s \in SUBSET U : f[s] = g[s]}
<1>1. ASSUME NEW s \in SUBSET U, \A t \in SUBSET s : t # s => t \in Good
      PROVE  s \in Good
  <2>1. CASE s = {}
    BY <2>1, SumUnfolds
  <2>2. CASE s # {}
    <3>1. s \ {First(s)} \in SUBSET s /\ s \ {First(s)} # s
      BY <2>2, FirstIn
    <3>2. f[s \ {First(s)}] = g[s \ {First(s)}]
      BY <1>1, <3>1
    <3> QED  BY <2>2, <3>2, SumUnfolds
  <2> QED  BY <2>1, <2>2
<1>2. IsFiniteSet(U)
  BY FS_Subset
<1>3. SUBSET U \subseteq Good
  <2> HIDE DEF Good
  <2> QED  BY <1>1, <1>2, SubsetInduction
<1> QED  BY <1>3

\* There is one.
LEMMA SumsExist ==
    ASSUME NEW w, NEW S, IsFiniteSet(S)
    PROVE  \E f : IsSum(w, f, S)
<1> DEFINE Good == {s \in SUBSET S : \E f : IsSum(w, f, s)}
<1>1. ASSUME NEW s \in SUBSET S, \A t \in SUBSET s : t # s => t \in Good
      PROVE  s \in Good
  <2>1. PICK G : G = [u \in SUBSET s |-> CHOOSE f : IsSum(w, f, u)]
    OBVIOUS
  <2>2. \A u \in SUBSET s : u # s => IsSum(w, G[u], u) /\ IsFiniteSet(u)
    <3> TAKE u \in SUBSET s
    <3> HAVE u # s
    <3>1. \E f : IsSum(w, f, u)
      BY <1>1
    <3>2. G[u] = CHOOSE f : IsSum(w, f, u)
      BY <2>1
    <3> QED  BY <3>1, <3>2, FS_Subset
  <2>3. PICK F : F = [u \in SUBSET s |-> IF u = {} THEN 0
                            ELSE w[First(u)] + G[u \ {First(u)}][u \ {First(u)}]]
    OBVIOUS
  <2>4. ASSUME NEW u \in SUBSET s, u # s  PROVE F[u] = G[u][u]
    <3>1. CASE u = {}
      BY <2>2, <2>3, <2>4, <3>1, SumUnfolds
    <3>2. CASE u # {}
      <4>1. PICK v : v = u \ {First(u)}
        OBVIOUS
      <4>2. v \in SUBSET s /\ v # s /\ v \in SUBSET u
        BY <2>4, <3>2, <4>1, FirstIn
      <4>3. G[u][u] = w[First(u)] + G[u][v]
        BY <2>2, <2>4, <3>2, <4>1, SumUnfolds
      <4>4. G[u][v] = G[v][v]
        <5>1. IsSum(w, G[u], u) /\ IsFiniteSet(u) /\ IsSum(w, G[v], v) /\ v \in SUBSET v
          BY <2>2, <2>4, <4>2
        <5>2. PICK f, g : f = G[u] /\ g = G[v]
          OBVIOUS
        <5>3. IsFiniteSet(u) /\ v \in SUBSET u /\ IsSum(w, f, u) /\ IsSum(w, g, v)
          BY <4>2, <5>1, <5>2
        <5>4. \A t \in SUBSET v : f[t] = g[t]
          BY <5>3, SumsAgree
        <5> QED  BY <5>1, <5>2, <5>4
      <4>5. F[u] = w[First(u)] + G[v][v]
        BY <2>3, <3>2, <4>1
      <4> QED  BY <4>3, <4>4, <4>5
    <3> QED  BY <3>1, <3>2
  <2>5. ASSUME NEW u \in SUBSET s, u # {}
        PROVE  G[u \ {First(u)}][u \ {First(u)}] = F[u \ {First(u)}]
    <3>1. u \ {First(u)} \in SUBSET s /\ u \ {First(u)} # s
      BY <2>5, FirstIn
    <3> QED  BY <2>4, <3>1
  <2>6. F = [u \in SUBSET s |-> IF u = {} THEN 0
                                ELSE w[First(u)] + F[u \ {First(u)}]]
    BY <2>3, <2>5
  <2>7. IsSum(w, F, s)
    BY <2>6, Zenon DEF IsSum
  <2> QED  BY <2>7
<1>2. SUBSET S \subseteq Good
  <2> HIDE DEF Good
  <2> QED  BY <1>1, SubsetInduction
<1> QED  BY <1>2

\* The sums of the subsets of S are those that the function for S has.
LEMMA SumOfSubset ==
    ASSUME NEW w, NEW S, IsFiniteSet(S), NEW f, IsSum(w, f, S)
    PROVE  \A U \in SUBSET S : SumOver(w, U) = f[U]
<1> TAKE U \in SUBSET S
<1>1. IsFiniteSet(U)
  BY FS_Subset
<1>2. PICK g : g = CHOOSE h : IsSum(w, h, U)
  OBVIOUS
<1>3. IsSum(w, g, U)
  BY <1>1, <1>2, SumsExist
<1>4. SumOver(w, U) = g[U]
  BY <1>2, SumIsFold
<1> QED  BY <1>3, <1>4, SumsAgree

\* The two equations of a sum,
LEMMA SumOverEmpty == ASSUME NEW w  PROVE SumOver(w, {}) = 0
<1>1. PICK f : IsSum(w, f, {})
  BY FS_EmptySet, SumsExist
<1> QED  BY <1>1, FS_EmptySet, SumOfSubset, SumUnfolds

LEMMA SumOverFirst ==
    ASSUME NEW w, NEW S, IsFiniteSet(S), S # {}
    PROVE  SumOver(w, S) = w[First(S)] + SumOver(w, S \ {First(S)})
<1>1. PICK f : IsSum(w, f, S)
  BY SumsExist
<1>2. SumOver(w, S) = f[S] /\ SumOver(w, S \ {First(S)}) = f[S \ {First(S)}]
  BY <1>1, SumOfSubset
<1>3. f[S] = w[First(S)] + f[S \ {First(S)}]
  BY <1>1, SumUnfolds
<1> QED  BY <1>2, <1>3

\* from which all else follows: sums of natural numbers are natural numbers.
LEMMA SumOverNat ==
    ASSUME NEW S, IsFiniteSet(S), NEW w, \A x \in S : w[x] \in Nat
    PROVE  \A s \in SUBSET S : SumOver(w, s) \in Nat
<1> DEFINE Good == {s \in SUBSET S : SumOver(w, s) \in Nat}
<1>1. ASSUME NEW s \in SUBSET S, \A t \in SUBSET s : t # s => t \in Good
      PROVE  s \in Good
  <2>1. CASE s = {}
    BY <2>1, SumOverEmpty
  <2>2. CASE s # {}
    <3>1. PICK e : e = First(s)
      OBVIOUS
    <3>2. e \in s /\ SumOver(w, s) = w[e] + SumOver(w, s \ {e})
      BY <2>2, <3>1, FirstIn, FS_Subset, SumOverFirst
    <3>3. SumOver(w, s \ {e}) \in Nat /\ w[e] \in Nat
      BY <1>1, <3>2
    <3>4. SumOver(w, s) \in Nat
      BY <3>2, <3>3
    <3> QED  BY <3>4
  <2> QED  BY <2>1, <2>2
<1>2. SUBSET S \subseteq Good
  <2> HIDE DEF Good
  <2> QED  BY <1>1, SubsetInduction
<1> QED  BY <1>2

\* Any element may be taken first.
LEMMA SumOverRemove ==
    ASSUME NEW S, IsFiniteSet(S), NEW w, \A x \in S : w[x] \in Nat
    PROVE  \A s \in SUBSET S : \A x \in s : SumOver(w, s) = w[x] + SumOver(w, s \ {x})
<1> DEFINE Good == {s \in SUBSET S :
                      \A x \in s : SumOver(w, s) = w[x] + SumOver(w, s \ {x})}
<1>1. ASSUME NEW s \in SUBSET S, \A t \in SUBSET s : t # s => t \in Good
      PROVE  s \in Good
  <2> SUFFICES ASSUME NEW x \in s
               PROVE  SumOver(w, s) = w[x] + SumOver(w, s \ {x})
    OBVIOUS
  <2>1. PICK e : e = First(s)
    OBVIOUS
  <2>2. e \in s /\ SumOver(w, s) = w[e] + SumOver(w, s \ {e})
    BY <2>1, FirstIn, FS_Subset, SumOverFirst
  <2>3. CASE e # x
    <3>1. PICK r : r = (s \ {e}) \ {x}
      OBVIOUS
    <3>2. s \ {e} \in Good /\ s \ {x} \in Good /\ r \in SUBSET S /\ r = (s \ {x}) \ {e}
      BY <1>1, <2>2, <3>1
    <3>3. SumOver(w, s \ {e}) = w[x] + SumOver(w, r)
      BY <2>3, <3>1, <3>2
    <3>4. SumOver(w, s \ {x}) = w[e] + SumOver(w, r)
      BY <2>2, <2>3, <3>2
    <3>5. SumOver(w, r) \in Nat /\ w[e] \in Nat /\ w[x] \in Nat
      BY <2>2, <3>2, SumOverNat
    <3> QED  BY <2>2, <3>3, <3>4, <3>5
  <2> QED  BY <2>2, <2>3
<1>2. SUBSET S \subseteq Good
  <2> HIDE DEF Good
  <2> QED  BY <1>1, SubsetInduction
<1> QED  BY <1>2

\* A subset has no larger sum: what is enough for all of a set is enough for
\* some of it (the GPUs of a batch, matcher.go:107-108).
LEMMA SumOverMonotonic ==
    ASSUME NEW S, IsFiniteSet(S), NEW w, \A x \in S : w[x] \in Nat,
           NEW T \in SUBSET S
    PROVE  SumOver(w, T) <= SumOver(w, S)
<1> DEFINE Good == {s \in SUBSET S : T \subseteq s => SumOver(w, T) <= SumOver(w, s)}
<1>1. ASSUME NEW s \in SUBSET S, \A t \in SUBSET s : t # s => t \in Good
      PROVE  s \in Good
  <2>1. CASE s = T \/ ~(T \subseteq s)
    BY <2>1, SumOverNat
  <2>2. CASE s # T /\ T \subseteq s
    <3>1. PICK x \in s : x \notin T
      BY <2>2
    <3>2. SumOver(w, s) = w[x] + SumOver(w, s \ {x})
      BY SumOverRemove
    <3>3. SumOver(w, T) <= SumOver(w, s \ {x})
      BY <1>1, <2>2, <3>1
    <3>4. SumOver(w, T) \in Nat /\ SumOver(w, s \ {x}) \in Nat /\ w[x] \in Nat
      BY SumOverNat
    <3>5. SumOver(w, T) <= SumOver(w, s)
      BY <3>2, <3>3, <3>4
    <3> QED  BY <3>5
  <2> QED  BY <2>1, <2>2
<1>2. SUBSET S \subseteq Good
  <2> HIDE DEF Good
  <2> QED  BY <1>1, SubsetInduction
<1> QED  BY <1>2

-----------------------------------------------------------------------------
(* Maxima and minima                                                         *)

\* Max and Min are what they are called.
LEMMA MaxOfNumbers ==
    ASSUME NEW S, IsFiniteSet(S), S \subseteq Nat, S # {}
    PROVE  Max(S) \in S /\ \A y \in S : Max(S) >= y
<1> DEFINE Good == {s \in SUBSET S : s # {} => \E x \in s : \A y \in s : x >= y}
<1>1. ASSUME NEW s \in SUBSET S, \A t \in SUBSET s : t # s => t \in Good
      PROVE  s \in Good
  <2> SUFFICES ASSUME s # {}
               PROVE  \E x \in s : \A y \in s : x >= y
    OBVIOUS
  <2>1. PICK e : e \in s
    OBVIOUS
  <2>2. CASE s = {e}
    BY <2>2
  <2>3. CASE s # {e}
    <3>1. PICK x \in s \ {e} : \A y \in s \ {e} : x >= y
      <4>1. s \ {e} \in Good /\ s \ {e} # {}
        BY <1>1, <2>1, <2>3
      <4> QED  BY <4>1
    <3>2. CASE x >= e
      BY <3>1, <3>2
    <3>3. CASE e >= x
      <4>1. \A y \in s : e >= y
        BY <2>1, <3>1, <3>3
      <4> QED  BY <2>1, <4>1
    <3> QED  BY <2>1, <3>1, <3>2, <3>3
  <2> QED  BY <2>2, <2>3
<1>2. SUBSET S \subseteq Good
  <2> HIDE DEF Good
  <2> QED  BY <1>1, SubsetInduction
<1>3. \E x \in S : \A y \in S : x >= y
  BY <1>2
<1> QED  BY <1>3 DEF Max

LEMMA MinOfNumbers ==
    ASSUME NEW S, S \subseteq Nat, S # {}
    PROVE  Min(S) \in S /\ \A y \in S : Min(S) <= y
<1>1. PICK x \in S : \A y \in S : ~(<<y, x>> \in OpToRel(<, Nat))
  BY NatLessThanWellFounded, WFMin
<1>2. \A y \in S : ~(y < x)
  BY <1>1, Zenon DEF OpToRel
<1>3. \A y \in S : x <= y
  BY <1>2
<1> QED  BY <1>3 DEF Min
=============================================================================
