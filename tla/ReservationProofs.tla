-------------------------- MODULE ReservationProofs --------------------------
(***************************************************************************)
(* The wallet of Reservation for any number of calls, SDK streams and      *)
(* expiry workers and any amounts: held_usd is the sum of the open holds,  *)
(* a hold lasts until its usage is billed, and cost within the holds does  *)
(* not become debt.                                                        *)
(*                                                                         *)
(* The first part is about finite sums.  They are recursive functions on   *)
(* sets, and every induction is one over Nat: a set of naturals that is    *)
(* not all of Nat has a least counterexample.                              *)
(***************************************************************************)
EXTENDS Reservation, FiniteSetTheorems, TLAPS

(***************************************************************************)
(* Induction.                                                              *)
(***************************************************************************)
(* A set of numbers that has 0 and every successor has all numbers.           *)
LEMMA AllNumbers ==
  ASSUME NEW P \in SUBSET Nat, 0 \in P, \A n \in P : n + 1 \in P
  PROVE  P = Nat
<1> SUFFICES ASSUME Nat \ P # {} PROVE FALSE
  OBVIOUS
<1>1. IsWellFoundedOn(OpToRel(<, Nat), Nat)
  BY NatLessThanWellFounded
<1>2. PICK n \in Nat \ P : \A m \in Nat \ P : ~(<<m, n>> \in OpToRel(<, Nat))
  BY <1>1, WFMin
<1>3. \A m \in Nat \ P : ~(m < n)
  BY <1>2 DEF OpToRel
<1>4. n # 0 /\ n - 1 \in Nat /\ n - 1 < n /\ (n - 1) + 1 = n
  OBVIOUS
<1>5. n - 1 \in P
  BY <1>3, <1>4
<1> QED
  BY <1>4, <1>5

(* A set of subsets of a finite set that has {} and grows element by element  *)
(* has them all.                                                              *)
LEMMA AllSubsets ==
  ASSUME NEW U, IsFiniteSet(U), NEW P \in SUBSET (SUBSET U), {} \in P,
         \A S \in P : \A x \in U \ S : S \cup {x} \in P
  PROVE  P = SUBSET U
<1> DEFINE Sizes == {n \in Nat : \A S \in SUBSET U : Cardinality(S) = n => S \in P}
<1>0. \A S \in SUBSET U : IsFiniteSet(S) /\ Cardinality(S) \in Nat
  BY FS_Subset, FS_CardinalityType
<1>1. 0 \in Sizes
  BY <1>0, FS_EmptySet
<1>2. ASSUME NEW n \in Sizes PROVE n + 1 \in Sizes
  <2> SUFFICES ASSUME NEW S \in SUBSET U, Cardinality(S) = n + 1
               PROVE  S \in P
    OBVIOUS
  <2>0. n \in Nat /\ \A T \in SUBSET U : Cardinality(T) = n => T \in P
    OBVIOUS
  <2>1. S # {}
    <3>1. Cardinality({}) = 0
      BY FS_EmptySet
    <3>2. Cardinality(S) # 0
      BY <2>0
    <3> QED
      BY <3>1, <3>2
  <2>2. PICK x \in S : TRUE
    BY <2>1
  <2>3. Cardinality(S \ {x}) = n
    BY <1>0, <2>0, FS_RemoveElement
  <2>4. S \ {x} \in P
    BY <2>3
  <2>5. (S \ {x}) \cup {x} \in P
    BY <2>4
  <2> QED
    BY <2>5
<1>3. Sizes = Nat
  <2> HIDE DEF Sizes
  <2>1. Sizes \in SUBSET Nat
    BY DEF Sizes
  <2> QED
    BY <1>1, <1>2, <2>1, AllNumbers
<1> QED
  BY <1>0, <1>3

(***************************************************************************)
(* Sums.                                                                   *)
(***************************************************************************)
\* The element taken next, and one step of the recursion of a sum.
Some(S) == CHOOSE x \in S : TRUE
Step(f, g, S) == IF S = {} THEN 0 ELSE f[Some(S)] + g[S \ {Some(S)}]
Partial(f, U) == CHOOSE g : g = [S \in SUBSET U |-> Step(f, g, S)]

Sum(f, S) == SumFunctionOnSet(f, S)

(* The folded sum is the recursive sum over the parts of the set.             *)
LEMMA SumIsPartial ==
  ASSUME NEW f, NEW S
  PROVE  Sum(f, S) = Partial(f, S)[S]
BY DEF Sum, SumFunctionOnSet, FoldFunctionOnSet, MapThenFoldSet, Partial, Step, Some

(* The recursive function exists: one that is right up to a size is right up  *)
(* to the next after a step.                                                  *)
LEMMA PartialSteps ==
  ASSUME NEW f, NEW U, IsFiniteSet(U)
  PROVE  \A S \in SUBSET U : Partial(f, U)[S] = Step(f, Partial(f, U), S)
<1> DEFINE RightUpTo(g, n) == \A S \in SUBSET U : Cardinality(S) <= n => g[S] = Step(f, g, S)
           Reached == {n \in Nat : \E g : g = [S \in SUBSET U |-> g[S]] /\ RightUpTo(g, n)}
<1>0. \A S \in SUBSET U :
        /\ IsFiniteSet(S) /\ Cardinality(S) \in Nat /\ Cardinality(S) <= Cardinality(U)
        /\ Cardinality(S) = 0 <=> S = {}
  BY FS_Subset, FS_CardinalityType, FS_EmptySet
<1>1. \A S \in SUBSET U :
        S # {} => Some(S) \in S /\ S \ {Some(S)} \in SUBSET U
                  /\ Cardinality(S \ {Some(S)}) = Cardinality(S) - 1
  BY <1>0, FS_RemoveElement DEF Some
<1>2. 0 \in Reached
  <2> DEFINE g == [S \in SUBSET U |-> 0]
  <2>1. g = [S \in SUBSET U |-> g[S]]
    OBVIOUS
  <2>2. RightUpTo(g, 0)
    BY <1>0 DEF Step
  <2> QED
    BY <2>1, <2>2
<1>3. ASSUME NEW n \in Reached PROVE n + 1 \in Reached
  <2>1. PICK g : g = [S \in SUBSET U |-> g[S]] /\ RightUpTo(g, n)
    OBVIOUS
  <2> DEFINE h == [S \in SUBSET U |-> Step(f, g, S)]
  <2>2. h = [S \in SUBSET U |-> h[S]]
    OBVIOUS
  <2>3. ASSUME NEW S \in SUBSET U, Cardinality(S) <= n + 1
        PROVE  h[S] = Step(f, h, S)
    <3>1. CASE S = {}
      BY <3>1 DEF Step
    <3>2. CASE S # {}
      <4> DEFINE rest == S \ {Some(S)}
      <4>1. rest \in SUBSET U /\ Cardinality(rest) = Cardinality(S) - 1
        BY <1>1, <3>2
      <4>2. Cardinality(rest) <= n
        BY <1>0, <2>3, <4>1
      <4>3. g[rest] = Step(f, g, rest)
        BY <2>1, <4>1, <4>2
      <4>4. h[rest] = g[rest]
        BY <4>1, <4>3
      <4>5. h[S] = Step(f, g, S)
        OBVIOUS
      <4> QED
        BY <3>2, <4>4, <4>5 DEF Step
    <3> QED
      BY <3>1, <3>2
  <2>4. RightUpTo(h, n + 1)
    BY <2>3
  <2> HIDE DEF h, RightUpTo
  <2> QED
    BY <2>2, <2>4
<1>4. Reached = Nat
  <2> HIDE DEF Reached
  <2>1. Reached \in SUBSET Nat
    BY DEF Reached
  <2> QED
    BY <1>2, <1>3, <2>1, AllNumbers
<1>5. PICK g : g = [S \in SUBSET U |-> g[S]] /\ RightUpTo(g, Cardinality(U))
  <2>1. Cardinality(U) \in Reached
    BY <1>4, FS_CardinalityType
  <2> QED
    BY <2>1
<1>6. \A S \in SUBSET U : g[S] = Step(f, g, S)
  BY <1>0, <1>5
<1>7. g = [S \in SUBSET U |-> Step(f, g, S)]
  BY <1>5, <1>6
<1>8. Partial(f, U) = [S \in SUBSET U |-> Step(f, Partial(f, U), S)]
  BY <1>7 DEF Partial
<1>9. PICK p : p = Partial(f, U)
  OBVIOUS
<1>10. p = [S \in SUBSET U |-> Step(f, p, S)]
  BY <1>8, <1>9
<1>11. \A S \in SUBSET U : p[S] = Step(f, p, S)
  BY <1>10
<1> QED
  BY <1>9, <1>11

(* Sums over subsets are the same recursive function, whatever set it was     *)
(* defined for.                                                               *)
LEMMA PartialsAgree ==
  ASSUME NEW f, NEW U, IsFiniteSet(U), NEW V \in SUBSET U
  PROVE  \A S \in SUBSET V : Partial(f, U)[S] = Partial(f, V)[S]
<1> DEFINE P == {S \in SUBSET V : Partial(f, U)[S] = Partial(f, V)[S]}
           Sizes == {n \in Nat : \A S \in SUBSET V : Cardinality(S) <= n => S \in P}
<1>0. /\ IsFiniteSet(V)
      /\ \A S \in SUBSET V :
           /\ IsFiniteSet(S) /\ Cardinality(S) \in Nat /\ Cardinality(S) <= Cardinality(V)
           /\ Cardinality(S) = 0 <=> S = {}
  BY FS_Subset, FS_CardinalityType, FS_EmptySet
<1>1. \A S \in SUBSET V :
        /\ Partial(f, U)[S] = Step(f, Partial(f, U), S)
        /\ Partial(f, V)[S] = Step(f, Partial(f, V), S)
  BY <1>0, PartialSteps
<1>2. 0 \in Sizes
  <2>1. {} \in P
    BY <1>1 DEF Step
  <2>2. \A S \in SUBSET V : Cardinality(S) <= 0 => S = {}
    BY <1>0
  <2> HIDE DEF P
  <2> QED
    BY <2>1, <2>2
<1>3. ASSUME NEW n \in Sizes PROVE n + 1 \in Sizes
  <2>0. n \in Nat /\ \A T \in SUBSET V : Cardinality(T) <= n => T \in P
    OBVIOUS
  <2> SUFFICES ASSUME NEW S \in SUBSET V, Cardinality(S) <= n + 1
               PROVE  S \in P
    BY <2>0
  <2>1. CASE S = {}
    BY <1>1, <2>1 DEF Step
  <2>2. CASE S # {}
    <3> DEFINE rest == S \ {Some(S)}
    <3>1. Some(S) \in S
      BY <2>2 DEF Some
    <3>2. rest \in SUBSET V /\ Cardinality(rest) = Cardinality(S) - 1
      BY <1>0, <3>1, FS_RemoveElement
    <3>3. rest \in P
      BY <1>0, <2>0, <3>2
    <3>4. Partial(f, U)[S] = f[Some(S)] + Partial(f, U)[rest] /\ Partial(f, V)[S] = f[Some(S)] + Partial(f, V)[rest]
      BY <1>1, <2>2 DEF Step
    <3> QED
      BY <3>3, <3>4
  <2> QED
    BY <2>1, <2>2
<1>4. Sizes = Nat
  <2> HIDE DEF Sizes
  <2>1. Sizes \in SUBSET Nat
    BY DEF Sizes
  <2> QED
    BY <1>2, <1>3, <2>1, AllNumbers
<1> QED
  BY <1>0, <1>4

(* The first equation of a sum, ...                                           *)
LEMMA SumTakesSome ==
  ASSUME NEW f, NEW S, IsFiniteSet(S)
  PROVE  /\ S = {} => Sum(f, S) = 0
         /\ S # {} => Some(S) \in S /\ Sum(f, S) = f[Some(S)] + Sum(f, S \ {Some(S)})
<1>1. Partial(f, S)[S] = Step(f, Partial(f, S), S)
  <2>1. S \in SUBSET S
    OBVIOUS
  <2> QED
    BY <2>1, PartialSteps
<1>2. S # {} => Some(S) \in S
  BY DEF Some
<1>3. Partial(f, S)[S \ {Some(S)}] = Sum(f, S \ {Some(S)})
  BY PartialsAgree, SumIsPartial
<1> QED
  BY <1>1, <1>2, <1>3, SumIsPartial DEF Step

(* ... which does not depend on the element taken.                            *)
LEMMA SumTakes ==
  ASSUME NEW U, IsFiniteSet(U), NEW f, \A u \in U : f[u] \in Int
  PROVE  \A S \in SUBSET U :
           Sum(f, S) \in Int /\ \A x \in S : Sum(f, S) = f[x] + Sum(f, S \ {x})
<1> DEFINE Good(S) == Sum(f, S) \in Int /\ \A x \in S : Sum(f, S) = f[x] + Sum(f, S \ {x})
           Sizes == {n \in Nat : \A S \in SUBSET U : Cardinality(S) <= n => Good(S)}
<1>0. \A S \in SUBSET U :
        /\ IsFiniteSet(S) /\ Cardinality(S) \in Nat
        /\ Cardinality(S) = 0 <=> S = {}
        /\ \A x \in S : S \ {x} \in SUBSET U /\ Cardinality(S \ {x}) = Cardinality(S) - 1
  BY FS_Subset, FS_CardinalityType, FS_EmptySet, FS_RemoveElement
<1>1. \A S \in SUBSET U : S # {} => Some(S) \in S /\ Sum(f, S) = f[Some(S)] + Sum(f, S \ {Some(S)})
  BY <1>0, SumTakesSome
<1>2. Good({})
  <2>1. Sum(f, {}) = 0
    BY SumTakesSome, FS_EmptySet
  <2> QED
    BY <2>1
<1>3. 0 \in Sizes
  BY <1>0, <1>2
<1>4. ASSUME NEW n \in Sizes PROVE n + 1 \in Sizes
  <2>0. n \in Nat /\ \A T \in SUBSET U : Cardinality(T) <= n => Good(T)
    OBVIOUS
  <2> HIDE DEF Good
  <2> SUFFICES ASSUME NEW S \in SUBSET U, Cardinality(S) <= n + 1, S # {}
               PROVE  Good(S)
    BY <2>0, <1>2
  <2> DEFINE c == Some(S)
             rest == S \ {c}
  <2>1. c \in S /\ c \in U /\ f[c] \in Int /\ Sum(f, S) = f[c] + Sum(f, rest)
    BY <1>1
  <2>2. rest \in SUBSET U /\ Cardinality(rest) <= n
    BY <1>0, <2>0, <2>1
  <2> HIDE DEF c
  <2>3. Good(rest)
    BY <2>0, <2>2
  <2>4. Sum(f, S) \in Int
    BY <2>1, <2>3 DEF Good
  <2>5. ASSUME NEW x \in S, x # c PROVE Sum(f, S) = f[x] + Sum(f, S \ {x})
    <3> DEFINE less == S \ {x}
               both == rest \ {x}
    <3>1. less \in SUBSET U /\ Cardinality(less) <= n
      BY <1>0, <2>0
    <3>2. Good(less)
      BY <2>0, <3>1
    <3>3. both = less \ {c} /\ c \in less /\ x \in rest
      BY <2>1, <2>5
    <3>4. Sum(f, rest) = f[x] + Sum(f, both)
      BY <2>3, <3>3 DEF Good
    <3>5. Sum(f, less) = f[c] + Sum(f, both)
      BY <3>2, <3>3 DEF Good
    <3>6. Sum(f, both) \in Int
      <4>1. both \in SUBSET U /\ Cardinality(both) = Cardinality(less) - 1 /\ Cardinality(less) \in Nat
        BY <1>0, <3>1, <3>3
      <4>2. Cardinality(both) <= n
        BY <2>0, <3>1, <4>1
      <4> QED
        BY <2>0, <4>1, <4>2 DEF Good
    <3>7. f[x] \in Int
      OBVIOUS
    <3> HIDE DEF less, both, rest
    <3>8. f[c] + (f[x] + Sum(f, both)) = f[x] + (f[c] + Sum(f, both))
      BY <2>1, <3>6, <3>7
    <3> QED
      BY <2>1, <3>4, <3>5, <3>8 DEF less
  <2>6. Sum(f, S) = f[c] + Sum(f, S \ {c})
    BY <2>1
  <2> QED
    BY <2>4, <2>5, <2>6 DEF Good
<1>5. Sizes = Nat
  <2> HIDE DEF Sizes
  <2>1. Sizes \in SUBSET Nat
    BY DEF Sizes
  <2> QED
    BY <1>3, <1>4, <2>1, AllNumbers
<1> QED
  BY <1>0, <1>5

(* What the proofs below use of sums: the sum of nothing, of one element more *)
(* or less, of naturals, of functions that agree or are ordered, of a part.   *)
LEMMA SumOfNone ==
  ASSUME NEW f
  PROVE  Sum(f, {}) = 0
BY SumTakesSome, FS_EmptySet

(* A sum is one of its terms and the sum of the rest.                         *)
LEMMA SumWithout ==
  ASSUME NEW S, IsFiniteSet(S), NEW f, \A u \in S : f[u] \in Int, NEW x \in S
  PROVE  Sum(f, S) = f[x] + Sum(f, S \ {x}) /\ Sum(f, S) \in Int /\ Sum(f, S \ {x}) \in Int
<1>1. S \in SUBSET S /\ S \ {x} \in SUBSET S
  OBVIOUS
<1> QED
  BY <1>1, SumTakes

(* One more element adds its term.                                            *)
LEMMA SumWith ==
  ASSUME NEW S, IsFiniteSet(S), NEW f, \A u \in S : f[u] \in Int,
         NEW T \in SUBSET S, NEW x \in S \ T
  PROVE  Sum(f, T \cup {x}) = f[x] + Sum(f, T) /\ Sum(f, T) \in Int
<1>1. T \in SUBSET S /\ T \cup {x} \in SUBSET S /\ (T \cup {x}) \ {x} = T
  OBVIOUS
<1>2. x \in T \cup {x}
  OBVIOUS
<1>3. \A R \in SUBSET S : Sum(f, R) \in Int /\ \A y \in R : Sum(f, R) = f[y] + Sum(f, R \ {y})
  BY SumTakes
<1> QED
  BY <1>1, <1>2, <1>3

(* Equal terms make equal sums.                                               *)
LEMMA SumSame ==
  ASSUME NEW S, IsFiniteSet(S), NEW f, NEW g, \A u \in S : f[u] \in Int /\ g[u] = f[u]
  PROVE  Sum(f, S) = Sum(g, S)
<1> DEFINE P == {T \in SUBSET S : Sum(f, T) = Sum(g, T)}
<1>1. {} \in P
  BY SumOfNone
<1>2. ASSUME NEW T \in P, NEW x \in S \ T PROVE T \cup {x} \in P
  <2>1. Sum(f, T \cup {x}) = f[x] + Sum(f, T) /\ Sum(g, T \cup {x}) = g[x] + Sum(g, T)
    BY SumWith
  <2> QED
    BY <2>1
<1>3. P = SUBSET S
  <2> HIDE DEF P
  <2>1. P \in SUBSET (SUBSET S)
    BY DEF P
  <2> QED
    BY <1>1, <1>2, <2>1, AllSubsets
<1> QED
  BY <1>3

(* Smaller terms make smaller sums.                                           *)
LEMMA SumBelow ==
  ASSUME NEW S, IsFiniteSet(S), NEW f, NEW g, \A u \in S : f[u] \in Nat /\ g[u] \in Nat /\ f[u] <= g[u]
  PROVE  Sum(f, S) \in Nat /\ Sum(g, S) \in Nat /\ Sum(f, S) <= Sum(g, S)
<1> DEFINE P == {T \in SUBSET S : Sum(f, T) \in Nat /\ Sum(g, T) \in Nat /\ Sum(f, T) <= Sum(g, T)}
<1>1. {} \in P
  BY SumOfNone
<1>2. ASSUME NEW T \in P, NEW x \in S \ T PROVE T \cup {x} \in P
  <2>1. Sum(f, T \cup {x}) = f[x] + Sum(f, T) /\ Sum(g, T \cup {x}) = g[x] + Sum(g, T)
    BY SumWith
  <2>2. Sum(f, T) \in Nat /\ Sum(g, T) \in Nat /\ Sum(f, T) <= Sum(g, T)
    OBVIOUS
  <2>3. f[x] \in Nat /\ g[x] \in Nat /\ f[x] <= g[x]
    OBVIOUS
  <2> QED
    BY <2>1, <2>2, <2>3
<1>3. P = SUBSET S
  <2> HIDE DEF P
  <2>1. P \in SUBSET (SUBSET S)
    BY DEF P
  <2> QED
    BY <1>1, <1>2, <2>1, AllSubsets
<1> QED
  BY <1>3

(* So do terms below the sum of two.                                          *)
LEMMA SumBelowBoth ==
  ASSUME NEW S, IsFiniteSet(S), NEW f, NEW g, NEW h,
         \A u \in S : f[u] \in Nat /\ g[u] \in Nat /\ h[u] \in Nat /\ f[u] <= g[u] + h[u]
  PROVE  /\ Sum(f, S) \in Nat /\ Sum(g, S) \in Nat /\ Sum(h, S) \in Nat
         /\ Sum(f, S) <= Sum(g, S) + Sum(h, S)
<1> DEFINE P == {T \in SUBSET S : /\ Sum(f, T) \in Nat /\ Sum(g, T) \in Nat /\ Sum(h, T) \in Nat
                                 /\ Sum(f, T) <= Sum(g, T) + Sum(h, T)}
<1>1. {} \in P
  BY SumOfNone
<1>2. ASSUME NEW T \in P, NEW x \in S \ T PROVE T \cup {x} \in P
  <2>1. /\ Sum(f, T \cup {x}) = f[x] + Sum(f, T) /\ Sum(g, T \cup {x}) = g[x] + Sum(g, T)
        /\ Sum(h, T \cup {x}) = h[x] + Sum(h, T)
    BY SumWith
  <2>2. /\ Sum(f, T) \in Nat /\ Sum(g, T) \in Nat /\ Sum(h, T) \in Nat
        /\ Sum(f, T) <= Sum(g, T) + Sum(h, T)
    OBVIOUS
  <2>3. f[x] \in Nat /\ g[x] \in Nat /\ h[x] \in Nat /\ f[x] <= g[x] + h[x]
    OBVIOUS
  <2> QED
    BY <2>1, <2>2, <2>3
<1>3. P = SUBSET S
  <2> HIDE DEF P
  <2>1. P \in SUBSET (SUBSET S)
    BY DEF P
  <2> QED
    BY <1>1, <1>2, <2>1, AllSubsets
<1> QED
  BY <1>3

(* Sums of natural numbers are natural numbers.                               *)
LEMMA SumOfNats ==
  ASSUME NEW S, IsFiniteSet(S), NEW f, \A u \in S : f[u] \in Nat
  PROVE  \A T \in SUBSET S : Sum(f, T) \in Nat
<1>1. \A T \in SUBSET S : IsFiniteSet(T) /\ \A u \in T : f[u] \in Nat /\ f[u] <= f[u]
  BY FS_Subset
<1> QED
  BY <1>1, SumBelow

(* A set and its complement share the sum.                                    *)
LEMMA SumSplits ==
  ASSUME NEW S, IsFiniteSet(S), NEW f, \A u \in S : f[u] \in Int, NEW R \in SUBSET S
  PROVE  Sum(f, S) = Sum(f, R) + Sum(f, S \ R)
<1> DEFINE P == {T \in SUBSET (S \ R) : Sum(f, R \cup T) = Sum(f, R) + Sum(f, T)}
<1>0. IsFiniteSet(S \ R) /\ \A T \in SUBSET S : Sum(f, T) \in Int
  BY FS_Subset, SumTakes
<1>1. {} \in P
  <2>1. R \cup {} = R /\ Sum(f, {}) = 0 /\ Sum(f, R) \in Int
    BY <1>0, SumOfNone
  <2> QED
    BY <2>1
<1>2. ASSUME NEW T \in P, NEW x \in (S \ R) \ T PROVE T \cup {x} \in P
  <2>1. T \in SUBSET S /\ R \cup T \in SUBSET S /\ x \in S \ T /\ x \in S \ (R \cup T)
    OBVIOUS
  <2> DEFINE both == R \cup T
  <2>2. Sum(f, T \cup {x}) = f[x] + Sum(f, T) /\ Sum(f, both \cup {x}) = f[x] + Sum(f, both)
    <3>1. Sum(f, T \cup {x}) = f[x] + Sum(f, T)
      BY <2>1, SumWith
    <3>2. both \in SUBSET S /\ x \in S \ both
      BY <2>1
    <3> HIDE DEF both
    <3>3. Sum(f, both \cup {x}) = f[x] + Sum(f, both)
      BY <3>2, SumWith
    <3> QED
      BY <3>1, <3>3
  <2>3. Sum(f, R \cup T) = Sum(f, R) + Sum(f, T) /\ (R \cup T) \cup {x} = R \cup (T \cup {x})
    OBVIOUS
  <2>4. f[x] \in Int /\ Sum(f, R) \in Int /\ Sum(f, T) \in Int
    BY <1>0, <2>1
  <2>5. Sum(f, R \cup (T \cup {x})) = Sum(f, R) + Sum(f, T \cup {x})
    <3>1. both = R \cup T /\ both \cup {x} = R \cup (T \cup {x})
      BY <2>3
    <3> HIDE DEF both
    <3>2. Sum(f, R \cup (T \cup {x})) = f[x] + Sum(f, both)
      BY <2>2, <3>1
    <3>3. Sum(f, both) = Sum(f, R) + Sum(f, T)
      BY <2>3, <3>1
    <3>4. f[x] + (Sum(f, R) + Sum(f, T)) = Sum(f, R) + (f[x] + Sum(f, T))
      BY <2>4
    <3> QED
      BY <2>2, <3>2, <3>3, <3>4
  <2> QED
    BY <2>5
<1>3. P = SUBSET (S \ R)
  <2> HIDE DEF P
  <2>1. P \in SUBSET (SUBSET (S \ R))
    BY DEF P
  <2> QED
    BY <1>0, <1>1, <1>2, <2>1, AllSubsets
<1>4. R \cup (S \ R) = S
  OBVIOUS
<1> QED
  BY <1>3, <1>4

(* Zeros sum to zero.                                                         *)
LEMMA SumOfZeros ==
  ASSUME NEW S, IsFiniteSet(S), NEW f, \A u \in S : f[u] = 0
  PROVE  Sum(f, S) = 0
<1> DEFINE P == {T \in SUBSET S : Sum(f, T) = 0}
<1>1. {} \in P
  BY SumOfNone
<1>2. ASSUME NEW T \in P, NEW x \in S \ T PROVE T \cup {x} \in P
  <2>1. Sum(f, T \cup {x}) = f[x] + Sum(f, T)
    BY SumWith
  <2> QED
    BY <2>1
<1>3. P = SUBSET S
  <2> HIDE DEF P
  <2>1. P \in SUBSET (SUBSET S)
    BY DEF P
  <2> QED
    BY <1>1, <1>2, <2>1, AllSubsets
<1> QED
  BY <1>3

(* When one term changes, the sum changes by as much.                         *)
LEMMA SumChanges ==
  ASSUME NEW S, IsFiniteSet(S), NEW f, NEW g, NEW x \in S,
         \A u \in S : f[u] \in Int /\ g[u] \in Int, \A u \in S \ {x} : g[u] = f[u]
  PROVE  Sum(g, S) = Sum(f, S) - f[x] + g[x]
<1>1. Sum(f, S) = f[x] + Sum(f, S \ {x}) /\ Sum(g, S) = g[x] + Sum(g, S \ {x}) /\ Sum(f, S \ {x}) \in Int
  BY SumWithout
<1>2. IsFiniteSet(S \ {x})
  BY FS_RemoveElement
<1>3. Sum(g, S \ {x}) = Sum(f, S \ {x})
  BY <1>2, SumSame
<1> QED
  BY <1>1, <1>3

(***************************************************************************)
(* The invariant.                                                          *)
(***************************************************************************)
Running == {"streaming", "refreshing"}
Pending == {"stored", "projected"}
Billed == {r \in Calls : usage[r] = "billed"}

(* A call that is new has left no trace, one that runs has no usage yet, and  *)
(* the window is tagged with calls whose usage it holds.                      *)
Life ==
  /\ \A r \in Calls :
       /\ phase[r] = "new" => record[r] = 0 /\ deadline[r] = 0
       /\ phase[r] # "over" => usage[r] = "none" /\ cost[r] = 0
  /\ tagged \subseteq Window

(* An SDK stream that does not fail open goes on only with a hold.            *)
Streaming ==
  \A s \in Sessions :
    /\ sdk[s] = "new" => sdkHeld[s] = 0
    /\ ~FailOpen => sdk[s] # "unheld" /\ (sdk[s] = "held" => 0 < sdkHeld[s])

(* Until the wallet is configured again, held_usd is the sum of the holds.    *)
Accounts ==
  ~FailOpen /\ resets = 0
  => /\ held = Sum(record, Calls) + Sum(sdkHeld, Sessions)
     /\ spanHeld = Sum(record, InSpan)

(* If no hold was closed early, what a call may cost is on hold, but for its  *)
(* excess, ...                                                                *)
Pledged ==
  lapsed = {}
  => \A r \in Calls : /\ phase[r] \in Running => estimate[r] <= record[r]
                      /\ usage[r] \in Pending => cost[r] <= record[r] + excess[r]

(* ... and the balance covers the debt and the holds of the calls that are    *)
(* not billed, but for what billed calls took beyond theirs.                  *)
Covered ==
  ~FailOpen /\ resets = 0 /\ lapsed = {}
  => /\ debt <= Sum(excess, Billed)
     /\ Sum(record, Unbilled) + debt <= balance + Sum(excess, Billed)

(* The hold of a call that is read is refreshed, and its usage billed, in     *)
(* time, so no worker has it in its hands.                                    *)
OnTime(r) ==
  /\ phase[r] \in Running => now + Lease <= deadline[r] + RefreshGap /\ 0 < record[r]
  /\ usage[r] \in Pending => /\ now <= sentAt[r] + MaxDelay
                             /\ \/ /\ sentAt[r] + Lease <= deadline[r] + RefreshGap
                                   /\ 0 < record[r]
                                \/ deadline[r] = 0 /\ cost[r] = 0

Timely ==
  MaxDelay + RefreshGap < Lease
  => /\ \A r \in Calls \ Stalled : OnTime(r)
     /\ \A k \in Workers : \A r \in due[k] : phase[r] # "new" /\ r \notin Unbilled \ Stalled

Inv == TypeOK /\ Life /\ Streaming /\ Accounts /\ Pledged /\ Covered /\ Timely

(***************************************************************************)
(* The scripts.                                                            *)
(***************************************************************************)
LEMMA Finite ==
  /\ IsFiniteSet(Calls) /\ IsFiniteSet(Sessions) /\ IsFiniteSet(InSpan)
  /\ InSpan \in SUBSET Calls
  /\ \A S \in SUBSET Calls : IsFiniteSet(S)
<1>1. IsFiniteSet(Calls) /\ IsFiniteSet(Sessions) /\ InSpan \in SUBSET Calls
  BY ReservationAssumption
<1>2. \A S \in SUBSET Calls : IsFiniteSet(S)
  BY <1>1, FS_Subset
<1> QED
  BY <1>1, <1>2

(* What becomes zero is missing from the sum.                                 *)
LEMMA SumReleased ==
  ASSUME NEW V, IsFiniteSet(V), NEW S, NEW f, NEW g,
         \A u \in V : f[u] \in Nat /\ g[u] = IF u \in S THEN 0 ELSE f[u]
  PROVE  /\ Sum(g, V) = Sum(f, V) - Sum(f, V \cap S)
         /\ Sum(f, V \cap S) \in Nat /\ Sum(f, V) \in Nat /\ Sum(f, V \cap S) <= Sum(f, V)
<1> DEFINE in == V \cap S
           out == V \ in
<1>1. IsFiniteSet(in) /\ IsFiniteSet(out) /\ in \in SUBSET V /\ out \in SUBSET V
  BY FS_Subset
<1>2. (\A u \in V : f[u] \in Int /\ g[u] \in Int) /\ (\A u \in in : g[u] = 0) /\ (\A u \in out : g[u] = f[u])
  OBVIOUS
<1>3. Sum(f, in) \in Nat /\ Sum(f, out) \in Nat /\ Sum(f, V) \in Nat
  BY <1>1, SumOfNats
<1>4. Sum(f, V) = Sum(f, in) + Sum(f, out)
  BY <1>1, <1>2, SumSplits
<1>5. Sum(g, V) = Sum(g, in) + Sum(g, out)
  BY <1>1, <1>2, SumSplits
<1>6. Sum(g, in) = 0
  <2> HIDE DEF in
  <2> QED
    BY <1>1, <1>2, SumOfZeros
<1>7. Sum(f, out) = Sum(g, out)
  <2>1. \A u \in out : f[u] \in Int /\ g[u] = f[u]
    BY <1>1, <1>2
  <2> HIDE DEF out
  <2> QED
    BY <1>1, <2>1, SumSame
<1> HIDE DEF out
<1> QED
  BY <1>3, <1>4, <1>5, <1>6, <1>7

(* The hashes of a set of calls hold the sum of their amounts.                *)
LEMMA HeldIsSum ==
  ASSUME TypeOK, NEW S \in SUBSET Calls
  PROVE  HeldIn(S) = Sum(record, S) /\ HeldIn(S) \in Nat
<1> DEFINE in == S \cap Open
           out == S \ in
<1>1. IsFiniteSet(S) /\ IsFiniteSet(out) /\ in \in SUBSET S /\ out \in SUBSET S
  BY Finite
<1>2. \A u \in S : record[u] \in Nat /\ record[u] \in Int
  BY DEF TypeOK
<1>3. \A u \in out : record[u] = 0
  BY <1>2 DEF Open
<1>4. Sum(record, S) = Sum(record, in) + Sum(record, out)
  BY <1>1, <1>2, SumSplits
<1>5. Sum(record, in) \in Nat
  BY <1>1, <1>2, SumOfNats
<1>6. Sum(record, out) = 0
  <2> HIDE DEF out
  <2> QED
    BY <1>1, <1>3, SumOfZeros
<1>7. HeldIn(S) = Sum(record, in)
  BY DEF HeldIn, Sum
<1> HIDE DEF in, out
<1> QED
  BY <1>4, <1>5, <1>6, <1>7

(* What calls cost together is a sum over their costs.                        *)
LEMMA CostIsSum ==
  ASSUME TypeOK, NEW S \in SUBSET Calls
  PROVE  CostOf(S) = Sum(cost, S) /\ CostOf(S) \in Nat
<1>1. IsFiniteSet(S) /\ \A u \in S : cost[u] \in Nat
  BY Finite DEF TypeOK
<1>2. Sum(cost, S) \in Nat
  BY <1>1, SumOfNats
<1> QED
  BY <1>2 DEF CostOf, Sum

(* A release closes the holds of a set of calls; while wallet and span hold   *)
(* what the hashes say, it takes from each exactly its part.                  *)
LEMMA Releasing ==
  ASSUME TypeOK, NEW S \in SUBSET Calls, Release(S)
  PROVE  /\ held' \in Nat /\ spanHeld' \in Nat
         /\ record' \in [Calls -> Nat] /\ deadline' \in [Calls -> Nat]
         /\ \A r \in Calls : IF r \in S THEN record'[r] = 0 /\ deadline'[r] = 0
                             ELSE record'[r] = record[r] /\ deadline'[r] = deadline[r]
         /\ Sum(record, Calls) <= held /\ spanHeld = Sum(record, InSpan)
            => /\ held' + Sum(record, Calls) = held + Sum(record', Calls)
               /\ spanHeld' = Sum(record', InSpan)
<1> DEFINE inside == S \cap InSpan
           outside == S \ InSpan
<1>0. /\ held \in Nat /\ spanHeld \in Nat
      /\ record \in [Calls -> Nat] /\ deadline \in [Calls -> Nat]
  BY DEF TypeOK
<1>1. inside \in SUBSET Calls /\ outside \in SUBSET Calls /\ inside \in SUBSET S /\ outside = S \ inside
  OBVIOUS
<1>2. /\ HeldIn(S) = Sum(record, S) /\ HeldIn(S) \in Nat
      /\ HeldIn(inside) = Sum(record, inside) /\ HeldIn(inside) \in Nat
      /\ HeldIn(outside) = Sum(record, outside) /\ HeldIn(outside) \in Nat
  BY <1>1, HeldIsSum
<1>3. Sum(record, S) = Sum(record, inside) + Sum(record, outside)
  <2>1. IsFiniteSet(S) /\ \A u \in S : record[u] \in Int
    BY <1>0, Finite
  <2> HIDE DEF inside, outside
  <2>2. Sum(record, S) = Sum(record, inside) + Sum(record, S \ inside)
    BY <1>1, <2>1, SumSplits
  <2> QED
    BY <1>1, <2>2
<1>4. held' = held - Least(held, HeldIn(S))
  BY DEF Release
<1>5. PICK part \in 0 .. Least(Least(held, HeldIn(S)), HeldIn(inside)) :
        Least(held, HeldIn(S)) - part <= HeldIn(outside) /\ spanHeld' = spanHeld - Least(spanHeld, part)
  BY DEF Release, SpanPart
<1>6. /\ record' = [r \in Calls |-> IF r \in S THEN 0 ELSE record[r]]
      /\ deadline' = [r \in Calls |-> IF r \in S THEN 0 ELSE deadline[r]]
  BY DEF Release
<1> HIDE DEF inside, outside
<1>7. held' \in Nat
  BY <1>0, <1>2, <1>4 DEF Least
<1>8. part \in Nat /\ spanHeld' \in Nat
  BY <1>0, <1>2, <1>5 DEF Least
<1>9. record' \in [Calls -> Nat] /\ deadline' \in [Calls -> Nat]
  BY <1>0, <1>6
<1>10. \A r \in Calls : IF r \in S THEN record'[r] = 0 /\ deadline'[r] = 0
                        ELSE record'[r] = record[r] /\ deadline'[r] = deadline[r]
  BY <1>6
<1>11. \A V \in SUBSET Calls :
         /\ Sum(record', V) = Sum(record, V) - Sum(record, V \cap S)
         /\ Sum(record, V \cap S) \in Nat /\ Sum(record, V) \in Nat /\ Sum(record, V \cap S) <= Sum(record, V)
  <2> SUFFICES ASSUME NEW V \in SUBSET Calls
               PROVE  /\ Sum(record', V) = Sum(record, V) - Sum(record, V \cap S)
                      /\ Sum(record, V \cap S) \in Nat /\ Sum(record, V) \in Nat
                      /\ Sum(record, V \cap S) <= Sum(record, V)
    OBVIOUS
  <2>1. \A u \in V : record[u] \in Nat /\ record'[u] = IF u \in S THEN 0 ELSE record[u]
    BY <1>0, <1>6
  <2>2. IsFiniteSet(V)
    BY Finite
  <2> QED
    BY <2>1, <2>2, SumReleased
<1>12. ASSUME Sum(record, Calls) <= held, spanHeld = Sum(record, InSpan)
       PROVE  held' + Sum(record, Calls) = held + Sum(record', Calls) /\ spanHeld' = Sum(record', InSpan)
  <2>1. Calls \cap S = S /\ InSpan \cap S = inside
    BY DEF inside
  <2>2. Sum(record', Calls) = Sum(record, Calls) - Sum(record, S) /\ Sum(record, S) <= Sum(record, Calls)
        /\ Sum(record, Calls) \in Nat
    BY <1>11, <2>1
  <2>3. Sum(record', InSpan) = Sum(record, InSpan) - Sum(record, inside) /\ Sum(record, inside) <= Sum(record, InSpan)
        /\ Sum(record, InSpan) \in Nat
    BY <1>11, <2>1, Finite
  <2>4. Least(held, HeldIn(S)) = Sum(record, S)
    BY <1>0, <1>2, <1>12, <2>2 DEF Least
  <2>5. part = Sum(record, inside)
    <3>1. Least(Sum(record, S), Sum(record, inside)) = Sum(record, inside)
      BY <1>2, <1>3 DEF Least
    <3>2. part <= Sum(record, inside) /\ Sum(record, S) - part <= Sum(record, outside)
      BY <1>2, <1>5, <1>8, <2>4, <3>1
    <3> QED
      BY <1>2, <1>3, <1>8, <3>2
  <2>6. spanHeld' = spanHeld - Sum(record, inside)
    BY <1>2, <1>5, <1>12, <2>3, <2>5 DEF Least
  <2> QED
    BY <1>0, <1>2, <1>4, <1>12, <2>2, <2>3, <2>4, <2>6
<1> QED
  BY <1>7, <1>8, <1>9, <1>10, <1>12

(***************************************************************************)
(* Initial states, types.                                                  *)
(***************************************************************************)
LEMMA InvInit == Init => Inv
<1> SUFFICES ASSUME Init PROVE Inv
  OBVIOUS
<1>1. TypeOK
  BY ReservationAssumption DEF Init, TypeOK, Phases, Usages, Streams
<1>2. Life
  BY DEF Init, Life
<1>3. Streaming
  BY DEF Init, Streaming
<1>4. Accounts
  <2>1. Sum(record, Calls) = 0 /\ Sum(record, InSpan) = 0 /\ Sum(sdkHeld, Sessions) = 0
    <3>1. (\A r \in Calls : record[r] = 0) /\ (\A s \in Sessions : sdkHeld[s] = 0)
      BY DEF Init
    <3>2. \A r \in InSpan : record[r] = 0
      BY <3>1, Finite
    <3> QED
      BY <3>1, <3>2, Finite, SumOfZeros
  <2> QED
    BY <2>1 DEF Init, Accounts
<1>5. Pledged
  BY DEF Init, Pledged, Running, Pending
<1>6. Unbilled = {} /\ Billed = {}
  BY DEF Init, Unbilled, Billed
<1>7. Covered
  <2>1. Sum(record, Unbilled) = 0 /\ Sum(excess, Billed) = 0
    BY <1>6, SumOfNone
  <2>2. balance \in Nat /\ debt = 0
    BY ReservationAssumption DEF Init
  <2> QED
    BY <2>1, <2>2 DEF Covered
<1>8. Timely
  BY DEF Init, Timely, OnTime, Running, Pending
<1> QED
  BY <1>1, <1>2, <1>3, <1>4, <1>5, <1>7, <1>8 DEF Inv

(* Amounts are whole and not zero.                                            *)
LEMMA AmountsAre == \A a \in Amounts : a \in Nat /\ 0 < a
BY ReservationAssumption

(* The tags a window holds are calls of the window.                           *)
LEMMA TagsNowAre ==
  ASSUME Inv
  PROVE  TagsNow \in SUBSET Window /\ Window \in SUBSET Calls /\ TagsNow \in SUBSET Calls
BY DEF Inv, Life, TagsNow, Window

(* The steps of the gateway and its calls keep the types.                     *)
LEMMA CallTypes ==
  ASSUME Inv, NEW r \in Calls, (\E a \in Amounts : OpenHold(r, a) \/ Deny(r, a))
                               \/ RefreshCheck(r) \/ RefreshWrite(r) \/ CallEnds(r)
  PROVE  TypeOK'
<1>0. TypeOK
  BY DEF Inv
<1>1. ASSUME NEW a \in Amounts, OpenHold(r, a) PROVE TypeOK'
  <2>1. a \in Nat /\ now + Lease \in Nat
    BY <1>0, AmountsAre, ReservationAssumption DEF TypeOK
  <2>2. held' \in Nat /\ spanHeld' \in Nat
    BY <1>0, <1>1, <2>1 DEF OpenHold, TypeOK
  <2>3. record' \in [Calls -> Nat] /\ deadline' \in [Calls -> Nat] /\ estimate' \in [Calls -> Nat]
        /\ phase' \in [Calls -> Phases]
    BY <1>0, <1>1, <2>1 DEF OpenHold, TypeOK, Phases
  <2> QED
    BY <1>0, <1>1, <2>2, <2>3 DEF OpenHold, TypeOK, tags, events, stream
<1>2. ASSUME NEW a \in Amounts, Deny(r, a) PROVE TypeOK'
  BY <1>0, <1>2 DEF Deny, TypeOK, Phases, wallet, span, holds, tags, events, stream
<1>3. CASE RefreshCheck(r)
  BY <1>0, <1>3 DEF RefreshCheck, TypeOK, Phases, wallet, span, holds, tags, events, stream
<1>4. CASE RefreshWrite(r)
  <2>1. now + Lease \in Nat
    BY <1>0, ReservationAssumption DEF TypeOK
  <2> QED
    BY <1>0, <1>4, <2>1 DEF RefreshWrite, TypeOK, Phases, wallet, span, tags, events, stream
<1>5. CASE UpstreamFails(r)
  <2>1. held' \in Nat /\ spanHeld' \in Nat /\ record' \in [Calls -> Nat] /\ deadline' \in [Calls -> Nat]
    BY <1>0, <1>5, Releasing DEF UpstreamFails
  <2> QED
    BY <1>0, <1>5, <2>1 DEF UpstreamFails, TypeOK, Phases, tags, events, stream
<1>s. CASE SettleRaises(r)
  <2>1. held' \in Nat /\ spanHeld' \in Nat /\ record' \in [Calls -> Nat] /\ deadline' \in [Calls -> Nat]
    BY <1>0, <1>s, Releasing DEF SettleRaises
  <2> QED
    BY <1>0, <1>s, <2>1 DEF SettleRaises, TypeOK, Phases, Usages, tags, stream
<1>6. ASSUME NEW c \in Costs, Finish(r, c) PROVE TypeOK'
  <2>1. c \in Nat /\ c - Least(c, estimate[r]) \in Nat
    <3>1. c \in Nat /\ estimate[r] \in Nat
      BY <1>0, ReservationAssumption DEF TypeOK
    <3> QED
      BY <3>1 DEF Least
  <2> QED
    BY <1>0, <1>6, <2>1 DEF Finish, TypeOK, Phases, Usages, wallet, span, holds, tags, stream
<1>7. CASE Abandon(r)
  BY <1>0, <1>7 DEF Abandon, TypeOK, Phases, wallet, span, holds, tags, events, stream
<1> QED
  BY <1>1, <1>2, <1>3, <1>4, <1>5, <1>s, <1>6, <1>7 DEF CallEnds

(* So do the steps of the metering job.                                       *)
LEMMA EngineTypes ==
  ASSUME Inv, EngineStep
  PROVE  TypeOK'
<1>0. TypeOK
  BY DEF Inv
<1>1. ASSUME NEW r \in Calls, Project(r) PROVE TypeOK'
  <2>1. now + TagTTL \in Nat /\ TagsNow \in SUBSET Calls
    BY <1>0, TagsNowAre, ReservationAssumption DEF TypeOK
  <2> QED
    BY <1>0, <1>1, <2>1 DEF Project, TypeOK, Usages, wallet, span, holds, calls, stream
<1>2. CASE WindowFires
  <2>1. held' \in Nat /\ spanHeld' \in Nat /\ record' \in [Calls -> Nat] /\ deadline' \in [Calls -> Nat]
    BY <1>0, <1>2, TagsNowAre, Releasing DEF WindowFires
  <2>2. CostOf(Window) \in Nat
    BY <1>0, TagsNowAre, CostIsSum
  <2>3. balance' \in Nat /\ debt' \in Nat
    <3>1. balance \in Nat /\ debt \in Nat
      BY <1>0 DEF TypeOK
    <3>2. /\ balance' = balance - Least(balance, CostOf(Window))
          /\ debt' = debt + (CostOf(Window) - Least(balance, CostOf(Window)))
      BY <1>2 DEF WindowFires
    <3> QED
      BY <2>2, <3>1, <3>2 DEF Least
  <2>4. usage' \in [Calls -> Usages] /\ sentAt' \in [Calls -> Nat]
    BY <1>0, <1>2 DEF WindowFires, TypeOK, Usages
  <2> QED
    BY <1>0, <1>2, <2>1, <2>3, <2>4 DEF WindowFires, TypeOK, stream
<1>3. CASE SpanFires
  <2>1. CostOf(session) \in Nat
    BY <1>0, CostIsSum DEF TypeOK
  <2> QED
    BY <1>0, <1>3, <2>1 DEF SpanFires, TypeOK, wallet, holds, tags, calls, stream
<1> QED
  BY <1>1, <1>2, <1>3 DEF EngineStep

(* So do the releasing workers, the SDK, the endpoint and the clock.          *)
LEMMA OtherTypes ==
  ASSUME Inv,
         \/ \E k \in Workers : WorkerStep(k)
         \/ \E s \in Sessions : SdkStep(s)
         \/ Configure \/ Tick
  PROVE  TypeOK'
<1>0. TypeOK
  BY DEF Inv
<1>1. ASSUME NEW k \in Workers, ReadDue(k) PROVE TypeOK'
  <2>1. Expired \in SUBSET Calls
    BY DEF Expired
  <2> QED
    BY <1>0, <1>1, <2>1 DEF ReadDue, TypeOK, wallet, span, holds, tags, calls, events, stream
<1>2. ASSUME NEW k \in Workers, NEW r \in Calls, CloseDue(k, r) PROVE TypeOK'
  <2>1. held' \in Nat /\ spanHeld' \in Nat /\ record' \in [Calls -> Nat] /\ deadline' \in [Calls -> Nat]
    BY <1>0, <1>2, Releasing DEF CloseDue
  <2>2. due' \in [Workers -> SUBSET Calls] /\ lapsed' \subseteq Calls
    BY <1>0, <1>2 DEF CloseDue, TypeOK
  <2> QED
    BY <1>0, <1>2, <2>1, <2>2 DEF CloseDue, TypeOK, tags, calls, stream
<1>3. ASSUME NEW s \in Sessions, NEW a \in Amounts, SdkReserve(s, a) PROVE TypeOK'
  <2>1. a \in Nat
    BY AmountsAre
  <2> QED
    BY <1>0, <1>3, <2>1 DEF SdkReserve, TypeOK, Streams, span, holds, tags, calls, events
<1>4. ASSUME NEW s \in Sessions, NEW a \in Amounts, SdkReconcile(s, a) PROVE TypeOK'
  <2>1. a \in Nat /\ held \in Nat
    BY <1>0, AmountsAre DEF TypeOK
  <2>2. held' \in Nat
    BY <1>4, <2>1 DEF SdkReconcile, Least
  <2> QED
    BY <1>0, <1>4, <2>2 DEF SdkReconcile, TypeOK, Streams, span, holds, tags, calls, events
<1>5. ASSUME NEW s \in Sessions, SdkUnreserved(s) \/ SdkForgets(s) PROVE TypeOK'
  BY <1>0, <1>5 DEF SdkUnreserved, SdkForgets, TypeOK, Streams, wallet, span, holds, tags, calls, events
<1>6. CASE Configure
  BY <1>0, <1>6, ReservationAssumption DEF Configure, TypeOK, span, holds, tags, calls, events, stream
<1>7. CASE Tick
  BY <1>0, <1>7 DEF Tick, TypeOK, wallet, span, holds, tags, calls, events, stream
<1> QED
  BY <1>1, <1>2, <1>3, <1>4, <1>5, <1>6, <1>7 DEF WorkerStep, SdkStep

(* Every amount stays a natural number.                                       *)
LEMMA TypesStep ==
  ASSUME Inv, Next
  PROVE  TypeOK'
BY CallTypes, EngineTypes, OtherTypes DEF Next

(***************************************************************************)
(* The life of a call and of an SDK stream.                                *)
(***************************************************************************)
\* What the life of the calls depends on.
LifeVars == <<record, deadline, phase, usage, cost, tagged>>

(* A call keeps to its life: hold, answer, event, bill.                       *)
LEMMA LifeStep ==
  ASSUME Inv, Next
  PROVE  Life'
<1>0. /\ record \in [Calls -> Nat] /\ deadline \in [Calls -> Nat]
      /\ phase \in [Calls -> Phases] /\ usage \in [Calls -> Usages]
      /\ cost \in [Calls -> Nat]
  BY DEF Inv, TypeOK
<1>1. /\ \A r \in Calls : phase[r] = "new" => record[r] = 0 /\ deadline[r] = 0
      /\ \A r \in Calls : phase[r] # "over" => usage[r] = "none" /\ cost[r] = 0
      /\ \A r \in tagged : r \in Calls /\ usage[r] = "projected"
  BY DEF Inv, Life, Window
<1>2. CASE UNCHANGED LifeVars
  BY <1>1, <1>2 DEF LifeVars, Life, Window
<1>3. ASSUME NEW r \in Calls, NEW a \in Amounts, OpenHold(r, a) PROVE Life'
  <2>1. \A q \in Calls : q # r => record'[q] = record[q] /\ deadline'[q] = deadline[q] /\ phase'[q] = phase[q]
    BY <1>0, <1>3 DEF OpenHold
  <2>2. phase[r] = "new" /\ phase'[r] = "streaming" /\ UNCHANGED <<usage, cost, tagged>>
    BY <1>0, <1>3 DEF OpenHold, tags, events
  <2> QED
    BY <1>1, <2>1, <2>2 DEF Life, Window
<1>4. ASSUME NEW r \in Calls, NEW a \in Amounts, Deny(r, a) PROVE Life'
  <2>1. \A q \in Calls : q # r => phase'[q] = phase[q]
    BY <1>0, <1>4 DEF Deny
  <2>2. phase'[r] = "over" /\ UNCHANGED <<record, deadline, usage, cost, tagged>>
    BY <1>0, <1>4 DEF Deny, tags, events, holds
  <2> QED
    BY <1>1, <2>1, <2>2 DEF Life, Window
<1>5. ASSUME NEW r \in Calls, RefreshCheck(r) \/ RefreshWrite(r) PROVE Life'
  <2>1. \A q \in Calls : q # r => deadline'[q] = deadline[q] /\ phase'[q] = phase[q]
    BY <1>0, <1>5 DEF RefreshCheck, RefreshWrite, holds
  <2>2. /\ phase[r] \in {"streaming", "refreshing"} /\ phase'[r] \in {"streaming", "refreshing"}
        /\ UNCHANGED <<record, usage, cost, tagged>>
    BY <1>0, <1>5 DEF RefreshCheck, RefreshWrite, tags, events, holds
  <2> QED
    BY <1>1, <2>1, <2>2 DEF Life, Window
<1>6. ASSUME NEW r \in Calls, UpstreamFails(r) PROVE Life'
  <2>1. \A q \in Calls : IF q \in {r} THEN record'[q] = 0 /\ deadline'[q] = 0
                         ELSE record'[q] = record[q] /\ deadline'[q] = deadline[q]
    BY <1>6, Releasing DEF Inv, UpstreamFails
  <2>2. phase'[r] = "over" /\ (\A q \in Calls : q # r => phase'[q] = phase[q]) /\ UNCHANGED <<usage, cost, tagged>>
    BY <1>0, <1>6 DEF UpstreamFails, tags, events
  <2> QED
    BY <1>1, <2>1, <2>2 DEF Life, Window
<1>s. ASSUME NEW r \in Calls, SettleRaises(r) PROVE Life'
  <2>1. \A q \in Calls : IF q \in {r} THEN record'[q] = 0 /\ deadline'[q] = 0
                         ELSE record'[q] = record[q] /\ deadline'[q] = deadline[q]
    BY <1>s, Releasing DEF Inv, SettleRaises
  <2>2. /\ phase[r] = "streaming" /\ phase'[r] = "over" /\ UNCHANGED <<cost, tagged>>
        /\ \A q \in Calls : q # r => phase'[q] = phase[q] /\ usage'[q] = usage[q]
    BY <1>0, <1>s DEF SettleRaises, tags
  <2> QED
    BY <1>1, <2>1, <2>2 DEF Life, Window
<1>7. ASSUME NEW r \in Calls, NEW c \in Costs, Finish(r, c) PROVE Life'
  <2>1. \A q \in Calls : q # r => usage'[q] = usage[q] /\ phase'[q] = phase[q] /\ cost'[q] = cost[q]
    BY <1>0, <1>7 DEF Finish
  <2>2. phase[r] = "streaming" /\ phase'[r] = "over" /\ UNCHANGED <<record, deadline, tagged>>
    BY <1>0, <1>7 DEF Finish, tags, holds
  <2> QED
    BY <1>1, <2>1, <2>2 DEF Life, Window
<1>8. ASSUME NEW r \in Calls, Abandon(r) PROVE Life'
  <2>1. \A q \in Calls : q # r => phase'[q] = phase[q]
    BY <1>0, <1>8 DEF Abandon
  <2>2. phase'[r] = "over" /\ UNCHANGED <<record, deadline, usage, cost, tagged>>
    BY <1>0, <1>8 DEF Abandon, tags, events, holds
  <2> QED
    BY <1>1, <2>1, <2>2 DEF Life, Window
<1>9. ASSUME NEW r \in Calls, Project(r) PROVE Life'
  <2>1. \A q \in Calls : q # r => usage'[q] = usage[q]
    BY <1>0, <1>9 DEF Project
  <2>2. usage[r] = "stored" /\ usage'[r] = "projected" /\ UNCHANGED <<record, deadline, phase, cost>>
    BY <1>0, <1>9 DEF Project, calls, holds
  <2>3. tagged' \subseteq tagged \cup {r}
    BY <1>9 DEF Project, TagsNow
  <2> QED
    BY <1>1, <2>1, <2>2, <2>3 DEF Life, Window
<1>10. CASE WindowFires
  <2>1. \A q \in Calls : \/ record'[q] = record[q] /\ deadline'[q] = deadline[q]
                         \/ record'[q] = 0 /\ deadline'[q] = 0
    BY <1>10, TagsNowAre, Releasing DEF Inv, WindowFires
  <2>2. tagged' = {} /\ phase' = phase /\ cost' = cost /\ \A q \in Calls : usage[q] = "none" => usage'[q] = "none"
    BY <1>10 DEF WindowFires, Window
  <2> QED
    BY <1>1, <2>1, <2>2 DEF Life
<1>11. ASSUME NEW k \in Workers, NEW r \in Calls, CloseDue(k, r) PROVE Life'
  <2>1. \A q \in Calls : IF q \in {r} THEN record'[q] = 0 /\ deadline'[q] = 0
                         ELSE record'[q] = record[q] /\ deadline'[q] = deadline[q]
    BY <1>11, Releasing DEF Inv, CloseDue
  <2>2. UNCHANGED <<phase, usage, cost, tagged>>
    BY <1>11 DEF CloseDue, tags, calls
  <2> QED
    BY <1>1, <2>1, <2>2 DEF Life, Window
<1>12. ASSUME SpanFires \/ Configure \/ Tick PROVE UNCHANGED LifeVars
  BY <1>12 DEF SpanFires, Configure, Tick, LifeVars, holds, tags, calls, events
<1>13. ASSUME NEW k \in Workers, ReadDue(k) PROVE UNCHANGED LifeVars
  BY <1>13 DEF ReadDue, LifeVars, holds, tags, calls, events
<1>14. ASSUME NEW s \in Sessions, SdkStep(s) PROVE UNCHANGED LifeVars
  BY <1>14 DEF SdkStep, SdkReserve, SdkReconcile, SdkUnreserved, SdkForgets, LifeVars, holds, tags, calls, events
<1> QED
  BY <1>2, <1>3, <1>4, <1>5, <1>6, <1>s, <1>7, <1>8, <1>9, <1>10, <1>11, <1>12, <1>13, <1>14
     DEF Next, CallEnds, EngineStep, WorkerStep

(* An SDK stream holds what it says it holds.                                 *)
LEMMA StreamingStep ==
  ASSUME Inv, Next
  PROVE  Streaming'
<1>0. sdk \in [Sessions -> Streams] /\ sdkHeld \in [Sessions -> Nat]
  BY DEF Inv, TypeOK
<1>1. \A s \in Sessions :
        /\ sdk[s] = "new" => sdkHeld[s] = 0
        /\ ~FailOpen => sdk[s] # "unheld" /\ (sdk[s] = "held" => 0 < sdkHeld[s])
  BY DEF Inv, Streaming
<1>2. CASE UNCHANGED stream
  BY <1>1, <1>2 DEF stream, Streaming
<1>3. ASSUME NEW s \in Sessions, SdkStep(s) PROVE Streaming'
  <2>1. \A t \in Sessions : t # s => sdk'[t] = sdk[t] /\ sdkHeld'[t] = sdkHeld[t]
    BY <1>0, <1>3 DEF SdkStep, SdkReserve, SdkReconcile, SdkUnreserved, SdkForgets
  <2>2. /\ sdk'[s] # "new"
        /\ ~FailOpen => sdk'[s] # "unheld" /\ (sdk'[s] = "held" => 0 < sdkHeld'[s])
    <3>1. ASSUME NEW a \in Amounts, SdkReserve(s, a)
          PROVE  sdkHeld'[s] = a /\ 0 < a /\ (sdk'[s] = "held" \/ sdk'[s] = IF FailOpen THEN "unheld" ELSE "over")
      BY <1>0, <3>1, AmountsAre DEF SdkReserve
    <3>2. ASSUME NEW a \in Amounts, SdkReconcile(s, a) PROVE sdk'[s] = "over"
      BY <1>0, <3>2 DEF SdkReconcile
    <3>3. ASSUME SdkForgets(s) PROVE sdk'[s] = "over"
      BY <1>0, <3>3 DEF SdkForgets
    <3>4. ASSUME SdkUnreserved(s) PROVE sdk'[s] = IF FailOpen THEN "unheld" ELSE "over"
      BY <1>0, <3>4 DEF SdkUnreserved
    <3> QED
      BY <1>3, <3>1, <3>2, <3>3, <3>4 DEF SdkStep
  <2> QED
    BY <1>1, <2>1, <2>2 DEF Streaming
<1>4. ASSUME NEW r \in Calls, NEW a \in Amounts, OpenHold(r, a) \/ Deny(r, a) PROVE UNCHANGED stream
  BY <1>4 DEF OpenHold, Deny
<1>5. ASSUME NEW r \in Calls, RefreshCheck(r) \/ RefreshWrite(r) \/ CallEnds(r) PROVE UNCHANGED stream
  BY <1>5 DEF RefreshCheck, RefreshWrite, CallEnds, UpstreamFails, SettleRaises, Abandon, Finish
<1>6. ASSUME EngineStep PROVE UNCHANGED stream
  BY <1>6 DEF EngineStep, Project, WindowFires, SpanFires
<1>7. ASSUME NEW k \in Workers, WorkerStep(k) PROVE UNCHANGED stream
  BY <1>7 DEF WorkerStep, ReadDue, CloseDue
<1>8. ASSUME Configure \/ Tick PROVE UNCHANGED stream
  BY <1>8 DEF Configure, Tick
<1> QED
  BY <1>2, <1>3, <1>4, <1>5, <1>6, <1>7, <1>8 DEF Next

(***************************************************************************)
(* The account of the holds.                                               *)
(***************************************************************************)
LEMMA Totals ==
  ASSUME TypeOK
  PROVE  /\ \A S \in SUBSET Calls : Sum(record, S) \in Nat /\ Sum(record, S) <= Sum(record, Calls)
         /\ Sum(sdkHeld, Sessions) \in Nat
         /\ \A s \in Sessions : sdkHeld[s] <= Sum(sdkHeld, Sessions)
<1>1. (\A r \in Calls : record[r] \in Nat) /\ (\A s \in Sessions : sdkHeld[s] \in Nat)
  BY DEF TypeOK
<1>2. \A S \in SUBSET Calls : Sum(record, S) \in Nat
  BY <1>1, Finite, SumOfNats
<1>3. ASSUME NEW S \in SUBSET Calls PROVE Sum(record, S) <= Sum(record, Calls)
  <2>1. Sum(record, Calls) = Sum(record, S) + Sum(record, Calls \ S)
    BY <1>1, Finite, SumSplits
  <2>2. Sum(record, Calls) \in Nat /\ Sum(record, S) \in Nat /\ Sum(record, Calls \ S) \in Nat
    BY <1>2
  <2> QED
    BY <2>1, <2>2
<1>4. \A S \in SUBSET Sessions : Sum(sdkHeld, S) \in Nat
  BY <1>1, Finite, SumOfNats
<1>5. ASSUME NEW s \in Sessions PROVE sdkHeld[s] <= Sum(sdkHeld, Sessions)
  <2>1. Sum(sdkHeld, Sessions) = sdkHeld[s] + Sum(sdkHeld, Sessions \ {s})
    BY <1>1, Finite, SumWithout
  <2>2. Sum(sdkHeld, Sessions \ {s}) \in Nat /\ sdkHeld[s] \in Nat
    BY <1>1, <1>4
  <2> QED
    BY <2>1, <2>2
<1> QED
  BY <1>2, <1>3, <1>4, <1>5

(* A new hold is one summand more, of the calls and of its span.              *)
LEMMA OpenSums ==
  ASSUME Inv, NEW r \in Calls, NEW a \in Amounts, OpenHold(r, a)
  PROVE  /\ Sum(record', Calls) = Sum(record, Calls) + a
         /\ Sum(record', InSpan) = IF r \in InSpan THEN Sum(record, InSpan) + a ELSE Sum(record, InSpan)
         /\ Sum(record', Unbilled') = Sum(record, Unbilled) + a
<1>0. record \in [Calls -> Nat] /\ phase \in [Calls -> Phases] /\ a \in Nat
  BY AmountsAre DEF Inv, TypeOK
<1>1. record[r] = 0 /\ usage[r] = "none" /\ phase[r] = "new"
  BY DEF Inv, Life, OpenHold
<1>2. record' = [record EXCEPT ![r] = a] /\ phase' = [phase EXCEPT ![r] = "streaming"] /\ usage' = usage
  BY DEF OpenHold, events
<1>3. record'[r] = a /\ \A q \in Calls : record'[q] \in Int /\ record[q] \in Int /\ (q # r => record'[q] = record[q])
  BY <1>0, <1>2
<1>4. Sum(record', Calls) = Sum(record, Calls) - record[r] + record'[r]
  <2>1. IsFiniteSet(Calls) /\ (\A q \in Calls : record[q] \in Int /\ record'[q] \in Int)
        /\ (\A q \in Calls \ {r} : record'[q] = record[q]) /\ r \in Calls
    BY <1>3, Finite
  <2>2. \A f, g :
          /\ \A q \in Calls : f[q] \in Int /\ g[q] \in Int
          /\ \A q \in Calls \ {r} : g[q] = f[q]
          => Sum(g, Calls) = Sum(f, Calls) - f[r] + g[r]
    BY Finite, SumChanges
  <2> QED
    BY <2>1, <2>2
<1>5. Sum(record, Calls) \in Nat /\ Sum(record, InSpan) \in Nat /\ Sum(record, Unbilled) \in Nat
  BY Totals, Finite DEF Inv, Unbilled
<1>6. ASSUME r \in InSpan PROVE Sum(record', InSpan) = Sum(record, InSpan) - record[r] + record'[r]
  BY <1>3, <1>6, Finite, SumChanges
<1>7. ASSUME r \notin InSpan PROVE Sum(record, InSpan) = Sum(record', InSpan)
  BY <1>3, <1>7, Finite, SumSame
<1>8. Unbilled' = Unbilled \cup {r} /\ r \notin Unbilled /\ Unbilled \in SUBSET Calls
  BY <1>0, <1>1, <1>2 DEF Unbilled
<1>9. Sum(record', Unbilled') = record'[r] + Sum(record', Unbilled)
  <2>1. r \in Calls \ Unbilled
    BY <1>8
  <2> QED
    BY <1>3, <1>8, <2>1, Finite, SumWith
<1>10. Sum(record, Unbilled) = Sum(record', Unbilled)
  <2>1. \A q \in Unbilled : record[q] \in Int /\ record'[q] = record[q]
    BY <1>3, <1>8
  <2> QED
    BY <1>8, <2>1, Finite, SumSame
<1> QED
  BY <1>0, <1>1, <1>3, <1>4, <1>5, <1>6, <1>7, <1>9, <1>10

(* Neither opening, nor releasing, nor the reservations of SDK streams part   *)
(* held_usd from the holds.                                                   *)
LEMMA AccountsStep ==
  ASSUME Inv, Next
  PROVE  Accounts'
<1> SUFFICES ASSUME ~FailOpen, resets' = 0
             PROVE  held' = Sum(record', Calls) + Sum(sdkHeld', Sessions) /\ spanHeld' = Sum(record', InSpan)
  BY DEF Accounts
<1>0. /\ held \in Nat /\ spanHeld \in Nat /\ resets \in Nat
      /\ sdkHeld \in [Sessions -> Nat] /\ sdk \in [Sessions -> Streams]
  BY DEF Inv, TypeOK
<1>1. resets = 0
  <2>1. resets' = resets \/ Configure
    BY DEF Next, OpenHold, Deny, RefreshCheck, RefreshWrite, CallEnds, UpstreamFails, SettleRaises, Abandon, Finish,
           EngineStep, Project, WindowFires, SpanFires, WorkerStep, ReadDue, CloseDue,
           SdkStep, SdkReserve, SdkReconcile, SdkUnreserved, SdkForgets, Tick
  <2>2. Configure => resets' = resets + 1
    BY DEF Configure
  <2> QED
    BY <1>0, <2>1, <2>2
<1>2. held = Sum(record, Calls) + Sum(sdkHeld, Sessions) /\ spanHeld = Sum(record, InSpan)
  BY <1>1 DEF Inv, Accounts
<1>3. /\ Sum(record, Calls) \in Nat /\ Sum(record, InSpan) \in Nat /\ Sum(sdkHeld, Sessions) \in Nat
      /\ \A s \in Sessions : sdkHeld[s] <= Sum(sdkHeld, Sessions)
  BY Totals, Finite DEF Inv
<1> DEFINE Goal == held' = Sum(record', Calls) + Sum(sdkHeld', Sessions) /\ spanHeld' = Sum(record', InSpan)
<1>4. ASSUME UNCHANGED <<held, spanHeld, record, sdkHeld>> PROVE Goal
  BY <1>2, <1>4
<1>5. ASSUME NEW r \in Calls, NEW a \in Amounts, OpenHold(r, a) PROVE Goal
  <2>1. a \in Nat /\ held' = held + a /\ sdkHeld' = sdkHeld
        /\ spanHeld' = IF r \in InSpan THEN spanHeld + a ELSE spanHeld
    BY <1>5, AmountsAre DEF OpenHold, stream
  <2>2. /\ Sum(record', Calls) = Sum(record, Calls) + a
        /\ Sum(record', InSpan) = IF r \in InSpan THEN Sum(record, InSpan) + a ELSE Sum(record, InSpan)
    BY <1>5, OpenSums
  <2> QED
    BY <1>2, <1>3, <2>1, <2>2
<1>6. ASSUME NEW S \in SUBSET Calls, Release(S), sdkHeld' = sdkHeld PROVE Goal
  <2>1. Sum(record, Calls) <= held
    BY <1>2, <1>3
  <2>2. held' \in Nat /\ record' \in [Calls -> Nat]
        /\ held' + Sum(record, Calls) = held + Sum(record', Calls) /\ spanHeld' = Sum(record', InSpan)
    BY <1>2, <1>6, <2>1, Releasing DEF Inv
  <2>3. Sum(record', Calls) \in Nat
    <3>1. \A r \in Calls : record'[r] \in Nat
      BY <2>2
    <3> QED
      BY <3>1, Finite, SumOfNats
  <2> QED
    BY <1>0, <1>2, <1>3, <1>6, <2>2, <2>3
<1>7. ASSUME NEW s \in Sessions, NEW a \in Amounts, SdkReserve(s, a) PROVE Goal
  <2>1. a \in Nat /\ held' = held + a /\ UNCHANGED <<spanHeld, record>> /\ sdkHeld[s] = 0
    BY <1>7, AmountsAre DEF SdkReserve, span, holds, Inv, Streaming
  <2>2. sdkHeld'[s] = a /\ \A t \in Sessions : sdkHeld'[t] \in Int /\ sdkHeld[t] \in Int /\ (t # s => sdkHeld'[t] = sdkHeld[t])
    BY <1>0, <1>7, <2>1 DEF SdkReserve
  <2>3. Sum(sdkHeld', Sessions) = Sum(sdkHeld, Sessions) - sdkHeld[s] + sdkHeld'[s]
    BY <2>2, Finite, SumChanges
  <2> QED
    BY <1>2, <1>3, <2>1, <2>2, <2>3
<1>8. ASSUME NEW s \in Sessions, NEW a \in Amounts, SdkReconcile(s, a) PROVE Goal
  <2>1. 0 < sdkHeld[s] /\ a = sdkHeld[s]
    BY <1>8 DEF SdkReconcile, Inv, Streaming
  <2>2. held' = held - Least(held, a) /\ UNCHANGED <<spanHeld, record>>
    BY <1>8 DEF SdkReconcile, span, holds
  <2>3. sdkHeld'[s] = 0 /\ \A t \in Sessions : sdkHeld'[t] \in Int /\ sdkHeld[t] \in Int /\ (t # s => sdkHeld'[t] = sdkHeld[t])
    BY <1>0, <1>8 DEF SdkReconcile
  <2>4. Sum(sdkHeld', Sessions) = Sum(sdkHeld, Sessions) - sdkHeld[s] + sdkHeld'[s]
    BY <2>3, Finite, SumChanges
  <2>5. sdkHeld[s] \in Nat /\ sdkHeld[s] <= Sum(sdkHeld, Sessions)
    BY <1>0, <1>3
  <2>6. held' = held - sdkHeld[s]
    BY <1>0, <1>2, <1>3, <2>1, <2>2, <2>5 DEF Least
  <2> QED
    BY <1>2, <1>3, <2>2, <2>3, <2>4, <2>5, <2>6
<1>9. ASSUME NEW s \in Sessions, SdkUnreserved(s) \/ SdkForgets(s) PROVE Goal
  BY <1>4, <1>9 DEF SdkUnreserved, SdkForgets, wallet, span, holds
<1>10. ASSUME NEW r \in Calls, UpstreamFails(r) PROVE Goal
  BY <1>6, <1>10 DEF UpstreamFails, stream
<1>s. ASSUME NEW r \in Calls, SettleRaises(r) PROVE Goal
  BY <1>6, <1>s DEF SettleRaises, stream
<1>11. ASSUME WindowFires PROVE Goal
  BY <1>6, <1>11, TagsNowAre DEF WindowFires, stream
<1>12. ASSUME NEW k \in Workers, NEW r \in Calls, CloseDue(k, r) PROVE Goal
  BY <1>6, <1>12 DEF CloseDue, stream
<1>13. ASSUME Configure PROVE Goal
  BY <1>0, <1>1, <1>13 DEF Configure
<1>14. ASSUME NEW r \in Calls, NEW a \in Amounts, Deny(r, a) PROVE Goal
  BY <1>4, <1>14 DEF Deny, wallet, span, holds, stream
<1>15. ASSUME NEW r \in Calls, NEW c \in Costs, Finish(r, c) PROVE Goal
  BY <1>4, <1>15 DEF Finish, wallet, span, holds, stream
<1>16. ASSUME NEW r \in Calls, RefreshCheck(r) \/ RefreshWrite(r) \/ Abandon(r) \/ Project(r) PROVE Goal
  BY <1>4, <1>16 DEF RefreshCheck, RefreshWrite, Abandon, Project, wallet, span, holds, stream
<1>17. ASSUME SpanFires \/ Tick PROVE Goal
  BY <1>4, <1>17 DEF SpanFires, Tick, wallet, span, holds, stream
<1>18. ASSUME NEW k \in Workers, ReadDue(k) PROVE Goal
  BY <1>4, <1>18 DEF ReadDue, wallet, span, holds, stream
<1> HIDE DEF Goal
<1>19. ASSUME NEW r \in Calls,
              (\E a \in Amounts : OpenHold(r, a) \/ Deny(r, a)) \/ RefreshCheck(r) \/ RefreshWrite(r) \/ CallEnds(r)
       PROVE  Goal
  BY <1>5, <1>10, <1>s, <1>14, <1>15, <1>16, <1>19 DEF CallEnds
<1>20. ASSUME EngineStep PROVE Goal
  BY <1>11, <1>16, <1>17, <1>20 DEF EngineStep
<1>21. ASSUME NEW k \in Workers, WorkerStep(k) PROVE Goal
  BY <1>12, <1>18, <1>21 DEF WorkerStep
<1>22. ASSUME NEW s \in Sessions, SdkStep(s) PROVE Goal
  BY <1>7, <1>8, <1>9, <1>22 DEF SdkStep
<1>23. Goal
  BY <1>13, <1>17, <1>19, <1>20, <1>21, <1>22 DEF Next
<1> QED
  BY <1>23 DEF Goal

(***************************************************************************)
(* What is on hold covers what a call may cost.                            *)
(***************************************************************************)
\* What the pledges depend on.
PledgeVars == <<record, estimate, phase, usage, cost, excess, lapsed>>

(* While no hold lapsed, an unbilled call has its estimate pledged, or what it *)
(* cost of it.                                                                *)
LEMMA PledgedStep ==
  ASSUME Inv, Next
  PROVE  Pledged'
<1>0. /\ record \in [Calls -> Nat] /\ estimate \in [Calls -> Nat] /\ cost \in [Calls -> Nat]
      /\ excess \in [Calls -> Nat]
      /\ phase \in [Calls -> Phases] /\ usage \in [Calls -> Usages]
  BY DEF Inv, TypeOK
<1>1. lapsed = {} => \A r \in Calls : /\ phase[r] \in Running => estimate[r] <= record[r]
                                      /\ usage[r] \in Pending => cost[r] <= record[r] + excess[r]
  BY DEF Inv, Pledged
<1>2. \A r \in Calls : phase[r] # "over" => usage[r] = "none" /\ cost[r] = 0
  BY DEF Inv, Life
<1>3. CASE UNCHANGED PledgeVars
  BY <1>1, <1>3 DEF PledgeVars, Pledged
<1>4. ASSUME NEW r \in Calls, NEW a \in Amounts, OpenHold(r, a) PROVE Pledged'
  <2>1. a \in Nat
    BY AmountsAre
  <2>2. \A q \in Calls : q # r => record'[q] = record[q] /\ estimate'[q] = estimate[q] /\ phase'[q] = phase[q]
    BY <1>0, <1>4 DEF OpenHold
  <2>3. /\ record'[r] = a /\ estimate'[r] = a /\ usage[r] = "none" /\ UNCHANGED <<usage, cost, excess, lapsed>>
    BY <1>0, <1>2, <1>4 DEF OpenHold, events
  <2> QED
    BY <1>1, <2>1, <2>2, <2>3 DEF Pledged, Pending
<1>5. ASSUME NEW r \in Calls, NEW a \in Amounts, Deny(r, a) PROVE Pledged'
  <2>1. \A q \in Calls : q # r => phase'[q] = phase[q]
    BY <1>0, <1>5 DEF Deny
  <2>2. phase'[r] = "over" /\ UNCHANGED <<record, estimate, usage, cost, excess, lapsed>>
    BY <1>0, <1>5 DEF Deny, holds, events
  <2> QED
    BY <1>1, <2>1, <2>2 DEF Pledged, Running
<1>6. ASSUME NEW r \in Calls, RefreshCheck(r) \/ RefreshWrite(r) PROVE Pledged'
  <2>1. \A q \in Calls : q # r => phase'[q] = phase[q]
    BY <1>0, <1>6 DEF RefreshCheck, RefreshWrite
  <2>2. phase[r] \in Running /\ UNCHANGED <<record, estimate, usage, cost, excess, lapsed>>
    BY <1>0, <1>6 DEF RefreshCheck, RefreshWrite, holds, events, Running
  <2> QED
    BY <1>1, <2>1, <2>2 DEF Pledged
<1>7. ASSUME NEW r \in Calls, UpstreamFails(r) PROVE Pledged'
  <2>1. \A q \in Calls : q # r => record'[q] = record[q]
    BY <1>7, Releasing DEF Inv, UpstreamFails
  <2>2. \A q \in Calls : q # r => phase'[q] = phase[q] /\ estimate'[q] = estimate[q]
    BY <1>0, <1>7 DEF UpstreamFails
  <2>3. phase'[r] = "over" /\ usage[r] = "none" /\ UNCHANGED <<usage, cost, excess, lapsed>>
    BY <1>0, <1>2, <1>7 DEF UpstreamFails, events
  <2> QED
    BY <1>1, <2>1, <2>2, <2>3 DEF Pledged, Running, Pending
<1>s. ASSUME NEW r \in Calls, SettleRaises(r) PROVE Pledged'
  <2>1. \A q \in Calls : q # r => record'[q] = record[q]
    BY <1>s, Releasing DEF Inv, SettleRaises
  <2>2. \A q \in Calls : q # r => phase'[q] = phase[q] /\ estimate'[q] = estimate[q] /\ usage'[q] = usage[q]
    BY <1>0, <1>s DEF SettleRaises
  <2>3. phase[r] = "streaming" /\ phase'[r] = "over" /\ UNCHANGED <<cost, excess, lapsed>>
    BY <1>0, <1>s DEF SettleRaises
  <2>4. record'[r] \in Nat /\ excess[r] \in Nat /\ cost[r] = 0
    BY <1>0, <1>2, <1>s, <2>3, Releasing DEF Inv, SettleRaises
  <2>5. cost'[r] <= record'[r] + excess'[r]
    BY <2>3, <2>4
  <2> QED
    BY <1>1, <2>1, <2>2, <2>3, <2>5 DEF Pledged, Running
<1>8. ASSUME NEW r \in Calls, NEW c \in Costs, Finish(r, c) PROVE Pledged'
  <2>1. c \in Nat
    BY ReservationAssumption
  <2>2. \A q \in Calls : q # r => /\ phase'[q] = phase[q] /\ estimate'[q] = estimate[q]
                                  /\ usage'[q] = usage[q] /\ cost'[q] = cost[q] /\ excess'[q] = excess[q]
    BY <1>0, <1>8 DEF Finish
  <2>3. /\ phase[r] \in Running /\ excess'[r] = c - Least(c, estimate[r])
        /\ phase'[r] = "over" /\ cost'[r] = c /\ UNCHANGED <<record, lapsed>>
    BY <1>0, <1>8 DEF Finish, holds, Running
  <2>4. estimate[r] \in Nat /\ record[r] \in Nat
    BY <1>0
  <2>5. lapsed = {} => c <= record[r] + excess'[r]
    <3>1. lapsed = {} => estimate[r] <= record[r]
      BY <1>1, <2>3
    <3> QED
      BY <2>1, <2>3, <2>4, <3>1 DEF Least
  <2> QED
    BY <1>1, <2>2, <2>3, <2>5 DEF Pledged, Running
<1>9. ASSUME NEW r \in Calls, Abandon(r) PROVE Pledged'
  <2>1. \A q \in Calls : q # r => phase'[q] = phase[q] /\ estimate'[q] = estimate[q]
    BY <1>0, <1>9 DEF Abandon
  <2>2. phase'[r] = "over" /\ UNCHANGED <<record, usage, cost, excess, lapsed>>
    BY <1>0, <1>9 DEF Abandon, holds, events
  <2> QED
    BY <1>1, <2>1, <2>2 DEF Pledged, Running
<1>10. ASSUME NEW r \in Calls, Project(r) PROVE Pledged'
  <2>1. \A q \in Calls : q # r => usage'[q] = usage[q]
    BY <1>0, <1>10 DEF Project
  <2>2. usage[r] \in Pending /\ UNCHANGED <<record, estimate, phase, cost, excess, lapsed>>
    BY <1>0, <1>10 DEF Project, holds, calls, Pending
  <2> QED
    BY <1>1, <2>1, <2>2 DEF Pledged
<1>11. CASE WindowFires
  <2>1. \A q \in Calls : q \notin TagsNow => record'[q] = record[q]
    BY <1>11, TagsNowAre, Releasing DEF Inv, WindowFires
  <2>2. \A q \in Calls : q \notin Window => q \notin TagsNow /\ usage'[q] = usage[q]
    BY <1>11, TagsNowAre DEF WindowFires
  <2>3. \A q \in Calls : q \in Window => usage'[q] = "billed" /\ phase[q] = "over"
    BY <1>2, <1>11 DEF WindowFires, Window
  <2>4. UNCHANGED <<phase, estimate, cost, excess, lapsed>>
    BY <1>11 DEF WindowFires
  <2> QED
    BY <1>1, <2>1, <2>2, <2>3, <2>4 DEF Pledged, Running, Pending
<1>12. ASSUME NEW k \in Workers, NEW r \in Calls, CloseDue(k, r) PROVE Pledged'
  <2>1. \A q \in Calls : IF q \in {r} THEN record'[q] = 0 ELSE record'[q] = record[q]
    BY <1>12, Releasing DEF Inv, CloseDue
  <2>2. UNCHANGED <<phase, estimate, usage, cost, excess>> /\ lapsed' = lapsed \cup ({r} \cap Open \cap Unbilled)
    BY <1>12 DEF CloseDue, calls
  <2>3. lapsed' = {} => lapsed = {} /\ (record[r] = 0 \/ r \notin Unbilled)
    <3>1. record[r] \in Nat
      BY <1>0
    <3> QED
      BY <2>2, <3>1 DEF Open
  <2>4. r \notin Unbilled => phase[r] \notin Running /\ usage[r] \notin Pending
    BY DEF Unbilled, Running, Pending
  <2> QED
    BY <1>1, <2>1, <2>2, <2>3, <2>4 DEF Pledged
<1>13. ASSUME SpanFires \/ Configure \/ Tick PROVE UNCHANGED PledgeVars
  BY <1>13 DEF SpanFires, Configure, Tick, PledgeVars, holds, calls, events
<1>14. ASSUME NEW k \in Workers, ReadDue(k) PROVE UNCHANGED PledgeVars
  BY <1>14 DEF ReadDue, PledgeVars, holds, calls, events
<1>15. ASSUME NEW s \in Sessions, SdkStep(s) PROVE UNCHANGED PledgeVars
  BY <1>15 DEF SdkStep, SdkReserve, SdkReconcile, SdkUnreserved, SdkForgets, PledgeVars, holds, calls, events
<1> QED
  BY <1>3, <1>4, <1>5, <1>6, <1>7, <1>s, <1>8, <1>9, <1>10, <1>11, <1>12, <1>13, <1>14, <1>15
     DEF Next, CallEnds, EngineStep, WorkerStep

(* What billed calls took beyond their holds.                                 *)
LEMMA BilledTotals ==
  ASSUME TypeOK
  PROVE  /\ Sum(excess, Billed) \in Nat
         /\ Billed \in SUBSET Calls
<1>1. \A r \in Billed : excess[r] \in Nat
  BY DEF TypeOK, Billed
<1>2. Billed \in SUBSET Calls
  BY DEF Billed
<1> QED
  BY <1>1, <1>2, Finite, SumOfNats

(* Fewer calls to bill, and less on hold, need no more of the balance.        *)
LEMMA CoverShrinks ==
  ASSUME Inv, TypeOK', Unbilled' \subseteq Unbilled, \A r \in Unbilled' : record'[r] <= record[r],
         UNCHANGED <<balance, debt, resets>>, lapsed' = {} => lapsed = {},
         Billed' = Billed, \A r \in Billed : excess'[r] = excess[r]
  PROVE  Covered'
<1>0. /\ record \in [Calls -> Nat] /\ record' \in [Calls -> Nat] /\ balance \in Nat
      /\ Unbilled \in SUBSET Calls /\ Unbilled' \in SUBSET Calls
  BY DEF Inv, TypeOK, Unbilled
<1>1. Sum(record', Unbilled') \in Nat /\ Sum(record, Unbilled') \in Nat /\ Sum(record', Unbilled') <= Sum(record, Unbilled')
  <2>1. \A r \in Unbilled' : record[r] \in Nat /\ record'[r] \in Nat /\ record'[r] <= record[r]
    BY <1>0
  <2>2. IsFiniteSet(Unbilled')
    BY <1>0, Finite
  <2> QED
    BY <2>1, <2>2, SumBelow
<1>2. Sum(record, Unbilled') <= Sum(record, Unbilled) /\ Sum(record, Unbilled) \in Nat
  <2>1. \A r \in Unbilled : record[r] \in Nat /\ record[r] \in Int
    BY <1>0
  <2>2. Sum(record, Unbilled) = Sum(record, Unbilled') + Sum(record, Unbilled \ Unbilled')
    BY <1>0, <2>1, Finite, SumSplits
  <2>3. Sum(record, Unbilled) \in Nat /\ Sum(record, Unbilled') \in Nat /\ Sum(record, Unbilled \ Unbilled') \in Nat
    BY <1>0, Totals DEF Inv
  <2> QED
    BY <2>2, <2>3
<1>3. Sum(excess, Billed) = Sum(excess', Billed')
  <2>1. \A r \in Billed : excess[r] \in Int /\ excess'[r] = excess[r]
    BY DEF Inv, TypeOK, Billed
  <2>2. IsFiniteSet(Billed)
    BY Finite DEF Billed
  <2>3. Sum(excess, Billed) = Sum(excess', Billed)
    BY <2>1, <2>2, SumSame
  <2> QED
    BY <2>3
<1>4. Sum(excess, Billed) \in Nat /\ debt \in Nat
  BY BilledTotals DEF Inv, TypeOK
<1>5. debt' = debt /\ balance' = balance /\ resets' = resets
  OBVIOUS
<1>6. lapsed' = {} /\ resets = 0 /\ ~FailOpen
      => /\ debt <= Sum(excess, Billed)
         /\ Sum(record, Unbilled) + debt <= balance + Sum(excess, Billed)
  BY DEF Inv, Covered
<1>7. Sum(record', Unbilled') <= Sum(record, Unbilled) /\ Sum(record', Unbilled') \in Nat
  BY <1>1, <1>2
<1> QED
  BY <1>0, <1>2, <1>3, <1>4, <1>5, <1>6, <1>7 DEF Covered

(* The calls a step may add to those that are not billed: none, but by        *)
(* opening a hold.                                                            *)
LEMMA FewerUnbilled ==
  ASSUME Inv,
         \/ \E r \in Calls : (\E a \in Amounts : Deny(r, a)) \/ RefreshCheck(r) \/ RefreshWrite(r) \/ CallEnds(r)
         \/ \E r \in Calls : Project(r)
         \/ SpanFires \/ Tick
         \/ \E k \in Workers : WorkerStep(k)
         \/ \E s \in Sessions : SdkStep(s)
  PROVE  /\ Unbilled' \subseteq Unbilled /\ \A r \in Calls : record'[r] <= record[r]
         /\ UNCHANGED <<balance, debt, resets>> /\ (lapsed' = {} => lapsed = {})
         /\ Billed' = Billed /\ \A r \in Billed : excess'[r] = excess[r]
<1>0. /\ phase \in [Calls -> Phases] /\ usage \in [Calls -> Usages]
      /\ \A r \in Calls : record[r] \in Nat /\ record[r] <= record[r] /\ 0 <= record[r]
  BY DEF Inv, TypeOK
<1> DEFINE Goal == /\ Unbilled' \subseteq Unbilled /\ \A r \in Calls : record'[r] <= record[r]
                   /\ UNCHANGED <<balance, debt, resets>> /\ (lapsed' = {} => lapsed = {})
                   /\ Billed' = Billed /\ \A r \in Billed : excess'[r] = excess[r]
<1>a. ASSUME UNCHANGED <<usage, excess>> PROVE Billed' = Billed /\ \A r \in Billed : excess'[r] = excess[r]
  BY <1>a DEF Billed
<1>1. ASSUME UNCHANGED <<record, balance, debt, resets, lapsed>>,
             \A r \in Calls : r \in Unbilled' => r \in Unbilled,
             Billed' = Billed, \A r \in Billed : excess'[r] = excess[r]
      PROVE  Goal
  BY <1>0, <1>1 DEF Unbilled
<1>2. ASSUME NEW S \in SUBSET Calls, Release(S), UNCHANGED <<balance, debt, resets>>, lapsed \subseteq lapsed',
             \A r \in Calls : r \in Unbilled' => r \in Unbilled,
             Billed' = Billed, \A r \in Billed : excess'[r] = excess[r]
      PROVE  Goal
  <2>1. \A r \in Calls : record'[r] = 0 \/ record'[r] = record[r]
    BY <1>2, Releasing DEF Inv
  <2> QED
    BY <1>0, <1>2, <2>1 DEF Unbilled
<1>b. ASSUME NEW r \in Calls, phase[r] = "streaming", excess' = excess \/ \E n : excess' = [excess EXCEPT ![r] = n],
             usage' = [usage EXCEPT ![r] = "stored"]
      PROVE  Billed' = Billed /\ \A q \in Billed : excess'[q] = excess[q]
  <2>1. usage[r] = "none" /\ excess \in [Calls -> Nat]
    BY <1>b DEF Inv, Life, TypeOK
  <2>2. \A q \in Calls : usage'[q] = IF q = r THEN "stored" ELSE usage[q]
    BY <1>0, <1>b
  <2>3. Billed' = Billed /\ r \notin Billed
    BY <2>1, <2>2 DEF Billed
  <2>4. \A q \in Calls : q # r => excess'[q] = excess[q]
    BY <1>b, <2>1
  <2> QED
    BY <2>3, <2>4 DEF Billed
<1>3. ASSUME NEW r \in Calls, NEW a \in Amounts, Deny(r, a) PROVE Goal
  BY <1>0, <1>1, <1>3, <1>a DEF Deny, Unbilled, wallet, holds, events
<1>4. ASSUME NEW r \in Calls, RefreshCheck(r) \/ RefreshWrite(r) PROVE Goal
  BY <1>0, <1>1, <1>4, <1>a DEF RefreshCheck, RefreshWrite, Unbilled, wallet, holds, events
<1>5. ASSUME NEW r \in Calls, UpstreamFails(r) PROVE Goal
  <2>1. \A q \in Calls : q \in Unbilled' => q \in Unbilled
    BY <1>0, <1>5 DEF UpstreamFails, Unbilled, events
  <2> QED
    BY <1>2, <1>5, <1>a, <2>1 DEF UpstreamFails, events
<1>c. ASSUME NEW r \in Calls, SettleRaises(r) PROVE Goal
  <2>1. \A q \in Calls : q \in Unbilled' => q \in Unbilled
    BY <1>0, <1>c DEF SettleRaises, Unbilled
  <2>2. Billed' = Billed /\ \A q \in Billed : excess'[q] = excess[q]
    BY <1>b, <1>c DEF SettleRaises
  <2> QED
    BY <1>2, <1>c, <2>1, <2>2 DEF SettleRaises
<1>6. ASSUME NEW r \in Calls, NEW c \in Costs, Finish(r, c) PROVE Goal
  <2>1. \A q \in Calls : q \in Unbilled' => q \in Unbilled
    BY <1>0, <1>6 DEF Finish, Unbilled
  <2>2. Billed' = Billed /\ \A q \in Billed : excess'[q] = excess[q]
    BY <1>b, <1>6 DEF Finish
  <2> QED
    BY <1>1, <1>6, <2>1, <2>2 DEF Finish, wallet, holds
<1>7. ASSUME NEW r \in Calls, Abandon(r) PROVE Goal
  BY <1>0, <1>1, <1>7, <1>a DEF Abandon, Unbilled, wallet, holds, events
<1>8. ASSUME NEW r \in Calls, Project(r) PROVE Goal
  <2>1. \A q \in Calls : usage'[q] = IF q = r THEN "projected" ELSE usage[q]
    BY <1>0, <1>8 DEF Project
  <2>2. usage[r] = "stored" /\ UNCHANGED <<record, balance, debt, resets, lapsed, phase, excess>>
    BY <1>8 DEF Project, wallet, holds, calls
  <2>3. Billed' = Billed
    BY <2>1, <2>2 DEF Billed
  <2>4. \A q \in Calls : q \in Unbilled' => q \in Unbilled
    BY <2>1, <2>2 DEF Unbilled
  <2> QED
    BY <1>1, <2>2, <2>3, <2>4
<1>9. ASSUME SpanFires \/ Tick PROVE Goal
  BY <1>0, <1>1, <1>9, <1>a DEF SpanFires, Tick, Unbilled, wallet, holds, calls, events
<1>10. ASSUME NEW k \in Workers, ReadDue(k) PROVE Goal
  BY <1>0, <1>1, <1>10, <1>a DEF ReadDue, Unbilled, wallet, holds, calls, events
<1>11. ASSUME NEW k \in Workers, NEW r \in Calls, CloseDue(k, r) PROVE Goal
  <2>1. \A q \in Calls : q \in Unbilled' => q \in Unbilled
    BY <1>11 DEF CloseDue, Unbilled, calls
  <2> QED
    BY <1>2, <1>11, <1>a, <2>1 DEF CloseDue
<1>12. ASSUME NEW s \in Sessions, SdkStep(s) PROVE Goal
  <2>1. UNCHANGED <<record, balance, debt, resets, lapsed, phase, usage, excess>>
    BY <1>12 DEF SdkStep, SdkReserve, SdkReconcile, SdkUnreserved, SdkForgets, wallet, holds, calls, events
  <2> QED
    BY <1>1, <1>a, <2>1 DEF Unbilled
<1> HIDE DEF Goal
<1>13. Goal
  BY <1>3, <1>4, <1>5, <1>c, <1>6, <1>7, <1>8, <1>9, <1>10, <1>11, <1>12 DEF CallEnds, WorkerStep
<1> QED
  BY <1>13 DEF Goal

(* Balance, holds and debt stay in the relation the scripts maintain.         *)
LEMMA CoveredStep ==
  ASSUME Inv, Next
  PROVE  Covered'
<1>0. /\ \A r \in Calls : record[r] \in Nat /\ cost[r] \in Nat /\ excess[r] \in Nat
      /\ balance \in Nat /\ held \in Nat /\ debt \in Nat /\ resets \in Nat
  BY DEF Inv, TypeOK
<1>1. ASSUME NEW r \in Calls, NEW a \in Amounts, OpenHold(r, a) PROVE Covered'
  <2> SUFFICES ASSUME ~FailOpen, resets' = 0, lapsed' = {}
               PROVE  debt' <= Sum(excess', Billed') /\ Sum(record', Unbilled') + debt' <= balance' + Sum(excess', Billed')
    BY DEF Covered
  <2>1. /\ a \in Nat /\ a <= balance - held /\ UNCHANGED <<balance, debt, resets, lapsed, usage, excess>>
    BY <1>0, <1>1, AmountsAre DEF OpenHold, Admits, events
  <2>2. debt <= Sum(excess, Billed) /\ held = Sum(record, Calls) + Sum(sdkHeld, Sessions)
    BY <2>1 DEF Inv, Covered, Accounts
  <2>3. /\ Sum(record, Unbilled) \in Nat /\ Sum(record, Calls) \in Nat /\ Sum(sdkHeld, Sessions) \in Nat
        /\ Sum(record, Unbilled) <= Sum(record, Calls)
    <3>1. Unbilled \in SUBSET Calls /\ Calls \in SUBSET Calls
      BY DEF Unbilled
    <3> QED
      BY <3>1, Totals DEF Inv
  <2>4. Sum(record', Unbilled') = Sum(record, Unbilled) + a
    BY <1>1, OpenSums
  <2>5. Sum(excess', Billed') = Sum(excess, Billed) /\ Sum(excess, Billed) \in Nat
    <3>1. Billed' = Billed /\ excess' = excess
      BY <2>1 DEF Billed
    <3> QED
      BY <3>1, BilledTotals DEF Inv
  <2> QED
    BY <1>0, <2>1, <2>2, <2>3, <2>4, <2>5
<1>2. CASE WindowFires
  <2> SUFFICES ASSUME ~FailOpen, resets' = 0, lapsed' = {}
               PROVE  debt' <= Sum(excess', Billed') /\ Sum(record', Unbilled') + debt' <= balance' + Sum(excess', Billed')
    BY DEF Covered
  <2>1. UNCHANGED <<resets, lapsed, phase, excess>>
    BY <1>2 DEF WindowFires
  <2>2. debt <= Sum(excess, Billed) /\ Sum(record, Unbilled) + debt <= balance + Sum(excess, Billed)
    BY <2>1 DEF Inv, Covered
  <2>3. \A r \in Window : cost[r] <= record[r] + excess[r]
    BY <2>1 DEF Inv, Pledged, Window, Pending
  <2>4. Window \in SUBSET Unbilled /\ Unbilled \in SUBSET Calls /\ Window \in SUBSET Calls
    BY DEF Unbilled, Window
  <2>5. Unbilled' = Unbilled \ Window /\ Billed' = Billed \cup Window /\ Billed \cap Window = {}
    <3>1. \A r \in Window : phase[r] = "over"
      BY DEF Inv, Life, Window
    <3>2. \A r \in Calls : usage'[r] = IF r \in Window THEN "billed" ELSE usage[r]
      BY <1>2 DEF WindowFires
    <3>3. Unbilled' = Unbilled \ Window
      BY <2>1, <3>1, <3>2 DEF Unbilled
    <3>4. \A r \in Calls : r \in Window => usage[r] = "projected"
      BY DEF Window
    <3>5. Billed' = Billed \cup Window
      BY <2>4, <3>2 DEF Billed
    <3> QED
      BY <3>3, <3>4, <3>5 DEF Billed
  <2>6. CostOf(Window) = Sum(cost, Window) /\ CostOf(Window) \in Nat
    BY <2>4, CostIsSum DEF Inv
  <2>7. Sum(cost, Window) <= Sum(record, Window) + Sum(excess, Window) /\ Sum(excess, Window) \in Nat
    <3>1. \A r \in Window : /\ cost[r] \in Nat /\ record[r] \in Nat /\ excess[r] \in Nat
                            /\ cost[r] <= record[r] + excess[r]
      BY <1>0, <2>3, <2>4
    <3> QED
      BY <2>4, <3>1, Finite, SumBelowBoth
  <2>8. Sum(record, Unbilled) = Sum(record, Window) + Sum(record, Unbilled \ Window)
    <3>1. \A r \in Unbilled : record[r] \in Int
      BY <1>0, <2>4
    <3> QED
      BY <2>4, <3>1, Finite, SumSplits
  <2>9. Sum(record, Unbilled \ Window) = Sum(record', Unbilled \ Window)
    <3>1. \A r \in Calls : r \notin TagsNow => record'[r] = record[r]
      BY <1>2, TagsNowAre, Releasing DEF Inv, WindowFires
    <3>2. \A r \in Unbilled \ Window : record[r] \in Int /\ record'[r] = record[r]
      BY <1>0, <2>4, <3>1, TagsNowAre
    <3>3. IsFiniteSet(Unbilled \ Window)
      BY <2>4, Finite
    <3> QED
      BY <3>2, <3>3, SumSame
  <2>10. Sum(record, Window) \in Nat /\ Sum(record, Unbilled \ Window) \in Nat /\ Sum(record, Unbilled) \in Nat
    BY <2>4, Totals DEF Inv
  <2>11. /\ balance' = balance - Least(balance, CostOf(Window))
         /\ debt' = debt + (CostOf(Window) - Least(balance, CostOf(Window)))
    BY <1>2 DEF WindowFires
  <2>12. Sum(excess', Billed') = Sum(excess, Billed) + Sum(excess, Window) /\ Sum(excess, Billed) \in Nat
    <3>1. \A r \in Billed' : excess[r] \in Int
      BY <1>0, <2>4, <2>5 DEF Billed
    <3>2. Billed \in SUBSET Billed' /\ Billed' \ Billed = Window /\ IsFiniteSet(Billed')
      <4>1. Billed' \in SUBSET Calls
        BY <2>4, <2>5 DEF Billed
      <4> QED
        BY <2>5, <4>1, Finite
    <3>3. Sum(excess, Billed') = Sum(excess, Billed) + Sum(excess, Window)
      BY <3>1, <3>2, SumSplits
    <3> QED
      BY <2>1, <3>3, BilledTotals DEF Inv
  <2>13. Sum(record', Unbilled') = Sum(record, Unbilled \ Window)
    BY <2>5, <2>9
  <2>14. CASE CostOf(Window) <= balance
    <3>1. balance' = balance - CostOf(Window) /\ debt' = debt
      BY <1>0, <2>6, <2>11, <2>14 DEF Least
    <3> QED
      BY <1>0, <2>2, <2>6, <2>7, <2>8, <2>10, <2>12, <2>13, <3>1
  <2>15. CASE balance < CostOf(Window)
    <3>1. balance' = 0 /\ debt' = debt + CostOf(Window) - balance
      BY <1>0, <2>6, <2>11, <2>15 DEF Least
    <3> QED
      BY <1>0, <2>2, <2>6, <2>7, <2>8, <2>10, <2>12, <2>13, <3>1
  <2> QED
    BY <1>0, <2>6, <2>14, <2>15
<1>3. CASE Configure
  BY <1>0, <1>3 DEF Configure, Covered
<1>4. ASSUME \/ \E r \in Calls : (\E a \in Amounts : Deny(r, a)) \/ RefreshCheck(r) \/ RefreshWrite(r) \/ CallEnds(r)
             \/ \E r \in Calls : Project(r)
             \/ SpanFires \/ Tick
             \/ \E k \in Workers : WorkerStep(k)
             \/ \E s \in Sessions : SdkStep(s)
      PROVE  Covered'
  <2>1. /\ Unbilled' \subseteq Unbilled /\ \A r \in Calls : record'[r] <= record[r]
        /\ UNCHANGED <<balance, debt, resets>> /\ (lapsed' = {} => lapsed = {})
        /\ Billed' = Billed /\ \A r \in Billed : excess'[r] = excess[r]
    BY <1>4, FewerUnbilled
  <2>2. TypeOK'
    BY TypesStep
  <2>3. \A r \in Unbilled' : record'[r] <= record[r]
    BY <2>1 DEF Unbilled
  <2> QED
    BY <2>1, <2>2, <2>3, CoverShrinks
<1> QED
  BY <1>1, <1>2, <1>3, <1>4 DEF Next, EngineStep

(***************************************************************************)
(* The clock.                                                              *)
(***************************************************************************)
\* What the deadlines depend on.
TimeVars == <<now, record, deadline, phase, usage, sentAt, cost>>

(* A call that does not stall is billed before its hold expires.              *)
LEMMA OnTimeStep ==
  ASSUME Inv, Next, MaxDelay + RefreshGap < Lease, NEW q \in Calls \ Stalled
  PROVE  OnTime(q)'
<1>0. /\ now \in Nat /\ Lease \in Nat /\ RefreshGap \in Nat /\ MaxDelay \in Nat
      /\ record \in [Calls -> Nat] /\ deadline \in [Calls -> Nat] /\ sentAt \in [Calls -> Nat]
      /\ phase \in [Calls -> Phases] /\ usage \in [Calls -> Usages]
      /\ cost \in [Calls -> Nat]
  BY ReservationAssumption DEF Inv, TypeOK
<1>1. /\ phase[q] \in Running => now + Lease <= deadline[q] + RefreshGap /\ 0 < record[q]
      /\ usage[q] \in Pending => /\ now <= sentAt[q] + MaxDelay
                                 /\ \/ /\ sentAt[q] + Lease <= deadline[q] + RefreshGap
                                       /\ 0 < record[q]
                                    \/ deadline[q] = 0 /\ cost[q] = 0
  BY DEF Inv, Timely, OnTime
<1>2. \A r \in Calls : phase[r] # "over" => usage[r] = "none" /\ cost[r] = 0
  BY DEF Inv, Life
<1>3. CASE UNCHANGED <<now, record[q], deadline[q], phase[q], usage[q], sentAt[q], cost[q]>>
  BY <1>1, <1>3 DEF OnTime
<1>4. ASSUME phase'[q] \notin Running, usage'[q] \notin Pending PROVE OnTime(q)'
  BY <1>4 DEF OnTime
<1>5. ASSUME NEW r \in Calls, NEW a \in Amounts, OpenHold(r, a) PROVE OnTime(q)'
  <2>1. CASE r # q
    BY <1>0, <1>3, <1>5, <2>1 DEF OpenHold, events
  <2>2. CASE r = q
    <3>1. usage[q] = "none" /\ a \in Nat /\ 0 < a
      BY <1>2, <1>5, <2>2, AmountsAre DEF OpenHold
    <3>2. record'[q] = a /\ deadline'[q] = now + Lease /\ now' = now /\ usage' = usage
      BY <1>0, <1>5, <2>2 DEF OpenHold, events
    <3> QED
      BY <1>0, <3>1, <3>2 DEF OnTime, Pending
  <2> QED
    BY <2>1, <2>2
<1>6. ASSUME NEW r \in Calls, NEW a \in Amounts, Deny(r, a) PROVE OnTime(q)'
  <2>1. CASE r # q
    BY <1>0, <1>3, <1>6, <2>1 DEF Deny, holds, events
  <2>2. CASE r = q
    BY <1>0, <1>2, <1>4, <1>6, <2>2 DEF Deny, holds, events, Running, Pending
  <2> QED
    BY <2>1, <2>2
<1>7. ASSUME NEW r \in Calls, RefreshCheck(r) PROVE OnTime(q)'
  <2>1. phase'[q] \in Running => phase[q] \in Running
    BY <1>0, <1>7 DEF RefreshCheck, Running
  <2>2. UNCHANGED <<now, record, deadline, usage, sentAt, cost>>
    BY <1>7 DEF RefreshCheck, holds, events
  <2> QED
    BY <1>1, <2>1, <2>2 DEF OnTime
<1>8. ASSUME NEW r \in Calls, RefreshWrite(r) PROVE OnTime(q)'
  <2>1. CASE r # q
    BY <1>0, <1>3, <1>8, <2>1 DEF RefreshWrite, events
  <2>2. CASE r = q
    <3>1. phase[q] \in Running /\ usage[q] = "none"
      BY <1>2, <1>8, <2>2 DEF RefreshWrite, Running
    <3>2. deadline'[q] = now + Lease /\ UNCHANGED <<now, record, usage>>
      BY <1>0, <1>8, <2>2 DEF RefreshWrite, events
    <3> QED
      BY <1>0, <1>1, <3>1, <3>2 DEF OnTime, Pending
  <2> QED
    BY <2>1, <2>2
<1>9. ASSUME NEW r \in Calls, UpstreamFails(r) PROVE OnTime(q)'
  <2>1. CASE r # q
    <3>1. record'[q] = record[q] /\ deadline'[q] = deadline[q]
      BY <1>9, <2>1, Releasing DEF Inv, UpstreamFails
    <3> QED
      BY <1>0, <1>3, <1>9, <2>1, <3>1 DEF UpstreamFails, events
  <2>2. CASE r = q
    BY <1>0, <1>2, <1>4, <1>9, <2>2 DEF UpstreamFails, events, Running, Pending
  <2> QED
    BY <2>1, <2>2
<1>10. ASSUME NEW r \in Calls, NEW c \in Costs, Finish(r, c) PROVE OnTime(q)'
  <2>1. CASE r # q
    BY <1>0, <1>3, <1>10, <2>1 DEF Finish, holds
  <2>2. CASE r = q
    <3>1. phase[q] \in Running /\ phase'[q] = "over"
      BY <1>0, <1>10, <2>2 DEF Finish, Running
    <3>2. sentAt'[q] = now /\ UNCHANGED <<now, record, deadline>>
      BY <1>0, <1>10, <2>2 DEF Finish, holds
    <3> QED
      BY <1>0, <1>1, <3>1, <3>2 DEF OnTime, Running
  <2> QED
    BY <2>1, <2>2
<1>s. ASSUME NEW r \in Calls, SettleRaises(r) PROVE OnTime(q)'
  <2>1. CASE r # q
    <3>1. record'[q] = record[q] /\ deadline'[q] = deadline[q]
      BY <1>s, <2>1, Releasing DEF Inv, SettleRaises
    <3> QED
      BY <1>0, <1>3, <1>s, <2>1, <3>1 DEF SettleRaises
  <2>2. CASE r = q
    <3>1. phase[q] = "streaming" /\ phase'[q] = "over" /\ sentAt'[q] = now /\ UNCHANGED <<now, cost>>
      BY <1>0, <1>s, <2>2 DEF SettleRaises
    <3>2. deadline'[q] = 0
      BY <1>s, <2>2, Releasing DEF Inv, SettleRaises
    <3> QED
      BY <1>0, <1>2, <3>1, <3>2 DEF OnTime, Running
  <2> QED
    BY <2>1, <2>2
<1>11. ASSUME NEW r \in Calls, Abandon(r) PROVE OnTime(q)'
  <2>1. CASE r # q
    BY <1>0, <1>3, <1>11, <2>1 DEF Abandon, holds, events
  <2>2. CASE r = q
    BY <1>0, <1>2, <1>4, <1>11, <2>2 DEF Abandon, events, Running, Pending
  <2> QED
    BY <2>1, <2>2
<1>12. ASSUME NEW r \in Calls, Project(r) PROVE OnTime(q)'
  <2>1. usage'[q] \in Pending => usage[q] \in Pending
    BY <1>0, <1>12 DEF Project, Pending
  <2>2. UNCHANGED <<now, record, deadline, phase, sentAt, cost>>
    BY <1>12 DEF Project, holds, calls
  <2> QED
    BY <1>1, <2>1, <2>2 DEF OnTime
<1>13. ASSUME WindowFires PROVE OnTime(q)'
  <2>1. CASE q \in Window
    BY <1>2, <1>4, <1>13, <2>1 DEF WindowFires, Window, Running, Pending
  <2>2. CASE q \notin Window
    <3>1. record'[q] = record[q] /\ deadline'[q] = deadline[q]
      <4>1. q \notin TagsNow
        BY <2>2, TagsNowAre
      <4> QED
        BY <1>13, <4>1, TagsNowAre, Releasing DEF Inv, WindowFires
    <3> QED
      BY <1>3, <1>13, <2>2, <3>1 DEF WindowFires
  <2> QED
    BY <2>1, <2>2
<1>14. ASSUME NEW k \in Workers, NEW r \in Calls, CloseDue(k, r) PROVE OnTime(q)'
  <2>1. CASE r # q
    <3>1. record'[q] = record[q] /\ deadline'[q] = deadline[q]
      BY <1>14, <2>1, Releasing DEF Inv, CloseDue
    <3> QED
      BY <1>3, <1>14, <3>1 DEF CloseDue, calls
  <2>2. CASE r = q
    <3>1. q \notin Unbilled
      BY <1>14, <2>2 DEF Inv, Timely, CloseDue
    <3> QED
      BY <1>4, <1>14, <3>1 DEF CloseDue, calls, Unbilled, Running, Pending
  <2> QED
    BY <2>1, <2>2
<1>15. ASSUME Tick PROVE OnTime(q)'
  <2>1. /\ phase[q] # "refreshing" /\ now' = now + 1
        /\ phase[q] = "streaming" => now < deadline[q] - Lease + RefreshGap
        /\ usage[q] \in Pending => now < sentAt[q] + MaxDelay
        /\ UNCHANGED <<record, deadline, phase, usage, sentAt, cost>>
    BY <1>15 DEF Tick, holds, calls, events, Pending
  <2>2. phase[q] \in Running => phase[q] = "streaming"
    BY <2>1 DEF Running
  <2>3. record[q] \in Nat /\ deadline[q] \in Nat /\ sentAt[q] \in Nat
    BY <1>0
  <2> QED
    BY <1>0, <1>1, <2>1, <2>2, <2>3 DEF OnTime
<1>16. CASE UNCHANGED TimeVars
  BY <1>3, <1>16 DEF TimeVars
<1>17. ASSUME SpanFires \/ Configure PROVE UNCHANGED TimeVars
  BY <1>17 DEF SpanFires, Configure, TimeVars, holds, calls, events
<1>18. ASSUME NEW k \in Workers, ReadDue(k) PROVE UNCHANGED TimeVars
  BY <1>18 DEF ReadDue, TimeVars, holds, calls, events
<1>19. ASSUME NEW s \in Sessions, SdkStep(s) PROVE UNCHANGED TimeVars
  BY <1>19 DEF SdkStep, SdkReserve, SdkReconcile, SdkUnreserved, SdkForgets, TimeVars, holds, calls, events
<1> QED
  BY <1>5, <1>6, <1>7, <1>8, <1>9, <1>10, <1>s, <1>11, <1>12, <1>13, <1>14, <1>15, <1>16, <1>17, <1>18, <1>19
     DEF Next, CallEnds, EngineStep, WorkerStep

(* What a worker has read as due is over, or stalled, and stays so: a call in *)
(* use has its deadline ahead.                                                *)
LEMMA DueStep ==
  ASSUME Inv, Next, MaxDelay + RefreshGap < Lease, NEW k \in Workers, NEW r \in due'[k]
  PROVE  phase'[r] # "new" /\ r \notin Unbilled' \ Stalled
<1>0. /\ now \in Nat /\ Lease \in Nat /\ RefreshGap \in Nat /\ MaxDelay \in Nat
      /\ deadline \in [Calls -> Nat] /\ sentAt \in [Calls -> Nat]
      /\ phase \in [Calls -> Phases] /\ usage \in [Calls -> Usages] /\ due \in [Workers -> SUBSET Calls]
  BY ReservationAssumption DEF Inv, TypeOK
<1>1. \A q \in due[k] : q \in Calls /\ phase[q] # "new" /\ q \notin Unbilled \ Stalled
  BY <1>0 DEF Inv, Timely
<1>2. ASSUME r \in due[k], \A q \in Calls : phase'[q] = "new" => phase[q] = "new",
             \A q \in Calls : phase[q] # "new" /\ q \in Unbilled' => q \in Unbilled
      PROVE  phase'[r] # "new" /\ r \notin Unbilled' \ Stalled
  BY <1>1, <1>2
<1> DEFINE Goal == phase'[r] # "new" /\ r \notin Unbilled' \ Stalled
<1>3. ASSUME NEW j \in Workers, ReadDue(j) PROVE Goal
  <2>1. CASE j # k
    <3>1. r \in due[k] /\ UNCHANGED <<phase, usage>>
      BY <1>0, <1>3, <2>1 DEF ReadDue, calls, events
    <3> QED
      BY <1>2, <3>1 DEF Unbilled
  <2>2. CASE j = k
    <3>1. r \in Calls /\ 0 < deadline[r] /\ deadline[r] <= now /\ UNCHANGED <<phase, usage>>
      BY <1>0, <1>3, <2>2 DEF ReadDue, Expired, calls, events
    <3>2. phase[r] # "new"
      BY <3>1 DEF Inv, Life
    <3>3. deadline[r] \in Nat /\ sentAt[r] \in Nat
      BY <1>0, <3>1
    <3>4. ASSUME r \in Unbilled, r \notin Stalled PROVE FALSE
      <4>1. OnTime(r)
        BY <3>1, <3>4 DEF Inv, Timely
      <4>2. CASE phase[r] \in Running
        BY <1>0, <3>1, <3>3, <4>1, <4>2 DEF OnTime
      <4>3. CASE usage[r] \in Pending
        <5>1. now <= sentAt[r] + MaxDelay /\ sentAt[r] + Lease <= deadline[r] + RefreshGap
          BY <3>1, <4>1, <4>3 DEF OnTime
        <5> QED
          BY <1>0, <3>1, <3>3, <5>1
      <4> QED
        BY <3>4, <4>2, <4>3 DEF Unbilled, Running, Pending
    <3> QED
      BY <3>1, <3>2, <3>4 DEF Unbilled
  <2> QED
    BY <2>1, <2>2
<1>4. ASSUME due'[k] \subseteq due[k], UNCHANGED <<phase, usage>> PROVE Goal
  BY <1>2, <1>4 DEF Unbilled
<1>5. ASSUME NEW j \in Workers, NEW q \in Calls, CloseDue(j, q) PROVE Goal
  BY <1>0, <1>4, <1>5 DEF CloseDue, calls
<1>6. ASSUME NEW q \in Calls, NEW a \in Amounts, OpenHold(q, a) \/ Deny(q, a) PROVE Goal
  BY <1>0, <1>2, <1>6 DEF OpenHold, Deny, Unbilled, events
<1>7. ASSUME NEW q \in Calls, RefreshCheck(q) \/ RefreshWrite(q) \/ UpstreamFails(q) \/ Abandon(q) PROVE Goal
  BY <1>0, <1>2, <1>7 DEF RefreshCheck, RefreshWrite, UpstreamFails, Abandon, Unbilled, events
<1>8. ASSUME NEW q \in Calls, NEW c \in Costs, Finish(q, c) PROVE Goal
  BY <1>0, <1>2, <1>8 DEF Finish, Unbilled
<1>s. ASSUME NEW q \in Calls, SettleRaises(q) PROVE Goal
  BY <1>0, <1>2, <1>s DEF SettleRaises, Unbilled
<1>9. ASSUME NEW q \in Calls, Project(q) PROVE Goal
  BY <1>0, <1>2, <1>9 DEF Project, Unbilled, calls
<1>10. ASSUME WindowFires PROVE Goal
  BY <1>0, <1>2, <1>10 DEF WindowFires, Unbilled, Window
<1>11. ASSUME SpanFires \/ Configure \/ Tick PROVE Goal
  BY <1>4, <1>11 DEF SpanFires, Configure, Tick, calls, events
<1>12. ASSUME NEW s \in Sessions, SdkStep(s) PROVE Goal
  BY <1>4, <1>12 DEF SdkStep, SdkReserve, SdkReconcile, SdkUnreserved, SdkForgets, calls, events
<1> HIDE DEF Goal
<1>13. Goal
  BY <1>3, <1>5, <1>6, <1>7, <1>8, <1>s, <1>9, <1>10, <1>11, <1>12 DEF Next, CallEnds, EngineStep, WorkerStep
<1> QED
  BY <1>13 DEF Goal

(***************************************************************************)
(* Theorems.                                                               *)
(***************************************************************************)
(* One step of a call, the engine, a worker, an SDK stream, the administrator *)
(* or the clock keeps the invariant.                                          *)
LEMMA InvStep == Inv /\ [Next]_vars => Inv'
<1>1. ASSUME Inv, Next PROVE Inv'
  <2>1. Timely'
    BY <1>1, OnTimeStep, DueStep DEF Timely
  <2> QED
    BY <1>1, <2>1, TypesStep, LifeStep, StreamingStep, AccountsStep, PledgedStep, CoveredStep DEF Inv
<1>2. ASSUME Inv, UNCHANGED vars PROVE Inv'
  <2>1. /\ UNCHANGED <<now, balance, held, debt, spanHeld, spanSpent, record, deadline, tagged, tagUntil>>
        /\ UNCHANGED <<phase, estimate, sentAt, usage, cost, excess, session, lapsed, due, sdk, sdkHeld, resets>>
    BY <1>2 DEF vars, wallet, span, holds, tags, calls, events, stream
  <2>2. TypeOK' /\ Life' /\ Streaming'
    BY <1>2, <2>1 DEF Inv, TypeOK, Life, Window, Streaming
  <2>3. Accounts' /\ Pledged'
    BY <1>2, <2>1 DEF Inv, Accounts, Pledged
  <2>4. Unbilled' = Unbilled /\ Billed' = Billed
    BY <2>1 DEF Unbilled, Billed
  <2>5. Covered' /\ Timely'
    BY <1>2, <2>1, <2>4 DEF Inv, Covered, Timely, OnTime
  <2> QED
    BY <2>2, <2>3, <2>5 DEF Inv
<1> QED
  BY <1>1, <1>2

(* Every reachable state satisfies the inductive invariant.                   *)
LEMMA InvariantHolds == Spec => []Inv
BY InvInit, InvStep, PTL DEF Spec

(* However releases, reconciliations and resets meet, no amount goes below    *)
(* zero: each script takes no more than is there.                             *)
THEOREM Typed == Spec => []TypeOK
<1>1. Inv => TypeOK
  BY DEF Inv
<1> QED
  BY <1>1, InvariantHolds, PTL

(* With SDK streams that do not fail open, held_usd is the sum of the open    *)
(* holds, on the wallet and on the span, until the wallet is configured anew: *)
(* settle, expiry, refresh and window release a hold once, and all of it.     *)
THEOREM HoldsAlwaysAddUp ==
  ASSUME ~FailOpen
  PROVE  Spec => []HoldsAddUp
<1>1. Inv => HoldsAddUp
  <2> SUFFICES ASSUME Inv PROVE HoldsAddUp
    OBVIOUS
  <2>1. HeldIn(Calls) = Sum(record, Calls) /\ HeldIn(InSpan) = Sum(record, InSpan)
    BY HeldIsSum, Finite DEF Inv
  <2> QED
    BY <2>1 DEF Inv, Accounts, HoldsAddUp, Sum
<1> QED
  BY <1>1, InvariantHolds, PTL

(* Concurrent calls and SDK streams do not overdraw the wallet but by what    *)
(* billed calls cost beyond their own estimates: while no hold was closed     *)
(* before its usage was billed, the debt is within their excess.  Without an  *)
(* excess there is no debt, however the calls overlap.                        *)
THEOREM NeverOverdrawn ==
  ASSUME ~FailOpen
  PROVE  Spec => []NoOverdraft
<1>1. Inv => NoOverdraft
  BY DEF Inv, Covered, NoOverdraft, Billed, Sum
<1> QED
  BY <1>1, InvariantHolds, PTL

(* If the lease outlasts the gap between refreshes and the delay of billing   *)
(* together, the hold of a call that is read is not closed before the window  *)
(* deducts its cost, also by a worker that read the pending set long ago.     *)
THEOREM HoldsLast ==
  ASSUME MaxDelay + RefreshGap < Lease
  PROVE  Spec => []HoldLastsUntilBilled
<1>1. Inv => HoldLastsUntilBilled
  <2> SUFFICES ASSUME Inv, NEW r \in Unbilled \ Stalled
               PROVE  record[r] > 0 \/ (usage[r] # "none" /\ cost[r] = 0)
    BY DEF HoldLastsUntilBilled
  <2>1. r \in Calls /\ OnTime(r) /\ record[r] \in Nat
    BY DEF Inv, Timely, Unbilled, TypeOK
  <2> QED
    BY <2>1 DEF Unbilled, OnTime, Running, Pending
<1> QED
  BY <1>1, InvariantHolds, PTL
==============================================================================
