---------------------------- MODULE SumTheorems ----------------------------
(***************************************************************************)
(* Facts about SumFunction.  The library states induction with a predicate *)
(* as a parameter; here it is stated of a set, and follows from the        *)
(* well-foundedness of < on the naturals.                                  *)
(***************************************************************************)
EXTENDS Functions, FiniteSetTheorems, TLAPS

\* Every set of naturals has a least element.
LEMMA LeastNatural ==
  ASSUME NEW T \in SUBSET Nat, T # {}
  PROVE  \E m \in T : \A k \in T : m <= k
<1>1. PICK m \in T : \A k \in T : ~ (<<k, m>> \in OpToRel(<, Nat))
  BY NatLessThanWellFounded, WFMin, Zenon
<1>2. \A k \in T : ~ (k < m)
  BY <1>1 DEF OpToRel
<1> QED
  BY <1>2

\* Induction over the naturals for a set.
LEMMA InductionOnNat ==
  ASSUME NEW S, 0 \in S, \A n \in Nat : n \in S => n + 1 \in S
  PROVE  Nat \subseteq S
<1> SUFFICES ASSUME Nat \ S # {} PROVE FALSE
  OBVIOUS
<1>1. PICK m \in Nat \ S : \A k \in Nat \ S : m <= k
  BY LeastNatural
<1>2. m # 0 /\ m - 1 \in Nat /\ ~ (m <= m - 1)
  BY <1>1
<1>3. m - 1 \in S
  BY <1>1, <1>2
<1>4. (m - 1) + 1 \in S
  BY <1>2, <1>3
<1> QED
  BY <1>1, <1>2, <1>4

(***************************************************************************)
(* The sum over a finite set is taken element by element.                  *)
(***************************************************************************)
first(s) == CHOOSE x \in s : TRUE

\* One unfolding of the sum: of every subset, given the sums of smaller ones.
unfold(f, S, g) ==
  [s \in SUBSET S |-> IF s = {} THEN 0 ELSE f[first(s)] + g[s \ {first(s)}]]

iter(f, S) == CHOOSE g : g = unfold(f, S, g)

LEMMA SumIsIter ==
  ASSUME NEW f, NEW S
  PROVE  SumFunctionOnSet(f, S) = iter(f, S)[S]
BY DEF SumFunctionOnSet, FoldFunctionOnSet, MapThenFoldSet, iter, unfold, first

\* The element taken first is one of the set, and leaves a smaller one.
LEMMA TakeFirst ==
  ASSUME NEW s, IsFiniteSet(s), s # {}
  PROVE  /\ first(s) \in s
         /\ s \ {first(s)} \subseteq s /\ IsFiniteSet(s \ {first(s)})
         /\ Cardinality(s) \in Nat \ {0}
         /\ Cardinality(s \ {first(s)}) = Cardinality(s) - 1
<1>1. first(s) \in s
  BY DEF first
<1>2. Cardinality(s) \in Nat /\ Cardinality(s) # 0
  BY FS_CardinalityType, FS_EmptySet
<1> QED
  BY <1>1, <1>2, FS_RemoveElement

\* The recursive definition of the sum has a solution.
LEMMA IterEquation ==
  ASSUME NEW f, NEW S, IsFiniteSet(S)
  PROVE  iter(f, S) = unfold(f, S, iter(f, S))
<1> DEFINE Solves(g, n) ==
             \A s \in SUBSET S : Cardinality(s) <= n => g[s] = unfold(f, S, g)[s]
           Solved == {n \in Nat : \E g : Solves(g, n)}
<1>0. \A s \in SUBSET S : IsFiniteSet(s) /\ Cardinality(s) \in Nat
  BY FS_Subset, FS_CardinalityType
<1>1. 0 \in Solved
  <2> DEFINE g == [s \in SUBSET S |-> 0]
  <2>1. ASSUME NEW s \in SUBSET S, Cardinality(s) <= 0 PROVE g[s] = unfold(f, S, g)[s]
    <3>1. s = {}
      BY <1>0, <2>1, FS_EmptySet
    <3> QED
      BY <3>1 DEF unfold
  <2>2. Solves(g, 0)
    BY <2>1
  <2> QED
    BY <2>2
<1>2. ASSUME NEW n \in Nat, n \in Solved PROVE n + 1 \in Solved
  <2>1. PICK g : Solves(g, n)
    BY <1>2
  <2> DEFINE h == unfold(f, S, g)
  <2>2. ASSUME NEW s \in SUBSET S, Cardinality(s) <= n + 1 PROVE h[s] = unfold(f, S, h)[s]
    <3>1. CASE s = {}
      BY <3>1 DEF unfold
    <3>2. CASE s # {}
      <4> DEFINE t == s \ {first(s)}
      <4>1. t \in SUBSET S /\ Cardinality(t) <= n
        BY <1>0, <2>2, <3>2, TakeFirst
      <4>2. h[t] = g[t]
        BY <2>1, <4>1
      <4>3. h[s] = f[first(s)] + g[t] /\ unfold(f, S, h)[s] = f[first(s)] + h[t]
        BY <3>2 DEF unfold
      <4> QED
        BY <4>2, <4>3
    <3> QED
      BY <3>1, <3>2
  <2>3. Solves(h, n + 1)
    BY <2>2
  <2> QED
    BY <2>3
<1>3. Cardinality(S) \in Solved
  <2> HIDE DEF Solved
  <2> QED
    BY <1>0, <1>1, <1>2, InductionOnNat
<1>4. PICK g : Solves(g, Cardinality(S))
  BY <1>3
<1> DEFINE h == unfold(f, S, g)
<1>5. \A s \in SUBSET S : h[s] = g[s]
  BY <1>4, FS_Subset
<1>6. h = unfold(f, S, h)
  BY <1>5, <1>0, TakeFirst DEF unfold
<1> QED
  BY <1>6 DEF iter

\* A sum of naturals is one.
THEOREM SumIsNat ==
  ASSUME NEW f, NEW S, IsFiniteSet(S), \A x \in S : f[x] \in Nat
  PROVE  SumFunctionOnSet(f, S) \in Nat
<1> DEFINE sum == iter(f, S)
           Done == {n \in Nat : \A s \in SUBSET S : Cardinality(s) = n => sum[s] \in Nat}
<1>0. \A s \in SUBSET S : IsFiniteSet(s) /\ Cardinality(s) \in Nat
  BY FS_Subset, FS_CardinalityType
<1>1. \A s \in SUBSET S : sum[s] = IF s = {} THEN 0 ELSE f[first(s)] + sum[s \ {first(s)}]
  <2>1. sum = unfold(f, S, sum)
    BY IterEquation
  <2> HIDE DEF sum
  <2> QED
    BY <2>1 DEF unfold
<1> HIDE DEF sum
<1>2. 0 \in Done
  BY <1>0, <1>1, FS_EmptySet
<1>3. ASSUME NEW n \in Nat, n \in Done PROVE n + 1 \in Done
  <2>1. ASSUME NEW s \in SUBSET S, Cardinality(s) = n + 1 PROVE sum[s] \in Nat
    <3>1. s # {}
      BY <2>1, FS_EmptySet
    <3>2. first(s) \in S /\ s \ {first(s)} \in SUBSET S /\ Cardinality(s \ {first(s)}) = n
      BY <1>0, <2>1, <3>1, TakeFirst
    <3>3. sum[s \ {first(s)}] \in Nat /\ f[first(s)] \in Nat
      BY <1>3, <3>2
    <3> QED
      BY <1>1, <3>1, <3>3
  <2> QED
    BY <2>1
<1>4. Cardinality(S) \in Done
  <2> HIDE DEF Done
  <2> QED
    BY <1>0, <1>2, <1>3, InductionOnNat
<1> QED
  BY <1>4, SumIsIter DEF sum

(***************************************************************************)
(* The sum does not depend on the order in which the elements are taken.   *)
(***************************************************************************)
\* The partial sums of a set are those of its subsets.
LEMMA IterOfSubset ==
  ASSUME NEW f, NEW S, IsFiniteSet(S), NEW T \in SUBSET S
  PROVE  iter(f, S)[T] = SumFunctionOnSet(f, T)
<1> DEFINE g == iter(f, S)
           h == iter(f, T)
           Done == {n \in Nat : \A s \in SUBSET T : Cardinality(s) = n => g[s] = h[s]}
<1>0. /\ IsFiniteSet(T)
      /\ \A s \in SUBSET T : IsFiniteSet(s) /\ Cardinality(s) \in Nat /\ s \in SUBSET S
  BY FS_Subset, FS_CardinalityType
<1>1. \A s \in SUBSET S : g[s] = IF s = {} THEN 0 ELSE f[first(s)] + g[s \ {first(s)}]
  <2>1. g = unfold(f, S, g)
    BY IterEquation
  <2> HIDE DEF g
  <2> QED
    BY <2>1 DEF unfold
<1>2. \A s \in SUBSET T : h[s] = IF s = {} THEN 0 ELSE f[first(s)] + h[s \ {first(s)}]
  <2>1. h = unfold(f, T, h)
    BY <1>0, IterEquation
  <2> HIDE DEF h
  <2> QED
    BY <2>1 DEF unfold
<1> HIDE DEF g, h
<1>3. 0 \in Done
  BY <1>0, <1>1, <1>2, FS_EmptySet
<1>4. ASSUME NEW n \in Nat, n \in Done PROVE n + 1 \in Done
  <2>1. ASSUME NEW s \in SUBSET T, Cardinality(s) = n + 1 PROVE g[s] = h[s]
    <3>1. s # {}
      BY <2>1, FS_EmptySet
    <3>2. s \ {first(s)} \in SUBSET T /\ Cardinality(s \ {first(s)}) = n
      BY <1>0, <2>1, <3>1, TakeFirst
    <3>3. g[s \ {first(s)}] = h[s \ {first(s)}]
      BY <1>4, <3>2
    <3> QED
      BY <1>0, <1>1, <1>2, <3>1, <3>3
  <2> QED
    BY <2>1
<1>5. Cardinality(T) \in Done
  <2> HIDE DEF Done
  <2> QED
    BY <1>0, <1>3, <1>4, InductionOnNat
<1>6. g[T] = h[T]
  BY <1>5
<1> QED
  BY <1>6, SumIsIter DEF g, h

\* Nothing sums to nothing, and the element taken first is added to the rest.
LEMMA SumTakesFirst ==
  ASSUME NEW f, NEW S, IsFiniteSet(S)
  PROVE  SumFunctionOnSet(f, S)
           = IF S = {} THEN 0 ELSE f[first(S)] + SumFunctionOnSet(f, S \ {first(S)})
<1> DEFINE g == iter(f, S)
           t == S \ {first(S)}
<1>1. g = unfold(f, S, g)
  BY IterEquation
<1>2. g[S] = SumFunctionOnSet(f, S) /\ g[t] = SumFunctionOnSet(f, t)
  <2>1. S \in SUBSET S /\ t \in SUBSET S
    OBVIOUS
  <2> QED
    BY <2>1, IterOfSubset
<1> HIDE DEF g
<1>3. g[S] = IF S = {} THEN 0 ELSE f[first(S)] + g[t]
  BY <1>1 DEF unfold
<1> QED
  BY <1>2, <1>3

\* A sum is the sum without an element, and that element.
THEOREM SumWithout ==
  ASSUME NEW f, NEW S, IsFiniteSet(S), \A x \in S : f[x] \in Nat, NEW e \in S
  PROVE  SumFunctionOnSet(f, S) = SumFunctionOnSet(f, S \ {e}) + f[e]
<1> DEFINE sum(s) == SumFunctionOnSet(f, s)
           Done == {n \in Nat : \A s \in SUBSET S : Cardinality(s) = n =>
                                  \A x \in s : sum(s) = sum(s \ {x}) + f[x]}
<1>0. \A s \in SUBSET S : /\ IsFiniteSet(s) /\ Cardinality(s) \in Nat
                          /\ sum(s) \in Nat
                          /\ s # {} => sum(s) = f[first(s)] + sum(s \ {first(s)})
  BY FS_Subset, FS_CardinalityType, SumIsNat, SumTakesFirst
<1> HIDE DEF sum
<1>1. 0 \in Done
  BY <1>0, FS_EmptySet
<1>2. ASSUME NEW n \in Nat, n \in Done PROVE n + 1 \in Done
  <2>1. ASSUME NEW s \in SUBSET S, Cardinality(s) = n + 1, NEW x \in s
        PROVE  sum(s) = sum(s \ {x}) + f[x]
    <3> DEFINE a == first(s)
    <3>1. a \in s /\ Cardinality(s \ {a}) = n
      BY <1>0, <2>1, TakeFirst
    <3>2. sum(s) = f[a] + sum(s \ {a}) /\ f[a] \in Nat /\ f[x] \in Nat
      BY <1>0, <3>1
    <3>3. Cardinality(s \ {x}) = n
      <4>1. Cardinality(s \ {x}) = Cardinality(s) - 1
        BY <1>0, FS_RemoveElement
      <4> QED
        BY <2>1, <4>1
    <3> HIDE DEF a
    <3>4. CASE x = a
      <4>1. s \ {x} \in SUBSET S
        OBVIOUS
      <4>2. sum(s \ {x}) \in Nat
        BY <1>0, <4>1
      <4> QED
        BY <3>2, <3>4, <4>2
    <3>5. CASE x # a
      <4> DEFINE r == s \ {a, x}
      <4>1. /\ s \ {a} \in SUBSET S /\ x \in s \ {a} /\ (s \ {a}) \ {x} = r
            /\ s \ {x} \in SUBSET S /\ a \in s \ {x} /\ (s \ {x}) \ {a} = r
            /\ r \in SUBSET S
        BY <3>1, <3>5
      <4>2. sum(s \ {a}) = sum(r) + f[x]
        BY <1>2, <3>1, <4>1
      <4>3. sum(s \ {x}) = sum(r) + f[a]
        BY <1>2, <3>3, <4>1
      <4>4. sum(r) \in Nat
        BY <1>0, <4>1
      <4> QED
        BY <3>2, <4>2, <4>3, <4>4
    <3> QED
      BY <3>4, <3>5
  <2> QED
    BY <2>1
<1>3. Cardinality(S) \in Done
  <2> HIDE DEF Done
  <2> QED
    BY <1>0, <1>1, <1>2, InductionOnNat
<1> QED
  BY <1>3 DEF sum

\* If every part of one sum is bounded by a multiple of the part of another, so
\* is the sum.
LEMMA SumIsScaled ==
  ASSUME NEW f, NEW g, NEW S, IsFiniteSet(S),
         \A x \in S : f[x] \in Nat /\ g[x] \in Nat,
         NEW a \in Nat, NEW b \in Nat, \A x \in S : g[x] * a <= f[x] * b
  PROVE  SumFunctionOnSet(g, S) * a <= SumFunctionOnSet(f, S) * b
<1> DEFINE F(s) == SumFunctionOnSet(f, s)
           G(s) == SumFunctionOnSet(g, s)
           Done == {n \in Nat : \A s \in SUBSET S : Cardinality(s) = n => G(s) * a <= F(s) * b}
<1>0. \A s \in SUBSET S : /\ IsFiniteSet(s) /\ Cardinality(s) \in Nat
                          /\ F(s) \in Nat /\ G(s) \in Nat
                          /\ F(s) = IF s = {} THEN 0 ELSE f[first(s)] + F(s \ {first(s)})
                          /\ G(s) = IF s = {} THEN 0 ELSE g[first(s)] + G(s \ {first(s)})
  BY FS_Subset, FS_CardinalityType, SumIsNat, SumTakesFirst
<1> HIDE DEF F, G
<1>1. 0 \in Done
  <2>1. ASSUME NEW s \in SUBSET S, Cardinality(s) = 0 PROVE G(s) * a <= F(s) * b
    <3>1. s = {}
      BY <1>0, <2>1, FS_EmptySet
    <3>2. G(s) = 0 /\ F(s) = 0
      BY <1>0, <3>1
    <3> QED
      BY <3>2
  <2> QED
    BY <2>1
<1>2. ASSUME NEW n \in Nat, n \in Done PROVE n + 1 \in Done
  <2>1. ASSUME NEW s \in SUBSET S, Cardinality(s) = n + 1 PROVE G(s) * a <= F(s) * b
    <3> DEFINE x == first(s)
               t == s \ {x}
               Ft == F(t)
               Gt == G(t)
    <3>1. s # {}
      BY <2>1, FS_EmptySet
    <3>2. x \in S /\ t \in SUBSET S /\ Cardinality(t) = n
      <4>1. IsFiniteSet(s) /\ Cardinality(s) = n + 1
        BY <1>0, <2>1
      <4>2. x \in s /\ t \subseteq s /\ Cardinality(t) = Cardinality(s) - 1
        BY <3>1, <4>1, TakeFirst
      <4> QED
        BY <4>1, <4>2
    <3>3. Gt * a <= Ft * b /\ Gt \in Nat /\ Ft \in Nat
      BY <1>0, <1>2, <3>2
    <3>4. g[x] * a <= f[x] * b /\ f[x] \in Nat /\ g[x] \in Nat
      BY <3>2
    <3>5. G(s) = g[x] + Gt /\ F(s) = f[x] + Ft
      BY <1>0, <3>1
    <3> HIDE DEF x, t, Ft, Gt
    <3>6. (g[x] + Gt) * a = g[x] * a + Gt * a /\ (f[x] + Ft) * b = f[x] * b + Ft * b
      BY <3>3, <3>4
    <3>7. g[x] * a \in Nat /\ Gt * a \in Nat /\ f[x] * b \in Nat /\ Ft * b \in Nat
      BY <3>3, <3>4
    <3> QED
      BY <3>3, <3>4, <3>5, <3>6, <3>7
  <2> QED
    BY <2>1
<1>3. Cardinality(S) \in Done
  <2> HIDE DEF Done
  <2> QED
    BY <1>0, <1>1, <1>2, InductionOnNat
<1> QED
  BY <1>3 DEF F, G

\* A sum of larger numbers is no smaller.
LEMMA SumIsMonotone ==
  ASSUME NEW f, NEW g, NEW S, IsFiniteSet(S),
         \A x \in S : f[x] \in Nat /\ g[x] \in Nat /\ g[x] <= f[x]
  PROVE  SumFunctionOnSet(g, S) <= SumFunctionOnSet(f, S)
<1>1. \A x \in S : g[x] * 1 <= f[x] * 1
  OBVIOUS
<1>2. SumFunctionOnSet(g, S) * 1 <= SumFunctionOnSet(f, S) * 1
  BY <1>1, SumIsScaled
<1>3. SumFunctionOnSet(g, S) \in Nat /\ SumFunctionOnSet(f, S) \in Nat
  BY SumIsNat
<1> QED
  BY <1>2, <1>3

\* A sum depends on its parts alone.
LEMMA SumOfEquals ==
  ASSUME NEW f, NEW g, NEW S, IsFiniteSet(S),
         \A x \in S : f[x] \in Nat /\ g[x] = f[x]
  PROVE  SumFunctionOnSet(g, S) = SumFunctionOnSet(f, S)
<1>1. /\ SumFunctionOnSet(g, S) <= SumFunctionOnSet(f, S)
      /\ SumFunctionOnSet(f, S) <= SumFunctionOnSet(g, S)
  BY SumIsMonotone
<1>2. SumFunctionOnSet(g, S) \in Nat /\ SumFunctionOnSet(f, S) \in Nat
  BY SumIsNat
<1> QED
  BY <1>1, <1>2

\* A sum of zeros is zero.
LEMMA SumOfZeros ==
  ASSUME NEW f, NEW S, IsFiniteSet(S), \A x \in S : f[x] = 0
  PROVE  SumFunctionOnSet(f, S) = 0
<1>1. \A x \in S : f[x] \in Nat /\ f[x] * 1 <= f[x] * 0
  OBVIOUS
<1>2. SumFunctionOnSet(f, S) * 1 <= SumFunctionOnSet(f, S) * 0
  BY <1>1, SumIsScaled
<1>3. SumFunctionOnSet(f, S) \in Nat
  BY <1>1, SumIsNat
<1> QED
  BY <1>2, <1>3

\* A sum is at least each of its parts.
LEMMA PartOfSum ==
  ASSUME NEW f, NEW S, IsFiniteSet(S), \A x \in S : f[x] \in Nat, NEW e \in S
  PROVE  f[e] <= SumFunctionOnSet(f, S)
<1>1. SumFunctionOnSet(f, S \ {e}) \in Nat
  BY FS_RemoveElement, SumIsNat
<1> QED
  BY <1>1, SumWithout

\* A sum of sums is the sum of the sums.
LEMMA SumOfSums ==
  ASSUME NEW f, NEW g, NEW h, NEW S, IsFiniteSet(S),
         \A x \in S : f[x] \in Nat /\ g[x] \in Nat /\ h[x] = f[x] + g[x]
  PROVE  SumFunctionOnSet(h, S) = SumFunctionOnSet(f, S) + SumFunctionOnSet(g, S)
<1> DEFINE F(s) == SumFunctionOnSet(f, s)
           G(s) == SumFunctionOnSet(g, s)
           H(s) == SumFunctionOnSet(h, s)
           Done == {n \in Nat : \A s \in SUBSET S : Cardinality(s) = n => H(s) = F(s) + G(s)}
<1>0. \A s \in SUBSET S :
        /\ IsFiniteSet(s) /\ Cardinality(s) \in Nat /\ F(s) \in Nat /\ G(s) \in Nat
        /\ s = {} => F(s) = 0 /\ G(s) = 0 /\ H(s) = 0
        /\ s # {} => /\ F(s) = f[first(s)] + F(s \ {first(s)})
                     /\ G(s) = g[first(s)] + G(s \ {first(s)})
                     /\ H(s) = h[first(s)] + H(s \ {first(s)})
  <2> SUFFICES ASSUME NEW s \in SUBSET S
               PROVE  /\ IsFiniteSet(s) /\ Cardinality(s) \in Nat
                      /\ F(s) \in Nat /\ G(s) \in Nat
                      /\ s = {} => F(s) = 0 /\ G(s) = 0 /\ H(s) = 0
                      /\ s # {} => /\ F(s) = f[first(s)] + F(s \ {first(s)})
                                   /\ G(s) = g[first(s)] + G(s \ {first(s)})
                                   /\ H(s) = h[first(s)] + H(s \ {first(s)})
    OBVIOUS
  <2>1. IsFiniteSet(s) /\ Cardinality(s) \in Nat
    BY FS_Subset, FS_CardinalityType
  <2>2. F(s) \in Nat /\ G(s) \in Nat
    BY <2>1, SumIsNat
  <2>3. /\ F(s) = IF s = {} THEN 0 ELSE f[first(s)] + F(s \ {first(s)})
        /\ G(s) = IF s = {} THEN 0 ELSE g[first(s)] + G(s \ {first(s)})
        /\ H(s) = IF s = {} THEN 0 ELSE h[first(s)] + H(s \ {first(s)})
    BY <2>1, SumTakesFirst
  <2> QED
    BY <2>1, <2>2, <2>3
<1> HIDE DEF F, G, H
<1>1. 0 \in Done
  <2>1. ASSUME NEW s \in SUBSET S, Cardinality(s) = 0 PROVE H(s) = F(s) + G(s)
    <3>1. s = {}
      BY <1>0, <2>1, FS_EmptySet
    <3> QED
      BY <1>0, <3>1
  <2> QED
    BY <2>1
<1>2. ASSUME NEW n \in Nat, n \in Done PROVE n + 1 \in Done
  <2>1. ASSUME NEW s \in SUBSET S, Cardinality(s) = n + 1 PROVE H(s) = F(s) + G(s)
    <3> DEFINE e == first(s)
               t == s \ {e}
    <3>1. IsFiniteSet(s) /\ s # {}
      <4>1. n + 1 # 0
        OBVIOUS
      <4> QED
        BY <1>0, <2>1, <4>1, FS_EmptySet
    <3>2. e \in s /\ t \in SUBSET S /\ Cardinality(t) = Cardinality(s) - 1
      BY <3>1, TakeFirst
    <3>3. Cardinality(t) = n
      <4> HIDE DEF t
      <4> QED
        BY <2>1, <3>2
    <3>4. H(t) = F(t) + G(t)
      BY <1>2, <3>2, <3>3
    <3>5. /\ F(s) = f[e] + F(t) /\ G(s) = g[e] + G(t) /\ H(s) = h[e] + H(t)
          /\ f[e] \in Nat /\ g[e] \in Nat /\ h[e] = f[e] + g[e]
          /\ F(t) \in Nat /\ G(t) \in Nat
      <4>1. e \in S
        BY <3>2
      <4> QED
        BY <1>0, <3>1, <3>2, <4>1
    <3> HIDE DEF e, t
    <3> QED
      BY <3>4, <3>5
  <2> QED
    BY <2>1
<1>3. Nat \subseteq Done
  <2> HIDE DEF Done
  <2> QED
    BY <1>1, <1>2, InductionOnNat
<1>4. S \in SUBSET S /\ Cardinality(S) \in Done
  BY <1>0, <1>3
<1> QED
  BY <1>4 DEF F, G, H

=============================================================================
