------------------------- MODULE MerkleAirdropProofs -------------------------
(***************************************************************************)
(* The airdrop implements Entitlements, whatever the list and its length,  *)
(* the order of the hashes and the proofs that callers bring: every step   *)
(* publishes a list, pays one entry that is owed, or changes nothing that  *)
(* the promise speaks of.                                                  *)
(***************************************************************************)
EXTENDS MerkleAirdrop, SumTheorems

(***************************************************************************)
(* FoldLeft, as the library defines it, takes the largest index of what is *)
(* left of the domain.  Both folds of the model are instances of step.     *)
(***************************************************************************)
\* The largest element of a set of indices.
LEMMA MaxIndex ==
  ASSUME NEW n \in Nat, NEW s \in SUBSET (1 .. n), s # {}
  PROVE  Max(s) \in s /\ \A y \in s : y <= Max(s)
<1> DEFINE T == {n - x : x \in s}
<1>0. \A x \in s : x \in Nat /\ n - x \in Nat
  OBVIOUS
<1>1. T \in SUBSET Nat /\ T # {}
  BY <1>0
<1>2. PICK m \in T : \A k \in T : m <= k
  BY <1>1, LeastNatural
<1>3. PICK x \in s : m = n - x
  BY <1>2
<1>4. ASSUME NEW y \in s PROVE x >= y
  <2>1. n - y \in T
    OBVIOUS
  <2>2. n - x <= n - y
    BY <1>2, <1>3, <2>1
  <2> QED
    BY <1>0, <2>2
<1>5. \E z \in s : \A y \in s : z >= y
  BY <1>4
<1>6. Max(s) \in s /\ \A y \in s : Max(s) >= y
  BY <1>5, Zenon DEF Max
<1> QED
  BY <1>6

\* Taking it away leaves a smaller set.
LEMMA TakeMax ==
  ASSUME NEW n \in Nat, NEW s \in SUBSET (1 .. n), s # {}
  PROVE  /\ s \ {Max(s)} \in SUBSET (1 .. n)
         /\ Cardinality(s) \in Nat \ {0}
         /\ Cardinality(s \ {Max(s)}) = Cardinality(s) - 1
<1>1. IsFiniteSet(s)
  <2>1. 1 \in Int /\ n \in Int
    OBVIOUS
  <2>2. IsFiniteSet(1 .. n)
    BY <2>1, FS_Interval
  <2> QED
    BY <2>2, FS_Subset
<1>2. Cardinality(s) \in Nat /\ Cardinality(s) # 0
  BY <1>1, FS_CardinalityType, FS_EmptySet
<1>3. Max(s) \in s
  BY MaxIndex
<1> QED
  BY <1>1, <1>2, <1>3, FS_RemoveElement

step(op, x, y) == IF op = "hash" THEN combinedHash(x, y) ELSE push(x, y)

\* One unfolding of a fold over p: of every subset of S, given smaller ones.
refold(op, base, p, S, g) ==
  [s \in SUBSET S |->
     IF s = {} THEN base ELSE step(op, g[s \ {Max(s)}], p[Max(s)])]

fold(op, base, p, S) == CHOOSE g : g = refold(op, base, p, S, g)

LEMMA HashFold ==
  ASSUME NEW base, NEW p
  PROVE  FoldLeft(combinedHash, base, p) = fold("hash", base, p, DOMAIN p)[DOMAIN p]
BY DEF FoldLeft, MapThenFoldSet, fold, refold, step

LEMMA PushFold ==
  ASSUME NEW base, NEW p
  PROVE  FoldLeft(push, base, p) = fold("push", base, p, DOMAIN p)[DOMAIN p]
BY DEF FoldLeft, MapThenFoldSet, fold, refold, step

\* The recursive definition of the fold has a solution.
LEMMA FoldEquation ==
  ASSUME NEW op, NEW base, NEW p, NEW m \in Nat
  PROVE  fold(op, base, p, 1 .. m) = refold(op, base, p, 1 .. m, fold(op, base, p, 1 .. m))
<1> DEFINE S == 1 .. m
           Solves(g, n) ==
             \A s \in SUBSET S : Cardinality(s) <= n => g[s] = refold(op, base, p, S, g)[s]
           Solved == {n \in Nat : \E g : Solves(g, n)}
<1>0. IsFiniteSet(S) /\ \A s \in SUBSET S : IsFiniteSet(s) /\ Cardinality(s) \in Nat
  <2>1. 1 \in Int /\ m \in Int
    OBVIOUS
  <2>2. IsFiniteSet(S)
    BY <2>1, FS_Interval
  <2> QED
    BY <2>2, FS_Subset, FS_CardinalityType
<1>t. ASSUME NEW s \in SUBSET S, s # {}
      PROVE  /\ s \ {Max(s)} \in SUBSET S
             /\ Cardinality(s \ {Max(s)}) = Cardinality(s) - 1
  BY <1>t, TakeMax
<1> HIDE DEF S
<1>1. 0 \in Solved
  <2> DEFINE g == [s \in SUBSET S |-> base]
  <2>1. ASSUME NEW s \in SUBSET S, Cardinality(s) <= 0
        PROVE  g[s] = refold(op, base, p, S, g)[s]
    <3>1. s = {}
      BY <1>0, <2>1, FS_EmptySet
    <3> QED
      BY <3>1 DEF refold
  <2>2. Solves(g, 0)
    BY <2>1
  <2> QED
    BY <2>2
<1>2. ASSUME NEW n \in Nat, n \in Solved PROVE n + 1 \in Solved
  <2>1. PICK g : Solves(g, n)
    BY <1>2
  <2> DEFINE h == refold(op, base, p, S, g)
  <2>2. ASSUME NEW s \in SUBSET S, Cardinality(s) <= n + 1
        PROVE  h[s] = refold(op, base, p, S, h)[s]
    <3>1. CASE s = {}
      BY <3>1 DEF refold
    <3>2. CASE s # {}
      <4> DEFINE t == s \ {Max(s)}
      <4>1. t \in SUBSET S /\ Cardinality(t) <= n
        BY <1>0, <1>t, <2>2, <3>2
      <4>2. h[t] = g[t]
        BY <2>1, <4>1
      <4>3. /\ h[s] = step(op, g[t], p[Max(s)])
            /\ refold(op, base, p, S, h)[s] = step(op, h[t], p[Max(s)])
        BY <3>2 DEF refold
      <4> QED
        BY <4>2, <4>3
    <3> QED
      BY <3>1, <3>2
  <2>3. Solves(h, n + 1)
    BY <2>2
  <2> QED
    BY <2>3
<1>3. Cardinality(S) \in Solved
  <2> HIDE DEF Solved
  <2> QED
    BY <1>0, <1>1, <1>2, InductionOnNat
<1>4. PICK g : Solves(g, Cardinality(S))
  BY <1>3
<1> DEFINE h == refold(op, base, p, S, g)
<1>5. \A s \in SUBSET S : h[s] = g[s]
  BY <1>0, <1>4, FS_Subset
<1>6. h = refold(op, base, p, S, h)
  BY <1>5, <1>t DEF refold
<1> HIDE DEF h
<1> QED
  BY <1>6 DEF fold, S

\* A fold goes through the sequence from its first element to its last: F[k]
\* is the value after k elements.
LEMMA FoldSteps ==
  ASSUME NEW op, NEW base, NEW p, NEW m \in Nat
  PROVE  \E F : /\ F[0] = base
                /\ \A k \in 1 .. m : F[k] = step(op, F[k - 1], p[k])
                /\ F[m] = fold(op, base, p, 1 .. m)[1 .. m]
<1> DEFINE g == fold(op, base, p, 1 .. m)
           F == [k \in 0 .. m |-> g[1 .. k]]
<1>1. g = refold(op, base, p, 1 .. m, g)
  BY FoldEquation
<1> HIDE DEF g
<1>2. F[0] = base
  <2>1. 1 .. 0 = {} /\ 0 \in 0 .. m /\ {} \in SUBSET (1 .. m)
    OBVIOUS
  <2>2. g[{}] = base
    BY <1>1, <2>1 DEF refold
  <2> QED
    BY <2>1, <2>2
<1>3. ASSUME NEW k \in 1 .. m PROVE F[k] = step(op, F[k - 1], p[k])
  <2> DEFINE s == 1 .. k
  <2>1. s \in SUBSET (1 .. m) /\ s # {} /\ k \in s
    OBVIOUS
  <2>2. Max(s) = k
    <3>1. Max(s) \in s /\ k <= Max(s)
      BY <2>1, MaxIndex
    <3> QED
      BY <3>1
  <2>3. s \ {k} = 1 .. k - 1 /\ k \in 0 .. m /\ k - 1 \in 0 .. m
    OBVIOUS
  <2>4. g[s] = step(op, g[s \ {Max(s)}], p[Max(s)])
    BY <1>1, <2>1 DEF refold
  <2> QED
    BY <2>2, <2>3, <2>4
<1>4. F[m] = g[1 .. m]
  OBVIOUS
<1> QED
  BY <1>2, <1>3, <1>4 DEF g

(***************************************************************************)
(* The tree.                                                               *)
(***************************************************************************)
\* What getLayers promises of every layer, given the layers below it.
layersAbove(elements, g) ==
  [n \in 0 .. Len(elements) |-> IF n = 0 THEN elements ELSE getNextLayer(g[n - 1])]

\* The recursive definition of the layers has a solution.
LEMMA LayersEquation ==
  ASSUME NEW elements, Len(elements) \in Nat
  PROVE  getLayers(elements) = layersAbove(elements, getLayers(elements))
<1> DEFINE N == Len(elements)
           Solves(g, k) ==
             \A n \in 0 .. N : n <= k => g[n] = layersAbove(elements, g)[n]
           Solved == {k \in Nat : \E g : Solves(g, k)}
<1>1. 0 \in Solved
  <2> DEFINE g == [n \in 0 .. N |-> elements]
  <2>1. Solves(g, 0)
    BY DEF layersAbove
  <2> QED
    BY <2>1
<1>2. ASSUME NEW k \in Nat, k \in Solved PROVE k + 1 \in Solved
  <2>1. PICK g : Solves(g, k)
    BY <1>2
  <2> DEFINE h == layersAbove(elements, g)
  <2>2. ASSUME NEW n \in 0 .. N, n <= k + 1 PROVE h[n] = layersAbove(elements, h)[n]
    <3>1. CASE n = 0
      BY <3>1 DEF layersAbove
    <3>2. CASE n # 0
      <4>1. n - 1 \in 0 .. N /\ n - 1 <= k
        BY <2>2, <3>2
      <4>2. h[n - 1] = g[n - 1]
        BY <2>1, <4>1
      <4>3. h[n] = getNextLayer(g[n - 1])
            /\ layersAbove(elements, h)[n] = getNextLayer(h[n - 1])
        BY <3>2 DEF layersAbove
      <4> QED
        BY <4>2, <4>3
    <3> QED
      BY <3>1, <3>2
  <2>3. Solves(h, k + 1)
    BY <2>2
  <2> QED
    BY <2>3
<1>3. N \in Solved
  <2> HIDE DEF Solved
  <2> QED
    BY <1>1, <1>2, InductionOnNat
<1>4. PICK g : Solves(g, N)
  BY <1>3
<1> DEFINE h == layersAbove(elements, g)
<1>5. \A n \in 0 .. N : h[n] = g[n]
  BY <1>4
<1>6. h = layersAbove(elements, h)
  <2>1. \A n \in 0 .. N : n # 0 => n - 1 \in 0 .. N
    OBVIOUS
  <2> QED
    BY <1>5, <2>1 DEF layersAbove
<1> HIDE DEF h
<1>7. getLayers(elements) = CHOOSE f : f = layersAbove(elements, f)
  BY DEF getLayers, layersAbove
<1> QED
  BY <1>6, <1>7

\* A layer: a sequence with at least one element.
IsLayer(l) == Len(l) \in Nat /\ Len(l) > 0 /\ DOMAIN l = 1 .. Len(l)

\* An element of the next layer is an element that has no pair, or the hash of two.
LEMMA NextLayer ==
  ASSUME NEW l, IsLayer(l)
  PROVE  /\ IsLayer(getNextLayer(l))
         /\ \A k \in DOMAIN getNextLayer(l) :
              \/ \E i \in DOMAIN l : getNextLayer(l)[k] = l[i]
              \/ \E i, j \in DOMAIN l : getNextLayer(l)[k] = <<"hash", {l[i], l[j]}>>
<1> DEFINE w == (Len(l) + 1) \div 2
<1>1. w \in Nat /\ w > 0 /\ 2 * w <= Len(l) + 1 /\ Len(l) \in Nat
  BY DEF IsLayer
<1> HIDE DEF w
<1>2. getNextLayer(l) = [k \in 1 .. w |->
                           combinedHash(ElementAt(l, 2 * k - 2), ElementAt(l, 2 * k - 1))]
  BY DEF getNextLayer, w
<1>3. DOMAIN getNextLayer(l) = 1 .. w /\ Len(getNextLayer(l)) = w
  BY <1>1, <1>2
<1>4. IsLayer(getNextLayer(l))
  BY <1>1, <1>3 DEF IsLayer
<1>5. ASSUME NEW k \in 1 .. w
      PROVE  \/ \E i \in DOMAIN l : getNextLayer(l)[k] = l[i]
             \/ \E i, j \in DOMAIN l : getNextLayer(l)[k] = <<"hash", {l[i], l[j]}>>
  <2> DEFINE u == ElementAt(l, 2 * k - 2)
             v == ElementAt(l, 2 * k - 1)
  <2>1. getNextLayer(l)[k] = combinedHash(u, v)
    BY <1>2
  <2>2. u = l[2 * k - 1] /\ 2 * k - 1 \in DOMAIN l
    <3>1. 2 * k - 2 < Len(l) /\ 2 * k - 2 + 1 = 2 * k - 1 /\ 2 * k - 1 \in 1 .. Len(l)
      BY <1>1
    <3> QED
      BY <3>1 DEF ElementAt, IsLayer
  <2>3. CASE v = NoPair
    BY <2>1, <2>2, <2>3 DEF combinedHash
  <2>4. CASE v # NoPair
    <3>1. 2 * k - 1 < Len(l)
      BY <2>4 DEF ElementAt
    <3>2. v = l[2 * k] /\ 2 * k \in DOMAIN l
      <4>1. 2 * k - 1 + 1 = 2 * k /\ 2 * k \in 1 .. Len(l)
        BY <1>1, <3>1
      <4> QED
        BY <3>1, <4>1 DEF ElementAt, IsLayer
    <3>3. combinedHash(u, v) = <<"hash", {u, v}>>
      BY <2>4 DEF combinedHash
    <3>4. getNextLayer(l)[k] = <<"hash", {l[2 * k - 1], l[2 * k]}>>
      BY <2>1, <2>2, <3>2, <3>3, Zenon
    <3> QED
      BY <2>2, <3>2, <3>4
  <2> QED
    BY <2>3, <2>4
<1> QED
  BY <1>3, <1>4, <1>5

\* Everything that is hashed on the way from the leaves to the root.
Nodes(leaves) ==
  UNION {{getLayers(leaves)[n][i] : i \in DOMAIN getLayers(leaves)[n]} :
           n \in 0 .. Len(leaves)}

\* The sequences that a tree is built of: entries are hashed with the tag of a leaf.
AreLeaves(leaves) == IsLayer(leaves) /\ \A i \in DOMAIN leaves : leaves[i][1] = "leaf"

\* A node is a leaf, or the hash of two nodes; the root is a node.
LEMMA NodesAreBuilt ==
  ASSUME NEW leaves, AreLeaves(leaves)
  PROVE  /\ \A x \in Nodes(leaves) :
              \/ \E i \in DOMAIN leaves : x = leaves[i]
              \/ \E u, v \in Nodes(leaves) : x = <<"hash", {u, v}>>
         /\ getRoot(leaves) \in Nodes(leaves)
<1> DEFINE N == Len(leaves)
           L == getLayers(leaves)
           G == Nodes(leaves)
           Built(x) == \/ \E i \in DOMAIN leaves : x = leaves[i]
                       \/ \E u, v \in G : x = <<"hash", {u, v}>>
           Done == {n \in Nat : n <= N => /\ IsLayer(L[n])
                                          /\ \A i \in DOMAIN L[n] : Built(L[n][i])}
<1>0. N \in Nat /\ N > 0
  BY DEF AreLeaves, IsLayer
<1>1. /\ L[0] = leaves
      /\ \A n \in 1 .. N : L[n] = getNextLayer(L[n - 1])
  <2>1. L = layersAbove(leaves, L)
    BY <1>0, LayersEquation
  <2> HIDE DEF L
  <2>2. 0 \in 0 .. N /\ \A n \in 1 .. N : n \in 0 .. N /\ n # 0
    BY <1>0
  <2> QED
    BY <2>1, <2>2 DEF layersAbove
<1>2. \A n \in 0 .. N : \A i \in DOMAIN L[n] : L[n][i] \in G
  BY DEF Nodes
<1>3. \A x \in G : \E n \in 0 .. N : \E i \in DOMAIN L[n] : x = L[n][i]
  BY Zenon DEF Nodes
<1>r. getRoot(leaves) = L[N][1]
  BY DEF getRoot
<1> HIDE DEF L, G, N
<1>4. 0 \in Done
  BY <1>1 DEF AreLeaves
<1>5. ASSUME NEW n \in Nat, n \in Done PROVE n + 1 \in Done
  <2> SUFFICES ASSUME n + 1 <= N
               PROVE  /\ IsLayer(L[n + 1])
                      /\ \A i \in DOMAIN L[n + 1] : Built(L[n + 1][i])
    OBVIOUS
  <2>1. n \in 0 .. N /\ n + 1 \in 1 .. N /\ (n + 1) - 1 = n
    BY <1>0
  <2>2. L[n + 1] = getNextLayer(L[n])
    BY <1>1, <2>1
  <2>3. IsLayer(L[n]) /\ \A i \in DOMAIN L[n] : Built(L[n][i])
    BY <1>5, <2>1
  <2>4. ASSUME NEW i \in DOMAIN L[n + 1] PROVE Built(L[n + 1][i])
    <3>1. \/ \E j \in DOMAIN L[n] : L[n + 1][i] = L[n][j]
          \/ \E j, k \in DOMAIN L[n] : L[n + 1][i] = <<"hash", {L[n][j], L[n][k]}>>
      BY <2>2, <2>3, NextLayer
    <3>2. \A j \in DOMAIN L[n] : L[n][j] \in G
      BY <1>2, <2>1
    <3> QED
      BY <2>3, <3>1, <3>2, Zenon
  <2> QED
    BY <2>2, <2>3, <2>4, NextLayer
<1>6. \A n \in 0 .. N : n \in Done
  <2> HIDE DEF Done
  <2>1. Nat \subseteq Done
    BY <1>4, <1>5, InductionOnNat
  <2> QED
    BY <1>0, <2>1
<1>7. \A n \in 0 .. N : IsLayer(L[n]) /\ \A i \in DOMAIN L[n] : Built(L[n][i])
  BY <1>0, <1>6
<1>8. \A x \in G : Built(x)
  <2> HIDE DEF Built
  <2> QED
    BY <1>3, <1>7
<1>9. L[N][1] \in G
  <2>1. N \in 0 .. N
    BY <1>0
  <2>2. 1 \in DOMAIN L[N]
    BY <1>7, <2>1 DEF IsLayer
  <2> QED
    BY <1>2, <2>1, <2>2
<1> QED
  BY <1>8, <1>9, <1>r DEF G

\* What was hashed into a node is a node, and a leaf among them is one of the tree's.
LEMMA NodesGoDown ==
  ASSUME NEW leaves, AreLeaves(leaves), NEW x, NEW y
  PROVE  /\ combinedHash(x, y) \in Nodes(leaves) => x \in Nodes(leaves)
         /\ x \in Nodes(leaves) /\ x[1] = "leaf" => \E i \in DOMAIN leaves : x = leaves[i]
<1> DEFINE G == Nodes(leaves)
<1>1. \A z \in G : \/ \E i \in DOMAIN leaves : z = leaves[i]
                   \/ \E u, v \in G : z = <<"hash", {u, v}>>
  BY NodesAreBuilt
<1>2. \A i \in DOMAIN leaves : leaves[i][1] = "leaf"
  BY DEF AreLeaves
<1> HIDE DEF G
<1>3. ASSUME combinedHash(x, y) \in G, y # NoPair PROVE x \in G
  <2> DEFINE h == <<"hash", {x, y}>>
  <2>1. combinedHash(x, y) = h
    BY <1>3 DEF combinedHash
  <2>2. h[1] = "hash" /\ h[2] = {x, y}
    OBVIOUS
  <2>3. PICK u, v \in G : h = <<"hash", {u, v}>>
    <3>1. h \in G
      BY <1>3, <2>1
    <3>2. \A i \in DOMAIN leaves : h # leaves[i]
      BY <1>2, <2>2
    <3> HIDE DEF h
    <3> QED
      BY <1>1, <3>1, <3>2
  <2>4. {x, y} = {u, v}
    BY <2>3
  <2> QED
    BY <2>4
<1>4. combinedHash(x, y) \in G => x \in G
  BY <1>3 DEF combinedHash
<1>5. ASSUME x \in G, x[1] = "leaf" PROVE \E i \in DOMAIN leaves : x = leaves[i]
  <2>1. \A u, v : <<"hash", {u, v}>>[1] = "hash"
    OBVIOUS
  <2> QED
    BY <1>1, <1>5, <2>1
<1> QED
  BY <1>4, <1>5 DEF G

\* A proof that leads a leaf to the root, whatever its elements, proves that the
\* leaf is one of those the tree was built of.
LEMMA ProofsAreSound ==
  ASSUME NEW leaves, AreLeaves(leaves), NEW node, node[1] = "leaf",
         NEW p, NEW m \in Nat, DOMAIN p = 1 .. m,
         verifyProof(node, p, getRoot(leaves))
  PROVE  \E i \in DOMAIN leaves : node = leaves[i]
<1>1. PICK F : /\ F[0] = node
               /\ \A k \in 1 .. m : F[k] = step("hash", F[k - 1], p[k])
               /\ F[m] = fold("hash", node, p, 1 .. m)[1 .. m]
  BY FoldSteps
<1>2. F[m] = getRoot(leaves)
  BY <1>1, HashFold DEF verifyProof
<1>3. \A k \in 1 .. m : F[k] = combinedHash(F[k - 1], p[k])
  BY <1>1 DEF step
<1> DEFINE Done == {n \in Nat : n <= m => F[m - n] \in Nodes(leaves)}
<1>4. 0 \in Done
  BY <1>2, NodesAreBuilt
<1>5. ASSUME NEW n \in Nat, n \in Done PROVE n + 1 \in Done
  <2> SUFFICES ASSUME n + 1 <= m PROVE F[m - (n + 1)] \in Nodes(leaves)
    OBVIOUS
  <2>1. m - n \in 1 .. m /\ (m - n) - 1 = m - (n + 1)
    OBVIOUS
  <2>2. F[m - n] \in Nodes(leaves)
    BY <1>5
  <2>3. F[m - n] = combinedHash(F[m - (n + 1)], p[m - n])
    BY <1>3, <2>1
  <2>4. combinedHash(F[m - (n + 1)], p[m - n]) \in Nodes(leaves)
    BY <2>2, <2>3
  <2> QED
    BY <2>4, NodesGoDown
<1>6. m \in Done
  <2> HIDE DEF Done
  <2> QED
    BY <1>4, <1>5, InductionOnNat
<1>7. node \in Nodes(leaves)
  <2>1. m - m = 0 /\ m <= m
    OBVIOUS
  <2> QED
    BY <1>1, <1>6, <2>1
<1> QED
  BY <1>7, NodesGoDown

\* A published proof is a sequence.
LEMMA ProofsAreSequences ==
  ASSUME NEW elements, Len(elements) \in Nat, NEW idx
  PROVE  \E m \in Nat : DOMAIN getProof(elements, idx) = 1 .. m
<1> DEFINE w == Len(elements) + 1
           q == [n \in 1 .. w |->
                   getPairElement(idx \div 2^(n - 1), getLayers(elements)[n - 1])]
           Y == {q[k] : k \in 1 .. w}
<1>0. w \in Nat
  OBVIOUS
<1>1. getProof(elements, idx) = FoldLeft(push, <<>>, q)
  BY DEF getProof
<1>2. DOMAIN q = 1 .. w
  OBVIOUS
<1> HIDE DEF q, w
<1>3. PICK F : /\ F[0] = <<>>
               /\ \A k \in 1 .. w : F[k] = step("push", F[k - 1], q[k])
               /\ F[w] = fold("push", <<>>, q, 1 .. w)[1 .. w]
  BY <1>0, FoldSteps
<1>4. F[w] = getProof(elements, idx)
  BY <1>1, <1>2, <1>3, PushFold
<1>5. \A k \in 1 .. w : F[k] = push(F[k - 1], q[k]) /\ q[k] \in Y
  BY <1>3 DEF step
<1> HIDE DEF Y
<1> DEFINE Done == {n \in Nat : n <= w => F[n] \in Seq(Y)}
<1>6. 0 \in Done
  <2>1. <<>> \in Seq(Y)
    OBVIOUS
  <2>2. F[0] \in Seq(Y)
    BY <1>3, <2>1
  <2> QED
    BY <2>2
<1>7. ASSUME NEW n \in Nat, n \in Done PROVE n + 1 \in Done
  <2> SUFFICES ASSUME n + 1 <= w PROVE F[n + 1] \in Seq(Y)
    OBVIOUS
  <2>1. n + 1 \in 1 .. w /\ (n + 1) - 1 = n /\ n <= w
    BY <1>0
  <2>2. F[n] \in Seq(Y)
    BY <1>7, <2>1
  <2>3. F[n + 1] = push(F[n], q[n + 1]) /\ q[n + 1] \in Y
    BY <1>5, <2>1
  <2> QED
    BY <2>2, <2>3 DEF push
<1>8. w \in Done
  <2> HIDE DEF Done
  <2> QED
    BY <1>0, <1>6, <1>7, InductionOnNat
<1>9. getProof(elements, idx) \in Seq(Y)
  BY <1>0, <1>4, <1>8
<1> QED
  BY <1>9

(***************************************************************************)
(* The entries of a list that parses.                                      *)
(***************************************************************************)
\* The lines of a list.
LEMMA LinesTyped ==
  ASSUME NEW list \in Lists
  PROVE  \A k \in DOMAIN list : /\ list[k].address \in Addresses
                                /\ list[k].earnings \in Amounts \union {0}
<1> DEFINE R == [address : Addresses, earnings : Amounts \union {0}]
<1>1. list \in Seq(R)
  BY MerkleAirdropAssumption
<1>2. \A r \in R : r.address \in Addresses /\ r.earnings \in Amounts \union {0}
  OBVIOUS
<1> HIDE DEF R
<1>3. \A k \in DOMAIN list : list[k] \in R
  BY <1>1
<1> QED
  BY <1>2, <1>3

\* Addresses that sort differently have different positions, all of them below
\* the number of addresses.
LEMMA PositionsDiffer ==
  ASSUME NEW list \in Lists
  PROVE  /\ ListedAddresses(list) \subseteq Addresses
         /\ \A a \in ListedAddresses(list) : sortedAddresses(list)[a] \in Indices
         /\ \A a, b \in ListedAddresses(list) :
              sortedAddresses(list)[a] = sortedAddresses(list)[b] => a = b
<1> DEFINE S == ListedAddresses(list)
           Below(a) == {b \in S : b < a}
           n == Cardinality(Addresses)
<1>1. S \subseteq Addresses
  BY LinesTyped DEF ListedAddresses
<1>2. Addresses \subseteq Nat /\ IsFiniteSet(Addresses) /\ n \in Nat
  BY MerkleAirdropAssumption, FS_CardinalityType
<1>3. \A a \in S : sortedAddresses(list)[a] = Cardinality(Below(a))
  BY DEF sortedAddresses
<1> HIDE DEF S, n
<1>4. ASSUME NEW a \in S
      PROVE  IsFiniteSet(Below(a)) /\ Cardinality(Below(a)) \in 0 .. n - 1
  <2>0. a \in Nat /\ ~ (a < a)
    BY <1>1, <1>2
  <2>1. a \in Addresses /\ Below(a) \subseteq Addresses /\ a \notin Below(a)
    BY <1>1, <2>0
  <2>2. IsFiniteSet(Below(a)) /\ Cardinality(Below(a)) <= n /\ Cardinality(Below(a)) # n
    BY <1>2, <2>1, FS_Subset DEF n
  <2>3. Cardinality(Below(a)) \in Nat
    BY <2>2, FS_CardinalityType
  <2> QED
    BY <1>2, <2>2, <2>3
<1>5. ASSUME NEW a \in S, NEW b \in S, a < b
      PROVE  Cardinality(Below(a)) # Cardinality(Below(b))
  <2>0. a \in Nat /\ b \in Nat /\ ~ (a < a) /\ \A c \in S : c < a => c < b
    BY <1>1, <1>2, <1>5
  <2>1. Below(a) \subseteq Below(b) /\ a \in Below(b) /\ a \notin Below(a)
    BY <1>5, <2>0
  <2> QED
    BY <1>4, <2>1, FS_Subset
<1>6. ASSUME NEW a \in S, NEW b \in S, Cardinality(Below(a)) = Cardinality(Below(b))
      PROVE  a = b
  <2>1. a \in Nat /\ b \in Nat
    BY <1>1, <1>2
  <2>2. ~ (a < b) /\ ~ (b < a)
    <3> HIDE DEF Below
    <3> QED
      BY <1>5, <1>6
  <2> QED
    BY <2>1, <2>2
<1> HIDE DEF Below
<1>7. \A a \in S : sortedAddresses(list)[a] \in Indices
  BY <1>3, <1>4 DEF Indices, n
<1>8. \A a, b \in S : sortedAddresses(list)[a] = sortedAddresses(list)[b] => a = b
  BY <1>3, <1>6
<1> QED
  BY <1>1, <1>7, <1>8 DEF S

PossibleEntries == [index : Indices, account : Accounts, amount : Amounts]

\* Each entry has an index of its own, the account of its address and a listed amount.
LEMMA EntriesTyped ==
  ASSUME NEW list \in Lists, Parses(list)
  PROVE  /\ EntriesOf(list) \in SUBSET PossibleEntries
         /\ EntriesOf(list) # {} /\ IsFiniteSet(EntriesOf(list))
         /\ \A d, e \in EntriesOf(list) : d.index = e.index => d = e
<1> DEFINE S == ListedAddresses(list)
           E(a) == Entry(sortedAddresses(list)[a], AccountOf[a], amountOf(list, a))
<1>0. EntriesOf(list) = {E(a) : a \in S}
  BY DEF EntriesOf
<1>1. /\ S \subseteq Addresses
      /\ \A a \in S : sortedAddresses(list)[a] \in Indices
      /\ \A a, b \in S : sortedAddresses(list)[a] = sortedAddresses(list)[b] => a = b
  BY PositionsDiffer
<1>2. \A a \in S : AccountOf[a] \in Accounts
  BY <1>1 DEF Accounts
<1>3. ASSUME NEW a \in S PROVE amountOf(list, a) \in Amounts
  <2> DEFINE k == CHOOSE k \in DOMAIN list : list[k].address = a
  <2>1. k \in DOMAIN list
    BY DEF ListedAddresses
  <2>2. amountOf(list, a) = list[k].earnings
    BY DEF amountOf
  <2> HIDE DEF k
  <2>3. list[k].earnings \in Amounts \union {0} /\ list[k].earnings > 0
    BY <2>1, LinesTyped DEF Parses
  <2>4. ~ (0 > 0)
    OBVIOUS
  <2> QED
    BY <2>2, <2>3, <2>4
<1>4. S # {}
  <2>1. list # <<>> /\ \E R : list \in Seq(R)
    BY MerkleAirdropAssumption DEF Parses
  <2>2. 1 \in DOMAIN list
    BY <2>1
  <2> QED
    BY <2>2 DEF ListedAddresses
<1>5. IsFiniteSet(S)
  BY <1>1, MerkleAirdropAssumption, FS_Subset
<1>6. \A a : E(a).index = sortedAddresses(list)[a]
  BY DEF Entry
<1>7. \A a \in S : E(a) \in PossibleEntries
  BY <1>1, <1>2, <1>3 DEF Entry, PossibleEntries
<1> HIDE DEF E, S
<1>8. EntriesOf(list) \in SUBSET PossibleEntries /\ EntriesOf(list) # {}
  BY <1>0, <1>4, <1>7
<1>9. \A d, e \in EntriesOf(list) : d.index = e.index => d = e
  BY <1>0, <1>1, <1>6
<1>10. IsFiniteSet(EntriesOf(list))
  <2> DEFINE f == [a \in S |-> E(a)]
  <2>1. f \in Surjection(S, EntriesOf(list))
    BY <1>0 DEF Surjection
  <2> QED
    BY <1>5, <2>1, FS_Surjection
<1> QED
  BY <1>8, <1>9, <1>10

\* The leaves of a set of entries, in any order: they make a tree, and each is
\* the leaf of an entry.
LEMMA LeavesOfEntries ==
  ASSUME NEW entries, IsFiniteSet(entries), entries # {},
         NEW leaves \in SetToSeqs({LeafOf(e) : e \in entries})
  PROVE  /\ AreLeaves(leaves)
         /\ \A i \in DOMAIN leaves : \E e \in entries : leaves[i] = LeafOf(e)
<1> DEFINE T == {LeafOf(e) : e \in entries}
           n == Cardinality(T)
<1>1. IsFiniteSet(T) /\ T # {}
  <2> DEFINE f == [e \in entries |-> LeafOf(e)]
  <2>1. f \in Surjection(entries, T)
    BY DEF Surjection
  <2> QED
    BY <2>1, FS_Surjection
<1>2. n \in Nat /\ n # 0
  <2> HIDE DEF T
  <2> QED
    BY <1>1, FS_CardinalityType, FS_EmptySet
<1>3. \A x \in T : (\E e \in entries : x = LeafOf(e)) /\ x[1] = "leaf"
  BY DEF LeafOf, toNode
<1>4. leaves \in [1 .. n -> T]
  BY DEF SetToSeqs
<1> HIDE DEF T, n
<1>5. DOMAIN leaves = 1 .. n /\ Len(leaves) = n /\ \A i \in 1 .. n : leaves[i] \in T
  BY <1>2, <1>4
<1> QED
  BY <1>2, <1>3, <1>5 DEF AreLeaves, IsLayer

\* Nobody claims what is not an entry: a proof leads to the published root only
\* from the leaf of an entry.
LEMMA OnlyEntriesAreProved ==
  ASSUME NEW list \in Lists, Parses(list),
         NEW leaves \in SetToSeqs({LeafOf(e) : e \in EntriesOf(list)}),
         NEW index, NEW account, NEW amount,
         NEW p, NEW m \in Nat, DOMAIN p = 1 .. m,
         verifyProof(toNode(index, account, amount), p, getRoot(leaves))
  PROVE  \E e \in EntriesOf(list) :
           e.index = index /\ e.account = account /\ e.amount = amount
<1> DEFINE node == toNode(index, account, amount)
<1>1. /\ AreLeaves(leaves)
      /\ \A i \in DOMAIN leaves : \E e \in EntriesOf(list) : leaves[i] = LeafOf(e)
  BY EntriesTyped, LeavesOfEntries
<1>2. node[1] = "leaf"
  BY DEF toNode
<1>3. \E i \in DOMAIN leaves : node = leaves[i]
  <2> HIDE DEF node
  <2>1. verifyProof(node, p, getRoot(leaves))
    BY DEF node
  <2> QED
    BY <1>1, <1>2, <2>1, ProofsAreSound
<1>4. PICK e \in EntriesOf(list) : node = LeafOf(e)
  BY <1>1, <1>3
<1>5. e.index = index /\ e.account = account /\ e.amount = amount
  BY <1>4 DEF LeafOf, toNode
<1> QED
  BY <1>5

(***************************************************************************)
(* The distributor.                                                        *)
(***************************************************************************)
\* A position in the bitmap is the position of one index.
LEMMA BitsDiffer ==
  ASSUME NEW i \in Nat, NEW j \in Nat,
         i \div WordSize = j \div WordSize, i % WordSize = j % WordSize
  PROVE  i = j
<1>1. WordSize \in Nat \ {0}
  BY MerkleAirdropAssumption
<1>2. ASSUME NEW k \in Nat PROVE k = WordSize * (k \div WordSize) + (k % WordSize)
  BY <1>1
<1> QED
  BY <1>2

Words == 0 .. Cardinality(Addresses) \div WordSize

\* Every index has its bit.
LEMMA IndexInMap ==
  ASSUME NEW i \in Indices
  PROVE  i \in Nat /\ i \div WordSize \in Words
<1> DEFINE n == Cardinality(Addresses)
<1>1. WordSize \in Nat \ {0} /\ n \in Nat
  BY MerkleAirdropAssumption, FS_CardinalityType
<1>2. i \in Nat /\ i <= n
  BY <1>1 DEF Indices
<1> HIDE DEF n
<1>3. i \div WordSize <= n \div WordSize /\ i \div WordSize \in Nat /\ n \div WordSize \in Nat
  <2> DEFINE q == i \div WordSize
             r == n \div WordSize
  <2>1. /\ q \in Nat /\ WordSize * q <= i
        /\ r \in Nat /\ n < WordSize * r + WordSize
    BY <1>1, <1>2
  <2> HIDE DEF q, r
  <2>2. ASSUME q > r PROVE FALSE
    <3>1. q >= r + 1
      BY <2>1, <2>2
    <3>2. WordSize * q >= WordSize * (r + 1)
      BY <1>1, <2>1, <3>1
    <3> QED
      BY <1>1, <1>2, <2>1, <3>2
  <2> QED
    BY <2>1, <2>2 DEF q, r
<1> QED
  BY <1>2, <1>3 DEF Words, n

\* setClaimed sets the bit of one index and leaves those of the others.
LEMMA SetClaimedSetsOne ==
  ASSUME claimedBitMap \in [Words -> SUBSET Nat],
         NEW i \in Indices, NEW j \in Indices
  PROVE  /\ setClaimed(i) \in [Words -> SUBSET Nat]
         /\ j % WordSize \in setClaimed(i)[j \div WordSize] <=> (isClaimed(j) \/ j = i)
<1>1. /\ i \in Nat /\ i \div WordSize \in Words
      /\ j \in Nat /\ j \div WordSize \in Words
  BY IndexInMap
<1>2. i % WordSize \in Nat /\ j % WordSize \in Nat
  BY <1>1, MerkleAirdropAssumption
<1>3. i \div WordSize = j \div WordSize /\ i % WordSize = j % WordSize => i = j
  BY <1>1, BitsDiffer
<1> DEFINE a == i \div WordSize
           b == i % WordSize
           c == j \div WordSize
           d == j % WordSize
<1>4. /\ setClaimed(i) = [claimedBitMap EXCEPT ![a] = @ \union {b}]
      /\ isClaimed(j) <=> d \in claimedBitMap[c]
      /\ a \in Words /\ c \in Words /\ b \in Nat /\ d \in Nat
      /\ (a = c /\ b = d) <=> i = j
  BY <1>1, <1>2, <1>3 DEF setClaimed, isClaimed
<1> HIDE DEF a, b, c, d
<1>5. setClaimed(i) \in [Words -> SUBSET Nat]
  BY <1>4
<1>6. d \in setClaimed(i)[c] <=> (isClaimed(j) \/ j = i)
  BY <1>4
<1> QED
  BY <1>5, <1>6 DEF c, d

\* The inductive invariant: what was published was computed from the list, and
\* nothing is claimed before.
AirdropInv ==
  /\ balances \in Lists
  /\ claimedBitMap \in [Words -> SUBSET Nat]
  /\ phase \in {"parsing", "thrown", "published", "deployed", "funded"}
  /\ phase \in {"parsing", "thrown"} =>
       /\ info = NoInfo
       /\ claimedBitMap = [w \in Words |-> {}]
       /\ received = [a \in Accounts |-> 0]
  /\ phase \notin {"parsing", "thrown"} =>
       /\ Parses(balances)
       /\ \E leaves \in SetToSeqs({LeafOf(e) : e \in EntriesOf(balances)}) :
            info = InfoOf(EntriesOf(balances), leaves)

\* The entries of what was published are those of the list, each with a sequence
\* for a proof.
LEMMA PublishedEntries ==
  ASSUME AirdropInv, phase \notin {"parsing", "thrown"}
  PROVE  /\ Entries = EntriesOf(balances)
         /\ Entries \in SUBSET PossibleEntries
         /\ \A d, e \in Entries : d.index = e.index => d = e
         /\ \A p \in KnownProofs : \E m \in Nat : DOMAIN p = 1 .. m
<1>1. PICK leaves \in SetToSeqs({LeafOf(e) : e \in EntriesOf(balances)}) :
             info = InfoOf(EntriesOf(balances), leaves)
  BY DEF AirdropInv
<1>2. balances \in Lists /\ Parses(balances)
  BY DEF AirdropInv
<1>3. Entries = EntriesOf(balances)
  BY <1>1 DEF Entries, InfoOf
<1>4. /\ Entries \in SUBSET PossibleEntries /\ Entries # {} /\ IsFiniteSet(Entries)
      /\ \A d, e \in Entries : d.index = e.index => d = e
  BY <1>2, <1>3, EntriesTyped
<1>5. Len(leaves) \in Nat
  BY <1>3, <1>4, LeavesOfEntries DEF AreLeaves, IsLayer
<1>6. ASSUME NEW e \in Entries PROVE \E m \in Nat : DOMAIN info.claims[e] = 1 .. m
  <2>1. \E i : info.claims[e] = getProof(leaves, i)
    BY <1>1, <1>3 DEF InfoOf
  <2> QED
    BY <1>5, <2>1, ProofsAreSequences
<1>7. DOMAIN <<>> = 1 .. 0
  OBVIOUS
<1>8. ASSUME NEW p \in KnownProofs PROVE \E m \in Nat : DOMAIN p = 1 .. m
  <2>1. p = <<>> \/ \E e \in Entries : p = info.claims[e]
    BY DEF KnownProofs
  <2> QED
    BY <1>6, <1>7, <2>1
<1> QED
  BY <1>3, <1>4, <1>8

\* A claim that succeeds is the claim of an entry that has not been paid, and
\* that entry alone becomes claimed.
LEMMA ClaimPaysOneEntry ==
  ASSUME AirdropInv, NEW i \in Indices, NEW a \in Accounts, NEW x \in Amounts,
         NEW p \in KnownProofs, claim(i, a, x, p)
  PROVE  /\ AirdropInv'
         /\ \E e \in PossibleEntries : Airdrop!Pay(e) /\ e.amount = x
<1>1. phase \in {"deployed", "funded"} /\ phase \notin {"parsing", "thrown"}
  BY DEF claim
<1>2. PICK leaves \in SetToSeqs({LeafOf(e) : e \in EntriesOf(balances)}) :
             info = InfoOf(EntriesOf(balances), leaves)
  BY <1>1 DEF AirdropInv
<1>3. /\ balances \in Lists /\ Parses(balances)
      /\ claimedBitMap \in [Words -> SUBSET Nat]
  BY <1>1 DEF AirdropInv
<1>4. /\ Entries = EntriesOf(balances)
      /\ Entries \in SUBSET PossibleEntries
      /\ \A d, e \in Entries : d.index = e.index => d = e
  BY <1>1, PublishedEntries
<1>5. PICK e \in Entries : e.index = i /\ e.account = a /\ e.amount = x
  <2>1. PICK m \in Nat : DOMAIN p = 1 .. m
    BY <1>1, PublishedEntries
  <2>2. verifyProof(toNode(i, a, x), p, getRoot(leaves))
    BY <1>2 DEF claim, InfoOf
  <2> QED
    BY <1>3, <1>4, <2>1, <2>2, OnlyEntriesAreProved
<1>6. /\ ~ isClaimed(i) /\ claimedBitMap' = setClaimed(i)
      /\ received' = [received EXCEPT ![a] = @ + x]
      /\ UNCHANGED <<balances, phase, info>>
  BY DEF claim
<1>7. claimedBitMap' \in [Words -> SUBSET Nat]
  BY <1>3, <1>6, SetClaimedSetsOne
<1>8. AirdropInv'
  <2>1. /\ Parses(balances)'
        /\ (\E l \in SetToSeqs({LeafOf(d) : d \in EntriesOf(balances)}) :
              info = InfoOf(EntriesOf(balances), l))'
    <3>1. balances' = balances /\ info' = info
      BY <1>6
    <3> QED
      BY <1>2, <1>3, <3>1
  <2> QED
    BY <1>1, <1>3, <1>6, <1>7, <2>1 DEF AirdropInv
<1>9. ASSUME NEW d \in Entries
      PROVE  isClaimed(d.index)' <=> (isClaimed(d.index) \/ d.index = i)
  <2>1. d.index \in Indices
    BY <1>4 DEF PossibleEntries
  <2>2. isClaimed(d.index)' <=> d.index % WordSize \in setClaimed(i)[d.index \div WordSize]
    BY <1>6 DEF isClaimed
  <2> QED
    BY <1>3, <2>1, <2>2, SetClaimedSetsOne
<1>10. Entries' = Entries
  BY <1>6 DEF Entries
<1>11. e \in Unclaimed /\ Unclaimed' = Unclaimed \ {e}
  <2>1. Unclaimed = {d \in Entries : ~ isClaimed(d.index)}
    BY DEF Unclaimed
  <2>2. Unclaimed' = {d \in Entries : ~ isClaimed(d.index)'}
    BY <1>10 DEF Unclaimed
  <2>3. \A d \in Entries : ~ isClaimed(d.index)' <=> (~ isClaimed(d.index) /\ d # e)
    BY <1>4, <1>5, <1>9
  <2> QED
    BY <1>5, <1>6, <2>1, <2>2, <2>3
<1>12. Airdrop!Pay(e)
  BY <1>5, <1>6, <1>11 DEF Airdrop!Pay
<1> QED
  BY <1>4, <1>5, <1>8, <1>12

\* Parsing publishes the list as a promise, or nothing at all.
LEMMA ParsingPromises ==
  ASSUME AirdropInv, parseBalanceMap
  PROVE  AirdropInv' /\ (Airdrop!Promise \/ UNCHANGED <<Unclaimed, received>>)
<1>1. /\ phase = "parsing" /\ info = NoInfo /\ balances \in Lists
      /\ claimedBitMap = [w \in Words |-> {}] /\ received = [a \in Accounts |-> 0]
  BY DEF AirdropInv, parseBalanceMap
<1>2. UNCHANGED <<balances, held, claimedBitMap, received>>
  BY DEF parseBalanceMap
<1>3. Unclaimed = {}
  BY <1>1 DEF Unclaimed, Entries, NoInfo
<1>4. CASE Parses(balances)
  <2>1. PICK leaves \in SetToSeqs({LeafOf(e) : e \in EntriesOf(balances)}) :
               info' = InfoOf(EntriesOf(balances), leaves)
    BY <1>4, Zenon DEF parseBalanceMap
  <2>2. phase' = "published"
    BY <1>4 DEF parseBalanceMap
  <2>3. AirdropInv'
    <3>1. balances' = balances
      BY <1>2
    <3>2. /\ Parses(balances)'
          /\ (\E l \in SetToSeqs({LeafOf(d) : d \in EntriesOf(balances)}) :
                info = InfoOf(EntriesOf(balances), l))'
      BY <1>4, <2>1, <3>1
    <3>3. claimedBitMap' \in [Words -> SUBSET Nat]
      BY <1>1, <1>2
    <3> QED
      BY <1>1, <2>2, <3>1, <3>2, <3>3 DEF AirdropInv
  <2>4. Entries' = EntriesOf(balances)
    BY <2>1 DEF Entries, InfoOf
  <2>5. /\ EntriesOf(balances) \in SUBSET PossibleEntries
        /\ EntriesOf(balances) # {}
    BY <1>1, <1>4, EntriesTyped
  <2>6. ASSUME NEW e \in EntriesOf(balances) PROVE ~ isClaimed(e.index)'
    <3>1. e.index \in Indices
      BY <2>5 DEF PossibleEntries
    <3>2. e.index \div WordSize \in Words
      BY <3>1, IndexInMap
    <3> QED
      BY <1>1, <1>2, <3>2 DEF isClaimed
  <2>7. Unclaimed' = EntriesOf(balances)
    <3>1. Unclaimed' = {e \in EntriesOf(balances) : ~ isClaimed(e.index)'}
      BY <2>4 DEF Unclaimed
    <3> QED
      BY <2>6, <3>1
  <2>8. Airdrop!Promise
    BY <1>1, <1>2, <1>3, <2>5, <2>7 DEF Airdrop!Promise, PossibleEntries
  <2> QED
    BY <2>3, <2>8
<1>5. CASE ~ Parses(balances)
  <2>1. phase' = "thrown" /\ UNCHANGED <<balances, info, claimedBitMap, received>>
    BY <1>5 DEF parseBalanceMap
  <2>2. AirdropInv'
    BY <1>1, <2>1 DEF AirdropInv
  <2>3. Unclaimed' = Unclaimed
    BY <2>1 DEF Unclaimed, Entries, isClaimed
  <2> QED
    BY <2>1, <2>2, <2>3
<1> QED
  BY <1>4, <1>5

\* Deploying and funding change nothing that is promised.
LEMMA OtherStepsStutter ==
  ASSUME AirdropInv, deploy \/ fund \/ UNCHANGED vars
  PROVE  AirdropInv' /\ UNCHANGED <<Unclaimed, received>>
<1>1. UNCHANGED <<balances, info, claimedBitMap, received>>
  BY DEF deploy, fund, vars
<1>2. \/ phase' = phase
      \/ phase \notin {"parsing", "thrown"} /\ phase' \in {"deployed", "funded"}
  BY DEF deploy, fund, vars
<1>3. AirdropInv'
  <2>1. /\ Parses(balances)' <=> Parses(balances)
        /\ (\E l \in SetToSeqs({LeafOf(d) : d \in EntriesOf(balances)}) :
              info = InfoOf(EntriesOf(balances), l))'
           <=> (\E l \in SetToSeqs({LeafOf(d) : d \in EntriesOf(balances)}) :
                  info = InfoOf(EntriesOf(balances), l))
    <3>1. balances' = balances /\ info' = info
      BY <1>1
    <3> QED
      BY <3>1
  <2> QED
    BY <1>1, <1>2, <2>1 DEF AirdropInv
<1>4. Unclaimed' = Unclaimed
  BY <1>1 DEF Unclaimed, Entries, isClaimed
<1> QED
  BY <1>1, <1>3, <1>4

\* The airdrop implements Entitlements: the list becomes a promise once, and
\* whatever anybody claims with any published proof or the empty one, an entry
\* is paid to its account, in full and once, and nothing else is paid.  (That in the end every entry is
\* paid is checked by TLC.)
THEOREM AirdropKeepsItsPromise == Spec => Airdrop!Spec
<1>1. ASSUME Init PROVE AirdropInv /\ Airdrop!Init
  <2>1. AirdropInv
    BY <1>1 DEF Init, AirdropInv, Words
  <2>2. Unclaimed = {}
    BY <1>1 DEF Init, Unclaimed, Entries, NoInfo
  <2> QED
    BY <1>1, <2>1, <2>2 DEF Init, Airdrop!Init
<1>2. ASSUME AirdropInv, [Next]_vars
      PROVE  AirdropInv' /\ [Airdrop!Next]_<<Unclaimed, received>>
  <2>1. CASE parseBalanceMap
    BY <1>2, <2>1, ParsingPromises DEF Airdrop!Next
  <2>2. CASE Claim
    <3>1. PICK i \in Indices, a \in Accounts, x \in Amounts, p \in KnownProofs :
                claim(i, a, x, p)
      BY <2>2 DEF Claim
    <3> QED
      BY <1>2, <3>1, ClaimPaysOneEntry DEF Airdrop!Next, PossibleEntries
  <2>3. CASE deploy \/ fund \/ UNCHANGED vars
    BY <1>2, <2>3, OtherStepsStutter
  <2> QED
    BY <1>2, <2>1, <2>2, <2>3 DEF Next
<1>3. AirdropInv /\ [Next]_vars => AirdropInv' /\ [Airdrop!Next]_(Airdrop!vars)
  BY <1>2 DEF Airdrop!vars
<1> QED
  BY <1>1, <1>3, PTL DEF Spec, Airdrop!Spec

(***************************************************************************)
(* Solvency.  The distributor never learns the total: it is funded with    *)
(* tokenTotal from outside, and each claim transfers its amount out.  That *)
(* no claim fails for want of tokens is a matter of the sums.              *)
(***************************************************************************)
amounts == [e \in Entries |-> e.amount]

\* Once funded, the distributor holds exactly what is still unclaimed, so the
\* transfer in claim never fails for an entry that is owed, and nothing is left
\* when all have claimed.
TokensCoverClaims ==
  phase = "funded" => held = SumFunctionOnSet(amounts, Unclaimed)

\* Before it is funded nothing can be claimed: every amount is positive.
NothingBeforeFunding ==
  phase # "funded" => held = 0 /\ claimedBitMap = [w \in Words |-> {}]

SolventInv == AirdropInv /\ TokensCoverClaims /\ NothingBeforeFunding

\* The amounts of the entries are positive, and there are finitely many.
LEMMA AmountsTyped ==
  ASSUME AirdropInv
  PROVE  /\ IsFiniteSet(Entries) /\ Entries \in SUBSET PossibleEntries
         /\ \A e \in Entries : amounts[e] = e.amount /\ e.amount \in Nat \ {0}
<1>1. IsFiniteSet(Entries) /\ Entries \in SUBSET PossibleEntries
  <2>1. CASE phase \in {"parsing", "thrown"}
    <3>1. Entries = {}
      BY <2>1 DEF AirdropInv, Entries, NoInfo
    <3> QED
      BY <3>1, FS_EmptySet
  <2>2. CASE phase \notin {"parsing", "thrown"}
    <3>1. balances \in Lists /\ Parses(balances)
      BY <2>2 DEF AirdropInv
    <3> QED
      BY <2>2, <3>1, PublishedEntries, EntriesTyped
  <2> QED
    BY <2>1, <2>2
<1>2. ASSUME NEW e \in Entries PROVE amounts[e] = e.amount /\ e.amount \in Nat \ {0}
  <2>1. e.amount \in Amounts
    BY <1>1 DEF PossibleEntries
  <2> QED
    BY <2>1, MerkleAirdropAssumption DEF amounts
<1> QED
  BY <1>1, <1>2

\* While no bit is set, every entry is unclaimed.
LEMMA AllUnclaimed ==
  ASSUME AirdropInv, claimedBitMap = [w \in Words |-> {}]
  PROVE  Unclaimed = Entries
<1>1. ASSUME NEW e \in Entries PROVE ~ isClaimed(e.index)
  <2>1. e.index \in Indices
    BY AmountsTyped DEF PossibleEntries
  <2>2. e.index \div WordSize \in Words
    BY <2>1, IndexInMap
  <2> QED
    BY <2>2 DEF isClaimed
<1> QED
  BY <1>1 DEF Unclaimed

\* Each step keeps what is held equal to what is unclaimed.
LEMMA StepsStaySolvent ==
  ASSUME SolventInv, [Next]_vars
  PROVE  SolventInv'
<1>0. AirdropInv
  BY DEF SolventInv
<1>1. CASE parseBalanceMap
  <2>1. phase = "parsing" /\ phase' \in {"published", "thrown"}
    BY <1>1 DEF parseBalanceMap
  <2>2. UNCHANGED <<held, claimedBitMap>>
    BY <1>1 DEF parseBalanceMap
  <2> QED
    BY <1>0, <1>1, <2>1, <2>2, ParsingPromises
       DEF SolventInv, TokensCoverClaims, NothingBeforeFunding
<1>2. CASE deploy \/ UNCHANGED vars
  <2>1. AirdropInv' /\ UNCHANGED <<Unclaimed, received>>
    BY <1>0, <1>2, OtherStepsStutter
  <2>2. UNCHANGED <<info, held, claimedBitMap>>
    BY <1>2 DEF deploy, vars
  <2>3. phase' = phase \/ (phase # "funded" /\ phase' # "funded")
    BY <1>2 DEF deploy, vars
  <2>4. amounts' = amounts
    BY <2>2 DEF amounts, Entries
  <2> QED
    BY <2>1, <2>2, <2>3, <2>4 DEF SolventInv, TokensCoverClaims, NothingBeforeFunding
<1>3. CASE fund
  <2>1. AirdropInv' /\ Unclaimed' = Unclaimed
    BY <1>0, <1>3, OtherStepsStutter
  <2>2. /\ phase = "deployed" /\ phase' = "funded" /\ info' = info
        /\ held' = held + info.tokenTotal
    BY <1>3 DEF fund
  <2>3. held = 0 /\ Unclaimed = Entries
    BY <1>0, <2>2, AllUnclaimed DEF SolventInv, NothingBeforeFunding
  <2>4. amounts' = amounts
    BY <2>2 DEF amounts, Entries
  <2>5. info.tokenTotal = SumFunctionOnSet(amounts, Entries)
    <3>1. PICK leaves \in SetToSeqs({LeafOf(e) : e \in EntriesOf(balances)}) :
                 info = InfoOf(EntriesOf(balances), leaves)
      BY <1>0, <2>2 DEF AirdropInv
    <3>2. Entries = EntriesOf(balances)
      BY <1>0, <2>2, PublishedEntries
    <3>3. info.tokenTotal = SumFunction([e \in EntriesOf(balances) |-> e.amount])
      BY <3>1 DEF InfoOf
    <3> QED
      BY <3>2, <3>3 DEF SumFunction, amounts
  <2>6. SumFunctionOnSet(amounts, Entries) \in Nat
    BY <1>0, AmountsTyped, SumIsNat
  <2> QED
    BY <2>1, <2>2, <2>3, <2>4, <2>5, <2>6
       DEF SolventInv, TokensCoverClaims, NothingBeforeFunding
<1>4. CASE Claim
  <2>1. PICK i \in Indices, a \in Accounts, x \in Amounts, p \in KnownProofs :
              claim(i, a, x, p)
    BY <1>4 DEF Claim
  <2>2. PICK e \in PossibleEntries : Airdrop!Pay(e) /\ e.amount = x
    BY <1>0, <2>1, ClaimPaysOneEntry
  <2>3. /\ x <= held /\ held' = held - x /\ phase' = phase /\ info' = info
        /\ phase \in {"deployed", "funded"}
    BY <2>1 DEF claim
  <2>4. x \in Nat \ {0}
    BY MerkleAirdropAssumption
  <2>5. phase = "funded"
    BY <2>3, <2>4 DEF SolventInv, NothingBeforeFunding
  <2>6. e \in Unclaimed /\ Unclaimed' = Unclaimed \ {e}
    BY <2>2 DEF Airdrop!Pay
  <2>7. amounts' = amounts
    BY <2>3 DEF amounts, Entries
  <2>8. SumFunctionOnSet(amounts, Unclaimed)
          = SumFunctionOnSet(amounts, Unclaimed \ {e}) + x
    <3>1. /\ IsFiniteSet(Unclaimed) /\ Unclaimed \in SUBSET Entries
          /\ \A d \in Unclaimed : amounts[d] \in Nat
      BY <1>0, AmountsTyped, FS_Subset DEF Unclaimed
    <3>2. amounts[e] = x
      BY <1>0, <2>2, <2>6, <3>1, AmountsTyped
    <3> QED
      BY <2>6, <3>1, <3>2, SumWithout
  <2>9. SumFunctionOnSet(amounts, Unclaimed \ {e}) \in Nat
    <3> DEFINE U == Unclaimed \ {e}
    <3>1. U \in SUBSET Entries
      BY DEF Unclaimed
    <3> HIDE DEF U
    <3>2. IsFiniteSet(U) /\ \A d \in U : amounts[d] \in Nat
      BY <1>0, <3>1, AmountsTyped, FS_Subset
    <3>3. SumFunctionOnSet(amounts, U) \in Nat
      BY <3>2, SumIsNat
    <3> QED
      BY <3>3 DEF U
  <2>10. held' = SumFunctionOnSet(amounts', Unclaimed')
    BY <2>3, <2>4, <2>5, <2>6, <2>7, <2>8, <2>9 DEF SolventInv, TokensCoverClaims
  <2>11. AirdropInv'
    BY <1>0, <2>1, ClaimPaysOneEntry
  <2> QED
    BY <2>3, <2>5, <2>10, <2>11 DEF SolventInv, TokensCoverClaims, NothingBeforeFunding
<1> QED
  BY <1>1, <1>2, <1>3, <1>4 DEF Next

\* The distributor always holds exactly what is owed, from the moment it is
\* funded to the last claim, whatever the order of the claims.
THEOREM AirdropStaysSolvent == Spec => []TokensCoverClaims
<1>1. Init => SolventInv
  <2> SUFFICES ASSUME Init PROVE SolventInv
    OBVIOUS
  <2>1. AirdropInv
    BY DEF Init, AirdropInv, Words
  <2> QED
    BY <2>1 DEF Init, SolventInv, TokensCoverClaims, NothingBeforeFunding, Words
<1>2. SolventInv /\ [Next]_vars => SolventInv'
  BY StepsStaySolvent
<1>3. SolventInv => TokensCoverClaims
  BY DEF SolventInv
<1> QED
  BY <1>1, <1>2, <1>3, PTL DEF Spec

=============================================================================
