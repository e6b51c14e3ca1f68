----------------------------- MODULE RBTreeShape -----------------------------
(***************************************************************************)
(* Lemmas about the trees of module RBTree and the operators on them.  A   *)
(* tree is described by B, where B[n] is the set of nodes of the subtree   *)
(* of n.                                                                   *)
(***************************************************************************)
EXTENDS RBTree, FiniteSetTheorems, TLAPS

\* A set of numbers that is not empty has a least one.
LEMMA LeastNat ==
    ASSUME NEW S, S \subseteq Nat, S # {}
    PROVE  \E m \in S : \A k \in S : m <= k
<1>1. PICK m \in S : \A k \in S : ~(<<k, m>> \in OpToRel(<, Nat))
  BY NatLessThanWellFounded, WFMin
<1>2. \A k \in Nat : k < m => <<k, m>> \in OpToRel(<, Nat)
  BY DEF OpToRel
<1> QED
  <2> SUFFICES ASSUME NEW k \in S PROVE m <= k
    OBVIOUS
  <2>1. m \in Nat /\ k \in Nat /\ ~(k < m)
    BY <1>1, <1>2
  <2> QED
    BY <2>1

\* A family of sets of nodes has a member none of the others is part of.
LEMMA LeastSet ==
    ASSUME NEW T, T \subseteq SUBSET Nodes, T # {}
    PROVE  \E X \in T : \A Y \in T : Y \subseteq X => Y = X
<1>1. IsWellFoundedOn(StrictSubsetOrdering(Nodes), FiniteSubsetsOf(Nodes))
  BY FS_StrictSubsetOrderingWellFounded
<1>2. FiniteSubsetsOf(Nodes) = SUBSET Nodes
  BY FS_FiniteSubsetsOfFinite, NodeAssumption
<1>3. PICK X \in T : \A Y \in T : ~(<<Y, X>> \in StrictSubsetOrdering(Nodes))
  BY <1>1, <1>2, WFMin
<1> QED
  BY <1>3 DEF StrictSubsetOrdering

-----------------------------------------------------------------------------
(* Reach                                                                   *)

\* One more step from the nodes of X
Spread(next, X) == X \cup UNION {next[m] : m \in X}

\* The recursion of Reach has a solution.
LEMMA ReachStages ==
    ASSUME NEW next \in [Nodes -> SUBSET Nodes], NEW n
    PROVE  \E R \in [0..Cardinality(Nodes) -> SUBSET Nodes] :
              /\ Reach(next, n) = R[Cardinality(Nodes)]
              /\ R[0] = {n} \cap Nodes
              /\ \A i \in 1..Cardinality(Nodes) : R[i] = Spread(next, R[i-1])
<1> DEFINE Solves(g, j) == /\ g \in [0..j -> SUBSET Nodes]
                           /\ g[0] = {n} \cap Nodes
                           /\ \A i \in 1..j : g[i] = Spread(next, g[i-1])
           Bad == {j \in Nat : ~ \E g : Solves(g, j)}
           Size == Cardinality(Nodes)
           Stage(R) == [i \in 0..Size |->
                          IF i = 0 THEN {n} \cap Nodes
                          ELSE LET near == R[i-1] IN near \cup UNION {next[m] : m \in near}]
           sol == CHOOSE R : R = Stage(R)
<1>1. Size \in Nat
  BY FS_CardinalityType, NodeAssumption
<1>2. \A X \in SUBSET Nodes : Spread(next, X) \in SUBSET Nodes
  BY DEF Spread
<1>3. Bad = {}
  <2>1. SUFFICES ASSUME Bad # {} PROVE FALSE
    OBVIOUS
  <2>2. PICK j \in Bad : \A k \in Bad : j <= k
    BY <2>1, LeastNat
  <2>3. j # 0
    <3>1. Solves([i \in 0..0 |-> {n} \cap Nodes], 0)
      OBVIOUS
    <3> QED
      BY <3>1
  <2>4. j - 1 \in Nat \ Bad
    <3>1. j \in Nat /\ j - 1 \in Nat /\ ~(j <= j - 1)
      BY <2>3
    <3> QED
      BY <2>2, <3>1
  <2>5. PICK g : Solves(g, j - 1)
    BY <2>4
  <2>6. Solves([i \in 0..j |-> IF i = j THEN Spread(next, g[j-1]) ELSE g[i]], j)
    BY <2>3, <2>5, <1>2
  <2> QED
    BY <2>2, <2>6
<1>4. PICK g : Solves(g, Size)
  BY <1>1, <1>3
<1>5. g = Stage(g)
  BY <1>1, <1>4 DEF Spread
<1>6. sol = Stage(sol)
  BY <1>5
<1>7. Reach(next, n) = sol[Size]
  BY DEF Reach
<1> QED
  <2>1. \A i \in 0..Size : sol[i] = IF i = 0 THEN {n} \cap Nodes ELSE Spread(next, sol[i-1])
    BY <1>6, Zenon DEF Spread
  <2>2. DOMAIN sol = 0..Size /\ sol = [i \in 0..Size |-> sol[i]]
    BY <1>6, Zenon
  <2> HIDE DEF sol
  <2>3. ASSUME NEW i \in 0..Size, sol[i] \notin SUBSET Nodes PROVE FALSE
    <3> DEFINE Odd == {k \in 0..Size : sol[k] \notin SUBSET Nodes}
    <3>0. Odd \subseteq Nat /\ i \in Odd
      BY <1>1, <2>3
    <3> HIDE DEF Odd
    <3>1. PICK k \in Odd : \A m \in Odd : k <= m
      BY <3>0, LeastNat
    <3> USE DEF Odd
    <3>2. k \in Nat /\ k \in 0..Size /\ ~(k <= k - 1)
      BY <1>1, <3>1
    <3>3. k = 0 \/ (k - 1 \in 0..Size /\ k - 1 \notin Odd)
      BY <1>1, <3>1, <3>2
    <3> QED
      BY <1>2, <2>1, <3>2, <3>3
  <2>4. sol \in [0..Size -> SUBSET Nodes]
    BY <2>2, <2>3
  <2>5. \A i \in 1..Size : sol[i] = Spread(next, sol[i-1])
    <3> TAKE i \in 1..Size
    <3>1. i \in 0..Size /\ i # 0
      BY <1>1
    <3> QED
      BY <2>1, <3>1
  <2>6. sol[0] = {n} \cap Nodes
    BY <1>1, <2>1
  <2> QED
    BY <1>7, <2>4, <2>5, <2>6

\* What holds of n and is kept by a step holds of all that is reached.
LEMMA ReachLeast ==
    ASSUME NEW next \in [Nodes -> SUBSET Nodes], NEW n,
           NEW S \in SUBSET Nodes, n \in Nodes => n \in S, \A m \in S : next[m] \subseteq S
    PROVE  Reach(next, n) \subseteq S
<1> DEFINE Size == Cardinality(Nodes)
<1>1. PICK R \in [0..Size -> SUBSET Nodes] :
              /\ Reach(next, n) = R[Size]
              /\ R[0] = {n} \cap Nodes
              /\ \A i \in 1..Size : R[i] = Spread(next, R[i-1])
  BY ReachStages
<1>2. Size \in Nat
  BY FS_CardinalityType, NodeAssumption
<1> DEFINE Odd == {k \in 0..Size : ~(R[k] \subseteq S)}
<1> HIDE DEF Size
<1>3. ASSUME Odd # {} PROVE FALSE
  <2>1. Odd \subseteq Nat
    BY <1>2
  <2> HIDE DEF Odd
  <2>2. PICK k \in Odd : \A m \in Odd : k <= m
    BY <1>3, <2>1, LeastNat
  <2> USE DEF Odd
  <2>3. k \in 0..Size /\ k # 0 /\ ~(k <= k - 1)
    BY <1>1, <1>2
  <2>4. k \in 1..Size /\ k - 1 \in 0..Size /\ k - 1 \notin Odd
    BY <1>2, <2>2, <2>3
  <2> QED
    BY <1>1, <2>4 DEF Spread
<1> QED
  BY <1>1, <1>2, <1>3

\* Nothing is one step from what is reached but not reached: as many steps as there
\* are nodes are enough.
LEMMA ReachClosed ==
    ASSUME NEW next \in [Nodes -> SUBSET Nodes], NEW n
    PROVE  /\ Reach(next, n) \in SUBSET Nodes
           /\ n \in Nodes => n \in Reach(next, n)
           /\ \A m \in Reach(next, n) : next[m] \subseteq Reach(next, n)
<1> DEFINE Size == Cardinality(Nodes)
<1>1. PICK R \in [0..Size -> SUBSET Nodes] :
              /\ Reach(next, n) = R[Size]
              /\ R[0] = {n} \cap Nodes
              /\ \A i \in 1..Size : R[i] = Spread(next, R[i-1])
  BY ReachStages
<1>2. Size \in Nat
  BY FS_CardinalityType, NodeAssumption
<1>3. CASE n \notin Nodes
  <2>1. \A S \in SUBSET Nodes : S = {} => Reach(next, n) \subseteq S
    BY <1>3, ReachLeast
  <2> QED
    BY <1>3, <2>1
<1>4. CASE n \in Nodes
  <2> DEFINE Full(k) == R[k] = Spread(next, R[k]) \/ Cardinality(R[k]) >= k + 1
             Odd == {k \in 0..Size : ~(n \in R[k] /\ Full(k))}
  <2>1. \A X \in SUBSET Nodes : IsFiniteSet(X) /\ Cardinality(X) \in Nat /\ Cardinality(X) <= Size
    BY FS_Subset, FS_CardinalityType, NodeAssumption
  <2>2. \A X, Y \in SUBSET Nodes : X \subseteq Y /\ X # Y => Cardinality(X) < Cardinality(Y)
    <3> TAKE X, Y \in SUBSET Nodes
    <3>1. IsFiniteSet(Y) /\ Cardinality(X) \in Nat /\ Cardinality(Y) \in Nat
      BY <2>1
    <3>2. X \subseteq Y => Cardinality(X) <= Cardinality(Y) /\ (Cardinality(X) = Cardinality(Y) => X = Y)
      BY <3>1, FS_Subset
    <3> QED
      BY <3>1, <3>2
  <2> HIDE DEF Size
  <2>3. ASSUME Odd # {} PROVE FALSE
    <3>1. Odd \subseteq Nat
      BY <1>2
    <3> HIDE DEF Odd
    <3>2. PICK k \in Odd : \A m \in Odd : k <= m
      BY <2>3, <3>1, LeastNat
    <3> USE DEF Odd
    <3>3. k # 0
      <4>1. R[0] = {n} /\ Cardinality({n}) = 1
        BY <1>1, <1>4, FS_Singleton
      <4>2. n \in R[0] /\ Full(0)
        BY <4>1
      <4> QED
        BY <4>2
    <3>4. k \in 1..Size /\ k - 1 \in 0..Size /\ ~(k <= k - 1)
      BY <1>2, <3>3
    <3>5. n \in R[k-1] /\ Full(k-1) /\ R[k-1] \in SUBSET Nodes /\ R[k] \in SUBSET Nodes
      BY <1>1, <3>2, <3>4
    <3>6. R[k] = Spread(next, R[k-1]) /\ R[k-1] \subseteq R[k]
      BY <1>1, <3>4 DEF Spread
    <3>7. CASE R[k] = R[k-1]
      BY <3>5, <3>6, <3>7
    <3>8. CASE R[k] # R[k-1]
      <4>1. Cardinality(R[k-1]) < Cardinality(R[k])
        BY <2>2, <3>5, <3>6, <3>8
      <4>2. Cardinality(R[k-1]) >= k /\ Cardinality(R[k-1]) \in Nat /\ Cardinality(R[k]) \in Nat
        BY <2>1, <3>4, <3>5, <3>6, <3>8
      <4> QED
        BY <3>4, <3>5, <3>6, <4>1, <4>2
    <3> QED
      BY <3>7, <3>8
  <2>4. n \in R[Size] /\ Full(Size) /\ R[Size] \in SUBSET Nodes
    BY <1>1, <1>2, <2>3
  <2>5. R[Size] = Spread(next, R[Size])
    BY <1>2, <2>1, <2>4
  <2> QED
    BY <1>1, <2>4, <2>5 DEF Spread
<1> QED
  BY <1>3, <1>4

-----------------------------------------------------------------------------
(* The shape of a tree                                                     *)

All == Nodes \cup {Sentinel}

\* B[n] is the set of nodes of the subtree of n, and the tree hangs together:
\* parents and children agree and nothing is reached twice.
Describes(t, B) ==
    /\ B \in [All -> SUBSET Nodes] /\ B[Sentinel] = {}
    /\ t.root # Sentinel => t.root \in B[t.root]
    /\ \A n \in B[t.root], s \in Sides :
          /\ t.child[s][n] \in B[t.root] \cup {Sentinel}
          /\ n \notin B[t.child[s][n]]
          /\ t.child[s][n] # Sentinel => t.parent[t.child[s][n]] = n
    /\ \A n \in B[t.root] :
          /\ B[n] = {n} \cup B[t.child["left"][n]] \cup B[t.child["right"][n]]
          /\ B[t.child["left"][n]] \cap B[t.child["right"][n]] = {}
    /\ \A n \in B[t.root] \ {t.root} :
          /\ t.parent[n] \in B[t.root]
          /\ \E s \in Sides : t.child[s][t.parent[n]] = n

\* Of some nodes, one has a subtree none of the others has a smaller one.
LEMMA LeastSubtree ==
    ASSUME NEW B \in [All -> SUBSET Nodes], NEW S \in SUBSET Nodes, S # {}
    PROVE  \E m \in S : \A k \in S : B[k] \subseteq B[m] => B[k] = B[m]
<1> DEFINE T == {B[m] : m \in S}
<1>1. T \subseteq SUBSET Nodes /\ T # {}
  BY DEF All
<1> HIDE DEF T
<1>2. PICK X \in T : \A Y \in T : Y \subseteq X => Y = X
  BY <1>1, LeastSet
<1> USE DEF T
<1> QED
  BY <1>2

\* The subtree of a child is a smaller part of that of its parent.
LEMMA ChildBelow ==
    ASSUME NEW t \in Trees, NEW B, Describes(t, B), NEW n \in B[t.root], NEW s \in Sides
    PROVE  /\ n \in B[n] /\ n \in Nodes
           /\ t.child[s][n] \in All
           /\ B[t.child[s][n]] \subseteq B[n] /\ B[t.child[s][n]] # B[n]
           /\ t.child[s][n] # Sentinel => /\ t.child[s][n] \in B[t.root]
                                          /\ t.child[s][n] \in B[t.child[s][n]]
                                          /\ t.child[s][n] # t.root
<1>1. B[t.root] \subseteq Nodes
  BY DEF Describes, Trees, All
<1>2. n \in B[n] /\ B[t.child[s][n]] \subseteq B[n] /\ B[t.child[s][n]] # B[n]
  BY DEF Describes, Sides
<1>3. ASSUME t.child[s][n] # Sentinel
      PROVE  /\ t.child[s][n] \in B[t.root] /\ t.child[s][n] \in B[t.child[s][n]]
             /\ t.child[s][n] # t.root
  BY <1>3 DEF Describes
<1> QED
  BY <1>1, <1>2, <1>3 DEF Describes, All

\* Subtrees are nested.
LEMMA Nested ==
    ASSUME NEW t \in Trees, NEW B, Describes(t, B), NEW n \in B[t.root]
    PROVE  /\ B[n] \subseteq B[t.root]
           /\ \A m \in B[n] : B[m] \subseteq B[n]
<1> DEFINE M == B[t.root]
           Odd == {k \in M : ~(B[k] \subseteq M /\ \A m \in B[k] : B[m] \subseteq B[k])}
<1>1. Odd \in SUBSET Nodes /\ B \in [All -> SUBSET Nodes]
  BY DEF Describes, Trees, All
<1>2. ASSUME Odd # {} PROVE FALSE
  <2> HIDE DEF Odd
  <2>1. PICK k \in Odd : \A j \in Odd : B[j] \subseteq B[k] => B[j] = B[k]
    BY <1>1, <1>2, LeastSubtree
  <2> USE DEF Odd
  <2>2. \A s \in Sides : t.child[s][k] = Sentinel \/ t.child[s][k] \in M \ Odd
    <3> TAKE s \in Sides
    <3>1. /\ t.child[s][k] # Sentinel => t.child[s][k] \in M
          /\ B[t.child[s][k]] \subseteq B[k] /\ B[t.child[s][k]] # B[k]
      BY ChildBelow
    <3> QED
      BY <2>1, <3>1
  <2>3. \A s \in Sides : LET c == t.child[s][k] IN
           B[c] \subseteq M /\ \A m \in B[c] : B[m] \subseteq B[c]
    BY <2>2 DEF Describes
  <2>4. B[k] = {k} \cup B[t.child["left"][k]] \cup B[t.child["right"][k]]
    BY DEF Describes
  <2>5. B[k] \subseteq M
    BY <2>3, <2>4 DEF Sides
  <2>6. ASSUME NEW m \in B[k] PROVE B[m] \subseteq B[k]
    BY <2>3, <2>4 DEF Sides
  <2> QED
    BY <2>5, <2>6
<1> QED
  BY <1>2

\* No two nodes are below each other.
LEMMA NotBelowEachOther ==
    ASSUME NEW t \in Trees, NEW B, Describes(t, B), NEW n \in B[t.root],
           NEW a \in B[n], n \in B[a]
    PROVE  a = n
<1> SUFFICES ASSUME a # n PROVE FALSE
  OBVIOUS
<1>1. PICK s \in Sides : a \in B[t.child[s][n]]
  BY DEF Describes, Sides
<1>2. t.child[s][n] \in B[t.root]
  BY <1>1, ChildBelow DEF Describes
<1>3. n \in B[t.child[s][n]]
  BY <1>1, <1>2, Nested
<1> QED
  BY <1>3 DEF Describes

\* Below and Above compute the subtrees.
LEMMA BelowIs ==
    ASSUME NEW t \in Trees, NEW B, Describes(t, B), NEW n \in B[t.root] \cup {Sentinel}
    PROVE  Below(t, n) = B[n]
<1> DEFINE next == [m \in Nodes |-> {t.child[s][m] : s \in Sides} \cap Nodes]
           M == B[t.root]
<1>1. next \in [Nodes -> SUBSET Nodes] /\ Below(t, n) = Reach(next, n)
  BY DEF Below
<1>2. M \subseteq Nodes /\ Sentinel \notin Nodes /\ B \in [All -> SUBSET Nodes]
  BY NodeAssumption DEF Describes, Trees, All
<1>3. \A m \in M, s \in Sides : t.child[s][m] # Sentinel => t.child[s][m] \in next[m]
  <2> TAKE m \in M, s \in Sides
  <2>1. t.child[s][m] # Sentinel => t.child[s][m] \in M
    BY ChildBelow
  <2> QED
    BY <1>2, <2>1
<1> HIDE DEF next
<1>4. Reach(next, n) \subseteq B[n]
  <2>1. n \in Nodes => n \in B[n]
    BY <1>2, ChildBelow DEF Sides
  <2>2. B[n] \subseteq M
    BY Nested DEF Describes
  <2>3. ASSUME NEW m \in B[n] PROVE next[m] \subseteq B[n]
    <3>1. m \in M /\ m \in Nodes /\ B[m] \subseteq B[n]
      BY <1>2, <2>2, <2>3, Nested DEF Describes
    <3>2. \A s \in Sides : t.child[s][m] \in Nodes => t.child[s][m] \in B[m]
      <4> TAKE s \in Sides
      <4> QED
        BY <1>2, <3>1, ChildBelow
    <3> QED
      BY <3>1, <3>2 DEF next
  <2> QED
    BY <1>1, <1>2, <2>1, <2>3, ReachLeast DEF All
<1>5. B[n] \subseteq Reach(next, n)
  <2>1. CASE n = Sentinel
    BY <2>1 DEF Describes
  <2>2. CASE n # Sentinel
    <3> DEFINE Odd == {m \in M : m \in Reach(next, n) /\ ~(B[m] \subseteq Reach(next, n))}
    <3>1. Odd = {}
      <4>1. SUFFICES ASSUME Odd # {} PROVE FALSE
        OBVIOUS
      <4>2. Odd \in SUBSET Nodes
        BY <1>2
      <4> HIDE DEF Odd
      <4>3. PICK m \in Odd : \A j \in Odd : B[j] \subseteq B[m] => B[j] = B[m]
        BY <1>2, <4>1, <4>2, LeastSubtree
      <4> USE DEF Odd
      <4>4. \A s \in Sides : B[t.child[s][m]] \subseteq Reach(next, n)
        <5> TAKE s \in Sides
        <5>1. CASE t.child[s][m] = Sentinel
          BY <5>1 DEF Describes
        <5>2. CASE t.child[s][m] # Sentinel
          <6>1. t.child[s][m] \in Reach(next, n)
            BY <1>1, <1>3, <5>2, ReachClosed
          <6>2. t.child[s][m] \in M /\ t.child[s][m] \notin Odd
            BY <4>3, <5>2, ChildBelow
          <6> QED
            BY <6>1, <6>2
        <5> QED
          BY <5>1, <5>2
      <4>5. B[m] = {m} \cup B[t.child["left"][m]] \cup B[t.child["right"][m]]
        BY DEF Describes
      <4> QED
        BY <4>4, <4>5 DEF Sides
    <3>2. n \in Reach(next, n)
      BY <1>1, <1>2, <2>2, ReachClosed
    <3> QED
      BY <2>2, <3>1, <3>2
  <2> QED
    BY <2>1, <2>2
<1> QED
  BY <1>1, <1>4, <1>5

\* Above() gives the nodes of the tree whose subtree has n in it.
LEMMA AboveIs ==
    ASSUME NEW t \in Trees, NEW B, Describes(t, B), NEW n \in B[t.root]
    PROVE  Above(t, n) = {a \in B[t.root] : n \in B[a]}
<1> DEFINE next == [m \in Nodes |-> IF m = t.root THEN {} ELSE {t.parent[m]} \cap Nodes]
           M == B[t.root]
           Up == {a \in M : n \in B[a]}
<1>1. next \in [Nodes -> SUBSET Nodes] /\ Above(t, n) = Reach(next, n)
  BY DEF Above
<1>2. M \subseteq Nodes /\ Sentinel \notin Nodes /\ B \in [All -> SUBSET Nodes]
  BY NodeAssumption DEF Describes, Trees, All
<1>3. \A m \in M \ {t.root} : next[m] = {t.parent[m]} /\ t.parent[m] \in M /\ B[m] \subseteq B[t.parent[m]]
  <2> TAKE m \in M \ {t.root}
  <2>1. t.parent[m] \in M /\ \E s \in Sides : t.child[s][t.parent[m]] = m
    BY DEF Describes
  <2> QED
    BY <1>2, <2>1, ChildBelow
<1>4. t.root \in Nodes => next[t.root] = {}
  OBVIOUS
<1> HIDE DEF next
<1>5. Reach(next, n) \subseteq Up
  <2>1. n \in Up /\ Up \in SUBSET Nodes
    BY <1>2, ChildBelow DEF Sides
  <2>2. \A m \in Up : next[m] \subseteq Up
    BY <1>2, <1>3, <1>4
  <2> HIDE DEF Up
  <2> QED
    BY <1>1, <2>1, <2>2, ReachLeast
<1>6. Up \subseteq Reach(next, n)
  <2> DEFINE Odd == Up \ Reach(next, n)
  <2>1. SUFFICES ASSUME Odd # {} PROVE FALSE
    OBVIOUS
  <2>2. Odd \in SUBSET Nodes
    BY <1>2
  <2> HIDE DEF Odd
  <2>3. PICK a \in Odd : \A j \in Odd : B[j] \subseteq B[a] => B[j] = B[a]
    BY <1>2, <2>1, <2>2, LeastSubtree
  <2> USE DEF Odd
  <2>4. n # a
    BY <1>1, <1>2, ReachClosed
  <2>5. PICK s \in Sides : n \in B[t.child[s][a]]
    BY <2>4 DEF Describes, Sides
  <2>6. t.child[s][a] # Sentinel
    BY <2>5 DEF Describes
  <2>7. /\ t.child[s][a] \in M \ {t.root} /\ t.parent[t.child[s][a]] = a
        /\ B[t.child[s][a]] \subseteq B[a] /\ B[t.child[s][a]] # B[a]
    BY <2>6, ChildBelow DEF Describes
  <2>8. t.child[s][a] \in Reach(next, n)
    BY <2>3, <2>5, <2>7
  <2> QED
    BY <1>1, <1>3, <2>7, <2>8, ReachClosed
<1> QED
  BY <1>1, <1>5, <1>6

\* m is on the path from n down that takes the side way[a] at each node a.
OnPath(t, B, way, n, m) ==
    /\ m \in B[n]
    /\ \A a \in B[n] : m \in B[a] => m = a \/ m \in B[t.child[way[a]][a]]

\* The subtree of n is that of its parent or part of it, and all others that n is in.
LEMMA ParentAbove ==
    ASSUME NEW t \in Trees, NEW B, Describes(t, B), NEW n \in B[t.root] \ {t.root}
    PROVE  /\ t.parent[n] \in B[t.root]
           /\ \A a \in B[t.root] \ {n} : n \in B[a] => t.parent[n] \in B[a]
<1>1. t.parent[n] \in B[t.root]
  BY DEF Describes
<1>2. ASSUME NEW a \in B[t.root] \ {n}, n \in B[a] PROVE t.parent[n] \in B[a]
  <2>1. Above(t, n) = {b \in B[t.root] : n \in B[b]}
    BY AboveIs
  <2> DEFINE next == [m \in Nodes |-> IF m = t.root THEN {} ELSE {t.parent[m]} \cap Nodes]
             S == {n} \cup {b \in B[t.root] : t.parent[n] \in B[b]}
  <2>2. next \in [Nodes -> SUBSET Nodes] /\ Above(t, n) = Reach(next, n)
    BY DEF Above
  <2>3. S \in SUBSET Nodes /\ n \in S
    BY DEF Describes, Trees, All
  <2>4. ASSUME NEW m \in S PROVE next[m] \subseteq S
    <3>1. CASE m = t.root
      BY <2>3, <3>1
    <3>2. CASE m = n
      BY <1>1, <2>3, <3>2, ChildBelow DEF Sides
    <3>3. CASE m \notin {n, t.root}
      <4>1. t.parent[n] \in B[m] /\ m \in B[t.root] \ {t.root}
        BY <2>4, <3>3
      <4>2. t.parent[m] \in B[t.root] /\ \E s \in Sides : t.child[s][t.parent[m]] = m
        BY <4>1 DEF Describes
      <4>3. B[m] \subseteq B[t.parent[m]]
        BY <4>2, ChildBelow
      <4>4. next[m] \subseteq {t.parent[m]}
        BY <2>3
      <4> QED
        BY <4>1, <4>2, <4>3, <4>4
    <3> QED
      BY <3>1, <3>2, <3>3
  <2> HIDE DEF next, S
  <2>5. Above(t, n) \subseteq S
    BY <2>2, <2>3, <2>4, ReachLeast
  <2> QED
    BY <1>2, <2>1, <2>5 DEF S
<1> QED
  BY <1>1, <1>2

\* A path that goes down ends where Last() says.
LEMMA LastIs ==
    ASSUME NEW t \in Trees, NEW B, Describes(t, B), NEW n \in B[t.root],
           NEW way \in [Nodes -> Sides]
    PROVE  /\ Last(t, way, n) \in B[n]
           /\ t.child[way[Last(t, way, n)]][Last(t, way, n)] = Sentinel
           /\ OnPath(t, B, way, n, Last(t, way, n))
<1> DEFINE next == [m \in Nodes |-> {t.child[way[m]][m]} \cap Nodes]
           M == B[t.root]
           path == Reach(next, n)
           S == {m \in B[n] : OnPath(t, B, way, n, m)}
<1>1. next \in [Nodes -> SUBSET Nodes]
  OBVIOUS
<1>2. Last(t, way, n) = CHOOSE m \in path : t.child[way[m]][m] = Sentinel
  BY DEF Last
<1>3. M \subseteq Nodes /\ Sentinel \notin Nodes /\ B \in [All -> SUBSET Nodes] /\ B[n] \subseteq M
  BY NodeAssumption, Nested DEF Describes, Trees, All
<1>4. n \in B[n]
  BY ChildBelow DEF Sides
<1>5. ASSUME NEW m \in M
      PROVE  /\ way[m] \in Sides
             /\ t.child[way[m]][m] # Sentinel =>
                   /\ next[m] = {t.child[way[m]][m]} /\ t.child[way[m]][m] \in M \ {t.root}
                   /\ t.parent[t.child[way[m]][m]] = m
             /\ t.child[way[m]][m] = Sentinel => next[m] = {}
  <2>1. way[m] \in Sides /\ m \in Nodes
    BY <1>3
  <2> QED
    BY <1>3, <2>1, ChildBelow DEF Describes
<1> HIDE DEF next
<1>6. \A m \in S : next[m] \subseteq S
  <2> TAKE m \in S
  <2> DEFINE c == t.child[way[m]][m]
  <2>1. m \in M /\ way[m] \in Sides
    BY <1>3, <1>5
  <2>2. CASE c = Sentinel
    BY <1>5, <2>1, <2>2
  <2>3. CASE c # Sentinel
    <3>1. next[m] = {c} /\ c \in M \ {t.root} /\ t.parent[c] = m
      BY <1>5, <2>1, <2>3
    <3>2. B[c] \subseteq B[m] /\ c \in B[c]
      BY <2>1, <2>3, ChildBelow
    <3>3. B[m] \subseteq B[n]
      BY Nested
    <3>4. ASSUME NEW a \in B[n], c \in B[a], c # a PROVE c \in B[t.child[way[a]][a]]
      <4>1. a \in M /\ way[a] \in Sides
        BY <1>3, <1>5, <3>4
      <4>2. m \in B[a]
        BY <3>1, <3>4, <4>1, ParentAbove
      <4>3. m = a \/ m \in B[t.child[way[a]][a]]
        BY <3>4, <4>2 DEF OnPath
      <4>4. CASE m = a
        BY <3>2, <4>4
      <4>5. CASE m # a
        <5>1. m \in B[t.child[way[a]][a]]
          BY <4>3, <4>5
        <5>2. t.child[way[a]][a] \in M
          BY <4>1, <5>1, ChildBelow DEF Describes
        <5>3. B[m] \subseteq B[t.child[way[a]][a]]
          BY <5>1, <5>2, Nested
        <5> QED
          BY <3>2, <5>3
      <4> QED
        BY <4>4, <4>5
    <3> QED
      BY <3>1, <3>2, <3>3, <3>4 DEF OnPath
  <2> QED
    BY <2>2, <2>3
<1>7. path \subseteq S
  <2>1. n \in S /\ S \in SUBSET Nodes
    BY <1>3, <1>4, NotBelowEachOther DEF OnPath
  <2> HIDE DEF S
  <2> QED
    BY <1>1, <1>6, <2>1, ReachLeast
<1>8. \E m \in path : t.child[way[m]][m] = Sentinel
  <2>1. path # {} /\ path \in SUBSET Nodes /\ \A m \in path : next[m] \subseteq path
    BY <1>1, <1>3, ReachClosed
  <2> HIDE DEF path
  <2>2. PICK m \in path : \A k \in path : B[k] \subseteq B[m] => B[k] = B[m]
    BY <1>3, <2>1, LeastSubtree
  <2> DEFINE c == t.child[way[m]][m]
  <2>3. SUFFICES ASSUME c # Sentinel PROVE FALSE
    OBVIOUS
  <2>4. m \in M /\ way[m] \in Sides
    BY <1>3, <1>5, <1>7
  <2>5. c \in path
    BY <1>5, <2>1, <2>3, <2>4
  <2>6. B[c] \subseteq B[m] /\ B[c] # B[m]
    BY <2>4, ChildBelow
  <2> QED
    BY <2>2, <2>5, <2>6
<1>9. Last(t, way, n) \in path /\ t.child[way[Last(t, way, n)]][Last(t, way, n)] = Sentinel
  <2> HIDE DEF path
  <2> QED
    BY <1>2, <1>8
<1> QED
  BY <1>7, <1>9

\* There is only one place where it can end.
LEMMA OneLast ==
    ASSUME NEW t \in Trees, NEW B, Describes(t, B), NEW n \in B[t.root],
           NEW way \in [Nodes -> Sides], NEW m, NEW k,
           OnPath(t, B, way, n, m), t.child[way[m]][m] = Sentinel,
           OnPath(t, B, way, n, k), t.child[way[k]][k] = Sentinel
    PROVE  m = k
<1>1. SUFFICES ASSUME m # k PROVE FALSE
  OBVIOUS
<1> DEFINE S == {a \in B[n] : m \in B[a] /\ k \in B[a]}
<1>2. B \in [All -> SUBSET Nodes] /\ B[n] \subseteq B[t.root] /\ B[Sentinel] = {} /\ B[t.root] \subseteq Nodes
  BY Nested DEF Describes, Trees, All
<1>3. n \in B[n] /\ n \in S /\ S \in SUBSET Nodes
  BY <1>2, ChildBelow DEF Sides, OnPath
<1> HIDE DEF S
<1>4. PICK a \in S : \A j \in S : B[j] \subseteq B[a] => B[j] = B[a]
  BY <1>2, <1>3, LeastSubtree
<1> USE DEF S
<1> DEFINE c == t.child[way[a]][a]
<1>5. a \in B[t.root] /\ way[a] \in Sides
  BY <1>2
<1>6. m \in B[c] /\ k \in B[c]
  BY <1>1, <1>2 DEF OnPath
<1>7. c \in B[t.root] /\ c \in B[c] /\ B[c] \subseteq B[a] /\ B[c] # B[a]
  BY <1>2, <1>5, <1>6, ChildBelow
<1>8. B[a] \subseteq B[n]
  BY Nested
<1> QED
  BY <1>4, <1>6, <1>7, <1>8

-----------------------------------------------------------------------------
(* What the operators that write to a tree do, field by field: u is t after *)
(* the write.                                                               *)

ChildSet(u, t, s, n, m) ==
    /\ u \in Trees /\ u.root = t.root /\ u.parent = t.parent /\ u.red = t.red
    /\ \A q \in Sides, k \in All :
          u.child[q][k] = IF q = s /\ k = n THEN m ELSE t.child[q][k]

ParentSet(u, t, n, m) ==
    /\ u \in Trees /\ u.root = t.root /\ u.child = t.child /\ u.red = t.red
    /\ \A k \in All : u.parent[k] = IF k = n THEN m ELSE t.parent[k]

Painted(u, t, n, r) ==
    /\ u \in Trees /\ u.root = t.root /\ u.child = t.child /\ u.parent = t.parent
    /\ \A k \in All : u.red[k] = IF k = n THEN r ELSE t.red[k]

Replaced(u, t, n, m) ==
    /\ u \in Trees /\ u.parent = t.parent /\ u.red = t.red
    /\ u.root = IF n = t.root THEN m ELSE t.root
    /\ \A q \in Sides, k \in All : u.child[q][k] =
          IF n # t.root /\ q = SideOf(t, n) /\ k = t.parent[n] THEN m ELSE t.child[q][k]

\* n goes down to the side s, temp comes up from below it and leaves it targ.
Rotated(u, t, s, n, temp, targ) ==
    /\ u \in Trees /\ u.red = t.red
    /\ u.root = IF n = t.root THEN temp ELSE t.root
    /\ \A m \in All : u.parent[m] = IF m = n THEN temp
                                    ELSE IF m = temp THEN t.parent[n]
                                    ELSE IF m = targ /\ m # Sentinel THEN n
                                    ELSE t.parent[m]
    /\ \A q \in Sides, m \in All :
          u.child[q][m] = IF m = n THEN IF q = s THEN t.child[q][n] ELSE targ
                          ELSE IF m = temp THEN IF q = s THEN n ELSE t.child[q][temp]
                          ELSE IF n # t.root /\ m = t.parent[n] /\ q = SideOf(t, n) THEN temp
                          ELSE t.child[q][m]

\* Assignments to one field of one node
LEMMA SetChildIs ==
    ASSUME NEW t \in Trees, NEW s \in Sides, NEW n \in All, NEW m \in Pointers
    PROVE  ChildSet(SetChild(t, s, n, m), t, s, n, m)
  BY DEF SetChild, ChildSet, Trees, All

\* The same for the parent
LEMMA SetParentIs ==
    ASSUME NEW t \in Trees, NEW n \in All, NEW m \in Pointers
    PROVE  ParentSet(SetParent(t, n, m), t, n, m)
  BY DEF SetParent, ParentSet, Trees, All

\* The same for the colour
LEMMA PaintIs ==
    ASSUME NEW t \in Trees, NEW n \in All, NEW r \in BOOLEAN
    PROVE  Painted(Paint(t, n, r), t, n, r)
  BY DEF Paint, Painted, Trees, All

\* Sides
LEMMA SidesAre ==
    /\ \A s \in Sides : Mirror(s) \in Sides /\ Mirror(s) # s /\ Mirror(Mirror(s)) = s
    /\ \A s, q \in Sides : q = s \/ q = Mirror(s)
    /\ \A t, n : SideOf(t, n) \in Sides
    /\ "left" \in Sides /\ "right" \in Sides /\ Mirror("left") = "right" /\ Mirror("right") = "left"
  BY DEF Sides, Mirror, SideOf

\* The place of a node below its parent is taken.
LEMMA ReplaceIs ==
    ASSUME NEW t \in Trees, NEW n \in All, NEW m \in All,
           n # t.root => t.parent[n] \in Nodes
    PROVE  Replaced(Replace(t, n, m), t, n, m)
<1>1. CASE n = t.root
  BY <1>1 DEF Replace, Replaced, Trees, All
<1>2. CASE n # t.root
  <2>1. Replace(t, n, m) = SetChild(t, SideOf(t, n), t.parent[n], m)
    BY <1>2 DEF Replace
  <2>2. t.parent[n] \in All /\ m \in Pointers
    BY <1>2 DEF All, Pointers
  <2>3. ChildSet(Replace(t, n, m), t, SideOf(t, n), t.parent[n], m)
    BY <2>1, <2>2, SidesAre, SetChildIs
  <2> QED
    BY <1>2, <2>3 DEF ChildSet, Replaced
<1> QED
  BY <1>1, <1>2

\* A rotation
LEMMA RotateIs ==
    ASSUME NEW t \in Trees, NEW s \in Sides, NEW n \in Nodes, NEW temp \in Nodes, NEW targ \in All,
           temp = t.child[Mirror(s)][n], targ = t.child[s][temp],
           n # temp, targ # n, targ # temp,
           n # t.root => t.parent[n] \in Nodes \ {n, temp}
    PROVE  Rotated(Rotate(t, s, n), t, s, n, temp, targ)
<1> DEFINE up1 == t.child[Mirror(s)][n]
           mid == t.child[s][up1]
           taken == SetChild(t, Mirror(s), n, mid)
           moved == Link(taken, mid, n)
           turned == SetParent(moved, up1, moved.parent[n])
           up == Replace(turned, n, up1)
           down == SetChild(up, s, up1, n)
           u == SetParent(down, n, up1)
<1>1. Rotate(t, s, n) = u
  BY DEF Rotate
<1>0. up1 = temp /\ mid = targ
  OBVIOUS
<1> HIDE DEF up1, mid
<1>2. /\ n \in All /\ up1 \in Nodes /\ mid \in All /\ up1 \in All /\ n \in Pointers /\ up1 \in Pointers
      /\ mid \in Pointers /\ n # up1 /\ mid # n /\ mid # up1
      /\ (n # t.root => t.parent[n] \in Nodes \ {n, up1})
      /\ Mirror(s) \in Sides /\ Mirror(s) # s /\ t.parent[n] \in Pointers
  BY <1>0, SidesAre DEF All, Pointers, Trees
<1>3. ChildSet(taken, t, Mirror(s), n, mid)
  BY <1>2, SetChildIs
<1> HIDE DEF taken
<1>4. /\ moved \in Trees /\ moved.root = t.root /\ moved.child = taken.child /\ moved.red = t.red
      /\ \A k \in All : moved.parent[k] = IF k = mid /\ k # Sentinel THEN n ELSE t.parent[k]
  <2>1. taken \in Trees
    BY <1>3 DEF ChildSet
  <2>2. ParentSet(SetParent(taken, mid, n), taken, mid, n)
    BY <1>2, <2>1, SetParentIs
  <2> QED
    BY <1>3, <2>2 DEF Link, ChildSet, ParentSet
<1> HIDE DEF moved
<1>5. moved.parent[n] = t.parent[n] /\ ParentSet(turned, moved, up1, moved.parent[n])
  <2>1. moved.parent[n] = t.parent[n]
    BY <1>2, <1>4
  <2> QED
    BY <1>2, <1>4, <2>1, SetParentIs
<1> HIDE DEF turned
<1>6. n # t.root => SideOf(turned, n) = SideOf(t, n) /\ turned.parent[n] = t.parent[n]
  BY <1>2, <1>3, <1>4, <1>5 DEF SideOf, Sides, All, ChildSet, ParentSet
<1>7. Replaced(up, turned, n, up1)
  <2>1. turned \in Trees /\ (n # turned.root => turned.parent[n] \in Nodes)
    BY <1>4, <1>5, <1>6 DEF ParentSet
  <2> QED
    BY <1>2, <2>1, ReplaceIs
<1> HIDE DEF up
<1>8. ChildSet(down, up, s, up1, n)
  <2>1. up \in Trees
    BY <1>7 DEF Replaced
  <2> QED
    BY <1>2, <2>1, SetChildIs
<1> HIDE DEF down
<1>9. ParentSet(u, down, n, up1)
  <2>1. down \in Trees
    BY <1>8 DEF ChildSet
  <2> QED
    BY <1>2, <2>1, SetParentIs
<1> HIDE DEF u
<1>10. \A m \in All : u.parent[m] = IF m = n THEN up1
                                    ELSE IF m = up1 THEN t.parent[n]
                                    ELSE IF m = mid /\ m # Sentinel THEN n
                                    ELSE t.parent[m]
  BY <1>4, <1>5, <1>7, <1>8, <1>9 DEF ParentSet, Replaced, ChildSet
<1>11. ASSUME NEW q \in Sides, NEW m \in All
       PROVE  u.child[q][m] = IF m = n THEN IF q = s THEN t.child[q][n] ELSE mid
                              ELSE IF m = up1 THEN IF q = s THEN n ELSE t.child[q][up1]
                              ELSE IF n # t.root /\ m = t.parent[n] /\ q = SideOf(t, n) THEN up1
                              ELSE t.child[q][m]
  <2>1. q = s \/ q = Mirror(s)
    BY SidesAre
  <2>2. u.child[q][m] = IF q = s /\ m = up1 THEN n ELSE up.child[q][m]
    BY <1>8, <1>9 DEF ChildSet, ParentSet
  <2>3. up.child[q][m] = IF n # t.root /\ q = SideOf(t, n) /\ m = t.parent[n] THEN up1 ELSE taken.child[q][m]
    BY <1>4, <1>5, <1>6, <1>7 DEF Replaced, ParentSet
  <2>4. taken.child[q][m] = IF q = Mirror(s) /\ m = n THEN mid ELSE t.child[q][m]
    BY <1>3 DEF ChildSet
  <2> QED
    BY <1>2, <2>1, <2>2, <2>3, <2>4
<1>12. u \in Trees /\ u.red = t.red /\ u.root = IF n = t.root THEN up1 ELSE t.root
  BY <1>4, <1>5, <1>7, <1>8, <1>9 DEF ParentSet, Replaced, ChildSet
<1> QED
  BY <1>0, <1>1, <1>10, <1>11, <1>12 DEF Rotated

-----------------------------------------------------------------------------
(* What the writes keep of the shape                                       *)

\* A node has one parent, and is on one side of it.
LEMMA ParentIs ==
    ASSUME NEW t \in Trees, NEW B, Describes(t, B)
    PROVE  /\ \A n \in B[t.root] \ {t.root} :
                 /\ t.parent[n] \in B[t.root] /\ t.parent[n] # n
                 /\ t.child[SideOf(t, n)][t.parent[n]] = n
           /\ \A k \in B[t.root], q \in Sides : t.child[q][k] # Sentinel =>
                 /\ t.child[q][k] \in B[t.root] \ {t.root}
                 /\ t.parent[t.child[q][k]] = k
                 /\ SideOf(t, t.child[q][k]) = q
<1>1. ASSUME NEW k \in B[t.root], NEW q \in Sides, t.child[q][k] # Sentinel
      PROVE  /\ t.child[q][k] \in B[t.root] \ {t.root}
             /\ t.parent[t.child[q][k]] = k
             /\ SideOf(t, t.child[q][k]) = q
  <2>1. /\ t.child[q][k] \in B[t.root] \ {t.root}
        /\ t.child[q][k] \in B[t.child[q][k]]
        /\ t.parent[t.child[q][k]] = k
    BY <1>1, ChildBelow DEF Describes
  <2>2. B[t.child["left"][k]] \cap B[t.child["right"][k]] = {}
    BY DEF Describes
  <2> QED
    BY <2>1, <2>2 DEF SideOf, Sides
<1>2. ASSUME NEW n \in B[t.root] \ {t.root}
      PROVE  /\ t.parent[n] \in B[t.root] /\ t.parent[n] # n
             /\ t.child[SideOf(t, n)][t.parent[n]] = n
  <2>1. t.parent[n] \in B[t.root]
    BY DEF Describes
  <2>2. PICK s \in Sides : t.child[s][t.parent[n]] = n
    BY DEF Describes
  <2>3. n # Sentinel
    BY NodeAssumption DEF Describes, Trees, All
  <2>4. n \in B[n] /\ t.parent[n] \notin B[n]
    BY <2>1, <2>2, ChildBelow DEF Describes, Sides
  <2> QED
    BY <1>1, <2>1, <2>2, <2>3, <2>4
<1> QED
  BY <1>1, <1>2

\* n can go down to the side s of a tree: temp comes up and leaves it targ.
Turnable(t, B, s, n, temp, targ) ==
    /\ Describes(t, B) /\ s \in Sides /\ n \in B[t.root]
    /\ temp = t.child[Mirror(s)][n] /\ temp # Sentinel /\ targ = t.child[s][temp]

\* The nodes a rotation turns are there and are different.
LEMMA RotationNodes ==
    ASSUME NEW t \in Trees, NEW B, NEW s, NEW n, NEW temp, NEW targ, Turnable(t, B, s, n, temp, targ)
    PROVE  /\ B[t.root] \subseteq Nodes /\ Sentinel \notin Nodes
           /\ temp \in B[t.root] \ {t.root} /\ targ \in B[t.root] \cup {Sentinel}
           /\ n # temp /\ targ # n /\ targ # temp /\ t.parent[temp] = n
           /\ targ # Sentinel => t.parent[targ] = temp
           /\ n # t.root => t.parent[n] \in B[t.root] \ {n, temp}
<1>0. /\ Describes(t, B) /\ s \in Sides /\ n \in B[t.root]
      /\ temp = t.child[Mirror(s)][n] /\ temp # Sentinel /\ targ = t.child[s][temp]
  BY DEF Turnable
<1> USE <1>0
<1>1. B[t.root] \subseteq Nodes /\ Sentinel \notin Nodes /\ Mirror(s) \in Sides
  BY NodeAssumption, SidesAre DEF Describes, Trees, All
<1>2. temp \in B[t.root] \ {t.root} /\ t.parent[temp] = n /\ n \notin B[temp] /\ temp \in B[temp]
  BY <1>1, ParentIs, ChildBelow DEF Describes
<1>3. targ \in B[t.root] \cup {Sentinel} /\ (targ # Sentinel => t.parent[targ] = temp) /\ targ # temp
  BY <1>1, <1>2, ChildBelow DEF Describes
<1>4. n \in B[n] /\ n # temp
  BY <1>2, ChildBelow DEF Sides
<1>5. targ # n
  <2>1. targ # Sentinel => targ \in B[temp]
    BY <1>2, ChildBelow
  <2> QED
    BY <1>1, <1>2, <2>1
<1>6. ASSUME n # t.root PROVE t.parent[n] \in B[t.root] \ {n, temp}
  <2>1. t.parent[n] \in B[t.root] \ {n} /\ n \in B[t.parent[n]]
    BY <1>4, <1>6, ParentIs, ChildBelow, SidesAre
  <2> QED
    BY <1>2, <2>1
<1> QED
  BY <1>1, <1>2, <1>3, <1>4, <1>5, <1>6

\* The subtrees after a rotation
Turned(t, B, s, n, temp, targ) ==
    [B EXCEPT ![n] = {n} \cup B[t.child[s][n]] \cup B[targ], ![temp] = B[n]]

\* A rotation of a tree makes a tree of the same nodes.
LEMMA RotatedShape ==
    ASSUME NEW t \in Trees, NEW B, NEW s, NEW n, NEW temp, NEW targ, Turnable(t, B, s, n, temp, targ),
           NEW u, Rotated(u, t, s, n, temp, targ),
           NEW C, C = Turned(t, B, s, n, temp, targ)
    PROVE  /\ Describes(u, C)
           /\ C[u.root] = B[t.root]
<1>0. /\ Describes(t, B) /\ s \in Sides /\ n \in B[t.root]
      /\ temp = t.child[Mirror(s)][n] /\ temp # Sentinel /\ targ = t.child[s][temp]
  BY DEF Turnable
<1> USE <1>0
<1> DEFINE M == B[t.root]
           o == Mirror(s)
           a == t.child[s][n]
           b == t.child[o][temp]
           p == t.parent[n]
           z == SideOf(t, n)
<1>1. /\ M \subseteq Nodes /\ Sentinel \notin Nodes
      /\ temp \in M \ {t.root} /\ targ \in M \cup {Sentinel}
      /\ n # temp /\ targ # n /\ targ # temp /\ t.parent[temp] = n
      /\ targ # Sentinel => t.parent[targ] = temp
      /\ n # t.root => p \in M \ {n, temp}
  BY RotationNodes
<1>2. B \in [All -> SUBSET Nodes] /\ B[Sentinel] = {}
  BY DEF Describes
<1>3. /\ n \in M /\ t.root # Sentinel /\ t.root \in M /\ M \subseteq All /\ Sentinel \in All
      /\ s \in Sides /\ o \in Sides /\ o # s /\ z \in Sides /\ \A q \in Sides : q = s \/ q = o
  BY <1>1, <1>2, SidesAre DEF Describes, All
<1>4. /\ \A k \in M, q \in Sides : t.child[q][k] # Sentinel =>
            /\ t.child[q][k] \in M \ {t.root}
            /\ t.parent[t.child[q][k]] = k
            /\ SideOf(t, t.child[q][k]) = q
      /\ \A k \in M \ {t.root} :
            t.parent[k] \in M /\ t.parent[k] # k /\ t.child[SideOf(t, k)][t.parent[k]] = k
  BY ParentIs
<1>5. \A k \in M : /\ B[k] = {k} \cup B[t.child[s][k]] \cup B[t.child[o][k]]
                   /\ B[t.child[s][k]] \cap B[t.child[o][k]] = {}
                   /\ k \notin B[t.child[s][k]] /\ k \notin B[t.child[o][k]]
  <2> TAKE k \in M
  <2>1. /\ B[k] = {k} \cup B[t.child["left"][k]] \cup B[t.child["right"][k]]
        /\ B[t.child["left"][k]] \cap B[t.child["right"][k]] = {}
        /\ \A q \in Sides : k \notin B[t.child[q][k]]
    BY DEF Describes
  <2>2. (s = "left" /\ o = "right") \/ (s = "right" /\ o = "left")
    BY DEF Sides, Mirror
  <2> QED
    BY <1>3, <2>1, <2>2
<1>6. /\ C \in [All -> SUBSET Nodes]
      /\ C[n] = {n} \cup B[a] \cup B[targ] /\ C[temp] = B[n]
      /\ \A k \in All \ {n, temp} : C[k] = B[k]
  <2>1. a \in All /\ targ \in All
    BY <1>1, <1>3, ChildBelow
  <2> QED
    BY <1>1, <1>2, <1>3, <2>1 DEF Turned
<1>7. /\ u.root = (IF n = t.root THEN temp ELSE t.root)
      /\ \A m \in M : u.parent[m] = IF m = n THEN temp
                                    ELSE IF m = temp THEN p
                                    ELSE IF m = targ THEN n
                                    ELSE t.parent[m]
      /\ u.child[s][n] = a /\ u.child[o][n] = targ
      /\ u.child[s][temp] = n /\ u.child[o][temp] = b
      /\ n # t.root => u.child[z][p] = temp
      /\ \A m \in M \ {n, temp}, q \in Sides :
            ~(n # t.root /\ m = p /\ q = z) => u.child[q][m] = t.child[q][m]
  BY <1>1, <1>3 DEF Rotated
<1>21. temp = t.child[o][n] /\ \A q \in Sides : q # s => q = o
  BY <1>3
<1> HIDE DEF M, o, a, b, p, z
<1>8. C[u.root] = M
  BY <1>1, <1>3, <1>6, <1>7 DEF M
<1>9. a \in M \cup {Sentinel} /\ a \notin {n, temp} /\ b \in M \cup {Sentinel} /\ b \notin {n, temp}
  <2>1. a # Sentinel => a \in M \ {t.root} /\ t.parent[a] = n /\ SideOf(t, a) = s
    BY <1>3, <1>4 DEF a
  <2>2. b # Sentinel => b \in M \ {t.root} /\ t.parent[b] = temp
    BY <1>1, <1>3, <1>4 DEF b
  <2>3. SideOf(t, temp) = o
    BY <1>21, <1>1, <1>3, <1>4
  <2> QED
    BY <1>1, <1>3, <1>4, <2>1, <2>2, <2>3 DEF p
<1>16. /\ B[n] = {n} \cup B[a] \cup B[temp] /\ B[a] \cap B[temp] = {}
       /\ n \notin B[a] /\ n \notin B[temp]
       /\ B[temp] = {temp} \cup B[targ] \cup B[b] /\ B[targ] \cap B[b] = {}
       /\ temp \notin B[targ] /\ temp \notin B[b]
  <2>1. targ = t.child[s][temp] /\ b = t.child[o][temp] /\ a = t.child[s][n]
    BY DEF a, b
  <2> QED
    BY <1>21, <1>1, <1>3, <1>5, <2>1
<1>17. C[a] = B[a] /\ C[b] = B[b] /\ C[targ] = B[targ]
  BY <1>1, <1>3, <1>6, <1>9
<1>10. ASSUME NEW k \in M \ {n, temp}, NEW q \in Sides,
              ~(n # t.root /\ k = p /\ q = z)
       PROVE  /\ u.child[q][k] = t.child[q][k] /\ u.child[q][k] \notin {n, temp}
              /\ u.child[q][k] \in M \cup {Sentinel} /\ C[u.child[q][k]] = B[t.child[q][k]]
  <2>1. u.child[q][k] = t.child[q][k] /\ t.child[q][k] \in M \cup {Sentinel}
    BY <1>4, <1>7, <1>10
  <2>2. t.child[q][k] # temp
    BY <1>1, <1>4, <1>10
  <2>3. t.child[q][k] # n
    BY <1>1, <1>3, <1>4, <1>10 DEF p, z
  <2> QED
    BY <1>3, <1>6, <2>1, <2>2, <2>3
<1>11. ASSUME NEW k \in M, NEW q \in Sides
       PROVE  /\ u.child[q][k] \in M \cup {Sentinel}
              /\ k \notin C[u.child[q][k]]
              /\ u.child[q][k] # Sentinel => u.parent[u.child[q][k]] = k
  <2>1. CASE k = n
    <3>1. a # Sentinel => u.parent[a] = n
      <4>1. a # Sentinel => a # targ /\ t.parent[a] = n
        BY <1>1, <1>3, <1>4 DEF a
      <4> QED
        BY <1>7, <1>9, <4>1
    <3>2. targ # Sentinel => u.parent[targ] = n
      BY <1>1, <1>7
    <3>3. u.child[q][n] = a \/ u.child[q][n] = targ
      BY <1>3, <1>7
    <3> QED
      BY <1>1, <1>9, <1>16, <1>17, <2>1, <3>1, <3>2, <3>3
  <2>2. CASE k = temp
    <3>1. b # Sentinel => u.parent[b] = temp
      <4>1. b # Sentinel => b # targ /\ t.parent[b] = temp
        <5>1. b # Sentinel => b \in B[b]
          BY <1>9, <1>5
        <5> QED
          BY <1>1, <1>3, <1>4, <1>16, <5>1 DEF b
      <4> QED
        BY <1>7, <1>9, <4>1
    <3>2. u.child[q][temp] = n \/ u.child[q][temp] = b
      BY <1>3, <1>7
    <3>3. temp \notin C[n] /\ n \in M /\ u.parent[n] = temp
      BY <1>1, <1>3, <1>6, <1>7, <1>16
    <3> QED
      BY <1>9, <1>16, <1>17, <2>2, <3>1, <3>2, <3>3
  <2>3. CASE n # t.root /\ k = p /\ q = z
    <3>1. u.child[q][k] = temp /\ u.parent[temp] = k /\ temp \in M
      BY <1>1, <1>7, <2>3
    <3>2. t.child[z][p] = n /\ p \notin B[t.child[z][p]]
      <4>1. p \in M /\ t.child[z][p] = n
        BY <1>1, <1>3, <1>4, <2>3 DEF p, z
      <4> QED
        BY <1>3, <1>5, <4>1
    <3> QED
      BY <1>6, <2>3, <3>1, <3>2
  <2>4. CASE k \notin {n, temp} /\ ~(n # t.root /\ k = p /\ q = z)
    <3>1. /\ u.child[q][k] = t.child[q][k] /\ u.child[q][k] \notin {n, temp}
          /\ u.child[q][k] \in M \cup {Sentinel} /\ C[u.child[q][k]] = B[t.child[q][k]]
      BY <1>10, <2>4
    <3>2. k \notin B[t.child[q][k]]
      BY <1>21, <1>5
    <3>3. t.child[q][k] # Sentinel => t.parent[t.child[q][k]] = k
      BY <1>4
    <3>4. t.child[q][k] # Sentinel => t.child[q][k] # targ
      BY <1>1, <2>4, <3>3
    <3> QED
      BY <1>7, <3>1, <3>2, <3>3, <3>4
  <2> QED
    BY <2>1, <2>2, <2>3, <2>4
<1>12. ASSUME NEW k \in M
       PROVE  /\ C[k] = {k} \cup C[u.child[s][k]] \cup C[u.child[o][k]]
              /\ C[u.child[s][k]] \cap C[u.child[o][k]] = {}
  <2>1. CASE k = n
    <3>1. C[n] = {n} \cup B[a] \cup B[targ] /\ C[u.child[s][n]] = B[a] /\ C[u.child[o][n]] = B[targ]
      BY <1>6, <1>7, <1>17
    <3>2. B[a] \cap B[targ] = {}
      BY <1>16
    <3> QED
      BY <2>1, <3>1, <3>2
  <2>2. CASE k = temp
    <3>1. /\ C[temp] = B[n] /\ C[u.child[o][temp]] = B[b]
          /\ C[u.child[s][temp]] = {n} \cup B[a] \cup B[targ]
      BY <1>6, <1>7, <1>17
    <3>2. ({n} \cup B[a] \cup B[targ]) \cap B[b] = {}
      BY <1>16
    <3>3. B[n] = {temp} \cup ({n} \cup B[a] \cup B[targ]) \cup B[b]
      BY <1>16
    <3> QED
      BY <2>2, <3>1, <3>2, <3>3
  <2>3. CASE k \notin {n, temp}
    <3>1. \A q \in Sides : C[u.child[q][k]] = B[t.child[q][k]]
      <4> TAKE q \in Sides
      <4>1. CASE n # t.root /\ k = p /\ q = z
        <5>1. t.child[q][k] = n
          BY <1>3, <1>4, <4>1 DEF p, z
        <5>2. u.child[q][k] = temp
          BY <1>7, <4>1
        <5> QED
          BY <1>6, <5>1, <5>2
      <4>2. CASE ~(n # t.root /\ k = p /\ q = z)
        BY <1>10, <2>3, <4>2
      <4> QED
        BY <4>1, <4>2
    <3>2. C[k] = B[k]
      BY <1>3, <1>6, <2>3
    <3>3. C[u.child[s][k]] = B[t.child[s][k]] /\ C[u.child[o][k]] = B[t.child[o][k]]
      BY <1>3, <3>1
    <3> QED
      BY <1>5, <3>2, <3>3
  <2> QED
    BY <2>1, <2>2, <2>3
<1>13. ASSUME NEW k \in C[u.root] \ {u.root}
       PROVE  u.parent[k] \in M /\ \E q \in Sides : u.child[q][u.parent[k]] = k
  <2>0. k \in M
    BY <1>8
  <2>1. CASE k = n
    BY <1>1, <1>3, <1>7, <2>0, <2>1
  <2>2. CASE k = temp
    BY <1>1, <1>3, <1>7, <1>13, <2>0, <2>2
  <2>3. CASE k = targ
    BY <1>1, <1>3, <1>7, <2>0, <2>3
  <2>4. CASE k \notin {n, temp, targ}
    <3>1. k # t.root
      BY <1>3, <1>7, <1>13, <2>4
    <3>2. u.parent[k] = t.parent[k] /\ t.parent[k] \in M /\ t.child[SideOf(t, k)][t.parent[k]] = k
      BY <1>4, <1>7, <2>0, <2>4, <3>1
    <3>3. SideOf(t, k) \in Sides
      BY SidesAre
    <3>4. CASE t.parent[k] = n
      BY <1>1, <1>3, <1>7, <2>4, <3>2, <3>3, <3>4 DEF a, o
    <3>5. CASE t.parent[k] = temp
      BY <1>1, <1>3, <1>7, <2>4, <3>2, <3>3, <3>5 DEF b, o
    <3>6. CASE t.parent[k] \notin {n, temp}
      <4>1. ~(n # t.root /\ t.parent[k] = p /\ SideOf(t, k) = z)
        BY <1>3, <1>4, <2>4, <3>2 DEF p, z
      <4> QED
        BY <1>7, <3>2, <3>3, <3>6, <4>1
    <3> QED
      BY <3>4, <3>5, <3>6
  <2> QED
    BY <2>1, <2>2, <2>3, <2>4
<1>14. /\ C[Sentinel] = {} /\ u.root # Sentinel /\ u.root \in C[u.root]
  BY <1>1, <1>2, <1>3, <1>6, <1>7, <1>8
<1>15. ASSUME NEW k \in M
       PROVE  /\ C[k] = {k} \cup C[u.child["left"][k]] \cup C[u.child["right"][k]]
              /\ C[u.child["left"][k]] \cap C[u.child["right"][k]] = {}
  <2>1. (s = "left" /\ o = "right") \/ (s = "right" /\ o = "left")
    BY <1>3 DEF Sides, Mirror
  <2> QED
    BY <1>12, <2>1
<1>18. ASSUME NEW k \in M \ {u.root}
       PROVE  u.parent[k] \in M /\ \E q \in Sides : u.child[q][u.parent[k]] = k
  BY <1>8, <1>13
<1>19. C \in [All -> SUBSET Nodes]
  BY <1>6
<1>20. Describes(u, C)
  <2>1. /\ \A k \in C[u.root], q \in Sides :
              /\ u.child[q][k] \in C[u.root] \cup {Sentinel}
              /\ k \notin C[u.child[q][k]]
              /\ u.child[q][k] # Sentinel => u.parent[u.child[q][k]] = k
    BY <1>8, <1>11
  <2>2. \A k \in C[u.root] :
              /\ C[k] = {k} \cup C[u.child["left"][k]] \cup C[u.child["right"][k]]
              /\ C[u.child["left"][k]] \cap C[u.child["right"][k]] = {}
    BY <1>8, <1>15
  <2>3. \A k \in C[u.root] \ {u.root} :
              u.parent[k] \in C[u.root] /\ \E q \in Sides : u.child[q][u.parent[k]] = k
    BY <1>8, <1>18
  <2> QED
    BY <1>14, <1>19, <2>1, <2>2, <2>3 DEF Describes
<1> QED
  BY <1>8, <1>20 DEF M

\* What a rotation leaves at the nodes of a tree
Turns(u, t, M, s, n, temp, targ) ==
    /\ u \in Trees
    /\ u.root = IF n = t.root THEN temp ELSE t.root
    /\ u.child[s][n] = t.child[s][n] /\ u.child[Mirror(s)][n] = targ
    /\ u.child[s][temp] = n /\ u.child[Mirror(s)][temp] = t.child[Mirror(s)][temp]
    /\ \A m \in M \ {n, temp}, r \in Sides :
          /\ t.child[r][m] # temp
          /\ u.child[r][m] = IF t.child[r][m] = n THEN temp ELSE t.child[r][m]
    /\ u.parent[n] = temp /\ u.parent[temp] = t.parent[n]
    /\ \A m \in All \ {n, temp} : u.parent[m] = IF m = targ /\ m # Sentinel THEN n ELSE t.parent[m]

\* The children and parents after a rotation, node by node
LEMMA RotatedChildren ==
    ASSUME NEW t \in Trees, NEW B, NEW s, NEW n, NEW temp, NEW targ, Turnable(t, B, s, n, temp, targ),
           NEW u, Rotated(u, t, s, n, temp, targ)
    PROVE  Turns(u, t, B[t.root], s, n, temp, targ)
<1>0. /\ Describes(t, B) /\ s \in Sides /\ n \in B[t.root]
      /\ temp = t.child[Mirror(s)][n] /\ temp # Sentinel /\ targ = t.child[s][temp]
  BY DEF Turnable
<1> USE <1>0
<1>1. /\ B[t.root] \subseteq Nodes /\ Sentinel \notin Nodes
      /\ temp \in B[t.root] \ {t.root} /\ n # temp /\ t.parent[temp] = n
      /\ n # t.root => t.parent[n] \in B[t.root] \ {n, temp}
  BY RotationNodes
<1>2. Mirror(s) \in Sides /\ Mirror(s) # s /\ n \in All /\ temp \in All
  BY <1>1, SidesAre DEF All
<1>3. /\ u.child[s][n] = t.child[s][n] /\ u.child[Mirror(s)][n] = targ
      /\ u.child[s][temp] = n /\ u.child[Mirror(s)][temp] = t.child[Mirror(s)][temp]
  BY <1>1, <1>2 DEF Rotated
<1>4. ASSUME NEW k \in B[t.root] \ {n, temp}, NEW q \in Sides
      PROVE  /\ t.child[q][k] # temp
             /\ u.child[q][k] = IF t.child[q][k] = n THEN temp ELSE t.child[q][k]
  <2>1. t.child[q][k] # Sentinel =>
           t.child[q][k] # t.root /\ t.parent[t.child[q][k]] = k /\ SideOf(t, t.child[q][k]) = q
    BY ParentIs
  <2>2. n # t.root => t.child[SideOf(t, n)][t.parent[n]] = n
    BY ParentIs
  <2>3. u.child[q][k] = IF n # t.root /\ k = t.parent[n] /\ q = SideOf(t, n) THEN temp ELSE t.child[q][k]
    BY <1>1 DEF Rotated, All
  <2> QED
    BY <1>1, <2>1, <2>2, <2>3
<1>5. /\ u \in Trees /\ u.root = IF n = t.root THEN temp ELSE t.root
      /\ u.parent[n] = temp /\ u.parent[temp] = t.parent[n]
      /\ \A m \in All \ {n, temp} : u.parent[m] = IF m = targ /\ m # Sentinel THEN n ELSE t.parent[m]
  BY <1>1, <1>2 DEF Rotated
<1> QED
  BY <1>3, <1>4, <1>5 DEF Turns

\* A tree with the same pointers at its nodes has the same shape.
LEMMA SameShape ==
    ASSUME NEW t \in Trees, NEW B, Describes(t, B), NEW u, u.root = t.root,
           \A k \in B[t.root] : u.parent[k] = t.parent[k] /\ \A q \in Sides : u.child[q][k] = t.child[q][k]
    PROVE  Describes(u, B)
<1>1. /\ \A n \in B[u.root], s \in Sides :
            /\ u.child[s][n] \in B[u.root] \cup {Sentinel}
            /\ n \notin B[u.child[s][n]]
            /\ u.child[s][n] # Sentinel => u.parent[u.child[s][n]] = n
  BY DEF Describes
<1>2. \A n \in B[u.root] :
          /\ B[n] = {n} \cup B[u.child["left"][n]] \cup B[u.child["right"][n]]
          /\ B[u.child["left"][n]] \cap B[u.child["right"][n]] = {}
  BY DEF Describes, Sides
<1>3. \A n \in B[u.root] \ {u.root} :
          /\ u.parent[n] \in B[u.root]
          /\ \E s \in Sides : u.child[s][u.parent[n]] = n
  BY DEF Describes
<1> QED
  BY <1>1, <1>2, <1>3 DEF Describes

\* A node the tree reached only from the root can be its root.
LEMMA RootGone ==
    ASSUME NEW t \in Trees, NEW B, Describes(t, B), t.root # Sentinel, NEW q \in Sides,
           NEW u, u.root = t.child[q][t.root],
           \A k \in B[u.root] : u.parent[k] = t.parent[k] /\ \A r \in Sides : u.child[r][k] = t.child[r][k]
    PROVE  Describes(u, B)
<1>1. t.root \in B[t.root]
  BY DEF Describes
<1>2. CASE u.root = Sentinel
  BY <1>2 DEF Describes
<1>3. CASE u.root # Sentinel
  <2>1. u.root \in B[t.root] /\ u.root \in B[u.root] /\ t.root \notin B[u.root]
    BY <1>1, <1>3, ChildBelow DEF Describes
  <2>2. B[u.root] \subseteq B[t.root] /\ \A m \in B[u.root] : B[m] \subseteq B[u.root]
    BY <2>1, Nested
  <2>3. ASSUME NEW n \in B[u.root], NEW s \in Sides
        PROVE  /\ u.child[s][n] \in B[u.root] \cup {Sentinel}
               /\ n \notin B[u.child[s][n]]
               /\ u.child[s][n] # Sentinel => u.parent[u.child[s][n]] = n
    <3>1. t.child[s][n] # Sentinel => t.child[s][n] \in B[t.child[s][n]]
      BY <2>2, ChildBelow
    <3>2. B[t.child[s][n]] \subseteq B[n]
      BY <2>2, ChildBelow
    <3>3. t.child[s][n] \in B[u.root] \cup {Sentinel}
      BY <2>2, <3>1, <3>2
    <3>4. n \notin B[t.child[s][n]] /\ (t.child[s][n] # Sentinel => t.parent[t.child[s][n]] = n)
      BY <2>2 DEF Describes
    <3> QED
      BY <3>3, <3>4
  <2>4. \A n \in B[u.root] :
          /\ B[n] = {n} \cup B[u.child["left"][n]] \cup B[u.child["right"][n]]
          /\ B[u.child["left"][n]] \cap B[u.child["right"][n]] = {}
    BY <2>2 DEF Describes, Sides
  <2>5. ASSUME NEW n \in B[u.root] \ {u.root}
        PROVE  /\ u.parent[n] \in B[u.root]
               /\ \E s \in Sides : u.child[s][u.parent[n]] = n
    <3>1. n \in B[t.root] \ {t.root}
      BY <2>1, <2>2
    <3>2. t.parent[n] \in B[u.root]
      BY <2>1, <2>5, <3>1, ParentAbove
    <3>3. \E s \in Sides : t.child[s][t.parent[n]] = n
      BY <3>1 DEF Describes
    <3> QED
      BY <3>2, <3>3
  <2> QED
    BY <2>1, <2>3, <2>4, <2>5 DEF Describes
<1> QED
  BY <1>2, <1>3

\* n is a new leaf on the side s of p.
LeafPut(u, t, s, p, n) ==
    /\ u \in Trees /\ u.root = t.root
    /\ \A k \in All : /\ u.parent[k] = IF k = n THEN p ELSE t.parent[k]
                      /\ u.red[k] = IF k = n THEN TRUE ELSE t.red[k]
    /\ \A q \in Sides, k \in All :
          u.child[q][k] = IF k = n THEN Sentinel ELSE IF q = s /\ k = p THEN n ELSE t.child[q][k]

\* The subtrees with the new leaf
Grown(B, p, n) ==
    [k \in All |-> IF k = n THEN {n} ELSE IF p \in B[k] THEN B[k] \cup {n} ELSE B[k]]

\* Leaf() writes just these fields.
LEMMA LeafIs ==
    ASSUME NEW t \in Trees, NEW s \in Sides, NEW p \in Nodes, NEW n \in Nodes, p # n
    PROVE  LeafPut(Leaf(t, s, p, n), t, s, p, n)
<1> DEFINE new == [t EXCEPT !.child["left"][n] = Sentinel, !.child["right"][n] = Sentinel]
           below == SetChild(new, s, p, n)
           above == SetParent(below, n, p)
<1>1. Leaf(t, s, p, n) = Paint(above, n, TRUE)
  BY DEF Leaf
<1>2. /\ new \in Trees /\ new.root = t.root /\ new.parent = t.parent /\ new.red = t.red
      /\ \A q \in Sides, k \in All : new.child[q][k] = IF k = n THEN Sentinel ELSE t.child[q][k]
  BY DEF Trees, Sides, All, Pointers
<1> HIDE DEF new
<1>3. p \in All /\ n \in All /\ n \in Pointers /\ p \in Pointers
  BY DEF All, Pointers
<1>4. ChildSet(below, new, s, p, n)
  BY <1>2, <1>3, SetChildIs
<1> HIDE DEF below
<1>5. ParentSet(above, below, n, p)
  BY <1>3, <1>4, SetParentIs DEF ChildSet
<1> HIDE DEF above
<1> DEFINE u == Paint(above, n, TRUE)
<1>6. Painted(u, above, n, TRUE)
  BY <1>3, <1>5, PaintIs DEF ParentSet
<1> HIDE DEF u
<1>7. /\ u \in Trees /\ u.root = t.root
      /\ \A k \in All : /\ u.parent[k] = IF k = n THEN p ELSE t.parent[k]
                        /\ u.red[k] = IF k = n THEN TRUE ELSE t.red[k]
  <2>1. u \in Trees /\ u.root = t.root /\ u.parent = above.parent /\ above.red = t.red
    BY <1>2, <1>4, <1>5, <1>6 DEF ChildSet, ParentSet, Painted
  <2>2. below.parent = t.parent
    BY <1>2, <1>4 DEF ChildSet
  <2> QED
    BY <1>5, <1>6, <2>1, <2>2 DEF ParentSet, Painted
<1>8. ASSUME NEW q \in Sides, NEW k \in All
      PROVE  u.child[q][k] = IF k = n THEN Sentinel ELSE IF q = s /\ k = p THEN n ELSE t.child[q][k]
  <2>1. u.child[q][k] = IF q = s /\ k = p THEN n ELSE new.child[q][k]
    BY <1>4, <1>5, <1>6 DEF ChildSet, ParentSet, Painted
  <2> QED
    BY <1>2, <2>1
<1> QED
  BY <1>1, <1>7, <1>8 DEF LeafPut, u

\* A leaf makes a tree of one more node.
LEMMA LeafShape ==
    ASSUME NEW t \in Trees, NEW B, Describes(t, B), NEW s \in Sides, NEW p \in B[t.root],
           t.child[s][p] = Sentinel, NEW n \in Nodes \ B[t.root],
           NEW u, LeafPut(u, t, s, p, n)
    PROVE  Describes(u, Grown(B, p, n)) /\ Grown(B, p, n)[u.root] = B[t.root] \cup {n}
<1> DEFINE M == B[t.root]
           C == Grown(B, p, n)
<1>1. M \subseteq Nodes /\ Sentinel \notin Nodes /\ p # n /\ t.root # n /\ t.root \in M /\ n # Sentinel
  BY NodeAssumption DEF Describes, Trees, All
<1>2. B \in [All -> SUBSET Nodes] /\ B[Sentinel] = {} /\ M \subseteq All /\ n \in All /\ Sentinel \in All
  BY <1>1 DEF Describes, All
<1>3. /\ C \in [All -> SUBSET Nodes] /\ C[n] = {n} /\ C[Sentinel] = {}
      /\ \A k \in M : C[k] = IF p \in B[k] THEN B[k] \cup {n} ELSE B[k]
  BY <1>1, <1>2 DEF Grown
<1>4. C[u.root] = M \cup {n} /\ u.root = t.root
  BY <1>1, <1>3 DEF LeafPut
<1> HIDE DEF C
<1>5. ASSUME NEW k \in M, NEW q \in Sides
      PROVE  /\ t.child[q][k] \in M \cup {Sentinel} /\ k \notin B[t.child[q][k]]
             /\ n \notin B[t.child[q][k]] /\ k # n
             /\ t.child[q][k] # Sentinel => t.parent[t.child[q][k]] = k
  <2>1. t.child[q][k] \in M \cup {Sentinel}
    BY DEF Describes
  <2>2. B[t.child[q][k]] \subseteq M
    BY <1>2, <2>1, Nested
  <2> QED
    BY <2>1, <2>2 DEF Describes
<1>6. ASSUME NEW k \in M, NEW q \in Sides
      PROVE  /\ u.child[q][k] = IF q = s /\ k = p THEN n ELSE t.child[q][k]
             /\ C[u.child[q][k]] = B[t.child[q][k]] \cup
                   IF (q = s /\ k = p) \/ p \in B[t.child[q][k]] THEN {n} ELSE {}
             /\ u.child[q][k] \in M \cup {n, Sentinel} /\ k \notin C[u.child[q][k]]
             /\ u.child[q][k] # Sentinel => u.parent[u.child[q][k]] = k
  <2>1. u.child[q][k] = IF q = s /\ k = p THEN n ELSE t.child[q][k]
    BY <1>2, <1>5 DEF LeafPut
  <2>2. CASE q = s /\ k = p
    <3>1. u.child[q][k] = n /\ u.parent[n] = k /\ B[t.child[q][k]] = {}
      BY <1>2, <2>1, <2>2 DEF LeafPut
    <3> QED
      BY <1>3, <1>5, <2>1, <2>2, <3>1
  <2>3. CASE ~(q = s /\ k = p)
    <3>1. u.child[q][k] = t.child[q][k] /\ k # n
      BY <1>5, <2>1, <2>3
    <3>2. u.child[q][k] # Sentinel => u.parent[u.child[q][k]] = k
      <4>1. t.child[q][k] # Sentinel => t.child[q][k] \in M /\ t.parent[t.child[q][k]] = k
        BY <1>5
      <4>2. \A c \in M : u.parent[c] = t.parent[c]
        BY <1>2 DEF LeafPut
      <4> QED
        BY <3>1, <4>1, <4>2
    <3>3. C[t.child[q][k]] = B[t.child[q][k]] \cup IF p \in B[t.child[q][k]] THEN {n} ELSE {}
      BY <1>2, <1>3, <1>5
    <3> QED
      BY <1>5, <2>1, <2>3, <3>1, <3>2, <3>3
  <2> QED
    BY <2>2, <2>3
<1>7. ASSUME NEW q \in Sides PROVE u.child[q][n] = Sentinel
  BY <1>2 DEF LeafPut
<1>8. ASSUME NEW k \in M \cup {n}
      PROVE  /\ C[k] = {k} \cup C[u.child["left"][k]] \cup C[u.child["right"][k]]
             /\ C[u.child["left"][k]] \cap C[u.child["right"][k]] = {}
  <2>1. CASE k = n
    BY <1>3, <1>7, <2>1, SidesAre
  <2>2. CASE k \in M
    <3> DEFINE l == t.child["left"][k]
               r == t.child["right"][k]
    <3>1. /\ B[k] = {k} \cup B[l] \cup B[r] /\ B[l] \cap B[r] = {}
          /\ k \notin B[l] /\ k \notin B[r] /\ n \notin B[l] /\ n \notin B[r]
      BY <1>5, <2>2, SidesAre DEF Describes
    <3>2. /\ C[u.child["left"][k]] = B[l] \cup
                IF ("left" = s /\ k = p) \/ p \in B[l] THEN {n} ELSE {}
          /\ C[u.child["right"][k]] = B[r] \cup
                IF ("right" = s /\ k = p) \/ p \in B[r] THEN {n} ELSE {}
      BY <1>6, <2>2, SidesAre
    <3>3. C[k] = B[k] \cup IF p \in B[k] THEN {n} ELSE {}
      BY <1>3, <2>2
    <3>4. s = "left" \/ s = "right"
      BY DEF Sides
    <3> HIDE DEF l, r, M
    <3>5. CASE k = p
      BY <3>1, <3>2, <3>3, <3>4, <3>5
    <3>6. CASE k # p
      BY <3>1, <3>2, <3>3, <3>6
    <3> QED
      BY <3>5, <3>6
  <2> QED
    BY <2>1, <2>2
<1>9. ASSUME NEW k \in (M \cup {n}) \ {t.root}
      PROVE  u.parent[k] \in M /\ \E q \in Sides : u.child[q][u.parent[k]] = k
  <2>1. CASE k = n
    <3>1. u.parent[n] = p /\ p \in M /\ u.child[s][p] = n
      BY <1>2, <1>6 DEF LeafPut
    <3> QED
      BY <2>1, <3>1
  <2>2. CASE k # n
    <3>1. u.parent[k] = t.parent[k] /\ t.parent[k] \in M
      BY <1>2, <1>9, <2>2 DEF LeafPut, Describes
    <3>2. PICK q \in Sides : t.child[q][t.parent[k]] = k
      BY <1>9, <2>2 DEF Describes
    <3>3. k # Sentinel
      BY <1>1, <1>9, <2>2
    <3>4. u.child[q][t.parent[k]] = k
      BY <1>6, <3>1, <3>2, <3>3
    <3> QED
      BY <3>1, <3>4
  <2> QED
    BY <2>1, <2>2
<1>10. ASSUME NEW k \in M \cup {n}, NEW q \in Sides
       PROVE  /\ u.child[q][k] \in M \cup {n, Sentinel}
              /\ k \notin C[u.child[q][k]]
              /\ u.child[q][k] # Sentinel => u.parent[u.child[q][k]] = k
  BY <1>3, <1>6, <1>7
<1>11. Describes(u, C)
  <2>1. /\ \A k \in C[u.root], q \in Sides :
              /\ u.child[q][k] \in C[u.root] \cup {Sentinel}
              /\ k \notin C[u.child[q][k]]
              /\ u.child[q][k] # Sentinel => u.parent[u.child[q][k]] = k
    BY <1>4, <1>10
  <2>2. \A k \in C[u.root] :
              /\ C[k] = {k} \cup C[u.child["left"][k]] \cup C[u.child["right"][k]]
              /\ C[u.child["left"][k]] \cap C[u.child["right"][k]] = {}
    BY <1>4, <1>8
  <2>3. \A k \in C[u.root] \ {u.root} :
              u.parent[k] \in C[u.root] /\ \E q \in Sides : u.child[q][u.parent[k]] = k
    BY <1>4, <1>9
  <2>4. u.root \in C[u.root]
    BY <1>1, <1>4
  <2> QED
    BY <1>3, <2>1, <2>2, <2>3, <2>4 DEF Describes
<1> QED
  BY <1>4, <1>11 DEF C

\* x, a node with no child but c, leaves its place to c.
Bridged(u, t, x, c) ==
    /\ u \in Trees /\ u.root = t.root /\ u.red = t.red
    /\ \A k \in All : u.parent[k] = IF k = c THEN t.parent[x] ELSE t.parent[k]
    /\ \A q \in Sides, k \in All :
          u.child[q][k] = IF q = SideOf(t, x) /\ k = t.parent[x] THEN c ELSE t.child[q][k]

\* The subtrees without x
Without(B, x) == [k \in All |-> B[k] \ {x}]

\* What is left is a tree.
LEMMA BridgedShape ==
    ASSUME NEW t \in Trees, NEW B, Describes(t, B), NEW x \in B[t.root] \ {t.root},
           NEW q0 \in Sides, NEW c, c = t.child[q0][x], t.child[Mirror(q0)][x] = Sentinel,
           NEW u, Bridged(u, t, x, c)
    PROVE  Describes(u, Without(B, x)) /\ Without(B, x)[u.root] = B[t.root] \ {x}
<1> DEFINE M == B[t.root]
           C == Without(B, x)
           p == t.parent[x]
           z == SideOf(t, x)
<1>1. /\ M \subseteq Nodes /\ Sentinel \notin Nodes /\ t.root \in M /\ x # Sentinel
      /\ B \in [All -> SUBSET Nodes] /\ B[Sentinel] = {} /\ M \subseteq All /\ Sentinel \in All
  BY NodeAssumption DEF Describes, Trees, All
<1>2. /\ C \in [All -> SUBSET Nodes] /\ C[Sentinel] = {}
      /\ \A k \in All : C[k] = B[k] \ {x}
  BY <1>1 DEF Without
<1>3. C[u.root] = M \ {x} /\ u.root = t.root
  BY <1>1, <1>2 DEF Bridged
<1> HIDE DEF C
<1>4. /\ p \in M /\ p # x /\ z \in Sides /\ t.child[z][p] = x
      /\ c \in (M \ {t.root, x}) \cup {Sentinel} /\ (c # Sentinel => t.parent[c] = x)
      /\ B[x] = {x} \cup B[c] /\ x \notin B[c]
  <2>1. /\ p \in M /\ p # x /\ z \in Sides /\ t.child[z][p] = x
        /\ c # Sentinel => c \in M \ {t.root} /\ t.parent[c] = x
    BY ParentIs, SidesAre
  <2>2. B[x] = {x} \cup B[c] /\ x \notin B[c]
    <3>1. /\ B[x] = {x} \cup B[t.child["left"][x]] \cup B[t.child["right"][x]]
          /\ x \notin B[t.child[q0][x]]
      BY DEF Describes
    <3>2. (q0 = "left" /\ Mirror(q0) = "right") \/ (q0 = "right" /\ Mirror(q0) = "left")
      BY DEF Sides, Mirror
    <3> QED
      BY <1>1, <3>1, <3>2
  <2>3. c # Sentinel => c \in B[c]
    BY ChildBelow
  <2> QED
    BY <2>1, <2>2, <2>3
<1>5. ASSUME NEW k \in M, NEW q \in Sides
      PROVE  /\ t.child[q][k] \in M \cup {Sentinel} /\ k \notin B[t.child[q][k]]
             /\ t.child[q][k] # Sentinel =>
                   t.parent[t.child[q][k]] = k /\ SideOf(t, t.child[q][k]) = q
  <2>1. t.child[q][k] \in M \cup {Sentinel} /\ k \notin B[t.child[q][k]]
    BY DEF Describes
  <2>2. t.child[q][k] # Sentinel =>
           t.parent[t.child[q][k]] = k /\ SideOf(t, t.child[q][k]) = q
    BY ParentIs
  <2> QED
    BY <2>1, <2>2
<1>6. ASSUME NEW k \in M \ {x}, NEW q \in Sides
      PROVE  /\ u.child[q][k] = IF q = z /\ k = p THEN c ELSE t.child[q][k]
             /\ C[u.child[q][k]] = B[t.child[q][k]] \ {x}
             /\ u.child[q][k] \in (M \ {x}) \cup {Sentinel} /\ k \notin C[u.child[q][k]]
             /\ u.child[q][k] # Sentinel => u.parent[u.child[q][k]] = k
  <2>1. u.child[q][k] = IF q = z /\ k = p THEN c ELSE t.child[q][k]
    BY <1>1 DEF Bridged
  <2>2. CASE q = z /\ k = p
    <3>1. u.child[q][k] = c /\ t.child[q][k] = x /\ (c # Sentinel => u.parent[c] = k)
      BY <1>1, <1>4, <2>1, <2>2 DEF Bridged
    <3>2. C[c] = B[x] \ {x}
      BY <1>1, <1>2, <1>4
    <3> QED
      BY <1>1, <1>4, <1>5, <2>1, <3>1, <3>2
  <2>3. CASE ~(q = z /\ k = p)
    <3>1. u.child[q][k] = t.child[q][k] /\ t.child[q][k] # x
      BY <1>1, <1>5, <2>1, <2>3
    <3>2. t.child[q][k] # Sentinel => t.child[q][k] # c /\ t.child[q][k] \in M
      BY <1>4, <1>5, <1>6
    <3>3. t.child[q][k] # Sentinel => u.parent[t.child[q][k]] = k
      BY <1>1, <1>5, <3>2 DEF Bridged
    <3>4. C[t.child[q][k]] = B[t.child[q][k]] \ {x}
      BY <1>1, <1>2, <1>5
    <3> QED
      BY <1>5, <2>1, <3>1, <3>3, <3>4
  <2> QED
    BY <2>2, <2>3
<1>7. ASSUME NEW k \in M \ {x}
      PROVE  /\ C[k] = {k} \cup C[u.child["left"][k]] \cup C[u.child["right"][k]]
             /\ C[u.child["left"][k]] \cap C[u.child["right"][k]] = {}
  <2>1. /\ B[k] = {k} \cup B[t.child["left"][k]] \cup B[t.child["right"][k]]
        /\ B[t.child["left"][k]] \cap B[t.child["right"][k]] = {}
    BY DEF Describes
  <2>2. /\ C[u.child["left"][k]] = B[t.child["left"][k]] \ {x}
        /\ C[u.child["right"][k]] = B[t.child["right"][k]] \ {x}
        /\ C[k] = B[k] \ {x} /\ k # x
    BY <1>1, <1>2, <1>6, SidesAre
  <2> QED
    BY <2>1, <2>2
<1>8. ASSUME NEW k \in (M \ {x}) \ {t.root}
      PROVE  u.parent[k] \in M \ {x} /\ \E q \in Sides : u.child[q][u.parent[k]] = k
  <2>1. CASE k = c
    <3>1. u.parent[k] = p /\ u.child[z][p] = c
      BY <1>1, <1>4, <1>6, <2>1 DEF Bridged
    <3> QED
      BY <1>4, <2>1, <3>1
  <2>2. CASE k # c
    <3>1. u.parent[k] = t.parent[k] /\ t.parent[k] \in M /\ t.child[SideOf(t, k)][t.parent[k]] = k
      BY <1>1, <2>2, ParentIs DEF Bridged
    <3>2. SideOf(t, k) \in Sides
      BY SidesAre
    <3>3. t.parent[k] # x
      <4>1. SUFFICES ASSUME t.parent[k] = x PROVE FALSE
        OBVIOUS
      <4>2. SideOf(t, k) = q0 \/ SideOf(t, k) = Mirror(q0)
        BY <3>2, SidesAre
      <4> QED
        BY <1>1, <2>2, <3>1, <4>1, <4>2
    <3>4. u.child[SideOf(t, k)][t.parent[k]] = k
      BY <1>4, <1>6, <3>1, <3>2, <3>3
    <3> QED
      BY <3>1, <3>2, <3>3, <3>4
  <2> QED
    BY <2>1, <2>2
<1>9. Describes(u, C)
  <2>1. /\ \A k \in C[u.root], q \in Sides :
              /\ u.child[q][k] \in C[u.root] \cup {Sentinel}
              /\ k \notin C[u.child[q][k]]
              /\ u.child[q][k] # Sentinel => u.parent[u.child[q][k]] = k
    BY <1>3, <1>6
  <2>2. \A k \in C[u.root] :
              /\ C[k] = {k} \cup C[u.child["left"][k]] \cup C[u.child["right"][k]]
              /\ C[u.child["left"][k]] \cap C[u.child["right"][k]] = {}
    BY <1>3, <1>7
  <2>3. \A k \in C[u.root] \ {u.root} :
              u.parent[k] \in C[u.root] /\ \E q \in Sides : u.child[q][u.parent[k]] = k
    BY <1>3, <1>8
  <2>4. u.root \in C[u.root]
    BY <1>1, <1>3
  <2> QED
    BY <1>2, <2>1, <2>2, <2>3, <2>4 DEF Describes
<1> QED
  BY <1>3, <1>9 DEF C

\* x, which is not in the tree, takes the place of n.
Exchanged(v, u, n, x) ==
    /\ v \in Trees /\ v.root = IF n = u.root THEN x ELSE u.root
    /\ \A k \in All : v.red[k] = IF k = x THEN u.red[n] ELSE u.red[k]
    /\ \A k \in Nodes : v.parent[k] = IF k = x THEN u.parent[n]
                                      ELSE IF \E q \in Sides : k = u.child[q][n] THEN x
                                      ELSE u.parent[k]
    /\ \A q \in Sides, k \in All :
          v.child[q][k] = IF k = x THEN u.child[q][n]
                          ELSE IF n # u.root /\ q = SideOf(u, n) /\ k = u.parent[n] THEN x
                          ELSE u.child[q][k]

\* The subtrees with x in place of n
Swapped(B, n, x) ==
    [k \in All |-> IF k = x THEN (B[n] \ {n}) \cup {x}
                   ELSE IF n \in B[k] THEN (B[k] \ {n}) \cup {x} ELSE B[k]]

\* The result is a tree.
LEMMA ExchangedShape ==
    ASSUME NEW t \in Trees, NEW B, Describes(t, B), NEW n \in B[t.root], NEW x \in Nodes \ B[t.root],
           NEW u, Exchanged(u, t, n, x)
    PROVE  Describes(u, Swapped(B, n, x)) /\ Swapped(B, n, x)[u.root] = (B[t.root] \ {n}) \cup {x}
<1> DEFINE M == B[t.root]
           C == Swapped(B, n, x)
           p == t.parent[n]
           z == SideOf(t, n)
           N == (M \ {n}) \cup {x}
<1>1. /\ M \subseteq Nodes /\ Sentinel \notin Nodes /\ t.root \in M /\ x # Sentinel /\ n # Sentinel
      /\ B \in [All -> SUBSET Nodes] /\ B[Sentinel] = {} /\ M \subseteq All /\ Sentinel \in All
      /\ x \in All /\ n \in M /\ x \notin M /\ x # n /\ x \in Nodes
  BY NodeAssumption DEF Describes, Trees, All
<1>2. /\ C \in [All -> SUBSET Nodes] /\ C[Sentinel] = {} /\ C[x] = (B[n] \ {n}) \cup {x}
      /\ \A k \in M \cup {Sentinel} : C[k] = IF n \in B[k] THEN (B[k] \ {n}) \cup {x} ELSE B[k]
  BY <1>1 DEF Swapped
<1>3. C[u.root] = N /\ u.root = IF n = t.root THEN x ELSE t.root
  BY <1>1, <1>2 DEF Exchanged
<1> HIDE DEF C
<1>4. n # t.root => p \in M /\ p # n /\ z \in Sides /\ t.child[z][p] = n
  BY ParentIs, SidesAre
<1>5. ASSUME NEW k \in M, NEW q \in Sides
      PROVE  /\ t.child[q][k] \in M \cup {Sentinel} /\ k \notin B[t.child[q][k]]
             /\ x \notin B[t.child[q][k]] /\ t.child[q][k] # x
             /\ t.child[q][k] # Sentinel =>
                   /\ t.parent[t.child[q][k]] = k /\ SideOf(t, t.child[q][k]) = q
                   /\ t.child[q][k] # t.root
  <2>1. t.child[q][k] \in M \cup {Sentinel} /\ k \notin B[t.child[q][k]]
    BY DEF Describes
  <2>2. B[t.child[q][k]] \subseteq M
    BY <1>1, <2>1, Nested
  <2> QED
    BY <1>1, <2>1, <2>2, ParentIs
<1>6. ASSUME NEW q \in Sides
      PROVE  /\ u.child[q][x] = t.child[q][n] /\ t.child[q][n] # n
             /\ t.child[q][n] # Sentinel => u.parent[t.child[q][n]] = x
             /\ C[t.child[q][n]] = B[t.child[q][n]]
  <2>1. u.child[q][x] = t.child[q][n]
    BY <1>1 DEF Exchanged
  <2>2. t.child[q][n] \in M \cup {Sentinel} /\ n \notin B[t.child[q][n]] /\ t.child[q][n] # x
    BY <1>1, <1>5
  <2>3. n \in B[n]
    BY ChildBelow
  <2>4. t.child[q][n] # Sentinel => u.parent[t.child[q][n]] = x
    BY <1>1, <2>2 DEF Exchanged
  <2> QED
    BY <1>2, <2>1, <2>2, <2>3, <2>4
<1>7. ASSUME NEW k \in M \ {n}, NEW q \in Sides
      PROVE  /\ u.child[q][k] = IF t.child[q][k] = n THEN x ELSE t.child[q][k]
             /\ u.child[q][k] # Sentinel => u.parent[u.child[q][k]] = k
             /\ C[u.child[q][k]] = IF n \in B[t.child[q][k]] THEN (B[t.child[q][k]] \ {n}) \cup {x}
                                                             ELSE B[t.child[q][k]]
  <2>1. u.child[q][k] = IF n # t.root /\ q = z /\ k = p THEN x ELSE t.child[q][k]
    BY <1>1, <1>7 DEF Exchanged
  <2>2. CASE t.child[q][k] = n
    <3>1. n # t.root /\ q = z /\ k = p
      BY <1>1, <1>5, <2>2
    <3>2. u.child[q][k] = x /\ u.parent[x] = k
      BY <1>1, <2>1, <3>1 DEF Exchanged
    <3>3. n \in B[n]
      BY ChildBelow
    <3> QED
      BY <1>2, <2>2, <3>2, <3>3
  <2>3. CASE t.child[q][k] # n
    <3>1. u.child[q][k] = t.child[q][k]
      BY <1>4, <2>1, <2>3
    <3>2. t.child[q][k] # Sentinel =>
             /\ t.child[q][k] \in M /\ t.child[q][k] # x
             /\ \A r \in Sides : t.child[q][k] # t.child[r][n]
      BY <1>1, <1>5, <1>7
    <3>3. t.child[q][k] # Sentinel => u.parent[t.child[q][k]] = k
      BY <1>1, <1>5, <3>2 DEF Exchanged
    <3> QED
      BY <1>2, <1>5, <2>3, <3>1, <3>3
  <2> QED
    BY <2>2, <2>3
<1>8. ASSUME NEW k \in N, NEW q \in Sides
      PROVE  /\ u.child[q][k] \in N \cup {Sentinel}
             /\ k \notin C[u.child[q][k]]
             /\ u.child[q][k] # Sentinel => u.parent[u.child[q][k]] = k
  <2>1. CASE k = x
    BY <1>1, <1>5, <1>6, <2>1
  <2>2. CASE k # x
    <3>1. k \in M \ {n}
      BY <2>2
    <3>2. t.child[q][k] \in M \cup {Sentinel} /\ k \notin B[t.child[q][k]]
      BY <1>5, <3>1
    <3>3. /\ u.child[q][k] = IF t.child[q][k] = n THEN x ELSE t.child[q][k]
          /\ u.child[q][k] # Sentinel => u.parent[u.child[q][k]] = k
          /\ C[u.child[q][k]] = IF n \in B[t.child[q][k]] THEN (B[t.child[q][k]] \ {n}) \cup {x}
                                                          ELSE B[t.child[q][k]]
      BY <1>7, <3>1
    <3> QED
      BY <2>2, <3>2, <3>3
  <2> QED
    BY <2>1, <2>2
<1>9. ASSUME NEW k \in N
      PROVE  /\ C[k] = {k} \cup C[u.child["left"][k]] \cup C[u.child["right"][k]]
             /\ C[u.child["left"][k]] \cap C[u.child["right"][k]] = {}
  <2>1. \A m \in M : /\ B[m] = {m} \cup B[t.child["left"][m]] \cup B[t.child["right"][m]]
                     /\ B[t.child["left"][m]] \cap B[t.child["right"][m]] = {}
    BY DEF Describes
  <2>2. CASE k = x
    <3>1. /\ C[u.child["left"][k]] = B[t.child["left"][n]]
          /\ C[u.child["right"][k]] = B[t.child["right"][n]]
      BY <1>6, <2>2, SidesAre
    <3>2. n \notin B[t.child["left"][n]] /\ n \notin B[t.child["right"][n]]
      BY <1>1, <1>5, SidesAre
    <3>3. /\ B[n] = {n} \cup B[t.child["left"][n]] \cup B[t.child["right"][n]]
          /\ B[t.child["left"][n]] \cap B[t.child["right"][n]] = {}
      BY <2>1
    <3> QED
      BY <1>2, <2>2, <3>1, <3>2, <3>3
  <2>3. CASE k # x
    <3> DEFINE l == B[t.child["left"][k]]
               r == B[t.child["right"][k]]
    <3>1. /\ C[u.child["left"][k]] = IF n \in l THEN (l \ {n}) \cup {x} ELSE l
          /\ C[u.child["right"][k]] = IF n \in r THEN (r \ {n}) \cup {x} ELSE r
      BY <1>7, <2>3, SidesAre
    <3>2. x \notin l /\ x \notin r /\ B[k] = {k} \cup l \cup r /\ l \cap r = {} /\ k # n
      BY <1>5, <2>1, <2>3, SidesAre
    <3>3. C[k] = IF n \in B[k] THEN (B[k] \ {n}) \cup {x} ELSE B[k]
      BY <1>2, <2>3
    <3> HIDE DEF l, r
    <3>4. CASE n \in l
      BY <2>3, <3>1, <3>2, <3>3, <3>4
    <3>5. CASE n \in r
      BY <2>3, <3>1, <3>2, <3>3, <3>5
    <3>6. CASE n \notin l /\ n \notin r
      BY <2>3, <3>1, <3>2, <3>3, <3>6
    <3> QED
      BY <3>4, <3>5, <3>6
  <2> QED
    BY <2>2, <2>3
<1>10. ASSUME NEW k \in N \ {u.root}
       PROVE  u.parent[k] \in N /\ \E q \in Sides : u.child[q][u.parent[k]] = k
  <2>1. CASE k = x
    <3>1. n # t.root /\ u.parent[x] = p
      BY <1>1, <1>3, <1>10, <2>1 DEF Exchanged
    <3>2. u.child[z][p] = x /\ p \in N /\ z \in Sides
      BY <1>4, <1>7, <3>1
    <3> QED
      BY <2>1, <3>1, <3>2
  <2>2. CASE k # x
    <3>1. k \in M \ {t.root, n}
      BY <1>3, <1>10, <2>2
    <3>2. /\ t.parent[k] \in M /\ SideOf(t, k) \in Sides /\ t.child[SideOf(t, k)][t.parent[k]] = k
          /\ k # Sentinel /\ k \in Nodes
      BY <1>1, <3>1, ParentIs, SidesAre
    <3>3. CASE t.parent[k] = n
      <4>1. u.parent[k] = x
        BY <2>2, <3>2, <3>3 DEF Exchanged
      <4>2. u.child[SideOf(t, k)][x] = k
        BY <1>6, <3>2, <3>3
      <4> QED
        BY <3>2, <4>1, <4>2
    <3>4. CASE t.parent[k] # n
      <4>1. \A q \in Sides : k # t.child[q][n]
        BY <1>1, <1>5, <3>2, <3>4
      <4>2. u.parent[k] = t.parent[k]
        BY <2>2, <3>2, <4>1 DEF Exchanged
      <4>3. u.child[SideOf(t, k)][t.parent[k]] = k
        BY <1>7, <3>1, <3>2, <3>4
      <4> QED
        BY <3>2, <3>4, <4>2, <4>3
    <3> QED
      BY <3>3, <3>4
  <2> QED
    BY <2>1, <2>2
<1>11. Describes(u, C)
  <2>1. /\ \A k \in C[u.root], q \in Sides :
              /\ u.child[q][k] \in C[u.root] \cup {Sentinel}
              /\ k \notin C[u.child[q][k]]
              /\ u.child[q][k] # Sentinel => u.parent[u.child[q][k]] = k
    BY <1>3, <1>8
  <2>2. \A k \in C[u.root] :
              /\ C[k] = {k} \cup C[u.child["left"][k]] \cup C[u.child["right"][k]]
              /\ C[u.child["left"][k]] \cap C[u.child["right"][k]] = {}
    BY <1>3, <1>9
  <2>3. \A k \in C[u.root] \ {u.root} :
              u.parent[k] \in C[u.root] /\ \E q \in Sides : u.child[q][u.parent[k]] = k
    BY <1>3, <1>10
  <2>4. u.root \in C[u.root]
    BY <1>1, <1>3
  <2> QED
    BY <1>2, <2>1, <2>2, <2>3, <2>4 DEF Describes
<1> QED
  BY <1>3, <1>11 DEF C

=============================================================================
