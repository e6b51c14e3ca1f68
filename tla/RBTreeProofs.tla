---------------------------- MODULE RBTreeProofs ----------------------------
(***************************************************************************)
(* Proofs about module RBTree, for every finite set of nodes and every     *)
(* width of the keys.                                                      *)
(***************************************************************************)
EXTENDS RBTreeShape

-----------------------------------------------------------------------------
(* Keys                                                                    *)

\* The key of a timer that is due d after x, where x is the clock
KeyAt(x, d) == (x + d) % KeyRange

Delays == (0 - MaxLate) .. MaxDelay

\* The keys of the timers in M lie in a window around the clock.
InWindow(k, x, M) == \A n \in M : \E d \in Delays : k[n] = KeyAt(x, d)

\* The remainder of a number that is at most one range off
LEMMA Remainder ==
    ASSUME NEW R \in Nat, R > 0, NEW x \in Int
    PROVE  /\ x % R \in 0 .. R - 1
           /\ 0 <= x /\ x < R => x % R = x
           /\ -R <= x /\ x < 0 => x % R = x + R
           /\ R <= x /\ x < 2 * R => x % R = x - R
  OBVIOUS

\* In the window the signed difference of two keys says which is earlier, also
\* when the clock has overflowed between them.
LEMMA BeforeIs ==
    ASSUME NEW x \in Keys, NEW d \in Delays, NEW e \in Delays
    PROVE  /\ KeyAt(x, d) \in Keys
           /\ Before(KeyAt(x, d), KeyAt(x, e)) <=> d < e
<1>1. /\ HalfRange \in Nat /\ HalfRange > 0 /\ KeyRange \in Nat /\ KeyRange > 0 /\ KeyRange = 2 * HalfRange
      /\ x \in Int /\ 0 <= x /\ x < KeyRange /\ d \in Int /\ e \in Int
      /\ -HalfRange < d /\ d < HalfRange /\ -HalfRange < e /\ e < HalfRange
      /\ d - e < HalfRange /\ e - d < HalfRange
  BY WidthAssumption DEF KeyRange, Keys, Delays
<1> DEFINE a == KeyAt(x, d)
           b == KeyAt(x, e)
<1>2. a = x + d \/ a = x + d - KeyRange \/ a = x + d + KeyRange
  BY <1>1, Remainder DEF KeyAt
<1>3. b = x + e \/ b = x + e - KeyRange \/ b = x + e + KeyRange
  BY <1>1, Remainder DEF KeyAt
<1>4. a \in 0 .. KeyRange - 1 /\ b \in 0 .. KeyRange - 1
  BY <1>1, Remainder DEF KeyAt
<1> HIDE DEF a, b
<1>5. a - b \in Int /\ -KeyRange <= a - b /\ a - b < KeyRange
  BY <1>1, <1>4
<1>6. (a - b) % KeyRange = IF 0 <= a - b THEN a - b ELSE a - b + KeyRange
  BY <1>1, <1>5, Remainder
<1>7. (a - b) % KeyRange >= HalfRange <=> d < e
  BY <1>1, <1>2, <1>3, <1>4, <1>5, <1>6
<1> QED
  BY <1>1, <1>4, <1>7 DEF Before, Keys, a, b

\* The keys of M are ordered.
Orders(k, M) ==
    /\ \A a \in M : ~Before(k[a], k[a])
    /\ \A a, b \in M : Before(k[a], k[b]) => ~Before(k[b], k[a])
    /\ \A a, b, c \in M : ~Before(k[b], k[a]) /\ ~Before(k[c], k[b]) => ~Before(k[c], k[a])

\* Keys in the window around the clock are ordered, whatever the clock shows.
LEMMA WindowOrders ==
    ASSUME NEW x \in Keys, NEW k, NEW M, InWindow(k, x, M)
    PROVE  Orders(k, M)
<1>1. \A a \in M : \E d \in Delays : k[a] = KeyAt(x, d)
  BY DEF InWindow
<1>2. \A d \in Delays : d \in Int
  BY WidthAssumption DEF Delays
<1>3. ASSUME NEW a \in M PROVE ~Before(k[a], k[a])
  <2>1. PICK d \in Delays : k[a] = KeyAt(x, d)
    BY <1>1
  <2> QED
    BY <1>2, <2>1, BeforeIs
<1>4. ASSUME NEW a \in M, NEW b \in M, Before(k[a], k[b]) PROVE ~Before(k[b], k[a])
  <2>1. PICK d \in Delays : k[a] = KeyAt(x, d)
    BY <1>1
  <2>2. PICK e \in Delays : k[b] = KeyAt(x, e)
    BY <1>1
  <2>3. d < e /\ d \in Int /\ e \in Int
    BY <1>2, <1>4, <2>1, <2>2, BeforeIs
  <2> QED
    BY <2>1, <2>2, <2>3, BeforeIs
<1>5. ASSUME NEW a \in M, NEW b \in M, NEW c \in M, ~Before(k[b], k[a]), ~Before(k[c], k[b])
      PROVE  ~Before(k[c], k[a])
  <2>1. PICK d \in Delays : k[a] = KeyAt(x, d)
    BY <1>1
  <2>2. PICK e \in Delays : k[b] = KeyAt(x, e)
    BY <1>1
  <2>3. PICK f \in Delays : k[c] = KeyAt(x, f)
    BY <1>1
  <2>4. ~(e < d) /\ ~(f < e) /\ d \in Int /\ e \in Int /\ f \in Int
    BY <1>2, <1>5, <2>1, <2>2, <2>3, BeforeIs
  <2> QED
    BY <2>1, <2>2, <2>3, <2>4, BeforeIs
<1> QED
  BY <1>3, <1>4, <1>5 DEF Orders

\* A timer outside the edge of the window stays in it when the clock ticks.
LEMMA TickWindow ==
    ASSUME NEW x \in Keys, NEW d \in Delays, (x - KeyAt(x, d)) % KeyRange # MaxLate
    PROVE  /\ (x + 1) % KeyRange \in Keys
           /\ d - 1 \in Delays
           /\ KeyAt(x, d) = KeyAt((x + 1) % KeyRange, d - 1)
<1>1. /\ HalfRange \in Nat /\ HalfRange > 0 /\ KeyRange \in Nat /\ KeyRange > 0 /\ KeyRange = 2 * HalfRange
      /\ x \in Int /\ 0 <= x /\ x < KeyRange /\ d \in Int
      /\ -HalfRange < d /\ d < HalfRange /\ MaxLate \in Nat /\ MaxDelay \in Nat /\ MaxLate < HalfRange
      /\ 0 - MaxLate <= d /\ d <= MaxDelay
  BY WidthAssumption DEF KeyRange, Keys, Delays
<1> DEFINE a == KeyAt(x, d)
           y == (x + 1) % KeyRange
<1>2. /\ a \in 0 .. KeyRange - 1
      /\ a = IF x + d < 0 THEN x + d + KeyRange ELSE IF x + d < KeyRange THEN x + d ELSE x + d - KeyRange
  BY <1>1, Remainder DEF KeyAt
<1>3. y \in 0 .. KeyRange - 1 /\ y = IF x + 1 < KeyRange THEN x + 1 ELSE 0
  BY <1>1, Remainder
<1>4. d # 0 - MaxLate
  <2>1. SUFFICES ASSUME d = 0 - MaxLate PROVE (x - a) % KeyRange = MaxLate
    OBVIOUS
  <2>2. x - a = MaxLate \/ x - a = MaxLate - KeyRange
    BY <1>1, <1>2, <2>1
  <2> HIDE DEF a
  <2> QED
    BY <1>1, <2>2, Remainder
<1> HIDE DEF y
<1>5. y + (d - 1) = x + d \/ y + (d - 1) = x + d - KeyRange
  BY <1>1, <1>3
<1>6. d - 1 \in Delays
  BY <1>1, <1>4 DEF Delays
<1>7. (y + (d - 1)) % KeyRange = a
  <2>1. (x + d) % KeyRange = a
    BY DEF KeyAt
  <2>2. (x + d - KeyRange) % KeyRange = (x + d) % KeyRange
    BY <1>1
  <2> QED
    BY <1>5, <2>1, <2>2
<1> QED
  BY <1>3, <1>6, <1>7 DEF KeyAt, Keys, y

-----------------------------------------------------------------------------
(* The order of the nodes                                                  *)

\* a may lie on the side s of b.
MayLie(k, s, a, b) == IF s = "left" THEN ~Before(k[b], k[a]) ELSE ~Before(k[a], k[b])

Sorted(t, B, k) ==
    \A n \in B[t.root], s \in Sides : \A m \in B[t.child[s][n]] : MayLie(k, s, m, n)

\* What lies on one side of a node that lies there lies there too.
LEMMA LieTransitive ==
    ASSUME NEW k, NEW M, Orders(k, M), NEW s \in Sides
    PROVE  /\ \A a, b \in M : MayLie(k, s, a, b) <=> MayLie(k, Mirror(s), b, a)
           /\ \A a, b, c \in M : MayLie(k, s, a, b) /\ MayLie(k, s, b, c) => MayLie(k, s, a, c)
  BY DEF Orders, MayLie, Sides, Mirror

\* A rotation keeps the order.
LEMMA RotatedSorted ==
    ASSUME NEW t \in Trees, NEW B, NEW s, NEW n, NEW temp, NEW targ, Turnable(t, B, s, n, temp, targ),
           NEW u, Rotated(u, t, s, n, temp, targ),
           NEW C, C = Turned(t, B, s, n, temp, targ),
           NEW k, Orders(k, B[t.root]), Sorted(t, B, k)
    PROVE  Sorted(u, C, k)
<1>0. /\ Describes(t, B) /\ s \in Sides /\ n \in B[t.root]
      /\ temp = t.child[Mirror(s)][n] /\ temp # Sentinel /\ targ = t.child[s][temp]
  BY DEF Turnable
<1> DEFINE M == B[t.root]
           o == Mirror(s)
           a == t.child[s][n]
           b == t.child[o][temp]
<1>1. /\ M \subseteq Nodes /\ Sentinel \notin Nodes
      /\ temp \in M \ {t.root} /\ targ \in M \cup {Sentinel} /\ n \in M
      /\ n # temp /\ targ # n /\ targ # temp
  BY <1>0, RotationNodes
<1>2. /\ u.child[s][n] = a /\ u.child[o][n] = targ /\ u.child[s][temp] = n /\ u.child[o][temp] = b
      /\ \A j \in M \ {n, temp}, q \in Sides :
            /\ t.child[q][j] # temp
            /\ u.child[q][j] = IF t.child[q][j] = n THEN temp ELSE t.child[q][j]
  BY RotatedChildren DEF Turns
<1>3. C[u.root] = M
  BY RotatedShape
<1>4. o \in Sides /\ o # s /\ Mirror(o) = s /\ \A q \in Sides : q = s \/ q = o
  BY <1>0, SidesAre
<1>5. a \in M \cup {Sentinel} /\ b \in M \cup {Sentinel} /\ a # n /\ b # temp /\ a # temp /\ b # n
  <2>1. /\ a # Sentinel => a \in M /\ t.parent[a] = n /\ SideOf(t, a) = s /\ a # t.root
        /\ b # Sentinel => b \in M /\ t.parent[b] = temp /\ b # t.root
        /\ temp # Sentinel => t.parent[temp] = n /\ SideOf(t, temp) = o
        /\ n # t.root => t.parent[n] # temp /\ t.parent[n] # n
    BY <1>0, <1>1, <1>4, ParentIs, RotationNodes
  <2>2. t.parent[temp] # temp
    BY <1>0, <1>1, ParentIs
  <2> QED
    BY <1>1, <1>4, <2>1, <2>2
<1>6. /\ C[n] = {n} \cup B[a] \cup B[targ] /\ C[temp] = B[n]
      /\ \A j \in All \ {n, temp} : C[j] = B[j]
      /\ B[Sentinel] = {}
  BY <1>0, <1>1 DEF Turned, Describes, All
<1>7. /\ n \in B[n] /\ temp \in B[temp] /\ B[targ] \subseteq B[temp] /\ B[b] \subseteq B[temp] /\ B[temp] \subseteq B[n]
      /\ B[a] \subseteq M /\ B[temp] \subseteq M
  <2>1. n \in B[n] /\ temp \in B[temp] /\ B[temp] \subseteq B[n]
    BY <1>0, <1>1, <1>4, ChildBelow
  <2>2. B[targ] \subseteq B[temp] /\ B[b] \subseteq B[temp]
    BY <1>0, <1>1, <1>4, ChildBelow
  <2>3. B[a] \subseteq B[n] /\ B[n] \subseteq M
    BY <1>0, ChildBelow, Nested
  <2> QED
    BY <2>1, <2>2, <2>3
<1>8. \A j \in M, q \in Sides : \A m \in B[t.child[q][j]] : MayLie(k, q, m, j)
  BY DEF Sorted
<1>9. \A q \in Sides :
         /\ \A i, j \in M : MayLie(k, q, i, j) <=> MayLie(k, Mirror(q), j, i)
         /\ \A i, j, l \in M : MayLie(k, q, i, j) /\ MayLie(k, q, j, l) => MayLie(k, q, i, l)
  BY <1>0, LieTransitive
<1>10. temp = t.child[o][n] /\ targ = t.child[s][temp]
  BY <1>0
<1> HIDE DEF M, a, b, o
<1>11. MayLie(k, o, temp, n) /\ MayLie(k, s, n, temp)
  BY <1>1, <1>4, <1>7, <1>8, <1>9, <1>10
<1>12. ASSUME NEW q \in Sides, NEW m \in C[u.child[q][n]] PROVE MayLie(k, q, m, n)
  <2>1. C[a] = B[a] /\ C[targ] = B[targ]
    BY <1>1, <1>5, <1>6 DEF All
  <2>2. CASE q = s
    BY <1>1, <1>2, <1>8, <1>12, <2>1, <2>2 DEF a
  <2>3. CASE q = o
    <3>1. m \in B[temp]
      BY <1>2, <1>7, <1>12, <2>1, <2>3
    <3> QED
      BY <1>1, <1>8, <1>10, <2>3, <3>1
  <2> QED
    BY <1>4, <2>2, <2>3
<1>13. ASSUME NEW q \in Sides, NEW m \in C[u.child[q][temp]] PROVE MayLie(k, q, m, temp)
  <2>1. CASE q = o
    <3>1. m \in B[b]
      BY <1>1, <1>2, <1>5, <1>6, <1>13, <2>1 DEF All
    <3> QED
      BY <1>1, <1>8, <2>1, <3>1 DEF b
  <2>2. CASE q = s
    <3>1. m \in {n} \cup B[a] \cup B[targ]
      BY <1>2, <1>6, <1>13, <2>2
    <3>2. CASE m \in B[a]
      <4>1. MayLie(k, s, m, n) /\ m \in M
        BY <1>0, <1>1, <1>7, <1>8, <3>2 DEF a
      <4> QED
        BY <1>1, <1>9, <1>11, <2>2, <4>1
    <3>3. CASE m \in B[targ]
      BY <1>1, <1>8, <1>10, <2>2, <3>3
    <3> QED
      BY <1>11, <2>2, <3>1, <3>2, <3>3
  <2> QED
    BY <1>4, <2>1, <2>2
<1>14. ASSUME NEW j \in M \ {n, temp}, NEW q \in Sides, NEW m \in C[u.child[q][j]] PROVE MayLie(k, q, m, j)
  <2>1. C[u.child[q][j]] = B[t.child[q][j]]
    <3>1. t.child[q][j] \in All
      BY <1>0, <1>1, ChildBelow DEF M
    <3> QED
      BY <1>2, <1>6, <3>1
  <2> QED
    BY <1>8, <1>14, <2>1
<1>15. ASSUME NEW j \in C[u.root], NEW q \in Sides, NEW m \in C[u.child[q][j]] PROVE MayLie(k, q, m, j)
  <2>1. j = n \/ j = temp \/ j \in M \ {n, temp}
    BY <1>3
  <2> QED
    BY <1>12, <1>13, <1>14, <1>15, <2>1
<1> QED
  BY <1>15 DEF Sorted

-----------------------------------------------------------------------------
(* Blacks                                                                  *)

Weight(t, n) == IF t.red[n] THEN 0 ELSE 1

\* h[n] is the number of blacks from n down to the sentinel, the same on every
\* path, where the step from p to its side q counts for one more (p is NULL if
\* no step does).
Even(t, M, h, p, q) ==
    /\ h \in [All -> Nat] /\ h[Sentinel] = 0
    /\ \A a \in M, s \in Sides :
          h[a] = h[t.child[s][a]] + Weight(t, a) + IF a = p /\ s = q THEN 1 ELSE 0

\* t is a tree of the nodes in M, sorted by k and even.
Fits(t, M, k, h, p, q) ==
    \E B : Describes(t, B) /\ B[t.root] = M /\ Sorted(t, B, k) /\ Even(t, M, h, p, q)

\* The two nodes a rotation turns exchange their colours.
Recoloured(v, t, n, temp) ==
    /\ v \in Trees /\ v.root = t.root /\ v.child = t.child /\ v.parent = t.parent
    /\ \A m \in All : v.red[m] = IF m = temp THEN t.red[n] ELSE IF m = n THEN TRUE ELSE t.red[m]

\* A rotation of a sorted tree
LEMMA RotateSorted ==
    ASSUME NEW t \in Trees, NEW B, NEW s, NEW n, NEW temp, NEW targ, Turnable(t, B, s, n, temp, targ),
           NEW k, Orders(k, B[t.root]), Sorted(t, B, k)
    PROVE  /\ Turns(Rotate(t, s, n), t, B[t.root], s, n, temp, targ)
           /\ Rotate(t, s, n).red = t.red
           /\ \E C : /\ Describes(Rotate(t, s, n), C) /\ C[Rotate(t, s, n).root] = B[t.root]
                     /\ Sorted(Rotate(t, s, n), C, k)
<1>9. PICK u : u = Rotate(t, s, n)
  OBVIOUS
<1>10. PICK C : C = Turned(t, B, s, n, temp, targ)
  OBVIOUS
<1>1. /\ B[t.root] \subseteq Nodes /\ Sentinel \notin Nodes /\ n \in Nodes
      /\ temp \in Nodes /\ targ \in All /\ n # temp /\ targ # n /\ targ # temp
      /\ n # t.root => t.parent[n] \in Nodes \ {n, temp}
  BY RotationNodes DEF All, Turnable
<1>2. Rotated(u, t, s, n, temp, targ)
  BY <1>1, <1>9, RotateIs DEF Turnable
<1>3. Describes(u, C) /\ C[u.root] = B[t.root]
  BY <1>2, <1>10, RotatedShape
<1>4. Sorted(u, C, k)
  BY <1>2, <1>10, RotatedSorted
<1>5. Turns(u, t, B[t.root], s, n, temp, targ)
  BY <1>2, RotatedChildren
<1>6. u.red = t.red
  BY <1>2 DEF Rotated
<1> QED
  BY <1>3, <1>4, <1>5, <1>6, <1>9

\* v is t with other colours.
SamePointers(v, t) == v \in Trees /\ v.root = t.root /\ v.child = t.child /\ v.parent = t.parent

\* A rotation of a tree after some of its nodes have been painted
LEMMA RotatePainted ==
    ASSUME NEW t \in Trees, NEW B, NEW s, NEW n, NEW temp, NEW targ, Turnable(t, B, s, n, temp, targ),
           NEW k, Orders(k, B[t.root]), Sorted(t, B, k), NEW v, SamePointers(v, t)
    PROVE  /\ Turns(Rotate(v, s, n), t, B[t.root], s, n, temp, targ)
           /\ Rotate(v, s, n).red = v.red
           /\ \E C : /\ Describes(Rotate(v, s, n), C) /\ C[Rotate(v, s, n).root] = B[t.root]
                     /\ Sorted(Rotate(v, s, n), C, k)
<1>1. v \in Trees /\ v.root = t.root /\ v.child = t.child /\ v.parent = t.parent
  BY DEF SamePointers
<1>2. Describes(v, B) /\ Sorted(v, B, k)
  BY <1>1, SameShape DEF Sorted, Turnable
<1>3. Turnable(v, B, s, n, temp, targ) /\ Orders(k, B[v.root])
  BY <1>1, <1>2 DEF Turnable
<1>4. PICK u : u = Rotate(v, s, n)
  OBVIOUS
<1>5. /\ Turns(u, v, B[v.root], s, n, temp, targ) /\ u.red = v.red
      /\ \E C : Describes(u, C) /\ C[u.root] = B[v.root] /\ Sorted(u, C, k)
  BY <1>1, <1>2, <1>3, <1>4, RotateSorted
<1> QED
  BY <1>1, <1>4, <1>5 DEF Turns

\* temp is red and the step from p to q is not between it and n.
RedBelow(t, M, s, n, temp, targ, p, q) ==
    /\ ~t.red[Sentinel] /\ t.red[temp]
    /\ s \in Sides /\ n \in M /\ temp = t.child[Mirror(s)][n] /\ targ = t.child[s][temp]
    /\ p # temp /\ ~(p = n /\ q = Mirror(s))

\* A red child that comes up in exchange for its colour changes no count.
LEMMA RedUp ==
    ASSUME NEW t \in Trees, NEW M, NEW k, NEW h, NEW p, NEW q,
           Fits(t, M, k, h, p, q), Orders(k, M),
           NEW s, NEW n, NEW temp, NEW targ, RedBelow(t, M, s, n, temp, targ, p, q),
           NEW v, Recoloured(v, t, n, temp)
    PROVE  /\ Turns(Rotate(v, s, n), t, M, s, n, temp, targ)
           /\ Rotate(v, s, n).red = v.red
           /\ \E g : Fits(Rotate(v, s, n), M, k, g, p, q)
<1> DEFINE u == Rotate(v, s, n)
           g == [h EXCEPT ![n] = h[temp], ![temp] = h[n]]
           o == Mirror(s)
<1>0. /\ s \in Sides /\ n \in M /\ temp = t.child[o][n] /\ targ = t.child[s][temp] /\ temp # Sentinel /\ t.red[temp]
      /\ p # temp /\ ~(p = n /\ q = o)
  BY DEF RedBelow
<1>1. PICK B : Describes(t, B) /\ B[t.root] = M /\ Sorted(t, B, k) /\ Even(t, M, h, p, q)
  BY DEF Fits
<1>2. temp # Sentinel /\ v \in Trees /\ v.root = t.root /\ v.child = t.child /\ v.parent = t.parent
  BY <1>0 DEF Recoloured
<1>14. Turnable(t, B, s, n, temp, targ)
  BY <1>0, <1>1, <1>2 DEF Turnable
<1>3. /\ Turns(u, t, M, s, n, temp, targ) /\ u.red = v.red
      /\ \E C : Describes(u, C) /\ C[u.root] = M /\ Sorted(u, C, k)
  <2>1. SamePointers(v, t)
    BY <1>2 DEF SamePointers
  <2> QED
    BY <1>1, <1>14, <2>1, RotatePainted
<1> HIDE DEF u
<1>4. /\ n \in M /\ M \subseteq Nodes /\ Sentinel \notin Nodes /\ temp \in M /\ targ \in M \cup {Sentinel}
      /\ n # temp /\ targ # n /\ targ # temp
      /\ \A q1 \in Sides, m \in M : t.child[q1][m] = temp => m = n
      /\ \A q1 \in Sides, m \in M : t.child[q1][m] \in All /\ t.child[q1][m] # m
      /\ \A q1 \in Sides, m \in M : t.child[q1][m] # Sentinel =>
            t.child[q1][m] # t.root /\ t.parent[t.child[q1][m]] = m
  <2>1. /\ M \subseteq Nodes /\ Sentinel \notin Nodes /\ temp \in M /\ targ \in M \cup {Sentinel}
        /\ n # temp /\ targ # n /\ targ # temp /\ t.parent[temp] = n
    BY <1>0, <1>1, <1>2, <1>14, RotationNodes
  <2>2. \A q1 \in Sides, m \in M : t.child[q1][m] # Sentinel => t.parent[t.child[q1][m]] = m
    BY <1>0, <1>1 DEF Describes
  <2>3. \A q1 \in Sides, m \in M : t.child[q1][m] \in All /\ t.child[q1][m] # m
    BY <1>0, <1>1, ChildBelow
  <2>4. \A q1 \in Sides, m \in M : t.child[q1][m] # Sentinel => t.child[q1][m] # t.root
    BY <1>0, <1>1, ChildBelow
  <2> QED
    BY <1>0, <1>2, <2>1, <2>2, <2>3, <2>4
<1>5. /\ s \in Sides /\ o \in Sides /\ o # s /\ \A q1 \in Sides : q1 = s \/ q1 = o
  BY <1>0, SidesAre
<1>6. /\ h \in [All -> Nat] /\ h[Sentinel] = 0
      /\ \A a \in M, r \in Sides : h[a] = h[t.child[r][a]] + Weight(t, a) + IF a = p /\ r = q THEN 1 ELSE 0
  BY <1>1 DEF Even
<1>7. /\ g \in [All -> Nat] /\ g[n] = h[temp] /\ g[temp] = h[n]
      /\ \A m \in All \ {n, temp} : g[m] = h[m]
  BY <1>4, <1>6 DEF All
<1>8. /\ Weight(u, n) = 0 /\ Weight(u, temp) = Weight(t, n) /\ Weight(t, temp) = 0
      /\ \A m \in M \ {n, temp} : Weight(u, m) = Weight(t, m)
      /\ \A m \in M : Weight(t, m) \in Nat
  <2>1. \A m \in All : u.red[m] = IF m = temp THEN t.red[n] ELSE IF m = n THEN TRUE ELSE t.red[m]
    BY <1>0, <1>3 DEF Recoloured
  <2> QED
    BY <1>0, <1>4, <2>1 DEF Weight, All
<1>9. /\ u.child[s][n] = t.child[s][n] /\ u.child[o][n] = targ
      /\ u.child[s][temp] = n /\ u.child[o][temp] = t.child[o][temp]
      /\ \A m \in M \ {n, temp}, r \in Sides :
            u.child[r][m] = IF t.child[r][m] = n THEN temp ELSE t.child[r][m]
  BY <1>0, <1>3 DEF Turns
<1> HIDE DEF g
<1>10. /\ t.child[s][n] # n /\ t.child[s][n] # temp /\ t.child[s][n] \in All
       /\ t.child[o][temp] # n /\ t.child[o][temp] # temp /\ t.child[o][temp] \in All /\ targ \in All
  <2>1. t.child[s][n] # temp
    <3>1. t.child["left"][n] # Sentinel => t.child["left"][n] # t.child["right"][n]
      <4>1. B[t.child["left"][n]] \cap B[t.child["right"][n]] = {}
        BY <1>0, <1>1 DEF Describes
      <4>2. t.child["left"][n] # Sentinel => t.child["left"][n] \in B[t.child["left"][n]]
        BY <1>0, <1>1, <1>5, ChildBelow DEF Sides
      <4> QED
        BY <4>1, <4>2
    <3> QED
      BY <1>0, <1>2, <3>1, SidesAre DEF Sides, Mirror
  <2>2. t.child[o][temp] # n
    <3>1. n # t.root => t.parent[n] # temp
      BY <1>0, <1>1, <1>14, RotationNodes
    <3>2. t.child[o][temp] # Sentinel => t.child[o][temp] # t.root /\ t.parent[t.child[o][temp]] = temp
      BY <1>0, <1>4, <1>5
    <3> QED
      BY <1>0, <1>4, <3>1, <3>2
  <2> QED
    BY <1>0, <1>4, <1>5, <2>1, <2>2 DEF All
<1>11. ASSUME NEW r \in Sides
       PROVE  g[n] = g[u.child[r][n]] + Weight(u, n) + IF n = p /\ r = q THEN 1 ELSE 0
  <2>1. CASE r = s
    <3>1. h[n] = h[t.child[s][n]] + Weight(t, n) + IF n = p /\ s = q THEN 1 ELSE 0
      BY <1>4, <1>5, <1>6
    <3>2. h[n] = h[temp] + Weight(t, n)
      <4>1. h[n] = h[t.child[o][n]] + Weight(t, n) + IF n = p /\ o = q THEN 1 ELSE 0
        BY <1>0, <1>4, <1>5, <1>6
      <4>2. (IF n = p /\ o = q THEN 1 ELSE 0) = 0
        BY <1>0
      <4>3. h[temp] \in Nat /\ Weight(t, n) \in Nat
        BY <1>4, <1>6, <1>8 DEF All
      <4> QED
        BY <1>0, <4>1, <4>2, <4>3
    <3> QED
      BY <1>0, <1>4, <1>6, <1>7, <1>8, <1>9, <1>10, <2>1, <3>1, <3>2 DEF All
  <2>2. CASE r = o
    BY <1>0, <1>4, <1>5, <1>6, <1>7, <1>8, <1>9, <1>10, <2>2 DEF All
  <2> QED
    BY <1>5, <2>1, <2>2
<1>12. ASSUME NEW r \in Sides
       PROVE  g[temp] = g[u.child[r][temp]] + Weight(u, temp) + IF temp = p /\ r = q THEN 1 ELSE 0
  BY <1>0, <1>4, <1>5, <1>6, <1>7, <1>8, <1>9, <1>10 DEF All
<1>13. ASSUME NEW m \in M \ {n, temp}, NEW r \in Sides
       PROVE  g[m] = g[u.child[r][m]] + Weight(u, m) + IF m = p /\ r = q THEN 1 ELSE 0
  <2>1. t.child[r][m] \in All /\ t.child[r][m] # temp
    BY <1>4
  <2>2. g[u.child[r][m]] = h[t.child[r][m]]
    BY <1>7, <1>9, <2>1
  <2>3. g[m] = h[m]
    BY <1>4, <1>7 DEF All
  <2> QED
    BY <1>6, <1>8, <2>2, <2>3
<1>16. g[Sentinel] = 0
  BY <1>4, <1>6, <1>7 DEF All
<1>15. Even(u, M, g, p, q)
  BY <1>7, <1>11, <1>12, <1>13, <1>16 DEF Even
<1>17. Fits(u, M, k, g, p, q)
  BY <1>3, <1>15 DEF Fits
<1> QED
  BY <1>3, <1>17 DEF u

-----------------------------------------------------------------------------
(* A tree in the middle of an operation                                    *)

\* Two reds in a row, and a red root, are only where the loop is about to mend
\* them.
Colours(t, M, l, c) ==
    /\ ~t.red[Sentinel]
    /\ t.red[t.root] => l = "insert" /\ c = t.root
    /\ \A a \in M, s \in Sides : t.red[a] /\ t.red[t.child[s][a]] =>
          \/ l = "insert" /\ t.child[s][a] = c
          \/ l = "delete" /\ c \in {a, t.child[s][a]}

\* The node of the loop: new and red, or the one below the step that is short
\* of a black, the root if none is.
At(t, M, l, c, p, q) ==
    /\ l \in {"none", "insert", "delete"}
    /\ l # "delete" => p = NULL
    /\ l = "insert" => c \in M /\ t.red[c]
    /\ l = "delete" =>
          /\ t.root # Sentinel
          /\ c = t.root => p = NULL
          /\ c # t.root => p \in M /\ q \in Sides /\ t.child[q][p] = c /\ t.parent[c] = p

Sound(t, M, k, l, c) ==
    \E h, p, q : Fits(t, M, k, h, p, q) /\ Colours(t, M, l, c) /\ At(t, M, l, c, p, q)

\* How the nodes in M hang together
Joined(t, M) ==
    /\ M \subseteq Nodes /\ Sentinel \notin Nodes /\ NULL \notin Nodes /\ Sentinel # NULL
    /\ t.root = Sentinel => M = {}
    /\ t.root # Sentinel => t.root \in M
    /\ \A a \in M, s \in Sides :
          /\ t.child[s][a] \in M \cup {Sentinel} /\ t.child[s][a] # t.root /\ t.child[s][a] # a
          /\ t.child[s][a] # Sentinel =>
                /\ t.parent[t.child[s][a]] = a /\ SideOf(t, t.child[s][a]) = s
                /\ t.child[s][a] # t.child[Mirror(s)][a]
    /\ \A a \in M \ {t.root} :
          /\ t.parent[a] \in M /\ t.parent[a] # a
          /\ t.child[SideOf(t, a)][t.parent[a]] = a
          /\ t.parent[a] # t.root => t.parent[t.parent[a]] # a

\* The pointers of a tree that fits, node by node
LEMMA FitsJoined ==
    ASSUME NEW t \in Trees, NEW M, NEW k, NEW h, NEW p, NEW q, Fits(t, M, k, h, p, q)
    PROVE  Joined(t, M)
<1>1. PICK B : Describes(t, B) /\ B[t.root] = M
  BY DEF Fits
<1>2. B \in [All -> SUBSET Nodes] /\ M \subseteq Nodes /\ Sentinel \notin Nodes /\ NULL \notin Nodes /\ Sentinel # NULL
  BY <1>1, NodeAssumption DEF Describes, Trees, All
<1>3. (t.root = Sentinel => M = {}) /\ (t.root # Sentinel => t.root \in M)
  BY <1>1 DEF Describes
<1>4. \A a \in M \ {t.root} :
         /\ t.parent[a] \in M /\ t.parent[a] # a
         /\ t.child[SideOf(t, a)][t.parent[a]] = a
  BY <1>1, ParentIs
<1>5. \A a \in M, s \in Sides : t.child[s][a] # Sentinel =>
         /\ t.child[s][a] \in M \ {t.root}
         /\ t.parent[t.child[s][a]] = a
         /\ SideOf(t, t.child[s][a]) = s
  BY <1>1, ParentIs
<1>6. ASSUME NEW a \in M \ {t.root}, t.parent[a] # t.root PROVE t.parent[t.parent[a]] # a
  <2> DEFINE b == t.parent[a]
  <2>1. b \in M \ {t.root} /\ a # b /\ b \in M /\ a \in M
    BY <1>4, <1>6
  <2>2. t.child[SideOf(t, a)][b] = a /\ t.child[SideOf(t, b)][t.parent[b]] = b
    BY <1>4, <2>1
  <2>3. SideOf(t, a) \in Sides /\ SideOf(t, b) \in Sides
    BY SidesAre
  <2> HIDE DEF b
  <2>4. a # Sentinel /\ b # Sentinel
    BY <1>2, <2>1
  <2>5. B[a] \subseteq B[b] /\ B[a] # B[b]
    BY <1>1, <2>1, <2>2, <2>3, <2>4, ChildBelow
  <2>6. SUFFICES ASSUME t.parent[b] = a PROVE FALSE
    BY DEF b
  <2>7. B[b] \subseteq B[a]
    BY <1>1, <2>1, <2>2, <2>3, <2>4, <2>6, ChildBelow
  <2> QED
    BY <2>5, <2>7
<1>7. ASSUME NEW a \in M, NEW s \in Sides, t.child[s][a] # Sentinel
      PROVE  t.child[s][a] # t.child[Mirror(s)][a] /\ t.child[s][a] # a
  <2>1. t.child[s][a] \in B[t.child[s][a]] /\ a \notin B[t.child[s][a]]
    BY <1>1, <1>7, ChildBelow DEF Describes
  <2>2. B[t.child["left"][a]] \cap B[t.child["right"][a]] = {}
    BY <1>1 DEF Describes
  <2> QED
    BY <2>1, <2>2 DEF Sides, Mirror
<1> QED
  BY <1>2, <1>3, <1>4, <1>5, <1>6, <1>7 DEF Joined

\* The counts of a tree with no short step
LEMMA FitsEven ==
    ASSUME NEW t \in Trees, NEW M, NEW k, NEW h, NEW p, NEW q, Fits(t, M, k, h, p, q)
    PROVE  /\ h \in [All -> Nat] /\ h[Sentinel] = 0
           /\ p = NULL => \A a \in M, s \in Sides : h[a] = h[t.child[s][a]] + Weight(t, a)
           /\ \A a \in M, s \in Sides : ~(a = p /\ s = q) => h[a] = h[t.child[s][a]] + Weight(t, a)
           /\ p \in M /\ q \in Sides => h[p] = h[t.child[q][p]] + Weight(t, p) + 1
<1>1. Even(t, M, h, p, q) /\ Joined(t, M)
  BY FitsJoined DEF Fits
<1>2. ASSUME NEW a \in M, NEW s \in Sides
      PROVE  /\ h[t.child[s][a]] \in Nat /\ Weight(t, a) \in Nat
             /\ h[a] = h[t.child[s][a]] + Weight(t, a) + IF a = p /\ s = q THEN 1 ELSE 0
  <2>1. t.child[s][a] \in All
    BY <1>1 DEF Joined, All
  <2> QED
    BY <1>1, <2>1 DEF Even, Weight
<1>3. ASSUME NEW a \in M, NEW s \in Sides, ~(a = p /\ s = q)
      PROVE  h[a] = h[t.child[s][a]] + Weight(t, a)
  BY <1>2, <1>3
<1>4. p \in M /\ q \in Sides => h[p] = h[t.child[q][p]] + Weight(t, p) + 1
  BY <1>2
<1>5. NULL \notin M
  BY <1>1 DEF Joined
<1>6. h \in [All -> Nat] /\ h[Sentinel] = 0
  BY <1>1 DEF Even
<1> QED
  BY <1>3, <1>4, <1>5, <1>6

\* Colours can change as long as no path gains or loses a black.
LEMMA PaintFits ==
    ASSUME NEW t, NEW M, NEW k, NEW h, NEW p, NEW q, Fits(t, M, k, h, p, q), t \in Trees,
           NEW u, u.root = t.root, u.child = t.child, u.parent = t.parent,
           NEW g, NEW a, NEW b, Even(u, M, g, a, b)
    PROVE  Fits(u, M, k, g, a, b)
<1>1. PICK B : Describes(t, B) /\ B[t.root] = M /\ Sorted(t, B, k)
  BY DEF Fits
<1>2. Describes(u, B)
  BY <1>1, SameShape
<1>3. Sorted(u, B, k)
  BY <1>1 DEF Sorted
<1> QED
  BY <1>1, <1>2, <1>3 DEF Fits

\* The node of an insertion that has a red parent: it has a grandparent, which
\* is black, and all other nodes have black children if they are red.
TwoRedsAt(t, M, c, P, G, S, U) ==
    /\ c \in M \ {t.root} /\ P \in M \ {t.root} /\ G \in M /\ c # P /\ P # G /\ c # G
    /\ S \in Sides /\ t.child[S][G] = P /\ U = t.child[Mirror(S)][G] /\ U \in M \cup {Sentinel}
    /\ U # P /\ U # G /\ U # c
    /\ t.parent[c] = P /\ t.parent[P] = G /\ S = SideOf(t, P)
    /\ t.red[c] /\ t.red[P] /\ ~t.red[G] /\ ~t.red[t.root] /\ ~t.red[Sentinel]
    /\ \A a \in M \ {P}, s \in Sides : t.red[a] => ~t.red[t.child[s][a]]
    /\ \A s \in Sides : t.child[s][P] # c => ~t.red[t.child[s][P]]

\* What Recolour and Rebalance find where they start
LEMMA InsertSees ==
    ASSUME NEW t \in Trees, NEW M, Joined(t, M), NEW c \in M, t.red[c],
           Colours(t, M, "insert", c), TwoReds(t, c),
           NEW P, P = t.parent[c], NEW G, G = t.parent[P], NEW S, S = SideOf(t, P),
           NEW U, U = t.child[Mirror(S)][G]
    PROVE  TwoRedsAt(t, M, c, P, G, S, U)
<1>1. c # t.root /\ t.red[P]
  BY DEF TwoReds
<1>2. /\ ~t.red[Sentinel] /\ (t.red[t.root] => c = t.root)
      /\ \A a \in M, s \in Sides : t.red[a] /\ t.red[t.child[s][a]] => t.child[s][a] = c
  BY DEF Colours
<1>3. P \in M /\ P # c /\ P # t.root
  BY <1>1, <1>2 DEF Joined
<1>4. G \in M /\ G # P /\ t.child[S][G] = P /\ G # c /\ S \in Sides
  BY <1>1, <1>3, SidesAre DEF Joined
<1>5. ~t.red[G]
  BY <1>1, <1>2, <1>3, <1>4
<1>6. Mirror(S) \in Sides /\ Mirror(S) # S /\ Mirror(Mirror(S)) = S
  BY <1>4, SidesAre
<1>7. U \in M \cup {Sentinel} /\ U # G
  BY <1>4, <1>6 DEF Joined
<1>8. U # Sentinel => t.parent[U] = G /\ U # t.child[S][G]
  BY <1>4, <1>6 DEF Joined
<1>9. P # Sentinel /\ c # Sentinel
  BY <1>3 DEF Joined
<1>10. U # P /\ U # c
  BY <1>3, <1>4, <1>8, <1>9
<1>11. ASSUME NEW a \in M \ {P}, NEW s \in Sides, t.red[a] PROVE ~t.red[t.child[s][a]]
  <2>1. SUFFICES ASSUME t.red[t.child[s][a]] PROVE FALSE
    OBVIOUS
  <2>2. t.child[s][a] = c
    BY <1>2, <1>11, <2>1
  <2>3. t.parent[c] = a
    BY <1>9, <2>2 DEF Joined
  <2> QED
    BY <2>3
<1>12. \A s \in Sides : t.child[s][P] # c => ~t.red[t.child[s][P]]
  BY <1>1, <1>2, <1>3
<1>13. ~t.red[t.root]
  BY <1>1, <1>2
<1> QED
  BY <1>1, <1>2, <1>3, <1>4, <1>5, <1>7, <1>10, <1>11, <1>12, <1>13 DEF TwoRedsAt

\* u has the colours of t, but those of P, U and G.
ThreePainted(u, t, P, U, G) ==
    /\ u \in Trees /\ u.root = t.root /\ u.child = t.child /\ u.parent = t.parent
    /\ \A m \in All : u.red[m] = IF m = G THEN TRUE ELSE IF m = U \/ m = P THEN FALSE ELSE t.red[m]

\* The three colours Recolour sets
LEMMA ThreePaint ==
    ASSUME NEW t \in Trees, NEW P \in All, NEW U \in All, NEW G \in All
    PROVE  ThreePainted(Paint(Paint(Paint(t, P, FALSE), U, FALSE), G, TRUE), t, P, U, G)
<1>1. PICK v : v = Paint(t, P, FALSE)
  OBVIOUS
<1>2. Painted(v, t, P, FALSE)
  BY <1>1, PaintIs
<1>3. PICK w : w = Paint(v, U, FALSE)
  OBVIOUS
<1>4. v \in Trees
  BY <1>2 DEF Painted
<1>5. Painted(w, v, U, FALSE)
  BY <1>3, <1>4, PaintIs
<1>6. PICK u : u = Paint(w, G, TRUE)
  OBVIOUS
<1>7. w \in Trees
  BY <1>5 DEF Painted
<1>8. Painted(u, w, G, TRUE)
  BY <1>6, <1>7, PaintIs
<1>9. ThreePainted(u, t, P, U, G)
  BY <1>2, <1>5, <1>8 DEF Painted, ThreePainted
<1> QED
  BY <1>1, <1>3, <1>6, <1>9

\* Recolour moves the two reds up, and the grandparent is the one to look at.
LEMMA RecolourFits ==
    ASSUME NEW t \in Trees, NEW M, NEW k, NEW h, NEW p, NEW q, Fits(t, M, k, h, p, q), p = NULL,
           NEW c, NEW P, NEW G, NEW S, NEW U, TwoRedsAt(t, M, c, P, G, S, U), t.red[U],
           NEW u, ThreePainted(u, t, P, U, G)
    PROVE  Sound(u, M, k, "insert", G)
<1>2. Joined(t, M)
  BY FitsJoined
<1>5. M \subseteq All /\ Sentinel \in All /\ NULL \notin M /\ Sentinel \notin M
  BY <1>2 DEF Joined, All
<1>6. /\ c \in M \ {t.root} /\ P \in M \ {t.root} /\ G \in M /\ c # P /\ P # G /\ c # G
      /\ S \in Sides /\ t.child[S][G] = P /\ U = t.child[Mirror(S)][G]
      /\ U \in M /\ U # P /\ U # G /\ U # c
      /\ t.red[P] /\ ~t.red[G] /\ t.red[U] /\ ~t.red[Sentinel] /\ ~t.red[t.root]
      /\ \A a \in M \ {P}, s \in Sides : t.red[a] => ~t.red[t.child[s][a]]
  BY <1>5 DEF TwoRedsAt
<1>7. /\ u \in Trees /\ u.root = t.root /\ u.child = t.child /\ u.parent = t.parent
      /\ \A m \in All : u.red[m] = IF m = G THEN TRUE ELSE IF m = U \/ m = P THEN FALSE ELSE t.red[m]
  BY DEF ThreePainted
<1> DEFINE g == [h EXCEPT ![P] = h[P] + 1, ![U] = h[U] + 1]
<1>8. /\ h \in [All -> Nat] /\ h[Sentinel] = 0
      /\ \A a \in M, s \in Sides : h[a] = h[t.child[s][a]] + Weight(t, a)
  BY FitsEven
<1>9. /\ g \in [All -> Nat] /\ g[P] = h[P] + 1 /\ g[U] = h[U] + 1
      /\ \A m \in All \ {P, U} : g[m] = h[m]
  BY <1>5, <1>6, <1>8
<1> HIDE DEF g
<1>10. /\ \A r \in Sides : r = S \/ r = Mirror(S)
       /\ Mirror(S) \in Sides
  BY <1>6, SidesAre
<1>11. ASSUME NEW a \in M, NEW s \in Sides
       PROVE  g[a] = g[t.child[s][a]] + Weight(u, a)
  <2>1. /\ t.child[s][a] \in M \cup {Sentinel} /\ t.child[s][a] # a
        /\ h[t.child[s][a]] \in Nat /\ h[a] \in Nat
        /\ h[a] = h[t.child[s][a]] + Weight(t, a)
    BY <1>2, <1>5, <1>8 DEF Joined
  <2>2. CASE a = G
    <3>1. t.child[s][a] = P \/ t.child[s][a] = U
      BY <1>6, <1>10, <2>2
    <3>2. Weight(t, a) = 1 /\ Weight(u, a) = 0
      BY <1>5, <1>6, <1>7, <2>2 DEF Weight
    <3>3. g[t.child[s][a]] = h[t.child[s][a]] + 1 /\ g[a] = h[a]
      BY <1>5, <1>6, <1>9, <2>2, <3>1
    <3> QED
      BY <2>1, <3>2, <3>3
  <2>3. CASE a # G
    <3>1. t.child[s][a] # P /\ t.child[s][a] # U
      BY <1>2, <1>5, <1>6, <1>10, <2>3 DEF Joined
    <3>2. g[t.child[s][a]] = h[t.child[s][a]]
      BY <1>5, <1>9, <2>1, <3>1
    <3>3. CASE a \in {P, U}
      <4>1. Weight(t, a) = 0 /\ Weight(u, a) = 1 /\ g[a] = h[a] + 1
        BY <1>5, <1>6, <1>7, <1>9, <2>3, <3>3 DEF Weight
      <4> QED
        BY <2>1, <3>2, <4>1
    <3>4. CASE a \notin {P, U}
      <4>1. Weight(t, a) = Weight(u, a) /\ g[a] = h[a]
        BY <1>5, <1>7, <1>9, <2>3, <3>4 DEF Weight
      <4> QED
        BY <2>1, <3>2, <4>1
    <3> QED
      BY <3>3, <3>4
  <2> QED
    BY <2>2, <2>3
<1>12. Even(u, M, g, NULL, q)
  BY <1>5, <1>6, <1>7, <1>8, <1>9, <1>11 DEF Even
<1>13. Fits(u, M, k, g, NULL, q)
  BY <1>7, <1>12, PaintFits
<1>14. Colours(u, M, "insert", G)
  <2>1. ~u.red[Sentinel] /\ (u.red[u.root] => G = u.root)
    <3>1. t.root \in All
      BY <1>2, <1>5 DEF Joined
    <3> QED
      BY <1>5, <1>6, <1>7, <3>1
  <2>2. ASSUME NEW a \in M, NEW s \in Sides, u.red[a], u.red[u.child[s][a]] PROVE u.child[s][a] = G
    <3>1. t.child[s][a] \in M \cup {Sentinel}
      BY <1>2 DEF Joined
    <3>2. CASE a = G
      BY <1>5, <1>6, <1>7, <1>10, <2>2, <3>2
    <3>3. CASE a # G
      BY <1>5, <1>6, <1>7, <2>2, <3>1, <3>3
    <3> QED
      BY <3>2, <3>3
  <2> QED
    BY <2>1, <2>2 DEF Colours
<1>15. At(u, M, "insert", G, NULL, q)
  BY <1>5, <1>6, <1>7 DEF At
<1> QED
  BY <1>7, <1>13, <1>14, <1>15 DEF Sound

\* The first rotation makes an inner node an outer one.
LEMMA InnerFits ==
    ASSUME NEW t \in Trees, NEW M, NEW k, NEW h, NEW p, NEW q, Fits(t, M, k, h, p, q), p = NULL,
           Orders(k, M),
           NEW c, NEW P, NEW G, NEW S, NEW U, TwoRedsAt(t, M, c, P, G, S, U), ~t.red[U],
           c = t.child[Mirror(S)][P]
    PROVE  /\ Rotate(t, S, P) \in Trees
           /\ \E g : Fits(Rotate(t, S, P), M, k, g, p, q)
           /\ TwoRedsAt(Rotate(t, S, P), M, P, c, G, S, U)
           /\ ~Rotate(t, S, P).red[U]
           /\ Rotate(t, S, P).child[S][c] = P
<1>1. Joined(t, M)
  BY FitsJoined
<1>2. /\ M \subseteq All /\ Sentinel \in All /\ NULL \notin M /\ Sentinel \notin M
      /\ Mirror(S) \in Sides /\ Mirror(S) # S /\ \A r \in Sides : r = S \/ r = Mirror(S)
  BY <1>1, SidesAre DEF Joined, All, TwoRedsAt
<1>3. /\ c \in M \ {t.root} /\ P \in M \ {t.root} /\ G \in M /\ c # P /\ P # G /\ c # G
      /\ S \in Sides /\ t.child[S][G] = P /\ U = t.child[Mirror(S)][G] /\ U \in M \cup {Sentinel}
      /\ U # P /\ U # G /\ U # c
      /\ t.parent[c] = P /\ t.parent[P] = G /\ S = SideOf(t, P)
      /\ t.red[c] /\ t.red[P] /\ ~t.red[G] /\ ~t.red[t.root] /\ ~t.red[Sentinel]
      /\ \A a \in M \ {P}, s \in Sides : t.red[a] => ~t.red[t.child[s][a]]
      /\ \A s \in Sides : t.child[s][P] # c => ~t.red[t.child[s][P]]
  BY DEF TwoRedsAt
<1>4. PICK targ : targ = t.child[S][c]
  OBVIOUS
<1>5. Recoloured(t, t, P, c)
  BY <1>3 DEF Recoloured
<1>6. PICK u : u = Rotate(t, S, P)
  OBVIOUS
<1>8. PICK g : Turns(u, t, M, S, P, c, targ) /\ u.red = t.red /\ Fits(u, M, k, g, p, q)
  <2>1. RedBelow(t, M, S, P, c, targ, p, q)
    BY <1>2, <1>3, <1>4 DEF RedBelow
  <2>2. /\ Turns(Rotate(t, S, P), t, M, S, P, c, targ) /\ Rotate(t, S, P).red = t.red
        /\ \E g : Fits(Rotate(t, S, P), M, k, g, p, q)
    BY <1>5, <2>1, RedUp
  <2> QED
    BY <1>6, <2>2
<1>9. /\ u \in Trees /\ u.root = t.root
      /\ u.child[S][P] = t.child[S][P] /\ u.child[Mirror(S)][P] = targ
      /\ u.child[S][c] = P /\ u.child[Mirror(S)][c] = t.child[Mirror(S)][c]
      /\ \A m \in M \ {P, c}, r \in Sides : u.child[r][m] = IF t.child[r][m] = P THEN c ELSE t.child[r][m]
      /\ u.parent[P] = c /\ u.parent[c] = G
  BY <1>3, <1>8 DEF Turns
<1>10. Joined(u, M)
  BY <1>8, <1>9, FitsJoined
<1>11. u.child[S][G] = c /\ u.child[Mirror(S)][G] = U
  BY <1>2, <1>3, <1>9
<1>12. S = SideOf(u, c)
  BY <1>2, <1>3, <1>10, <1>11 DEF Joined
<1>13. ~t.red[t.child[S][P]]
  <2>1. t.child[Mirror(S)][P] # Sentinel => t.child[Mirror(S)][P] # t.child[S][P]
    BY <1>1, <1>2, <1>3, SidesAre DEF Joined
  <2> QED
    BY <1>2, <1>3, <2>1
<1>14. ASSUME NEW a \in M \ {c}, NEW s \in Sides, t.red[a] PROVE ~t.red[u.child[s][a]]
  <2>1. CASE a = P
    BY <1>2, <1>3, <1>4, <1>9, <1>13, <2>1
  <2>2. CASE a # P
    <3>1. t.child[s][a] # P
      BY <1>3, <1>14, <2>2
    <3> QED
      BY <1>3, <1>9, <1>14, <2>2, <3>1
  <2> QED
    BY <2>1, <2>2
<1>15. \A s \in Sides : u.child[s][c] # P => ~u.red[u.child[s][c]]
  BY <1>2, <1>3, <1>8, <1>9
<1>16. TwoRedsAt(u, M, P, c, G, S, U)
  BY <1>3, <1>8, <1>9, <1>11, <1>12, <1>14, <1>15 DEF TwoRedsAt
<1> QED
  BY <1>6, <1>8, <1>9, <1>16

\* The last rotation leaves no two reds in a row.
LEMMA OuterFits ==
    ASSUME NEW t \in Trees, NEW M, NEW k, NEW h, NEW p, NEW q, Fits(t, M, k, h, p, q), p = NULL,
           Orders(k, M),
           NEW c, NEW P, NEW G, NEW S, NEW U, TwoRedsAt(t, M, c, P, G, S, U), ~t.red[U],
           t.child[S][P] = c,
           NEW v, Recoloured(v, t, G, P)
    PROVE  /\ Rotate(v, Mirror(S), G) \in Trees
           /\ Sound(Rotate(v, Mirror(S), G), M, k, "insert", c)
           /\ ~TwoReds(Rotate(v, Mirror(S), G), c)
<1>1. Joined(t, M)
  BY FitsJoined
<1> DEFINE O == Mirror(S)
<1>2. /\ M \subseteq All /\ Sentinel \in All /\ NULL \notin M /\ Sentinel \notin M
      /\ O \in Sides /\ O # S /\ Mirror(O) = S /\ \A r \in Sides : r = S \/ r = O
  BY <1>1, SidesAre DEF Joined, All, TwoRedsAt
<1>3. /\ c \in M \ {t.root} /\ P \in M \ {t.root} /\ G \in M /\ c # P /\ P # G /\ c # G
      /\ S \in Sides /\ t.child[S][G] = P /\ U = t.child[O][G] /\ U \in M \cup {Sentinel}
      /\ U # P /\ U # G /\ U # c
      /\ t.red[c] /\ t.red[P] /\ ~t.red[G] /\ ~t.red[t.root] /\ ~t.red[Sentinel]
      /\ \A a \in M \ {P}, s \in Sides : t.red[a] => ~t.red[t.child[s][a]]
      /\ \A s \in Sides : t.child[s][P] # c => ~t.red[t.child[s][P]]
  BY DEF TwoRedsAt
<1> HIDE DEF O
<1>4. PICK targ : targ = t.child[O][P]
  OBVIOUS
<1>5. PICK u : u = Rotate(v, O, G)
  OBVIOUS
<1>7. PICK g : Turns(u, t, M, O, G, P, targ) /\ u.red = v.red /\ Fits(u, M, k, g, p, q)
  <2>1. RedBelow(t, M, O, G, P, targ, p, q)
    BY <1>2, <1>3, <1>4 DEF RedBelow
  <2>2. /\ Turns(Rotate(v, O, G), t, M, O, G, P, targ) /\ Rotate(v, O, G).red = v.red
        /\ \E g : Fits(Rotate(v, O, G), M, k, g, p, q)
    BY <2>1, RedUp
  <2> QED
    BY <1>5, <2>2
<1>8. /\ u \in Trees
      /\ u.root = IF G = t.root THEN P ELSE t.root
      /\ u.child[O][G] = U /\ u.child[S][G] = targ
      /\ u.child[O][P] = G /\ u.child[S][P] = c
      /\ \A m \in M \ {G, P}, r \in Sides : u.child[r][m] = IF t.child[r][m] = G THEN P ELSE t.child[r][m]
  BY <1>2, <1>3, <1>7 DEF Turns
<1>9. ~u.red[P] /\ u.red[G] /\ \A m \in All \ {P, G} : u.red[m] = t.red[m]
  BY <1>2, <1>3, <1>7 DEF Recoloured
<1>10. ~t.red[targ] /\ targ # G /\ targ \in M \cup {Sentinel}
  <2>1. t.child[S][P] # t.child[O][P]
    BY <1>1, <1>2, <1>3, SidesAre DEF Joined
  <2>2. targ \in M \cup {Sentinel}
    BY <1>1, <1>2, <1>3, <1>4 DEF Joined
  <2>3. ~t.red[targ]
    BY <1>2, <1>3, <1>4, <2>1
  <2>4. targ # Sentinel => targ # t.root /\ t.parent[targ] = P
    BY <1>1, <1>2, <1>3, <1>4 DEF Joined
  <2>5. G # t.root => t.parent[G] # P
    BY <1>1, <1>2, <1>3 DEF Joined, TwoRedsAt
  <2> QED
    BY <1>2, <1>3, <2>2, <2>3, <2>4, <2>5
<1>11. ASSUME NEW a \in M, NEW s \in Sides, u.red[a] PROVE ~u.red[u.child[s][a]]
  <2>1. CASE a = P
    BY <1>2, <1>9, <1>11, <2>1
  <2>2. CASE a = G
    <3>1. u.child[s][a] \in {U, targ}
      BY <1>2, <1>8, <2>2
    <3> QED
      BY <1>2, <1>3, <1>9, <1>10, <3>1
  <2>3. CASE a \notin {P, G}
    <3>1. t.child[s][a] \in M \cup {Sentinel} /\ t.red[a]
      BY <1>1, <1>2, <1>9, <1>11, <2>3 DEF Joined
    <3>2. ~t.red[t.child[s][a]]
      BY <1>3, <2>3, <3>1
    <3> QED
      BY <1>2, <1>3, <1>8, <1>9, <2>3, <3>1, <3>2
  <2> QED
    BY <2>1, <2>2, <2>3
<1>12. Colours(u, M, "insert", c)
  <2>1. ~u.red[Sentinel] /\ ~u.red[u.root]
    <3>1. t.root \in All
      BY <1>1, <1>2 DEF Joined
    <3> QED
      BY <1>2, <1>3, <1>8, <1>9, <3>1
  <2> QED
    BY <1>11, <2>1 DEF Colours
<1>13. At(u, M, "insert", c, p, q)
  BY <1>2, <1>3, <1>9 DEF At
<1>14. ~TwoReds(u, c)
  <2>1. Joined(u, M)
    BY <1>7, <1>8, FitsJoined
  <2>2. u.parent[c] = P
    BY <1>2, <1>3, <1>8, <2>1 DEF Joined
  <2> QED
    BY <1>9, <2>2 DEF TwoReds
<1> QED
  BY <1>5, <1>7, <1>8, <1>12, <1>13, <1>14 DEF Sound, O

\* After the loop of an insertion the root is painted black.
LEMMA InsertEndsSound ==
    ASSUME NEW t \in Trees, NEW M, NEW k, NEW c, Sound(t, M, k, "insert", c), ~TwoReds(t, c)
    PROVE  /\ Paint(t, t.root, FALSE) \in Trees
           /\ \A d : Sound(Paint(t, t.root, FALSE), M, k, "none", d)
<1>1. PICK h, p, q : Fits(t, M, k, h, p, q) /\ Colours(t, M, "insert", c) /\ At(t, M, "insert", c, p, q)
  BY DEF Sound
<1>2. Joined(t, M)
  BY <1>1, FitsJoined
<1>3. p = NULL /\ c \in M /\ t.red[c]
  BY <1>1 DEF At
<1>4. M \subseteq All /\ Sentinel \in All /\ NULL \notin M /\ Sentinel \notin M /\ t.root \in M
  BY <1>2, <1>3 DEF Joined, All
<1>5. PICK u : u = Paint(t, t.root, FALSE)
  OBVIOUS
<1>6. /\ u \in Trees /\ u.root = t.root /\ u.child = t.child /\ u.parent = t.parent
      /\ ~u.red[t.root] /\ \A m \in All \ {t.root} : u.red[m] = t.red[m]
  <2>1. Painted(u, t, t.root, FALSE)
    BY <1>4, <1>5, PaintIs
  <2> QED
    BY <1>4, <2>1 DEF Painted
<1>7. /\ h \in [All -> Nat] /\ h[Sentinel] = 0
      /\ \A a \in M, s \in Sides : h[a] = h[t.child[s][a]] + Weight(t, a)
  BY <1>1, <1>3, FitsEven
<1>8. \A a \in M, s \in Sides : t.child[s][a] \in All \ {t.root}
  BY <1>2, <1>4 DEF Joined
<1>9. \E g : Even(u, M, g, NULL, q)
  <2>1. CASE t.red[t.root]
    <3>1. PICK g : g = [h EXCEPT ![t.root] = h[t.root] + 1]
      OBVIOUS
    <3>2. g \in [All -> Nat] /\ g[t.root] = h[t.root] + 1 /\ \A m \in All \ {t.root} : g[m] = h[m]
      BY <1>4, <1>7, <3>1
    <3>3. ASSUME NEW a \in M, NEW s \in Sides PROVE g[a] = g[u.child[s][a]] + Weight(u, a)
      <4>1. g[u.child[s][a]] = h[t.child[s][a]] /\ h[t.child[s][a]] \in Nat
        BY <1>6, <1>7, <1>8, <3>2
      <4>2. CASE a = t.root
        <5>1. Weight(t, a) = 0 /\ Weight(u, a) = 1
          BY <1>6, <2>1, <4>2 DEF Weight
        <5> QED
          BY <1>4, <1>7, <3>2, <4>1, <4>2, <5>1
      <4>3. CASE a # t.root
        <5>1. Weight(u, a) = Weight(t, a) /\ g[a] = h[a]
          BY <1>4, <1>6, <3>2, <4>3 DEF Weight
        <5> QED
          BY <1>7, <4>1, <5>1
      <4> QED
        BY <4>2, <4>3
    <3>4. \A a \in M, s \in Sides : g[a] = g[u.child[s][a]] + Weight(u, a) + IF a = NULL /\ s = q THEN 1 ELSE 0
      <4>1. ASSUME NEW a \in M, NEW s \in Sides PROVE g[u.child[s][a]] + Weight(u, a) \in Nat
        <5>1. u.child[s][a] \in All
          BY <1>6, <1>8
        <5> QED
          BY <3>2, <5>1 DEF Weight
      <4> QED
        BY <1>4, <3>3, <4>1
    <3>5. g[Sentinel] = 0
      BY <1>4, <1>7, <3>2
    <3> QED
      BY <3>2, <3>4, <3>5 DEF Even
  <2>2. CASE ~t.red[t.root]
    <3>1. \A m \in M : Weight(u, m) = Weight(t, m)
      BY <1>4, <1>6, <2>2 DEF Weight
    <3>2. Even(t, M, h, p, q)
      BY <1>1 DEF Fits
    <3> QED
      BY <1>3, <1>6, <3>1, <3>2 DEF Even
  <2> QED
    BY <2>1, <2>2
<1>10. PICK g : Fits(u, M, k, g, NULL, q)
  BY <1>1, <1>6, <1>9, PaintFits
<1>11. ASSUME NEW a \in M, NEW s \in Sides, u.red[a] PROVE ~u.red[u.child[s][a]]
  <2>1. a # t.root /\ t.red[a]
    BY <1>4, <1>6, <1>11
  <2>2. SUFFICES ASSUME t.red[t.child[s][a]] PROVE FALSE
    BY <1>6, <1>8
  <2>3. t.child[s][a] = c
    BY <1>1, <2>1, <2>2 DEF Colours
  <2>4. c # t.root /\ t.parent[c] = a
    BY <1>2, <1>3, <1>4, <2>3 DEF Joined
  <2> QED
    BY <2>1, <2>4 DEF TwoReds
<1>12. ~u.red[Sentinel]
  BY <1>1, <1>4, <1>6 DEF Colours
<1>13. \A d : Colours(u, M, "none", d) /\ At(u, M, "none", d, NULL, q)
  BY <1>6, <1>11, <1>12 DEF Colours, At
<1> QED
  BY <1>5, <1>6, <1>10, <1>13 DEF Sound

\* The node at which the loop of a deletion ends is painted black.
LEMMA DeleteEndsSound ==
    ASSUME NEW t \in Trees, NEW M, NEW k, NEW c, Sound(t, M, k, "delete", c), ~ShortOfBlack(t, c)
    PROVE  /\ Paint(t, c, FALSE) \in Trees
           /\ \A d : Sound(Paint(t, c, FALSE), M, k, "none", d)
<1>1. PICK h, p, q : Fits(t, M, k, h, p, q) /\ Colours(t, M, "delete", c) /\ At(t, M, "delete", c, p, q)
  BY DEF Sound
<1>2. Joined(t, M)
  BY <1>1, FitsJoined
<1>3. /\ t.root # Sentinel
      /\ c = t.root => p = NULL
      /\ c # t.root => p \in M /\ q \in Sides /\ t.child[q][p] = c /\ t.parent[c] = p
  BY <1>1 DEF At
<1>4. M \subseteq All /\ Sentinel \in All /\ NULL \notin M /\ Sentinel \notin M /\ t.root \in M
  BY <1>2, <1>3 DEF Joined, All
<1>5. ~t.red[Sentinel] /\ ~t.red[t.root]
  BY <1>1 DEF Colours
<1>6. c # t.root => t.red[c] /\ c \in M
  <2>1. c # t.root => t.red[c]
    BY DEF ShortOfBlack
  <2>2. c # t.root => c \in M \cup {Sentinel}
    BY <1>2, <1>3 DEF Joined
  <2> QED
    BY <1>5, <2>1, <2>2
<1>7. PICK u : u = Paint(t, c, FALSE)
  OBVIOUS
<1>8. /\ u \in Trees /\ u.root = t.root /\ u.child = t.child /\ u.parent = t.parent
      /\ ~u.red[c] /\ \A m \in All \ {c} : u.red[m] = t.red[m]
  <2>1. c \in All
    BY <1>4, <1>6
  <2>2. Painted(u, t, c, FALSE)
    BY <1>7, <2>1, PaintIs
  <2> QED
    BY <2>1, <2>2 DEF Painted
<1>9. /\ h \in [All -> Nat] /\ h[Sentinel] = 0
      /\ \A a \in M, s \in Sides : ~(a = p /\ s = q) => h[a] = h[t.child[s][a]] + Weight(t, a)
      /\ p \in M /\ q \in Sides => h[p] = h[t.child[q][p]] + Weight(t, p) + 1
  BY <1>1, FitsEven
<1>10. \E g : Even(u, M, g, NULL, q)
  <2>1. CASE c = t.root
    <3>1. \A m \in M : Weight(u, m) = Weight(t, m)
      BY <1>4, <1>5, <1>8, <2>1 DEF Weight
    <3>2. Even(t, M, h, NULL, q)
      BY <1>1, <1>3, <2>1 DEF Fits
    <3> QED
      BY <1>8, <3>1, <3>2 DEF Even
  <2>2. CASE c # t.root
    <3>1. PICK g : g = [h EXCEPT ![c] = h[c] + 1]
      OBVIOUS
    <3>2. g \in [All -> Nat] /\ g[c] = h[c] + 1 /\ \A m \in All \ {c} : g[m] = h[m]
      BY <1>4, <1>6, <1>9, <2>2, <3>1
    <3>3. /\ p \in M /\ q \in Sides /\ t.child[q][p] = c /\ t.parent[c] = p /\ p # c
      BY <1>2, <1>3, <2>2 DEF Joined
    <3>4. ASSUME NEW a \in M, NEW s \in Sides
          PROVE  g[a] = g[u.child[s][a]] + Weight(u, a) + IF a = NULL /\ s = q THEN 1 ELSE 0
      <4>1. t.child[s][a] \in All /\ t.child[s][a] # a /\ a # NULL
        BY <1>2, <1>4 DEF Joined
      <4>2. h[t.child[s][a]] \in Nat /\ h[a] \in Nat /\ Weight(t, a) \in Nat
        BY <1>4, <1>9, <4>1 DEF Weight
      <4>3. CASE a = p /\ s = q
        <5>1. h[a] = h[c] + Weight(t, a) + 1 /\ g[t.child[s][a]] = h[c] + 1 /\ g[a] = h[a]
          BY <1>4, <1>9, <3>2, <3>3, <4>3
        <5>2. Weight(u, a) = Weight(t, a)
          BY <1>4, <1>8, <3>3, <4>3 DEF Weight
        <5> QED
          BY <1>8, <3>3, <4>1, <4>2, <4>3, <5>1, <5>2
      <4>4. CASE ~(a = p /\ s = q)
        <5>1. h[a] = h[t.child[s][a]] + Weight(t, a)
          BY <1>9, <4>4
        <5>2. t.child[s][a] # c
          <6>1. t.child[s][a] # Sentinel => t.parent[t.child[s][a]] = a /\ SideOf(t, t.child[s][a]) = s
            BY <1>2 DEF Joined
          <6>2. SideOf(t, c) = q /\ c # Sentinel
            BY <1>2, <1>4, <1>6, <2>2, <3>3 DEF Joined
          <6> QED
            BY <3>3, <4>4, <6>1, <6>2
        <5>3. g[t.child[s][a]] = h[t.child[s][a]]
          BY <3>2, <4>1, <5>2
        <5>4. CASE a = c
          <6>1. Weight(t, a) = 0 /\ Weight(u, a) = 1 /\ g[a] = h[a] + 1
            BY <1>6, <1>8, <2>2, <3>2, <5>4 DEF Weight
          <6> QED
            BY <1>8, <4>1, <4>2, <5>1, <5>3, <6>1
        <5>5. CASE a # c
          <6>1. Weight(t, a) = Weight(u, a) /\ g[a] = h[a]
            BY <1>4, <1>8, <3>2, <5>5 DEF Weight
          <6> QED
            BY <1>8, <4>1, <4>2, <5>1, <5>3, <6>1
        <5> QED
          BY <5>4, <5>5
      <4> QED
        BY <4>3, <4>4
    <3>5. g[Sentinel] = 0
      BY <1>4, <1>6, <1>9, <2>2, <3>2
    <3> QED
      BY <3>2, <3>4, <3>5 DEF Even
  <2> QED
    BY <2>1, <2>2
<1>11. PICK g : Fits(u, M, k, g, NULL, q)
  BY <1>1, <1>8, <1>10, PaintFits
<1>12. ASSUME NEW a \in M, NEW s \in Sides, u.red[a] PROVE ~u.red[u.child[s][a]]
  <2>1. t.child[s][a] \in All
    BY <1>2, <1>4 DEF Joined
  <2>2. a # c /\ t.red[a]
    BY <1>4, <1>8, <1>12
  <2>3. CASE t.child[s][a] = c
    BY <1>8, <2>3
  <2>4. CASE t.child[s][a] # c
    <3>1. ~t.red[t.child[s][a]]
      BY <1>1, <2>2, <2>4 DEF Colours
    <3> QED
      BY <1>8, <2>1, <2>4, <3>1
  <2> QED
    BY <2>3, <2>4
<1>13. ~u.red[Sentinel] /\ ~u.red[u.root]
  <2>1. t.root \in All
    BY <1>4
  <2> QED
    BY <1>4, <1>5, <1>8, <2>1
<1>14. \A d : Colours(u, M, "none", d) /\ At(u, M, "none", d, NULL, q)
  BY <1>12, <1>13 DEF Colours, At
<1> QED
  BY <1>7, <1>8, <1>11, <1>14 DEF Sound

\* The node of a deletion, c, is on the side s of p, where a black is missing,
\* w is its sibling, and no two reds are in a row.
ShortAt(t, M, c, p, s, w) ==
    /\ c \in M \cup {Sentinel} /\ c # t.root /\ p \in M /\ s \in Sides
    /\ t.child[s][p] = c /\ t.parent[c] = p
    /\ w = t.child[Mirror(s)][p] /\ w \in M \ {t.root} /\ w # c /\ w # p
    /\ ~t.red[c] /\ ~t.red[Sentinel] /\ ~t.red[t.root]
    /\ \A a \in M, r \in Sides : t.red[a] => ~t.red[t.child[r][a]]

\* The sibling of a node that is short of a black is a node.
LEMMA SiblingIs ==
    ASSUME NEW t \in Trees, NEW M, NEW k, NEW h, NEW p \in M, NEW s \in Sides, Fits(t, M, k, h, p, s)
    PROVE  t.child[Mirror(s)][p] \in M \ {t.root} /\ t.child[Mirror(s)][p] # p
<1>1. Joined(t, M)
  BY FitsJoined
<1>2. Mirror(s) \in Sides /\ Mirror(s) # s
  BY SidesAre
<1>3. t.child[Mirror(s)][p] \in M \cup {Sentinel} /\ t.child[s][p] \in M \cup {Sentinel}
  BY <1>1, <1>2 DEF Joined
<1>4. /\ h \in [All -> Nat] /\ h[Sentinel] = 0
      /\ h[p] = h[t.child[Mirror(s)][p]] + Weight(t, p)
      /\ h[p] = h[t.child[s][p]] + Weight(t, p) + 1
  BY <1>2, FitsEven
<1>5. h[t.child[s][p]] \in Nat /\ h[t.child[Mirror(s)][p]] \in Nat
  BY <1>1, <1>3, <1>4 DEF Joined, All
<1>6. t.child[Mirror(s)][p] # Sentinel
  BY <1>4, <1>5 DEF Weight
<1> QED
  BY <1>1, <1>2, <1>3, <1>6 DEF Joined

\* The step that is short ends at the side of its parent the code takes the
\* node to be on, also when that node is the sentinel.
LEMMA MendSees ==
    ASSUME NEW t \in Trees, NEW M, NEW k, NEW c, Sound(t, M, k, "delete", c), ShortOfBlack(t, c),
           NEW p, p = t.parent[c], NEW s, s = SideOf(t, c)
    PROVE  /\ \E h : Fits(t, M, k, h, p, s)
           /\ ShortAt(t, M, c, p, s, t.child[Mirror(s)][p])
<1>1. PICK h, p0, q : Fits(t, M, k, h, p0, q) /\ Colours(t, M, "delete", c) /\ At(t, M, "delete", c, p0, q)
  BY DEF Sound
<1>2. Joined(t, M)
  BY <1>1, FitsJoined
<1>3. c # t.root /\ ~t.red[c]
  BY DEF ShortOfBlack
<1>4. p0 = p /\ p \in M /\ q \in Sides /\ t.child[q][p] = c
  BY <1>1, <1>3 DEF At
<1>5. c \in M \cup {Sentinel}
  BY <1>2, <1>4 DEF Joined
<1>6. t.child[Mirror(q)][p] \in M \ {t.root} /\ t.child[Mirror(q)][p] # p
  BY <1>1, <1>4, SiblingIs
<1>7. Mirror(q) \in Sides /\ Mirror(q) # q /\ Mirror(Mirror(q)) = q
  BY <1>4, SidesAre
<1>8. t.child[Mirror(q)][p] # c
  <2>1. t.child[Mirror(q)][p] # Sentinel
    BY <1>2, <1>6 DEF Joined
  <2>2. t.child[Mirror(q)][p] # t.child[q][p]
    BY <1>2, <1>4, <1>7, <2>1 DEF Joined
  <2> QED
    BY <1>4, <2>2
<1>9. s = q
  <2>1. s = IF c = t.child["left"][p] THEN "left" ELSE "right"
    BY DEF SideOf
  <2>2. (q = "left" /\ Mirror(q) = "right") \/ (q = "right" /\ Mirror(q) = "left")
    BY <1>4 DEF Sides, Mirror
  <2> QED
    BY <1>4, <1>8, <2>1, <2>2
<1>10. \A a \in M, r \in Sides : t.red[a] => ~t.red[t.child[r][a]]
  BY <1>1, <1>3 DEF Colours
<1>11. ~t.red[Sentinel] /\ ~t.red[t.root]
  BY <1>1 DEF Colours
<1>12. ShortAt(t, M, c, p, s, t.child[Mirror(s)][p])
  BY <1>3, <1>4, <1>5, <1>6, <1>8, <1>9, <1>10, <1>11 DEF ShortAt
<1>13. Fits(t, M, k, h, p, s)
  BY <1>1, <1>4, <1>9
<1> QED
  BY <1>12, <1>13

\* Two nodes exchange their colours, one of which is red.
LEMMA TwoPaint ==
    ASSUME NEW t \in Trees, NEW n \in All, NEW temp \in All, n # temp, ~t.red[n]
    PROVE  Recoloured(Paint(Paint(t, temp, FALSE), n, TRUE), t, n, temp)
<1>1. PICK v : v = Paint(t, temp, FALSE)
  OBVIOUS
<1>2. Painted(v, t, temp, FALSE)
  BY <1>1, PaintIs
<1>3. PICK w : w = Paint(v, n, TRUE)
  OBVIOUS
<1>4. v \in Trees
  BY <1>2 DEF Painted
<1>5. Painted(w, v, n, TRUE)
  BY <1>3, <1>4, PaintIs
<1>6. t.red[n] = FALSE
  BY DEF Trees, All
<1>7. Recoloured(w, t, n, temp)
  BY <1>2, <1>5, <1>6 DEF Painted, Recoloured
<1> QED
  BY <1>1, <1>3, <1>7

\* A red sibling is rotated away: the new one is black.
LEMMA RedSiblingGone ==
    ASSUME NEW t \in Trees, NEW M, NEW k, NEW h, NEW c, NEW p, NEW s, NEW w,
           Fits(t, M, k, h, p, s), Orders(k, M), ShortAt(t, M, c, p, s, w), t.red[w],
           NEW v, Recoloured(v, t, p, w)
    PROVE  /\ Rotate(v, s, p) \in Trees
           /\ \E g : Fits(Rotate(v, s, p), M, k, g, p, s)
           /\ ShortAt(Rotate(v, s, p), M, c, p, s, Rotate(v, s, p).child[Mirror(s)][p])
           /\ ~Rotate(v, s, p).red[Rotate(v, s, p).child[Mirror(s)][p]]
           /\ Rotate(v, s, p).red[p]
<1>1. Joined(t, M)
  BY FitsJoined
<1> DEFINE o == Mirror(s)
<1>2. /\ M \subseteq All /\ Sentinel \in All /\ NULL \notin M /\ Sentinel \notin M
      /\ s \in Sides /\ o \in Sides /\ o # s /\ Mirror(o) = s /\ \A r \in Sides : r = s \/ r = o
  BY <1>1, SidesAre DEF Joined, All, ShortAt
<1>3. /\ c \in M \cup {Sentinel} /\ c # t.root /\ p \in M
      /\ t.child[s][p] = c /\ t.parent[c] = p
      /\ w = t.child[o][p] /\ w \in M \ {t.root} /\ w # c /\ w # p
      /\ ~t.red[c] /\ ~t.red[Sentinel] /\ ~t.red[t.root]
      /\ \A a \in M, r \in Sides : t.red[a] => ~t.red[t.child[r][a]]
  BY DEF ShortAt
<1>4. PICK targ : targ = t.child[s][w]
  OBVIOUS
<1>5. PICK u : u = Rotate(v, s, p)
  OBVIOUS
<1>6. /\ Turns(u, t, M, s, p, w, targ) /\ u.red = v.red
      /\ \E g : Fits(u, M, k, g, p, s)
  <2>1. RedBelow(t, M, s, p, w, targ, p, s)
    BY <1>2, <1>3, <1>4 DEF RedBelow
  <2>2. /\ Turns(Rotate(v, s, p), t, M, s, p, w, targ) /\ Rotate(v, s, p).red = v.red
        /\ \E g : Fits(Rotate(v, s, p), M, k, g, p, s)
    BY <2>1, RedUp
  <2> QED
    BY <1>5, <2>2
<1>7. /\ u \in Trees
      /\ u.root = IF p = t.root THEN w ELSE t.root
      /\ u.child[s][p] = c /\ u.child[o][p] = targ
      /\ u.child[s][w] = p /\ u.child[o][w] = t.child[o][w]
      /\ \A m \in M \ {p, w}, r \in Sides : u.child[r][m] = IF t.child[r][m] = p THEN w ELSE t.child[r][m]
      /\ \A m \in All \ {p, w} : u.parent[m] = IF m = targ /\ m # Sentinel THEN p ELSE t.parent[m]
  BY <1>2, <1>3, <1>6 DEF Turns
<1>8. ~t.red[p] /\ ~t.red[targ] /\ targ \in M \cup {Sentinel}
  BY <1>1, <1>2, <1>3, <1>4 DEF Joined
<1>9. ~u.red[w] /\ u.red[p] /\ \A m \in All \ {w, p} : u.red[m] = t.red[m]
  BY <1>2, <1>3, <1>6, <1>8 DEF Recoloured
<1>10. targ \in M \ {u.root} /\ targ # p
  BY <1>2, <1>3, <1>6, <1>7, SiblingIs
<1>11. Joined(u, M)
  BY <1>6, <1>7, FitsJoined
<1>12. targ # c /\ targ # w /\ c # p
  <2>1. c # p
    BY <1>1, <1>2, <1>3 DEF Joined
  <2>2. u.child[o][p] # Sentinel => u.child[o][p] # u.child[s][p]
    BY <1>2, <1>3, <1>11 DEF Joined
  <2> QED
    BY <1>1, <1>2, <1>3, <1>4, <1>7, <1>10, <2>1, <2>2 DEF Joined
<1>13. u.parent[c] = p
  BY <1>2, <1>3, <1>7, <1>12
<1>14. ~u.red[c] /\ ~u.red[Sentinel] /\ ~u.red[u.root] /\ ~u.red[targ]
  <2>1. t.root \in All /\ c \in All
    BY <1>1, <1>2, <1>3 DEF Joined
  <2>2. ~u.red[c] /\ ~u.red[targ] /\ ~u.red[Sentinel]
    BY <1>2, <1>3, <1>8, <1>9, <1>10, <1>12, <2>1
  <2>3. ~u.red[u.root]
    BY <1>2, <1>3, <1>7, <1>9, <2>1
  <2> QED
    BY <2>2, <2>3
<1>15. ASSUME NEW a \in M, NEW r \in Sides, u.red[a] PROVE ~u.red[u.child[r][a]]
  <2>1. CASE a = p
    BY <1>2, <1>7, <1>14, <2>1
  <2>2. CASE a = w
    BY <1>9, <1>15, <2>2
  <2>3. CASE a \notin {p, w}
    <3>1. t.child[r][a] \in M \cup {Sentinel} /\ t.red[a]
      BY <1>1, <1>2, <1>9, <1>15, <2>3 DEF Joined
    <3>2. ~t.red[t.child[r][a]]
      BY <1>3, <3>1
    <3>3. t.child[r][a] = p \/ (u.child[r][a] = t.child[r][a] /\ t.child[r][a] # w)
      BY <1>3, <1>7, <2>3, <3>1, <3>2
    <3> QED
      BY <1>2, <1>3, <1>7, <1>9, <2>3, <3>1, <3>2, <3>3
  <2> QED
    BY <2>1, <2>2, <2>3
<1>16. c # u.root
  BY <1>3, <1>7
<1> HIDE DEF o
<1>17. ShortAt(u, M, c, p, s, targ)
  <2>1. targ = u.child[Mirror(s)][p]
    BY <1>7 DEF o
  <2> QED
    BY <1>2, <1>3, <1>7, <1>10, <1>12, <1>13, <1>14, <1>15, <1>16, <2>1 DEF ShortAt
<1>18. targ = u.child[Mirror(s)][p]
  BY <1>7 DEF o
<1> QED
  BY <1>5, <1>6, <1>7, <1>9, <1>14, <1>17, <1>18

\* If the black sibling has two black children it becomes red, and what is
\* missing is missing above.
LEMMA ShortMovesUp ==
    ASSUME NEW t \in Trees, NEW M, NEW k, NEW h, NEW c, NEW p, NEW s, NEW w,
           Fits(t, M, k, h, p, s), ShortAt(t, M, c, p, s, w), ~t.red[w],
           \A r \in Sides : ~t.red[t.child[r][w]]
    PROVE  /\ Paint(t, w, TRUE) \in Trees
           /\ Sound(Paint(t, w, TRUE), M, k, "delete", p)
<1>1. Joined(t, M)
  BY FitsJoined
<1> DEFINE o == Mirror(s)
           z == t.parent[p]
           y == SideOf(t, p)
<1>2. /\ M \subseteq All /\ Sentinel \in All /\ NULL \notin M /\ Sentinel \notin M
      /\ s \in Sides /\ o \in Sides /\ o # s /\ \A r \in Sides : r = s \/ r = o
      /\ y \in Sides
  BY <1>1, SidesAre DEF Joined, All, ShortAt
<1>3. /\ c \in M \cup {Sentinel} /\ c # t.root /\ p \in M
      /\ t.child[s][p] = c
      /\ w = t.child[o][p] /\ w \in M \ {t.root} /\ w # c /\ w # p
      /\ ~t.red[c] /\ ~t.red[Sentinel] /\ ~t.red[t.root]
      /\ \A a \in M, r \in Sides : t.red[a] => ~t.red[t.child[r][a]]
  BY DEF ShortAt
<1>4. p # t.root => z \in M /\ z # p /\ t.child[y][z] = p
  BY <1>1, <1>3 DEF Joined
<1>5. /\ \A a \in M, r \in Sides :
            /\ t.child[r][a] \in M \cup {Sentinel} /\ t.child[r][a] # a /\ t.child[r][a] # t.root
            /\ t.child[r][a] # Sentinel => t.parent[t.child[r][a]] = a /\ SideOf(t, t.child[r][a]) = r
      /\ t.root \in M
  <2>1. t.root # Sentinel
    BY <1>1, <1>3 DEF Joined
  <2> QED
    BY <1>1, <2>1 DEF Joined
<1> HIDE DEF o, z, y
<1>6. PICK u : u = Paint(t, w, TRUE)
  OBVIOUS
<1>7. /\ u \in Trees /\ u.root = t.root /\ u.child = t.child /\ u.parent = t.parent
      /\ u.red[w] /\ \A m \in All \ {w} : u.red[m] = t.red[m]
  <2>1. Painted(u, t, w, TRUE)
    BY <1>2, <1>3, <1>6, PaintIs
  <2> QED
    BY <1>2, <1>3, <2>1 DEF Painted
<1>8. /\ h \in [All -> Nat] /\ h[Sentinel] = 0
      /\ \A a \in M, r \in Sides : ~(a = p /\ r = s) => h[a] = h[t.child[r][a]] + Weight(t, a)
      /\ h[p] = h[c] + Weight(t, p) + 1
  BY <1>2, <1>3, FitsEven
<1>9. /\ h[p] = h[w] + Weight(t, p) /\ h[w] = h[c] + 1
      /\ h[c] \in Nat /\ h[p] \in Nat /\ h[w] \in Nat /\ Weight(t, p) \in Nat
      /\ h[p] - 1 \in Nat
  <2>1. h[p] = h[w] + Weight(t, p)
    BY <1>2, <1>3, <1>8
  <2>2. h[c] \in Nat /\ h[p] \in Nat /\ h[w] \in Nat /\ Weight(t, p) \in Nat
    BY <1>2, <1>3, <1>8 DEF Weight
  <2> QED
    BY <1>8, <2>1, <2>2
<1>10. PICK g : g = [h EXCEPT ![w] = h[w] - 1, ![p] = h[p] - 1]
  OBVIOUS
<1>11. /\ g \in [All -> Nat] /\ g[w] = h[w] - 1 /\ g[p] = h[p] - 1
       /\ \A m \in All \ {w, p} : g[m] = h[m]
  BY <1>2, <1>3, <1>8, <1>9, <1>10
<1>12. PICK b : b = IF p = t.root THEN NULL ELSE z
  OBVIOUS
<1>13. ASSUME NEW a \in M, NEW r \in Sides
       PROVE  g[a] = g[u.child[r][a]] + Weight(u, a) + IF a = b /\ r = y THEN 1 ELSE 0
  <2>1. /\ t.child[r][a] \in M \cup {Sentinel} /\ t.child[r][a] # a
        /\ h[t.child[r][a]] \in Nat /\ h[a] \in Nat /\ Weight(t, a) \in Nat /\ a # NULL
    BY <1>2, <1>5, <1>8 DEF Weight
  <2>2. CASE a = p
    <3>1. ~(a = b /\ r = y)
      BY <1>2, <1>3, <1>4, <1>12, <2>2
    <3>2. Weight(u, a) = Weight(t, a)
      BY <1>2, <1>3, <1>7, <2>2 DEF Weight
    <3>3. g[t.child[r][a]] + Weight(t, a) = h[p] - 1
      <4>1. CASE r = s
        <5>1. t.child[r][a] = c /\ g[c] = h[c]
          BY <1>2, <1>3, <1>11, <2>1, <2>2, <4>1
        <5> QED
          BY <1>8, <1>9, <2>1, <2>2, <5>1
      <4>2. CASE r = o
        <5>1. t.child[r][a] = w
          BY <1>3, <2>2, <4>2
        <5> QED
          BY <1>9, <1>11, <2>1, <2>2, <5>1
      <4> QED
        BY <1>2, <4>1, <4>2
    <3> QED
      BY <1>7, <1>9, <1>11, <2>1, <2>2, <3>1, <3>2, <3>3
  <2>3. CASE a = w
    <3>1. ~(a = b /\ r = y)
      <4>1. t.parent[w] = p /\ t.child[y][w] # p
        BY <1>1, <1>2, <1>3, <1>5 DEF Joined
      <4> QED
        BY <1>2, <1>4, <1>12, <2>3, <4>1
    <3>2. Weight(u, a) = 0 /\ Weight(t, a) = 1
      BY <1>7, <2>3 DEF Weight
    <3>3. t.child[r][a] # p
      <4>1. t.parent[w] = p /\ w # t.root
        BY <1>2, <1>3, <1>5
      <4>2. t.child[r][w] # p
        BY <1>1, <1>2, <1>3, <4>1 DEF Joined
      <4> QED
        BY <2>3, <4>2
    <3>4. g[t.child[r][a]] = h[t.child[r][a]]
      BY <1>2, <1>11, <2>1, <2>3, <3>3
    <3> QED
      BY <1>3, <1>7, <1>8, <1>11, <2>1, <2>3, <3>1, <3>2, <3>4
  <2>4. CASE a \notin {p, w}
    <3>1. h[a] = h[t.child[r][a]] + Weight(t, a) /\ Weight(u, a) = Weight(t, a) /\ g[a] = h[a]
      BY <1>2, <1>7, <1>8, <1>11, <2>4 DEF Weight
    <3>2. t.child[r][a] # w
      BY <1>2, <1>3, <1>5, <2>4
    <3>3. CASE t.child[r][a] = p
      <4>1. p # t.root /\ a = z /\ r = y
        BY <1>1, <1>2, <1>3, <1>5, <3>3 DEF z, y
      <4> QED
        BY <1>7, <1>9, <1>11, <1>12, <2>1, <3>1, <3>3, <4>1
    <3>4. CASE t.child[r][a] # p
      <4>1. ~(a = b /\ r = y)
        BY <1>2, <1>4, <1>12, <2>1, <3>4
      <4>2. g[t.child[r][a]] = h[t.child[r][a]]
        BY <1>2, <1>11, <2>1, <3>2, <3>4
      <4> QED
        BY <1>7, <2>1, <3>1, <4>1, <4>2
    <3> QED
      BY <3>3, <3>4
  <2> QED
    BY <2>2, <2>3, <2>4
<1>14. g[Sentinel] = 0
  BY <1>2, <1>3, <1>8, <1>11
<1>15. Fits(u, M, k, g, b, y)
  <2>1. Even(u, M, g, b, y)
    BY <1>11, <1>13, <1>14 DEF Even
  <2> QED
    BY <1>7, <2>1, PaintFits
<1>16. Colours(u, M, "delete", p)
  <2>1. ~u.red[Sentinel] /\ ~u.red[u.root]
    BY <1>2, <1>3, <1>5, <1>7
  <2>2. ASSUME NEW a \in M, NEW r \in Sides, u.red[a], u.red[u.child[r][a]]
        PROVE  p = a
    <3>1. t.child[r][a] \in All /\ t.child[r][a] # a
      BY <1>2, <1>5
    <3>2. CASE a = w
      BY <1>2, <1>3, <1>7, <2>2, <3>1, <3>2
    <3>3. CASE a # w
      <4>1. t.red[a]
        BY <1>2, <1>7, <2>2, <3>3
      <4>2. t.child[r][a] = w
        BY <1>3, <1>7, <2>2, <3>1, <4>1
      <4> QED
        BY <1>2, <1>3, <1>5, <4>2
    <3> QED
      BY <3>2, <3>3
  <2> QED
    BY <2>1, <2>2 DEF Colours
<1>17. At(u, M, "delete", p, b, y)
  <2>1. u.root # Sentinel
    BY <1>2, <1>5, <1>7
  <2>2. p # u.root => b \in M /\ y \in Sides /\ u.child[y][b] = p /\ u.parent[p] = b
    BY <1>2, <1>4, <1>7, <1>12 DEF z
  <2>3. p = u.root => b = NULL
    BY <1>7, <1>12
  <2> QED
    BY <2>1, <2>2, <2>3 DEF At
<1> QED
  BY <1>6, <1>7, <1>15, <1>16, <1>17 DEF Sound

\* A sibling whose far child is black leaves its place to the near one, which
\* has a red far child.
LEMMA FarIsRed ==
    ASSUME NEW t \in Trees, NEW M, NEW k, NEW h, NEW c, NEW p, NEW s, NEW w,
           Fits(t, M, k, h, p, s), Orders(k, M), ShortAt(t, M, c, p, s, w), ~t.red[w],
           NEW near, near = t.child[s][w], t.red[near],
           ~t.red[t.child[Mirror(s)][w]],
           NEW v, Recoloured(v, t, w, near)
    PROVE  /\ Rotate(v, Mirror(s), w) \in Trees
           /\ \E g : Fits(Rotate(v, Mirror(s), w), M, k, g, p, s)
           /\ ShortAt(Rotate(v, Mirror(s), w), M, c, p, s, near)
           /\ Rotate(v, Mirror(s), w).child[Mirror(s)][p] = near
           /\ ~Rotate(v, Mirror(s), w).red[near]
           /\ Rotate(v, Mirror(s), w).child[Mirror(s)][near] = w
           /\ Rotate(v, Mirror(s), w).red[w]
<1>1. Joined(t, M)
  BY FitsJoined
<1> DEFINE o == Mirror(s)
<1>2. /\ M \subseteq All /\ Sentinel \in All /\ NULL \notin M /\ Sentinel \notin M
      /\ s \in Sides /\ o \in Sides /\ o # s /\ Mirror(o) = s /\ \A r \in Sides : r = s \/ r = o
  BY <1>1, SidesAre DEF Joined, All, ShortAt
<1>3. /\ c \in M \cup {Sentinel} /\ c # t.root /\ p \in M
      /\ t.child[s][p] = c /\ t.parent[c] = p
      /\ w = t.child[o][p] /\ w \in M \ {t.root} /\ w # c /\ w # p
      /\ ~t.red[c] /\ ~t.red[Sentinel] /\ ~t.red[t.root]
      /\ \A a \in M, r \in Sides : t.red[a] => ~t.red[t.child[r][a]]
  BY DEF ShortAt
<1>4. PICK targ : targ = t.child[o][near]
  OBVIOUS
<1>5. PICK u : u = Rotate(v, o, w)
  OBVIOUS
<1>6. /\ near \in M /\ near # w /\ near # c /\ near # p /\ near # t.root
      /\ t.parent[near] = w /\ t.parent[w] = p
  <2>1. near \in M \cup {Sentinel} /\ near # t.root /\ near # w
    BY <1>1, <1>2, <1>3 DEF Joined
  <2>2. near # Sentinel
    BY <1>3
  <2>3. t.parent[near] = w /\ t.parent[w] = p
    BY <1>1, <1>2, <1>3, <2>2 DEF Joined
  <2>4. near # p
    BY <1>1, <1>2, <1>3, <2>1, <2>3 DEF Joined
  <2> QED
    BY <1>3, <2>1, <2>2, <2>3, <2>4
<1>7. /\ Turns(u, t, M, o, w, near, targ) /\ u.red = v.red
      /\ \E g : Fits(u, M, k, g, p, s)
  <2>1. RedBelow(t, M, o, w, near, targ, p, s)
    BY <1>2, <1>3, <1>4, <1>6 DEF RedBelow
  <2>2. /\ Turns(Rotate(v, o, w), t, M, o, w, near, targ) /\ Rotate(v, o, w).red = v.red
        /\ \E g : Fits(Rotate(v, o, w), M, k, g, p, s)
    BY <2>1, RedUp
  <2> QED
    BY <1>5, <2>2
<1>8. PICK far : far = t.child[o][w]
  OBVIOUS
<1>9. /\ u \in Trees /\ u.root = t.root
      /\ u.child[o][w] = far /\ u.child[s][w] = targ
      /\ u.child[o][near] = w /\ u.child[s][near] = t.child[s][near]
      /\ \A m \in M \ {w, near}, r \in Sides : u.child[r][m] = IF t.child[r][m] = w THEN near ELSE t.child[r][m]
      /\ \A m \in All \ {w, near} : u.parent[m] = IF m = targ /\ m # Sentinel THEN w ELSE t.parent[m]
  BY <1>2, <1>3, <1>7, <1>8 DEF Turns
<1>10. ~t.red[targ] /\ targ \in M \cup {Sentinel} /\ targ # near /\ (targ # Sentinel => t.parent[targ] = near)
  BY <1>1, <1>2, <1>3, <1>4, <1>6 DEF Joined
<1>11. ~u.red[near] /\ u.red[w] /\ \A m \in All \ {w, near} : u.red[m] = t.red[m]
  BY <1>2, <1>3, <1>6, <1>7 DEF Recoloured
<1>12. /\ u.child[s][p] = c /\ u.child[o][p] = near /\ u.parent[c] = p
  <2>1. c # targ \/ c = Sentinel
    BY <1>3, <1>6, <1>10
  <2>2. u.parent[c] = p
    <3>1. c \in All \ {w, near}
      BY <1>2, <1>3, <1>6
    <3>2. u.parent[c] = IF c = targ /\ c # Sentinel THEN w ELSE t.parent[c]
      BY <1>9, <3>1
    <3> QED
      BY <1>3, <2>1, <3>2
  <2> QED
    BY <1>2, <1>3, <1>6, <1>9, <2>2
<1>13. ~u.red[c] /\ ~u.red[Sentinel] /\ ~u.red[u.root]
  <2>1. t.root \in All /\ c \in All
    BY <1>1, <1>2, <1>3 DEF Joined
  <2>2. c # near /\ c # w /\ t.root # near /\ t.root # w /\ Sentinel # near /\ Sentinel # w /\ u.root = t.root
    BY <1>2, <1>3, <1>6, <1>9
  <2>3. ~t.red[c] /\ ~t.red[Sentinel] /\ ~t.red[t.root]
    BY <1>3
  <2> QED
    BY <1>2, <1>11, <2>1, <2>2, <2>3
<1>14. far \in M \cup {Sentinel} /\ far # near /\ far # w /\ ~t.red[far]
  BY <1>1, <1>2, <1>3, <1>8 DEF Joined
<1>15. ASSUME NEW a \in M, NEW r \in Sides, u.red[a] PROVE ~u.red[u.child[r][a]]
  <2>1. CASE a = w
    <3>1. u.child[r][a] \in {far, targ}
      BY <1>2, <1>9, <2>1
    <3>2. targ # w
      BY <1>1, <1>2, <1>3, <1>6, <1>10 DEF Joined
    <3> QED
      BY <1>2, <1>10, <1>11, <1>14, <3>1, <3>2
  <2>2. CASE a = near
    BY <1>11, <1>15, <2>2
  <2>3. CASE a \notin {w, near}
    <3>1. t.child[r][a] \in M \cup {Sentinel} /\ t.red[a]
      BY <1>1, <1>2, <1>11, <1>15, <2>3 DEF Joined
    <3>2. ~t.red[t.child[r][a]]
      BY <1>3, <3>1
    <3>3. t.child[r][a] = w \/ (u.child[r][a] = t.child[r][a] /\ t.child[r][a] # near)
      BY <1>9, <2>3, <3>1, <3>2
    <3> QED
      BY <1>2, <1>6, <1>9, <1>11, <2>3, <3>1, <3>2, <3>3
  <2> QED
    BY <2>1, <2>2, <2>3
<1> HIDE DEF o
<1>16. ShortAt(u, M, c, p, s, near)
  <2>1. near = u.child[Mirror(s)][p]
    BY <1>12 DEF o
  <2> QED
    BY <1>2, <1>3, <1>6, <1>9, <1>12, <1>13, <1>15, <2>1 DEF ShortAt
<1>17. /\ u \in Trees /\ u.child[Mirror(s)][p] = near /\ ~u.red[near]
       /\ u.child[Mirror(s)][near] = w /\ u.red[w]
  BY <1>9, <1>11, <1>12 DEF o
<1>18. u = Rotate(v, Mirror(s), w) /\ \E g : Fits(u, M, k, g, p, s)
  BY <1>5, <1>7 DEF o
<1> QED
  BY <1>16, <1>17, <1>18

\* u has the colours of t, but w has that of p, and p and far are black.
LastPainted(v, t, p, w, far) ==
    /\ SamePointers(v, t)
    /\ \A m \in All : v.red[m] = IF m = far \/ m = p THEN FALSE ELSE IF m = w THEN t.red[p] ELSE t.red[m]

\* The three colours Mend sets before its last rotation
LEMMA LastPaint ==
    ASSUME NEW t \in Trees, NEW p \in All, NEW w \in All, NEW far \in All
    PROVE  LastPainted(Paint(Paint(Paint(t, w, t.red[p]), p, FALSE), far, FALSE), t, p, w, far)
<1>1. PICK u : u = Paint(t, w, t.red[p])
  OBVIOUS
<1>2. Painted(u, t, w, t.red[p])
  <2>1. t.red[p] \in BOOLEAN
    BY DEF Trees, All
  <2> QED
    BY <1>1, <2>1, PaintIs
<1>3. PICK x : x = Paint(u, p, FALSE)
  OBVIOUS
<1>4. u \in Trees
  BY <1>2 DEF Painted
<1>5. Painted(x, u, p, FALSE)
  BY <1>3, <1>4, PaintIs
<1>6. PICK v : v = Paint(x, far, FALSE)
  OBVIOUS
<1>7. x \in Trees
  BY <1>5 DEF Painted
<1>8. Painted(v, x, far, FALSE)
  BY <1>6, <1>7, PaintIs
<1>9. LastPainted(v, t, p, w, far)
  BY <1>2, <1>5, <1>8 DEF Painted, LastPainted, SamePointers
<1> QED
  BY <1>1, <1>3, <1>6, <1>9

\* The last rotation of a deletion gives the short side its black.
LEMMA BlackIsBack ==
    ASSUME NEW t \in Trees, NEW M, NEW k, NEW h, NEW c, NEW p, NEW s, NEW w,
           Fits(t, M, k, h, p, s), Orders(k, M), ShortAt(t, M, c, p, s, w), ~t.red[w],
           NEW far, far = t.child[Mirror(s)][w], t.red[far],
           NEW v, LastPainted(v, t, p, w, far)
    PROVE  /\ Rotate(v, s, p) \in Trees
           /\ Sound(Rotate(v, s, p), M, k, "delete", Rotate(v, s, p).root)
<1>1. Joined(t, M)
  BY FitsJoined
<1> DEFINE o == Mirror(s)
<1>2. /\ M \subseteq All /\ Sentinel \in All /\ NULL \notin M /\ Sentinel \notin M
      /\ s \in Sides /\ o \in Sides /\ o # s /\ Mirror(o) = s /\ \A r \in Sides : r = s \/ r = o
  BY <1>1, SidesAre DEF Joined, All, ShortAt
<1>3. /\ c \in M \cup {Sentinel} /\ c # t.root /\ p \in M
      /\ t.child[s][p] = c /\ t.parent[c] = p
      /\ w = t.child[o][p] /\ w \in M \ {t.root} /\ w # c /\ w # p
      /\ ~t.red[c] /\ ~t.red[Sentinel] /\ ~t.red[t.root]
      /\ \A a \in M, r \in Sides : t.red[a] => ~t.red[t.child[r][a]]
  BY DEF ShortAt
<1>4. PICK targ : targ = t.child[s][w]
  OBVIOUS
<1>5. PICK u : u = Rotate(v, s, p)
  OBVIOUS
<1>6. /\ \A a \in M, r \in Sides :
            /\ t.child[r][a] \in M \cup {Sentinel} /\ t.child[r][a] # a /\ t.child[r][a] # t.root
            /\ t.child[r][a] # Sentinel => t.parent[t.child[r][a]] = a /\ SideOf(t, t.child[r][a]) = r
      /\ t.root \in M
  <2>1. t.root # Sentinel
    BY <1>1, <1>3 DEF Joined
  <2> QED
    BY <1>1, <2>1 DEF Joined
<1>7. far \in M /\ far # w /\ far # p /\ far # c /\ far # t.root /\ t.child[o][w] = far /\ t.parent[w] = p /\ t.parent[far] = w
  <2>1. t.child[o][w] = far /\ far # Sentinel
    BY <1>3
  <2>2. far \in M /\ far # w /\ far # t.root /\ t.parent[far] = w /\ t.parent[w] = p
    BY <1>2, <1>3, <1>6, <2>1
  <2>3. far # p
    BY <1>1, <1>2, <1>3, <2>2 DEF Joined
  <2> QED
    BY <1>3, <2>1, <2>2, <2>3
<1>8. /\ Turns(u, t, M, s, p, w, targ) /\ u.red = v.red
      /\ \E C : Describes(u, C) /\ C[u.root] = M /\ Sorted(u, C, k)
  <2>1. PICK B : Describes(t, B) /\ B[t.root] = M /\ Sorted(t, B, k)
    BY DEF Fits
  <2>2. Turnable(t, B, s, p, w, targ)
    BY <1>2, <1>3, <1>4, <2>1 DEF Turnable
  <2>3. SamePointers(v, t)
    BY DEF LastPainted
  <2>4. Orders(k, B[t.root])
    BY <2>1
  <2> QED
    BY <1>5, <2>1, <2>2, <2>3, <2>4, RotatePainted
<1>9. /\ u \in Trees
      /\ u.root = IF p = t.root THEN w ELSE t.root
      /\ u.child[s][p] = c /\ u.child[o][p] = targ
      /\ u.child[s][w] = p /\ u.child[o][w] = far
      /\ \A m \in M \ {p, w}, r \in Sides : u.child[r][m] = IF t.child[r][m] = p THEN w ELSE t.child[r][m]
  BY <1>2, <1>3, <1>7, <1>8 DEF Turns
<1>10. /\ ~u.red[p] /\ ~u.red[far] /\ u.red[w] = t.red[p]
       /\ \A m \in All \ {p, far, w} : u.red[m] = t.red[m]
  BY <1>2, <1>3, <1>7, <1>8 DEF LastPainted
<1>11. /\ h \in [All -> Nat] /\ h[Sentinel] = 0
       /\ \A a \in M, r \in Sides : ~(a = p /\ r = s) => h[a] = h[t.child[r][a]] + Weight(t, a)
       /\ h[p] = h[c] + Weight(t, p) + 1
  BY <1>2, <1>3, FitsEven
<1>12. targ \in M \cup {Sentinel} /\ targ # p /\ targ # w /\ targ # far
  <2>1. targ \in M \cup {Sentinel} /\ targ # w /\ (targ # Sentinel => t.parent[targ] = w)
    BY <1>2, <1>3, <1>4, <1>6
  <2>2. targ # p
    BY <1>2, <1>3, <1>4, <1>7, <1>1, <2>1 DEF Joined
  <2>3. targ # far
    <3>1. t.child[o][w] # Sentinel => t.child[o][w] # t.child[s][w]
      BY <1>1, <1>2, <1>3 DEF Joined
    <3> QED
      BY <1>2, <1>4, <1>7, <3>1
  <2> QED
    BY <2>1, <2>2, <2>3
<1>13. /\ h[p] = h[w] + Weight(t, p) /\ h[w] = h[far] + 1 /\ h[w] = h[targ] + 1 /\ h[w] = h[c] + 1
       /\ h[c] \in Nat /\ h[p] \in Nat /\ h[w] \in Nat /\ h[far] \in Nat /\ h[targ] \in Nat
       /\ Weight(t, p) \in Nat
  <2>1. h[p] = h[w] + Weight(t, p)
    BY <1>2, <1>3, <1>11
  <2>2. h[w] = h[far] + Weight(t, w) /\ h[w] = h[targ] + Weight(t, w)
    BY <1>2, <1>3, <1>4, <1>7, <1>11
  <2>3. Weight(t, w) = 1
    BY DEF Weight
  <2>4. /\ h[c] \in Nat /\ h[p] \in Nat /\ h[w] \in Nat /\ h[far] \in Nat /\ h[targ] \in Nat
        /\ Weight(t, p) \in Nat
    BY <1>2, <1>3, <1>7, <1>11, <1>12 DEF Weight
  <2> QED
    BY <1>11, <2>1, <2>2, <2>3, <2>4
<1>14. PICK g : g = [h EXCEPT ![p] = h[w], ![w] = h[p], ![far] = h[far] + 1]
  OBVIOUS
<1>15. /\ g \in [All -> Nat] /\ g[p] = h[w] /\ g[w] = h[p] /\ g[far] = h[far] + 1
       /\ \A m \in All \ {p, w, far} : g[m] = h[m]
  BY <1>2, <1>3, <1>7, <1>11, <1>13, <1>14
<1>16. ASSUME NEW a \in M, NEW r \in Sides
       PROVE  g[a] = g[u.child[r][a]] + Weight(u, a)
  <2>1. CASE a = p
    <3>1. Weight(u, a) = 1
      BY <1>10, <2>1 DEF Weight
    <3>2. g[u.child[r][a]] = h[w] - 1
      <4>1. CASE r = s
        <5>1. c \in All \ {p, w, far}
          BY <1>1, <1>2, <1>3, <1>7 DEF Joined
        <5> QED
          BY <1>9, <1>13, <1>15, <2>1, <4>1, <5>1
      <4>2. CASE r = o
        BY <1>2, <1>9, <1>12, <1>13, <1>15, <2>1, <4>2
      <4> QED
        BY <1>2, <4>1, <4>2
    <3> QED
      BY <1>13, <1>15, <2>1, <3>1, <3>2
  <2>2. CASE a = w
    <3>1. Weight(u, a) = Weight(t, p)
      BY <1>10, <2>2 DEF Weight
    <3>2. g[u.child[r][a]] = h[w]
      BY <1>2, <1>9, <1>13, <1>15, <2>2
    <3> QED
      BY <1>13, <1>15, <2>2, <3>1, <3>2
  <2>3. CASE a \notin {p, w}
    <3>1. /\ t.child[r][a] \in M \cup {Sentinel} /\ t.child[r][a] # a
          /\ t.child[r][a] # w /\ t.child[r][a] # far
          /\ h[t.child[r][a]] \in Nat /\ h[a] \in Nat /\ h[a] = h[t.child[r][a]] + Weight(t, a)
      <4>1. /\ t.child[r][a] \in M \cup {Sentinel} /\ t.child[r][a] # a
            /\ t.child[r][a] # w /\ t.child[r][a] # far
        BY <1>2, <1>3, <1>6, <1>7, <2>3
      <4>2. h[a] = h[t.child[r][a]] + Weight(t, a)
        BY <1>11, <2>3
      <4>3. h[t.child[r][a]] \in Nat /\ h[a] \in Nat
        BY <1>2, <1>11, <4>1
      <4> QED
        BY <4>1, <4>2, <4>3
    <3>2. g[u.child[r][a]] = h[t.child[r][a]]
      BY <1>2, <1>3, <1>9, <1>15, <2>3, <3>1
    <3>3. CASE a = far
      <4>1. Weight(t, a) = 0 /\ Weight(u, a) = 1 /\ g[a] = h[a] + 1
        BY <1>10, <1>15, <3>3 DEF Weight
      <4> QED
        BY <3>1, <3>2, <4>1
    <3>4. CASE a # far
      <4>1. Weight(t, a) = Weight(u, a) /\ g[a] = h[a]
        BY <1>2, <1>10, <1>15, <2>3, <3>4 DEF Weight
      <4> QED
        BY <3>1, <3>2, <4>1
    <3> QED
      BY <3>3, <3>4
  <2> QED
    BY <2>1, <2>2, <2>3
<1>17. Fits(u, M, k, g, NULL, s)
  <2>1. ASSUME NEW a \in M, NEW r \in Sides
        PROVE  g[a] = g[u.child[r][a]] + Weight(u, a) + IF a = NULL /\ r = s THEN 1 ELSE 0
    <3>1. u.child[r][a] \in All
      <4>1. t.child[r][a] \in All
        BY <1>2, <1>6
      <4> QED
        BY <1>2, <1>3, <1>7, <1>9, <1>12, <4>1
    <3>2. g[u.child[r][a]] \in Nat /\ Weight(u, a) \in Nat /\ a # NULL
      BY <1>2, <1>15, <3>1 DEF Weight
    <3> QED
      BY <1>16, <3>2
  <2>2. g[Sentinel] = 0
    BY <1>2, <1>3, <1>7, <1>11, <1>15
  <2>3. Even(u, M, g, NULL, s)
    BY <1>15, <2>1, <2>2 DEF Even
  <2> QED
    BY <1>8, <2>3 DEF Fits
<1>18. ASSUME NEW a \in M, NEW r \in Sides, u.red[a] PROVE ~u.red[u.child[r][a]]
  <2>1. CASE a = w
    BY <1>2, <1>9, <1>10, <2>1
  <2>2. CASE a # w
    <3>1. t.red[a] /\ a # p /\ a # far /\ t.child[r][a] \in M \cup {Sentinel}
      BY <1>2, <1>6, <1>10, <1>18, <2>2
    <3>2. ~t.red[t.child[r][a]]
      BY <1>3, <3>1
    <3>3. t.child[r][a] # w
      BY <1>3, <1>6, <1>2, <3>1
    <3>4. CASE t.child[r][a] = p
      <4>1. u.child[r][a] = w /\ ~t.red[p]
        BY <1>9, <2>2, <3>1, <3>2, <3>4
      <4> QED
        BY <1>10, <4>1
    <3>5. CASE t.child[r][a] # p
      <4>1. u.child[r][a] = t.child[r][a]
        BY <1>9, <2>2, <3>1, <3>5
      <4>2. t.child[r][a] \in All
        BY <1>2, <3>1
      <4> QED
        BY <1>10, <3>2, <3>3, <3>5, <4>1, <4>2
    <3> QED
      BY <3>4, <3>5
  <2> QED
    BY <2>1, <2>2
<1>19. Colours(u, M, "delete", u.root)
  <2>1. ~u.red[Sentinel]
    BY <1>2, <1>3, <1>7, <1>10
  <2>2. ~u.red[u.root]
    <3>1. t.root \in All /\ t.root # w /\ t.root # far
      BY <1>2, <1>3, <1>6, <1>7
    <3> QED
      BY <1>3, <1>9, <1>10, <3>1
  <2> QED
    BY <1>18, <2>1, <2>2 DEF Colours
<1>20. At(u, M, "delete", u.root, NULL, s)
  <2>1. u.root # Sentinel
    BY <1>2, <1>3, <1>6, <1>9
  <2> QED
    BY <2>1 DEF At
<1> QED
  BY <1>5, <1>9, <1>17, <1>19, <1>20 DEF Sound

-----------------------------------------------------------------------------
(* The passes of the loops                                                 *)

\* Where a pass of a deletion goes: to the root or a red node, where the loop
\* ends, or else to the parent, and no pointer has changed.
Climbs(u, d, t, c, M) ==
    \/ d = u.root
    \/ u.red[d]
    \/ /\ d = t.parent[c] /\ d \in M /\ c \in (M \ {t.root}) \cup {Sentinel}
       /\ SamePointers(u, t)

\* A pass of a deletion, in all its cases
LEMMA MendSound ==
    ASSUME NEW M, NEW k, tree \in Trees, Orders(k, M), Sound(tree, M, k, loop, cur), Mend
    PROVE  /\ tree' \in Trees /\ Sound(tree', M, k, loop', cur')
           /\ Climbs(tree', cur', tree, cur, M)
<1> DEFINE s == SideOf(tree, cur)
           p == tree.parent[cur]
           w == tree.child[Mirror(s)][p]
           t1 == IF tree.red[w] THEN Rotate(Paint(Paint(tree, w, FALSE), p, TRUE), s, p) ELSE tree
           w1 == t1.child[Mirror(s)][p]
           near == t1.child[s][w1]
           far == t1.child[Mirror(s)][w1]
           t2 == IF t1.red[far] THEN t1
                 ELSE Rotate(Paint(Paint(t1, near, FALSE), w1, TRUE), Mirror(s), w1)
           w2 == t2.child[Mirror(s)][p]
           last == t2.child[Mirror(s)][w2]
           t3 == Paint(Paint(Paint(t2, w2, t2.red[p]), p, FALSE), last, FALSE)
<1>1. /\ loop = "delete" /\ ShortOfBlack(tree, cur)
      /\ IF ~t1.red[near] /\ ~t1.red[far]
           THEN tree' = Paint(t1, w1, TRUE) /\ cur' = p
           ELSE tree' = Rotate(t3, s, p) /\ cur' = tree'.root
      /\ UNCHANGED <<key, now, loop>>
  BY DEF Mend
<1> HIDE DEF s, p, w, t1, w1, near, far, t2, w2, last, t3
<1>2. PICK h : Fits(tree, M, k, h, p, s) /\ ShortAt(tree, M, cur, p, s, w)
  <2>1. Sound(tree, M, k, "delete", cur) /\ ShortOfBlack(tree, cur)
    BY <1>1
  <2> QED
    BY <2>1, MendSees DEF p, s, w
<1>3. Joined(tree, M)
  BY <1>2, FitsJoined
<1>4. s \in Sides /\ p \in M /\ w \in M /\ w # p /\ M \subseteq All /\ Mirror(s) \in Sides /\ Mirror(s) # s
  BY <1>2, <1>3, SidesAre DEF ShortAt, Joined, All
<1>5. /\ t1 \in Trees /\ ShortAt(t1, M, cur, p, s, w1) /\ ~t1.red[w1]
      /\ \E g : Fits(t1, M, k, g, p, s)
      /\ t1.red[p] \/ t1 = tree
  <2>1. CASE tree.red[w]
    <3>1. PICK v : v = Paint(Paint(tree, w, FALSE), p, TRUE)
      OBVIOUS
    <3>2. ~tree.red[p]
      <4>1. \A a \in M, r \in Sides : tree.red[a] => ~tree.red[tree.child[r][a]]
        BY <1>2 DEF ShortAt
      <4>2. w = tree.child[Mirror(s)][p]
        BY DEF w
      <4> QED
        BY <1>4, <2>1, <4>1, <4>2
    <3>3. Recoloured(v, tree, p, w)
      BY <1>4, <3>1, <3>2, TwoPaint
    <3>4. t1 = Rotate(v, s, p)
      BY <2>1, <3>1 DEF t1
    <3>5. w1 = t1.child[Mirror(s)][p]
      BY DEF w1
    <3>6. /\ Rotate(v, s, p) \in Trees
          /\ \E g : Fits(Rotate(v, s, p), M, k, g, p, s)
          /\ ShortAt(Rotate(v, s, p), M, cur, p, s, Rotate(v, s, p).child[Mirror(s)][p])
          /\ ~Rotate(v, s, p).red[Rotate(v, s, p).child[Mirror(s)][p]]
          /\ Rotate(v, s, p).red[p]
      BY <1>2, <2>1, <3>3, RedSiblingGone
    <3> QED
      BY <3>4, <3>5, <3>6
  <2>2. CASE ~tree.red[w]
    <3>1. t1 = tree
      BY <2>2 DEF t1
    <3>2. w1 = w
      BY <3>1 DEF w1, w
    <3> QED
      BY <1>2, <2>2, <3>1, <3>2
  <2> QED
    BY <2>1, <2>2
<1>6. PICK g : Fits(t1, M, k, g, p, s)
  BY <1>5
<1>7. Joined(t1, M) /\ w1 \in M /\ w1 # p
  BY <1>5, <1>6, FitsJoined DEF ShortAt
<1>8. CASE ~t1.red[near] /\ ~t1.red[far]
  <2>1. \A r \in Sides : ~t1.red[t1.child[r][w1]]
    BY <1>4, <1>8, SidesAre DEF near, far
  <2>2. Paint(t1, w1, TRUE) \in Trees /\ Sound(Paint(t1, w1, TRUE), M, k, "delete", p)
    BY <1>5, <1>6, <2>1, ShortMovesUp
  <2>3. Painted(Paint(t1, w1, TRUE), t1, w1, TRUE)
    BY <1>4, <1>5, <1>7, PaintIs
  <2>4. PICK u : u = Paint(t1, w1, TRUE)
    OBVIOUS
  <2>5. t1.red[p] => u.red[p]
    BY <1>4, <1>7, <2>3, <2>4 DEF Painted
  <2>6. t1 = tree => SamePointers(u, tree)
    BY <2>3, <2>4 DEF Painted, SamePointers
  <2>7. p = tree.parent[cur] /\ p \in M /\ cur \in (M \ {tree.root}) \cup {Sentinel}
    BY <1>2 DEF ShortAt, p
  <2>8. Climbs(u, p, tree, cur, M)
    BY <1>5, <2>5, <2>6, <2>7 DEF Climbs
  <2> QED
    BY <1>1, <1>8, <2>2, <2>4, <2>8
<1>9. CASE t1.red[near] \/ t1.red[far]
  <2>1. /\ t2 \in Trees /\ ShortAt(t2, M, cur, p, s, w2) /\ ~t2.red[w2]
        /\ t2.red[last]
        /\ \E f : Fits(t2, M, k, f, p, s)
    <3>1. CASE t1.red[far]
      <4>1. t2 = t1
        BY <3>1 DEF t2
      <4>2. w2 = w1
        BY <4>1 DEF w2, w1
      <4>3. last = far
        BY <4>1, <4>2 DEF last, far
      <4> QED
        BY <1>5, <3>1, <4>1, <4>2, <4>3
    <3>2. CASE ~t1.red[far]
      <4>1. PICK v : v = Paint(Paint(t1, near, FALSE), w1, TRUE)
        OBVIOUS
      <4>2. near \in M \cup {Sentinel} /\ near # w1
        BY <1>4, <1>7 DEF Joined, near
      <4>3. Recoloured(v, t1, w1, near)
        BY <1>4, <1>5, <1>7, <4>1, <4>2, TwoPaint DEF All
      <4>4. t2 = Rotate(v, Mirror(s), w1)
        BY <3>2, <4>1 DEF t2
      <4>5. near = t1.child[s][w1] /\ t1.red[near] /\ ~t1.red[t1.child[Mirror(s)][w1]]
        BY <1>9, <3>2 DEF near, far
      <4>6. /\ Rotate(v, Mirror(s), w1) \in Trees
            /\ \E f : Fits(Rotate(v, Mirror(s), w1), M, k, f, p, s)
            /\ ShortAt(Rotate(v, Mirror(s), w1), M, cur, p, s, near)
            /\ Rotate(v, Mirror(s), w1).child[Mirror(s)][p] = near
            /\ ~Rotate(v, Mirror(s), w1).red[near]
            /\ Rotate(v, Mirror(s), w1).child[Mirror(s)][near] = w1
            /\ Rotate(v, Mirror(s), w1).red[w1]
        BY <1>5, <1>6, <4>3, <4>5, FarIsRed
      <4>7. w2 = near
        BY <4>4, <4>6 DEF w2
      <4>8. last = w1
        BY <4>4, <4>6, <4>7 DEF last
      <4> QED
        BY <4>4, <4>6, <4>7, <4>8
    <3> QED
      BY <3>1, <3>2
  <2>2. PICK f : Fits(t2, M, k, f, p, s)
    BY <2>1
  <2>3. Joined(t2, M) /\ w2 \in M
    BY <2>1, <2>2, FitsJoined DEF ShortAt
  <2>4. w2 \in All /\ p \in All /\ last \in All
    BY <1>4, <2>3 DEF Joined, All, last
  <2>5. LastPainted(t3, t2, p, w2, last)
    BY <2>1, <2>4, LastPaint DEF t3
  <2>6. last = t2.child[Mirror(s)][w2]
    BY DEF last
  <2>7. Rotate(t3, s, p) \in Trees /\ Sound(Rotate(t3, s, p), M, k, "delete", Rotate(t3, s, p).root)
    BY <2>1, <2>2, <2>5, <2>6, BlackIsBack
  <2>8. tree' = Rotate(t3, s, p) /\ cur' = tree'.root /\ loop' = "delete" /\ key' = key
    BY <1>1, <1>9
  <2> QED
    BY <2>7, <2>8 DEF Climbs
<1> QED
  BY <1>8, <1>9

\* A pass that recolours moves the two reds up and breaks nothing else.
LEMMA RecolourSound ==
    ASSUME NEW M, NEW k, tree \in Trees, Sound(tree, M, k, loop, cur), Recolour
    PROVE  tree' \in Trees /\ Sound(tree', M, k, loop', cur')
<1>1. PICK P, G, S, U :
        /\ P = tree.parent[cur] /\ G = tree.parent[P] /\ S = SideOf(tree, P) /\ U = tree.child[Mirror(S)][G]
        /\ loop = "insert" /\ TwoReds(tree, cur) /\ tree.red[U]
        /\ tree' = Paint(Paint(Paint(tree, P, FALSE), U, FALSE), G, TRUE)
        /\ cur' = G
        /\ UNCHANGED <<key, now, loop>>
  BY DEF Recolour, Parent, Grand, Side, Uncle
<1>2. PICK h, p, q : Fits(tree, M, k, h, p, q) /\ Colours(tree, M, "insert", cur) /\ At(tree, M, "insert", cur, p, q)
  BY <1>1 DEF Sound
<1>3. p = NULL /\ cur \in M /\ tree.red[cur]
  BY <1>2 DEF At
<1>4. Joined(tree, M)
  BY <1>2, FitsJoined
<1>5. TwoRedsAt(tree, M, cur, P, G, S, U)
  BY <1>1, <1>2, <1>3, <1>4, InsertSees
<1>6. P \in All /\ U \in All /\ G \in All
  BY <1>4, <1>5 DEF TwoRedsAt, Joined, All
<1>7. ThreePainted(tree', tree, P, U, G)
  BY <1>1, <1>6, ThreePaint
<1>8. tree' \in Trees
  BY <1>7 DEF ThreePainted
<1>9. Sound(tree', M, k, "insert", G)
  BY <1>1, <1>2, <1>3, <1>5, <1>7, RecolourFits
<1> QED
  BY <1>1, <1>8, <1>9

\* A pass that rotates ends the loop: no two reds are left.
LEMMA RebalanceSound ==
    ASSUME NEW M, NEW k, tree \in Trees, Orders(k, M), Sound(tree, M, k, loop, cur), Rebalance
    PROVE  tree' \in Trees /\ Sound(tree', M, k, loop', cur') /\ ~TwoReds(tree', cur')
<1>1. PICK P, G, S, U, n, t, p, g :
        /\ P = tree.parent[cur] /\ G = tree.parent[P] /\ S = SideOf(tree, P) /\ U = tree.child[Mirror(S)][G]
        /\ loop = "insert" /\ TwoReds(tree, cur) /\ ~tree.red[U]
        /\ n = IF cur = tree.child[Mirror(S)][P] THEN P ELSE cur
        /\ t = IF cur = tree.child[Mirror(S)][P] THEN Rotate(tree, S, P) ELSE tree
        /\ p = t.parent[n] /\ g = t.parent[p]
        /\ tree' = Rotate(Paint(Paint(t, p, FALSE), g, TRUE), Mirror(S), g)
        /\ cur' = n
        /\ UNCHANGED <<key, now, loop>>
  BY DEF Rebalance, Parent, Grand, Side, Uncle
<1>2. PICK h, a, q : Fits(tree, M, k, h, a, q) /\ Colours(tree, M, "insert", cur) /\ At(tree, M, "insert", cur, a, q)
  BY <1>1 DEF Sound
<1>3. a = NULL /\ cur \in M /\ tree.red[cur]
  BY <1>2 DEF At
<1>4. Joined(tree, M)
  BY <1>2, FitsJoined
<1>5. TwoRedsAt(tree, M, cur, P, G, S, U)
  BY <1>1, <1>2, <1>3, <1>4, InsertSees
<1>6. PICK f, c : /\ t \in Trees /\ Fits(t, M, k, f, a, q) /\ TwoRedsAt(t, M, n, c, G, S, U)
                  /\ ~t.red[U] /\ t.child[S][c] = n
  <2>1. CASE cur = tree.child[Mirror(S)][P]
    <3>1. t = Rotate(tree, S, P) /\ n = P
      BY <1>1, <2>1
    <3>3. ~tree.red[U]
      BY <1>1
    <3>2. /\ Rotate(tree, S, P) \in Trees
          /\ \E f : Fits(Rotate(tree, S, P), M, k, f, a, q)
          /\ TwoRedsAt(Rotate(tree, S, P), M, P, cur, G, S, U)
          /\ ~Rotate(tree, S, P).red[U]
          /\ Rotate(tree, S, P).child[S][cur] = P
      BY <1>2, <1>3, <1>5, <2>1, <3>3, InnerFits
    <3> QED
      BY <3>1, <3>2
  <2>2. CASE cur # tree.child[Mirror(S)][P]
    <3>1. t = tree /\ n = cur
      BY <1>1, <2>2
    <3>2. SideOf(tree, cur) \in Sides /\ tree.child[SideOf(tree, cur)][P] = cur
      <4>1. cur \in M \ {tree.root} /\ tree.parent[cur] = P
        BY <1>5 DEF TwoRedsAt
      <4>2. tree.child[SideOf(tree, cur)][tree.parent[cur]] = cur
        BY <1>4, <4>1 DEF Joined
      <4> QED
        BY <4>1, <4>2, SidesAre
    <3>3. tree.child[S][P] = cur
      BY <1>5, <2>2, <3>2, SidesAre DEF TwoRedsAt
    <3> QED
      BY <1>1, <1>2, <1>5, <3>1, <3>3
  <2> QED
    BY <2>1, <2>2
<1>7. p = c /\ g = G /\ c \in All /\ G \in All /\ c # G /\ ~t.red[G]
  BY <1>1, <1>4, <1>6 DEF TwoRedsAt, Joined, All
<1>8. PICK v : v = Paint(Paint(t, c, FALSE), G, TRUE)
  OBVIOUS
<1>9. Recoloured(v, t, G, c)
  BY <1>6, <1>7, <1>8, TwoPaint
<1>10. tree' = Rotate(v, Mirror(S), G)
  BY <1>1, <1>7, <1>8
<1>11. /\ Rotate(v, Mirror(S), G) \in Trees /\ Sound(Rotate(v, Mirror(S), G), M, k, "insert", n)
       /\ ~TwoReds(Rotate(v, Mirror(S), G), n)
  BY <1>3, <1>6, <1>9, OuterFits
<1> QED
  BY <1>1, <1>10, <1>11

-----------------------------------------------------------------------------
(* Insertion                                                               *)

\* The leaf is where the search ends, and that is where it belongs.
LEMMA LeafSorted ==
    ASSUME NEW t \in Trees, NEW B, Describes(t, B), NEW k, Sorted(t, B, k),
           NEW way \in [Nodes -> Sides], NEW p \in B[t.root], OnPath(t, B, way, t.root, p),
           t.child[way[p]][p] = Sentinel,
           NEW n \in Nodes \ B[t.root], NEW u, LeafPut(u, t, way[p], p, n),
           NEW key1, \A m \in B[t.root] : key1[m] = k[m],
           \A m \in B[t.root] : way[m] = IF Before(key1[n], k[m]) THEN "left" ELSE "right",
           Orders(key1, B[t.root] \cup {n})
    PROVE  Sorted(u, Grown(B, p, n), key1)
<1> DEFINE M == B[t.root]
<1>1. /\ M \subseteq Nodes /\ Sentinel \notin Nodes /\ B \in [All -> SUBSET Nodes] /\ B[Sentinel] = {}
      /\ n \notin M
  BY NodeAssumption DEF Describes, Trees, All
<1>2. \A m \in M : n \notin B[m] /\ B[m] \subseteq M
  BY <1>1, Nested
<1>3. PICK C : C = Grown(B, p, n)
  OBVIOUS
<1>4. /\ C[n] = {n}
      /\ \A m \in All \ {n} : C[m] = IF p \in B[m] THEN B[m] \cup {n} ELSE B[m]
  BY <1>1, <1>3 DEF Grown, All
<1>5. C[u.root] = M \cup {n}
  <2>1. way[p] \in Sides /\ p \in M /\ n \in Nodes \ M /\ t.child[way[p]][p] = Sentinel
    BY <1>1
  <2> QED
    BY <1>3, <2>1, LeafShape
<1>6. \A q \in Sides, m \in All :
          u.child[q][m] = IF m = n THEN Sentinel ELSE IF q = way[p] /\ m = p THEN n ELSE t.child[q][m]
  BY DEF LeafPut
<1>7. ASSUME NEW a \in M, NEW s \in Sides, NEW m \in C[u.child[s][a]] PROVE MayLie(key1, s, m, a)
  <2>1. /\ a \in All \ {n} /\ a \in Nodes /\ t.child[s][a] \in All \ {n} /\ B[t.child[s][a]] \subseteq B[a]
        /\ a \notin B[t.child[s][a]] /\ B[a] \subseteq M
    <3>1. t.child[s][a] \in All /\ (t.child[s][a] # Sentinel => t.child[s][a] \in M) /\ B[t.child[s][a]] \subseteq B[a]
      BY ChildBelow
    <3>2. a \notin B[t.child[s][a]]
      BY DEF Describes
    <3> QED
      BY <1>1, <1>2, <3>1, <3>2 DEF All
  <2>2. CASE m \in B[t.child[s][a]]
    <3>1. MayLie(k, s, m, a) /\ m \in M
      BY <2>1, <2>2 DEF Sorted
    <3> QED
      BY <3>1 DEF MayLie
  <2>3. CASE m \notin B[t.child[s][a]]
    <3>1. m = n /\ s = way[a]
      <4>1. CASE s = way[p] /\ a = p
        <5>1. u.child[s][a] = n
          BY <1>6, <2>1, <4>1
        <5> QED
          BY <1>4, <1>7, <4>1, <5>1
      <4>2. CASE ~(s = way[p] /\ a = p)
        <5>1. u.child[s][a] = t.child[s][a]
          BY <1>6, <2>1, <4>2
        <5>2. m = n /\ p \in B[t.child[s][a]]
          BY <1>4, <1>7, <2>1, <2>3, <5>1
        <5>3. p \in B[a] /\ p # a
          BY <2>1, <5>2
        <5>4. p \in B[t.child[way[a]][a]]
          BY <5>3 DEF OnPath
        <5>5. B[t.child["left"][a]] \cap B[t.child["right"][a]] = {}
          BY DEF Describes
        <5>6. way[a] \in Sides
          BY <2>1
        <5> QED
          BY <5>2, <5>4, <5>5, <5>6 DEF Sides
      <4> QED
        BY <4>1, <4>2
    <3>2. way[a] = IF Before(key1[n], k[a]) THEN "left" ELSE "right"
      OBVIOUS
    <3>3. key1[a] = k[a]
      OBVIOUS
    <3>4. Before(key1[n], key1[a]) => ~Before(key1[a], key1[n])
      BY DEF Orders
    <3> QED
      BY <3>1, <3>2, <3>3, <3>4 DEF MayLie
  <2> QED
    BY <2>2, <2>3
<1>8. ASSUME NEW s \in Sides, NEW m \in C[u.child[s][n]] PROVE FALSE
  <2>1. u.child[s][n] = Sentinel
    BY <1>6 DEF All
  <2>2. C[Sentinel] = {}
    BY <1>1, <1>4 DEF All
  <2> QED
    BY <1>8, <2>1, <2>2
<1>9. Sorted(u, C, key1)
  BY <1>5, <1>7, <1>8 DEF Sorted
<1> QED
  BY <1>3, <1>9

\* The first node
LEMMA FirstNode ==
    ASSUME NEW n \in Nodes, NEW u \in Trees, u.root = n, ~u.red[n], ~u.red[Sentinel],
           \A q \in Sides : u.child[q][n] = Sentinel, NEW k, NEW d
    PROVE  Sound(u, {n}, k, "none", d)
<1>1. PICK C : C = [m \in All |-> IF m = n THEN {n} ELSE {}]
  OBVIOUS
<1>2. Sentinel \notin Nodes
  BY NodeAssumption
<1>3. /\ C \in [All -> SUBSET Nodes] /\ C[Sentinel] = {} /\ C[n] = {n}
  BY <1>1, <1>2 DEF All
<1>4. Describes(u, C)
  BY <1>2, <1>3 DEF Describes, Sides
<1>5. Sorted(u, C, k)
  BY <1>3 DEF Sorted
<1>6. PICK h : h = [m \in All |-> IF m = n THEN 1 ELSE 0]
  OBVIOUS
<1>7. h \in [All -> Nat] /\ h[Sentinel] = 0 /\ h[n] = 1
  BY <1>2, <1>6 DEF All
<1>8. NULL # n
  BY NodeAssumption
<1>9. Even(u, {n}, h, NULL, "left")
  <2>1. ASSUME NEW s \in Sides PROVE h[n] = h[u.child[s][n]] + Weight(u, n) + IF n = NULL /\ s = "left" THEN 1 ELSE 0
    BY <1>7, <1>8 DEF Weight
  <2> QED
    BY <1>7, <2>1 DEF Even
<1>10. Colours(u, {n}, "none", d) /\ At(u, {n}, "none", d, NULL, "left")
  BY DEF Colours, At
<1>11. Fits(u, {n}, k, h, NULL, "left")
  BY <1>3, <1>4, <1>5, <1>9 DEF Fits
<1> QED
  BY <1>10, <1>11 DEF Sound

\* The next node becomes a red leaf, and the loop starts at it.
LEMMA NextNode ==
    ASSUME NEW t \in Trees, NEW M, NEW c, Sound(t, M, key, "none", c), t.root # Sentinel,
           NEW n \in Nodes \ M, NEW kn, NEW key1, key1[n] = kn, \A m \in M : key1[m] = key[m],
           Orders(key1, M \cup {n})
    PROVE  Place(t, n, kn) \in Trees /\ Sound(Place(t, n, kn), M \cup {n}, key1, "insert", n)
<1>1. PICK h, p0, q : Fits(t, M, key, h, p0, q) /\ Colours(t, M, "none", c) /\ At(t, M, "none", c, p0, q)
  BY DEF Sound
<1>2. Joined(t, M) /\ p0 = NULL
  BY <1>1, FitsJoined DEF At
<1>3. PICK B : Describes(t, B) /\ B[t.root] = M /\ Sorted(t, B, key)
  BY <1>1 DEF Fits
<1>4. PICK way : way = [m \in Nodes |-> IF Before(kn, key[m]) THEN "left" ELSE "right"]
  OBVIOUS
<1>5. way \in [Nodes -> Sides]
  BY <1>4 DEF Sides
<1>6. PICK p : p = Last(t, way, t.root)
  OBVIOUS
<1>7. PICK u : u = Leaf(t, way[p], p, n)
  OBVIOUS
<1>8. u = Place(t, n, kn)
  BY <1>4, <1>6, <1>7 DEF Place
<1>9. t.root \in M /\ M \subseteq Nodes /\ Sentinel \notin Nodes /\ NULL \notin Nodes
  BY <1>2 DEF Joined
<1>10. p \in M /\ t.child[way[p]][p] = Sentinel /\ OnPath(t, B, way, t.root, p)
  BY <1>3, <1>5, <1>6, <1>9, LastIs
<1>11. p \in Nodes /\ p # n /\ way[p] \in Sides /\ way[p] \in {"left", "right"}
  BY <1>5, <1>9, <1>10 DEF Sides
<1>12. LeafPut(u, t, way[p], p, n)
  BY <1>7, <1>11, LeafIs
<1>13. Describes(u, Grown(B, p, n)) /\ Grown(B, p, n)[u.root] = M \cup {n}
  <2>1. p \in B[t.root] /\ n \in Nodes \ B[t.root]
    BY <1>3, <1>10
  <2> QED
    BY <1>3, <1>10, <1>11, <1>12, <2>1, LeafShape
<1>14. Sorted(u, Grown(B, p, n), key1)
  <2>1. /\ p \in B[t.root] /\ n \in Nodes \ B[t.root] /\ \A m \in B[t.root] : key1[m] = key[m]
        /\ Orders(key1, B[t.root] \cup {n})
    BY <1>3, <1>10
  <2>2. \A m \in B[t.root] : way[m] = IF Before(key1[n], key[m]) THEN "left" ELSE "right"
    BY <1>3, <1>4, <1>9
  <2> QED
    BY <1>3, <1>5, <1>10, <1>12, <2>1, <2>2, LeafSorted
<1>15. /\ u \in Trees /\ u.root = t.root
       /\ u.red[n] /\ \A m \in All \ {n} : u.red[m] = t.red[m]
       /\ \A s \in Sides : u.child[s][n] = Sentinel
       /\ \A s \in Sides, m \in M : u.child[s][m] = IF s = way[p] /\ m = p THEN n ELSE t.child[s][m]
  BY <1>9, <1>12 DEF LeafPut, All
<1>16. /\ h \in [All -> Nat] /\ h[Sentinel] = 0
       /\ \A a \in M, s \in Sides : h[a] = h[t.child[s][a]] + Weight(t, a)
  BY <1>1, <1>2, FitsEven
<1>17. PICK g : g = [h EXCEPT ![n] = 0]
  OBVIOUS
<1>18. g \in [All -> Nat] /\ g[n] = 0 /\ g[Sentinel] = 0 /\ \A m \in All \ {n} : g[m] = h[m]
  BY <1>9, <1>16, <1>17 DEF All
<1>19. ASSUME NEW a \in M \cup {n}, NEW s \in Sides
       PROVE  g[a] = g[u.child[s][a]] + Weight(u, a) + IF a = NULL /\ s = q THEN 1 ELSE 0
  <2>1. a # NULL
    BY <1>9
  <2>2. CASE a = n
    <3>1. Weight(u, a) = 0 /\ g[u.child[s][a]] = 0 /\ g[a] = 0
      BY <1>15, <1>18, <2>2 DEF Weight
    <3> QED
      BY <2>1, <3>1
  <2>3. CASE a # n
    <3>1. a \in M /\ g[a] = h[a] /\ Weight(u, a) = Weight(t, a)
      BY <1>9, <1>15, <1>18, <2>3 DEF Weight, All
    <3>2. t.child[s][a] \in All \ {n}
      BY <1>2, <1>9, <3>1 DEF Joined, All
    <3>3. g[u.child[s][a]] = h[t.child[s][a]]
      BY <1>10, <1>15, <1>16, <1>18, <3>1, <3>2
    <3>4. h[a] = h[t.child[s][a]] + Weight(t, a) /\ h[t.child[s][a]] \in Nat /\ Weight(t, a) \in Nat
      BY <1>16, <3>1, <3>2 DEF Weight
    <3> QED
      BY <2>1, <3>1, <3>3, <3>4
  <2> QED
    BY <2>2, <2>3
<1>20. Fits(u, M \cup {n}, key1, g, NULL, q)
  <2>1. Even(u, M \cup {n}, g, NULL, q)
    BY <1>18, <1>19 DEF Even
  <2> QED
    BY <1>13, <1>14, <2>1 DEF Fits
<1>21. Colours(u, M \cup {n}, "insert", n)
  <2>1. ~u.red[Sentinel] /\ ~u.red[u.root]
    BY <1>1, <1>9, <1>15 DEF Colours, All
  <2>2. ASSUME NEW a \in M \cup {n}, NEW s \in Sides, u.red[a], u.red[u.child[s][a]] PROVE u.child[s][a] = n
    <3>1. a # n
      BY <1>15, <2>1, <2>2
    <3>2. a \in M /\ t.red[a] /\ t.child[s][a] \in All
      BY <1>2, <1>9, <1>15, <2>2, <3>1 DEF Joined, All
    <3>3. ~t.red[t.child[s][a]]
      BY <1>1, <3>2 DEF Colours
    <3> QED
      BY <1>15, <2>2, <3>2, <3>3
  <2> QED
    BY <2>1, <2>2 DEF Colours
<1>22. At(u, M \cup {n}, "insert", n, NULL, q)
  BY <1>15 DEF At
<1> QED
  BY <1>8, <1>15, <1>20, <1>21, <1>22 DEF Sound

\* The nodes of the tree are those it is sound for.
LEMMA MembersAre ==
    ASSUME NEW t \in Trees, NEW M, NEW k, NEW l, NEW c, Sound(t, M, k, l, c)
    PROVE  Below(t, t.root) = M
<1>1. PICK B : Describes(t, B) /\ B[t.root] = M
  BY DEF Sound, Fits
<1>2. t.root \in B[t.root] \cup {Sentinel}
  BY <1>1 DEF Describes
<1> QED
  BY <1>1, <1>2, BelowIs

\* A loop is at a node or at the sentinel.
LEMMA LoopNode ==
    ASSUME NEW t \in Trees, NEW M, NEW k, NEW l, NEW c, Sound(t, M, k, l, c)
    PROVE  /\ M \subseteq Nodes /\ l \in {"none", "insert", "delete"}
           /\ l # "none" => c \in M \cup {Sentinel}
<1>1. PICK h, p, q : Fits(t, M, k, h, p, q) /\ At(t, M, l, c, p, q)
  BY DEF Sound
<1>2. Joined(t, M)
  BY <1>1, FitsJoined
<1>3. l = "delete" => c \in M \cup {Sentinel}
  BY <1>1, <1>2 DEF At, Joined
<1> QED
  BY <1>1, <1>2, <1>3 DEF At, Joined

\* A timer for ms from now fits into the window.
LEMMA InsertWindow ==
    ASSUME NEW M \in SUBSET Nodes, key \in [Nodes -> Keys], now \in Keys, InWindow(key, now, M),
           NEW n \in Nodes, NEW ms \in 0..MaxDelay, Insert(n, ms)
    PROVE  /\ key'[n] = (now + ms) % KeyRange
           /\ \A m \in M \ {n} : key'[m] = key[m]
           /\ key' \in [Nodes -> Keys] /\ now' \in Keys /\ InWindow(key', now', M \cup {n})
<1>1. PICK kn : kn = (now + ms) % KeyRange
  OBVIOUS
<1>2. key' = [key EXCEPT ![n] = kn] /\ now' = now
  BY <1>1 DEF Insert
<1>3. ms \in Delays /\ kn = KeyAt(now, ms)
  BY <1>1, WidthAssumption DEF Delays, KeyAt
<1>4. kn \in Keys
  BY <1>3, BeforeIs
<1>5. key'[n] = kn /\ \A m \in Nodes \ {n} : key'[m] = key[m]
  BY <1>2
<1>6. ASSUME NEW m \in M \cup {n} PROVE \E d \in Delays : key'[m] = KeyAt(now', d)
  BY <1>2, <1>3, <1>5 DEF InWindow
<1> QED
  BY <1>1, <1>2, <1>4, <1>5, <1>6 DEF InWindow

\* Insertion up to its loop: the new node is the only defect of the tree.
LEMMA InsertSound ==
    ASSUME NEW M \in SUBSET Nodes, tree \in Trees, Sound(tree, M, key, loop, cur),
           NEW n \in Nodes \ M, NEW ms, Insert(n, ms),
           key'[n] = (now + ms) % KeyRange, \A m \in M : key'[m] = key[m], Orders(key', M \cup {n})
    PROVE  tree' \in Trees /\ Sound(tree', M \cup {n}, key', loop', cur')
<1>1. loop = "none"
  BY DEF Insert
<1>2. CASE tree.root = Sentinel
  <2>1. /\ tree' = [tree EXCEPT !.root = n, !.parent[n] = NULL, !.red[n] = FALSE,
                                !.child["left"][n] = Sentinel, !.child["right"][n] = Sentinel]
        /\ loop' = loop /\ cur' = cur
    BY <1>2 DEF Insert
  <2>2. n \in All /\ Sentinel \in All /\ n # Sentinel /\ NULL \in Pointers /\ Sentinel \in Pointers
    BY NodeAssumption DEF All, Pointers
  <2>3. /\ tree' \in Trees /\ tree'.root = n /\ ~tree'.red[n] /\ tree'.red[Sentinel] = tree.red[Sentinel]
        /\ \A q \in Sides : tree'.child[q][n] = Sentinel
    BY <2>1, <2>2 DEF Trees, Sides, All
  <2>4. ~tree.red[Sentinel] /\ M = {}
    BY <1>2, FitsJoined DEF Sound, Colours, Joined
  <2>5. Sound(tree', {n}, key', "none", cur')
    BY <2>3, <2>4, FirstNode
  <2> QED
    BY <1>1, <2>1, <2>3, <2>4, <2>5
<1>3. CASE tree.root # Sentinel
  <2>1. PICK kn : kn = (now + ms) % KeyRange
    OBVIOUS
  <2>2. tree' = Place(tree, n, kn) /\ loop' = "insert" /\ cur' = n
    BY <1>3, <2>1 DEF Insert
  <2>3. Place(tree, n, kn) \in Trees /\ Sound(Place(tree, n, kn), M \cup {n}, key', "insert", n)
    BY <1>1, <1>3, <2>1, NextNode
  <2> QED
    BY <2>2, <2>3
<1> QED
  BY <1>2, <1>3

-----------------------------------------------------------------------------
(* Deletion                                                                *)

\* x has no child but c, or none at all (and c is the sentinel).
OnlyBelow(t, x, c) == \E q \in Sides : c = t.child[q][x] /\ t.child[Mirror(q)][x] = Sentinel

\* A tree that no loop is at
Calm(t, B, M, k, h) ==
    /\ t \in Trees /\ Describes(t, B) /\ B[t.root] = M /\ Sorted(t, B, k)
    /\ h \in [All -> Nat] /\ h[Sentinel] = 0
    /\ \A a \in M, s \in Sides : h[a] = h[t.child[s][a]] + Weight(t, a)
    /\ ~t.red[Sentinel] /\ ~t.red[t.root]
    /\ \A a \in M, s \in Sides : t.red[a] => ~t.red[t.child[s][a]]

\* x leaves its place to c.
Leaves(t, B, M, k, h, x, c, u) ==
    /\ Calm(t, B, M, k, h)
    /\ x \in M \ {t.root} /\ OnlyBelow(t, x, c)
    /\ Bridged(u, t, x, c)

\* Where x was and what is there now
LEMMA BridgeNodes ==
    ASSUME NEW t, NEW B, NEW M, NEW k, NEW h, NEW x, NEW c, NEW u, Leaves(t, B, M, k, h, x, c, u),
           NEW p, p = t.parent[x], NEW z, z = SideOf(t, x)
    PROVE  /\ M \subseteq Nodes /\ Sentinel \notin Nodes /\ t.root \in M /\ t.root # Sentinel
           /\ u \in Trees /\ u.root = t.root /\ u.red = t.red
           /\ p \in M \ {x} /\ z \in Sides /\ t.child[z][p] = x
           /\ c \in (M \ {t.root, x, p}) \cup {Sentinel}
           /\ B[x] = {x} \cup B[c] /\ x \notin B[c] /\ B[c] \subseteq M
           /\ h[x] = h[c] + Weight(t, x)
           /\ u.child[z][p] = c /\ u.parent[c] = p
           /\ \A a \in M \ {x}, q \in Sides : ~(a = p /\ q = z) =>
                 u.child[q][a] = t.child[q][a] /\ t.child[q][a] # x
<1>1. /\ t \in Trees /\ Describes(t, B) /\ B[t.root] = M /\ x \in M \ {t.root}
      /\ \A a \in M, s \in Sides : h[a] = h[t.child[s][a]] + Weight(t, a)
  BY DEF Leaves, Calm
<1>2. PICK q0 \in Sides : c = t.child[q0][x] /\ t.child[Mirror(q0)][x] = Sentinel
  BY DEF Leaves, Calm, OnlyBelow
<1>3. Bridged(u, t, x, c)
  BY DEF Leaves, Calm
<1>4. M \subseteq Nodes /\ Sentinel \notin Nodes /\ t.root \in M /\ t.root # Sentinel /\ B[Sentinel] = {}
  BY <1>1, NodeAssumption DEF Describes, Trees, All
<1>5. p \in M \ {x} /\ z \in Sides /\ t.child[z][p] = x
  BY <1>1, ParentIs, SidesAre
<1>6. c # Sentinel => c \in M \ {t.root} /\ t.parent[c] = x /\ c \in B[c]
  BY <1>1, <1>2, ParentIs, ChildBelow
<1>7. B[x] = {x} \cup B[c] /\ x \notin B[c]
  <2>1. /\ B[x] = {x} \cup B[t.child["left"][x]] \cup B[t.child["right"][x]]
        /\ x \notin B[t.child[q0][x]]
    BY <1>1 DEF Describes
  <2>2. (q0 = "left" /\ Mirror(q0) = "right") \/ (q0 = "right" /\ Mirror(q0) = "left")
    BY DEF Sides, Mirror
  <2> QED
    BY <1>2, <1>4, <2>1, <2>2
<1>8. B[x] \subseteq M
  BY <1>1, Nested
<1>9. c # x /\ c # p
  <2>1. p \notin B[x]
    BY <1>1, <1>5 DEF Describes
  <2> QED
    BY <1>4, <1>5, <1>6, <1>7, <2>1
<1>10. h[x] = h[c] + Weight(t, x)
  BY <1>1, <1>2
<1>11. /\ u \in Trees /\ u.root = t.root /\ u.red = t.red /\ u.parent[c] = p /\ u.child[z][p] = c
       /\ \A q \in Sides, a \in All : ~(a = p /\ q = z) => u.child[q][a] = t.child[q][a]
  <2>1. c \in All /\ p \in All
    BY <1>4, <1>5, <1>6 DEF All
  <2> QED
    BY <1>3, <1>5, <2>1 DEF Bridged
<1>12. ASSUME NEW a \in M \ {x}, NEW q \in Sides, ~(a = p /\ q = z)
       PROVE  u.child[q][a] = t.child[q][a] /\ t.child[q][a] # x
  <2>1. t.child[q][a] # Sentinel => t.parent[t.child[q][a]] = a /\ SideOf(t, t.child[q][a]) = q
    BY <1>1, ParentIs
  <2>2. a \in All /\ x # Sentinel
    BY <1>1, <1>4 DEF All
  <2> QED
    BY <1>11, <1>12, <2>1, <2>2
<1> QED
  BY <1>4, <1>5, <1>6, <1>7, <1>8, <1>9, <1>10, <1>11, <1>12

\* What is left of the tree, which is one black short below p if x is black
Left(u, B, M, k, h, l, c, p, z) ==
    /\ u \in Trees /\ Describes(u, B) /\ B[u.root] = M /\ Sorted(u, B, k)
    /\ Even(u, M, h, p, z) /\ Colours(u, M, l, c) /\ At(u, M, l, c, p, z)

\* A node with one child leaves: the tree fits, or is one black short where it was.
LEMMA BridgeSound ==
    ASSUME NEW t, NEW B, NEW M, NEW k, NEW h, NEW x, NEW c, NEW u, Leaves(t, B, M, k, h, x, c, u)
    PROVE  IF t.red[x] THEN Left(u, Without(B, x), M \ {x}, k, h, "none", c, NULL, SideOf(t, x))
                       ELSE Left(u, Without(B, x), M \ {x}, k, h, "delete", c, t.parent[x], SideOf(t, x))
<1>1. PICK p, z : p = t.parent[x] /\ z = SideOf(t, x)
  OBVIOUS
<1>2. /\ t \in Trees /\ Describes(t, B) /\ B[t.root] = M /\ Sorted(t, B, k)
      /\ x \in M \ {t.root} /\ OnlyBelow(t, x, c) /\ Bridged(u, t, x, c)
  BY DEF Leaves, Calm
<1>3. /\ h \in [All -> Nat] /\ h[Sentinel] = 0
      /\ \A a \in M, s \in Sides : h[a] = h[t.child[s][a]] + Weight(t, a)
      /\ ~t.red[Sentinel] /\ ~t.red[t.root]
      /\ \A a \in M, s \in Sides : t.red[a] => ~t.red[t.child[s][a]]
  BY DEF Leaves, Calm
<1>4. /\ M \subseteq Nodes /\ Sentinel \notin Nodes /\ t.root \in M /\ t.root # Sentinel
      /\ u \in Trees /\ u.root = t.root /\ u.red = t.red
      /\ p \in M \ {x} /\ z \in Sides /\ t.child[z][p] = x
      /\ c \in (M \ {t.root, x, p}) \cup {Sentinel}
      /\ B[x] = {x} \cup B[c] /\ x \notin B[c] /\ B[c] \subseteq M
      /\ h[x] = h[c] + Weight(t, x)
      /\ u.child[z][p] = c /\ u.parent[c] = p
  BY <1>1, BridgeNodes
<1>5. \A a \in M \ {x}, q \in Sides : ~(a = p /\ q = z) =>
                 u.child[q][a] = t.child[q][a] /\ t.child[q][a] # x
  BY <1>1, BridgeNodes
<1>6. Describes(u, Without(B, x)) /\ Without(B, x)[u.root] = M \ {x}
  BY <1>2, BridgedShape DEF OnlyBelow
<1>7. Sorted(u, Without(B, x), k)
  <2>1. ASSUME NEW a \in M \ {x}, NEW s \in Sides, NEW m \in Without(B, x)[u.child[s][a]]
        PROVE  MayLie(k, s, m, a)
    <3>1. t.child[s][a] \in All /\ c \in All
      BY <1>2, <1>4, ChildBelow DEF All
    <3>2. m \in B[t.child[s][a]]
      <4>1. CASE a = p /\ s = z
        <5>1. m \in B[c]
          BY <1>4, <2>1, <3>1, <4>1 DEF Without
        <5> QED
          BY <1>4, <4>1, <5>1
      <4>2. CASE ~(a = p /\ s = z)
        BY <1>5, <2>1, <3>1, <4>2 DEF Without
      <4> QED
        BY <4>1, <4>2
    <3> QED
      BY <1>2, <3>2 DEF Sorted
  <2> QED
    BY <1>6, <2>1 DEF Sorted
<1>8. \A a \in M, s \in Sides : t.child[s][a] \in All
  BY <1>2, ChildBelow
<1>9. ASSUME NEW a \in M, NEW s \in Sides
      PROVE  h[t.child[s][a]] \in Nat /\ Weight(t, a) \in Nat /\ Weight(u, a) = Weight(t, a)
  BY <1>3, <1>4, <1>8 DEF Weight
<1>10. h[c] \in Nat /\ p # NULL
  <2>1. c \in All
    BY <1>4 DEF All
  <2> QED
    BY <1>3, <1>4, <2>1, NodeAssumption
<1>11. ASSUME t.red[x] PROVE Left(u, Without(B, x), M \ {x}, k, h, "none", c, NULL, z)
  <2>1. h[x] = h[c]
    BY <1>4, <1>10, <1>11 DEF Weight
  <2>2. ASSUME NEW a \in M \ {x}, NEW s \in Sides
        PROVE  h[a] = h[u.child[s][a]] + Weight(u, a) + IF a = NULL /\ s = z THEN 1 ELSE 0
    <3>1. a # NULL
      BY <1>4, NodeAssumption
    <3>2. h[u.child[s][a]] = h[t.child[s][a]]
      BY <1>4, <1>5, <2>1
    <3>3. h[a] = h[t.child[s][a]] + Weight(t, a)
      BY <1>3
    <3> QED
      BY <1>9, <3>1, <3>2, <3>3
  <2>3. Even(u, M \ {x}, h, NULL, z)
    BY <1>3, <2>2 DEF Even
  <2>4. ASSUME NEW a \in M \ {x}, NEW s \in Sides, u.red[a] PROVE ~u.red[u.child[s][a]]
    <3>1. ~t.red[p]
      BY <1>3, <1>4, <1>11
    <3>2. u.child[s][a] = t.child[s][a]
      BY <1>4, <1>5, <2>4, <3>1
    <3> QED
      BY <1>3, <1>4, <2>4, <3>2
  <2>5. Colours(u, M \ {x}, "none", c) /\ At(u, M \ {x}, "none", c, NULL, z)
    BY <1>3, <1>4, <2>4 DEF Colours, At
  <2> QED
    BY <1>4, <1>6, <1>7, <2>3, <2>5 DEF Left
<1>12. ASSUME ~t.red[x] PROVE Left(u, Without(B, x), M \ {x}, k, h, "delete", c, p, z)
  <2>1. h[x] = h[c] + 1
    BY <1>4, <1>12 DEF Weight
  <2>2. ASSUME NEW a \in M \ {x}, NEW s \in Sides
        PROVE  h[a] = h[u.child[s][a]] + Weight(u, a) + IF a = p /\ s = z THEN 1 ELSE 0
    <3>1. h[a] = h[t.child[s][a]] + Weight(t, a)
      BY <1>3
    <3>2. CASE a = p /\ s = z
      <4>1. h[t.child[s][a]] = h[u.child[s][a]] + 1 /\ h[u.child[s][a]] = h[c]
        BY <1>4, <2>1, <3>2
      <4>2. Weight(t, a) \in Nat /\ Weight(u, a) = Weight(t, a)
        BY <1>9
      <4> QED
        BY <1>10, <3>1, <3>2, <4>1, <4>2
    <3>3. CASE ~(a = p /\ s = z)
      <4>1. h[u.child[s][a]] = h[t.child[s][a]]
        BY <1>5, <3>3
      <4> QED
        BY <1>9, <3>1, <3>3, <4>1
    <3> QED
      BY <3>2, <3>3
  <2>3. Even(u, M \ {x}, h, p, z)
    BY <1>3, <2>2 DEF Even
  <2>4. ASSUME NEW a \in M \ {x}, NEW s \in Sides, u.red[a], u.red[u.child[s][a]]
        PROVE  u.child[s][a] = c
    BY <1>3, <1>4, <1>5, <2>4
  <2>5. Colours(u, M \ {x}, "delete", c)
    BY <1>3, <1>4, <2>4 DEF Colours
  <2>6. At(u, M \ {x}, "delete", c, p, z)
    BY <1>4 DEF At
  <2> QED
    BY <1>4, <1>6, <1>7, <2>3, <2>5, <2>6 DEF Left
<1> QED
  BY <1>1, <1>11, <1>12

\* By its key x can be where n is.
Suits(t, B, k, n, x) ==
    /\ \A s \in Sides : \A m \in B[t.child[s][n]] : MayLie(k, s, m, x)
    /\ \A a \in B[t.root] \ {n}, s \in Sides : n \in B[t.child[s][a]] => MayLie(k, s, x, a)

\* x, a node outside the tree t, takes the place of n.  c stays where it is.
Takes(t, B, M, k, h, l, c, p, z, n, x, u) ==
    /\ Left(t, B, M, k, h, l, c, p, z)
    /\ n \in M \ {c} /\ x \in Nodes \ (M \cup {c}) /\ Suits(t, B, k, n, x)
    /\ Exchanged(u, t, n, x)
    /\ l # "insert"
    /\ l = "delete" => u.parent[c] = IF p = n THEN x ELSE p

\* The nodes and their children afterwards
LEMMA ExchangeNodes ==
    ASSUME NEW t, NEW B, NEW M, NEW k, NEW h, NEW l, NEW c, NEW p, NEW z, NEW n, NEW x, NEW u,
           Takes(t, B, M, k, h, l, c, p, z, n, x, u)
    PROVE  /\ M \subseteq Nodes /\ Sentinel \notin Nodes /\ NULL \notin Nodes /\ n \in M /\ x \in Nodes \ M /\ n # x
           /\ u \in Trees /\ u.root = IF n = t.root THEN x ELSE t.root
           /\ u.red[x] = t.red[n] /\ \A a \in All \ {x} : u.red[a] = t.red[a]
           /\ \A q \in Sides : /\ u.child[q][x] = t.child[q][n]
                               /\ t.child[q][n] \in (M \ {n, t.root}) \cup {Sentinel}
           /\ \A a \in M \ {n}, q \in Sides :
                 /\ u.child[q][a] = IF t.child[q][a] = n THEN x ELSE t.child[q][a]
                 /\ t.child[q][a] \in M \cup {Sentinel}
<1>1. /\ Left(t, B, M, k, h, l, c, p, z) /\ n \in M /\ x \in Nodes \ M /\ Exchanged(u, t, n, x)
  BY DEF Takes
<1>2. t \in Trees /\ Describes(t, B) /\ B[t.root] = M
  BY <1>1 DEF Left
<1>3. /\ M \subseteq Nodes /\ Sentinel \notin Nodes /\ NULL \notin Nodes /\ M \subseteq All /\ x \in All
  BY <1>1, <1>2, NodeAssumption DEF Describes, Trees, All
<1>4. \A a \in M, q \in Sides : /\ t.child[q][a] \in M \cup {Sentinel} /\ t.child[q][a] # a
                                /\ t.child[q][a] # Sentinel => /\ t.child[q][a] # t.root
                                                               /\ t.parent[t.child[q][a]] = a
                                                               /\ SideOf(t, t.child[q][a]) = q
  <2>1. ASSUME NEW a \in M, NEW q \in Sides PROVE t.child[q][a] # a /\ t.child[q][a] \in M \cup {Sentinel}
    BY <1>2, <1>3, ChildBelow DEF Describes
  <2> QED
    BY <1>2, <2>1, ParentIs
<1>5. \A q \in Sides, a \in All :
          u.child[q][a] = IF a = x THEN t.child[q][n]
                          ELSE IF n # t.root /\ q = SideOf(t, n) /\ a = t.parent[n] THEN x
                          ELSE t.child[q][a]
  BY <1>1 DEF Exchanged
<1>6. ASSUME NEW a \in M \ {n}, NEW q \in Sides
      PROVE  u.child[q][a] = IF t.child[q][a] = n THEN x ELSE t.child[q][a]
  <2>1. n # t.root => t.child[SideOf(t, n)][t.parent[n]] = n
    BY <1>1, <1>2, ParentIs
  <2>2. n # Sentinel /\ a # x /\ a \in All /\ a \in M
    BY <1>1, <1>3
  <2> QED
    BY <1>4, <1>5, <2>1, <2>2
<1>7. /\ u \in Trees /\ u.root = IF n = t.root THEN x ELSE t.root
      /\ u.red[x] = t.red[n] /\ \A a \in All \ {x} : u.red[a] = t.red[a]
  BY <1>1, <1>3 DEF Exchanged
<1>8. \A q \in Sides : /\ u.child[q][x] = t.child[q][n]
                       /\ t.child[q][n] \in (M \ {n, t.root}) \cup {Sentinel}
  BY <1>1, <1>3, <1>4, <1>5
<1> QED
  BY <1>1, <1>3, <1>4, <1>6, <1>7, <1>8

\* A node takes the place of n: the order, the colours and the counts stay.
LEMMA ExchangeSound ==
    ASSUME NEW t, NEW B, NEW M, NEW k, NEW h, NEW l, NEW c, NEW p, NEW z, NEW n, NEW x, NEW u,
           Takes(t, B, M, k, h, l, c, p, z, n, x, u)
    PROVE  Left(u, Swapped(B, n, x), (M \ {n}) \cup {x}, k, [h EXCEPT ![x] = h[n]], l, c,
                IF p = n THEN x ELSE p, z)
<1>1. /\ Left(t, B, M, k, h, l, c, p, z) /\ n \in M \ {c} /\ x \in Nodes \ (M \cup {c})
      /\ Suits(t, B, k, n, x) /\ Exchanged(u, t, n, x)
  BY DEF Takes
<1>2. /\ t \in Trees /\ Describes(t, B) /\ B[t.root] = M /\ Sorted(t, B, k)
      /\ Even(t, M, h, p, z) /\ Colours(t, M, l, c) /\ At(t, M, l, c, p, z)
  BY <1>1 DEF Left
<1>3. /\ M \subseteq Nodes /\ Sentinel \notin Nodes /\ NULL \notin Nodes /\ n \in M /\ x \in Nodes \ M /\ n # x
      /\ u \in Trees /\ u.root = IF n = t.root THEN x ELSE t.root
      /\ u.red[x] = t.red[n] /\ \A a \in All \ {x} : u.red[a] = t.red[a]
  BY ExchangeNodes
<1>4. \A q \in Sides : /\ u.child[q][x] = t.child[q][n]
                       /\ t.child[q][n] \in (M \ {n, t.root}) \cup {Sentinel}
  BY ExchangeNodes
<1>5. \A a \in M \ {n}, q \in Sides :
         /\ u.child[q][a] = IF t.child[q][a] = n THEN x ELSE t.child[q][a]
         /\ t.child[q][a] \in M \cup {Sentinel}
  BY ExchangeNodes
<1>6. Describes(u, Swapped(B, n, x)) /\ Swapped(B, n, x)[u.root] = (M \ {n}) \cup {x}
  BY <1>1, <1>2, ExchangedShape
<1>7. /\ n \in B[n] /\ \A q \in Sides : n \notin B[t.child[q][n]]
      /\ B \in [All -> SUBSET Nodes]
  BY <1>2, <1>3, ChildBelow, SidesAre DEF Describes
<1>8. Sorted(u, Swapped(B, n, x), k)
  <2>1. ASSUME NEW s \in Sides, NEW m \in Swapped(B, n, x)[u.child[s][x]] PROVE MayLie(k, s, m, x)
    <3>1. t.child[s][n] \in All \ {x}
      BY <1>3, <1>4 DEF All
    <3>2. m \in B[t.child[s][n]]
      BY <1>4, <1>7, <2>1, <3>1 DEF Swapped
    <3> QED
      BY <1>1, <3>2 DEF Suits
  <2>2. ASSUME NEW a \in M \ {n}, NEW s \in Sides, NEW m \in Swapped(B, n, x)[u.child[s][a]]
        PROVE  MayLie(k, s, m, a)
    <3>1. t.child[s][a] \in All \ {x} /\ x \in All
      BY <1>3, <1>5 DEF All
    <3>2. m \in B[t.child[s][a]] \/ (m = x /\ n \in B[t.child[s][a]])
      <4>1. CASE t.child[s][a] = n
        <5>1. m \in (B[n] \ {n}) \cup {x}
          BY <1>5, <2>2, <3>1, <4>1 DEF Swapped
        <5> QED
          BY <1>7, <4>1, <5>1
      <4>2. CASE t.child[s][a] # n
        BY <1>5, <2>2, <3>1, <4>2 DEF Swapped
      <4> QED
        BY <4>1, <4>2
    <3>3. CASE m \in B[t.child[s][a]]
      BY <1>2, <3>3 DEF Sorted
    <3>4. CASE m = x /\ n \in B[t.child[s][a]]
      BY <1>1, <1>2, <3>4 DEF Suits
    <3> QED
      BY <3>2, <3>3, <3>4
  <2> QED
    BY <1>6, <2>1, <2>2 DEF Sorted
<1>9. PICK g : g = [h EXCEPT ![x] = h[n]]
  OBVIOUS
<1>10. PICK w : w = IF p = n THEN x ELSE p
  OBVIOUS
<1>11. /\ g \in [All -> Nat] /\ g[Sentinel] = 0 /\ g[x] = h[n] /\ \A a \in All \ {x} : g[a] = h[a]
  <2>1. h \in [All -> Nat] /\ h[Sentinel] = 0 /\ x \in All /\ n \in All /\ x # Sentinel
    BY <1>2, <1>3 DEF Even, All
  <2> QED
    BY <1>9, <2>1 DEF All
<1>12. p # x
  <2>1. p = NULL \/ p \in M
    BY <1>2 DEF At
  <2> QED
    BY <1>3, <2>1
<1>13. ASSUME NEW a \in (M \ {n}) \cup {x}, NEW s \in Sides
       PROVE  g[a] = g[u.child[s][a]] + Weight(u, a) + IF a = w /\ s = z THEN 1 ELSE 0
  <2>1. \A b \in M : h[b] = h[t.child[s][b]] + Weight(t, b) + IF b = p /\ s = z THEN 1 ELSE 0
    BY <1>2 DEF Even
  <2>2. CASE a = x
    <3>1. h[n] = h[t.child[s][n]] + Weight(t, n) + IF n = p /\ s = z THEN 1 ELSE 0
      BY <1>3, <2>1
    <3>2. g[a] = h[n] /\ Weight(u, a) = Weight(t, n)
      BY <1>3, <1>11, <2>2 DEF Weight
    <3>3. g[u.child[s][a]] = h[t.child[s][n]]
      BY <1>3, <1>4, <1>11, <2>2 DEF All
    <3>4. a = w <=> n = p
      BY <1>10, <1>12, <2>2
    <3> QED
      BY <3>1, <3>2, <3>3, <3>4
  <2>3. CASE a # x
    <3>1. a \in M \ {n} /\ a \in All
      BY <1>3, <2>3 DEF All
    <3>2. h[a] = h[t.child[s][a]] + Weight(t, a) + IF a = p /\ s = z THEN 1 ELSE 0
      BY <2>1, <3>1
    <3>3. g[a] = h[a] /\ Weight(u, a) = Weight(t, a)
      BY <1>3, <1>11, <2>3, <3>1 DEF Weight
    <3>4. g[u.child[s][a]] = h[t.child[s][a]]
      BY <1>3, <1>5, <1>11, <3>1 DEF All
    <3>5. a = w <=> a = p
      BY <1>10, <2>3, <3>1
    <3> QED
      BY <3>2, <3>3, <3>4, <3>5
  <2> QED
    BY <2>2, <2>3
<1>14. Even(u, (M \ {n}) \cup {x}, g, w, z)
  BY <1>11, <1>13 DEF Even
<1>15. Colours(u, (M \ {n}) \cup {x}, l, c)
  <2>1. /\ ~t.red[Sentinel]
        /\ t.red[t.root] => l = "insert" /\ c = t.root
        /\ \A a \in M, s \in Sides : t.red[a] /\ t.red[t.child[s][a]] =>
             \/ l = "insert" /\ t.child[s][a] = c
             \/ l = "delete" /\ c \in {a, t.child[s][a]}
    BY <1>2 DEF Colours
  <2>2. t.root \in M /\ t.root \in All /\ Sentinel \in All
    BY <1>2, <1>3 DEF Describes, All, Trees
  <2>3. ~u.red[Sentinel] /\ (u.red[u.root] => l = "insert" /\ c = u.root)
    BY <1>1, <1>3, <2>1, <2>2
  <2>4. ASSUME NEW a \in (M \ {n}) \cup {x}, NEW s \in Sides, u.red[a], u.red[u.child[s][a]]
        PROVE  \/ l = "insert" /\ u.child[s][a] = c
               \/ l = "delete" /\ c \in {a, u.child[s][a]}
    <3>1. CASE a = x
      <4>1. t.red[n] /\ t.red[t.child[s][n]] /\ u.child[s][a] = t.child[s][n]
        BY <1>3, <1>4, <2>4, <3>1 DEF All
      <4> QED
        BY <1>1, <2>1, <4>1
    <3>2. CASE a # x
      <4>1. a \in M \ {n} /\ t.red[a]
        BY <1>3, <2>4, <3>2 DEF All
      <4>2. CASE t.child[s][a] = n
        <5>1. t.red[n]
          BY <1>3, <1>5, <2>4, <4>1, <4>2
        <5> QED
          BY <1>1, <2>1, <4>1, <4>2, <5>1
      <4>3. CASE t.child[s][a] # n
        <5>1. u.child[s][a] = t.child[s][a] /\ t.child[s][a] \in All \ {x}
          BY <1>3, <1>5, <4>1, <4>3 DEF All
        <5>2. t.red[t.child[s][a]]
          BY <1>3, <2>4, <5>1
        <5> QED
          BY <2>1, <4>1, <5>1, <5>2
      <4> QED
        BY <4>2, <4>3
    <3> QED
      BY <3>1, <3>2
  <2> QED
    BY <2>3, <2>4 DEF Colours
<1>16. l # "insert" => At(u, (M \ {n}) \cup {x}, l, c, w, z)
  <2>1. CASE l = "delete"
    <3>1. t.root # Sentinel /\ (c = t.root => p = NULL)
          /\ (c # t.root => p \in M /\ z \in Sides /\ t.child[z][p] = c /\ t.parent[c] = p)
      BY <1>2, <2>1 DEF At
    <3>2. u.root # Sentinel /\ (c = u.root <=> c = t.root)
      BY <1>1, <1>3, <3>1
    <3>3. ASSUME c # t.root
          PROVE  w \in (M \ {n}) \cup {x} /\ z \in Sides /\ u.child[z][w] = c /\ u.parent[c] = w
      <4>1. u.parent[c] = w
        BY <1>10, <2>1 DEF Takes
      <4>2. CASE p = n
        BY <1>4, <1>10, <3>1, <3>3, <4>1, <4>2
      <4>3. CASE p # n
        <5>1. w = p /\ p \in M \ {n} /\ z \in Sides /\ t.child[z][p] = c /\ c # n
          BY <1>1, <1>10, <3>1, <3>3, <4>3
        <5>2. u.child[z][p] = c
          BY <1>5, <5>1
        <5> QED
          BY <4>1, <5>1, <5>2
      <4> QED
        BY <4>2, <4>3
    <3>4. c = t.root => w = NULL
      BY <1>3, <1>10, <3>1
    <3> QED
      BY <2>1, <3>2, <3>3, <3>4 DEF At
  <2>2. CASE l = "none"
    <3>1. w = NULL
      BY <1>2, <1>3, <1>10, <2>2 DEF At
    <3> QED
      BY <2>2, <3>1 DEF At
  <2>3. l \in {"none", "insert", "delete"}
    BY <1>2 DEF At
  <2> QED
    BY <2>1, <2>2, <2>3
<1>17. l # "insert" => Left(u, Swapped(B, n, x), (M \ {n}) \cup {x}, k, g, l, c, w, z)
  BY <1>3, <1>6, <1>8, <1>14, <1>15, <1>16 DEF Left
<1>18. l # "insert"
  BY DEF Takes
<1> QED
  BY <1>9, <1>10, <1>17, <1>18

\* The last node on one side is the outermost one in order.
LEMMA FurthestOuter ==
    ASSUME NEW t \in Trees, NEW B, Describes(t, B), NEW k, Orders(k, B[t.root]), Sorted(t, B, k),
           NEW s \in Sides, NEW n \in B[t.root], NEW way, \A m \in Nodes : way[m] = s,
           NEW x, OnPath(t, B, way, n, x), t.child[s][x] = Sentinel,
           NEW m \in B[n]
    PROVE  MayLie(k, Mirror(s), m, x)
<1> DEFINE M == B[t.root]
           S == {a \in B[n] : m \in B[a] /\ x \in B[a]}
<1>1. /\ B \in [All -> SUBSET Nodes] /\ B[n] \subseteq M /\ B[Sentinel] = {} /\ M \subseteq Nodes
      /\ x \in B[n] /\ n \in B[n] /\ Mirror(s) \in Sides
  BY Nested, ChildBelow, SidesAre DEF Describes, Trees, All, OnPath
<1>2. S \in SUBSET Nodes /\ n \in S
  BY <1>1
<1> HIDE DEF S
<1>3. PICK a \in S : \A j \in S : B[j] \subseteq B[a] => B[j] = B[a]
  BY <1>1, <1>2, LeastSubtree
<1>4. a \in B[n] /\ m \in B[a] /\ x \in B[a] /\ a \in M /\ m \in M /\ x \in M
  BY <1>1, <1>3 DEF S
<1>5. B[a] = {a} \cup B[t.child[s][a]] \cup B[t.child[Mirror(s)][a]]
  <2>1. B[a] = {a} \cup B[t.child["left"][a]] \cup B[t.child["right"][a]]
    BY <1>4 DEF Describes
  <2> QED
    BY <2>1 DEF Sides, Mirror
<1>6. /\ \A q \in Sides : \A j \in B[t.child[q][a]] : MayLie(k, q, j, a)
      /\ \A i, j \in M : MayLie(k, s, i, j) <=> MayLie(k, Mirror(s), j, i)
      /\ \A i, j, l \in M : MayLie(k, Mirror(s), i, j) /\ MayLie(k, Mirror(s), j, l) => MayLie(k, Mirror(s), i, l)
  BY <1>1, <1>4, LieTransitive DEF Sorted
<1>7. MayLie(k, Mirror(s), x, x)
  BY <1>4 DEF Orders, MayLie
<1>8. CASE a = x
  BY <1>1, <1>4, <1>5, <1>6, <1>7, <1>8
<1>9. CASE a # x
  <2>1. x \in B[t.child[s][a]]
    BY <1>1, <1>4, <1>9 DEF OnPath
  <2>2. m \notin B[t.child[s][a]]
    <3>1. t.child[s][a] # Sentinel
      BY <1>1, <2>1
    <3>2. /\ t.child[s][a] \in B[t.child[s][a]] /\ B[t.child[s][a]] \subseteq B[a]
          /\ B[t.child[s][a]] # B[a]
      BY <1>4, <3>1, ChildBelow
    <3>3. B[a] \subseteq B[n]
      BY <1>4, Nested
    <3>4. m \in B[t.child[s][a]] => t.child[s][a] \in S
      BY <2>1, <3>2, <3>3 DEF S
    <3> QED
      BY <1>3, <3>2, <3>4
  <2>3. MayLie(k, Mirror(s), a, x)
    BY <1>4, <1>6, <2>1
  <2>4. m = a \/ m \in B[t.child[Mirror(s)][a]]
    BY <1>4, <1>5, <2>2
  <2> QED
    BY <1>1, <1>4, <1>6, <2>3, <2>4
<1> QED
  BY <1>8, <1>9

\* The node that follows n among those below it can take its place.
LEMMA NextSuits ==
    ASSUME NEW t, NEW B, NEW M, NEW k, NEW h, NEW x, NEW c, NEW u, Leaves(t, B, M, k, h, x, c, u),
           Orders(k, M), NEW n \in M, n # x, x \in B[t.child["right"][n]],
           \A m \in B[t.child["right"][n]] : MayLie(k, "right", m, x)
    PROVE  Suits(u, Without(B, x), k, n, x)
<1>1. PICK p, z : p = t.parent[x] /\ z = SideOf(t, x)
  OBVIOUS
<1>2. /\ t \in Trees /\ Describes(t, B) /\ B[t.root] = M /\ Sorted(t, B, k) /\ x \in M
  BY DEF Leaves, Calm
<1>3. /\ M \subseteq Nodes /\ p \in M \ {x} /\ z \in Sides /\ t.child[z][p] = x
      /\ c \in (M \ {t.root, x, p}) \cup {Sentinel}
      /\ B[x] = {x} \cup B[c] /\ u.child[z][p] = c /\ u.root = t.root
  BY <1>1, BridgeNodes
<1>4. \A a \in M \ {x}, q \in Sides : ~(a = p /\ q = z) => u.child[q][a] = t.child[q][a]
  BY <1>1, BridgeNodes
<1>5. ASSUME NEW a \in M \ {x}, NEW q \in Sides
      PROVE  Without(B, x)[u.child[q][a]] \subseteq B[t.child[q][a]]
  <2>1. t.child[q][a] \in All /\ c \in All
    BY <1>2, <1>3, ChildBelow DEF All
  <2>2. CASE a = p /\ q = z
    BY <1>3, <2>1, <2>2 DEF Without
  <2>3. CASE ~(a = p /\ q = z)
    BY <1>4, <2>1, <2>3 DEF Without
  <2> QED
    BY <2>2, <2>3
<1>6. /\ \A s \in Sides : \A i, j \in M : MayLie(k, s, i, j) <=> MayLie(k, Mirror(s), j, i)
      /\ \A s \in Sides : \A i, j, l \in M : MayLie(k, s, i, j) /\ MayLie(k, s, j, l) => MayLie(k, s, i, l)
  BY LieTransitive
<1>7. \A a \in M, s \in Sides : \A m \in B[t.child[s][a]] : MayLie(k, s, m, a)
  BY <1>2 DEF Sorted
<1>8. ASSUME NEW s \in Sides, NEW m \in Without(B, x)[u.child[s][n]] PROVE MayLie(k, s, m, x)
  <2>1. m \in B[t.child[s][n]]
    BY <1>5, <1>8
  <2>2. CASE s = "right"
    BY <2>1, <2>2
  <2>3. CASE s = "left"
    <3>1. MayLie(k, "right", x, n) /\ MayLie(k, "left", m, n)
      BY <1>7, <2>1, <2>3, SidesAre
    <3>2. MayLie(k, "left", n, x)
      BY <1>2, <1>6, <3>1, SidesAre
    <3>3. m \in M
      <4>1. B[t.child[s][n]] \subseteq B[n] /\ B[n] \subseteq M
        BY <1>2, ChildBelow, Nested
      <4> QED
        BY <2>1, <4>1
    <3> QED
      BY <1>2, <1>6, <2>3, <3>1, <3>2, <3>3
  <2> QED
    BY <2>2, <2>3 DEF Sides
<1>9. ASSUME NEW a \in (M \ {x}) \ {n}, NEW s \in Sides, n \in Without(B, x)[u.child[s][a]]
      PROVE  MayLie(k, s, x, a)
  <2>1. n \in B[t.child[s][a]]
    BY <1>5, <1>9
  <2>2. t.child[s][a] \in M
    BY <1>2, <2>1, ChildBelow DEF Describes
  <2>3. x \in B[n]
    BY <1>2, ChildBelow, SidesAre
  <2>4. x \in B[t.child[s][a]]
    BY <1>2, <2>1, <2>2, <2>3, Nested
  <2> QED
    BY <1>7, <2>4
<1>10. Without(B, x)[u.root] = M \ {x}
  <2>1. t.root \in All
    BY <1>2 DEF Trees, All
  <2> QED
    BY <1>2, <1>3, <2>1 DEF Without
<1> QED
  BY <1>8, <1>9, <1>10 DEF Suits

\* A parent pointer is set unless the child is the sentinel.
LinkSet(u, t, m, n) ==
    /\ u \in Trees /\ u.root = t.root /\ u.child = t.child /\ u.red = t.red
    /\ \A a \in All : u.parent[a] = IF a = m /\ m # Sentinel THEN n ELSE t.parent[a]

\* What Link() does
LEMMA LinkIs ==
    ASSUME NEW t \in Trees, NEW m \in All, NEW n \in Nodes
    PROVE  LinkSet(Link(t, m, n), t, m, n)
<1>1. CASE m = Sentinel
  BY <1>1 DEF Link, LinkSet
<1>2. CASE m # Sentinel
  <2>1. Link(t, m, n) = SetParent(t, m, n) /\ n \in Pointers
    BY <1>2 DEF Link, Pointers
  <2>2. ParentSet(Link(t, m, n), t, m, n)
    BY <2>1, SetParentIs
  <2> QED
    BY <1>2, <2>2 DEF ParentSet, LinkSet
<1> QED
  BY <1>1, <1>2

\* What x takes over from n
Adopted(u, t, n, x) ==
    /\ u \in Trees /\ u.root = IF n = t.root THEN x ELSE t.root
    /\ \A a \in All : u.red[a] = IF a = x THEN t.red[n] ELSE t.red[a]
    /\ \A a \in All : u.parent[a] = IF a # Sentinel /\ \E q \in Sides : a = t.child[q][n] THEN x
                                    ELSE IF a = x THEN t.parent[n] ELSE t.parent[a]
    /\ \A q \in Sides, a \in All :
          u.child[q][a] = IF n # t.root /\ q = SideOf(t, n) /\ a = t.parent[n] THEN x
                          ELSE IF a = x THEN t.child[q][n] ELSE t.child[q][a]

\* Adopt() writes just these fields, also if x is itself a child of n.
LEMMA AdoptIs ==
    ASSUME NEW t \in Trees, NEW n \in Nodes, NEW x \in Nodes \ {n},
           n # t.root => t.parent[n] \in Nodes \ {x},
           \A q \in Sides : t.child[q][n] \in All
    PROVE  Adopted(Adopt(t, n, x), t, n, x)
<1>1. PICK copied : copied = [t EXCEPT !.child["left"][x] = t.child["left"][n],
                                       !.child["right"][x] = t.child["right"][n],
                                       !.parent[x] = t.parent[n],
                                       !.red[x] = t.red[n]]
  OBVIOUS
<1>2. PICK placed : placed = Replace(copied, n, x)
  OBVIOUS
<1>3. PICK l, r : l = placed.child["left"][x] /\ r = placed.child["right"][x]
  OBVIOUS
<1>4. PICK some : some = Link(placed, l, x)
  OBVIOUS
<1>5. PICK u : u = Link(some, r, x)
  OBVIOUS
<1>6. u = Adopt(t, n, x)
  BY <1>1, <1>2, <1>3, <1>4, <1>5 DEF Adopt
<1>7. n \in All /\ x \in All /\ x \in Nodes /\ x # n /\ Sentinel \in All /\ x # Sentinel /\ t.parent[n] \in Pointers
  BY NodeAssumption DEF All, Trees
<1>8. /\ copied \in Trees /\ copied.root = t.root
      /\ \A q \in Sides, a \in All : copied.child[q][a] = IF a = x THEN t.child[q][n] ELSE t.child[q][a]
      /\ \A a \in All : copied.parent[a] = IF a = x THEN t.parent[n] ELSE t.parent[a]
      /\ \A a \in All : copied.red[a] = IF a = x THEN t.red[n] ELSE t.red[a]
  <2>1. /\ t.child["left"][n] \in Pointers /\ t.child["right"][n] \in Pointers /\ t.red[n] \in BOOLEAN
    BY <1>7, SidesAre DEF All, Pointers, Trees
  <2>2. copied \in Trees
    BY <1>1, <1>7, <2>1 DEF Trees, Sides, All
  <2>3. /\ copied.root = t.root
        /\ \A a \in All : copied.parent[a] = IF a = x THEN t.parent[n] ELSE t.parent[a]
        /\ \A a \in All : copied.red[a] = IF a = x THEN t.red[n] ELSE t.red[a]
    BY <1>1, <1>7 DEF Trees, All
  <2>4. \A q \in Sides, a \in All : copied.child[q][a] = IF a = x THEN t.child[q][n] ELSE t.child[q][a]
    BY <1>1, <1>7 DEF Trees, Sides, All
  <2> QED
    BY <2>2, <2>3, <2>4
<1>9. /\ copied.parent[n] = t.parent[n]
      /\ n # t.root => SideOf(copied, n) = SideOf(t, n)
  <2>1. copied.parent[n] = t.parent[n]
    BY <1>7, <1>8
  <2>2. ASSUME n # t.root PROVE copied.child["left"][t.parent[n]] = t.child["left"][t.parent[n]]
    <3>1. t.parent[n] \in All /\ t.parent[n] # x
      BY <2>2 DEF All
    <3> QED
      BY <1>8, <3>1, SidesAre
  <2> QED
    BY <2>1, <2>2 DEF SideOf
<1>10. Replaced(placed, copied, n, x)
  BY <1>2, <1>7, <1>8, <1>9, ReplaceIs
<1>11. /\ placed \in Trees /\ placed.root = IF n = t.root THEN x ELSE t.root
       /\ placed.parent = copied.parent /\ placed.red = copied.red
       /\ \A q \in Sides, a \in All :
             placed.child[q][a] = IF n # t.root /\ q = SideOf(t, n) /\ a = t.parent[n] THEN x
                                  ELSE IF a = x THEN t.child[q][n] ELSE t.child[q][a]
  BY <1>8, <1>9, <1>10 DEF Replaced
<1>12. l = t.child["left"][n] /\ r = t.child["right"][n] /\ l \in All /\ r \in All
  BY <1>3, <1>7, <1>11, SidesAre
<1>13. /\ some \in Trees /\ some.root = placed.root /\ some.child = placed.child /\ some.red = placed.red
       /\ \A a \in All : some.parent[a] = IF a = l /\ l # Sentinel THEN x ELSE placed.parent[a]
  <2>1. LinkSet(some, placed, l, x)
    BY <1>4, <1>7, <1>11, <1>12, LinkIs
  <2> QED
    BY <2>1 DEF LinkSet
<1>14. /\ u \in Trees /\ u.root = some.root /\ u.child = some.child /\ u.red = some.red
       /\ \A a \in All : u.parent[a] = IF a = r /\ r # Sentinel THEN x ELSE some.parent[a]
  <2>1. LinkSet(u, some, r, x)
    BY <1>5, <1>7, <1>12, <1>13, LinkIs
  <2> QED
    BY <2>1 DEF LinkSet
<1>15. ASSUME NEW a \in All
       PROVE  u.parent[a] = IF a # Sentinel /\ \E q \in Sides : a = t.child[q][n] THEN x
                            ELSE IF a = x THEN t.parent[n] ELSE t.parent[a]
  <2>1. u.parent[a] = IF a # Sentinel /\ (a = l \/ a = r) THEN x ELSE copied.parent[a]
    BY <1>11, <1>13, <1>14
  <2>2. (\E q \in Sides : a = t.child[q][n]) <=> a = l \/ a = r
    BY <1>12 DEF Sides
  <2> QED
    BY <1>8, <2>1, <2>2
<1>16. /\ u.root = IF n = t.root THEN x ELSE t.root
       /\ \A a \in All : u.red[a] = IF a = x THEN t.red[n] ELSE t.red[a]
  BY <1>8, <1>11, <1>13, <1>14
<1>17. \A q \in Sides, a \in All :
          u.child[q][a] = IF n # t.root /\ q = SideOf(t, n) /\ a = t.parent[n] THEN x
                          ELSE IF a = x THEN t.child[q][n] ELSE t.child[q][a]
  BY <1>11, <1>13, <1>14
<1> QED
  BY <1>6, <1>14, <1>15, <1>16, <1>17 DEF Adopted

\* c is put in the place of x, and w is noted as its parent.
Unlinked(u, t, x, c, w) ==
    /\ u \in Trees /\ u.root = t.root /\ u.red = t.red
    /\ \A a \in All : u.parent[a] = IF a = c THEN w ELSE t.parent[a]
    /\ \A q \in Sides, a \in All :
          u.child[q][a] = IF q = SideOf(t, x) /\ a = t.parent[x] THEN c ELSE t.child[q][a]

\* Deletion writes just these fields when it unlinks the node that leaves its place.
LEMMA UnlinkIs ==
    ASSUME NEW t \in Trees, NEW x, t.parent[x] \in Nodes, NEW c \in All, NEW w \in Nodes
    PROVE  Unlinked(SetParent(SetChild(t, SideOf(t, x), t.parent[x], c), c, w), t, x, c, w)
<1>1. PICK v : v = SetChild(t, SideOf(t, x), t.parent[x], c)
  OBVIOUS
<1>2. PICK u : u = SetParent(v, c, w)
  OBVIOUS
<1>3. c \in Pointers /\ w \in Pointers /\ t.parent[x] \in All
  BY DEF All, Pointers
<1>4. ChildSet(v, t, SideOf(t, x), t.parent[x], c)
  BY <1>1, <1>3, SetChildIs, SidesAre
<1>5. ParentSet(u, v, c, w)
  BY <1>2, <1>3, <1>4, SetParentIs DEF ChildSet
<1>6. Unlinked(u, t, x, c, w)
  BY <1>4, <1>5 DEF Unlinked, ChildSet, ParentSet
<1> QED
  BY <1>1, <1>2, <1>6

\* x, from below n, leaves its place to c and takes that of n.
LEMMA AdoptTakes ==
    ASSUME NEW t, NEW B, NEW M, NEW k, NEW h, NEW x, NEW c, NEW b, Leaves(t, B, M, k, h, x, c, b),
           NEW n \in M \ {x}, x \in B[n], NEW w, w = IF t.parent[x] = n THEN x ELSE t.parent[x],
           NEW e, Unlinked(e, t, x, c, w)
    PROVE  Exchanged(Adopt(e, n, x), b, n, x) /\ Adopt(e, n, x).parent[c] = w /\ n # c
<1>1. PICK p, z : p = t.parent[x] /\ z = SideOf(t, x)
  OBVIOUS
<1>2. /\ t \in Trees /\ Describes(t, B) /\ B[t.root] = M /\ x \in M \ {t.root} /\ OnlyBelow(t, x, c)
      /\ Bridged(b, t, x, c)
  BY DEF Leaves, Calm
<1>3. /\ M \subseteq Nodes /\ Sentinel \notin Nodes /\ b \in Trees /\ b.root = t.root /\ b.red = t.red
      /\ p \in M \ {x} /\ z \in Sides
      /\ c \in (M \ {t.root, x, p}) \cup {Sentinel}
      /\ B[x] = {x} \cup B[c]
      /\ b.child[z][p] = c /\ b.parent[c] = p
  BY <1>1, BridgeNodes
<1>4. Describes(b, Without(B, x)) /\ Without(B, x)[b.root] = M \ {x}
  BY <1>2, BridgedShape DEF OnlyBelow
<1>5. n \notin B[x] /\ n # c
  <2>1. n \notin B[x]
    BY <1>2, NotBelowEachOther
  <2>2. c # Sentinel => c \in B[c]
    BY <1>2, <1>3, ChildBelow, SidesAre
  <2> QED
    BY <1>3, <2>1, <2>2
<1>6. w \in Nodes /\ (w = IF p = n THEN x ELSE p)
  BY <1>1, <1>2, <1>3
<1>7. /\ e \in Trees /\ e.root = b.root /\ e.red = b.red
      /\ \A a \in All : e.parent[a] = IF a = c THEN w ELSE b.parent[a]
      /\ \A q \in Sides, a \in All : e.child[q][a] = b.child[q][a]
  BY <1>2, <1>3 DEF Unlinked, Bridged
<1>8. n \in M \ {x} /\ n \in All /\ x \in All /\ c \in All /\ x \in Nodes \ {n} /\ n \in Nodes /\ n # x
  BY <1>2, <1>3 DEF All
<1>9. /\ n # b.root => b.parent[n] \in M \ {x}
      /\ \A q \in Sides : b.child[q][n] \in (M \ {x}) \cup {Sentinel}
      /\ \A q \in Sides : b.child[q][n] # Sentinel => b.parent[b.child[q][n]] = n
  <2>1. n # b.root => b.parent[n] \in Without(B, x)[b.root]
    BY <1>4, <1>8 DEF Describes
  <2>2. \A q \in Sides : /\ b.child[q][n] \in Without(B, x)[b.root] \cup {Sentinel}
                         /\ b.child[q][n] # Sentinel => b.parent[b.child[q][n]] = n
    BY <1>4, <1>8 DEF Describes
  <2> QED
    BY <1>4, <2>1, <2>2
<1>10. /\ e.parent[n] = b.parent[n]
       /\ n # b.root => SideOf(e, n) = SideOf(b, n)
       /\ \A q \in Sides : e.child[q][n] = b.child[q][n]
  <2>1. e.parent[n] = b.parent[n] /\ \A q \in Sides : e.child[q][n] = b.child[q][n]
    BY <1>5, <1>7, <1>8
  <2>2. n # b.root => e.child["left"][b.parent[n]] = b.child["left"][b.parent[n]]
    BY <1>3, <1>7, <1>9, SidesAre DEF All
  <2> QED
    BY <2>1, <2>2 DEF SideOf
<1>11. PICK v : v = Adopt(e, n, x)
  OBVIOUS
<1>12. Adopted(v, e, n, x)
  <2>1. n # e.root => e.parent[n] \in Nodes \ {x}
    BY <1>3, <1>7, <1>9, <1>10
  <2>2. \A q \in Sides : e.child[q][n] \in All
    BY <1>3, <1>9, <1>10 DEF All
  <2> QED
    BY <1>7, <1>8, <1>11, <2>1, <2>2, AdoptIs
<1>13. \A a \in All : (\E q \in Sides : a = e.child[q][n]) <=> (\E q \in Sides : a = b.child[q][n])
  BY <1>10
<1>14. \A a \in All : v.parent[a] = IF a # Sentinel /\ \E q \in Sides : a = b.child[q][n] THEN x
                                    ELSE IF a = x THEN b.parent[n] ELSE e.parent[a]
  BY <1>10, <1>12, <1>13 DEF Adopted
<1>15. v.parent[c] = w
  <2>1. c # x
    BY <1>3, <1>8
  <2>2. CASE c # Sentinel /\ \E q \in Sides : c = b.child[q][n]
    <3>1. p = n
      BY <1>3, <1>9, <2>2
    <3> QED
      BY <1>6, <1>8, <1>14, <2>2, <3>1
  <2>3. CASE ~(c # Sentinel /\ \E q \in Sides : c = b.child[q][n])
    BY <1>7, <1>8, <1>14, <2>1, <2>3
  <2> QED
    BY <2>2, <2>3
<1>16. ASSUME NEW a \in Nodes
       PROVE  v.parent[a] = IF a = x THEN b.parent[n]
                            ELSE IF \E q \in Sides : a = b.child[q][n] THEN x
                            ELSE b.parent[a]
  <2>1. a \in All /\ a # Sentinel
    BY <1>3 DEF All
  <2>2. \A q \in Sides : x # b.child[q][n]
    BY <1>3, <1>8, <1>9
  <2>3. CASE a = x
    BY <1>14, <2>1, <2>2, <2>3
  <2>4. CASE a # x /\ \E q \in Sides : a = b.child[q][n]
    BY <1>14, <2>1, <2>4
  <2>5. CASE a # x /\ ~ \E q \in Sides : a = b.child[q][n]
    <3>1. v.parent[a] = e.parent[a]
      BY <1>14, <2>1, <2>5
    <3>2. a = c => p # n
      BY <1>3, <2>5
    <3> QED
      BY <1>3, <1>6, <1>7, <2>1, <2>5, <3>1, <3>2
  <2> QED
    BY <2>3, <2>4, <2>5
<1>17. ASSUME NEW q \in Sides, NEW a \in All
       PROVE  v.child[q][a] = IF a = x THEN b.child[q][n]
                              ELSE IF n # b.root /\ q = SideOf(b, n) /\ a = b.parent[n] THEN x
                              ELSE b.child[q][a]
  <2>1. v.child[q][a] = IF n # e.root /\ q = SideOf(e, n) /\ a = e.parent[n] THEN x
                        ELSE IF a = x THEN e.child[q][n] ELSE e.child[q][a]
    BY <1>12 DEF Adopted
  <2>2. n # b.root => b.parent[n] # x
    BY <1>9
  <2> QED
    BY <1>7, <1>8, <1>10, <2>1, <2>2
<1>18. /\ v \in Trees /\ v.root = IF n = b.root THEN x ELSE b.root
       /\ \A a \in All : v.red[a] = IF a = x THEN b.red[n] ELSE b.red[a]
  BY <1>7, <1>12 DEF Adopted
<1>19. Exchanged(v, b, n, x)
  BY <1>16, <1>17, <1>18 DEF Exchanged
<1> QED
  BY <1>5, <1>11, <1>15, <1>19

\* The pointers of n, which has left the tree, are cleared, and nobody looks at
\* its key again.
LEMMA ClearedLeft ==
    ASSUME NEW t, NEW B, NEW M, NEW k, NEW h, NEW l, NEW c, NEW p, NEW z, Left(t, B, M, k, h, l, c, p, z),
           NEW n \in Nodes \ M, NEW key1, \A m \in M : key1[m] = k[m]
    PROVE  Left(Cleared(t, n), B, M, key1, h, l, c, p, z)
<1>1. PICK u : u = Cleared(t, n)
  OBVIOUS
<1>2. /\ t \in Trees /\ Describes(t, B) /\ B[t.root] = M /\ Sorted(t, B, k)
      /\ Even(t, M, h, p, z) /\ Colours(t, M, l, c) /\ At(t, M, l, c, p, z)
  BY DEF Left
<1>3. /\ M \subseteq Nodes /\ Sentinel \notin Nodes /\ NULL \in Pointers
  BY <1>2, NodeAssumption DEF Describes, Trees, All, Pointers
<1>4. /\ u \in Trees /\ u.root = t.root /\ u.red = t.red
      /\ \A a \in All \ {n} : u.parent[a] = t.parent[a]
      /\ \A a \in All \ {n}, q \in Sides : u.child[q][a] = t.child[q][a]
  BY <1>1, <1>2, <1>3 DEF Cleared, Trees, Sides, All
<1>5. \A a \in M : /\ a \in All \ {n} /\ u.parent[a] = t.parent[a]
                   /\ \A q \in Sides : u.child[q][a] = t.child[q][a]
  BY <1>3, <1>4 DEF All
<1>6. Describes(u, B) /\ B[u.root] = M
  BY <1>2, <1>4, <1>5, SameShape
<1>7. ASSUME NEW a \in M, NEW s \in Sides, NEW m \in B[u.child[s][a]] PROVE MayLie(key1, s, m, a)
  <2>1. m \in B[t.child[s][a]]
    BY <1>5, <1>7
  <2>2. m \in M
    <3>1. B[t.child[s][a]] \subseteq B[a] /\ B[a] \subseteq M
      BY <1>2, ChildBelow, Nested
    <3> QED
      BY <2>1, <3>1
  <2>3. MayLie(k, s, m, a)
    BY <1>2, <2>1 DEF Sorted
  <2> QED
    BY <2>2, <2>3 DEF MayLie
<1>8. Sorted(u, B, key1)
  BY <1>6, <1>7 DEF Sorted
<1>9. Even(u, M, h, p, z)
  <2>1. /\ h \in [All -> Nat] /\ h[Sentinel] = 0
        /\ \A a \in M, s \in Sides :
              h[a] = h[t.child[s][a]] + Weight(t, a) + IF a = p /\ s = z THEN 1 ELSE 0
    BY <1>2 DEF Even
  <2>2. \A a \in M, s \in Sides : u.child[s][a] = t.child[s][a] /\ Weight(u, a) = Weight(t, a)
    BY <1>4, <1>5 DEF Weight
  <2> QED
    BY <2>1, <2>2 DEF Even
<1>10. Colours(u, M, l, c)
  BY <1>2, <1>4, <1>5 DEF Colours
<1>11. At(u, M, l, c, p, z)
  <2>1. ASSUME l = "delete", c # t.root
        PROVE  p \in M /\ z \in Sides /\ u.child[z][p] = c /\ u.parent[c] = p
    <3>1. p \in M /\ z \in Sides /\ t.child[z][p] = c /\ t.parent[c] = p
      BY <1>2, <2>1 DEF At
    <3>2. c \in All \ {n}
      <4>1. c # Sentinel => c \in M
        BY <1>2, <3>1, ChildBelow
      <4> QED
        BY <1>3, <4>1 DEF All
    <3> QED
      BY <1>4, <1>5, <3>1, <3>2
  <2> QED
    BY <1>2, <1>4, <2>1 DEF At
<1>12. Left(u, B, M, key1, h, l, c, p, z)
  BY <1>4, <1>6, <1>8, <1>9, <1>10, <1>11 DEF Left
<1> QED
  BY <1>1, <1>12

\* The node of the loop is of no account when there is no loop.
LEMMA LeftSound ==
    ASSUME NEW t, NEW B, NEW M, NEW k, NEW h, NEW l, NEW c, NEW p, NEW z, Left(t, B, M, k, h, l, c, p, z),
           NEW d, l = "none" \/ d = c
    PROVE  t \in Trees /\ Sound(t, M, k, l, d)
<1>1. t \in Trees /\ Fits(t, M, k, h, p, z) /\ Colours(t, M, l, c) /\ At(t, M, l, c, p, z)
  BY DEF Left, Fits
<1>2. Colours(t, M, l, d) /\ At(t, M, l, d, p, z)
  BY <1>1 DEF Colours, At
<1> QED
  BY <1>1, <1>2 DEF Sound

\* A root with one child, or none, leaves its place to it.
LEMMA RootSound ==
    ASSUME NEW t, NEW B, NEW M, NEW k, NEW h, Calm(t, B, M, k, h), NEW x \in M, x = t.root,
           NEW c, OnlyBelow(t, x, c), NEW d
    PROVE  \E g : Left(Paint([t EXCEPT !.root = c], c, FALSE), B, M \ {x}, k, g, "none", d, NULL, "left")
<1>1. /\ t \in Trees /\ Describes(t, B) /\ B[t.root] = M /\ Sorted(t, B, k)
      /\ h \in [All -> Nat] /\ h[Sentinel] = 0
      /\ \A a \in M, s \in Sides : h[a] = h[t.child[s][a]] + Weight(t, a)
      /\ ~t.red[Sentinel] /\ ~t.red[t.root]
      /\ \A a \in M, s \in Sides : t.red[a] => ~t.red[t.child[s][a]]
  BY DEF Calm
<1>2. PICK q \in Sides : c = t.child[q][x] /\ t.child[Mirror(q)][x] = Sentinel
  BY DEF OnlyBelow
<1>3. /\ M \subseteq Nodes /\ Sentinel \notin Nodes /\ NULL \notin Nodes /\ B[Sentinel] = {}
      /\ B \in [All -> SUBSET Nodes]
  BY <1>1, NodeAssumption DEF Describes, Trees, All
<1>4. /\ c \in All /\ (c # Sentinel => c \in M /\ c \in B[c]) /\ c # x
      /\ \A a \in M, s \in Sides : t.child[s][a] \in All /\ (t.child[s][a] = c /\ c # Sentinel => a = x)
  <2>1. c \in All /\ (c # Sentinel => c \in M /\ c \in B[c] /\ t.parent[c] = x /\ c # t.root)
    <3>1. x \in B[t.root]
      BY <1>1
    <3>2. /\ t.child[q][x] \in All
          /\ t.child[q][x] # Sentinel => /\ t.child[q][x] \in B[t.root]
                                         /\ t.child[q][x] \in B[t.child[q][x]]
                                         /\ t.child[q][x] # t.root
      BY <1>1, <3>1, ChildBelow
    <3>3. t.child[q][x] # Sentinel => t.parent[t.child[q][x]] = x
      BY <1>1, <3>1 DEF Describes
    <3> QED
      BY <1>1, <1>2, <3>2, <3>3
  <2>2. ASSUME NEW a \in M, NEW s \in Sides
        PROVE  t.child[s][a] \in All /\ (t.child[s][a] = c /\ c # Sentinel => a = x)
    <3>1. t.child[s][a] # Sentinel => t.parent[t.child[s][a]] = a
      BY <1>1 DEF Describes
    <3> QED
      BY <1>1, <2>1, <3>1, ChildBelow
  <2> QED
    BY <1>3, <2>1, <2>2
<1>5. B[c] = M \ {x}
  <2>1. /\ M = {x} \cup B[t.child["left"][x]] \cup B[t.child["right"][x]]
        /\ x \notin B[t.child[q][x]]
    BY <1>1, <1>2 DEF Describes
  <2>2. (q = "left" /\ Mirror(q) = "right") \/ (q = "right" /\ Mirror(q) = "left")
    BY DEF Sides, Mirror
  <2> QED
    BY <1>2, <1>3, <2>1, <2>2
<1>6. PICK u : u = Paint([t EXCEPT !.root = c], c, FALSE)
  OBVIOUS
<1>7. /\ u \in Trees /\ u.root = c /\ u.child = t.child /\ u.parent = t.parent
      /\ ~u.red[c] /\ \A a \in All \ {c} : u.red[a] = t.red[a]
  BY <1>1, <1>4, <1>6 DEF Paint, Trees, All
<1>8. Describes(u, B)
  <2>1. t.root # Sentinel
    BY <1>3
  <2> QED
    BY <1>1, <1>2, <1>7, <2>1, RootGone
<1>9. Sorted(u, B, k)
  BY <1>1, <1>5, <1>7 DEF Sorted
<1>10. PICK g : g = [h EXCEPT ![c] = IF t.red[c] THEN h[c] + 1 ELSE h[c]]
  OBVIOUS
<1>11. /\ g \in [All -> Nat] /\ \A a \in All \ {c} : g[a] = h[a]
       /\ g[c] = IF t.red[c] THEN h[c] + 1 ELSE h[c]
  BY <1>1, <1>4, <1>10
<1>12. g[Sentinel] = 0
  <2>1. Sentinel \in All
    BY DEF All
  <2> QED
    BY <1>1, <1>11, <2>1
<1>13. ASSUME NEW a \in M \ {x}, NEW s \in Sides
       PROVE  g[a] = g[u.child[s][a]] + Weight(u, a) + IF a = NULL /\ s = "left" THEN 1 ELSE 0
  <2>1. a # NULL /\ a \in All /\ u.child[s][a] = t.child[s][a] /\ t.child[s][a] \in All
    BY <1>3, <1>4, <1>7 DEF All
  <2>2. h[a] = h[t.child[s][a]] + Weight(t, a) /\ h[t.child[s][a]] \in Nat
    BY <1>1, <2>1
  <2>3. g[t.child[s][a]] = h[t.child[s][a]]
    BY <1>1, <1>4, <1>11, <1>12, <2>1
  <2>4. CASE a = c
    BY <1>7, <1>11, <2>1, <2>2, <2>3, <2>4 DEF Weight
  <2>5. CASE a # c
    BY <1>7, <1>11, <2>1, <2>2, <2>3, <2>5 DEF Weight
  <2> QED
    BY <2>4, <2>5
<1>14. Even(u, M \ {x}, g, NULL, "left")
  BY <1>11, <1>12, <1>13 DEF Even
<1>15. Colours(u, M \ {x}, "none", d) /\ At(u, M \ {x}, "none", d, NULL, "left")
  <2>1. ~u.red[Sentinel]
    <3>1. Sentinel \in All
      BY DEF All
    <3> QED
      BY <1>1, <1>7, <3>1
  <2>2. ASSUME NEW a \in M \ {x}, NEW s \in Sides, u.red[a] PROVE ~u.red[u.child[s][a]]
    <3>1. a # c /\ a \in All /\ t.child[s][a] \in All
      BY <1>3, <1>4, <1>7, <2>2 DEF All
    <3> QED
      BY <1>1, <1>7, <2>2, <3>1
  <2> QED
    BY <1>7, <2>1, <2>2 DEF Colours, At
<1>16. Left(u, B, M \ {x}, k, g, "none", d, NULL, "left")
  BY <1>5, <1>7, <1>8, <1>9, <1>14, <1>15 DEF Left
<1> QED
  BY <1>6, <1>16

\* What a tree that no loop is at is like
LEMMA SoundCalm ==
    ASSUME NEW t \in Trees, NEW M, NEW k, NEW d, Sound(t, M, k, "none", d)
    PROVE  \E B, h : Calm(t, B, M, k, h)
<1>1. PICK h, p, q : Fits(t, M, k, h, p, q) /\ Colours(t, M, "none", d) /\ At(t, M, "none", d, p, q)
  BY DEF Sound
<1>2. PICK B : Describes(t, B) /\ B[t.root] = M /\ Sorted(t, B, k)
  BY <1>1 DEF Fits
<1>3. p = NULL
  BY <1>1 DEF At
<1>4. /\ h \in [All -> Nat] /\ h[Sentinel] = 0
      /\ \A a \in M, s \in Sides : h[a] = h[t.child[s][a]] + Weight(t, a)
  BY <1>1, <1>3, FitsEven
<1>5. /\ ~t.red[Sentinel] /\ ~t.red[t.root]
      /\ \A a \in M, s \in Sides : t.red[a] => ~t.red[t.child[s][a]]
  BY <1>1 DEF Colours
<1> QED
  BY <1>2, <1>4, <1>5 DEF Calm

\* The node that leaves its place is n or the first of those after it, and has
\* at most one child.
Substitute(t, B, k, n, x, c) ==
    /\ x \in B[t.root] /\ OnlyBelow(t, x, c)
    /\ x # n => /\ x \in B[n] /\ x # t.root /\ x \in B[t.child["right"][n]]
                /\ \A m \in B[t.child["right"][n]] : MayLie(k, "right", m, x)

\* The node that deletion chooses is such a node.
LEMMA SubstituteIs ==
    ASSUME NEW t, NEW B, NEW M, NEW k, NEW h, Calm(t, B, M, k, h), Orders(k, M), NEW n \in M,
           NEW x, x = IF t.child["left"][n] = Sentinel \/ t.child["right"][n] = Sentinel
                        THEN n ELSE Furthest(t, "left", t.child["right"][n]),
           NEW c, c = IF t.child["left"][x] # Sentinel THEN t.child["left"][x] ELSE t.child["right"][x]
    PROVE  Substitute(t, B, k, n, x, c)
<1>1. t \in Trees /\ Describes(t, B) /\ B[t.root] = M /\ Sorted(t, B, k)
  BY DEF Calm
<1>2. CASE t.child["left"][n] = Sentinel \/ t.child["right"][n] = Sentinel
  <2>1. x = n
    BY <1>2
  <2>2. OnlyBelow(t, n, c)
    BY <1>2, <2>1, SidesAre DEF OnlyBelow
  <2> QED
    BY <1>1, <2>1, <2>2 DEF Substitute
<1>3. CASE t.child["left"][n] # Sentinel /\ t.child["right"][n] # Sentinel
  <2>1. PICK r : r = t.child["right"][n]
    OBVIOUS
  <2>2. PICK way : way = [m \in Nodes |-> "left"]
    OBVIOUS
  <2>3. way \in [Nodes -> Sides] /\ \A m \in Nodes : way[m] = "left"
    BY <2>2, SidesAre
  <2>4. x = Last(t, way, r)
    BY <1>3, <2>1, <2>2 DEF Furthest
  <2>5. r \in M /\ B[r] \subseteq B[n] /\ n \notin B[r] /\ r # t.root
    BY <1>1, <1>3, <2>1, ChildBelow, SidesAre DEF Describes
  <2>6. B[r] \subseteq M /\ M \subseteq Nodes
    BY <1>1, <2>5, Nested DEF Describes, Trees, All
  <2>7. x \in B[r] /\ t.child[way[x]][x] = Sentinel /\ OnPath(t, B, way, r, x)
    BY <1>1, <2>3, <2>4, <2>5, LastIs
  <2>8. x \in M /\ t.child["left"][x] = Sentinel
    BY <2>3, <2>6, <2>7
  <2>9. OnlyBelow(t, x, c)
    BY <2>8, SidesAre DEF OnlyBelow
  <2>10. ASSUME NEW m \in B[r] PROVE MayLie(k, "right", m, x)
    <3>1. MayLie(k, Mirror("left"), m, x)
      BY <1>1, <2>3, <2>5, <2>7, <2>8, SidesAre, FurthestOuter
    <3> QED
      BY <3>1, SidesAre
  <2>11. x # t.root
    <3>1. r \in B[r]
      BY <1>1, <2>5, ChildBelow, SidesAre
    <3>2. x = t.root => t.root \in B[r] /\ r \in B[t.root]
      BY <1>1, <2>5, <2>7
    <3> QED
      BY <1>1, <2>5, <2>8, <3>2, NotBelowEachOther
  <2> QED
    BY <1>1, <2>1, <2>5, <2>7, <2>8, <2>9, <2>10, <2>11 DEF Substitute
<1> QED
  BY <1>2, <1>3

\* Deletion up to its loop: the tree has lost n and at most one black.
LEMMA DeleteSound ==
    ASSUME NEW M, tree \in Trees, Orders(key, M), key \in [Nodes -> Keys], Sound(tree, M, key, loop, cur),
           NEW n \in M, Delete(n)
    PROVE  tree' \in Trees /\ Sound(tree', M \ {n}, key', loop', cur')
<1>1. PICK x, c, p, w, e, v :
        /\ x = IF tree.child["left"][n] = Sentinel \/ tree.child["right"][n] = Sentinel
                 THEN n ELSE Furthest(tree, "left", tree.child["right"][n])
        /\ c = IF tree.child["left"][x] # Sentinel THEN tree.child["left"][x] ELSE tree.child["right"][x]
        /\ p = tree.parent[x]
        /\ w = IF x # n /\ p = n THEN x ELSE p
        /\ e = SetParent(SetChild(tree, SideOf(tree, x), p, c), c, w)
        /\ v = IF x = n THEN e ELSE Adopt(e, n, x)
        /\ loop = "none"
        /\ key' = [key EXCEPT ![n] = 0]
        /\ IF x = tree.root
             THEN /\ tree' = Cleared(Paint([tree EXCEPT !.root = c], c, FALSE), n)
                  /\ loop' = loop
             ELSE /\ tree' = Cleared(v, n)
                  /\ IF tree.red[x] THEN loop' = loop ELSE loop' = "delete" /\ cur' = c
  BY DEF Delete
<1>2. PICK B, h : Calm(tree, B, M, key, h)
  BY <1>1, SoundCalm
<1>3. /\ tree \in Trees /\ Describes(tree, B) /\ B[tree.root] = M
      /\ M \subseteq Nodes /\ Sentinel \notin Nodes /\ n \in Nodes
  BY <1>2, NodeAssumption DEF Calm, Describes, Trees, All
<1>4. Substitute(tree, B, key, n, x, c)
  BY <1>1, <1>2, SubstituteIs
<1>5. x \in M /\ OnlyBelow(tree, x, c)
  BY <1>3, <1>4 DEF Substitute
<1>6. \A m \in M \ {n} : key'[m] = key[m]
  BY <1>1, <1>3
<1>7. CASE x = tree.root
  <2>1. x = n
    BY <1>4, <1>7 DEF Substitute
  <2>2. PICK u : u = Paint([tree EXCEPT !.root = c], c, FALSE)
    OBVIOUS
  <2>3. PICK g : Left(u, B, M \ {n}, key, g, "none", cur', NULL, "left")
    BY <1>2, <1>5, <1>7, <2>1, <2>2, RootSound
  <2>4. Left(Cleared(u, n), B, M \ {n}, key', g, "none", cur', NULL, "left")
    <3>1. n \in Nodes \ (M \ {n})
      BY <1>3
    <3> QED
      BY <1>6, <2>3, <3>1, ClearedLeft
  <2>5. tree' = Cleared(u, n) /\ loop' = "none"
    BY <1>1, <1>7, <2>2
  <2> QED
    BY <2>4, <2>5, LeftSound
<1>8. CASE x # tree.root
  <2>1. p \in M \ {x} /\ c \in All /\ p \in Nodes /\ w \in Nodes /\ x \in Nodes
    <3>1. p \in M \ {x}
      <4>1. x \in B[tree.root] \ {tree.root}
        BY <1>3, <1>5, <1>8
      <4>2. tree.parent[x] \in B[tree.root] /\ tree.parent[x] # x
        BY <1>3, <4>1, ParentIs
      <4> QED
        BY <1>1, <1>3, <4>2
    <3>2. c \in All
      BY <1>3, <1>5, ChildBelow DEF OnlyBelow
    <3> QED
      BY <1>1, <1>3, <1>5, <3>1, <3>2
  <2>2. PICK b : b = SetParent(SetChild(tree, SideOf(tree, x), p, c), c, p)
    OBVIOUS
  <2>3. Unlinked(b, tree, x, c, p) /\ Unlinked(e, tree, x, c, w)
    BY <1>1, <1>3, <2>1, <2>2, UnlinkIs
  <2>4. Bridged(b, tree, x, c)
    BY <1>1, <2>3 DEF Unlinked, Bridged
  <2>5. Leaves(tree, B, M, key, h, x, c, b)
    BY <1>2, <1>5, <1>8, <2>4 DEF Leaves
  <2>6. PICK l, f, z : /\ l = IF tree.red[x] THEN "none" ELSE "delete"
                       /\ f = IF tree.red[x] THEN NULL ELSE p
                       /\ z = SideOf(tree, x)
    OBVIOUS
  <2>7. Left(b, Without(B, x), M \ {x}, key, h, l, c, f, z)
    BY <1>1, <2>5, <2>6, BridgeSound
  <2>8. \E C, g, a : Left(v, C, M \ {n}, key, g, l, c, a, z)
    <3>1. CASE x = n
      <4>1. v = b
        BY <1>1, <2>2, <3>1
      <4> QED
        BY <2>7, <3>1, <4>1
    <3>2. CASE x # n
      <4>1. /\ x \in B[n] /\ x \in B[tree.child["right"][n]]
            /\ \A m \in B[tree.child["right"][n]] : MayLie(key, "right", m, x)
        BY <1>4, <3>2 DEF Substitute
      <4>2. n \in M \ {x} /\ w = IF tree.parent[x] = n THEN x ELSE tree.parent[x]
        BY <1>1, <3>2
      <4>3. v = Adopt(e, n, x)
        BY <1>1, <3>2
      <4>4. Exchanged(v, b, n, x) /\ v.parent[c] = w /\ n # c
        BY <2>3, <2>5, <4>1, <4>2, <4>3, AdoptTakes
      <4>5. Suits(b, Without(B, x), key, n, x)
        BY <2>5, <3>2, <4>1, NextSuits
      <4>6. x # c
        <5>1. c \in (M \ {x}) \cup {Sentinel}
          BY <2>5, BridgeNodes
        <5> QED
          BY <1>3, <2>1, <5>1
      <4>7. Takes(b, Without(B, x), M \ {x}, key, h, l, c, f, z, n, x, v)
        <5>1. n \in (M \ {x}) \ {c} /\ x \in Nodes \ ((M \ {x}) \cup {c})
          BY <2>1, <4>2, <4>4, <4>6
        <5>2. l # "insert" /\ (l = "delete" => v.parent[c] = IF f = n THEN x ELSE f)
          BY <1>1, <2>6, <3>2, <4>4
        <5> QED
          BY <2>7, <4>4, <4>5, <5>1, <5>2 DEF Takes
      <4>8. ((M \ {x}) \ {n}) \cup {x} = M \ {n}
        BY <1>5, <3>2
      <4>9. Left(v, Swapped(Without(B, x), n, x), ((M \ {x}) \ {n}) \cup {x}, key,
                 [h EXCEPT ![x] = h[n]], l, c, IF f = n THEN x ELSE f, z)
        BY <4>7, ExchangeSound
      <4> QED
        BY <4>8, <4>9
    <3> QED
      BY <3>1, <3>2
  <2>9. PICK C, g, a : Left(v, C, M \ {n}, key, g, l, c, a, z)
    BY <2>8
  <2>10. Left(Cleared(v, n), C, M \ {n}, key', g, l, c, a, z)
    <3>1. n \in Nodes \ (M \ {n})
      BY <1>3
    <3> QED
      BY <1>6, <2>9, <3>1, ClearedLeft
  <2>11. tree' = Cleared(v, n) /\ loop' = l /\ (l = "none" \/ cur' = c)
    BY <1>1, <1>8, <2>6
  <2> QED
    BY <2>10, <2>11, LeftSound
<1> QED
  BY <1>7, <1>8

-----------------------------------------------------------------------------
(* The inductive invariant                                                 *)

\* The timers are in the window, and their tree is one that the passes keep.
IInv ==
    /\ TypeOK
    /\ InWindow(key, now, Members)
    /\ Sound(tree, Members, key, loop, cur)

\* What a step has to show: the nodes are then those in N.
Keeps(N) ==
    /\ tree' \in Trees /\ key' \in [Nodes -> Keys] /\ now' \in Keys
    /\ InWindow(key', now', N) /\ Sound(tree', N, key', loop', cur')
    /\ loop' # "none" \/ cur' \in {cur, NULL}

\* Then the invariant holds again.
LEMMA KeepsInv ==
    ASSUME NEW N, Keeps(N), cur \in Pointers
    PROVE  IInv'
<1>1. tree' \in Trees /\ Sound(tree', N, key', loop', cur')
  BY DEF Keeps
<1>2. Members' = N
  BY <1>1, MembersAre DEF Members
<1>3. /\ N \subseteq Nodes /\ loop' \in {"none", "insert", "delete"}
      /\ loop' # "none" => cur' \in N \cup {Sentinel}
  BY <1>1, LoopNode
<1>4. cur' \in Pointers
  BY <1>3 DEF Keeps, Pointers
<1>5. TypeOK'
  BY <1>3, <1>4 DEF TypeOK, Keeps
<1> QED
  BY <1>2, <1>5 DEF IInv, Keeps

\* An empty tree
LEMMA InitInv ==
    Init => IInv
<1> SUFFICES ASSUME Init PROVE IInv
  OBVIOUS
<1>1. /\ tree.root = Sentinel /\ tree.red = [n \in Nodes \cup {Sentinel} |-> FALSE]
      /\ key = [n \in Nodes |-> 0] /\ now = 0 /\ loop = "none" /\ cur = NULL
  BY DEF Init
<1>2. TypeOK
  <2>1. 0 \in Keys
    BY WidthAssumption DEF Keys, KeyRange
  <2> QED
    BY <1>1, <2>1 DEF Init, TypeOK, Trees, Pointers
<1>3. tree \in Trees
  BY <1>2 DEF TypeOK
<1>4. PICK B : B = [n \in All |-> {}]
  OBVIOUS
<1>5. B \in [All -> SUBSET Nodes] /\ \A n \in All : B[n] = {}
  BY <1>4
<1>6. Describes(tree, B) /\ B[tree.root] = {}
  BY <1>1, <1>5 DEF Describes, All
<1>7. PICK h : h = [n \in All |-> 0]
  OBVIOUS
<1>8. Even(tree, {}, h, NULL, "left")
  BY <1>7 DEF Even, All
<1>9. Fits(tree, {}, key, h, NULL, "left")
  BY <1>6, <1>8 DEF Fits, Sorted
<1>10. Colours(tree, {}, loop, cur) /\ At(tree, {}, loop, cur, NULL, "left")
  BY <1>1 DEF Colours, At
<1>11. Sound(tree, {}, key, loop, cur)
  BY <1>9, <1>10 DEF Sound
<1>12. Members = {}
  BY <1>3, <1>11, MembersAre DEF Members
<1> QED
  BY <1>2, <1>11, <1>12 DEF IInv, InWindow

\* Insertion of a node that is not in the tree
LEMMA InsertKeeps ==
    ASSUME IInv, NEW n \in Nodes, NEW ms \in 0..MaxDelay, Insert(n, ms)
    PROVE  Keeps(Members \cup {n})
<1>1. PICK M : M = Members
  OBVIOUS
<1>2. /\ tree \in Trees /\ key \in [Nodes -> Keys] /\ now \in Keys
      /\ InWindow(key, now, M) /\ Sound(tree, M, key, loop, cur)
  BY <1>1 DEF IInv, TypeOK
<1>3. n \in Nodes \ M /\ M \in SUBSET Nodes
  BY <1>1, <1>2, LoopNode DEF Insert
<1>4. /\ key'[n] = (now + ms) % KeyRange
      /\ \A m \in M \ {n} : key'[m] = key[m]
      /\ key' \in [Nodes -> Keys] /\ now' \in Keys /\ InWindow(key', now', M \cup {n})
  BY <1>2, <1>3, InsertWindow
<1>5. Orders(key', M \cup {n})
  BY <1>4, WindowOrders
<1>6. tree' \in Trees /\ Sound(tree', M \cup {n}, key', loop', cur')
  <2>1. \A m \in M : key'[m] = key[m]
    BY <1>3, <1>4
  <2> QED
    BY <1>2, <1>3, <1>4, <1>5, <2>1, InsertSound
<1>7. loop' # "none" \/ cur' \in {cur, NULL}
  BY DEF Insert
<1> QED
  BY <1>1, <1>4, <1>6, <1>7 DEF Keeps

\* Deletion of a node of the tree
LEMMA DeleteKeeps ==
    ASSUME IInv, NEW n, Delete(n)
    PROVE  Keeps(Members \ {n})
<1>1. PICK M : M = Members
  OBVIOUS
<1>2. /\ tree \in Trees /\ key \in [Nodes -> Keys] /\ now \in Keys
      /\ InWindow(key, now, M) /\ Sound(tree, M, key, loop, cur)
  BY <1>1 DEF IInv, TypeOK
<1>3. n \in M /\ M \subseteq Nodes
  BY <1>1, <1>2, LoopNode DEF Delete
<1>4. Orders(key, M)
  BY <1>2, WindowOrders
<1>5. tree' \in Trees /\ Sound(tree', M \ {n}, key', loop', cur')
  BY <1>2, <1>3, <1>4, DeleteSound
<1>6. key' = [key EXCEPT ![n] = 0] /\ now' = now /\ (loop' # "none" \/ cur' \in {cur, NULL})
  BY DEF Delete
<1>7. 0 \in Keys
  BY WidthAssumption DEF Keys, KeyRange
<1>8. key' \in [Nodes -> Keys] /\ now' \in Keys /\ \A m \in M \ {n} : key'[m] = key[m]
  BY <1>2, <1>3, <1>6, <1>7
<1>9. InWindow(key', now', M \ {n})
  BY <1>2, <1>6, <1>8 DEF InWindow
<1> QED
  BY <1>1, <1>5, <1>6, <1>8, <1>9 DEF Keeps

\* A pass of a loop, and its end, whatever the order of the nodes
LEMMA PassSound ==
    ASSUME NEW M, NEW k, tree \in Trees, Orders(k, M), Sound(tree, M, k, loop, cur),
           Recolour \/ Rebalance \/ InsertEnds \/ Mend \/ DeleteEnds
    PROVE  tree' \in Trees /\ Sound(tree', M, k, loop', cur')
<1>1. CASE Recolour
  BY <1>1, RecolourSound
<1>2. CASE Rebalance
  BY <1>2, RebalanceSound
<1>3. CASE Mend
  BY <1>3, MendSound
<1>4. CASE InsertEnds
  BY <1>4, InsertEndsSound DEF InsertEnds
<1>5. CASE DeleteEnds
  BY <1>5, DeleteEndsSound DEF DeleteEnds
<1> QED
  BY <1>1, <1>2, <1>3, <1>4, <1>5

\* A pass keeps the nodes and the invariant.
LEMMA PassKeeps ==
    ASSUME IInv, Recolour \/ Rebalance \/ InsertEnds \/ Mend \/ DeleteEnds
    PROVE  Keeps(Members)
<1>1. PICK M : M = Members
  OBVIOUS
<1>2. /\ tree \in Trees /\ key \in [Nodes -> Keys] /\ now \in Keys
      /\ InWindow(key, now, M) /\ Sound(tree, M, key, loop, cur)
  BY <1>1 DEF IInv, TypeOK
<1>3. Orders(key, M)
  BY <1>2, WindowOrders
<1>4. PICK k : k = key
  OBVIOUS
<1>5. tree' \in Trees /\ Sound(tree', M, k, loop', cur')
  BY <1>2, <1>3, <1>4, PassSound
<1>6. UNCHANGED <<key, now>> /\ (loop' # "none" \/ cur' \in {cur, NULL})
  BY DEF Recolour, Rebalance, InsertEnds, Mend, DeleteEnds
<1> QED
  BY <1>1, <1>2, <1>4, <1>5, <1>6 DEF Keeps

\* The clock ticks.
LEMMA TickKeeps ==
    ASSUME IInv, Tick
    PROVE  Keeps(Members)
<1>1. PICK M : M = Members
  OBVIOUS
<1>2. /\ tree \in Trees /\ key \in [Nodes -> Keys] /\ now \in Keys
      /\ InWindow(key, now, M) /\ Sound(tree, M, key, loop, cur)
  BY <1>1 DEF IInv, TypeOK
<1>3. now' = (now + 1) % KeyRange /\ UNCHANGED <<tree, key, loop, cur>>
      /\ \A n \in M : (now - key[n]) % KeyRange # MaxLate
  BY <1>1 DEF Tick
<1>4. ASSUME NEW n \in M PROVE \E d \in Delays : key'[n] = KeyAt(now', d)
  <2>1. PICK d \in Delays : key[n] = KeyAt(now, d)
    BY <1>2 DEF InWindow
  <2>2. d - 1 \in Delays /\ KeyAt(now, d) = KeyAt((now + 1) % KeyRange, d - 1)
    BY <1>2, <1>3, <2>1, TickWindow
  <2> QED
    BY <1>3, <2>1, <2>2
<1>5. now' \in Keys
  <2>1. now + 1 \in Int /\ KeyRange \in Nat /\ KeyRange > 0
    BY <1>2, WidthAssumption DEF Keys, KeyRange
  <2> QED
    BY <1>3, <2>1 DEF Keys
<1>6. InWindow(key', now', M)
  BY <1>4 DEF InWindow
<1> QED
  BY <1>1, <1>2, <1>3, <1>5, <1>6 DEF Keeps

\* Every step keeps the invariant.
LEMMA StepInv ==
    IInv /\ [Next]_vars => IInv'
<1> SUFFICES ASSUME IInv, [Next]_vars PROVE IInv'
  OBVIOUS
<1>1. cur \in Pointers
  BY DEF IInv, TypeOK
<1>2. ASSUME NEW n \in Nodes, Delete(n) PROVE IInv'
  BY <1>1, <1>2, DeleteKeeps, KeepsInv
<1>3. ASSUME NEW n \in Nodes, NEW ms \in 0..MaxDelay, Insert(n, ms) PROVE IInv'
  BY <1>1, <1>3, InsertKeeps, KeepsInv
<1>4. CASE Recolour \/ Rebalance \/ InsertEnds \/ Mend \/ DeleteEnds
  BY <1>1, <1>4, PassKeeps, KeepsInv
<1>5. CASE Fire
  BY <1>1, <1>5, DeleteKeeps, KeepsInv DEF Fire
<1>6. CASE Tick
  BY <1>1, <1>6, TickKeeps, KeepsInv
<1>7. CASE UNCHANGED vars
  <2>1. PICK M : M = Members
    OBVIOUS
  <2>2. Keeps(M)
    BY <1>7, <2>1 DEF vars, Keeps, IInv, TypeOK
  <2> QED
    BY <1>1, <2>2, KeepsInv
<1> QED
  BY <1>2, <1>3, <1>4, <1>5, <1>6, <1>7 DEF Next

\* The invariant holds all the time.
THEOREM TreeInvariant ==
    Spec => []IInv
  BY InitInv, StepInv, PTL DEF Spec

\* Types: the nodes the fields point to are nodes, keys are in their range.
THEOREM TreeTypeCorrect ==
    Spec => []TypeOK
<1>1. IInv => TypeOK
  BY DEF IInv
<1> QED
  BY <1>1, TreeInvariant, PTL

-----------------------------------------------------------------------------
(* What the invariant says of the tree                                     *)

\* The tree and its subtrees, as the invariant has them
LEMMA TreeIs ==
    ASSUME IInv
    PROVE  /\ tree \in Trees /\ Joined(tree, Members) /\ Colours(tree, Members, loop, cur)
           /\ \E B, h, p, q : /\ Describes(tree, B) /\ B[tree.root] = Members /\ Sorted(tree, B, key)
                              /\ Fits(tree, Members, key, h, p, q) /\ Even(tree, Members, h, p, q)
                              /\ At(tree, Members, loop, cur, p, q)
<1>1. PICK M : M = Members
  OBVIOUS
<1>2. tree \in Trees /\ Sound(tree, M, key, loop, cur)
  BY <1>1 DEF IInv, TypeOK
<1>3. PICK h, p, q : Fits(tree, M, key, h, p, q) /\ Colours(tree, M, loop, cur) /\ At(tree, M, loop, cur, p, q)
  BY <1>2 DEF Sound
<1>4. Joined(tree, M)
  BY <1>2, <1>3, FitsJoined
<1>5. PICK B : Describes(tree, B) /\ B[tree.root] = M /\ Sorted(tree, B, key) /\ Even(tree, M, h, p, q)
  BY <1>3 DEF Fits
<1> QED
  BY <1>1, <1>2, <1>3, <1>4, <1>5

\* The invariant says that the pointers agree.
LEMMA LinkedInv ==
    IInv => Linked
<1> SUFFICES ASSUME IInv PROVE Linked
  OBVIOUS
<1>1. PICK M : M = Members
  OBVIOUS
<1>2. tree \in Trees /\ Joined(tree, M)
  BY <1>1, TreeIs
<1>3. PICK B : Describes(tree, B) /\ B[tree.root] = M
  BY <1>1, TreeIs
<1>4. ASSUME NEW n \in M, NEW s \in Sides
      PROVE  /\ tree.child[s][n] \in M \cup {Sentinel}
             /\ tree.child[s][n] \in M => /\ tree.parent[tree.child[s][n]] = n
                                          /\ tree.child[s][n] \notin Above(tree, n)
                                          /\ tree.child[s][n] # tree.child[Mirror(s)][n]
  <2>1. /\ tree.child[s][n] \in M \cup {Sentinel} /\ Sentinel \notin M
        /\ tree.child[s][n] # Sentinel => /\ tree.parent[tree.child[s][n]] = n
                                          /\ tree.child[s][n] # tree.child[Mirror(s)][n]
    BY <1>2 DEF Joined
  <2>2. Above(tree, n) = {a \in M : n \in B[a]}
    BY <1>2, <1>3, AboveIs
  <2>3. n \notin B[tree.child[s][n]]
    BY <1>3 DEF Describes
  <2> QED
    BY <2>1, <2>2, <2>3
<1> QED
  BY <1>1, <1>4 DEF Linked

\* The invariant says that the nodes are in order.
LEMMA OrderedInv ==
    IInv => Ordered
<1> SUFFICES ASSUME IInv PROVE Ordered
  OBVIOUS
<1>1. PICK M : M = Members
  OBVIOUS
<1>2. tree \in Trees /\ Joined(tree, M)
  BY <1>1, TreeIs
<1>3. PICK B : Describes(tree, B) /\ B[tree.root] = M /\ Sorted(tree, B, key)
  BY <1>1, TreeIs
<1>4. ASSUME NEW n \in M, NEW s \in Sides, NEW m \in Below(tree, tree.child[s][n])
      PROVE  MayLie(key, s, m, n)
  <2>1. tree.child[s][n] \in B[tree.root] \cup {Sentinel}
    BY <1>2, <1>3 DEF Joined
  <2>2. m \in B[tree.child[s][n]]
    BY <1>2, <1>3, <1>4, <2>1, BelowIs
  <2> QED
    BY <1>3, <2>2 DEF Sorted
<1>5. ASSUME NEW n \in M
      PROVE  /\ \A m \in Below(tree, tree.child["left"][n]) : ~Before(key[n], key[m])
             /\ \A m \in Below(tree, tree.child["right"][n]) : ~Before(key[m], key[n])
  BY <1>4, SidesAre DEF MayLie
<1> QED
  BY <1>1, <1>5 DEF Ordered

\* The invariant says where two reds in a row can be.
LEMMA NoTwoRedsInv ==
    IInv => NoTwoReds
<1> SUFFICES ASSUME IInv PROVE NoTwoReds
  OBVIOUS
<1>1. PICK M : M = Members
  OBVIOUS
<1>2. Joined(tree, M) /\ Colours(tree, M, loop, cur)
  BY <1>1, TreeIs
<1>3. ASSUME NEW n \in M \ {tree.root}, tree.red[n], tree.red[tree.parent[n]]
      PROVE  \/ loop = "insert" /\ n = cur
             \/ loop = "delete" /\ cur \in {n, tree.parent[n]}
  <2>1. tree.parent[n] \in M /\ tree.child[SideOf(tree, n)][tree.parent[n]] = n
    BY <1>2 DEF Joined
  <2>2. SideOf(tree, n) \in Sides
    BY SidesAre
  <2> QED
    BY <1>2, <1>3, <2>1, <2>2 DEF Colours
<1>4. ~tree.red[Sentinel] /\ (tree.red[tree.root] => loop = "insert" /\ cur = tree.root)
  BY <1>2 DEF Colours
<1> QED
  BY <1>1, <1>3, <1>4 DEF NoTwoReds

\* Parents and children agree, and no node is reached twice.
THEOREM TreeIsLinked ==
    Spec => []Linked
  BY TreeInvariant, LinkedInv, PTL

\* The nodes are in the order of their keys, also across the overflow.
THEOREM TreeOrdered ==
    Spec => []Ordered
  BY TreeInvariant, OrderedInv, PTL

\* Two reds in a row are only where a loop is about to mend them.
THEOREM ReadyToMend ==
    Spec => []NoTwoReds
  BY TreeInvariant, NoTwoRedsInv, PTL

-----------------------------------------------------------------------------
(* Counting from the root                                                  *)

\* The blacks from the root to n
Blacks(t, n) == Cardinality({m \in Above(t, n) : ~t.red[m]})

\* Above a node are itself and what is above its parent.
LEMMA AboveParent ==
    ASSUME NEW t \in Trees, NEW B, Describes(t, B), t.root # Sentinel
    PROVE  /\ Above(t, t.root) = {t.root}
           /\ \A n \in B[t.root] : Above(t, n) \subseteq B[t.root] /\ n \in Above(t, n)
           /\ \A n \in B[t.root] \ {t.root} : /\ Above(t, n) = Above(t, t.parent[n]) \cup {n}
                                              /\ n \notin Above(t, t.parent[n])
<1>1. t.root \in B[t.root] /\ \A n \in B[t.root] : Above(t, n) = {a \in B[t.root] : n \in B[a]} /\ n \in B[n]
  <2>1. t.root \in B[t.root]
    BY DEF Describes
  <2>2. ASSUME NEW n \in B[t.root] PROVE Above(t, n) = {a \in B[t.root] : n \in B[a]} /\ n \in B[n]
    BY AboveIs, ChildBelow, SidesAre
  <2> QED
    BY <2>1, <2>2
<1>2. Above(t, t.root) = {t.root}
  BY <1>1, NotBelowEachOther
<1>3. ASSUME NEW n \in B[t.root] \ {t.root}
      PROVE  Above(t, n) = Above(t, t.parent[n]) \cup {n} /\ n \notin Above(t, t.parent[n])
  <2>1. /\ t.parent[n] \in B[t.root]
        /\ \A a \in B[t.root] \ {n} : n \in B[a] => t.parent[n] \in B[a]
    BY ParentAbove
  <2>2. PICK s \in Sides : t.child[s][t.parent[n]] = n
    BY DEF Describes
  <2>3. t.parent[n] \notin B[n] /\ n \in B[t.parent[n]]
    <3>1. t.parent[n] \notin B[n]
      BY <2>1, <2>2 DEF Describes
    <3>2. B[n] \subseteq B[t.parent[n]]
      BY <2>1, <2>2, ChildBelow
    <3> QED
      BY <1>1, <3>1, <3>2
  <2>4. \A a \in B[t.root] : t.parent[n] \in B[a] => n \in B[a]
    BY <2>3, Nested
  <2>5. Above(t, t.parent[n]) = {a \in B[t.root] : t.parent[n] \in B[a]}
    BY <1>1, <2>1
  <2>6. Above(t, n) = {a \in B[t.root] : n \in B[a]}
    BY <1>1
  <2> QED
    BY <1>1, <2>1, <2>3, <2>4, <2>5, <2>6
<1> QED
  BY <1>1, <1>2, <1>3

\* A tree in which the step from p to c is short of a black, if p is not NULL
Counts(t, B, M, h, p, q, c) ==
    /\ Describes(t, B) /\ B[t.root] = M /\ t.root # Sentinel /\ Even(t, M, h, p, q)
    /\ p = NULL \/ (p \in M /\ q \in Sides /\ t.child[q][p] = c /\ c # t.root)

\* From the root to n and on to the sentinel there are as many as from the root.
LEMMA BlacksDown ==
    ASSUME NEW t \in Trees, NEW B, NEW M, NEW h, NEW p, NEW q, NEW c, Counts(t, B, M, h, p, q, c),
           NEW n \in M
    PROVE  /\ Blacks(t, n) \in Nat
           /\ Blacks(t, n) + h[n] + (IF p # NULL /\ c \in Above(t, n) THEN 1 ELSE 0) = h[t.root] + Weight(t, n)
<1> DEFINE Cross(m) == IF p # NULL /\ c \in Above(t, m) THEN 1 ELSE 0
           Good(m) == Blacks(t, m) + h[m] + Cross(m) = h[t.root] + Weight(t, m)
           Odd == {m \in M : ~Good(m)}
<1>0. /\ Describes(t, B) /\ B[t.root] = M /\ t.root # Sentinel /\ Even(t, M, h, p, q)
      /\ p = NULL \/ (p \in M /\ q \in Sides /\ t.child[q][p] = c /\ c # t.root)
  BY DEF Counts
<1> USE <1>0
<1>1. M \subseteq Nodes /\ M \subseteq All /\ t.root \in M /\ NULL \notin M /\ IsFiniteSet(M)
  BY NodeAssumption, FS_Subset DEF Describes, Trees, All
<1>2. /\ Above(t, t.root) = {t.root}
      /\ \A m \in M : Above(t, m) \subseteq M /\ m \in Above(t, m)
      /\ \A m \in M \ {t.root} : Above(t, m) = Above(t, t.parent[m]) \cup {m} /\ m \notin Above(t, t.parent[m])
  BY AboveParent
<1>3. ASSUME NEW m \in M PROVE Blacks(t, m) \in Nat /\ IsFiniteSet({a \in Above(t, m) : ~t.red[a]})
  <2>1. IsFiniteSet({a \in Above(t, m) : ~t.red[a]})
    <3>1. {a \in Above(t, m) : ~t.red[a]} \subseteq M
      BY <1>2
    <3> QED
      BY <1>1, <3>1, FS_Subset
  <2> QED
    BY <2>1, FS_CardinalityType DEF Blacks
<1>4. /\ h \in [All -> Nat]
      /\ \A a \in M, s \in Sides :
            h[a] = h[t.child[s][a]] + Weight(t, a) + IF a = p /\ s = q THEN 1 ELSE 0
  BY DEF Even
<1>5. \A m \in M : h[m] \in Nat /\ Weight(t, m) \in Nat
  BY <1>1, <1>4 DEF Weight
<1>6. Good(t.root)
  <2>1. Blacks(t, t.root) = Weight(t, t.root)
    <3>1. CASE t.red[t.root]
      <4>1. {m \in Above(t, t.root) : ~t.red[m]} = {}
        BY <1>2, <3>1
      <4> QED
        BY <3>1, <4>1, FS_EmptySet DEF Blacks, Weight
    <3>2. CASE ~t.red[t.root]
      <4>1. {m \in Above(t, t.root) : ~t.red[m]} = {t.root}
        BY <1>2, <3>2
      <4> QED
        BY <3>2, <4>1, FS_Singleton DEF Blacks, Weight
    <3> QED
      BY <3>1, <3>2
  <2>2. Cross(t.root) = 0
    BY <1>2
  <2> HIDE DEF Cross
  <2> QED
    BY <1>1, <1>5, <2>1, <2>2
<1>7. ASSUME NEW m \in M \ {t.root}, Good(t.parent[m]) PROVE Good(m)
  <2>1. PICK a : a = t.parent[m]
    OBVIOUS
  <2>2. a \in M /\ SideOf(t, m) \in Sides /\ t.child[SideOf(t, m)][a] = m
    BY <2>1, ParentIs, SidesAre
  <2>3. Above(t, m) = Above(t, a) \cup {m} /\ m \notin Above(t, a)
    BY <1>2, <2>1
  <2>4. Blacks(t, m) = Blacks(t, a) + Weight(t, m)
    <3>1. CASE t.red[m]
      <4>1. {j \in Above(t, m) : ~t.red[j]} = {j \in Above(t, a) : ~t.red[j]}
        BY <2>3, <3>1
      <4> QED
        BY <1>3, <2>2, <3>1, <4>1 DEF Blacks, Weight
    <3>2. CASE ~t.red[m]
      <4>1. {j \in Above(t, m) : ~t.red[j]} = {j \in Above(t, a) : ~t.red[j]} \cup {m}
        BY <2>3, <3>2
      <4>2. m \notin {j \in Above(t, a) : ~t.red[j]} /\ IsFiniteSet({j \in Above(t, a) : ~t.red[j]})
        BY <1>3, <2>2, <2>3
      <4>3. Cardinality({j \in Above(t, a) : ~t.red[j]} \cup {m}) = Cardinality({j \in Above(t, a) : ~t.red[j]}) + 1
        BY <4>2, FS_AddElement
      <4> QED
        BY <3>2, <4>1, <4>3 DEF Blacks, Weight
    <3> QED
      BY <3>1, <3>2
  <2>5. Cross(m) = Cross(a) + (IF p # NULL /\ c = m THEN 1 ELSE 0)
    BY <2>3
  <2>6. (a = p /\ SideOf(t, m) = q) <=> (p # NULL /\ c = m)
    <3>1. p \in M /\ q \in Sides /\ t.child[q][p] # Sentinel =>
             t.parent[t.child[q][p]] = p /\ SideOf(t, t.child[q][p]) = q
      BY ParentIs
    <3>2. m # Sentinel
      BY <1>1, NodeAssumption
    <3> QED
      BY <1>1, <2>1, <2>2, <3>1, <3>2
  <2>7. h[a] = h[m] + Weight(t, a) + (IF p # NULL /\ c = m THEN 1 ELSE 0)
    <3>1. h[a] = h[t.child[SideOf(t, m)][a]] + Weight(t, a) + IF a = p /\ SideOf(t, m) = q THEN 1 ELSE 0
      BY <1>4, <2>2
    <3> QED
      BY <2>2, <2>6, <3>1
  <2>8. Cross(a) \in Nat
    OBVIOUS
  <2>9. Blacks(t, a) + h[a] + Cross(a) = h[t.root] + Weight(t, a)
    BY <1>7, <2>1
  <2> HIDE DEF Cross
  <2>10. /\ Blacks(t, a) \in Nat /\ h[a] \in Nat /\ h[m] \in Nat /\ h[t.root] \in Nat
         /\ Weight(t, a) \in Nat /\ Weight(t, m) \in Nat
    BY <1>1, <1>3, <1>5, <2>2
  <2>11. CASE p # NULL /\ c = m
    <3>1. Cross(m) = Cross(a) + 1 /\ h[a] = h[m] + Weight(t, a) + 1
      BY <2>5, <2>7, <2>11
    <3>2. \A x, y, v, w, k, f \in Nat : x + (k + v + 1) + f = w + v => (x + y) + k + (f + 1) = w + y
      OBVIOUS
    <3>3. Blacks(t, a) + (h[m] + Weight(t, a) + 1) + Cross(a) = h[t.root] + Weight(t, a)
      BY <2>9, <3>1
    <3>4. (Blacks(t, a) + Weight(t, m)) + h[m] + (Cross(a) + 1) = h[t.root] + Weight(t, m)
      BY <2>8, <2>10, <3>2, <3>3
    <3> QED
      BY <2>4, <3>1, <3>4
  <2>12. CASE ~(p # NULL /\ c = m)
    <3>1. Cross(m) = Cross(a) /\ h[a] = h[m] + Weight(t, a)
      BY <2>5, <2>7, <2>8, <2>10, <2>12
    <3> QED
      BY <2>4, <2>8, <2>9, <2>10, <3>1
  <2> QED
    BY <2>11, <2>12
<1> HIDE DEF Good
<1>8. Odd = {}
  <2>1. SUFFICES ASSUME Odd # {} PROVE FALSE
    OBVIOUS
  <2>2. \E m \in Odd : \A j \in Odd : Above(t, j) \subseteq Above(t, m) => Above(t, j) = Above(t, m)
    <3> DEFINE T == {Above(t, m) : m \in Odd}
    <3>1. T \subseteq SUBSET Nodes /\ T # {}
      BY <1>1, <1>2, <2>1
    <3> HIDE DEF T
    <3>2. PICK X \in T : \A Y \in T : Y \subseteq X => Y = X
      BY <3>1, LeastSet
    <3> QED
      BY <3>2 DEF T
  <2>3. PICK m \in Odd : \A j \in Odd : Above(t, j) \subseteq Above(t, m) => Above(t, j) = Above(t, m)
    BY <2>2
  <2>4. m \in M \ {t.root} /\ ~Good(m)
    BY <1>6
  <2>5. t.parent[m] \in M /\ Above(t, m) = Above(t, t.parent[m]) \cup {m} /\ m \notin Above(t, t.parent[m])
    BY <1>2, <2>4, ParentIs
  <2>6. t.parent[m] \notin Odd
    BY <2>3, <2>5
  <2>7. Good(t.parent[m])
    BY <2>5, <2>6
  <2> QED
    BY <1>7, <2>4, <2>7
<1>9. Good(n)
  BY <1>8
<1> QED
  BY <1>3, <1>9 DEF Good

\* The same for a whole path: the step that is short of a black counts for one.
LEMMA BlacksToEnd ==
    ASSUME NEW t \in Trees, NEW B, NEW M, NEW h, NEW p, NEW q, NEW c, Counts(t, B, M, h, p, q, c),
           NEW n \in M, NEW s \in Sides, t.child[s][n] = Sentinel
    PROVE  /\ Blacks(t, n) \in Nat
           /\ h[t.root] = Blacks(t, n) + IF p # NULL /\ (c \in Above(t, n) \/ (n = p /\ s = q)) THEN 1 ELSE 0
<1>1. /\ Blacks(t, n) \in Nat
      /\ Blacks(t, n) + h[n] + (IF p # NULL /\ c \in Above(t, n) THEN 1 ELSE 0) = h[t.root] + Weight(t, n)
  BY BlacksDown
<1>0. /\ Describes(t, B) /\ B[t.root] = M /\ t.root # Sentinel /\ Even(t, M, h, p, q)
      /\ p = NULL \/ (p \in M /\ q \in Sides /\ t.child[q][p] = c /\ c # t.root)
  BY DEF Counts
<1> USE <1>0
<1>2. /\ h \in [All -> Nat] /\ h[Sentinel] = 0
      /\ h[n] = h[t.child[s][n]] + Weight(t, n) + IF n = p /\ s = q THEN 1 ELSE 0
  BY DEF Even
<1>3. M \subseteq Nodes /\ Sentinel \notin Nodes /\ NULL \notin Nodes /\ t.root \in All
  BY NodeAssumption DEF Describes, Trees, All
<1>4. h[t.root] \in Nat /\ Weight(t, n) \in Nat
  BY <1>2, <1>3 DEF Weight
<1>5. h[n] = Weight(t, n) + IF n = p /\ s = q THEN 1 ELSE 0
  BY <1>2, <1>4
<1>6. Above(t, n) \subseteq M
  BY AboveParent
<1>7. CASE p # NULL /\ c \in Above(t, n)
  <2>1. ~(n = p /\ s = q)
    BY <1>3, <1>6, <1>7
  <2>2. h[n] = Weight(t, n)
    BY <1>4, <1>5, <2>1
  <2> QED
    BY <1>1, <1>4, <1>7, <2>2
<1>8. CASE ~(p # NULL /\ c \in Above(t, n))
  <2>1. CASE n = p /\ s = q
    <3>1. h[n] = Weight(t, n) + 1 /\ p # NULL
      BY <1>3, <1>5, <2>1
    <3> QED
      BY <1>1, <1>4, <1>8, <2>1, <3>1
  <2>2. CASE ~(n = p /\ s = q)
    <3>1. h[n] = Weight(t, n)
      BY <1>4, <1>5, <2>2
    <3> QED
      BY <1>1, <1>4, <1>8, <2>2, <3>1
  <2> QED
    BY <2>1, <2>2
<1> QED
  BY <1>7, <1>8

\* Where the step is that is short of a black
LEMMA ShortStep ==
    ASSUME IInv
    PROVE  \E h, p, q : /\ Even(tree, Members, h, p, q)
                        /\ loop # "delete" \/ cur = tree.root => p = NULL
                        /\ loop = "delete" /\ cur # tree.root =>
                              /\ p \in Members /\ q \in Sides /\ tree.child[q][p] = cur /\ tree.parent[cur] = p
                              /\ cur = Sentinel => q = SideOf(tree, cur)
<1>1. PICK M : M = Members
  OBVIOUS
<1>2. tree \in Trees /\ Sound(tree, M, key, loop, cur) /\ Joined(tree, M) /\ Colours(tree, M, loop, cur)
  BY <1>1, TreeIs DEF IInv
<1>3. PICK h, p, q : Fits(tree, M, key, h, p, q) /\ Even(tree, M, h, p, q) /\ At(tree, M, loop, cur, p, q)
  BY <1>1, TreeIs
<1>4. CASE loop = "delete" /\ cur # tree.root /\ cur = Sentinel
  <2>1. p \in M /\ q \in Sides /\ tree.child[q][p] = cur /\ tree.parent[cur] = p
    BY <1>3, <1>4 DEF At
  <2>2. ShortOfBlack(tree, cur)
    BY <1>2, <1>4 DEF ShortOfBlack, Colours
  <2>3. PICK s : s = SideOf(tree, cur)
    OBVIOUS
  <2>4. PICK g : Fits(tree, M, key, g, p, s)
    BY <1>2, <1>4, <2>1, <2>2, <2>3, MendSees
  <2>5. ShortAt(tree, M, cur, p, s, tree.child[Mirror(s)][p])
    BY <1>2, <1>4, <2>1, <2>2, <2>3, MendSees
  <2>6. Even(tree, M, g, p, s)
    BY <2>4 DEF Fits
  <2>7. s \in Sides /\ tree.child[s][p] = cur
    BY <2>3, <2>5, SidesAre DEF ShortAt
  <2> QED
    BY <1>1, <1>4, <2>1, <2>3, <2>6, <2>7
<1>5. CASE ~(loop = "delete" /\ cur # tree.root /\ cur = Sentinel)
  <2>1. /\ loop # "delete" \/ cur = tree.root => p = NULL
        /\ loop = "delete" /\ cur # tree.root =>
              p \in M /\ q \in Sides /\ tree.child[q][p] = cur /\ tree.parent[cur] = p
    BY <1>3 DEF At
  <2> QED
    BY <1>1, <1>3, <1>5, <2>1
<1> QED
  BY <1>4, <1>5

\* The invariant says that every path has as many blacks.
LEMMA EvenPathsInv ==
    IInv => EvenPaths
<1> SUFFICES ASSUME IInv PROVE EvenPaths
  OBVIOUS
<1>1. PICK M : M = Members
  OBVIOUS
<1>2. tree \in Trees /\ Joined(tree, M)
  BY <1>1, TreeIs
<1>3. PICK B : Describes(tree, B) /\ B[tree.root] = M
  BY <1>1, TreeIs
<1>4. PICK h, p, q : /\ Even(tree, M, h, p, q)
                     /\ loop # "delete" \/ cur = tree.root => p = NULL
                     /\ loop = "delete" /\ cur # tree.root =>
                           /\ p \in M /\ q \in Sides /\ tree.child[q][p] = cur /\ tree.parent[cur] = p
                           /\ cur = Sentinel => q = SideOf(tree, cur)
  BY <1>1, ShortStep
<1> DEFINE passesCur(e) ==
             IF cur = Sentinel THEN e = <<tree.parent[cur], SideOf(tree, cur)>>
                               ELSE cur \in Above(tree, e[1])
           blacks(e) == Cardinality({m \in Above(tree, e[1]) : ~tree.red[m]})
                        + IF loop = "delete" /\ passesCur(e) THEN 1 ELSE 0
           all == h[tree.root] + IF loop = "delete" /\ cur = tree.root THEN 1 ELSE 0
<1>5. ASSUME NEW n \in M, NEW s \in Sides, tree.child[s][n] = Sentinel PROVE blacks(<<n, s>>) = all
  <2>1. tree.root # Sentinel /\ tree.root \in M /\ Sentinel \notin M /\ NULL \notin M
    BY <1>2, <1>5 DEF Joined
  <2>2. p = NULL \/ (p \in M /\ q \in Sides /\ tree.child[q][p] = cur /\ cur # tree.root)
    BY <1>4
  <2>3. /\ Blacks(tree, n) \in Nat
        /\ h[tree.root] = Blacks(tree, n) +
              IF p # NULL /\ (cur \in Above(tree, n) \/ (n = p /\ s = q)) THEN 1 ELSE 0
    <3>1. Counts(tree, B, M, h, p, q, cur)
      BY <1>3, <1>4, <2>1, <2>2 DEF Counts
    <3> QED
      BY <1>2, <1>5, <3>1, BlacksToEnd
  <2>4. blacks(<<n, s>>) = Blacks(tree, n) + IF loop = "delete" /\ passesCur(<<n, s>>) THEN 1 ELSE 0
    BY DEF Blacks
  <2>5. Above(tree, n) = {a \in M : n \in B[a]}
    BY <1>2, <1>3, AboveIs
  <2>6. CASE loop # "delete"
    <3>1. p = NULL
      BY <1>4, <2>6
    <3> HIDE DEF blacks, passesCur
    <3> QED
      BY <2>3, <2>4, <2>6, <3>1
  <2>7. CASE loop = "delete" /\ cur = tree.root
    <3>1. p = NULL
      BY <1>4, <2>7
    <3>2. passesCur(<<n, s>>)
      BY <1>3, <2>1, <2>5, <2>7
    <3> HIDE DEF blacks, passesCur
    <3> QED
      BY <2>3, <2>4, <2>7, <3>1, <3>2
  <2>8. CASE loop = "delete" /\ cur # tree.root
    <3>1. p \in M /\ p # NULL /\ tree.child[q][p] = cur /\ tree.parent[cur] = p
      BY <1>4, <2>1, <2>8
    <3>2. passesCur(<<n, s>>) <=> cur \in Above(tree, n) \/ (n = p /\ s = q)
      <4>1. CASE cur = Sentinel
        <5>1. q = SideOf(tree, cur) /\ cur \notin Above(tree, n)
          BY <1>4, <2>1, <2>5, <2>8, <4>1
        <5> QED
          BY <3>1, <4>1, <5>1
      <4>2. CASE cur # Sentinel
        <5>1. ~(n = p /\ s = q)
          BY <1>5, <3>1, <4>2
        <5> QED
          BY <4>2, <5>1
      <4> QED
        BY <4>1, <4>2
    <3> HIDE DEF blacks, passesCur
    <3> QED
      BY <2>3, <2>4, <2>8, <3>1, <3>2
  <2> QED
    BY <2>6, <2>7, <2>8
<1> HIDE DEF blacks, all
<1>6. ASSUME NEW e \in {e \in M \X Sides : tree.child[e[2]][e[1]] = Sentinel} PROVE blacks(e) = all
  <2>1. e = <<e[1], e[2]>> /\ e[1] \in M /\ e[2] \in Sides /\ tree.child[e[2]][e[1]] = Sentinel
    BY <1>6
  <2> QED
    BY <1>5, <2>1
<1>7. \A d, e \in {e \in M \X Sides : tree.child[e[2]][e[1]] = Sentinel} : blacks(d) = blacks(e)
  BY <1>6
<1> USE DEF blacks
<1> QED
  BY <1>1, <1>7 DEF EvenPaths

\* Every path has as many blacks, in every pass of a loop.
THEOREM TreeEven ==
    Spec => []EvenPaths
  BY TreeInvariant, EvenPathsInv, PTL

-----------------------------------------------------------------------------
(* The refinement of TimerSet                                              *)

\* The order that only says that x comes first
Rank(x) == [m \in Nodes |-> IF m = x THEN 0 ELSE 1]

\* What Before() says of it
LEMMA RankOrder ==
    ASSUME NEW x, NEW a \in Nodes, NEW b \in Nodes
    PROVE  Before(Rank(x)[a], Rank(x)[b]) <=> a = x /\ b # x
<1>1. HalfRange \in Nat /\ HalfRange > 1 /\ KeyRange \in Nat /\ KeyRange = 2 * HalfRange /\ KeyRange > 1
  BY WidthAssumption DEF KeyRange
<1>2. ~Before(0, 0) /\ ~Before(1, 1) /\ ~Before(1, 0) /\ Before(0, 1)
  <2>1. (0 - 0) % KeyRange = 0 /\ (1 - 1) % KeyRange = 0
    BY <1>1
  <2>2. (1 - 0) % KeyRange = 1
    BY <1>1
  <2>3. (0 - 1) % KeyRange = KeyRange - 1
    BY <1>1, Remainder
  <2> QED
    BY <1>1, <2>1, <2>2, <2>3 DEF Before
<1> QED
  BY <1>2 DEF Rank

\* A tree is sorted by the rank of its first node.
LEMMA FirstRanks ==
    ASSUME NEW t \in Trees, NEW B, Describes(t, B), t.root # Sentinel
    PROVE  First(t) \in B[t.root] /\ Sorted(t, B, Rank(First(t))) /\ Orders(Rank(First(t)), B[t.root])
<1>1. PICK way : way = [m \in Nodes |-> "left"]
  OBVIOUS
<1>2. way \in [Nodes -> Sides] /\ \A m \in Nodes : way[m] = "left"
  BY <1>1 DEF Sides
<1>3. PICK x : x = Last(t, way, t.root)
  OBVIOUS
<1>4. First(t) = x
  BY <1>1, <1>3 DEF First, Furthest
<1>5. /\ B \in [All -> SUBSET Nodes] /\ B[Sentinel] = {} /\ B[t.root] \subseteq Nodes /\ t.root \in B[t.root]
      /\ \A n \in B[t.root] : B[t.child["left"][n]] \cap B[t.child["right"][n]] = {}
  BY DEF Describes, Trees, All
<1>6. x \in B[t.root] /\ t.child[way[x]][x] = Sentinel /\ OnPath(t, B, way, t.root, x)
  BY <1>2, <1>3, <1>5, LastIs
<1>7. x \in Nodes /\ B[t.child["left"][x]] = {}
  BY <1>2, <1>5, <1>6
<1>8. \A a, b \in Nodes : Before(Rank(x)[a], Rank(x)[b]) <=> a = x /\ b # x
  BY RankOrder
<1>9. ASSUME NEW n \in B[t.root], NEW s \in Sides, NEW m \in B[t.child[s][n]]
      PROVE  MayLie(Rank(x), s, m, n)
  <2>1. m \in Nodes /\ n \in Nodes
    <3>1. t.child[s][n] \in All
      BY ChildBelow
    <3> QED
      BY <1>5, <3>1
  <2>2. CASE s = "left"
    <3>1. n # x
      BY <1>7, <1>9, <2>2
    <3> QED
      BY <1>8, <2>1, <2>2, <3>1 DEF MayLie
  <2>3. CASE s = "right"
    <3>1. ~(m = x /\ n # x)
      <4>1. SUFFICES ASSUME m = x, n # x PROVE FALSE
        OBVIOUS
      <4>2. x \in B[n]
        BY <1>9, <2>3, <4>1 DEF Describes
      <4>3. x \in B[t.child["left"][n]]
        BY <1>2, <1>6, <2>1, <4>1, <4>2 DEF OnPath
      <4> QED
        BY <1>5, <1>9, <2>3, <4>1, <4>3
    <3> QED
      BY <1>8, <2>1, <2>3, <3>1 DEF MayLie
  <2> QED
    BY <2>2, <2>3 DEF Sides
<1>10. Sorted(t, B, Rank(x))
  BY <1>9 DEF Sorted
<1>11. Orders(Rank(x), B[t.root])
  BY <1>5, <1>8 DEF Orders
<1> QED
  BY <1>4, <1>6, <1>10, <1>11

\* The first node of a sorted tree is one that no other comes before.
LEMMA FirstLeads ==
    ASSUME NEW t \in Trees, NEW B, Describes(t, B), t.root # Sentinel,
           NEW k, Orders(k, B[t.root]), Sorted(t, B, k)
    PROVE  First(t) \in B[t.root] /\ \A m \in B[t.root] : ~Before(k[m], k[First(t)])
<1>1. PICK way : way = [m \in Nodes |-> "left"]
  OBVIOUS
<1>2. way \in [Nodes -> Sides] /\ (\A m \in Nodes : way[m] = "left") /\ "left" \in Sides
  BY <1>1 DEF Sides
<1>3. PICK x : x = Last(t, way, t.root)
  OBVIOUS
<1>4. First(t) = x
  BY <1>1, <1>3 DEF First, Furthest
<1>5. t.root \in B[t.root] /\ B[t.root] \subseteq Nodes
  BY DEF Describes, Trees, All
<1>6. x \in B[t.root] /\ t.child[way[x]][x] = Sentinel /\ OnPath(t, B, way, t.root, x)
  BY <1>2, <1>3, <1>5, LastIs
<1>7. t.child["left"][x] = Sentinel
  BY <1>2, <1>5, <1>6
<1>8. ASSUME NEW m \in B[t.root] PROVE ~Before(k[m], k[x])
  <2>1. MayLie(k, Mirror("left"), m, x)
    BY <1>2, <1>5, <1>6, <1>7, FurthestOuter
  <2> QED
    BY <2>1 DEF MayLie, Mirror
<1> QED
  BY <1>4, <1>6, <1>8

\* A tree that is sound for some keys is sound for the rank of its first node.
LEMMA RankSound ==
    ASSUME NEW t \in Trees, NEW M, NEW k, NEW l, NEW c, Sound(t, M, k, l, c), t.root # Sentinel
    PROVE  First(t) \in M /\ Orders(Rank(First(t)), M) /\ Sound(t, M, Rank(First(t)), l, c)
<1>1. PICK h, p, q : Fits(t, M, k, h, p, q) /\ Colours(t, M, l, c) /\ At(t, M, l, c, p, q)
  BY DEF Sound
<1>2. PICK B : Describes(t, B) /\ B[t.root] = M /\ Even(t, M, h, p, q)
  BY <1>1 DEF Fits
<1>3. PICK r : r = Rank(First(t))
  OBVIOUS
<1>4. First(t) \in B[t.root] /\ Sorted(t, B, r) /\ Orders(r, B[t.root])
  BY <1>2, <1>3, FirstRanks
<1>5. Fits(t, M, r, h, p, q)
  BY <1>2, <1>4 DEF Fits
<1>6. Sound(t, M, r, l, c)
  BY <1>1, <1>5 DEF Sound
<1> QED
  BY <1>2, <1>3, <1>4, <1>6

\* And only the first node has that rank.
LEMMA RankedFirst ==
    ASSUME NEW t \in Trees, NEW M, NEW x \in M, NEW l, NEW c, Orders(Rank(x), M), Sound(t, M, Rank(x), l, c)
    PROVE  First(t) = x
<1>1. PICK r : r = Rank(x)
  OBVIOUS
<1>2. PICK h, p, q : Fits(t, M, r, h, p, q)
  BY <1>1 DEF Sound
<1>3. PICK B : Describes(t, B) /\ B[t.root] = M /\ Sorted(t, B, r)
  BY <1>2 DEF Fits
<1>4. Joined(t, M)
  BY <1>2, FitsJoined
<1>5. t.root # Sentinel /\ M \subseteq Nodes
  BY <1>4 DEF Joined
<1>6. Orders(r, B[t.root])
  BY <1>1, <1>3
<1>7. First(t) \in M /\ ~Before(r[x], r[First(t)])
  BY <1>3, <1>5, <1>6, FirstLeads
<1> QED
  BY <1>1, <1>5, <1>7, RankOrder

\* What a step has to show for the set of timers
TimersSame == Members' = Members /\ First(tree') = First(tree)

\* The passes of the loops keep the first node, also among nodes that are due at
\* the same time.
LEMMA PassFirst ==
    ASSUME IInv, Recolour \/ Rebalance \/ InsertEnds \/ Mend \/ DeleteEnds
    PROVE  TimersSame
<1>1. PICK M : M = Members
  OBVIOUS
<1>2. tree \in Trees /\ Sound(tree, M, key, loop, cur)
  BY <1>1 DEF IInv, TypeOK
<1>3. Keeps(M)
  BY <1>1, PassKeeps
<1>4. tree' \in Trees /\ Sound(tree', M, key', loop', cur')
  BY <1>3 DEF Keeps
<1>5. Members' = M
  BY <1>4, MembersAre DEF Members
<1>6. Joined(tree, M) /\ Joined(tree', M)
  BY <1>2, <1>4, FitsJoined DEF Sound
<1>7. CASE tree.root = Sentinel
  <2>1. tree'.root = Sentinel
    BY <1>6, <1>7 DEF Joined
  <2> QED
    BY <1>1, <1>5, <1>7, <2>1 DEF TimersSame, First
<1>8. CASE tree.root # Sentinel
  <2>1. PICK x : x = First(tree)
    OBVIOUS
  <2>2. x \in M /\ Orders(Rank(x), M) /\ Sound(tree, M, Rank(x), loop, cur)
    BY <1>2, <1>8, <2>1, RankSound
  <2>3. PICK r : r = Rank(x)
    OBVIOUS
  <2>4. Sound(tree', M, r, loop', cur')
    BY <1>2, <2>2, <2>3, PassSound
  <2>5. First(tree') = x
    BY <1>4, <2>2, <2>3, <2>4, RankedFirst
  <2> QED
    BY <1>1, <1>5, <2>1, <2>5 DEF TimersSame
<1> QED
  BY <1>7, <1>8

\* The set of timers, as the refinement maps it
Due == [n \in Members |-> key[n]]

\* What the tree answers is an earliest timer.
LEMMA FirstAsked ==
    IInv => Timers!Asked(First(tree), Due)
<1> SUFFICES ASSUME IInv PROVE Timers!Asked(First(tree), Due)
  OBVIOUS
<1>1. PICK B : Describes(tree, B) /\ B[tree.root] = Members /\ Sorted(tree, B, key)
  BY TreeIs
<1>2. /\ tree \in Trees /\ Joined(tree, Members) /\ InWindow(key, now, Members)
      /\ now \in Keys
  BY TreeIs DEF IInv, TypeOK
<1>3. Orders(key, Members)
  BY <1>2, WindowOrders
<1>4. \A a, b : Before(a, b) = Timers!Before(a, b)
  BY DEF Before, KeyRange, Timers!Before, Timers!KeyRange
<1>5. DOMAIN Due = Members /\ \A n \in Members : Due[n] = key[n]
  BY DEF Due
<1>6. CASE tree.root = Sentinel
  <2>1. Members = {} /\ First(tree) = NULL
    BY <1>2, <1>6 DEF Joined, First
  <2> QED
    BY <1>5, <2>1 DEF Timers!Asked
<1>7. CASE tree.root # Sentinel
  <2>1. Members # {}
    BY <1>2, <1>7 DEF Joined
  <2>2. First(tree) \in Members /\ \A m \in Members : ~Before(key[m], key[First(tree)])
    BY <1>1, <1>2, <1>3, <1>7, FirstLeads
  <2>3. First(tree) \in Timers!Earliest(Due)
    BY <1>4, <1>5, <2>2 DEF Timers!Earliest
  <2> QED
    BY <1>5, <2>1, <2>3 DEF Timers!Asked
<1> QED
  BY <1>6, <1>7

\* Insertion adds a timer, and leaves the others as they are.
LEMMA InsertAdds ==
    ASSUME IInv, NEW n \in Nodes, NEW ms \in 0..MaxDelay, Insert(n, ms)
    PROVE  Timers!Added(Due, Due')
<1>1. PICK M : M = Members
  OBVIOUS
<1>2. /\ tree \in Trees /\ key \in [Nodes -> Keys] /\ now \in Keys
      /\ InWindow(key, now, M) /\ Sound(tree, M, key, loop, cur)
  BY <1>1 DEF IInv, TypeOK
<1>3. n \in Nodes \ M /\ M \in SUBSET Nodes
  BY <1>1, <1>2, LoopNode DEF Insert
<1>4. \A m \in M : key'[m] = key[m]
  <2>1. \A m \in M \ {n} : key'[m] = key[m]
    BY <1>2, <1>3, InsertWindow
  <2> QED
    BY <1>3, <2>1
<1>5. Keeps(M \cup {n})
  BY <1>1, InsertKeeps
<1>6. Members' = M \cup {n}
  BY <1>5, MembersAre DEF Members, Keeps
<1>7. Due = [m \in M |-> key[m]] /\ Due' = [m \in M \cup {n} |-> key'[m]]
  BY <1>1, <1>6 DEF Due
<1>8. DOMAIN Due = M /\ DOMAIN Due' = M \cup {n} /\ n \in Nodes \ DOMAIN Due
  BY <1>3, <1>7
<1>9. Timers!Restrict(Due', DOMAIN Due) = Due
  BY <1>4, <1>7, <1>8 DEF Timers!Restrict
<1> QED
  BY <1>8, <1>9 DEF Timers!Added

\* Deletion removes a timer, and no other.
LEMMA DeleteRemoves ==
    ASSUME IInv, NEW n, Delete(n)
    PROVE  Timers!Added(Due', Due)
<1>1. PICK M : M = Members
  OBVIOUS
<1>2. tree \in Trees /\ key \in [Nodes -> Keys] /\ Sound(tree, M, key, loop, cur)
  BY <1>1 DEF IInv, TypeOK
<1>3. n \in M /\ M \in SUBSET Nodes
  BY <1>1, <1>2, LoopNode DEF Delete
<1>4. \A m \in M \ {n} : key'[m] = key[m]
  BY <1>2, <1>3 DEF Delete
<1>5. Keeps(M \ {n})
  BY <1>1, DeleteKeeps
<1>6. Members' = M \ {n}
  BY <1>5, MembersAre DEF Members, Keeps
<1>7. Due = [m \in M |-> key[m]] /\ Due' = [m \in M \ {n} |-> key'[m]]
  BY <1>1, <1>6 DEF Due
<1>8. /\ DOMAIN Due = M /\ DOMAIN Due' = M \ {n} /\ n \in Nodes \ DOMAIN Due'
      /\ DOMAIN Due = DOMAIN Due' \cup {n}
  BY <1>3, <1>7
<1>9. Timers!Restrict(Due, DOMAIN Due') = Due'
  BY <1>4, <1>7, <1>8 DEF Timers!Restrict
<1> QED
  BY <1>8, <1>9 DEF Timers!Added

\* Every step is one of the set or leaves it as it is.
LEMMA StepTimers ==
    IInv /\ [Next]_vars => [Timers!Next]_<<Due, First(tree)>>
<1> SUFFICES ASSUME IInv, [Next]_vars PROVE [Timers!Next]_<<Due, First(tree)>>
  OBVIOUS
<1>1. Timers!Asked(First(tree'), Due')
  <2>1. IInv'
    BY StepInv
  <2>2. Timers!Asked(First(tree), Due)'
    BY <2>1, FirstAsked, PTL
  <2> QED
    BY <2>2
<1>2. ASSUME Timers!Added(Due, Due') \/ Timers!Added(Due', Due) PROVE Timers!Next
  BY <1>1, <1>2 DEF Timers!Next, Due
<1>3. ASSUME Members' = Members, First(tree') = First(tree), key' = key
      PROVE  UNCHANGED <<Due, First(tree)>>
  BY <1>3 DEF Due
<1>4. ASSUME NEW n, Delete(n) PROVE Timers!Next
  BY <1>2, <1>4, DeleteRemoves
<1>5. ASSUME NEW n \in Nodes, NEW ms \in 0..MaxDelay, Insert(n, ms) PROVE Timers!Next
  BY <1>2, <1>5, InsertAdds
<1>6. CASE Recolour \/ Rebalance \/ InsertEnds \/ Mend \/ DeleteEnds
  <2>1. key' = key
    BY <1>6 DEF Recolour, Rebalance, InsertEnds, Mend, DeleteEnds
  <2> QED
    BY <1>3, <1>6, <2>1, PassFirst DEF TimersSame
<1>7. CASE Fire
  BY <1>4, <1>7 DEF Fire
<1>8. CASE Tick
  BY <1>3, <1>8 DEF Tick, Members
<1>9. CASE UNCHANGED vars
  BY <1>3, <1>9 DEF vars, Members
<1> QED
  BY <1>4, <1>5, <1>6, <1>7, <1>8, <1>9 DEF Next

\* At first the set is empty.
LEMMA InitTimers ==
    Init => Timers!Init
<1> SUFFICES ASSUME Init PROVE Timers!Init
  OBVIOUS
<1>1. tree.root = Sentinel /\ IInv
  BY InitInv DEF Init
<1>2. First(tree) = NULL
  BY <1>1 DEF First
<1>3. Members = {}
  BY <1>1, TreeIs DEF Joined
<1> QED
  BY <1>2, <1>3 DEF Timers!Init

\* The tree implements the set of timers.
THEOREM TreeKeepsTimers ==
    Spec => KeepsTimers
<1>1. Init => Timers!Init
  BY InitTimers
<1>2. IInv /\ [Next]_vars => [Timers!Next]_<<[n \in Members |-> key[n]], First(tree)>>
  BY StepTimers DEF Due
<1> QED
  BY <1>1, <1>2, TreeInvariant, PTL DEF Spec, KeepsTimers, Timers!Spec

-----------------------------------------------------------------------------
(* The loops end                                                           *)

\* The parent of a node is one step nearer to the root.
LEMMA ParentNearer ==
    ASSUME NEW t \in Trees, NEW B, Describes(t, B), NEW n \in B[t.root] \ {t.root}
    PROVE  /\ t.parent[n] \in B[t.root]
           /\ Cardinality(Above(t, n)) \in Nat /\ Cardinality(Above(t, t.parent[n])) \in Nat
           /\ Cardinality(Above(t, n)) = Cardinality(Above(t, t.parent[n])) + 1
<1>1. t.root # Sentinel /\ t.parent[n] \in B[t.root] /\ B[t.root] \subseteq Nodes
  BY DEF Describes, Trees, All
<1>2. PICK A : A = Above(t, t.parent[n])
  OBVIOUS
<1>3. Above(t, n) = A \cup {n} /\ n \notin A /\ A \subseteq Nodes
  BY <1>1, <1>2, AboveParent
<1>4. IsFiniteSet(A)
  BY <1>3, NodeAssumption, FS_Subset
<1>5. Cardinality(A) \in Nat /\ Cardinality(A \cup {n}) = Cardinality(A) + 1
  BY <1>3, <1>4, FS_CardinalityType, FS_AddElement
<1> QED
  BY <1>1, <1>2, <1>3, <1>5

\* A tree whose pointers are the same has the same paths.
LEMMA SameAbove ==
    ASSUME NEW t, NEW u, SamePointers(u, t), NEW n
    PROVE  Above(u, n) = Above(t, n)
  BY DEF SamePointers, Above

\* A pass of a loop is its last or it moves up.
LEMMA StepClimbs ==
    ASSUME IInv, Next, loop # "none", loop' = loop
    PROVE  ~Again(tree', cur') \/ Depth(tree', cur') < Depth(tree, cur)
<1>1. PICK M, B : /\ M = Members /\ tree \in Trees /\ Sound(tree, M, key, loop, cur) /\ Joined(tree, M)
                  /\ Describes(tree, B) /\ B[tree.root] = M /\ Orders(key, M)
  <2>1. InWindow(key, now, Members) /\ now \in Keys /\ Sound(tree, Members, key, loop, cur)
    BY DEF IInv, TypeOK
  <2> QED
    BY <2>1, TreeIs, WindowOrders
<1>2. Sentinel \notin M /\ M \subseteq Nodes
  BY <1>1 DEF Joined
<1>3. CASE Recolour
  <2>1. PICK P, G, S, U :
          /\ P = tree.parent[cur] /\ G = tree.parent[P] /\ S = SideOf(tree, P) /\ U = tree.child[Mirror(S)][G]
          /\ loop = "insert" /\ TwoReds(tree, cur) /\ tree.red[U]
          /\ tree' = Paint(Paint(Paint(tree, P, FALSE), U, FALSE), G, TRUE)
          /\ cur' = G
    BY <1>3 DEF Recolour, Parent, Grand, Side, Uncle
  <2>2. Colours(tree, M, "insert", cur) /\ cur \in M /\ tree.red[cur]
    BY <1>1, <2>1 DEF Sound, At
  <2>3. TwoRedsAt(tree, M, cur, P, G, S, U)
    BY <1>1, <2>1, <2>2, InsertSees
  <2>4. /\ cur \in M \ {tree.root} /\ P \in M \ {tree.root} /\ G \in M
        /\ P = tree.parent[cur] /\ G = tree.parent[P]
    BY <2>3 DEF TwoRedsAt
  <2>5. U \in M \cup {Sentinel}
    BY <2>3 DEF TwoRedsAt
  <2>6. SamePointers(tree', tree)
    <3>1. ThreePainted(tree', tree, P, U, G)
      BY <1>1, <1>2, <2>1, <2>4, <2>5, ThreePaint DEF All
    <3> QED
      BY <3>1 DEF ThreePainted, SamePointers
  <2>7. /\ Cardinality(Above(tree, cur)) \in Nat /\ Cardinality(Above(tree, P)) \in Nat
        /\ Cardinality(Above(tree, G)) \in Nat
        /\ Cardinality(Above(tree, cur)) = Cardinality(Above(tree, P)) + 1
        /\ Cardinality(Above(tree, P)) = Cardinality(Above(tree, G)) + 1
    BY <1>1, <2>4, ParentNearer
  <2>8. Above(tree', G) = Above(tree, G)
    BY <2>6, SameAbove
  <2>9. Depth(tree', G) = Cardinality(Above(tree, G)) /\ Depth(tree, cur) = Cardinality(Above(tree, cur))
    BY <1>2, <2>4, <2>8 DEF Depth
  <2>10. Depth(tree', cur') = Cardinality(Above(tree, G))
    BY <2>1, <2>9
  <2> QED
    BY <2>7, <2>9, <2>10
<1>4. CASE Rebalance
  <2>1. ~TwoReds(tree', cur')
    BY <1>1, <1>4, RebalanceSound
  <2>2. loop = "insert"
    BY <1>4 DEF Rebalance
  <2> QED
    BY <2>1, <2>2 DEF Again
<1>5. CASE Mend
  <2>1. Climbs(tree', cur', tree, cur, M)
    BY <1>1, <1>5, MendSound
  <2>2. loop = "delete"
    BY <1>5 DEF Mend
  <2>3. CASE cur' = tree'.root \/ tree'.red[cur']
    BY <2>2, <2>3 DEF Again, ShortOfBlack
  <2>4. CASE ~(cur' = tree'.root \/ tree'.red[cur'])
    <3>1. PICK p : p = tree.parent[cur]
      OBVIOUS
    <3>2. cur' = p /\ p \in M /\ cur \in (M \ {tree.root}) \cup {Sentinel} /\ SamePointers(tree', tree)
      BY <2>1, <2>4, <3>1 DEF Climbs
    <3>3. Above(tree', p) = Above(tree, p)
      BY <3>2, SameAbove
    <3>4. Depth(tree', cur') = Cardinality(Above(tree, p))
      BY <1>2, <3>2, <3>3 DEF Depth
    <3>5. CASE cur = Sentinel
      <4>1. Depth(tree, cur) = Cardinality(Above(tree, p)) + 1
        BY <3>1, <3>5 DEF Depth
      <4>2. Cardinality(Above(tree, p)) \in Nat
        <5>1. tree.root # Sentinel
          BY <1>1, <3>2 DEF Describes
        <5>2. Above(tree, p) \subseteq Nodes
          BY <1>1, <1>2, <3>2, <5>1, AboveParent
        <5> QED
          BY <5>2, NodeAssumption, FS_Subset, FS_CardinalityType
      <4> QED
        BY <3>4, <4>1, <4>2
    <3>6. CASE cur # Sentinel
      <4>1. cur \in B[tree.root] \ {tree.root}
        BY <1>1, <3>2, <3>6
      <4>2. /\ Cardinality(Above(tree, p)) \in Nat
            /\ Cardinality(Above(tree, cur)) = Cardinality(Above(tree, p)) + 1
        BY <1>1, <3>1, <4>1, ParentNearer
      <4> QED
        BY <3>4, <3>6, <4>2 DEF Depth
    <3> QED
      BY <3>5, <3>6
  <2> QED
    BY <2>3, <2>4
<1> QED
  BY <1>3, <1>4, <1>5 DEF Next, Insert, Delete, InsertEnds, DeleteEnds, Fire, Tick

\* The loops end: each pass is the last one or goes on nearer to the root.
THEOREM TreeLoopsClimb ==
    Spec => LoopsClimb
<1>1. IInv /\ [Next]_vars =>
        [loop # "none" /\ loop' = loop =>
           ~Again(tree', cur') \/ Depth(tree', cur') < Depth(tree, cur)]_vars
  BY StepClimbs
<1> QED
  BY <1>1, TreeInvariant, PTL DEF Spec, LoopsClimb

-----------------------------------------------------------------------------
(* Stepping from node to node                                              *)

\* The way that always takes the side s
Always(s) == [m \in Nodes |-> s]

\* n is the last node of the tree to the side s.
Ends(t, B, s, n) == OnPath(t, B, Always(s), t.root, n) /\ t.child[s][n] = Sentinel

\* m follows n to the side s: as the last on the way back below n, or as the
\* node n is the last below.
Follows(t, B, s, n, m) ==
    \/ /\ t.child[s][n] # Sentinel /\ t.child[Mirror(s)][m] = Sentinel
       /\ OnPath(t, B, Always(Mirror(s)), t.child[s][n], m)
    \/ /\ t.child[s][n] = Sentinel /\ t.child[Mirror(s)][m] # Sentinel
       /\ OnPath(t, B, Always(s), t.child[Mirror(s)][m], n)

\* Of two nodes above another, one is above the other.
LEMMA Chain ==
    ASSUME NEW t \in Trees, NEW B, Describes(t, B), NEW a \in B[t.root], NEW b \in B[t.root],
           NEW n \in B[a], n \in B[b]
    PROVE  a \in B[b] \/ b \in B[a]
<1> DEFINE S == {j \in B[t.root] : a \in B[j] /\ b \in B[j]}
<1>1. B \in [All -> SUBSET Nodes] /\ B[Sentinel] = {} /\ t.root \in B[t.root] /\ S \in SUBSET Nodes /\ t.root \in S
  BY DEF Describes, Trees, All
<1> HIDE DEF S
<1>2. PICK j \in S : \A i \in S : B[i] \subseteq B[j] => B[i] = B[j]
  BY <1>1, LeastSubtree
<1>3. j \in B[t.root] /\ a \in B[j] /\ b \in B[j]
  BY <1>2 DEF S
<1>4. SUFFICES ASSUME a # j, b # j PROVE FALSE
  BY <1>3
<1>5. /\ B[j] = {j} \cup B[t.child["left"][j]] \cup B[t.child["right"][j]]
      /\ B[t.child["left"][j]] \cap B[t.child["right"][j]] = {}
  BY <1>3 DEF Describes
<1>6. ASSUME NEW s \in Sides, a \in B[t.child[s][j]] PROVE n \in B[t.child[s][j]] /\ b \notin B[t.child[s][j]]
  <2>1. PICK c : c = t.child[s][j]
    OBVIOUS
  <2>2. c \in B[t.root] /\ B[c] \subseteq B[j] /\ B[c] # B[j]
    BY <1>1, <1>3, <1>6, <2>1, ChildBelow
  <2>3. n \in B[c]
    BY <1>6, <2>1, <2>2, Nested
  <2>4. b \notin B[c]
    BY <1>2, <1>6, <2>1, <2>2 DEF S
  <2> QED
    BY <2>1, <2>3, <2>4
<1>7. ASSUME NEW s \in Sides, b \in B[t.child[s][j]] PROVE n \in B[t.child[s][j]]
  <2>1. PICK c : c = t.child[s][j]
    OBVIOUS
  <2>2. c \in B[t.root]
    BY <1>1, <1>3, <1>7, <2>1, ChildBelow
  <2> QED
    BY <1>7, <2>1, <2>2, Nested
<1> QED
  BY <1>3, <1>4, <1>5, <1>6, <1>7 DEF Sides

\* It can only be one node, and none follows the last.
LEMMA FollowsOne ==
    ASSUME NEW t \in Trees, NEW B, Describes(t, B), NEW s \in Sides, NEW n \in B[t.root], NEW m \in B[t.root],
           Follows(t, B, s, n, m)
    PROVE  /\ Follows(t, B, Mirror(s), m, n)
           /\ ~Ends(t, B, s, n)
           /\ \A j \in B[t.root] : Follows(t, B, s, n, j) => j = m
<1> DEFINE o == Mirror(s)
           M == B[t.root]
<1>1. /\ B \in [All -> SUBSET Nodes] /\ B[Sentinel] = {} /\ M \subseteq Nodes
      /\ o \in Sides /\ o # s /\ Mirror(o) = s /\ \A r \in Sides : r = s \/ r = o
  BY SidesAre DEF Describes, Trees, All
<1> HIDE DEF o
<1>2. /\ Always(s) \in [Nodes -> Sides] /\ Always(o) \in [Nodes -> Sides]
      /\ \A j \in Nodes : Always(s)[j] = s /\ Always(o)[j] = o
  BY <1>1 DEF Always
<1>3. Follows(t, B, o, m, n)
  BY <1>1 DEF Follows, o
<1>4. ASSUME NEW j \in M
      PROVE  /\ B[t.child[s][j]] \cap B[t.child[o][j]] = {}
             /\ B[j] = {j} \cup B[t.child[s][j]] \cup B[t.child[o][j]]
             /\ \A q \in Sides : j \notin B[t.child[q][j]]
  <2>1. (s = "left" /\ o = "right") \/ (s = "right" /\ o = "left")
    BY <1>1 DEF Sides
  <2> QED
    BY <2>1 DEF Describes
\* No node above n has n on the other side, between n and the node it is the last below.
<1>5. ASSUME NEW j \in M, n \in B[t.child[o][j]], NEW a, OnPath(t, B, Always(s), a, n), j \in B[a] PROVE FALSE
  <2>1. j = n \/ n \in B[t.child[s][j]]
    <3>1. n \in B[j]
      BY <1>4, <1>5
    <3> QED
      BY <1>1, <1>2, <1>5, <3>1 DEF OnPath
  <2> QED
    BY <1>1, <1>4, <1>5, <2>1
<1>6. ~Ends(t, B, s, n)
  <2>1. SUFFICES ASSUME Ends(t, B, s, n) PROVE FALSE
    OBVIOUS
  <2>2. n \in B[t.child[o][m]]
    BY <2>1 DEF Ends, Follows, OnPath, o
  <2> QED
    BY <1>5, <2>1, <2>2 DEF Ends
<1>7. ASSUME NEW j \in M, Follows(t, B, s, n, j) PROVE j = m
  <2>1. CASE t.child[s][n] # Sentinel
    <3>1. PICK c : c = t.child[s][n]
      OBVIOUS
    <3>2. c \in M
      BY <2>1, <3>1, ChildBelow
    <3>3. /\ OnPath(t, B, Always(o), c, m) /\ t.child[o][m] = Sentinel
          /\ OnPath(t, B, Always(o), c, j) /\ t.child[o][j] = Sentinel
      BY <1>7, <2>1, <3>1 DEF Follows, o
    <3>4. t.child[Always(o)[m]][m] = Sentinel /\ t.child[Always(o)[j]][j] = Sentinel
      BY <1>1, <1>2, <1>7, <3>3
    <3> QED
      BY <1>2, <3>2, <3>3, <3>4, OneLast
  <2>2. CASE t.child[s][n] = Sentinel
    <3>1. /\ OnPath(t, B, Always(s), t.child[o][m], n) /\ n \in B[t.child[o][m]]
          /\ OnPath(t, B, Always(s), t.child[o][j], n) /\ n \in B[t.child[o][j]]
      BY <1>7, <2>2 DEF Follows, OnPath, o
    <3>2. n \in B[m] /\ n \in B[j]
      BY <1>4, <1>7, <3>1
    <3>3. m \in B[j] \/ j \in B[m]
      BY <1>7, <3>2, Chain
    <3>4. ASSUME NEW a \in M, NEW b \in M, a # b, a \in B[b], n \in B[t.child[o][a]], n \in B[t.child[o][b]],
                 OnPath(t, B, Always(s), t.child[o][b], n)
          PROVE  FALSE
      <4>1. a \in B[t.child[s][b]] \/ a \in B[t.child[o][b]]
        BY <1>4, <3>4
      <4>2. a \notin B[t.child[s][b]]
        <5>1. SUFFICES ASSUME a \in B[t.child[s][b]] PROVE FALSE
          OBVIOUS
        <5>2. t.child[s][b] \in M
          BY <1>1, <3>4, <5>1, ChildBelow
        <5>3. n \in B[a]
          BY <1>4, <3>4
        <5>4. n \in B[t.child[s][b]]
          BY <5>1, <5>2, <5>3, Nested
        <5> QED
          BY <1>4, <3>4, <5>4
      <4> QED
        BY <1>5, <3>4, <4>1, <4>2
    <3> QED
      BY <1>7, <3>1, <3>3, <3>4
  <2> QED
    BY <2>1, <2>2
<1> QED
  BY <1>3, <1>6, <1>7 DEF o

\* The climb of a step ends: at the root, or at the last node n is the last below.
LEMMA ClimbEnds ==
    ASSUME NEW t \in Trees, NEW B, Describes(t, B), NEW s \in Sides, NEW n \in B[t.root],
           NEW next, next = [m \in Nodes |-> IF m = t.root \/ m = t.child[Mirror(s)][t.parent[m]]
                                               THEN {} ELSE {t.parent[m]} \cap Nodes]
    PROVE  /\ \E m \in Reach(next, n) : m = t.root \/ m = t.child[Mirror(s)][t.parent[m]]
           /\ \A m \in Reach(next, n) : m \in B[t.root] /\ OnPath(t, B, Always(s), m, n)
<1> DEFINE o == Mirror(s)
           M == B[t.root]
           S == {m \in M : OnPath(t, B, Always(s), m, n)}
<1>1. /\ B \in [All -> SUBSET Nodes] /\ B[Sentinel] = {} /\ M \subseteq Nodes /\ Sentinel \notin Nodes
      /\ o \in Sides /\ o # s /\ \A r \in Sides : r = s \/ r = o
  BY SidesAre, NodeAssumption DEF Describes, Trees, All
<1>2. next \in [Nodes -> SUBSET Nodes]
  OBVIOUS
<1>3. \A m \in Nodes : next[m] = IF m = t.root \/ m = t.child[o][t.parent[m]] THEN {} ELSE {t.parent[m]} \cap Nodes
  OBVIOUS
<1> HIDE DEF o, S
<1>4. ASSUME NEW m \in M, m # t.root, m # t.child[o][t.parent[m]]
      PROVE  next[m] = {t.parent[m]} /\ t.parent[m] \in M /\ t.child[s][t.parent[m]] = m
  <2>1. t.parent[m] \in M /\ \E r \in Sides : t.child[r][t.parent[m]] = m
    BY <1>4 DEF Describes
  <2> QED
    BY <1>1, <1>3, <1>4, <2>1
<1>5. n \in S /\ S \in SUBSET Nodes
  <2>1. n \in B[n]
    BY <1>1, ChildBelow
  <2>2. \A a \in B[n] : n \in B[a] => n = a
    <3>1. B[n] \subseteq M
      BY Nested
    <3> QED
      BY <3>1, NotBelowEachOther
  <2> QED
    BY <1>1, <2>1, <2>2 DEF S, OnPath
<1>6. ASSUME NEW m \in S PROVE next[m] \subseteq S
  <2>1. m \in M /\ n \in B[m] /\ m \in Nodes
        /\ \A a \in B[m] : n \in B[a] => n = a \/ n \in B[t.child[Always(s)[a]][a]]
    BY <1>1 DEF S, OnPath
  <2>2. CASE m = t.root \/ m = t.child[o][t.parent[m]]
    BY <1>3, <2>1, <2>2
  <2>3. CASE m # t.root /\ m # t.child[o][t.parent[m]]
    <3>1. PICK b : b = t.parent[m]
      OBVIOUS
    <3>2. next[m] = {b} /\ b \in M /\ t.child[s][b] = m
      BY <1>4, <2>1, <2>3, <3>1
    <3>3. B[b] = {b} \cup B[m] \cup B[t.child[o][b]] /\ B[m] \cap B[t.child[o][b]] = {}
      <4>1. (s = "left" /\ o = "right") \/ (s = "right" /\ o = "left")
        BY <1>1 DEF Sides
      <4> QED
        BY <3>2, <4>1 DEF Describes
    <3>4. Always(s)[b] = s
      BY <1>1, <3>2 DEF Always
    <3>5. \A a \in B[t.child[o][b]] : B[a] \subseteq B[t.child[o][b]]
      <4>1. CASE t.child[o][b] = Sentinel
        BY <1>1, <4>1
      <4>2. CASE t.child[o][b] # Sentinel
        <5>1. t.child[o][b] \in M
          BY <1>1, <3>2, <4>2, ChildBelow
        <5> QED
          BY <5>1, Nested
      <4> QED
        BY <4>1, <4>2
    <3>6. ASSUME NEW a \in B[b], n \in B[a] PROVE n = a \/ n \in B[t.child[Always(s)[a]][a]]
      <4>1. a \notin B[t.child[o][b]]
        BY <2>1, <3>3, <3>5, <3>6
      <4>2. CASE a = b
        BY <2>1, <3>2, <3>4, <4>2
      <4>3. CASE a \in B[m]
        BY <2>1, <3>6, <4>3
      <4> QED
        BY <3>3, <4>1, <4>2, <4>3
    <3>7. n \in B[b]
      BY <2>1, <3>3
    <3> QED
      BY <3>2, <3>6, <3>7 DEF S, OnPath
  <2> QED
    BY <2>2, <2>3
<1>7. Reach(next, n) \subseteq S
  BY <1>1, <1>2, <1>5, <1>6, ReachLeast
<1>8. \E m \in Reach(next, n) : m = t.root \/ m = t.child[o][t.parent[m]]
  <2> DEFINE C == [m \in All |-> Nodes \ B[m]]
  <2>1. PICK R : R = Reach(next, n)
    OBVIOUS
  <2>2. R # {} /\ R \in SUBSET Nodes /\ \A m \in R : next[m] \subseteq R
    BY <1>1, <1>2, <2>1, ReachClosed
  <2>3. C \in [All -> SUBSET Nodes] /\ \A m \in Nodes : C[m] = Nodes \ B[m]
    BY DEF All
  <2> HIDE DEF C
  <2>4. PICK m \in R : \A j \in R : C[j] \subseteq C[m] => C[j] = C[m]
    BY <2>2, <2>3, LeastSubtree
  <2>5. SUFFICES ASSUME m # t.root, m # t.child[o][t.parent[m]] PROVE FALSE
    BY <2>1
  <2>6. m \in M
    BY <1>7, <2>1 DEF S
  <2>7. PICK b : b = t.parent[m]
    OBVIOUS
  <2>8. b \in R /\ b \in M /\ t.child[s][b] = m
    BY <1>4, <2>2, <2>5, <2>6, <2>7
  <2>9. B[m] \subseteq B[b] /\ B[m] # B[b]
    BY <2>8, ChildBelow
  <2>10. B[m] \subseteq Nodes /\ B[b] \subseteq Nodes /\ m \in Nodes /\ b \in Nodes
    BY <1>1, <2>6, <2>8 DEF All
  <2> QED
    BY <2>3, <2>4, <2>8, <2>9, <2>10
<1> QED
  BY <1>7, <1>8 DEF S, o

\* Where a step leads
LEMMA NeighbourIs ==
    ASSUME NEW t \in Trees, NEW B, Describes(t, B), NEW s \in Sides, NEW n \in B[t.root]
    PROVE  \/ Neighbour(t, s, n) = NULL /\ Ends(t, B, s, n)
           \/ Neighbour(t, s, n) \in B[t.root] /\ Follows(t, B, s, n, Neighbour(t, s, n))
<1> DEFINE o == Mirror(s)
           M == B[t.root]
<1>1. PICK next : next = [m \in Nodes |-> IF m = t.root \/ m = t.child[o][t.parent[m]]
                                            THEN {} ELSE {t.parent[m]} \cap Nodes]
  OBVIOUS
<1>2. PICK top : top = CHOOSE m \in Reach(next, n) : m = t.root \/ m = t.child[o][t.parent[m]]
  OBVIOUS
<1>3. Neighbour(t, s, n) = IF t.child[s][n] # Sentinel THEN Furthest(t, o, t.child[s][n])
                           ELSE IF top = t.root THEN NULL ELSE t.parent[top]
  BY <1>1, <1>2 DEF Neighbour
<1>4. /\ \E m \in Reach(next, n) : m = t.root \/ m = t.child[o][t.parent[m]]
      /\ \A m \in Reach(next, n) : m \in M /\ OnPath(t, B, Always(s), m, n)
  BY <1>1, ClimbEnds
<1>5. top \in M /\ OnPath(t, B, Always(s), top, n) /\ (top = t.root \/ top = t.child[o][t.parent[top]])
  BY <1>2, <1>4
<1>6. o \in Sides /\ M \subseteq Nodes /\ Sentinel \notin Nodes
  BY SidesAre, NodeAssumption DEF Describes, Trees, All
<1> HIDE DEF o
<1>7. CASE t.child[s][n] # Sentinel
  <2>1. PICK c : c = t.child[s][n]
    OBVIOUS
  <2>2. c \in M /\ B[c] \subseteq M
    BY <1>7, <2>1, ChildBelow, Nested
  <2>3. Always(o) \in [Nodes -> Sides] /\ \A m \in Nodes : Always(o)[m] = o
    BY <1>6 DEF Always
  <2>4. PICK x : x = Last(t, Always(o), c)
    OBVIOUS
  <2>5. x \in B[c] /\ t.child[Always(o)[x]][x] = Sentinel /\ OnPath(t, B, Always(o), c, x)
    BY <2>2, <2>3, <2>4, LastIs
  <2>6. Neighbour(t, s, n) = x
    BY <1>3, <1>7, <2>1, <2>4 DEF Furthest, Always
  <2>7. x \in M /\ t.child[o][x] = Sentinel
    BY <1>6, <2>2, <2>3, <2>5
  <2> QED
    BY <1>7, <2>1, <2>5, <2>6, <2>7 DEF Follows, o
<1>8. CASE t.child[s][n] = Sentinel /\ top = t.root
  BY <1>3, <1>5, <1>8 DEF Ends
<1>9. CASE t.child[s][n] = Sentinel /\ top # t.root
  <2>1. PICK m : m = t.parent[top]
    OBVIOUS
  <2>2. m \in M /\ t.child[o][m] = top
    BY <1>5, <1>9, <2>1 DEF Describes
  <2>3. Neighbour(t, s, n) = m
    BY <1>3, <1>9, <2>1
  <2>4. top # Sentinel
    BY <1>5, <1>6
  <2> QED
    BY <1>5, <1>9, <2>2, <2>3, <2>4 DEF Follows, o
<1> QED
  BY <1>7, <1>8, <1>9

\* A step leads to a node that is not on the wrong side in the order, the step
\* back leads back, and only the first and the last node have none.
LEMMA WalkInv ==
    IInv => Walk
<1> SUFFICES ASSUME IInv PROVE Walk
  OBVIOUS
<1>1. PICK t, B : t = tree /\ t \in Trees /\ Describes(t, B) /\ B[t.root] = Members /\ Sorted(t, B, key)
  BY TreeIs
<1>2. Members \subseteq Nodes /\ NULL \notin Nodes /\ "left" \in Sides /\ "right" \in Sides
      /\ Mirror("left") = "right" /\ Mirror("right") = "left"
  BY TreeIs, SidesAre DEF Joined
<1>3. ASSUME NEW n \in Members, NEW s \in Sides, Ends(t, B, s, n) PROVE n = Furthest(t, s, t.root)
  <2>1. Always(s) \in [Nodes -> Sides] /\ \A m \in Nodes : Always(s)[m] = s
    BY DEF Always
  <2>2. t.root \in B[t.root]
    BY <1>1, <1>3 DEF Describes
  <2>3. PICK x : x = Last(t, Always(s), t.root)
    OBVIOUS
  <2>4. t.child[Always(s)[x]][x] = Sentinel /\ OnPath(t, B, Always(s), t.root, x)
    BY <1>1, <2>1, <2>2, <2>3, LastIs
  <2>5. t.child[Always(s)[n]][n] = Sentinel /\ OnPath(t, B, Always(s), t.root, n)
    BY <1>2, <1>3, <2>1 DEF Ends
  <2>6. n = x
    BY <1>1, <2>1, <2>2, <2>4, <2>5, OneLast
  <2> QED
    BY <2>3, <2>6 DEF Furthest, Always
<1>4. ASSUME NEW n \in Members PROVE
        LET up == Neighbour(t, "right", n) IN
          IF up = NULL THEN n = Furthest(t, "right", t.root)
          ELSE ~Before(key[up], key[n]) /\ Neighbour(t, "left", up) = n
  <2>1. PICK up : up = Neighbour(t, "right", n)
    OBVIOUS
  <2>2. \/ up = NULL /\ Ends(t, B, "right", n)
        \/ up \in Members /\ Follows(t, B, "right", n, up)
    BY <1>1, <1>2, <2>1, NeighbourIs
  <2>3. CASE up = NULL
    BY <1>2, <1>3, <2>1, <2>2, <2>3
  <2>4. CASE up # NULL
    <3>1. up \in B[t.root] /\ n \in B[t.root] /\ Follows(t, B, "right", n, up)
      BY <1>1, <2>2, <2>4
    <3>2. Follows(t, B, "left", up, n)
      BY <1>1, <1>2, <3>1, FollowsOne
    <3>3. Neighbour(t, "left", up) = n
      <4>1. ~Ends(t, B, "left", up) /\ \A j \in B[t.root] : Follows(t, B, "left", up, j) => j = n
        BY <1>1, <1>2, <3>1, <3>2, FollowsOne
      <4> QED
        BY <1>1, <1>2, <3>1, <4>1, NeighbourIs
    <3>4. up \in B[t.child["right"][n]] \/ n \in B[t.child["left"][up]]
      BY <1>2, <3>1 DEF Follows, OnPath
    <3>5. MayLie(key, "right", up, n) \/ MayLie(key, "left", n, up)
      BY <1>1, <1>2, <3>1, <3>4 DEF Sorted
    <3>6. ~Before(key[up], key[n])
      BY <3>5 DEF MayLie
    <3> QED
      BY <2>1, <2>4, <3>3, <3>6
  <2> QED
    BY <2>3, <2>4
<1>5. ASSUME NEW n \in Members PROVE Neighbour(t, "left", n) = NULL <=> n = First(t)
  <2>1. n \in B[t.root] /\ t.root \in B[t.root] /\ t.root # Sentinel
    BY <1>1, <1>5 DEF Describes
  <2>2. PICK x : x = Furthest(t, "left", t.root)
    OBVIOUS
  <2>3. First(t) = x
    BY <2>1, <2>2 DEF First
  <2>4. Always("left") \in [Nodes -> Sides] /\ \A m \in Nodes : Always("left")[m] = "left"
    BY <1>2 DEF Always
  <2>5. x \in B[t.root] /\ Ends(t, B, "left", x)
    <3>1. x = Last(t, Always("left"), t.root)
      BY <2>2 DEF Furthest, Always
    <3>2. x \in B[t.root] /\ t.child[Always("left")[x]][x] = Sentinel /\ OnPath(t, B, Always("left"), t.root, x)
      BY <1>1, <2>1, <2>4, <3>1, LastIs
    <3> QED
      BY <1>1, <1>2, <2>4, <3>2 DEF Ends
  <2>6. \/ Neighbour(t, "left", n) = NULL /\ Ends(t, B, "left", n)
        \/ Neighbour(t, "left", n) \in B[t.root] /\ Follows(t, B, "left", n, Neighbour(t, "left", n))
    BY <1>1, <1>2, <2>1, NeighbourIs
  <2>7. ASSUME Neighbour(t, "left", n) = NULL PROVE n = First(t)
    BY <1>1, <1>2, <1>3, <2>2, <2>3, <2>6, <2>7
  <2>8. ASSUME n = First(t) PROVE Neighbour(t, "left", n) = NULL
    <3>1. Ends(t, B, "left", n)
      BY <2>3, <2>5, <2>8
    <3>2. \A j \in B[t.root] : ~Follows(t, B, "left", n, j)
      BY <1>1, <1>2, <2>1, <3>1, FollowsOne
    <3> QED
      BY <2>6, <3>2
  <2> QED
    BY <2>7, <2>8
<1> QED
  BY <1>1, <1>4, <1>5 DEF Walk

\* Stepping up and down visits every node, in order, and comes back.
THEOREM TreeWalked ==
    Spec => []Walk
  BY TreeInvariant, WalkInv, PTL

=============================================================================
