------------------------------- MODULE RBTree -------------------------------
(***************************************************************************)
(* The red-black tree of ms_rbtree.c, as the event loop uses it for its    *)
(* timers.  An operation does its part outside the loop in one step, and   *)
(* then one pass of its rebalancing loop in each step.  Functions that are *)
(* mirror images of each other are one operator with the side as argument. *)
(***************************************************************************)
EXTENDS Integers, FiniteSets

CONSTANTS
    Nodes,      \* the nodes the program may insert
    Sentinel,   \* the leaf of every path
    NULL,
    HalfRange,  \* 2^(w - 1), where w is the width of uintptr_t
    MaxDelay,   \* a timer is due MaxDelay from now at most
    MaxLate     \* bound: how long a timer that is due can stay in the tree

ASSUME NodeAssumption ==
    /\ IsFiniteSet(Nodes)
    /\ {Sentinel, NULL} \cap Nodes = {} /\ Sentinel # NULL
ASSUME WidthAssumption ==
    /\ HalfRange \in Nat \ {0, 1} /\ MaxDelay \in Nat /\ MaxLate \in Nat
    /\ MaxDelay + MaxLate < HalfRange

VARIABLES
    tree,  \* the root and the fields left, right, parent and color of nodes
    key,   \* their field key
    now,   \* ms_time_ms()
    loop,  \* the rebalancing loop that runs: of "insert", "delete" or "none"
    cur    \* its node: "node" of ms_rbtree_insert(), "temp" of _delete()

vars == <<tree, key, now, loop, cur>>

KeyRange == 2 * HalfRange
Keys == 0 .. KeyRange - 1
Sides == {"left", "right"}
Pointers == Nodes \cup {Sentinel, NULL}

Trees == [root : Nodes \cup {Sentinel},
          child : [Sides -> [Nodes \cup {Sentinel} -> Pointers]],
          parent : [Nodes \cup {Sentinel} -> Pointers],
          red : [Nodes \cup {Sentinel} -> BOOLEAN]]

TypeOK ==
    /\ tree \in Trees
    /\ key \in [Nodes -> Keys]
    /\ now \in Keys
    /\ loop \in {"none", "insert", "delete"}
    /\ cur \in Pointers

Init ==
    /\ tree = [root |-> Sentinel,
               child |-> [s \in Sides |-> [n \in Nodes \cup {Sentinel} |-> NULL]],
               parent |-> [n \in Nodes \cup {Sentinel} |-> NULL],
               red |-> [n \in Nodes \cup {Sentinel} |-> FALSE]]
    /\ key = [n \in Nodes |-> 0]
    /\ now = 0
    /\ loop = "none"
    /\ cur = NULL
-----------------------------------------------------------------------------
(* Pointers.                                                               *)

Mirror(s) == IF s = "left" THEN "right" ELSE "left"

SetChild(t, s, n, m) == [t EXCEPT !.child[s][n] = m]
SetParent(t, n, m) == [t EXCEPT !.parent[n] = m]
Paint(t, n, isRed) == [t EXCEPT !.red[n] = isRed]

\* if (m != sentinel) m->parent = n
Link(t, m, n) == IF m = Sentinel THEN t ELSE SetParent(t, m, n)

\* The side of its parent a node is on
SideOf(t, n) == IF n = t.child["left"][t.parent[n]] THEN "left" ELSE "right"

\* m takes the place of n below the parent of n.
Replace(t, n, m) ==
    IF n = t.root THEN [t EXCEPT !.root = m]
                  ELSE SetChild(t, SideOf(t, n), t.parent[n], m)

\* n goes down to the side s, its child on the other side takes its place.
Rotate(t, s, n) ==
    LET temp == t.child[Mirror(s)][n]
        targ == t.child[s][temp]
        moved == Link(SetChild(t, Mirror(s), n, targ), targ, n)
        up == Replace(SetParent(moved, temp, moved.parent[n]), n, temp)
    IN  SetParent(SetChild(up, s, temp, n), n, temp)

\* The nodes reached from n, where next[m] are those one step from m
Reach(next, n) ==
    LET R[i \in 0..Cardinality(Nodes)] ==
          IF i = 0 THEN {n} \cap Nodes
          ELSE LET near == R[i-1] IN near \cup UNION {next[m] : m \in near}
    IN  R[Cardinality(Nodes)]

\* The nodes of the subtree of n
Below(t, n) == Reach([m \in Nodes |-> {t.child[s][m] : s \in Sides} \cap Nodes], n)

\* n and the nodes above it
Above(t, n) == Reach([m \in Nodes |-> IF m = t.root THEN {} ELSE {t.parent[m]} \cap Nodes], n)

Members == Below(tree, tree.root)

\* The last node from n down, where way[m] is the side taken at m
Last(t, way, n) ==
    LET path == Reach([m \in Nodes |-> {t.child[way[m]][m]} \cap Nodes], n)
    IN  CHOOSE m \in path : t.child[way[m]][m] = Sentinel

\* The last node from n on to the side s: ms_rbtree_min(), ms_rbtree_max()
Furthest(t, s, n) == Last(t, [m \in Nodes |-> s], n)

First(t) == IF t.root = Sentinel THEN NULL ELSE Furthest(t, "left", t.root)

\* The neighbour of n in order, to the side s: ms_rbtree_next_up(), _down()
Neighbour(t, s, n) ==
    LET stops(m) == m = t.root \/ m = t.child[Mirror(s)][t.parent[m]]
        climb == Reach([m \in Nodes |-> IF stops(m) THEN {} ELSE {t.parent[m]} \cap Nodes], n)
        top == CHOOSE m \in climb : stops(m)
    IN  IF t.child[s][n] # Sentinel THEN Furthest(t, Mirror(s), t.child[s][n])
        ELSE IF top = t.root THEN NULL
        ELSE t.parent[top]
-----------------------------------------------------------------------------
(* Insertion.                                                              *)

\* (intptr_t)(a - b) < 0
Before(a, b) == (a - b) % KeyRange >= HalfRange

\* n becomes a red leaf, on the side s of p.
Leaf(t, s, p, n) ==
    LET new == [t EXCEPT !.child["left"][n] = Sentinel, !.child["right"][n] = Sentinel]
    IN  Paint(SetParent(SetChild(new, s, p, n), n, p), n, TRUE)

\* Seeded fault for Place: the search does not look at the key.
PlaceLeft(t, n, k) == Leaf(t, "left", Furthest(t, "left", t.root), n)

\* ms_rbtree_insert_timer_value()
Place(t, n, k) ==
    LET way == [m \in Nodes |-> IF Before(k, key[m]) THEN "left" ELSE "right"]
        p == Last(t, way, t.root)
    IN  Leaf(t, way[p], p, n)

\* ms_rbtree_insert() up to its loop.  The caller inserts no node twice.
Insert(n, ms) ==
    LET k == (now + ms) % KeyRange
    IN  /\ loop = "none"
        /\ n \notin Members
        /\ key' = [key EXCEPT ![n] = k]
        /\ IF tree.root = Sentinel
             THEN /\ tree' = [tree EXCEPT !.root = n, !.parent[n] = NULL, !.red[n] = FALSE,
                                          !.child["left"][n] = Sentinel, !.child["right"][n] = Sentinel]
                  /\ UNCHANGED <<loop, cur>>
             ELSE /\ tree' = Place(tree, n, k)
                  /\ loop' = "insert"
                  /\ cur' = n
        /\ UNCHANGED now

\* while (node != *root && ms_rbt_is_red(node->parent))
TwoReds(t, n) == n # t.root /\ t.red[t.parent[n]]

Parent == tree.parent[cur]
Grand == tree.parent[Parent]
Side == SideOf(tree, Parent)
Uncle == tree.child[Mirror(Side)][Grand]

\* The two reds move up.
Recolour ==
    /\ loop = "insert" /\ TwoReds(tree, cur)
    /\ tree.red[Uncle]
    /\ tree' = Paint(Paint(Paint(tree, Parent, FALSE), Uncle, FALSE), Grand, TRUE)
    /\ cur' = Grand
    /\ UNCHANGED <<key, now, loop>>

\* Seeded fault for Rebalance: no rotation of the parent for an inner node.
RebalanceOnce ==
    /\ loop = "insert" /\ TwoReds(tree, cur)
    /\ ~tree.red[Uncle]
    /\ tree' = Rotate(Paint(Paint(tree, Parent, FALSE), Grand, TRUE), Mirror(Side), Grand)
    /\ UNCHANGED <<key, now, loop, cur>>

\* An inner node is first made an outer one.
Rebalance ==
    LET inner == cur = tree.child[Mirror(Side)][Parent]
        n == IF inner THEN Parent ELSE cur
        t == IF inner THEN Rotate(tree, Side, Parent) ELSE tree
        p == t.parent[n]
        g == t.parent[p]
    IN  /\ loop = "insert" /\ TwoReds(tree, cur)
        /\ ~tree.red[Uncle]
        /\ tree' = Rotate(Paint(Paint(t, p, FALSE), g, TRUE), Mirror(SideOf(tree, Parent)), g)
        /\ cur' = n
        /\ UNCHANGED <<key, now, loop>>

\* Seeded fault for InsertEnds: the root stays as it is.
InsertEndsRed ==
    /\ loop = "insert" /\ ~TwoReds(tree, cur)
    /\ loop' = "none"
    /\ cur' = NULL
    /\ UNCHANGED <<tree, key, now>>

InsertEnds ==
    /\ loop = "insert" /\ ~TwoReds(tree, cur)
    /\ tree' = Paint(tree, tree.root, FALSE)
    /\ loop' = "none"
    /\ cur' = NULL
    /\ UNCHANGED <<key, now>>
-----------------------------------------------------------------------------
(* Deletion.                                                               *)

\* A node out of the tree
Cleared(t, n) ==
    [t EXCEPT !.child["left"][n] = NULL, !.child["right"][n] = NULL, !.parent[n] = NULL]

\* Seeded fault for Adopt: the children keep their old parent.
AdoptForgets(t, n, m) ==
    Replace([t EXCEPT !.child["left"][m] = t.child["left"][n],
                      !.child["right"][m] = t.child["right"][n],
                      !.parent[m] = t.parent[n],
                      !.red[m] = t.red[n]], n, m)

\* m takes over the children, the parent, the colour and the place of n.
Adopt(t, n, m) ==
    LET copied == [t EXCEPT !.child["left"][m] = t.child["left"][n],
                            !.child["right"][m] = t.child["right"][n],
                            !.parent[m] = t.parent[n],
                            !.red[m] = t.red[n]]
        placed == Replace(copied, n, m)
    IN  Link(Link(placed, placed.child["left"][m], m), placed.child["right"][m], m)

\* ms_rbtree_delete() up to its loop.  subst leaves its place to temp, and
\* takes that of n if it is not n itself.
Delete(n) ==
    LET l == tree.child["left"][n]
        r == tree.child["right"][n]
        subst == IF l = Sentinel \/ r = Sentinel THEN n ELSE Furthest(tree, "left", r)
        temp == IF tree.child["left"][subst] # Sentinel THEN tree.child["left"][subst]
                                                       ELSE tree.child["right"][subst]
        p == tree.parent[subst]
        unlinked == SetParent(SetChild(tree, SideOf(tree, subst), p, temp), temp,
                              IF subst # n /\ p = n THEN subst ELSE p)
        t == IF subst = n THEN unlinked ELSE Adopt(unlinked, n, subst)
    IN  /\ loop = "none"
        /\ n \in Members
        /\ key' = [key EXCEPT ![n] = 0]
        /\ IF subst = tree.root
             THEN /\ tree' = Cleared(Paint([tree EXCEPT !.root = temp], temp, FALSE), n)
                  /\ UNCHANGED <<loop, cur>>
             ELSE /\ tree' = Cleared(t, n)
                  /\ IF tree.red[subst]
                       THEN UNCHANGED <<loop, cur>>
                       ELSE loop' = "delete" /\ cur' = temp
        /\ UNCHANGED now

\* while (temp != *root && ms_rbt_is_black(temp))
ShortOfBlack(t, n) == n # t.root /\ ~t.red[n]

\* One pass: a red sibling is first rotated away.
Mend ==
    LET s == SideOf(tree, cur)
        p == tree.parent[cur]
        sibling(t) == t.child[Mirror(s)][p]
        w == sibling(tree)
        t1 == IF tree.red[w] THEN Rotate(Paint(Paint(tree, w, FALSE), p, TRUE), s, p) ELSE tree
        w1 == sibling(t1)
        near == t1.child[s][w1]
        far == t1.child[Mirror(s)][w1]
        t2 == IF t1.red[far] THEN t1
              ELSE Rotate(Paint(Paint(t1, near, FALSE), w1, TRUE), Mirror(s), w1)
        w2 == sibling(t2)
        t3 == Paint(Paint(Paint(t2, w2, t2.red[p]), p, FALSE), t2.child[Mirror(s)][w2], FALSE)
    IN  /\ loop = "delete" /\ ShortOfBlack(tree, cur)
        /\ IF ~t1.red[near] /\ ~t1.red[far]
             THEN tree' = Paint(t1, w1, TRUE) /\ cur' = p
             ELSE tree' = Rotate(t3, s, p) /\ cur' = tree'.root
        /\ UNCHANGED <<key, now, loop>>

\* Seeded fault for DeleteEnds: the node stays red.
DeleteEndsRed ==
    /\ loop = "delete" /\ ~ShortOfBlack(tree, cur)
    /\ loop' = "none"
    /\ cur' = NULL
    /\ UNCHANGED <<tree, key, now>>

DeleteEnds ==
    /\ loop = "delete" /\ ~ShortOfBlack(tree, cur)
    /\ tree' = Paint(tree, cur, FALSE)
    /\ loop' = "none"
    /\ cur' = NULL
    /\ UNCHANGED <<key, now>>
-----------------------------------------------------------------------------
\* ms_eventloop_timer_process(): if (rbtree_node->key <= ms_time_ms())
Fire ==
    /\ tree.root # Sentinel
    /\ key[First(tree)] <= now
    /\ Delete(First(tree))

\* Seeded fault for Tick: the clock is wider than the keys.
TickWide ==
    /\ loop = "none"
    /\ \A n \in Members : (now - key[n]) % KeyRange # MaxLate
    /\ now' = now + 1
    /\ UNCHANGED <<tree, key, loop, cur>>

\* Time passes; a timer that is due is not left for longer than MaxLate.
Tick ==
    /\ loop = "none"
    /\ \A n \in Members : (now - key[n]) % KeyRange # MaxLate
    /\ now' = (now + 1) % KeyRange
    /\ UNCHANGED <<tree, key, loop, cur>>

Next ==
    \/ \E n \in Nodes : Delete(n) \/ \E ms \in 0..MaxDelay : Insert(n, ms)
    \/ Recolour \/ Rebalance \/ InsertEnds
    \/ Mend \/ DeleteEnds
    \/ Fire
    \/ Tick

Spec == Init /\ [][Next]_vars
-----------------------------------------------------------------------------
(* Properties.                                                             *)

\* Parents and children agree, and no node is reached twice, in every pass.
Linked ==
    \A n \in Members : \A s \in Sides : LET c == tree.child[s][n] IN
        /\ c \in Members \cup {Sentinel}
        /\ c \in Members => tree.parent[c] = n /\ c \notin Above(tree, n)
                            /\ c # tree.child[Mirror(s)][n]

\* The order the search relies on, in every pass: nothing to the left of a
\* node is after it, nothing to the right before it.  It holds across the
\* overflow of the clock.
Ordered ==
    \A n \in Members :
        /\ \A m \in Below(tree, tree.child["left"][n]) : ~Before(key[n], key[m])
        /\ \A m \in Below(tree, tree.child["right"][n]) : ~Before(key[m], key[n])

\* No path has two reds in a row, except where the loop is about to mend it,
\* and the root and the sentinel are black.
NoTwoReds ==
    /\ ~tree.red[Sentinel]
    /\ tree.red[tree.root] => loop = "insert" /\ cur = tree.root
    /\ \A n \in Members \ {tree.root} : tree.red[n] /\ tree.red[tree.parent[n]] =>
          \/ loop = "insert" /\ n = cur
          \/ loop = "delete" /\ cur \in {n, tree.parent[n]}

\* Every path to the sentinel has as many blacks, in every pass, if the node
\* the deletion is at counts for one more.
EvenPaths ==
    LET ends == {e \in Members \X Sides : tree.child[e[2]][e[1]] = Sentinel}
        passesCur(e) ==
          IF cur = Sentinel THEN e = <<tree.parent[cur], SideOf(tree, cur)>>
                            ELSE cur \in Above(tree, e[1])
        blacks(e) == Cardinality({m \in Above(tree, e[1]) : ~tree.red[m]})
                     + IF loop = "delete" /\ passesCur(e) THEN 1 ELSE 0
    IN  \A d, e \in ends : blacks(d) = blacks(e)

\* Stepping up and down visits each node once, in order.
Walk ==
    loop = "none" =>
        /\ \A n \in Members : LET up == Neighbour(tree, "right", n) IN
              IF up = NULL THEN n = Furthest(tree, "right", tree.root)
              ELSE ~Before(key[up], key[n]) /\ Neighbour(tree, "left", up) = n
        /\ \A n \in Members : Neighbour(tree, "left", n) = NULL <=> n = First(tree)

\* The loops end: a pass either is the last one or moves up.
Depth(t, n) ==
    IF n = Sentinel THEN Cardinality(Above(t, t.parent[n])) + 1 ELSE Cardinality(Above(t, n))

Again(t, n) == IF loop = "insert" THEN TwoReds(t, n) ELSE ShortOfBlack(t, n)

LoopsClimb ==
    [][loop # "none" /\ loop' = loop =>
          ~Again(tree', cur') \/ Depth(tree', cur') < Depth(tree, cur)]_vars

\* The tree is a set of timers, ordered by time: TimerSet.
Timers == INSTANCE TimerSet WITH
    due <- [n \in Members |-> key[n]],
    first <- First(tree)

KeepsTimers == Timers!Spec
=============================================================================
