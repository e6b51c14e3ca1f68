------------------------------ MODULE TimerSet ------------------------------
(***************************************************************************)
(* What the event loop expects of the tree of its timers: a set of nodes   *)
(* with keys that may be equal, of which it can ask for an earliest one.   *)
(* Keys are times modulo KeyRange, compared by their signed difference.   *)
(***************************************************************************)
EXTENDS Integers, Functions

CONSTANTS
    Nodes,
    NULL,
    HalfRange   \* 2^(w - 1), where w is the width of uintptr_t

VARIABLES
    due,    \* the key of each node in the set
    first   \* what ms_rbtree_min() returns, NULL if the set is empty

KeyRange == 2 * HalfRange

\* (intptr_t)(a - b) < 0
Before(a, b) == (a - b) % KeyRange >= HalfRange

Earliest(d) == {n \in DOMAIN d : \A m \in DOMAIN d : ~Before(d[m], d[n])}

\* f is what ms_rbtree_min() may return of d.
Asked(f, d) == IF DOMAIN d = {} THEN f = NULL ELSE f \in Earliest(d)

Init == due = [n \in {} |-> 0] /\ first = NULL

\* new is old and one more node.
Added(old, new) ==
    \E n \in Nodes \ DOMAIN old :
        /\ DOMAIN new = DOMAIN old \cup {n}
        /\ Restrict(new, DOMAIN old) = old

\* One node is added or removed, and the answer is right.
Next ==
    \E old \in {due}, new \in {due'} :
        /\ Added(old, new) \/ Added(new, old)
        /\ Asked(first', new)

Spec == Init /\ [][Next]_<<due, first>>
=============================================================================
