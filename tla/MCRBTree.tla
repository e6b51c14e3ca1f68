------------------------------ MODULE MCRBTree ------------------------------
\* Nodes are interchangeable: no property names one.
EXTENDS RBTree, TLC

Symmetry == Permutations(Nodes)
=============================================================================
