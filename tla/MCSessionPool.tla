--------------------------- MODULE MCSessionPool ----------------------------
EXTENDS SessionPool, TLC

Symmetry == Permutations(Node)

=============================================================================
