---------------------------- MODULE MCLocalTasks ----------------------------
EXTENDS LocalTasks

Symmetry == Permutations(Task) \cup Permutations(Item) \cup Permutations(Stopper)

=============================================================================
