---------------------------- MODULE MCUsagePool -----------------------------
EXTENDS UsagePool

CONSTANTS n1, s1

\* The processes are interchangeable: the one that s1 connects to is called n1.
Named == home[s1] \in {n1, None}

=============================================================================
