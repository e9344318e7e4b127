---------------------------- MODULE MCRedisTasks ----------------------------
EXTENDS RedisTasks

CONSTANTS t1, t2, n1, i1

\* Tasks, items and processes are interchangeable: the first task is called t1,
\* its item i1 and its process n1.  Creating a task is not fair, so leaving the
\* renamed behaviours out takes nothing from the liveness property.
Named ==
  /\ owner[t1] \in {n1, None} /\ itemOf[t1] \in {i1, None}
  /\ owner[t1] = None => owner[t2] = None

=============================================================================
