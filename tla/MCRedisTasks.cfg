SPECIFICATION FairSpec
CONSTANTS
  Task = {t1, t2}
  Item = {i1}
  Node = {n1, n2}
  Stopper = {s1}
  MaxCrashes = 1
  None = None
  t1 = t1
  t2 = t2
  n1 = n1
  i1 = i1
CONSTRAINT Named
INVARIANT StopClears
PROPERTIES StopTakesEffect MissesOnlyByLateDeletes GhostsOnlyByLateSaves
CHECK_DEADLOCK FALSE
