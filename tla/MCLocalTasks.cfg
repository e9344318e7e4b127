SPECIFICATION FairSpec
CONSTANTS
  Task = {t1, t2}
  Item = {i1, i2}
  Stopper = {s1, s2}
  None = None
INVARIANTS NothingLeftBehind StoppedMeansEnded
PROPERTIES RegistrySpec 
