SPECIFICATION Spec
CONSTANTS
  Node = {n1, n2}
  Session = {s1, s2}
  Prompt = {s1}
  BeatPeriod = 1
  PoolTimeout = 2
  LockTimeout = 1
  MaxCrashes = 1
  None = None
  Gone = Gone
SYMMETRY Symmetry
INVARIANTS PromptStays DisconnectTidies
