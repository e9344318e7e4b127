SPECIFICATION FairSpec
CONSTANTS
  Node = {n1, n2}
  Session = {s1, s2}
  Model = {m1}
  LockTimeout = 2
  MaxReports = 2
  MaxCrashes = 1
  n1 = n1
  s1 = s1
  None = None
  Gone = Gone
INVARIANT TypeOK
PROPERTIES ChangedOnlyByStaleWrites UsageExpires RestartCleans
CONSTRAINT Named
