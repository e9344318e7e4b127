SPECIFICATION Spec
CONSTANTS
  Session = {s1, s2}
  Update = {u1, u2}
  Handler = {h1, h2}
  MaxJoins = 2
  Threshold = 2
  None = None
SYMMETRY Symmetry
CONSTRAINT Bound
INVARIANTS TypeOK Convergence NothingForgotten
PROPERTIES LostOnlyByStaleCompaction ClearedWhenUnused
CHECK_DEADLOCK FALSE
