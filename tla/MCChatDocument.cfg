SPECIFICATION Spec
CONSTANTS
  Message = {m1, m2}
  Event = {e1, e2}
  Task = {t1, t2}
  None = None
SYMMETRY Symmetry
INVARIANTS TypeOK 
 
CHECK_DEADLOCK FALSE
