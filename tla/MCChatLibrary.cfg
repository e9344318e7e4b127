SPECIFICATION Spec
CONSTANTS
  Chat = {c1, c2}
  Tag = {t1}
  Folder = {f1, f2}
  Copy = {k1, k2}
  MaxCrashes = 1
  None = None
SYMMETRY Symmetry
INVARIANTS TypeOK 
   
CHECK_DEADLOCK FALSE
