SPECIFICATION MCSpec
CHECK_DEADLOCK FALSE
CONSTANTS
  Procs = {p1, p2}
  Listings = {l1, l2, l3}
  Res = {r1, r2, r3}
  Top = 2
  None = None
  Max = 1
SYMMETRY Symmetry
INVARIANTS
  TypeOK  
PROPERTIES
  AloneCoolsDown
