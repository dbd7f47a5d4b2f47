SPECIFICATION MCSpec
CHECK_DEADLOCK FALSE
CONSTANTS
  Photos = {a, b, c}
  MaxFaults = 2
SYMMETRY Symmetry
INVARIANTS
  TypeOK RowHasFiles  GrownHasOneMain
