SPECIFICATION Spec
CHECK_DEADLOCK FALSE
CONSTANTS
  X = {x1, x2}
  Y = {y1, y2}
  C = {c1, c2}
  Rids = {y1, y2}
  Times = {}
  Numbers = {1, 2}
  MaxFaults = 0
  Acts <- SafetyActs
  Parts = {"reservations", "car", "favorites", "catalog", "chat"}
SYMMETRY Symmetry
INVARIANTS
  TypeOK  LinkIsOwn   
