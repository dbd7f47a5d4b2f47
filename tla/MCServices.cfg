SPECIFICATION Spec
CHECK_DEADLOCK FALSE
CONSTANTS
  Items = {r1, r2, r3}
  Procs = {p1, p2}
  Held = {h1, h2}
  Slots = {w1, w2}
  Limit = 2
  Window = 3
  Slack = 1
  Delay = 1
  Parts = {"deposit", "viewings", "sessions", "logout", "market", "rate"}
SYMMETRY Symmetry
INVARIANTS
  TypeOK  WindowsAreKept CancelledFreesWindow StaleHasCause LogoutHolds WindowKept

  
