SPECIFICATION FairSpec
CHECK_DEADLOCK FALSE
CONSTANTS
  X = {x1}
  Y = {y1, y2}
  C = {c1, c2}
  Rids = {r1}
  Times = {w1}
  Numbers = {1}
  MaxFaults = 1
  Acts <- LiveActs
  Parts = {"reservations", "car", "favorites", "catalog", "chat", "account", "tickets",
          "mylistings", "moderation", "users", "cars", "choice", "new", "edit", "form",
          "sessions", "market", "rate"}
PROPERTIES
   ServicesRecover
