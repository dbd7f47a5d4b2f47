SPECIFICATION MCSpec
CONSTANTS
  l1 = l1
  l2 = l2
  r1 = r1
  r2 = r2
  r3 = r3
  w = w
  NoProc = NoProc
  Listings = {l1, l2}
  Res = {r1, r2, r3}
  ListingOf <- Cars
  Requests = {p1, p2}
  Workers = {w}
  Parties = {}
  Outcomes = {}
  MaxFaults = 1
  Handlers = {"reserve", "confirm", "cancel"}
SYMMETRY Symmetry
CHECK_DEADLOCK FALSE
INVARIANT ReservedHasOwner
