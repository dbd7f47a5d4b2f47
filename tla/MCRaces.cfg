SPECIFICATION Spec
CONSTANTS
  l1 = l1
  r1 = r1
  r2 = r2
  NoProc = NoProc
  Listings = {l1}
  Res = {r1}
  ListingOf <- OneListing
  Requests = {p1, p2}
  Workers = {}
  Parties = {"buyer"}
  Outcomes = {"sold", "not_sold"}
  MaxFaults = 0
  Handlers = {"reserve", "recover", "confirm", "return", "released", "cancel", "delayed_cancel", "outcome", "delete"}
SYMMETRY SymmetryOneListing
CHECK_DEADLOCK FALSE
INVARIANT SettledHasOutcome
PROPERTY RecordsAreKept
