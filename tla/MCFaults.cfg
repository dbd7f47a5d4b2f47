SPECIFICATION Spec
CONSTANTS
  l1 = l1
  r1 = r1
  r2 = r2
  NoProc = NoProc
  Listings = {l1}
  Res = {r1}
  ListingOf <- OneListing
  Requests = {p1}
  Workers = {w1}
  Parties = {"buyer", "seller"}
  Outcomes = {"sold", "not_sold"}
  MaxFaults = 2
  Handlers = {"reserve", "recover", "confirm", "return", "released", "cancel", "delayed_cancel", "decline", "outcome", "delete"}
SYMMETRY SymmetryOneListing
CHECK_DEADLOCK FALSE
INVARIANT TypeOK
INVARIANT ConfirmedWasHeld
