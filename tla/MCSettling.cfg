SPECIFICATION Spec
CONSTANTS
  l1 = l1
  r1 = r1
  r2 = r2
  NoProc = NoProc
  Listings = {l1}
  Res = {r1}
  ListingOf <- OneListing
  Requests = {p1}
  Workers = {}
  Parties = {"buyer"}
  Outcomes = {"sold"}
  MaxFaults = 1
  Handlers = {"reserve", "confirm", "outcome"}
CHECK_DEADLOCK FALSE
INVARIANT SettlingDepositReleased
