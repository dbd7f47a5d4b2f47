SPECIFICATION FairSpec
CONSTANTS
  l1 = l1
  r1 = r1
  r2 = r2
  NoProc = NoProc
  Listings = {l1}
  Res = {r1}
  ListingOf <- OneListing
  Requests = {p1}
  Workers = {w1}
  Parties = {"buyer"}
  Outcomes = {"sold"}
  MaxFaults = 1
  Handlers = {"reserve", "recover", "confirm", "released", "cancel", "delayed_cancel", "outcome", "delete"}
CHECK_DEADLOCK FALSE
PROPERTY OpenIsClosed
PROPERTY BackOnSale
PROPERTY ReleaseIsReconciled
