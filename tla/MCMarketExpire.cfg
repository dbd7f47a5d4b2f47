SPECIFICATION Spec
CHECK_DEADLOCK FALSE
CONSTANTS
  Listings = {l1}
  Procs = {p1,p2}
  Ops = {"publish","approve","reserve","expire"}
  Offered = {"draft","active","archived"}
PROPERTIES DealKeepsListing
