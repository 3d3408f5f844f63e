SPECIFICATION FairSpec
CONSTANTS
  d1 = d1
  d2 = d2
  p1 = p1
  p2 = p2
  None = None
  Setups <- AllSetups
  Dials = {d1, d2}
  Ids = {p1, p2}
  Trusted = {p2}
  Events = {"register", "unregister", "die"}
  MaxFaults = 1
INVARIANTS TypeOK StaleIdNotReused
PROPERTIES DetectedIdConverges
