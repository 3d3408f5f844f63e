SPECIFICATION Spec
CONSTANTS
  c1 = c1
  c2 = c2
  c3 = c3
  k1 = k1
  k2 = k2
  k3 = k3
  g1 = g1
  g2 = g2
  s1 = s1
  s2 = s2
  sw = sw
  t1 = t1
  t2 = t2
  t3 = t3
  None = None
  Sweeper = sw
  Clients = {c1, c2, c3}
  Groups = {g1, g2}
  Services = {s1, s2}
  Conns = {k1, k2}
  Actors <- TwoActors
  Tokens = {t1, t2, t3}
  GroupToken <- TwoTokens
  ClientToken <- OwnGroups
  LongNames = {s2}
  RawClients = {c2}
  Expose <- C1Exposes
  Consume <- NobodyConsumes
  Interval = 1
  Timeout = 2
  FaultKinds = {"refuse", "restart"}
  MaxFaults = 1
SYMMETRY ConnSymmetry
INVARIANTS TypeOK GroupIsolation RegistrationBacked RegistrationKept
