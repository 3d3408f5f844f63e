SPECIFICATION Spec
CONSTANTS
  c1 = c1
  c2 = c2
  c3 = c3
  k1 = k1
  k2 = k2
  k3 = k3
  g1 = g1
  g2 = g2
  s1 = s1
  s2 = s2
  sw = sw
  t1 = t1
  t2 = t2
  t3 = t3
  None = None
  Sweeper = sw
  Clients = {c1}
  Groups = {g1}
  Services = {s1}
  Conns = {k1, k2}
  Actors <- TwoActors
  Tokens = {t1, t2, t3}
  GroupToken <- OneToken
  ClientToken <- SameGroup
  LongNames = {}
  RawClients = {}
  Expose <- C1Exposes
  Consume <- C1Consumes
  Interval = 1
  Timeout = 2
  FaultKinds = {}
  MaxFaults = 0
INVARIANTS RegistrationKept
