SPECIFICATION Spec
CONSTANTS
  c1 = c1
  c2 = c2
  p1 = p1
  p2 = p2
  s1 = s1
  g1 = g1
  g2 = g2
  t1 = t1
  t2 = t2
  None = None
  Consumers = {c1, c2}
  Providers = {p1, p2}
  Services = {s1}
  GroupOrder <- TwoGroups
  Streams = {t1, t2}
  DefaultRates = {1, None}
  Overrides <- C1Overridden
  Rates = {0, 2}
  MaxStreamId = 3
SYMMETRY StreamSymmetry
INVARIANTS TypeOK RatesTrackTasks RateIsOwnConsumers
PROPERTIES RegisteredIsRelayed
