SPECIFICATION Spec
CONSTANTS
  p1 = p1
  p2 = p2
  k1 = k1
  k2 = k2
  k3 = k3
  i1 = i1
  i2 = i2
  i3 = i3
  None = None
  Empty = Empty
  Procs = {p1, p2}
  Keys = {k1, k2, k3}
  Inodes = {i1, i2, i3}
INVARIANTS TypeOK RunningKeyIsPersisted KeyFileIsWhole
PROPERTIES IdentityIsStable
