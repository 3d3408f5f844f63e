SPECIFICATION FairSpec
CONSTANTS
  Chains <- BothPaths
  MaxBytes <- ThreeAndOne
  Capacity = 2
INVARIANTS TypeOK InOrder EofMeansComplete
PROPERTIES HalfCloseArrives LossEndsTunnel
CHECK_DEADLOCK FALSE
