SPECIFICATION FairSpec
CONSTANTS
  Second = 3
  Rates = {0, 1, 3, 5}
  Chunks = {1, 3, 4}
INVARIANTS TypeOK
PROPERTIES CapHolds FittingIsAdmitted
