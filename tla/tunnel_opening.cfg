SPECIFICATION FairSpec
CONSTANTS
  None = None
  Letters = {"a", "b", "c", "d", "e"}
  MaxName = 4
  Control <- ControlName
  Data <- DataName
  Reserved <- ReservedNames
  Configs <- Files
  Rows <- ConsumerRows
  Conns = {k1}
  MaxStarts = 2
  MaxFaults = 2
INVARIANTS TypeOK LiveIsAuthorised RowsTakeEffect
PROPERTIES DialSettles
CHECK_DEADLOCK FALSE
