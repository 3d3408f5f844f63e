SPECIFICATION WireSpec
CONSTANTS
  Base = 32
  MaxPayload = 36
  MacLength = 2
  Outputs <- AllOutputs
INVARIANTS RoundTrip ErrorMeansCut
CHECK_DEADLOCK FALSE
