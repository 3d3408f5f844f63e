SPECIFICATION FairSpec
CONSTANTS
  Scripts <- AllScripts
  MaxRequestLine = 3
  MaxHeaders = 5
  FileSizes = {0, 2}
INVARIANTS TypeOK InStep ClosesWhenAsked ResponsesFramed
PROPERTIES EveryRequestAnswered
CHECK_DEADLOCK FALSE
