SPECIFICATION FairSpec
CONSTANTS
  MaxBytes = 3
  BuildMayFail = TRUE
CHECK_DEADLOCK FALSE
INVARIANTS
  TypeOK
  AcceptedIsWhole
  ReadsStopAfterClose
PROPERTIES
  ImplementsUpload
  CallerReturns
  GoroutineEnds
