SPECIFICATION AnsweredSpec
CONSTANTS
  Keys = {k1, k2, k3}
  None = none
  MaxCommits = 2
  BuildMayFail = TRUE
CHECK_DEADLOCK FALSE
INVARIANTS
  TypeOK
  BodyWellFormed
  CommitOkMeansComplete
  BuiltBeforeImportReturns
PROPERTIES
  ImplementsUpload
  OperationsReturn
  GoroutineEnds
