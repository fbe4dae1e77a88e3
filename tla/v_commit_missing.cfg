SPECIFICATION Spec
CONSTANTS
  Keys = {k1, k2}
  None = none
  MaxCommits = 2
  BuildMayFail = FALSE
CHECK_DEADLOCK FALSE
INVARIANT MissingMeansNotSent
