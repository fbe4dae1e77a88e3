SPECIFICATION FairSpec
CONSTANTS
  Ids = {m1}
  Labels = {l1, l2}
  Fields = {"Unread"}
  Nil = nil
  MaxChanges = 3
  MaxCrashes = 2
CHECK_DEADLOCK FALSE
INVARIANTS
  TypeOK
  NothingMissed
  DiffAgrees
PROPERTIES
  CatchesUp
