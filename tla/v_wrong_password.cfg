SPECIFICATION FairSpec
CONSTANTS
  Sessions = {s1}
  NoSession = none
  MaxGen = 3
  MaxDepth = 4
  MaxHanded = 1
  Replies <- FewReplies
  HasReauth = TRUE
  Script <- RefreshThenUnlock
  AppOps <- CoreKinds
  LoginMay401 = TRUE
PROPERTY EveryCallReturns
