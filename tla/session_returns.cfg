SPECIFICATION FairSpec
CONSTANTS
  Sessions = {s1, s2}
  NoSession = none
  MaxGen = 2
  MaxDepth = 5
  MaxHanded = 1
  Replies <- FewReplies
  HasReauth = TRUE
  Script <- RefreshThenUnlock
  AppOps <- CoreKinds
  LoginMay401 = FALSE
PROPERTY EveryCallReturns
