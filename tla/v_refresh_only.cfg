SPECIFICATION FairSpec
CONSTANTS
  Sessions = {s1}
  NoSession = none
  MaxGen = 3
  MaxDepth = 4
  MaxHanded = 1
  Replies <- FewReplies
  HasReauth = TRUE
  Script <- RefreshOnly
  AppOps <- CoreKinds
  LoginMay401 = FALSE
PROPERTY EveryCallReturns
