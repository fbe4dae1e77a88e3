SPECIFICATION Spec
CONSTANTS
  Sessions = {s1, s2, s3}
  NoSession = none
  MaxGen = 2
  MaxDepth = 6
  MaxHanded = 1
  Replies <- FewReplies
  HasReauth = TRUE
  Script <- LoginAgain
  AppOps <- LoginKinds
  LoginMay401 = TRUE
SYMMETRY SessionSymmetry
PROPERTY NoLiveTokenDropped
