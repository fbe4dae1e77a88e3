SPECIFICATION Spec
CONSTANTS
  Sessions = {s1, s2}
  NoSession = none
  MaxGen = 3
  MaxDepth = 5
  MaxHanded = 1
  Replies <- AllReplies
  HasReauth = TRUE
  Script <- RefreshThenUnlock
  AppOps <- EveryKind
  LoginMay401 = TRUE
SYMMETRY SessionSymmetry
INVARIANTS
  TypeOK
  CredentialsPaired
  HeaderIsCurrent
  BodyIntact
  BodiesClosed
  AppliedAtMostOnce
  RejectedOnce
  VerifiedSessionsOnly
  SavedIsNewest
  LogoutEndsSession
  UnauthorizedReported
PROPERTIES
  NoLiveTokenDropped
  ImplementsAccount
