SPECIFICATION Spec
CONSTANTS
  Nonces = {n1, n2, n3, n4, n5}
  None = None
  CounterModulus = 3
  RetryCount = 1
  RequestCap = 1
  ReplyCap = 2
  Reorders = FALSE
  Duplicates = TRUE
  FailureThreshold = 2
  ExtraInterval = 1
  Keepalive1Mod = TRUE
  TryTimes = 2
  Eternal = TRUE
  JluMode = FALSE
  AddressOutcomes = {TRUE}
  Crashes = TRUE
  Strays = FALSE
  Rejections <- BothRejections
  RefusalTexts = {}
SYMMETRY NonceSymmetry
INVARIANTS
  TypeOK
  AuthMatchesLogin
  CleanLogoutReleases
  StopExitReleases
  FreshRoundReplies
PROPERTIES
  TemplateAlternates
  KeepsLifecycle
CHECK_DEADLOCK FALSE
