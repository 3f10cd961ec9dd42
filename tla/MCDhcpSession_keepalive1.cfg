SPECIFICATION Spec
CONSTANTS
  Nonces = {n1, n2, n3, n4, n5}
  None = None
  CounterModulus = 3
  RetryCount = 1
  RequestCap = 1
  ReplyCap = 2
  Reorders = FALSE
  Duplicates = TRUE
  FailureThreshold = 2
  ExtraInterval = 1
  Keepalive1Mod = FALSE
  TryTimes = 2
  Eternal = TRUE
  JluMode = FALSE
  AddressOutcomes = {TRUE}
  Crashes = FALSE
  Strays = FALSE
  Rejections <- ShortRejection
  RefusalTexts = {}
SYMMETRY NonceSymmetry
INVARIANTS
  FreshKeepalive1Replies
CHECK_DEADLOCK FALSE
