SPECIFICATION FairSpec
CONSTANTS
  Nonces = {n1}
  None = None
  CounterModulus = 3
  RetryCount = 1
  RequestCap = 1
  ReplyCap = 2
  Reorders = FALSE
  Duplicates = FALSE
  Keepalive1Mod = FALSE
  FailureThreshold = 1
  ExtraInterval = 1
  TryTimes = 2
  Eternal = FALSE
  Strays = TRUE
  Rejections = {}
INVARIANTS
  TypeOK
  FreshRoundReplies
PROPERTIES
  StopIsHonoured
  SilenceEndsTheClient
  StopLeadsOut
  SilenceIsCounted
CHECK_DEADLOCK FALSE
