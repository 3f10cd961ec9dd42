SPECIFICATION FairSpec
CONSTANTS
  Nonces = {n1, n2, n3, n4}
  None = None
  CounterModulus = 3
  RetryCount = 1
  RequestCap = 1
  ReplyCap = 1
  Reorders = FALSE
  Duplicates = TRUE
  FailureThreshold = 2
  ExtraInterval = 2
  Keepalive1Mod = FALSE
  TryTimes = 2
  Eternal = FALSE
  JluMode = TRUE
  AddressOutcomes = {TRUE, FALSE}
  Crashes = FALSE
  Strays = TRUE
  Rejections <- AllRejections
  RefusalTexts <- Texts
INVARIANTS
  AuthMatchesLogin
  DelayHasCause
  CooldownIsRead
PROPERTIES
  StopIsHonoured
  StopLeadsOut
CHECK_DEADLOCK FALSE
