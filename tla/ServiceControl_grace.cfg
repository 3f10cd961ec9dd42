SPECIFICATION Spec
CONSTANTS
  WaitSeconds = 3
  RetryCount = 3
  NapSeconds = 20
  BackoffSeconds = 60
  StartupSeconds = 60
  RoundLengths = {3, 4, 5}
  MaxRound = 5
  FailureThreshold = 6
  Faulty = FALSE
  MaxStrays = 0
  FaultCap = 2
  Polls = 10
  TermTimeout = 10
  RespawnSeconds = 5
INVARIANTS
  GracefulStop
CHECK_DEADLOCK FALSE
