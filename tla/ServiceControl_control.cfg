SPECIFICATION Spec
CONSTANTS
  WaitSeconds = 2
  RetryCount = 2
  NapSeconds = 8
  BackoffSeconds = 3
  StartupSeconds = 1
  RoundLengths = {3}
  MaxRound = 3
  FailureThreshold = 2
  Faulty = TRUE
  MaxStrays = 1
  FaultCap = 2
  Polls = 7
  TermTimeout = 7
  RespawnSeconds = 3
INVARIANTS
  TypeOK
  StopIsTimely
  LeftBehindHasCause
  KillHasCause
  StateFileIsTrue
  BindsSucceed
PROPERTIES
  KillsOnlyTheWarned
  KeepsLifecycle
CHECK_DEADLOCK FALSE
