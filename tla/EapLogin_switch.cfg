SPECIFICATION BusySpec
CONSTANTS
  Nics = 2
  Uplink = 1
  TryTimes = 2
  IdModulus = 3
  HostCap = 2
  SwitchCap = 2
INVARIANTS
  TypeOK
  SuccessIsEarned
PROPERTIES
  LoginEnds
  LoginAdvances
CHECK_DEADLOCK FALSE
