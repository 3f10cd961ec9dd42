SPECIFICATION QuietSpec
CONSTANTS
  Nics = 1
  Uplink = 1
  TryTimes = 2
  IdModulus = 3
  HostCap = 1
  SwitchCap = 2
PROPERTIES
  TimeoutsEnd
CHECK_DEADLOCK FALSE
