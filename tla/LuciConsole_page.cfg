SPECIFICATION FairSpec
CONSTANTS
  Ttl = 1
  ClockSlack = 1
  Confs = {c1, c2}
  MaxChanges = 2
  MaxFollowUps = 2
  MaxFaults = 1
INVARIANTS
  RefreshPending
  PausedIsQuiet
  CacheKeepsSettings
PROPERTIES
  DisplaySettles
