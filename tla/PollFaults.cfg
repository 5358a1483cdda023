SPECIFICATION FairSpec
CONSTANTS
  Workers = {w1, w2}
  NoToken = NoToken
  MaxPages = 2
  MaxClock = 2
  MaxFaults = 2
INVARIANTS
  StaleWritesBounded
PROPERTIES
  LeaseRespected
  FencedFinish
  IdleIsClean
  LeaseReleased
