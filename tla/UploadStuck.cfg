SPECIFICATION FairSpec
CONSTANTS
  c1 = c1
  c2 = c2
  c3 = c3
  Calls = {c1, c2}
  Stuck = {c1}
  WInit = 2
  RxBuffer = 2
  WConn = 3
  PeerWindow = 3
  MaxMsgs = 2
  MaxFaults = 0
  MaxEpoch = 1
PROPERTY HealthyResumes
CHECK_DEADLOCK FALSE
