SPECIFICATION Spec
CONSTANTS
  c1 = c1
  c2 = c2
  c3 = c3
  Calls = {c1, c2, c3}
  Stuck = {}
  WInit = 1
  RxBuffer = 1
  WConn = 1
  PeerWindow = 1
  MaxMsgs = 1
  MaxFaults = 0
  MaxEpoch = 2
SYMMETRY Symmetry
INVARIANTS ConnNeverOverrun
CHECK_DEADLOCK FALSE
