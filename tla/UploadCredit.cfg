SPECIFICATION Spec
CONSTANTS
  c1 = c1
  c2 = c2
  c3 = c3
  Calls = {c1, c2}
  Stuck = {}
  WInit = 1
  RxBuffer = 2
  WConn = 2
  PeerWindow = 3
  MaxMsgs = 2
  MaxFaults = 1
  MaxEpoch = 2
SYMMETRY Symmetry
INVARIANTS TypeOK CreditConserved StreamConserved CreditNotLost
CHECK_DEADLOCK FALSE
