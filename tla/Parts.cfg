SPECIFICATION PartsSpec
CONSTANTS
  p1 = p1
  p2 = p2
  k1 = k1
  k2 = k2
  n1 = n1
  n2 = n2
  n3 = n3
  c1 = c1
  Peer = {p1, p2}
  Keys = {k1, k2}
  RTI = 2
  MaxPending = 1
  MaxReplies = 2
  Modulus = 8
  WFwd = 2
  Chan = {c1}
  Epoch = {1, 2, 3}
  MaxSid = 1
  TTL = 2
  Liveness = 1
  MaxTombs = 1
  MaxTombBytes = 2
  OrderSlack = 0
  UnknownMethod <- MCUnknown
  MaxLiveCalls = 1
  MaxDeadPeers = 1
  ExtraTTL = 0
  MaxOrphans = 1
  MaxTime = 1
  Term <- MCTerm
  TermSize <- MCTermSize
  MaxTermSize = 2
  Reject = "rejected"
INVARIANTS
  PeersBounded
  LiveAccounting
  PartsTypeOK
  RepliesBounded
  TotalsExact
  SlotsAreSwept
  InOrder
  Accounted
  StrictFailsRarely
  CreditExact
  StashSuffices
  FlushedBeforeTeardown
  TeardownIsLast
CHECK_DEADLOCK FALSE
