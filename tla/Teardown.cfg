SPECIFICATION TeardownSpec
CONSTANTS
  c1 = c1
  c2 = c2
  p1 = p1
  p2 = p2
  Conn = {c1}
  Epoch = {1}
  MaxSid = 2
  TTL = 2
  Liveness = 1
  MaxTombs = 1
  MaxTombBytes = 2
  OrderSlack = 0
  UnknownMethod = {}
  MaxLiveCalls = 2
  MaxDeadPeers = 1
  ExtraTTL = 0
  MaxOrphans = 2
  MaxTime = 1
  Term <- MCTerm
  TermSize <- MCTermSize
  MaxTermSize = 2
  Reject = "rejected"
INVARIANTS
  StoppedMeansDone
  TeardownTypeOK
  OwnerNotRejected
PROPERTIES
  StopTerminates
  HealthyResumes
  DeathTearsDown
  DeathFlushes
  SendSettles
  CorpseServesNobody
  NothingHangs
CHECK_DEADLOCK FALSE
