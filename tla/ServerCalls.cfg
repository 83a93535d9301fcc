SPECIFICATION ServeSpec
CONSTANTS
  Epoch = {1}
  MaxSid = 3
  TTL = 2
  Liveness = 1
  MaxTombs = 1
  MaxTombBytes = 3
  OrderSlack = 0
  UnknownMethod = {}
  MaxLiveCalls = 2
  MaxDeadPeers = 1
  ExtraTTL = 0
  MaxOrphans = 0
  MaxTime = 4
  Term <- MCTerm
  TermSize <- MCTermSize
  MaxTermSize = 2
  Reject = "rejected"
INVARIANTS
  TypeOK
  AtMostOnce
  NeverForgotten
  OneVerdict
  DeadMeansCancelled
  TombsBounded
  OnlyStaleRefused
