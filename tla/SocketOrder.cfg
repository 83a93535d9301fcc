SPECIFICATION SockSpec
CONSTANTS
  High = 1
  Pings = FALSE
  MaxSends = 3
  MaxRx = 1
INVARIANT OrderKept
CHECK_DEADLOCK FALSE
