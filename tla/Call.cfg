SPECIFICATION Spec
CONSTANTS
 MaxClient = 2
 MaxServer = 2
 Caller <- BothCall
 MaxUpsets = 1
 MaxLives = 2
 MaxNet = 2
INVARIANTS TypeOK Agreement
PROPERTY Implements LockHolds
CHECK_DEADLOCK FALSE
