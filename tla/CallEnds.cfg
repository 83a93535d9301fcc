SPECIFICATION FairSpec
CONSTANTS
 MaxClient = 2
 MaxServer = 2
 Caller <- FirstCalls
 MaxUpsets = 1
 MaxLives = 2
 MaxNet = 2
PROPERTIES CallEnds HandlerStops
CHECK_DEADLOCK FALSE
