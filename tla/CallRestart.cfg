SPECIFICATION FairSpec
CONSTANTS
 MaxClient = 1
 MaxServer = 2
 Caller <- FirstCalls
 MaxUpsets = 1
 MaxLives = 1
 MaxNet = 2
PROPERTY StreamFails
CHECK_DEADLOCK FALSE
