SPECIFICATION LiveSpec
CONSTANTS
    s1 = s1  r1 = r1  o1 = o1
    MaxLives = 2
    MaxRuns = 1
    Policies <- Restarting
    MaxRestarts = 1
    RunLengths <- ShortRuns
    Stops <- OneStop
    Removers <- NoRequests
    Overwriters <- NoRequests
    MaxResets = 1
PROPERTIES
    ResetEndsAll
    WaitsEnd
CHECK_DEADLOCK FALSE
