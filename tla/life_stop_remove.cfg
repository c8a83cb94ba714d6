SPECIFICATION Spec
CONSTANTS
    s1 = s1  r1 = r1  o1 = o1
    MaxLives = 2
    MaxRuns = 2
    Policies <- Restarting
    MaxRestarts = 1
    RunLengths <- AnyRuns
    Stops <- OneStop
    Removers <- OneRemover
    Overwriters <- NoRequests
    MaxResets = 1
INVARIANTS
    NoOtherOrphan
    StoppedStaysStopped
CHECK_DEADLOCK FALSE
