SPECIFICATION Spec
CONSTANTS
    s1 = s1  r1 = r1  o1 = o1
    MaxLives = 2
    MaxRuns = 1
    Policies <- Restarting
    MaxRestarts = 1
    RunLengths <- ShortRuns
    Stops <- NoRequests
    Removers <- OneRemover
    Overwriters <- NoRequests
    MaxResets = 0
INVARIANTS
    NoOrphan
CHECK_DEADLOCK FALSE
