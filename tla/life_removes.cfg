SPECIFICATION Spec
CONSTANTS
    s1 = s1  r1 = r1  o1 = o1
    MaxLives = 2
    MaxRuns = 2
    Policies <- AllPolicies
    MaxRestarts = 1
    RunLengths <- ShortRuns
    Stops <- NoRequests
    Removers <- OneRemover
    Overwriters <- OneOverwriter
    MaxResets = 1
INVARIANTS
    ClaimHasOwner
    OneProcess
    NothingInherited
CHECK_DEADLOCK FALSE
