SPECIFICATION Spec
CONSTANTS
    MaxPids = 3
    MaxProcs = 4
    MaxFaults = 1
    Stoppable = {2}
    MaxStops = 1
INVARIANTS
    SlotFollowsRegistry
    OnlyLinkedEnds
    ReportedPairStays
    AgreeAfterRestart
    NoMutualWait
CHECK_DEADLOCK FALSE
