\* Three clients, one of which may be restarted and asks for the stack changes, one robot,
\* two changes that may overlap.
CONSTANTS
    Clients = {c1, c2, c3}
    Robots = {r1}
    Changes = {x1, x2}
    MaxGen = 2
    Restarting = {c1}
    Askers = {c1}
SPECIFICATION Spec
SYMMETRY Symmetry
INVARIANTS
    LeasesHaveHolders
    AnsweredHaltHolds
    EventsTellAll
PROPERTIES
    HolderHasGoal
    NoTakeDuringRemoval
