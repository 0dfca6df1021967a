SPECIFICATION Spec
CONSTANTS
    Nodes = {n1}
    Regions = {r1}
    Width = 3
    Ahead = 3
    MaxClock = 10
    MaxPending = 3
INVARIANTS
    TypeOK
    NothingForgotten
PROPERTY KeepsSchedule
