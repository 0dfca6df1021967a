SPECIFICATION Spec
CONSTANTS
    Clients = {c1, c2, c3}
    Resetters = {r1, r2}
    PoolSlots = 2
    MinReady = 2
    Tasks = 3
    PrewarmOptional = TRUE
INVARIANTS TypeOK Ownership NoLostWakeup
PROPERTIES CleanHandout KeepsPromise PrewarmedPoolServes
CHECK_DEADLOCK FALSE
