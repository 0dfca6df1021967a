SPECIFICATION Spec
CONSTANTS
    Clients = {c1}
    Resetters = {r1}
    PoolSlots = 2
    MinReady = 2
    Tasks = 2
    PrewarmOptional = TRUE
PROPERTY DecodeCompletes
CHECK_DEADLOCK FALSE
