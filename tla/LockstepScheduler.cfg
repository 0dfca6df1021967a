SPECIFICATION Spec
CONSTANTS
    a = a
    b = b
    z = z
    Detectors = {a, b, z}
    Shots <- FlatShots
    MaxTime = 1
    None = None
INVARIANTS TypeOK NothingLost CountsEveryDetectorOnce
PROPERTY DecodeEnds
CHECK_DEADLOCK FALSE
