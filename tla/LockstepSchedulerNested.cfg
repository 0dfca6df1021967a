SPECIFICATION Spec
CONSTANTS
    a = a
    b = b
    z = z
    Detectors = {a, b, z}
    Shots <- NestedShots
    MaxTime = 2
    None = None
INVARIANT CountsEveryDetectorOnce
CHECK_DEADLOCK FALSE
