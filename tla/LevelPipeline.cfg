SPECIFICATION Spec
CONSTANTS
    Detectors <- MCDetectors
    Clusters <- MCClusters
    Hierarchies <- MCHierarchies
    Slots = {s1, s2, s3, s4}
    MaxThrows = 1
    PartialTouch = FALSE
    Absent = Absent
    Free = Free
    Dirty = Dirty
    Leaked = Leaked
INVARIANTS TypeOK AggregatedExactlyOnce InheritsEverythingBelow
PROPERTY ShotEnds
CHECK_DEADLOCK FALSE
