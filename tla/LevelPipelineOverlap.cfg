SPECIFICATION Spec
CONSTANTS
    Detectors <- MCDetectors
    Clusters <- MCClusters
    Hierarchies <- MCHierarchies
    Slots = {s1, s2, s3}
    MaxThrows = 0
    PartialTouch = TRUE
    Absent = Absent
    Free = Free
    Dirty = Dirty
    Leaked = Leaked
SYMMETRY SlotSymmetry
INVARIANT AggregatedExactlyOnce
