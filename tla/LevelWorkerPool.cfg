SPECIFICATION Spec
CONSTANTS
    Workers = {w1, w2, w3}
    Counts = {2, 4}
INVARIANTS TypeOK CountsWhatIsLeft
PROPERTIES ImplementsForkJoin CallsAndShutdownsEnd
