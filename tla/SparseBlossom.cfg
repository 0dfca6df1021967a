SPECIFICATION Spec
CONSTANT Problems <- MCProblems
INVARIANTS
    TypeOK
    DualFeasible
    CachesAreFresh
    TreesAlternate
    NothingMissed
    CleanBetweenCalls
PROPERTY FindsMinimumWeightCorrection
