SPECIFICATION WavesSpec
CONSTANTS
    Branches = 3
    Threads = 2
    MaximumExpansionCount = 8
    Plans <- MCPlans
INVARIANTS
    WorkIsCharged
    PassedOverOnlyWhenCut
PROPERTY
    KeepsPromise
