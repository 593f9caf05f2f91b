SPECIFICATION Spec
CONSTANTS
    Signals <- MCSignals
    Routes <- MCRoutes
    SolidBlocks <- MCSolidBlocks
    ActualBlocks <- MCActualBlocks
INVARIANTS
    PairwiseFormsAgree
    IndexFindsTheSame
    NoCrossTalk
