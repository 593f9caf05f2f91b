SPECIFICATION TrackerSpec
CONSTANTS
    RequiredUnchangedTicks = 2
    TimeoutTicks = 4
    MaxGameTime = 6
    TraceStates = {dark, lit}
    Unobserved = Unobserved
SYMMETRY TraceStateSymmetry
INVARIANTS
    SettledAtFirstQuietWindow
    EvidenceIsExact
