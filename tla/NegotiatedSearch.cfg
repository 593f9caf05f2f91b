SPECIFICATION Spec
CONSTANTS
    Signals <- MCSignals
    Candidates <- MCCandidates
    Resources <- MCResources
    None = None
    Problems <- MCProblems
    MaximumIterations = 4
    StagnationPassLimit = 3
    SeedShare <- MCSeedShare
    MandatoryCutSize = 1
    CompletionRoundLimit = 1
    RoomLimit = 1
INVARIANTS
    OfferedBeforeGivingUp
    InputsFollowSelection
    StagnationIsHonest
    FailureNamesTheConflicting
