SPECIFICATION FairSpec
CONSTANTS
    RequiredUnchangedTicks = 2
    TimeoutTicks = 4
    s1 = s1
    s2 = s2
    adder = adder
    low = low
    high = high
    dark = dark
    lit = lit
    Nothing = Nothing
    Oscillates = Oscillates
    Sessions = {s1}
    Actions = {"Validate", "ValidateExisting", "LoadFixture"}
    Controls = {"PauseTicks", "ResumeTicks", "StepTicks", "ClearImportedBlocks"}
    Fixtures = {adder}
    FixtureOf <- OneFixture
    Settings = {low, high}
    Outputs = {dark, lit}
    Expected <- FollowsInput
    Vectors <- LowHigh
    Neutral = low
    MaxDelay = 2
    VisibleStride = 2
    MaxSteps = 2
INVARIANTS
    ComparedUnderItsVector
    InputsRestored
PROPERTIES
    KeepsPromise
    SessionEnds
