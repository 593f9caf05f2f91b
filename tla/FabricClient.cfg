SPECIFICATION ClientSpec
CONSTANTS
    RequiredUnchangedTicks = 2
    TimeoutTicks = 3
    s1 = s1
    s2 = s2
    adder = adder
    low = low
    high = high
    dark = dark
    lit = lit
    Nothing = Nothing
    Oscillates = Oscillates
    Sessions = {s1, s2}
    Actions = {"Validate", "ValidateExisting", "LoadFixture"}
    Controls = {"PauseTicks", "ResumeTicks", "StepTicks", "ClearImportedBlocks"}
    Fixtures = {adder}
    FixtureOf <- OneFixture
    Settings = {low, high}
    Outputs = {dark, lit}
    Expected <- FollowsInput
    Vectors <- LowHigh
    Neutral = low
    MaxDelay = 1
    VisibleStride = 1
    MaxSteps = 1
SYMMETRY SessionSymmetry
INVARIANTS
    ObserverSlotIsOwned
    ReportIsTrue
    InputsAsFound
