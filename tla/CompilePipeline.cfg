SPECIFICATION PipelineSpec
CONSTANTS
    c1 = c1
    c2 = c2
    c3 = c3
    run1 = run1
    run2 = run2
    Compiles = {c1, c2, c3}
    Directories = {run1, run2}
    Layouts <- MCLayouts
    Stable = Stable
    Absent = Absent
    a = a
    b = b
    g1 = g1
    g2 = g2
    g3 = g3
    Inputs = {a, b}
    SourceFamilies <- MCSourceFamilies
    PlainSource <- MCPlainSource
    TableLimits = {1, 2}
    Focuses = {"files", "source", "capture"}
    Lead = c1
    Batches = 3
    SettleTicks = 4
    StablePasses = 2
    MaxDelay = 4
    VisibleStride = 2
    Unread = Unread
INVARIANTS
    DirectoryIsTransactional
    StableIsWhatWasAsked
    DiagramComputesTheSource
    SchematicIsSettled
PROPERTY StagingEnds
CHECK_DEADLOCK FALSE
