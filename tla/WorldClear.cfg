SPECIFICATION RuntimeSpec
CONSTANTS
    Managers = {m1, m2}
    MaxTokens = 3
    Loads <- MCLoads
    Overworld = {r1, r2}
    Foreign = {nether}
    Positions = {p1, p2}
    BatchLimit = 2
    MaxRuns = 2
    MaxPastes = 3
SYMMETRY RuntimeSymmetry
INVARIANTS
    ListedRegionsCleared
    PausedForTheScanOnly
    LoneCommandsSettle
CHECK_DEADLOCK FALSE
