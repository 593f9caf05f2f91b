SPECIFICATION FairSpec
CONSTANTS
    x1 = x1
    x2 = x2
    y1 = y1
    y2 = y2
    z1 = z1
    z2 = z2
    a1 = a1
    a2 = a2
    a3 = a3
    b1 = b1
    b2 = b2
    e1 = e1
    e2 = e2
    p1 = p1
    p2 = p2
    Signals <- MCSignals
    Candidates <- MCCandidates
    SignalOf <- MCSignalOf
    Layer <- MCLayer
    Domains <- MCDomains
    DomainSignal <- MCDomainSignal
    Accesses <- MCAccesses
    CompleteDomains = {"a", "b"}
    Terminals <- MCTerminals
    Portals <- MCPortals
    Trees <- MCTrees
    TreeSignal <- MCTreeSignal
    TreeAccesses <- MCTreeAccesses
    MinimizeMaximumRoutingLayer = TRUE
    CompleteSignals = {"x", "z"}
    Problems <- MCProblems
INVARIANTS
    PlanIsAcceptable
    ExhaustionIsProof
    LowestLayerOrNone
    NoGoodsAreSound
    EmptiedByThree
PROPERTIES
    PlanningEnds
