SPECIFICATION Spec
CONSTANTS
    Signals <- MCSignals
    Candidates <- MCCandidates
    Deferred <- MCDeferred
    Budgets <- MCBudgets
INVARIANTS
    SelectionIsLegal
    DomainsFollowSelection
    FailureNetConflicts
PROPERTY
    KeepsPromise
