SPECIFICATION Spec
CONSTANTS
    Signals <- MCSignals
    Candidates <- MCCandidates
    Guides <- MCGuides
    Terminals <- MCTerminals
    Relations <- MCRelations
    Wholes <- MCWholes
INVARIANTS
    PropagationIsSound
    ConsistentBetweenChoices
PROPERTY
    PropagationEnds
