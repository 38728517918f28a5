SPECIFICATION FairSpec
CONSTANTS
    a1 = a1
    bad = bad
    Tools <- MCTools
    Args <- MCArgs
    Malformed = bad
    Changing <- MCChanging
    Texts <- MCGateTexts
    Offers <- MCOffers
    MaxCalls = 1
    MaxSteps = 4
    FailureNudges = 2
    NudgeLimit = 3
INVARIANTS
    NoBlindRepeat
    FailuresAreOwned
    ResearchIsEvidenced
    NoRetractedDraft
    OneRecordPerTurn
PROPERTIES
    TurnEnds
CHECK_DEADLOCK FALSE
