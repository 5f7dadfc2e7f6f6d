SPECIFICATION Spec
CONSTANTS
    Alphabet <- MCAlphabet
    Cases <- MCCases
    Wants <- MCWants
    MaxRuns = 2
    Folded <- MCFolded
    Matches <- MCMatches
    Schemas <- MCSchemas
    Profiles <- MCProfiles
    Edges <- MCEdges
    Totals = {3, 5}
    Extra = 1
    MaxPools = 2
    None = None
INVARIANTS
     CloneLooksAlike
    OverridesAllowed AcceptedIsApplied FailsOnlyUnsure
    KeepsShape DealFits
PROPERTIES ClonesEnd
CHECK_DEADLOCK FALSE
