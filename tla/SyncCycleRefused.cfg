\* The same loop with two pushed syncs at a time: a refusal and what follows it.
CONSTANTS
    g = g
    d = d
    Conv <- GroupAndDm
    Groups <- OnlyGroups
    InitialSent <- TwoInitial
    PageLimit = 1
    MaxSent = 2
    AfterInclusive = FALSE
    GentlePages = 1
    CatchupPages = 2
    MaxQueue = 2
    InitialMedia = 0
SPECIFICATION Spec
INVARIANT PausesWhereverRefused
