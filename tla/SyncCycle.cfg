\* The loop, its queue and its passes: one group, one direct message, one
\* pushed sync at a time; failures, refusals and crashes allowed.
CONSTANTS
    g = g
    d = d
    Conv <- GroupAndDm
    Groups <- OnlyGroups
    InitialSent <- TwoInitial
    PageLimit = 1
    MaxSent = 2
    AfterInclusive = FALSE
    GentlePages = 1
    CatchupPages = 2
    MaxQueue = 1
    InitialMedia = 1
SPECIFICATION FairSpec
INVARIANTS RecentFirst NoLostWakeup StandsDown
PROPERTIES VisitsAsDescribed GoesIdle CatchesUp
