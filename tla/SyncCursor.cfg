\* Safety and liveness of the cursors: one conversation, inclusive tail pages,
\* failures allowed.
CONSTANTS
    c1 = c1
    Conv <- OneConv
    InitialSent <- OneInitial
    PageLimit = 2
    BackfillPages = 2
    MaxSent = 6
    AfterInclusive = TRUE
SPECIFICATION FairSpec
INVARIANTS NoHole CompleteIsComplete
PROPERTIES NothingForgotten KeepsThePromise EverythingArchived
