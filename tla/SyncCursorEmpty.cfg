\* A conversation that holds nothing when it is first asked for: what its empty
\* page claims.
CONSTANTS
    c1 = c1
    Conv <- OneConv
    InitialSent <- EmptyInitial
    PageLimit = 2
    BackfillPages = 2
    MaxSent = 6
    AfterInclusive = TRUE
SPECIFICATION Spec
INVARIANT CompleteIsComplete
