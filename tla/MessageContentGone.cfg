\* A message known to be gone, and copies of it made before.
CONSTANTS
    Thread = thread
    PageLimit = 2
    BackfillPages = 2
    MaxSent = 5
    AfterInclusive = TRUE
    InitialLog <- OnePost
    Target = 1
    Day <- TwoDays
    IsGroup = TRUE
SPECIFICATION Spec
INVARIANT KnownGoneReadsGone
