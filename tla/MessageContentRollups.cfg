\* A deletion on another day than its target.
CONSTANTS
    Thread = thread
    PageLimit = 2
    BackfillPages = 2
    MaxSent = 5
    AfterInclusive = TRUE
    InitialLog <- OnePost
    Target = 1
    Day <- TwoDays
    IsGroup = TRUE
SPECIFICATION Spec
INVARIANT RollupsNeverDrift
