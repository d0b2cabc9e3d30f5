\* Two edits of one message, and a walk that meets the newer first.
CONSTANTS
    Thread = thread
    PageLimit = 2
    BackfillPages = 2
    MaxSent = 3
    AfterInclusive = TRUE
    InitialLog <- OnePost
    Target = 1
    Day <- TwoDays
    IsGroup = TRUE
SPECIFICATION Spec
INVARIANT SettledTextIsCurrent
