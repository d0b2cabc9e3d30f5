\* A message that is edited and deleted while its conversation is archived.
CONSTANTS
    Thread = thread
    PageLimit = 2
    BackfillPages = 2
    MaxSent = 5
    AfterInclusive = TRUE
    InitialLog <- OnePost
    Target = 1
    Day <- TwoDays
    IsGroup = TRUE
SPECIFICATION Spec
INVARIANTS WindowKnowsDeletion OneEditIsKept SameDayIsCounted
