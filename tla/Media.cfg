\* An avatar and two attachments, two addresses a pass.
CONSTANTS
    p = p
    Wanted <- Older
    Nothing = Nothing
    Avatars <- OneAvatar
    Attachments <- TwoAttachments
    MediaPerCycle = 2
    MaxChanges = 1
    MaxRestarts = 1
SPECIFICATION FairMediaSpec
INVARIANTS RowHasFile FlagAgrees
PROPERTIES EverythingComes
