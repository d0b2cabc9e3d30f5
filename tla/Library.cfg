\* Two groups and a direct message, one roster per cycle.
CONSTANTS
    g = g
    h = h
    d = d
    Group <- TwoGroups
    Chat <- OneChat
    RosterLimit = 1
    MaxMoves = 1
SPECIFICATION FairLibrarySpec
INVARIANTS FormerFollowsEvidence
PROPERTIES NothingGoesBack TableSettles RostersFill
