\* A group and a direct message; two messages, one of which may be another's.
CONSTANTS
    Me = 2
    Nobody = Nobody
    Threads <- Both
    Dms <- OneDm
    MaxRetries = 1
    MaxMessages = 2
    MaxCalls = 2
SPECIFICATION FairSpec
INVARIANTS OnePostPerCall ShownIsArchived
PROPERTIES SettlesReadable
