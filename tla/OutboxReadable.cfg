\* The instance of Outbox.cfg, for one property.
CONSTANTS
    Me = 2
    Nobody = Nobody
    Threads <- Both
    Dms <- OneDm
    MaxRetries = 1
    MaxMessages = 2
    MaxCalls = 2
SPECIFICATION Spec
INVARIANT FramesAreReadable
