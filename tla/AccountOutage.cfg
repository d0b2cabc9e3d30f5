\* One good token, kept over a restart, and a network that fails for a while.
CONSTANTS
    alice = alice
    bob = bob
    a1 = a1
    a2 = a2
    b = b
    forged = forged
    None = None
    Token <- OneToken
    Account <- TwoPeople
    Owner <- OneOwner
    MaxCaptured = 1
SPECIFICATION FairSpec
PROPERTY OutageOutlived
