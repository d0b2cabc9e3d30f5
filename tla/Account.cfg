\* Who may write, what is kept, and that a good token is taken up.
CONSTANTS
    alice = alice
    bob = bob
    a1 = a1
    a2 = a2
    b = b
    forged = forged
    None = None
    Token <- FourTokens
    Account <- TwoPeople
    Owner <- WhoseToken
    MaxCaptured = 1
SPECIFICATION FairSpec
INVARIANTS OnePerson NothingKeptUnverified LatestTokenRuns
PROPERTIES GoodTokenSyncs
