\* Four tasks at once, the thresholds of the program.
CONSTANTS
    FailuresToOffline = 3
    SuccessesToOnline = 1
    MaxTasks = 4
SPECIFICATION FairSpec
INVARIANTS OverrideHolds SettledMeansPlaced
PROPERTIES FollowsTheNetwork
