\* Two tokens, two conversations, one of them refused by the server.
\* Deadlock: workers that were refused have stopped for good.
CONSTANTS
    r = r
    d = d
    nobody = nobody
    Conv <- Both
    Groups <- OnlyGroups
    Denied <- RefusedGroup
    NoThread <- nobody
    MaxWorkers = 2
    MaxCommands = 2
SPECIFICATION FairRealtimeSpec
INVARIANTS ReaderIsServed
PROPERTIES KeepsComingBack DroppedWorkerEnds
CHECK_DEADLOCK FALSE
