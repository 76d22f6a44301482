SPECIFICATION Spec
CONSTANTS
    Callers = {c1, c2}
    Tasks <- SevenTasks
    Strategies <- BothWays
    maxQueueSize = 3
    flushBatchSize = 2
    MayThrow = TRUE
    VectorBound = 3
INVARIANTS TypeOK NothingRunsTwice OvershootIsBounded
PROPERTIES ShutdownFindsAllDone ShutdownReturns
ACTION_CONSTRAINT ArenaRunsLowestFirst
CHECK_DEADLOCK FALSE
