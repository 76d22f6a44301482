SPECIFICATION Spec
CONSTANTS
    Callers = {c1}
    Tasks <- FiveTasks
    Strategies <- BothWays
    maxQueueSize = 0
    flushBatchSize = 2
    MayThrow = FALSE
    VectorBound = 3
PROPERTIES ShutdownFlushesOwnBuffer
CHECK_DEADLOCK FALSE
