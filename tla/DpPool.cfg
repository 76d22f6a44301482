SPECIFICATION Spec
CONSTANTS
    NumberOfThreads = 2
    Callers = {c1, c2}
    Tasks = {t1, t2}
    NoTask = NoTask
    TasksEnqueue = TRUE
INVARIANTS TypeOK NoTaskWithoutWorker
PROPERTY ImplementsWaitablePool
