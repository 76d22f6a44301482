SPECIFICATION Spec
CONSTANTS
    Workers = {w1, w2}
    Callers = {c1, c2}
    Tasks = {t1, t2}
    NoTask = NoTask
    TasksSubmit = TRUE
INVARIANTS TypeOK NoIdleWorkerWhileTasksWait DestructorFinishesQueue
PROPERTY ImplementsWaitablePool
