SPECIFICATION Spec
CONSTANTS
    NumberOfWorkers = 2
    Posters = {p1, p2}
    Tasks = {t1, t2, t3}
    NoTask = NoTask
    MayThrow = TRUE
INVARIANTS PostedTasksRunOnce
PROPERTY DispatchNeverHangs
