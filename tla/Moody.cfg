SPECIFICATION Spec
CONSTANTS
    Workers = {w1, w2, w3}
    Tasks = {t1, t2, t3}
    NoTask = NoTask
    MayThrow = TRUE
PROPERTY ImplementsDispatch
