SPECIFICATION SpecDispatch
CONSTANTS
    Workers = {w1, w2, w3}
    main = main
    Callers = {main}
    t1 = t1
    t2 = t2
    t3 = t3
    Tasks = {t1, t2, t3}
    Suite <- ThreeTasks
    NoTask = NoTask
    MaxSize = 0
    Policies = {FALSE}
    Shutdowns <- DrainOnly
    NestedPolicies = {}
    numLogicalCores = 2
    MachineCores = 2
    MaySpawnFail = TRUE
INVARIANTS RoundRobinIsEven TasksRunPinned
PROPERTY ImplementsDispatch
