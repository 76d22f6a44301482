SPECIFICATION Spec
CONSTANTS
    Workers = {w1, w2}
    Callers = {c1, c2}
    Tasks = {t1, t2, t3, t4, t5}
    NoTask = NoTask
    MaxSize = 1
    Policies = {TRUE, FALSE}
    Shutdowns <- BothShutdowns
    NestedPolicies = {TRUE, FALSE}
INVARIANTS TypeOK NoIdleWorkerWhileTasksWait NoStrandedSubmitter NeverInTwoPlaces NoTaskLostWhileActive DrainRunsWhatItFound CompletedCountsExecutions OnlyLateTasksAreLeft StallsOnlyInOwnPush
SYMMETRY PoolSymmetry
