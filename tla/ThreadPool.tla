----------------------------- MODULE ThreadPool -----------------------------
(***************************************************************************)
(* The thread pool of ThreadPool.h once its constructor has returned:      *)
(* worker threads that take tasks from a ThreadSafeQueue, threads that     *)
(* submit tasks, and threads that shut the pool down.  Each action is what *)
(* one thread does between two points where another one can interfere:     *)
(* one critical section, or one access to an atomic.                       *)
(*                                                                         *)
(* A task is a call the pool has to make; whether it returns or throws,    *)
(* workerThread goes on in the same way, so its end is one action.         *)
(***************************************************************************)
EXTENDS ThreadSafeQueue, FiniteSets

CONSTANTS
    Workers,            \* the threads of the pool
    Callers,            \* the threads that use the pool
    Tasks,              \* the tasks there are to submit, each once
    NoTask,
    Policies,           \* the values of blockIfQueueFull that callers use
    NestedPolicies,     \* and those that running tasks use, if they submit at all
    Shutdowns           \* the shutdown functions in use

ShutdownFunctions == {"shutdownImmediately", "shutdownProcessRemainingTasks"}

ASSUME PoolAssumption ==
    /\ IsFiniteSet(Workers) /\ Workers # {}
    /\ IsFiniteSet(Callers) /\ Workers \cap Callers = {}
    /\ IsFiniteSet(Tasks) /\ NoTask \notin Tasks
    /\ Policies \subseteq BOOLEAN /\ NestedPolicies \subseteq BOOLEAN
    /\ Shutdowns \subseteq ShutdownFunctions

\* As in ThreadSafeQueue, a name ending in Bug is a mistake no specification uses.

VARIABLES
    active,             \* active
    wpc,                \* where each worker is in workerThread
    running,            \* the local variable task of each worker
    executions,         \* how often each task has been called to its end
    completed,          \* tasksCompleted
    joined,             \* have the threads in workers been joined?
    call,               \* where each thread is in its call of a pool function
    arg,                \* the task that call submits
    result,             \* what tryEnqueueTask returned for each task
    stopped,            \* the callers whose shutdown call has returned
    promised,           \* the tasks reported accepted when draining began
    late                \* the tasks tryPush appended to a queue already shut down

poolvars == <<active, wpc, running, executions, completed, joined>>
callvars == <<call, arg, result, stopped>>
ghosts == <<promised, late>>
vars == <<qvars, poolvars, callvars, ghosts>>

Threads == Workers \cup Callers

WorkerPCs == {"waitPop", "task", "count", "exited"}
EnqueuePCs == {"tryEnqueueTask", "push", "tryPush", "tryPush locked"}
ShutdownPCs == ShutdownFunctions \cup {"clear", "drain", "shutdown", "join"}

Init ==
    /\ QInit
    /\ active = TRUE
    /\ wpc = [w \in Workers |-> "waitPop"]
    /\ running = [w \in Workers |-> NoTask]
    /\ executions = [task \in Tasks |-> 0]
    /\ completed = [w \in Workers |-> 0]
    /\ joined = FALSE
    /\ call = [t \in Threads |-> "none"]
    /\ arg = [t \in Threads |-> NoTask]
    /\ result = [task \in Tasks |-> "none"]
    /\ stopped = {}
    /\ promised = {}
    /\ late = {}

TypeOK ==
    /\ QTypeOK(Tasks, Threads)
    /\ cv \subseteq Workers
    /\ active \in BOOLEAN
    /\ wpc \in [Workers -> WorkerPCs]
    /\ running \in [Workers -> Tasks \cup {NoTask}]
    /\ executions \in [Tasks -> Nat]
    /\ completed \in [Workers -> Nat]
    /\ joined \in BOOLEAN
    /\ call \in [Threads -> {"none"} \cup EnqueuePCs \cup ShutdownPCs]
    /\ arg \in [Threads -> Tasks \cup {NoTask}]
    /\ result \in [Tasks -> {"none", "pending", "true", "false"}]
    /\ stopped \subseteq Callers
    /\ promised \subseteq Tasks
    /\ late \subseteq Tasks

-----------------------------------------------------------------------------
(* workerThread                                                            *)
WorkerGoesTo(w, label) == wpc' = [wpc EXCEPT ![w] = label]

TakeTask(w) ==
    /\ wpc[w] = "waitPop" /\ w \notin cv
    /\ \/ PopSleeps(w) /\ UNCHANGED <<wpc, running>>
       \/ PopFindsClosed /\ WorkerGoesTo(w, "exited") /\ UNCHANGED running
       \/ \E task \in Tasks :
              /\ PopTakes(task)
              /\ running' = [running EXCEPT ![w] = task]
              /\ WorkerGoesTo(w, "task")
    /\ UNCHANGED <<active, executions, completed, joined, callvars, ghosts>>

TaskEnds(w) ==
    /\ wpc[w] = "task" /\ call[w] = "none"
    /\ executions' = [executions EXCEPT ![running[w]] = @ + 1]
    /\ running' = [running EXCEPT ![w] = NoTask]
    /\ WorkerGoesTo(w, "count")
    /\ UNCHANGED <<qvars, active, completed, joined, callvars, ghosts>>

CountTaskBug(w) ==                              \* a task that throws skips it
    /\ wpc[w] = "count"
    /\ WorkerGoesTo(w, "waitPop")
    /\ UNCHANGED <<qvars, active, running, executions, completed, joined, callvars, ghosts>>

CountTask(w) ==
    /\ wpc[w] = "count"
    /\ completed' = [completed EXCEPT ![w] = @ + 1]
    /\ WorkerGoesTo(w, "waitPop")
    /\ UNCHANGED <<qvars, active, running, executions, joined, callvars, ghosts>>

-----------------------------------------------------------------------------
(* tryEnqueueTask, called by a caller or from inside a running task        *)
PoliciesOf(t) == IF t \in Workers THEN NestedPolicies ELSE Policies

MaySubmit(t) ==
    /\ call[t] = "none" /\ PoliciesOf(t) # {}
    /\ t \in Workers => wpc[t] = "task"

CallGoesTo(t, label) ==
    /\ call' = [call EXCEPT ![t] = label]
    /\ UNCHANGED <<arg, result>>

EnqueueReturns(t, answer) ==
    /\ call' = [call EXCEPT ![t] = "none"]
    /\ result' = [result EXCEPT ![arg[t]] = answer]
    /\ arg' = [arg EXCEPT ![t] = NoTask]

CallTryEnqueueTask(t, task) ==
    /\ MaySubmit(t)
    /\ result[task] = "none"
    /\ call' = [call EXCEPT ![t] = "tryEnqueueTask"]
    /\ arg' = [arg EXCEPT ![t] = task]
    /\ result' = [result EXCEPT ![task] = "pending"]
    /\ UNCHANGED <<qvars, poolvars, stopped, ghosts>>

ReadActive(t) ==
    /\ call[t] = "tryEnqueueTask"
    /\ \/ ~active /\ EnqueueReturns(t, "false")
       \/ \E blockIfQueueFull \in PoliciesOf(t) :
              active /\ CallGoesTo(t, IF blockIfQueueFull THEN "push" ELSE "tryPush")
    /\ UNCHANGED <<qvars, poolvars, stopped, ghosts>>

\* push returns nothing, so its caller answers true when it dropped the task.
Push(t) ==
    /\ call[t] = "push" /\ t \notin cvFull
    /\ \/ PushSleeps(t) /\ UNCHANGED <<call, arg, result>>
       \/ PushDrops /\ EnqueueReturns(t, "true")
       \/ PushAccepts(arg[t]) /\ EnqueueReturns(t, "true")
    /\ UNCHANGED <<poolvars, stopped, ghosts>>

TryPushEntry(t) ==
    /\ call[t] = "tryPush"
    /\ IF TryPushMayEnter THEN CallGoesTo(t, "tryPush locked")
                          ELSE EnqueueReturns(t, "false")
    /\ UNCHANGED <<qvars, poolvars, stopped, ghosts>>

NoteLate(task) == late' = IF shutdown THEN late \cup {task} ELSE late

TryPushLockedBug(t) ==                          \* the result of tryPush ignored
    /\ call[t] = "tryPush locked"
    /\ TryPushRefuses \/ TryPushAccepts(arg[t])
    /\ EnqueueReturns(t, "true")
    /\ UNCHANGED <<poolvars, stopped, ghosts>>

TryPushLocked(t) ==
    /\ call[t] = "tryPush locked"
    /\ \/ TryPushRefuses /\ EnqueueReturns(t, "false") /\ UNCHANGED late
       \/ TryPushAccepts(arg[t]) /\ EnqueueReturns(t, "true") /\ NoteLate(arg[t])
    /\ UNCHANGED <<poolvars, stopped, promised>>

EnqueueStep(t) == ReadActive(t) \/ Push(t) \/ TryPushEntry(t) \/ TryPushLocked(t)

-----------------------------------------------------------------------------
(* shutdownImmediately (the destructor too) and                            *)
(* shutdownProcessRemainingTasks                                           *)
ShutdownReturns(c) ==
    /\ CallGoesTo(c, "none")
    /\ stopped' = stopped \cup {c}

BeginShutdown(c, operation) ==
    /\ call[c] = "none"
    /\ CallGoesTo(c, operation)
    /\ UNCHANGED <<qvars, poolvars, stopped, ghosts>>

CallShutdown(c) ==
    c \notin stopped /\ \E operation \in Shutdowns : BeginShutdown(c, operation)

Accepted == {task \in Tasks : result[task] = "true"}

ExchangeActiveBug(c) ==                         \* a load instead of the exchange
    /\ call[c] \in ShutdownFunctions /\ active
    /\ CallGoesTo(c, IF call[c] = "shutdownImmediately" THEN "clear" ELSE "drain")
    /\ promised' = Accepted
    /\ UNCHANGED <<qvars, poolvars, stopped, late>>

ExchangeActive(c) ==
    /\ \/ /\ call[c] = "shutdownImmediately" /\ active
          /\ CallGoesTo(c, "clear")
          /\ UNCHANGED <<stopped, promised>>
       \/ /\ call[c] = "shutdownProcessRemainingTasks" /\ active
          /\ CallGoesTo(c, "drain")
          /\ promised' = Accepted
          /\ UNCHANGED stopped
       \/ /\ call[c] \in ShutdownFunctions /\ ~active
          /\ ShutdownReturns(c)
          /\ UNCHANGED promised
    /\ active' = FALSE
    /\ UNCHANGED <<qvars, wpc, running, executions, completed, joined, late>>

ClearTasks(c) ==
    /\ call[c] = "clear"
    /\ ClearQueue
    /\ CallGoesTo(c, "shutdown")
    /\ UNCHANGED <<poolvars, stopped, ghosts>>

\* Leaving the busy-wait; an iteration that sees a non-empty queue does nothing.
DrainEnds(c) ==
    /\ call[c] = "drain" /\ SeesEmpty
    /\ CallGoesTo(c, "shutdown")
    /\ UNCHANGED <<qvars, poolvars, stopped, ghosts>>

ShutdownQueue(c) ==
    /\ call[c] = "shutdown"
    /\ CloseQueue
    /\ CallGoesTo(c, "join")
    /\ UNCHANGED <<poolvars, stopped, ghosts>>

JoinWorkersBug(c) ==                            \* detach instead of join
    /\ call[c] = "join"
    /\ joined' = TRUE
    /\ ShutdownReturns(c)
    /\ UNCHANGED <<qvars, active, wpc, running, executions, completed, ghosts>>

JoinWorkers(c) ==
    /\ call[c] = "join"
    /\ \A w \in Workers : wpc[w] = "exited"
    /\ joined' = TRUE
    /\ ShutdownReturns(c)
    /\ UNCHANGED <<qvars, active, wpc, running, executions, completed, ghosts>>

ShutdownStep(c) ==
    \/ ExchangeActive(c) \/ ClearTasks(c) \/ DrainEnds(c)
    \/ ShutdownQueue(c) \/ JoinWorkers(c)

-----------------------------------------------------------------------------
Spurious(t) == WakesUp(t) /\ UNCHANGED <<poolvars, callvars, ghosts>>

WorkerStep(w) == TakeTask(w) \/ TaskEnds(w) \/ CountTask(w)

PoolStep ==
    \/ \E w \in Workers : WorkerStep(w)
    \/ \E t \in Threads : EnqueueStep(t) \/ Spurious(t)
    \/ \E c \in Callers : ShutdownStep(c)

\* Nobody has anything left to do.
AtRest ==
    /\ \A task \in Tasks : result[task] # "none"
    /\ stopped = Callers
    /\ \A t \in Threads : call[t] = "none"
    /\ UNCHANGED vars

Next ==
    \/ PoolStep
    \/ \E t \in Threads, task \in Tasks : CallTryEnqueueTask(t, task)
    \/ \E c \in Callers : CallShutdown(c)
    \/ AtRest

(* Fairness: the scheduler runs every thread that can go on, a thread      *)
(* before a mutex gets it in the end, and a task ends.  Nobody is obliged  *)
(* to submit a task or to shut the pool down, and no wakeup is spurious    *)
(* out of obligation.                                                      *)
Fairness ==
    /\ \A w \in Workers : WF_vars(WorkerStep(w))
    /\ \A t \in Threads : WF_vars(EnqueueStep(t))
    /\ \A c \in Callers : WF_vars(ShutdownStep(c))

Spec == Init /\ [][Next]_vars /\ Fairness

-----------------------------------------------------------------------------
InQueue(task) == \E i \in DOMAIN queue : queue[i] = task

BeingRun(task) == \E w \in Workers : running[w] = task

AwakePoppers == {w \in Workers : wpc[w] = "waitPop"} \ cv

AwakePushers == {t \in Threads : call[t] = "push"} \ cvFull

(* While a worker sleeps in waitPop, every queued task has an awake worker *)
(* on its way to it: a task never waits for a wakeup that will not come.   *)
NoIdleWorkerWhileTasksWait ==
    cv # {} => Len(queue) <= Cardinality(AwakePoppers)

(* The pool stalls, with tasks in the queue and nobody to take them, in     *)
(* one way only: every worker is running a task that is itself asleep in   *)
(* push, submitting to the full queue its worker should empty.             *)
Serving(w) == wpc[w] # "exited" /\ w \notin cv \cup cvFull

StallsOnlyInOwnPush ==
    queue # <<>> =>
        \/ \E w \in Workers : Serving(w)
        \/ Workers \subseteq cvFull
        \/ \A w \in Workers : wpc[w] = "exited"

(* While a submitter sleeps in push, every free slot has an awake          *)
(* submitter to fill it, except between the clear() and the shutdown() of  *)
(* shutdownImmediately: clear() frees the slots and wakes nobody.          *)
NoStrandedSubmitter ==
    cvFull # {} =>
        \/ MaxSize <= Len(queue) + Cardinality(AwakePushers)
        \/ \E c \in Callers : call[c] = "shutdown"

(* A task is never in two places: at two positions of the queue, there and *)
(* in the hands of a worker or of its submitter, or run and still around.  *)
(* In particular it is executed at most once.                              *)
Places(task) ==
    Cardinality({i \in DOMAIN queue : queue[i] = task})
    + Cardinality({w \in Workers : running[w] = task})
    + Cardinality({t \in Threads : arg[t] = task})
    + executions[task]

NeverInTwoPlaces == \A task \in Tasks : Places(task) <= 1

(* While the pool is active, a task that tryEnqueueTask answered true for  *)
(* is in the queue, in a worker, or done.                                  *)
NoTaskLostWhileActive ==
    active => \A task \in Accepted : Places(task) = 1

(* shutdownProcessRemainingTasks processes the tasks it found: when it has *)
(* joined the workers, every task reported accepted before its exchange of *)
(* active has been executed, whatever was still being submitted then.      *)
DrainRunsWhatItFound ==
    joined => \A task \in promised : executions[task] > 0

\* The sum of the values of a counter, as the number of units it has counted.
Units(counter) == UNION {{x} \X (1 .. counter[x]) : x \in DOMAIN counter}

Total(counter) == Cardinality(Units(counter))

(* tasksCompleted misses no execution: at any time it lags behind by the   *)
(* workers that have ended a task and not yet taken tasksCompletedMutex,   *)
(* and by nobody once the workers are joined.                              *)
CompletedCountsExecutions ==
    Total(executions) =
        Total(completed) + Cardinality({w \in Workers : wpc[w] = "count"})

(* A task can be left in the queue for ever only if a tryPush that passed  *)
(* its test of _shutdown before the queue was shut down appended it after: *)
(* the workers leave only when they find the queue empty, and nothing but  *)
(* such a tryPush can fill it again.  "No new tasks are accepted"          *)
(* (ThreadPool.h:170) would exclude that too; the code does not.           *)
OnlyLateTasksAreLeft == joined => \A task \in Tasks : InQueue(task) => task \in late

(* tryEnqueueTask answers true only for a task it has put into the queue   *)
(* (ThreadPool.h:127).                                                     *)
TrueMeansQueued ==
    [][\A task \in Tasks :
          result[task] = "pending" /\ result'[task] = "true" =>
              Len(queue') = Len(queue) + 1 /\ queue'[Len(queue')] = task]_vars

(* Every shutdown function returns, and so does every tryEnqueueTask.      *)
ShutdownTerminates ==
    \A c \in Callers : call[c] \in ShutdownPCs ~> call[c] = "none"

EnqueueTerminates ==
    \A t \in Threads : call[t] \in EnqueuePCs ~> call[t] = "none"

(* A task in the queue leaves it, for a worker or by a clear(), unless it  *)
(* was appended to a queue already shut down.                              *)
QueuedTaskLeaves ==
    \A task \in Tasks : InQueue(task) ~> ~InQueue(task) \/ task \in late

-----------------------------------------------------------------------------
(* The pool implements the life of tasks of TaskLifecycle.                 *)
StatusOf(task) ==
    CASE executions[task] > 1 -> "repeated"     \* no task of TaskLifecycle is
      [] BeingRun(task) -> "running"
      [] executions[task] = 1 -> "done"
      [] InQueue(task) -> IF task \in late THEN "late" ELSE "queued"
      [] result[task] = "none" -> "new"
      [] result[task] = "pending" -> "submitting"
      [] result[task] = "false" -> "refused"
      [] OTHER -> "lost"

Life == INSTANCE TaskLifecycle WITH
            open <- active,
            status <- [task \in Tasks |-> StatusOf(task)]

ImplementsTaskLifecycle == Life!LSpec
=============================================================================
