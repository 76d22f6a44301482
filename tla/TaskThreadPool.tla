--------------------------- MODULE TaskThreadPool ---------------------------
(***************************************************************************)
(* task_thread_pool of task_thread_pool.hpp: one queue and one mutex, a    *)
(* condition variable for the workers and one for the waiting callers,     *)
(* who ask to be notified through one flag, notify_task_finish.            *)
(*                                                                         *)
(* One action is one critical section of task_mutex, up to its end or to   *)
(* the sleep on a condition variable.  A condition variable is the set of  *)
(* its sleepers.  A name ending in Bug is a mistake no specification uses. *)
(***************************************************************************)
EXTENDS Naturals, Sequences, SequencesExt, FiniteSets

CONSTANTS
    Workers,            \* the threads the pool may ever have at one time
    Callers,
    Tasks,              \* the tasks there are, each submitted at most once
    NoTask,
    TasksSubmit         \* do running tasks submit tasks?

ASSUME TtpAssumption ==
    /\ IsFiniteSet(Workers) /\ Workers # {}
    /\ Workers \cap Callers = {}
    /\ IsFiniteSet(Tasks) /\ NoTask \notin Tasks
    /\ TasksSubmit \in BOOLEAN

VARIABLES
    tasks, pool_running, pool_paused, notify_task_finish, num_inflight,
    taskCv, finishedCv, \* the threads asleep on task_cv, on task_finished_cv
    wpc, held,          \* of each worker: its place and its task
    executions,
    call, kind,         \* of each caller: its place, what it waits for
    target,             \* the argument of set_num_threads
    fresh, cleared, late, forgotten     \* history; see the actions

state == <<tasks, pool_running, pool_paused, notify_task_finish, num_inflight>>
sleepers == <<taskCv, finishedCv>>
workers == <<wpc, held, executions>>
calls == <<call, kind, target>>
ghosts == <<fresh, cleared, late, forgotten>>
vars == <<state, sleepers, workers, calls, ghosts>>

\* threads: the workers that have been started and not yet joined.
Alive == {w \in Workers : wpc[w] # "none"}

Init ==
    /\ tasks = <<>> /\ pool_running = TRUE /\ pool_paused = FALSE
    /\ notify_task_finish = FALSE /\ num_inflight = 0
    /\ taskCv = {} /\ finishedCv = {}
    /\ wpc = [w \in Workers |-> "wait"]
    /\ held = [w \in Workers |-> NoTask]
    /\ executions = [task \in Tasks |-> 0]
    /\ call = [c \in Callers |-> "none"]
    /\ kind = [c \in Callers |-> "all"]
    /\ target = Cardinality(Workers)
    /\ fresh = Tasks /\ cleared = {} /\ late = {} /\ forgotten = {}

NotifyOne(cv) == IF cv = {} THEN {cv} ELSE {cv \ {t} : t \in cv}

CallGoesTo(c, label) == call' = [call EXCEPT ![c] = label]

-----------------------------------------------------------------------------
(* worker_main, from the lock to the task or the sleep: a worker that has  *)
(* ended a task counts it off first.                                       *)
WorkerSection(w) ==
    LET finished == wpc[w] = "finished"
        inflight == IF finished THEN num_inflight - 1 ELSE num_inflight
    IN
    /\ wpc[w] \in {"wait", "finished"} /\ w \notin taskCv
    /\ finishedCv' = IF finished /\ notify_task_finish THEN {} ELSE finishedCv
    /\ \/ /\ ~pool_running
          /\ wpc' = [wpc EXCEPT ![w] = "exited"]
          /\ num_inflight' = inflight
          /\ UNCHANGED <<tasks, taskCv, held>>
       \/ /\ pool_running /\ ~pool_paused /\ tasks # <<>>
          /\ held' = [held EXCEPT ![w] = Head(tasks)]
          /\ tasks' = Tail(tasks)
          /\ num_inflight' = inflight + 1
          /\ wpc' = [wpc EXCEPT ![w] = "task"]
          /\ UNCHANGED taskCv
       \/ /\ pool_running /\ (pool_paused \/ tasks = <<>>)
          /\ taskCv' = taskCv \cup {w}
          /\ num_inflight' = inflight
          /\ wpc' = [wpc EXCEPT ![w] = "wait"]
          /\ UNCHANGED <<tasks, held>>
    /\ UNCHANGED <<pool_running, pool_paused, notify_task_finish, executions, calls, ghosts>>

TaskEnds(w) ==
    /\ wpc[w] = "task"
    /\ executions' = [executions EXCEPT ![held[w]] = @ + 1]
    /\ held' = [held EXCEPT ![w] = NoTask]
    /\ wpc' = [wpc EXCEPT ![w] = "finished"]
    /\ UNCHANGED <<state, sleepers, calls, ghosts>>

-----------------------------------------------------------------------------
(* The calls of one critical section                                       *)
Destroying == \E c \in Callers : kind[c] = "last"

MayCall(c) == call[c] = "none" /\ ~Destroying

SubmitNow(task) ==
    /\ task \in fresh /\ fresh' = fresh \ {task}
    /\ tasks' = Append(tasks, task)
    /\ taskCv' \in NotifyOne(taskCv)
    /\ late' = IF \E c \in Callers : kind[c] = "last" /\ call[c] \in {"stop", "join", "destroyed"}
                 THEN late \cup {task} ELSE late
    /\ UNCHANGED <<pool_running, pool_paused, notify_task_finish, num_inflight, finishedCv,
                   workers, calls, cleared, forgotten>>

SubmitDetach(c, task) == MayCall(c) /\ SubmitNow(task)

SubmitFromTask(w, task) == TasksSubmit /\ wpc[w] = "task" /\ SubmitNow(task)

(* A waiter that sleeps while nothing is in flight is not told that the    *)
(* queue is empty now.                                                     *)
ClearTaskQueue(c) ==
    /\ MayCall(c)
    /\ tasks' = <<>>
    /\ cleared' = cleared \cup ToSet(tasks)
    /\ forgotten' = IF num_inflight = 0 /\ tasks # <<>>
                      THEN forgotten \cup finishedCv ELSE forgotten
    /\ UNCHANGED <<pool_running, pool_paused, notify_task_finish, num_inflight, sleepers,
                   workers, calls, fresh, late>>

Pause(c) ==
    /\ MayCall(c)
    /\ pool_paused' = TRUE
    /\ UNCHANGED <<tasks, pool_running, notify_task_finish, num_inflight, sleepers, workers,
                   calls, ghosts>>

UnpauseBug ==                                   \* wakes one worker
    /\ pool_paused' = FALSE
    /\ taskCv' \in NotifyOne(taskCv)
    /\ UNCHANGED <<tasks, pool_running, notify_task_finish, num_inflight, finishedCv, workers>>

UnpauseNow ==
    /\ pool_paused' = FALSE
    /\ taskCv' = {}
    /\ UNCHANGED <<tasks, pool_running, notify_task_finish, num_inflight, finishedCv, workers>>

Unpause(c) == MayCall(c) /\ UnpauseNow /\ UNCHANGED <<calls, ghosts>>

-----------------------------------------------------------------------------
(* wait_for_queued_tasks and wait_for_tasks.  The last wait is the one of  *)
(* the destructor.                                                         *)
CallWait(c) ==
    /\ MayCall(c)
    /\ CallGoesTo(c, "enter")
    /\ \E k \in {"queued", "all"} : kind' = [kind EXCEPT ![c] = k]
    /\ UNCHANGED <<state, sleepers, workers, target, ghosts>>

Quiet(k) == tasks = <<>> /\ (k = "all" => num_inflight = 0)

\* Whoever returns resets the flag for all: the others are then not notified.
WaitSection(c) ==
    /\ call[c] \in {"enter", "wait"} /\ c \notin finishedCv
    /\ IF Quiet(kind[c])
         THEN /\ notify_task_finish' = FALSE
              /\ CallGoesTo(c, IF kind[c] = "last" THEN "stop" ELSE "none")
              /\ forgotten' = (forgotten \cup {d \in Callers : call[d] = "wait"}) \ {c}
              /\ UNCHANGED finishedCv
         ELSE /\ notify_task_finish' = (call[c] = "enter" \/ notify_task_finish)
              /\ CallGoesTo(c, "wait")
              /\ finishedCv' = finishedCv \cup {c}
              /\ UNCHANGED forgotten
    /\ UNCHANGED <<tasks, pool_running, pool_paused, num_inflight, taskCv, workers, kind,
                   target, fresh, cleared, late>>

-----------------------------------------------------------------------------
(* The destructor: unpause, wait_for_queued_tasks, stop_all_threads.  It   *)
(* may only run when no other caller is inside the pool.                   *)
CallDestroy(c) ==
    /\ MayCall(c) /\ \A other \in Callers : call[other] = "none"
    /\ CallGoesTo(c, "destroy")
    /\ kind' = [kind EXCEPT ![c] = "last"]
    /\ UNCHANGED <<state, sleepers, workers, target, ghosts>>

DestroyUnpausesBug(c) ==                        \* without the wait
    /\ call[c] = "destroy"
    /\ UnpauseNow
    /\ CallGoesTo(c, "stop")
    /\ UNCHANGED <<kind, target, ghosts>>

DestroyUnpauses(c) ==
    /\ call[c] = "destroy"
    /\ UnpauseNow
    /\ CallGoesTo(c, "enter")
    /\ UNCHANGED <<kind, target, ghosts>>

(* set_num_threads; thread_mutex lets one thread at a time through.        *)
Resizing == \E c \in Callers : call[c] \in {"stop", "join", "restart"}

SetNumThreads(c) ==
    /\ MayCall(c) /\ ~Resizing
    /\ \E n \in 1 .. Cardinality(Workers) :
         IF n < Cardinality(Alive)
           THEN target' = n /\ CallGoesTo(c, "stop") /\ UNCHANGED wpc
           ELSE /\ \E S \in SUBSET (Workers \ Alive) :
                       /\ Cardinality(S) = n - Cardinality(Alive)
                       /\ wpc' = [w \in Workers |-> IF w \in S THEN "wait" ELSE wpc[w]]
                /\ UNCHANGED <<target, call>>
    /\ UNCHANGED <<state, sleepers, held, executions, kind, ghosts>>

StopThreads(c) ==
    /\ call[c] = "stop"
    /\ pool_running' = FALSE
    /\ taskCv' = {}
    /\ CallGoesTo(c, "join")
    /\ UNCHANGED <<tasks, pool_paused, notify_task_finish, num_inflight, finishedCv, workers,
                   kind, target, ghosts>>

JoinThreadsBug(c) ==                            \* detaches the busy threads
    /\ call[c] = "join"
    /\ wpc' = [w \in Workers |-> IF wpc[w] \in {"task", "finished"} THEN wpc[w] ELSE "none"]
    /\ CallGoesTo(c, IF kind[c] = "last" THEN "destroyed" ELSE "restart")
    /\ UNCHANGED <<state, sleepers, held, executions, kind, target, ghosts>>

JoinThreads(c) ==
    /\ call[c] = "join"
    /\ \A w \in Alive : wpc[w] = "exited"
    /\ wpc' = [w \in Workers |-> "none"]
    /\ CallGoesTo(c, IF kind[c] = "last" THEN "destroyed" ELSE "restart")
    /\ UNCHANGED <<state, sleepers, held, executions, kind, target, ghosts>>

RestartThreadsBug(c) ==                         \* pool_running stays off
    /\ call[c] = "restart"
    /\ \E S \in SUBSET Workers :
         /\ Cardinality(S) = target
         /\ wpc' = [w \in Workers |-> IF w \in S THEN "wait" ELSE "none"]
    /\ CallGoesTo(c, "none")
    /\ UNCHANGED <<state, sleepers, held, executions, kind, target, ghosts>>

RestartThreads(c) ==
    /\ call[c] = "restart"
    /\ pool_running' = TRUE
    /\ \E S \in SUBSET Workers :
         /\ Cardinality(S) = target
         /\ wpc' = [w \in Workers |-> IF w \in S THEN "wait" ELSE "none"]
    /\ CallGoesTo(c, "none")
    /\ UNCHANGED <<tasks, pool_paused, notify_task_finish, num_inflight, sleepers, held,
                   executions, kind, target, ghosts>>

-----------------------------------------------------------------------------
Spurious(t) ==
    /\ \/ t \in taskCv /\ taskCv' = taskCv \ {t} /\ UNCHANGED finishedCv
       \/ t \in finishedCv /\ finishedCv' = finishedCv \ {t} /\ UNCHANGED taskCv
    /\ UNCHANGED <<state, workers, calls, ghosts>>

WorkerStep(w) == WorkerSection(w) \/ TaskEnds(w)

CallStep(c) ==
    WaitSection(c) \/ DestroyUnpauses(c) \/ StopThreads(c) \/ JoinThreads(c) \/ RestartThreads(c)

Destroyed == \E c \in Callers : call[c] = "destroyed"

Next ==
    \/ \E w \in Workers : WorkerStep(w) \/ \E task \in Tasks : SubmitFromTask(w, task)
    \/ \E c \in Callers :
           \/ \E task \in Tasks : SubmitDetach(c, task)
           \/ ClearTaskQueue(c) \/ Pause(c) \/ Unpause(c) \/ CallWait(c)
           \/ CallDestroy(c) \/ SetNumThreads(c) \/ CallStep(c)
    \/ \E t \in Workers \cup Callers : Spurious(t)
    \/ Destroyed /\ UNCHANGED vars

(* Every thread that can go on does.  Nobody has to call anything, and no  *)
(* wakeup is spurious out of obligation.                                   *)
Fairness ==
    /\ \A w \in Workers : WF_vars(WorkerStep(w))
    /\ \A c \in Callers : WF_vars(CallStep(c))

Spec == Init /\ [][Next]_vars /\ Fairness

-----------------------------------------------------------------------------
InFlight == {w \in Workers : wpc[w] \in {"task", "finished"}}

(* num_inflight_tasks counts the workers between the pop of a task and the *)
(* section after its end; a resize in between loses none.                  *)
TypeOK ==
    /\ tasks \in Seq(Tasks)
    /\ pool_running \in BOOLEAN /\ pool_paused \in BOOLEAN /\ notify_task_finish \in BOOLEAN
    /\ num_inflight = Cardinality(InFlight)
    /\ wpc \in [Workers -> {"none", "wait", "task", "finished", "exited"}]
    /\ taskCv \subseteq {w \in Workers : wpc[w] = "wait"}
    /\ finishedCv \subseteq {c \in Callers : call[c] = "wait"}
    /\ held \in [Workers -> Tasks \cup {NoTask}]
    /\ executions \in [Tasks -> Nat]
    /\ call \in [Callers -> {"none", "enter", "wait", "destroy", "stop", "join", "restart", "destroyed"}]
    /\ kind \in [Callers -> {"queued", "all", "last"}]
    /\ target \in 1 .. Cardinality(Workers)
    /\ fresh \subseteq Tasks /\ cleared \subseteq Tasks /\ late \subseteq Tasks
    /\ forgotten \subseteq Callers

(* While a worker sleeps in a pool that runs and is not paused, every task *)
(* in the queue has an awake worker to take it, whatever pauses, clears    *)
(* and resizes came before (task_thread_pool.hpp:241-245, :305-309, :362). *)
NoIdleWorkerWhileTasksWait ==
    pool_running /\ ~pool_paused /\ taskCv # {} =>
        Len(tasks) <= Cardinality({w \in Workers : wpc[w] = "wait"} \ taskCv)

(* The destructor leaves no task in the queue but those that a running     *)
(* task has submitted after it saw the queue empty; it says "Finish all    *)
(* tasks left in the queue" (task_thread_pool.hpp:145-153).                *)
DestructorFinishesQueue == Destroyed => ToSet(tasks) \subseteq late

StatusOf(task) ==
    CASE \E w \in Workers : held[w] = task -> "running"
      [] executions[task] > 0 -> "done"
      [] task \in cleared -> "cleared"
      [] task \in ToSet(tasks) -> "queued"
      [] OTHER -> "new"

Status == [task \in Tasks |-> StatusOf(task)]

(* A resize and the destructor stop the pool for a while, or for good.     *)
Paused == pool_paused \/ \E c \in Callers : call[c] \in {"join", "restart", "destroyed"}

WaitsFor(c) ==
    IF call[c] \notin {"destroy", "enter", "wait"} THEN "no"
    ELSE IF kind[c] = "all" THEN "all" ELSE "queued"

Waits == [c \in Callers |-> WaitsFor(c)]

(* The pool keeps the promises of WaitablePool, as far as pauses and the   *)
(* resizes, which stop it for a while, let it: a wait returns only when    *)
(* what it waits for is over, and it returns then, unless another wait     *)
(* reset the flag they share or the queue was cleared with nothing in      *)
(* flight (task_thread_pool.hpp:161-164, :325-340).  The docs say "Block   *)
(* until" without these exceptions (:323, :333).                           *)
Promise == INSTANCE WaitablePool WITH
    ClearForgets <- TRUE, paused <- Paused, status <- Status, waits <- Waits

ImplementsWaitablePool == Promise!WSpec
=============================================================================
