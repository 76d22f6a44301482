---------------------------- MODULE HpThreadPool ----------------------------
(***************************************************************************)
(* HPThreadPool of hp_threadpool.h and its use by HP_ThreadPool of         *)
(* main.cpp.  There is no queue: each worker spins on one slot, task_, and *)
(* task_done_ says whose turn it is.  Posting tests task_done_ twice, once *)
(* to choose the worker and once inside Worker::post, whose answer is      *)
(* ignored.                                                                *)
(*                                                                         *)
(* main.cpp posts from one thread.  Here several may post, as the comment  *)
(* on post allows; the owner builds the pool, waits when they have posted  *)
(* everything, and stops it.  A name ending in Bug is a mistake no         *)
(* specification uses.                                                     *)
(***************************************************************************)
EXTENDS Naturals, FiniteSets

CONSTANTS
    NumberOfWorkers,
    Posters,            \* the threads that post
    Tasks,
    NoTask,
    MayThrow            \* can a task throw?

ASSUME HpAssumption ==
    /\ NumberOfWorkers \in Nat \ {0}
    /\ MayThrow \in BOOLEAN
    /\ NoTask \notin Tasks

VARIABLES
    task_, task_done, stop,     \* of each worker
    wpc,                        \* where each worker is
    executions,
    ppc, arg, slot,     \* of each poster: its place, its task, the worker it looks at
    unposted,
    stage, next,        \* of the owner: its place, the worker it looks at
    raced               \* history: two posters have chosen one worker at once

workervars == <<task_, task_done, stop, wpc, executions>>
postervars == <<ppc, arg, slot, unposted, raced>>
ownervars == <<stage, next>>
vars == <<workervars, postervars, ownervars>>

Workers == 0 .. (NumberOfWorkers - 1)

Init ==
    /\ task_ = [w \in Workers |-> NoTask]
    /\ task_done = [w \in Workers |-> TRUE]
    /\ stop = [w \in Workers |-> TRUE]
    /\ wpc = [w \in Workers |-> "unborn"]
    /\ executions = [task \in Tasks |-> 0]
    /\ ppc = [p \in Posters |-> "idle"]
    /\ arg = [p \in Posters |-> NoTask]
    /\ slot = [p \in Posters |-> 0]
    /\ unposted = Tasks
    /\ stage = "start" /\ next = 0
    /\ raced = FALSE

WorkerGoesTo(w, label) == wpc' = [wpc EXCEPT ![w] = label]
PosterGoesTo(p, label) == ppc' = [ppc EXCEPT ![p] = label]

-----------------------------------------------------------------------------
(* Worker::_run                                                            *)
TestTask(w) ==
    /\ wpc[w] = "loop"
    /\ WorkerGoesTo(w, IF task_done[w] THEN "test stop" ELSE "task")
    /\ UNCHANGED <<task_, task_done, stop, executions, postervars, ownervars>>

TaskEnds(w) ==
    /\ wpc[w] = "task"
    /\ executions' = [executions EXCEPT ![task_[w]] = @ + 1]
    /\ WorkerGoesTo(w, "ran")
    /\ UNCHANGED <<task_, task_done, stop, postervars, ownervars>>

\* Nothing catches what a task throws on a worker thread: std::terminate.
TaskThrows(w) ==
    /\ MayThrow
    /\ wpc[w] = "task"
    /\ stage' = "aborted"
    /\ UNCHANGED <<workervars, postervars, next>>

StoreTaskDone(w) ==
    /\ wpc[w] = "ran"
    /\ task_done' = [task_done EXCEPT ![w] = TRUE]
    /\ WorkerGoesTo(w, "test stop")
    /\ UNCHANGED <<task_, stop, executions, postervars, ownervars>>

TestStop(w) ==
    /\ wpc[w] = "test stop"
    /\ WorkerGoesTo(w, IF stop[w] THEN "exited" ELSE "loop")
    /\ UNCHANGED <<task_, task_done, stop, executions, postervars, ownervars>>

WorkerStep(w) == TestTask(w) \/ TaskEnds(w) \/ StoreTaskDone(w) \/ TestStop(w)

-----------------------------------------------------------------------------
(* ThreadPool::post, called until it answers true                          *)
CallPost(p) ==
    /\ stage = "post" /\ ppc[p] = "idle"
    /\ \E task \in unposted :
           /\ arg' = [arg EXCEPT ![p] = task]
           /\ unposted' = unposted \ {task}
    /\ slot' = [slot EXCEPT ![p] = 0]
    /\ PosterGoesTo(p, "choose")
    /\ UNCHANGED <<workervars, raced, ownervars>>

\* The posters between the choice of worker w and the end of Worker::post.
Posting(w) == {p \in Posters : ppc[p] \in {"test", "write", "store"} /\ slot[p] = w}

ChooseWorker(p) ==
    /\ ppc[p] = "choose"
    /\ IF task_done[slot[p]]
         THEN /\ PosterGoesTo(p, "test")
              /\ raced' = (raced \/ Posting(slot[p]) # {})
              /\ UNCHANGED slot
         ELSE /\ slot' = [slot EXCEPT ![p] = (@ + 1) % NumberOfWorkers]
              /\ UNCHANGED <<ppc, raced>>
    /\ UNCHANGED <<workervars, arg, unposted, ownervars>>

\* Nobody looks at the answer false: the task is gone.
TestTaskDone(p) ==
    /\ ppc[p] = "test"
    /\ IF task_done[slot[p]]
         THEN PosterGoesTo(p, "write") /\ UNCHANGED arg
         ELSE PosterGoesTo(p, "idle") /\ arg' = [arg EXCEPT ![p] = NoTask]
    /\ UNCHANGED <<workervars, slot, unposted, raced, ownervars>>

WriteTask(p) ==
    /\ ppc[p] = "write"
    /\ task_' = [task_ EXCEPT ![slot[p]] = arg[p]]
    /\ PosterGoesTo(p, "store")
    /\ UNCHANGED <<task_done, stop, wpc, executions, arg, slot, unposted, raced, ownervars>>

StoreTaskNotDone(p) ==
    /\ ppc[p] = "store"
    /\ task_done' = [task_done EXCEPT ![slot[p]] = FALSE]
    /\ arg' = [arg EXCEPT ![p] = NoTask]
    /\ PosterGoesTo(p, "idle")
    /\ UNCHANGED <<task_, stop, wpc, executions, slot, unposted, raced, ownervars>>

PosterStep(p) ==
    CallPost(p) \/ ChooseWorker(p) \/ TestTaskDone(p) \/ WriteTask(p) \/ StoreTaskNotDone(p)

(* A poster assigns to task_ while another does, or while the worker calls *)
(* it: from there on the program may do anything.                          *)
DataRace ==
    \E p \in Posters :
        /\ ppc[p] = "write"
        /\ \/ wpc[slot[p]] = "task"
           \/ \E other \in Posters \ {p} : ppc[other] = "write" /\ slot[other] = slot[p]

-----------------------------------------------------------------------------
(* The owner: start, then is_task_done until it is true, stop, join        *)
OwnerMoves(label) ==
    IF next + 1 \in Workers THEN next' = next + 1 /\ UNCHANGED stage
                            ELSE next' = 0 /\ stage' = label

StartWorker ==
    /\ stage = "start"
    /\ stop' = [stop EXCEPT ![next] = FALSE]
    /\ WorkerGoesTo(next, "loop")
    /\ OwnerMoves("post")
    /\ UNCHANGED <<task_, task_done, executions, postervars>>

(* The destructor deletes the workers: with the first one nothing runs and *)
(* the exception reaches the caller, later a joinable thread is destroyed. *)
SpawnFails ==
    /\ stage = "start"
    /\ stage' = IF next = 0 THEN "threw" ELSE "terminated"
    /\ wpc' = [w \in Workers |-> IF w < next THEN "gone" ELSE "unborn"]
    /\ UNCHANGED <<task_, task_done, stop, executions, postervars, next>>

FinishPosting ==
    /\ stage = "post"
    /\ unposted = {} /\ \A p \in Posters : ppc[p] = "idle"
    /\ stage' = "wait"
    /\ UNCHANGED <<workervars, postervars, next>>

\* is_task_done looks at every worker; one that is busy spoils the answer.
IsTaskDoneBug ==                                \* the last worker decides
    /\ stage = "wait"
    /\ next' = 0
    /\ stage' = IF task_done[NumberOfWorkers - 1] THEN "stop" ELSE "wait"
    /\ UNCHANGED <<workervars, postervars>>

IsTaskDone ==
    /\ stage = "wait"
    /\ IF task_done[next] THEN OwnerMoves("stop") ELSE next' = 0 /\ UNCHANGED stage
    /\ UNCHANGED <<workervars, postervars>>

StopOnlyBug ==                                  \* forgets the worker it looks at first
    /\ stage = "stop"
    /\ stop' = [stop EXCEPT ![next] = next # 0]
    /\ OwnerMoves("join")
    /\ UNCHANGED <<task_, task_done, wpc, executions, postervars>>

StopOnly ==
    /\ stage = "stop"
    /\ stop' = [stop EXCEPT ![next] = TRUE]
    /\ OwnerMoves("join")
    /\ UNCHANGED <<task_, task_done, wpc, executions, postervars>>

JoinWorker ==
    /\ stage = "join" /\ wpc[next] = "exited"
    /\ OwnerMoves("returned")
    /\ UNCHANGED <<workervars, postervars>>

OwnerStep == StartWorker \/ FinishPosting \/ IsTaskDone \/ StopOnly \/ JoinWorker

\* Nothing more happens, or nothing that can be said.
Ended == stage \in {"returned", "threw", "terminated", "aborted"} \/ DataRace

Running == stage # "aborted" /\ ~DataRace

Next ==
    \/ Running /\ (OwnerStep \/ SpawnFails)
    \/ Running /\ \E w \in Workers : WorkerStep(w) \/ TaskThrows(w)
    \/ Running /\ \E p \in Posters : PosterStep(p)
    \/ Ended /\ UNCHANGED vars

(* Every thread runs: they spin, and never wait for one another but in     *)
(* join.                                                                   *)
Fairness ==
    /\ \A w \in Workers : WF_vars(Running /\ WorkerStep(w))
    /\ \A p \in Posters : WF_vars(Running /\ PosterStep(p))
    /\ WF_vars(Running /\ OwnerStep)

Spec == Init /\ [][Next]_vars /\ Fairness

-----------------------------------------------------------------------------
TypeOK ==
    /\ task_ \in [Workers -> Tasks \cup {NoTask}]
    /\ task_done \in [Workers -> BOOLEAN]
    /\ stop \in [Workers -> BOOLEAN]
    /\ wpc \in [Workers -> {"unborn", "loop", "task", "ran", "test stop", "exited", "gone"}]
    /\ executions \in [Tasks -> Nat]
    /\ ppc \in [Posters -> {"idle", "choose", "test", "write", "store"}]
    /\ arg \in [Posters -> Tasks \cup {NoTask}]
    /\ slot \in [Posters -> Workers]
    /\ unposted \subseteq Tasks
    /\ stage \in {"start", "post", "wait", "stop", "join", "returned",
                 "threw", "terminated", "aborted"}
    /\ next \in Workers
    /\ raced \in BOOLEAN

\* Where a task is that has yet to run: with a poster, or in a worker's slot.
WithPoster(task) == {p \in Posters : arg[p] = task}
WithWorker(task) == {w \in Workers : task_[w] = task /\ ~task_done[w] /\ wpc[w] # "ran"}

(* As long as no two posters have chosen the same worker at the same time, *)
(* nothing protects task_ and nothing needs to: every posted task is run   *)
(* exactly once, is in one place until then, and has run when stop has     *)
(* joined the workers (hp_threadpool.h:84-95, :153-163, :212-218).  Once   *)
(* they have, post may answer true for a task that is lost, which is less  *)
(* than "true if task is posted successfully" (:151).                      *)
PostedTasksRunOnce ==
    ~raced =>
        /\ ~DataRace
        /\ \A task \in Tasks \ unposted :
               executions[task]
                   = 1 - Cardinality(WithPoster(task)) - Cardinality(WithWorker(task))
        /\ stage \in {"stop", "join", "returned"} =>
               \A task \in Tasks : executions[task] = 1

(* The function that uses the pool does not hang: a task that posters lose *)
(* between them is not waited for, and no worker misses stop.  It returns, *)
(* unless a thread cannot be created, a task throws, or two posters come   *)
(* to a data race on the slot of a worker, after which nothing is claimed  *)
(* (hp_threadpool.h:99-110, main.cpp:171-174).                             *)
DispatchNeverHangs == <>Ended

-----------------------------------------------------------------------------
(* main.cpp posts from one thread.  Then the pool does what the benchmark  *)
(* expects of a dispatch function: a task is running from the test of      *)
(* task_done_ that finds it until its end.                                 *)
OnePoster == \E main : Posters = {main}

BeingRun(task) == \E w \in Workers : wpc[w] = "task" /\ task_[w] = task

Contract == INSTANCE Dispatch WITH
    MayAbort <- MayThrow,
    progress <- [task \in Tasks |->
                    IF executions[task] > 1 THEN "repeated"
                    ELSE IF BeingRun(task) THEN "running"
                    ELSE IF executions[task] = 1 THEN "done" ELSE "waiting"],
    outcome <- CASE stage = "returned" -> "returned"
                 [] stage \in {"threw", "terminated"} -> "failed"
                 [] stage = "aborted" -> "aborted"
                 [] OTHER -> "none"
=============================================================================
