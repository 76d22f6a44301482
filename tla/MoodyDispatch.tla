---------------------------- MODULE MoodyDispatch ----------------------------
(***************************************************************************)
(* moody_ConcurrentQueue_ThreadPool of main.cpp: threads written by hand   *)
(* around a lock-free queue.  They poll the queue, and a counter of the    *)
(* tasks that remain tells them, and the thread that waits for them, that  *)
(* all is done.                                                            *)
(*                                                                         *)
(* Every load of the counter is relaxed: main may read a value that is out *)
(* of date, but none older than the last it has seen, and a worker that    *)
(* has read done none older than what main had seen when it stored done.   *)
(* The queue is external: it hands each item to one thread, and an attempt *)
(* to dequeue may fail beside an item, as lock-free attempts do.  Memory   *)
(* does not run out: enqueue, whose answer main ignores (main.cpp:260),    *)
(* never refuses an item.  A name ending in Bug is a mistake no            *)
(* specification uses.                                                     *)
(***************************************************************************)
EXTENDS Naturals, FiniteSets

CONSTANTS
    Workers,            \* threadCount threads
    Tasks,              \* the suite
    NoTask,
    MayThrow            \* can a task throw?

ASSUME MoodyAssumption ==
    /\ IsFiniteSet(Workers) /\ Workers # {}
    /\ IsFiniteSet(Tasks) /\ NoTask \notin Tasks
    /\ MayThrow \in BOOLEAN

VARIABLES
    queue,              \* the items in the queue; their order is not used
    done,
    remainingTasks,
    seen,               \* the last value of remainingTasks main knows
    wpc, task,          \* of each worker: its place, its local variable task
    executions,
    stage, left         \* of main: its place, the tasks it has yet to enqueue

workervars == <<wpc, task, executions>>
mainvars == <<done, stage, left>>
vars == <<queue, remainingTasks, seen, workervars, mainvars>>

Init ==
    /\ queue = {} /\ done = FALSE
    /\ remainingTasks = Cardinality(Tasks)
    /\ seen = Cardinality(Tasks)
    /\ wpc = [w \in Workers |-> "unborn"]
    /\ task = [w \in Workers |-> NoTask]
    /\ executions = [t \in Tasks |-> 0]
    /\ stage = "spawning" /\ left = Tasks

WorkerGoesTo(w, label) == wpc' = [wpc EXCEPT ![w] = label]

\* The values a relaxed load may return.
Loads == remainingTasks .. seen

-----------------------------------------------------------------------------
(* The workers                                                             *)
Test(w) ==
    /\ wpc[w] = "test"
    /\ IF done
         THEN \E n \in Loads : WorkerGoesTo(w, IF n > 0 THEN "dequeue" ELSE "exited")
         ELSE WorkerGoesTo(w, "dequeue")
    /\ UNCHANGED <<queue, remainingTasks, seen, task, executions, mainvars>>

Dequeue(w) ==
    /\ wpc[w] = "dequeue"
    /\ \E item \in queue :
           /\ queue' = queue \ {item}
           /\ task' = [task EXCEPT ![w] = item]
    /\ WorkerGoesTo(w, "task")
    /\ UNCHANGED <<remainingTasks, seen, executions, mainvars>>

DequeueFailsBug(w) ==                           \* takes an empty queue for the end
    /\ wpc[w] = "dequeue"
    /\ WorkerGoesTo(w, "exited")
    /\ UNCHANGED <<queue, remainingTasks, seen, task, executions, mainvars>>

DequeueFails(w) ==
    /\ wpc[w] = "dequeue"
    /\ WorkerGoesTo(w, "test")
    /\ UNCHANGED <<queue, remainingTasks, seen, task, executions, mainvars>>

TaskEnds(w) ==
    /\ wpc[w] = "task"
    /\ executions' = [executions EXCEPT ![task[w]] = @ + 1]
    /\ WorkerGoesTo(w, "ran")
    /\ UNCHANGED <<queue, remainingTasks, seen, task, mainvars>>

\* Nothing catches what a task throws on a worker thread: std::terminate.
TaskThrows(w) ==
    /\ MayThrow
    /\ wpc[w] = "task"
    /\ stage' = "aborted"
    /\ UNCHANGED <<queue, remainingTasks, seen, workervars, done, left>>

CountTask(w) ==
    /\ wpc[w] = "ran"
    /\ remainingTasks' = remainingTasks - 1
    /\ WorkerGoesTo(w, "dequeue")
    /\ UNCHANGED <<queue, seen, task, executions, mainvars>>

WorkerStep(w) ==
    Test(w) \/ Dequeue(w) \/ DequeueFails(w) \/ TaskEnds(w) \/ CountTask(w)

-----------------------------------------------------------------------------
(* main                                                                    *)
SpawnWorker(w) ==
    /\ stage = "spawning" /\ wpc[w] = "unborn"
    /\ WorkerGoesTo(w, "test")
    /\ UNCHANGED <<queue, remainingTasks, seen, task, executions, mainvars>>

FinishSpawning ==
    /\ stage = "spawning" /\ \A w \in Workers : wpc[w] # "unborn"
    /\ stage' = "enqueue"
    /\ UNCHANGED <<queue, remainingTasks, seen, workervars, done, left>>

(* A thread cannot be created: the exception leaves the function, or, with *)
(* a joinable thread among the locals it unwinds, ends the program.        *)
SpawnFails ==
    /\ stage = "spawning" /\ \E w \in Workers : wpc[w] = "unborn"
    /\ stage' = "failed"
    /\ wpc' = [w \in Workers |-> IF wpc[w] = "unborn" THEN "unborn" ELSE "gone"]
    /\ UNCHANGED <<queue, remainingTasks, seen, task, executions, done, left>>

Enqueue ==
    /\ stage = "enqueue"
    /\ IF left = {}
         THEN stage' = "wait" /\ UNCHANGED <<queue, left>>
         ELSE /\ \E item \in left : queue' = queue \cup {item} /\ left' = left \ {item}
              /\ UNCHANGED stage
    /\ UNCHANGED <<remainingTasks, seen, workervars, done>>

WaitForTasks ==
    /\ stage = "wait"
    /\ seen' \in Loads
    /\ stage' = IF seen' > 0 THEN "wait" ELSE "done"
    /\ UNCHANGED <<queue, remainingTasks, workervars, done, left>>

StoreDone ==
    /\ stage = "done"
    /\ done' = TRUE
    /\ stage' = "join"
    /\ UNCHANGED <<queue, remainingTasks, seen, workervars, left>>

JoinThreads ==
    /\ stage = "join" /\ \A w \in Workers : wpc[w] = "exited"
    /\ stage' = "returned"
    /\ UNCHANGED <<queue, remainingTasks, seen, workervars, done, left>>

MainStep ==
    \/ \E w \in Workers : SpawnWorker(w)
    \/ FinishSpawning \/ Enqueue \/ WaitForTasks \/ StoreDone \/ JoinThreads

Running == stage # "aborted"

Next ==
    \/ Running /\ \E w \in Workers : WorkerStep(w) \/ TaskThrows(w)
    \/ MainStep \/ SpawnFails
    \/ stage \in {"returned", "failed", "aborted"} /\ UNCHANGED vars

(* Every thread runs.  A store becomes visible in the end, and the queue   *)
(* does not refuse an item to everybody for ever.                          *)
SeesTheLatest == seen' = remainingTasks

Fairness ==
    /\ \A w \in Workers :
           WF_vars(Running /\ WorkerStep(w)) /\ SF_vars(Running /\ Dequeue(w))
    /\ WF_vars(MainStep) /\ WF_vars(WaitForTasks /\ SeesTheLatest)

Spec == Init /\ [][Next]_vars /\ Fairness

-----------------------------------------------------------------------------
(* The dispatch function keeps the contract of Dispatch on the word of one *)
(* relaxed counter: each task once, all of them before it returns, and it  *)
(* returns, unless a task throws and the program ends (main.cpp:243-266).  *)
Contract == INSTANCE Dispatch WITH
    MayAbort <- MayThrow,
    progress <- [t \in Tasks |->
                    IF executions[t] > 1 THEN "repeated"
                    ELSE IF \E w \in Workers : task[w] = t /\ wpc[w] = "task" THEN "running"
                    ELSE IF executions[t] = 1 THEN "done" ELSE "waiting"],
    outcome <- IF stage \in {"returned", "failed", "aborted"} THEN stage ELSE "none"

ImplementsDispatch == Contract!DSpec
=============================================================================
