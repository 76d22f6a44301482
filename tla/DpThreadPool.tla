---------------------------- MODULE DpThreadPool ----------------------------
(***************************************************************************)
(* dp::thread_pool of dp_threadpool.h: every worker has a queue and a      *)
(* binary semaphore of its own, takes tasks from the front of its queue,   *)
(* then steals one from the back of another's.  priority_queue_ hands the  *)
(* submissions out, and two counters tell when to sleep and when all is    *)
(* done.  One action is one access to an atomic, a semaphore or a locked   *)
(* queue.                                                                  *)
(*                                                                         *)
(* release() on a binary semaphore that is already released leaves it so,  *)
(* as in the Microsoft library the project is built with.  A name ending   *)
(* in Bug is a mistake no specification uses.                              *)
(***************************************************************************)
EXTENDS Integers, Sequences, SequencesExt, FiniteSets

CONSTANTS
    NumberOfThreads,
    Callers,            \* the threads that use the pool
    Tasks,              \* the tasks there are, each enqueued at most once
    NoTask,
    TasksEnqueue        \* do running tasks enqueue tasks?

ASSUME DpAssumption ==
    /\ NumberOfThreads \in Nat \ {0}
    /\ Callers \cap Nat = {}
    /\ IsFiniteSet(Tasks) /\ NoTask \notin Tasks
    /\ TasksEnqueue \in BOOLEAN

VARIABLES
    tasks, signal,      \* tasks_[id].tasks, tasks_[id].signal
    priority_queue,     \* priority_queue_
    unassigned, in_flight, complete,    \* ..._tasks_, threads_complete_signal_
    asleep,             \* the threads asleep in threads_complete_signal_.wait
    wpc, j, held, stop, \* of each worker: place, the local j, its task, its stop token
    executions,
    call, arg, slot,    \* of each thread: place in a call, its task, its index i
    removed,            \* the tasks a clear_tasks has removed and not yet subtracted
    fresh, cleared, forgotten   \* history: not yet enqueued, cleared, not notified

lists == <<tasks, signal, priority_queue>>
counters == <<unassigned, in_flight, complete, asleep>>
workers == <<wpc, j, held, stop, executions>>
calls == <<call, arg, slot, removed>>
ghosts == <<fresh, cleared, forgotten>>
vars == <<lists, counters, workers, calls, ghosts>>

Workers == 0 .. (NumberOfThreads - 1)
Threads == Workers \cup Callers

Init ==
    /\ tasks = [w \in Workers |-> <<>>]
    /\ signal = [w \in Workers |-> 0]
    /\ priority_queue = [i \in 1 .. NumberOfThreads |-> i - 1]
    /\ unassigned = 0 /\ in_flight = 0 /\ complete = FALSE /\ asleep = {}
    /\ wpc = [w \in Workers |-> "acquire"]
    /\ j = [w \in Workers |-> 0]
    /\ held = [w \in Workers |-> NoTask]
    /\ stop = [w \in Workers |-> FALSE]
    /\ executions = [task \in Tasks |-> 0]
    /\ call = [t \in Threads |-> "none"]
    /\ arg = [t \in Threads |-> NoTask]
    /\ slot = [t \in Threads |-> 0]
    /\ removed = [t \in Threads |-> {}]
    /\ fresh = Tasks /\ cleared = {} /\ forgotten = {}

WorkerGoesTo(w, label) == wpc' = [wpc EXCEPT ![w] = label]
CallGoesTo(t, label) == call' = [call EXCEPT ![t] = label]

-----------------------------------------------------------------------------
(* The worker                                                              *)
Acquire(w) ==
    /\ wpc[w] = "acquire" /\ signal[w] = 1
    /\ signal' = [signal EXCEPT ![w] = 0]
    /\ WorkerGoesTo(w, "take")
    /\ UNCHANGED <<tasks, priority_queue, counters, j, held, stop, executions, calls, ghosts>>

Victim(w) == (w + j[w]) % NumberOfThreads

\* j = 0 is the worker's own queue, popped at the front; others lose their back.
Take(w) ==
    /\ wpc[w] = "take"
    /\ LET list == tasks[Victim(w)] IN
         IF list = <<>>
           THEN /\ j' = [j EXCEPT ![w] = (@ + 1) % NumberOfThreads]
                /\ WorkerGoesTo(w, IF j'[w] = 0 THEN "check" ELSE "take")
                /\ UNCHANGED <<tasks, held>>
           ELSE /\ held' = [held EXCEPT ![w] = IF j[w] = 0 THEN Head(list) ELSE Last(list)]
                /\ tasks' = [tasks EXCEPT ![Victim(w)] =
                                IF j[w] = 0 THEN Tail(list) ELSE Front(list)]
                /\ WorkerGoesTo(w, "assigned")
                /\ UNCHANGED j
    /\ UNCHANGED <<signal, priority_queue, counters, stop, executions, calls, ghosts>>

SubtractUnassigned(w) ==
    /\ wpc[w] = "assigned"
    /\ unassigned' = unassigned - 1
    /\ WorkerGoesTo(w, "task")
    /\ UNCHANGED <<lists, in_flight, complete, asleep, j, held, stop, executions, calls, ghosts>>

TaskEnds(w) ==
    /\ wpc[w] = "task" /\ call[w] = "none"
    /\ executions' = [executions EXCEPT ![held[w]] = @ + 1]
    /\ WorkerGoesTo(w, "ran")
    /\ UNCHANGED <<lists, counters, j, held, stop, calls, ghosts>>

\* After one stolen task the worker stops stealing.
SubtractInFlight(w) ==
    /\ wpc[w] = "ran"
    /\ in_flight' = in_flight - 1
    /\ held' = [held EXCEPT ![w] = NoTask]
    /\ WorkerGoesTo(w, IF j[w] = 0 THEN "take" ELSE "check")
    /\ j' = [j EXCEPT ![w] = 0]
    /\ UNCHANGED <<lists, unassigned, complete, asleep, stop, executions, calls, ghosts>>

CheckUnassigned(w) ==
    /\ wpc[w] = "check"
    /\ WorkerGoesTo(w, IF unassigned > 0 THEN "take" ELSE "rotate")
    /\ UNCHANGED <<lists, counters, j, held, stop, executions, calls, ghosts>>

RotateToFront(w) ==
    /\ wpc[w] = "rotate"
    /\ priority_queue' = <<w>> \o RemoveFirst(priority_queue, w)
    /\ WorkerGoesTo(w, "inspect")
    /\ UNCHANGED <<tasks, signal, counters, j, held, stop, executions, calls, ghosts>>

InspectInFlight(w) ==
    /\ wpc[w] = "inspect"
    /\ WorkerGoesTo(w, IF in_flight = 0 THEN "complete" ELSE "stop")
    /\ UNCHANGED <<lists, counters, j, held, stop, executions, calls, ghosts>>

StoreComplete(w) ==
    /\ wpc[w] = "complete"
    /\ complete' = TRUE
    /\ WorkerGoesTo(w, "notify")
    /\ UNCHANGED <<lists, unassigned, in_flight, asleep, j, held, stop, executions, calls, ghosts>>

NotifyOne(w) ==
    /\ wpc[w] = "notify"
    /\ IF asleep = {} THEN UNCHANGED asleep ELSE \E t \in asleep : asleep' = asleep \ {t}
    /\ forgotten' = forgotten \cup asleep'
    /\ WorkerGoesTo(w, "stop")
    /\ UNCHANGED <<lists, unassigned, in_flight, complete, j, held, stop, executions, calls, fresh, cleared>>

TestStop(w) ==
    /\ wpc[w] = "stop"
    /\ WorkerGoesTo(w, IF stop[w] THEN "exited" ELSE "acquire")
    /\ UNCHANGED <<lists, counters, j, held, stop, executions, calls, ghosts>>

WorkerStep(w) ==
    \/ Acquire(w) \/ Take(w) \/ SubtractUnassigned(w) \/ TaskEnds(w) \/ SubtractInFlight(w)
    \/ CheckUnassigned(w) \/ RotateToFront(w) \/ InspectInFlight(w)
    \/ StoreComplete(w) \/ NotifyOne(w) \/ TestStop(w)

-----------------------------------------------------------------------------
(* enqueue_task, from outside or from inside a running task                *)
Destroying ==
    \E c \in Callers :
        call[c] \in {"destroy", "destroy sleep", "request stop", "release stop",
                    "join", "destroyed"}

MayCall(t) ==
    /\ call[t] = "none"
    /\ IF t \in Workers THEN TasksEnqueue /\ wpc[t] = "task" ELSE ~Destroying

\* The empty answer of priority_queue_, without threads, has no counterpart.
CallEnqueue(t, task) ==
    /\ MayCall(t) /\ task \in fresh
    /\ slot' = [slot EXCEPT ![t] = Head(priority_queue)]
    /\ priority_queue' = Append(Tail(priority_queue), Head(priority_queue))
    /\ arg' = [arg EXCEPT ![t] = task]
    /\ fresh' = fresh \ {task}
    /\ CallGoesTo(t, "add unassigned")
    /\ UNCHANGED <<tasks, signal, counters, workers, removed, cleared, forgotten>>

AddUnassigned(t) ==
    /\ call[t] = "add unassigned"
    /\ unassigned' = unassigned + 1
    /\ CallGoesTo(t, "add in flight")
    /\ UNCHANGED <<lists, in_flight, complete, asleep, workers, arg, slot, removed, ghosts>>

AddInFlight(t) ==
    /\ call[t] = "add in flight"
    /\ in_flight' = in_flight + 1
    /\ CallGoesTo(t, IF in_flight = 0 THEN "reset" ELSE "push")
    /\ UNCHANGED <<lists, unassigned, complete, asleep, workers, arg, slot, removed, ghosts>>

ResetComplete(t) ==
    /\ call[t] = "reset"
    /\ complete' = FALSE
    /\ CallGoesTo(t, "push")
    /\ UNCHANGED <<lists, unassigned, in_flight, asleep, workers, arg, slot, removed, ghosts>>

PushBack(t) ==
    /\ call[t] = "push"
    /\ tasks' = [tasks EXCEPT ![slot[t]] = Append(@, arg[t])]
    /\ arg' = [arg EXCEPT ![t] = NoTask]
    /\ CallGoesTo(t, "release")
    /\ UNCHANGED <<signal, priority_queue, counters, workers, slot, removed, ghosts>>

ReleaseBug(t) ==                                \* only the first task wakes somebody
    /\ call[t] = "release"
    /\ signal' = IF in_flight = 1 THEN [signal EXCEPT ![slot[t]] = 1] ELSE signal
    /\ CallGoesTo(t, "none")
    /\ UNCHANGED <<tasks, priority_queue, counters, workers, arg, slot, removed, ghosts>>

Release(t) ==
    /\ call[t] = "release"
    /\ signal' = [signal EXCEPT ![slot[t]] = 1]
    /\ CallGoesTo(t, "none")
    /\ UNCHANGED <<tasks, priority_queue, counters, workers, arg, slot, removed, ghosts>>

EnqueueStep(t) ==
    AddUnassigned(t) \/ AddInFlight(t) \/ ResetComplete(t) \/ PushBack(t) \/ Release(t)

-----------------------------------------------------------------------------
(* wait_for_tasks, on its own or as the start of the destructor, which may *)
(* only run when no other caller is inside the pool.                       *)
CallWait(c) ==
    /\ MayCall(c)
    /\ \/ CallGoesTo(c, "wait")
       \/ CallGoesTo(c, "destroy") /\ \A other \in Callers : call[other] = "none"
    /\ UNCHANGED <<lists, counters, workers, arg, slot, removed, ghosts>>

SleepOf(place) == IF place = "wait" THEN "wait sleep" ELSE "destroy sleep"

LoadInFlightBug(c) ==                           \* believes a stale signal
    /\ call[c] \in {"wait", "destroy"}
    /\ IF in_flight > 0 /\ ~complete
         THEN CallGoesTo(c, SleepOf(call[c])) /\ UNCHANGED <<slot, forgotten>>
         ELSE /\ CallGoesTo(c, IF call[c] = "wait" THEN "none" ELSE "request stop")
              /\ slot' = [slot EXCEPT ![c] = 0]
              /\ forgotten' = forgotten \ {c}
    /\ UNCHANGED <<lists, counters, workers, arg, removed, fresh, cleared>>

LoadInFlight(c) ==
    /\ call[c] \in {"wait", "destroy"}
    /\ IF in_flight > 0
         THEN CallGoesTo(c, SleepOf(call[c])) /\ UNCHANGED <<slot, forgotten>>
         ELSE /\ CallGoesTo(c, IF call[c] = "wait" THEN "none" ELSE "request stop")
              /\ slot' = [slot EXCEPT ![c] = 0]
              /\ forgotten' = forgotten \ {c}
    /\ UNCHANGED <<lists, counters, workers, arg, removed, fresh, cleared>>

\* threads_complete_signal_.wait(false): compares, and sleeps while it is false.
AtomicWait(c) ==
    /\ call[c] \in {"wait sleep", "destroy sleep"} /\ c \notin asleep
    /\ IF complete THEN CallGoesTo(c, IF call[c] = "wait sleep" THEN "wait" ELSE "destroy")
                        /\ UNCHANGED asleep
                   ELSE asleep' = asleep \cup {c} /\ UNCHANGED call
    /\ UNCHANGED <<lists, unassigned, in_flight, complete, workers, arg, slot, removed, ghosts>>

(* The destructor stops and joins its threads one after the other.         *)
RequestStop(c) ==
    /\ call[c] = "request stop"
    /\ stop' = [stop EXCEPT ![slot[c]] = TRUE]
    /\ CallGoesTo(c, "release stop")
    /\ UNCHANGED <<lists, counters, wpc, j, held, executions, arg, slot, removed, ghosts>>

ReleaseStop(c) ==
    /\ call[c] = "release stop"
    /\ signal' = [signal EXCEPT ![slot[c]] = 1]
    /\ CallGoesTo(c, "join")
    /\ UNCHANGED <<tasks, priority_queue, counters, workers, arg, slot, removed, ghosts>>

Join(c) ==
    /\ call[c] = "join" /\ wpc[slot[c]] = "exited"
    /\ IF slot[c] + 1 \in Workers
         THEN slot' = [slot EXCEPT ![c] = @ + 1] /\ CallGoesTo(c, "request stop")
         ELSE CallGoesTo(c, "destroyed") /\ UNCHANGED slot
    /\ UNCHANGED <<lists, counters, workers, arg, removed, ghosts>>

WaitStep(c) == LoadInFlight(c) \/ AtomicWait(c) \/ RequestStop(c) \/ ReleaseStop(c) \/ Join(c)

-----------------------------------------------------------------------------
(* clear_tasks                                                             *)
CallClear(c) ==
    /\ MayCall(c)
    /\ slot' = [slot EXCEPT ![c] = 0]
    /\ CallGoesTo(c, "clear")
    /\ UNCHANGED <<lists, counters, workers, arg, removed, ghosts>>

ClearListBug(c) ==                              \* counts a list and keeps it
    /\ call[c] = "clear"
    /\ removed' = [removed EXCEPT ![c] = @ \cup ToSet(tasks[slot[c]])]
    /\ IF slot[c] + 1 \in Workers
         THEN slot' = [slot EXCEPT ![c] = @ + 1] /\ UNCHANGED call
         ELSE CallGoesTo(c, "subtract in flight") /\ UNCHANGED slot
    /\ UNCHANGED <<lists, counters, workers, arg, ghosts>>

ClearList(c) ==
    /\ call[c] = "clear"
    /\ removed' = [removed EXCEPT ![c] = @ \cup ToSet(tasks[slot[c]])]
    /\ tasks' = [tasks EXCEPT ![slot[c]] = <<>>]
    /\ IF slot[c] + 1 \in Workers
         THEN slot' = [slot EXCEPT ![c] = @ + 1] /\ UNCHANGED call
         ELSE CallGoesTo(c, "subtract in flight") /\ UNCHANGED slot
    /\ UNCHANGED <<signal, priority_queue, counters, workers, arg, ghosts>>

ClearInFlight(c) ==
    /\ call[c] = "subtract in flight"
    /\ in_flight' = in_flight - Cardinality(removed[c])
    /\ cleared' = cleared \cup removed[c]
    /\ CallGoesTo(c, "subtract unassigned")
    /\ UNCHANGED <<lists, unassigned, complete, asleep, workers, arg, slot, removed, fresh, forgotten>>

ClearUnassigned(c) ==
    /\ call[c] = "subtract unassigned"
    /\ unassigned' = unassigned - Cardinality(removed[c])
    /\ removed' = [removed EXCEPT ![c] = {}]
    /\ CallGoesTo(c, "none")
    /\ UNCHANGED <<lists, in_flight, complete, asleep, workers, arg, slot, ghosts>>

ClearStep(c) == ClearList(c) \/ ClearInFlight(c) \/ ClearUnassigned(c)

-----------------------------------------------------------------------------
CallStep(c) == EnqueueStep(c) \/ WaitStep(c) \/ ClearStep(c)

Destroyed == \E c \in Callers : call[c] = "destroyed"

Next ==
    \/ \E w \in Workers : WorkerStep(w) \/ EnqueueStep(w)
    \/ \E c \in Callers : CallWait(c) \/ CallClear(c) \/ CallStep(c)
    \/ \E t \in Threads, task \in Tasks : CallEnqueue(t, task)
    \/ Destroyed /\ UNCHANGED vars

(* Every thread that can go on does; nobody has to begin a call.           *)
Fairness ==
    /\ \A w \in Workers : WF_vars(WorkerStep(w) \/ EnqueueStep(w))
    /\ \A c \in Callers : WF_vars(CallStep(c))

Spec == Init /\ [][Next]_vars /\ Fairness

-----------------------------------------------------------------------------
WorkerPCs == {"acquire", "take", "assigned", "task", "ran", "check", "rotate",
              "inspect", "complete", "notify", "stop", "exited"}
CallPCs == {"none", "add unassigned", "add in flight", "reset", "push", "release",
            "wait", "wait sleep", "destroy", "destroy sleep", "request stop",
            "release stop", "join", "destroyed",
            "clear", "subtract in flight", "subtract unassigned"}

(* Both counters stay natural numbers although every queue is emptied by   *)
(* several threads, and priority_queue_ names each worker exactly once.    *)
TypeOK ==
    /\ tasks \in [Workers -> Seq(Tasks)]
    /\ signal \in [Workers -> {0, 1}]
    /\ ToSet(priority_queue) = Workers /\ Len(priority_queue) = NumberOfThreads
    /\ unassigned \in Nat /\ in_flight \in Nat
    /\ complete \in BOOLEAN
    /\ asleep \subseteq Callers
    /\ wpc \in [Workers -> WorkerPCs]
    /\ j \in [Workers -> Workers]
    /\ held \in [Workers -> Tasks \cup {NoTask}]
    /\ stop \in [Workers -> BOOLEAN]
    /\ executions \in [Tasks -> Nat]
    /\ call \in [Threads -> CallPCs]
    /\ arg \in [Threads -> Tasks \cup {NoTask}]
    /\ slot \in [Threads -> Workers]
    /\ removed \in [Threads -> SUBSET Tasks]
    /\ fresh \subseteq Tasks /\ cleared \subseteq Tasks /\ forgotten \subseteq Callers

(* No task sits in the queue of a worker that sleeps with nobody on the    *)
(* way to wake it: the semaphore holds at most one release, so a second    *)
(* one is lost, and must be superfluous (dp_threadpool.h:59, :89, :293).   *)
NoTaskWithoutWorker ==
    \A w \in Workers :
        tasks[w] # <<>> /\ wpc[w] \in {"acquire", "exited"} =>
            \/ signal[w] = 1
            \/ \E t \in Threads : call[t] = "release" /\ slot[t] = w

Held(task) == \E w \in Workers : held[w] = task

Counted(task) ==
    \/ \E t \in Threads : arg[t] = task /\ call[t] \in {"reset", "push"}
    \/ \E w \in Workers : task \in ToSet(tasks[w])
    \/ \E t \in Threads : task \in removed[t] /\ call[t] # "subtract unassigned"

StatusOf(task) ==
    CASE Held(task) -> "running"
      [] ~Held(task) /\ executions[task] > 0 -> "done"
      [] task \in cleared -> "cleared"
      [] Counted(task) -> "queued"
      [] OTHER -> "new"

Status == [task \in Tasks |-> StatusOf(task)]

Waiting == {"wait", "wait sleep", "destroy", "destroy sleep"}

Waits == [c \in Callers |-> IF call[c] \in Waiting THEN "all" ELSE "no"]

(* The pool keeps the promises of WaitablePool: a wait_for_tasks returns   *)
(* only when nothing is in flight, and then it does return, unless a       *)
(* second thread waited and the one notification went to that one          *)
(* (dp_threadpool.h:92-97, :245-250); the doc makes no such exception      *)
(* ("will block until all tasks have been completed", :242), so this is    *)
(* less than it says.  clear_tasks forgets nobody: some worker still       *)
(* passes the test of in_flight_tasks_ after it.                           *)
Promise == INSTANCE WaitablePool WITH
    ClearForgets <- FALSE, paused <- FALSE, status <- Status, waits <- Waits

ImplementsWaitablePool == Promise!WSpec
=============================================================================
