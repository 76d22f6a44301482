---------------------------- MODULE PoolDispatch ----------------------------
(***************************************************************************)
(* The way main.cpp uses ThreadPool (main_ThreadPool, _Affinity,           *)
(* _Batched_16 and oneTBB_Batched): one thread builds an unbounded pool,   *)
(* submits the tasks of the suite in order without blocking, drains the    *)
(* pool and destroys it.  The workers come up as in PoolStartup: one can   *)
(* be inside the queue while the constructor is still starting others.     *)
(*                                                                         *)
(* Batching by 16 only groups the iterations of the submission loop.  The  *)
(* oneTBB variant submits each full batch as one task of the pool, and     *)
(* what is left over as a last one: there a task of this module is a batch.*)
(***************************************************************************)
EXTENDS ThreadPool

CONSTANTS
    main,               \* the thread that calls the dispatch function
    Suite,              \* its tasks, in order
    numLogicalCores, MachineCores, MaySpawnFail         \* as in PoolStartup

(* The thread that submits and the pool it builds.  It is an assumption   *)
(* of this use of the pool, evaluated where the constants get values; what *)
(* is proved of ThreadPool alone does not need it.                         *)
DispatchAssumption ==
    /\ Callers = {main}
    /\ MaxSize = 0 /\ Policies = {FALSE}
    /\ Suite \in Seq(Tasks)
    /\ \A i, j \in DOMAIN Suite : Suite[i] = Suite[j] => i = j
    /\ \A task \in Tasks : \E i \in DOMAIN Suite : Suite[i] = task
    /\ numLogicalCores \in Nat \ {0} /\ MachineCores \in Nat \ {0}
    /\ MaySpawnFail \in BOOLEAN

VARIABLES
    left,               \* the tasks of the suite main has yet to submit
    stage,              \* what main does when it has submitted them
    enableAffinity, constructor, worker, nextCoreId, coreId, pinned

Startup == INSTANCE PoolStartup

mainvars == <<left, stage>>
startvars == <<enableAffinity, constructor, worker, nextCoreId, coreId, pinned>>
dispatchvars == <<vars, mainvars, startvars>>

InitDispatch == Init /\ Startup!Init /\ left = Suite /\ stage = "drain"

MainIsFree == constructor = "returned" /\ call[main] = "none"

SubmitNext ==
    /\ MainIsFree /\ left # <<>>
    /\ CallTryEnqueueTask(main, Head(left))
    /\ left' = Tail(left)
    /\ UNCHANGED stage

BeginDrain ==
    /\ MainIsFree /\ left = <<>> /\ stage = "drain"
    /\ BeginShutdown(main, "shutdownProcessRemainingTasks")
    /\ stage' = "destroy"
    /\ UNCHANGED left

\* The destructor of the local variable pool: shutdownImmediately().
BeginDestroy ==
    /\ MainIsFree /\ stage = "destroy"
    /\ BeginShutdown(main, "shutdownImmediately")
    /\ stage' = "returned"
    /\ UNCHANGED left

Returned == stage = "returned" /\ call[main] = "none"

MainStep == SubmitNext \/ BeginDrain \/ BeginDestroy

ServingStep(w) == worker[w] = "serving" /\ WorkerStep(w)

CallStep == EnqueueStep(main) \/ ShutdownStep(main)

NextDispatch ==
    \/ (Startup!Construct \/ Startup!SpawnFails) /\ UNCHANGED <<vars, mainvars>>
    \/ \E w \in Workers : Startup!StartWorker(w) /\ UNCHANGED <<vars, mainvars>>
    \/ MainStep /\ UNCHANGED startvars
    \/ (CallStep \/ \E w \in Workers : ServingStep(w) \/ Spurious(w))
           /\ UNCHANGED <<mainvars, startvars>>
    \/ (Returned \/ constructor \in {"threw", "terminated"}) /\ UNCHANGED dispatchvars

(* The scheduler runs the constructor, the workers once they are born, and *)
(* main; nothing obliges the system to run out of threads.                 *)
FairDispatch ==
    /\ WF_dispatchvars(Startup!Construct /\ UNCHANGED <<vars, mainvars>>)
    /\ \A w \in Workers :
           /\ WF_dispatchvars(Startup!StartWorker(w) /\ UNCHANGED <<vars, mainvars>>)
           /\ WF_dispatchvars(ServingStep(w) /\ UNCHANGED <<mainvars, startvars>>)
    /\ WF_dispatchvars(MainStep /\ UNCHANGED startvars)
    /\ WF_dispatchvars(CallStep /\ UNCHANGED <<mainvars, startvars>>)

SpecDispatch == InitDispatch /\ [][NextDispatch]_dispatchvars /\ FairDispatch

-----------------------------------------------------------------------------
(* The dispatch function of ThreadPool does what the benchmark expects of  *)
(* a dispatch function: every task exactly once, all of them before it     *)
(* returns, and it returns; or a thread cannot be created, and no task has *)
(* begun when the exception leaves the constructor or ends the program.    *)
Contract == INSTANCE Dispatch WITH
    MayAbort <- FALSE,
    progress <- [task \in Tasks |->
                    IF executions[task] > 1 THEN "repeated"
                    ELSE IF BeingRun(task) THEN "running"
                    ELSE IF executions[task] = 1 THEN "done" ELSE "waiting"],
    outcome <- IF Returned THEN "returned"
               ELSE IF constructor \in {"threw", "terminated"} THEN "failed" ELSE "none"

ImplementsDispatch == Contract!DSpec

(* Cores are handed out evenly whatever order the workers come up in       *)
(* (ThreadPool.h:218-219).                                                 *)
RoundRobinIsEven == Startup!RoundRobinIsEven

(* With affinity on, no task is run by a worker that has not been bound to *)
(* its own core before, provided that the machine has the 24 cores that    *)
(* the code takes for granted (ThreadPool.h:216-222).                      *)
TasksRunPinned ==
    enableAffinity /\ MachineCores >= numLogicalCores =>
        \A w \in Workers :
            running[w] # NoTask =>
                pinned[w] = coreId[w] /\ coreId[w] # Startup!Unpinned
=============================================================================
