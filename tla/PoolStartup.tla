---------------------------- MODULE PoolStartup ----------------------------
(***************************************************************************)
(* How a ThreadPool comes up: its constructor starts the worker threads    *)
(* one by one, and each of them, at its own pace, takes a core number and  *)
(* pins itself before it enters its loop.                                  *)
(*                                                                         *)
(* The constructor initialises the member enableAffinity from itself: its  *)
(* parameter is spelled enableAfinity (ThreadPool.h:87-89).  The member's  *)
(* value is whatever its storage held and has nothing to do with what the  *)
(* caller asked for, so it is chosen freely here and there is no parameter.*)
(*                                                                         *)
(* These are the actions alone; PoolDispatch puts them beside those of the *)
(* pool and of its caller.                                                 *)
(***************************************************************************)
EXTENDS Naturals, FiniteSets

CONSTANTS
    Workers,
    numLogicalCores,    \* 24 in the code
    MachineCores,       \* what the machine really has
    MaySpawnFail        \* can the system run out of threads?

\* A name ending in Bug is a mistake no specification uses: it shows that a
\* property notices it.

VARIABLES
    enableAffinity,     \* the member
    constructor,        \* where the constructor is
    worker,             \* where each worker is
    nextCoreId,
    coreId,             \* the local coreId of each worker
    pinned              \* the core each worker is bound to

Unpinned == numLogicalCores     \* runs wherever the scheduler puts it

Init ==
    /\ enableAffinity \in BOOLEAN
    /\ constructor = "spawning"
    /\ worker = [w \in Workers |-> "unborn"]
    /\ nextCoreId = 0
    /\ coreId = [w \in Workers |-> Unpinned]
    /\ pinned = [w \in Workers |-> Unpinned]

Born == {w \in Workers : worker[w] # "unborn"}

WorkerGoesTo(w, label) == worker' = [worker EXCEPT ![w] = label]

-----------------------------------------------------------------------------
SpawnWorker(w) ==
    /\ constructor = "spawning"
    /\ worker[w] = "unborn"
    /\ WorkerGoesTo(w, "born")
    /\ UNCHANGED <<enableAffinity, constructor, nextCoreId, coreId, pinned>>

FinishConstructor ==
    /\ constructor = "spawning"
    /\ Born = Workers
    /\ constructor' = "returned"
    /\ UNCHANGED <<enableAffinity, worker, nextCoreId, coreId, pinned>>

(* std::thread throws when the system has no thread to give.  The members  *)
(* are destroyed without ~ThreadPool: destroying a joinable thread in      *)
(* workers terminates the process, with every thread in it.                *)
SpawnFails ==
    /\ MaySpawnFail
    /\ constructor = "spawning" /\ Born # Workers
    /\ IF Born = {}
         THEN constructor' = "threw" /\ UNCHANGED worker
         ELSE /\ constructor' = "terminated"
              /\ worker' = [w \in Workers |->
                                IF w \in Born THEN "gone" ELSE "unborn"]
    /\ UNCHANGED <<enableAffinity, nextCoreId, coreId, pinned>>

SkipPinning(w) ==
    /\ worker[w] = "born" /\ ~enableAffinity
    /\ WorkerGoesTo(w, "serving")
    /\ UNCHANGED <<enableAffinity, constructor, nextCoreId, coreId, pinned>>

TakeCoreIdBug(w) ==                             \* loses an update
    /\ worker[w] = "born" /\ enableAffinity
    /\ coreId' = [coreId EXCEPT ![w] = nextCoreId % numLogicalCores]
    /\ nextCoreId' \in {nextCoreId, nextCoreId + 1}
    /\ WorkerGoesTo(w, "pinning")
    /\ UNCHANGED <<enableAffinity, constructor, pinned>>

TakeCoreId(w) ==
    /\ worker[w] = "born" /\ enableAffinity
    /\ coreId' = [coreId EXCEPT ![w] = nextCoreId % numLogicalCores]
    /\ nextCoreId' = nextCoreId + 1
    /\ WorkerGoesTo(w, "pinning")
    /\ UNCHANGED <<enableAffinity, constructor, pinned>>

PinCurrentThreadToCoreBug(w) ==                 \* cores counted from 1
    /\ worker[w] = "pinning"
    /\ pinned' = IF coreId[w] + 1 < MachineCores
                   THEN [pinned EXCEPT ![w] = coreId[w] + 1] ELSE pinned
    /\ WorkerGoesTo(w, "serving")
    /\ UNCHANGED <<enableAffinity, constructor, nextCoreId, coreId>>

\* A core the machine lacks: the call fails and nobody looks at its result.
PinCurrentThreadToCore(w) ==
    /\ worker[w] = "pinning"
    /\ pinned' = IF coreId[w] < MachineCores
                   THEN [pinned EXCEPT ![w] = coreId[w]] ELSE pinned
    /\ WorkerGoesTo(w, "serving")
    /\ UNCHANGED <<enableAffinity, constructor, nextCoreId, coreId>>

StartWorker(w) == SkipPinning(w) \/ TakeCoreId(w) \/ PinCurrentThreadToCore(w)

Construct == FinishConstructor \/ \E w \in Workers : SpawnWorker(w)

-----------------------------------------------------------------------------
Load(core) == Cardinality({w \in Workers : coreId[w] = core})

(* Cores are handed out evenly in whatever order the workers start: no two *)
(* cores ever differ by more than one worker (ThreadPool.h:217-218).       *)
RoundRobinIsEven ==
    \A i, j \in 0 .. (numLogicalCores - 1) : Load(i) <= Load(j) + 1
=============================================================================
