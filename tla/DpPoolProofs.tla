---------------------------- MODULE DpPoolProofs ----------------------------
(***************************************************************************)
(* Theorems about dp::thread_pool, for any numbers of workers, callers and *)
(* tasks.  No task lies in the queue of a worker that sleeps and will not  *)
(* be woken: the binary semaphore may swallow a release, so the argument   *)
(* is about where the worker is when its queue gets longer.  And the pool  *)
(* keeps the promises of WaitablePool: that argument follows every task    *)
(* through the hands of callers, queues and workers.                       *)
(***************************************************************************)
EXTENDS DpThreadPool, CountingLemmas

IsList(f) == f = [w \in Workers |-> f[w]]

Shapes ==
    /\ IsList(tasks)
    /\ signal \in [Workers -> {0, 1}]
    /\ wpc \in [Workers -> WorkerPCs]
    /\ j \in [Workers -> Workers]
    /\ call \in [Threads -> CallPCs]
    /\ slot = [t \in Threads |-> slot[t]]

(* Only a worker that takes or runs tasks has an index other than its own. *)
IndexAtRest == \A w \in Workers : wpc[w] \notin {"take", "assigned", "task", "ran"} => j[w] = 0

(* It will look into its own queue before it sleeps again.                 *)
WillLook(w) == wpc[w] \in {"take", "assigned", "task", "ran"} /\ j[w] = 0

Releasing(w) == \E t \in Threads : call[t] = "release" /\ slot[t] = w

QueuesAreWatched ==
    \A w \in Workers : tasks[w] # <<>> => signal[w] = 1 \/ Releasing(w) \/ WillLook(w)

WatchInv == Shapes /\ IndexAtRest /\ QueuesAreWatched

LEMMA WorkersAreNumbers == Workers \subseteq Nat /\ 0 \in Workers /\ Workers \subseteq Threads
BY DpAssumption DEF Workers, Threads

LEMMA VictimIsWorker ==
    ASSUME NEW w \in Workers, j[w] \in Workers
    PROVE  Victim(w) \in Workers /\ (j[w] = 0 => Victim(w) = w) /\ (j[w] + 1) % NumberOfThreads \in Workers
<1>1. \A N \in Nat \ {0} : \A a, b \in 0 .. (N - 1) : (a + b) % N \in 0 .. (N - 1)
  OBVIOUS
<1>2. \A N \in Nat \ {0} : \A a \in 0 .. (N - 1) : (a + 0) % N = a
  OBVIOUS
<1>3. Victim(w) \in Workers
  BY <1>1, DpAssumption DEF Victim, Workers
<1>4. j[w] = 0 => Victim(w) = w
  BY <1>2, DpAssumption DEF Victim, Workers
<1>5. (j[w] + 1) % NumberOfThreads \in Workers
  BY DpAssumption DEF Workers
<1> QED BY <1>3, <1>4, <1>5

LEMMA WatchInit == Init => WatchInv
<1> SUFFICES ASSUME Init PROVE WatchInv
  OBVIOUS
<1>1. Shapes
  BY WorkersAreNumbers DEF Init, Shapes, IsList, WorkerPCs, CallPCs
<1>2. IndexAtRest /\ QueuesAreWatched
  BY DEF Init, IndexAtRest, QueuesAreWatched
<1> QED BY <1>1, <1>2 DEF WatchInv

(* A worker's own step: it leaves its queue only after finding it empty.   *)
LEMMA WorkerWatches ==
    ASSUME WatchInv, NEW w \in Workers, WorkerStep(w)
    PROVE  WatchInv'
<1>s. Shapes /\ IndexAtRest /\ QueuesAreWatched
  BY DEF WatchInv
<1>u. UNCHANGED <<call, slot>> /\ \A v \in Workers : Releasing(v)' <=> Releasing(v)
  <2>1. UNCHANGED <<call, slot>>
    BY DEF WorkerStep, Acquire, Take, SubtractUnassigned, TaskEnds, SubtractInFlight, CheckUnassigned,
           RotateToFront, InspectInFlight, StoreComplete, NotifyOne, TestStop, calls
  <2> QED BY <2>1 DEF Releasing
(* The steps that touch neither a queue nor a semaphore.                   *)
<1>quiet. ASSUME UNCHANGED <<tasks, signal>>, NEW label \in WorkerPCs, wpc' = [wpc EXCEPT ![w] = label],
                 \/ j' = j
                 \/ j' = [j EXCEPT ![w] = 0],
                 WillLook(w) => WillLook(w)',
                 label \notin {"take", "assigned", "task", "ran"} => j'[w] = 0
          PROVE  WatchInv'
  <2>1. Shapes'
    BY <1>s, <1>u, <1>quiet, WorkersAreNumbers DEF Shapes, IsList
  <2>2. \A v \in Workers : v # w => wpc'[v] = wpc[v] /\ j'[v] = j[v]
    BY <1>s, <1>quiet DEF Shapes
  <2>3. wpc'[w] = label
    BY <1>s, <1>quiet DEF Shapes
  <2>4. IndexAtRest'
    BY <1>s, <1>quiet, <2>2, <2>3 DEF IndexAtRest
  <2>5. \A v \in Workers : WillLook(v) => WillLook(v)'
    BY <1>quiet, <2>2 DEF WillLook
  <2>6. QueuesAreWatched'
    BY <1>s, <1>u, <1>quiet, <2>5 DEF QueuesAreWatched
  <2> QED BY <2>1, <2>4, <2>6 DEF WatchInv
<1>1. CASE Acquire(w)
  <2>1. /\ wpc[w] = "acquire" /\ signal' = [signal EXCEPT ![w] = 0]
        /\ wpc' = [wpc EXCEPT ![w] = "take"] /\ UNCHANGED <<tasks, j>>
    BY <1>1 DEF Acquire, WorkerGoesTo
  <2>2. Shapes'
    BY <1>s, <1>u, <2>1 DEF Shapes, IsList, WorkerPCs
  <2>3. /\ \A v \in Workers : v # w => wpc'[v] = wpc[v] /\ signal'[v] = signal[v]
        /\ wpc'[w] = "take" /\ j[w] = 0
    BY <1>s, <2>1 DEF Shapes, IndexAtRest
  <2>4. IndexAtRest'
    BY <1>s, <2>1, <2>3 DEF IndexAtRest
  <2>5. QueuesAreWatched'
    BY <1>s, <1>u, <2>1, <2>3 DEF QueuesAreWatched, WillLook
  <2> QED BY <2>2, <2>4, <2>5 DEF WatchInv
<1>2. CASE Take(w)
  <2>v. Victim(w) \in Workers /\ (j[w] = 0 => Victim(w) = w) /\ (j[w] + 1) % NumberOfThreads \in Workers
    BY <1>s, VictimIsWorker DEF Shapes
  <2>1. CASE tasks[Victim(w)] = <<>>
    <3>1. /\ UNCHANGED <<tasks, signal>> /\ wpc[w] = "take"
          /\ j' = [j EXCEPT ![w] = (j[w] + 1) % NumberOfThreads]
          /\ wpc' = [wpc EXCEPT ![w] = IF j'[w] = 0 THEN "check" ELSE "take"]
      BY <1>2, <2>1 DEF Take, WorkerGoesTo
    <3>2. Shapes'
      BY <1>s, <1>u, <2>v, <3>1 DEF Shapes, IsList, WorkerPCs
    <3>3. /\ \A v \in Workers : v # w => wpc'[v] = wpc[v] /\ j'[v] = j[v]
          /\ wpc'[w] = "take" \/ j'[w] = 0
      BY <1>s, <3>1 DEF Shapes
    <3>4. IndexAtRest'
      BY <1>s, <3>3 DEF IndexAtRest
    <3>5. tasks[w] = <<>> \/ ~WillLook(w)
      BY <2>1, <2>v DEF WillLook
    <3>6. QueuesAreWatched'
      BY <1>s, <1>u, <3>1, <3>3, <3>5 DEF QueuesAreWatched, WillLook
    <3> QED BY <3>2, <3>4, <3>6 DEF WatchInv
  <2>2. CASE tasks[Victim(w)] # <<>>
    <3>1. PICK list : tasks' = [tasks EXCEPT ![Victim(w)] = list]
      BY <1>2, <2>2 DEF Take
    <3>2. /\ UNCHANGED <<signal, j>> /\ wpc[w] = "take" /\ wpc' = [wpc EXCEPT ![w] = "assigned"]
      BY <1>2, <2>2 DEF Take, WorkerGoesTo
    <3>3. Shapes'
      BY <1>s, <1>u, <2>v, <3>1, <3>2 DEF Shapes, IsList, WorkerPCs
    <3>4. /\ \A v \in Workers : v # w => wpc'[v] = wpc[v]
          /\ wpc'[w] = "assigned"
          /\ \A v \in Workers : tasks'[v] # <<>> => tasks[v] # <<>>
      BY <1>s, <2>2, <2>v, <3>1, <3>2 DEF Shapes, IsList
    <3>5. IndexAtRest'
      BY <1>s, <3>2, <3>4 DEF IndexAtRest
    <3>6. QueuesAreWatched'
      BY <1>s, <1>u, <3>2, <3>4 DEF QueuesAreWatched, WillLook
    <3> QED BY <3>3, <3>5, <3>6 DEF WatchInv
  <2> QED BY <2>1, <2>2
<1>3. CASE SubtractUnassigned(w)
  BY <1>3, <1>quiet DEF SubtractUnassigned, WorkerGoesTo, lists, WorkerPCs, WillLook
<1>4. CASE TaskEnds(w)
  BY <1>4, <1>quiet DEF TaskEnds, WorkerGoesTo, lists, WorkerPCs, WillLook
<1>5. CASE SubtractInFlight(w)
  BY <1>5, <1>s, <1>quiet DEF SubtractInFlight, WorkerGoesTo, lists, WorkerPCs, WillLook, Shapes
<1>6. CASE CheckUnassigned(w) \/ RotateToFront(w) \/ InspectInFlight(w) \/ StoreComplete(w) \/ NotifyOne(w) \/ TestStop(w)
  <2>1. /\ UNCHANGED <<tasks, signal, j>> /\ wpc[w] \notin {"take", "assigned", "task", "ran"}
        /\ \E label \in WorkerPCs : wpc' = [wpc EXCEPT ![w] = label]
    BY <1>6 DEF CheckUnassigned, RotateToFront, InspectInFlight, StoreComplete, NotifyOne, TestStop,
                WorkerGoesTo, lists, WorkerPCs
  <2>2. j[w] = 0 /\ ~WillLook(w)
    BY <1>s, <2>1 DEF IndexAtRest, WillLook
  <2> QED BY <1>quiet, <2>1, <2>2
<1> QED BY <1>1, <1>2, <1>3, <1>4, <1>5, <1>6 DEF WorkerStep

(* A call: after it has appended it is about to release the semaphore.     *)
LEMMA CallWatches ==
    ASSUME WatchInv, NEW t \in Threads,
           \/ EnqueueStep(t)
           \/ \E task \in Tasks : CallEnqueue(t, task)
           \/ t \in Callers /\ (CallWait(t) \/ CallClear(t) \/ WaitStep(t) \/ ClearStep(t))
    PROVE  WatchInv'
<1>s. Shapes /\ IndexAtRest /\ QueuesAreWatched
  BY DEF WatchInv
<1>u. UNCHANGED <<wpc, j>>
  BY DEF EnqueueStep, AddUnassigned, AddInFlight, ResetComplete, PushBack, Release, CallEnqueue, CallWait,
         CallClear, WaitStep, LoadInFlight, AtomicWait, RequestStop, ReleaseStop, Join, ClearStep, ClearList,
         ClearInFlight, ClearUnassigned, workers
<1>i. IndexAtRest' /\ \A w \in Workers : WillLook(w)' <=> WillLook(w)
  BY <1>s, <1>u DEF IndexAtRest, WillLook
<1>c. call' \in [Threads -> CallPCs] /\ slot' = [d \in Threads |-> slot'[d]]
  <2>1. /\ call' = call \/ \E label \in CallPCs : call' = [call EXCEPT ![t] = label]
        /\ slot' = slot \/ \E v : slot' = [slot EXCEPT ![t] = v]
    BY DEF EnqueueStep, AddUnassigned, AddInFlight, ResetComplete, PushBack, Release, CallEnqueue, CallWait,
           CallClear, WaitStep, LoadInFlight, AtomicWait, RequestStop, ReleaseStop, Join, ClearStep, ClearList,
           ClearInFlight, ClearUnassigned, calls, CallGoesTo, CallPCs, SleepOf
  <2> QED BY <1>s, <2>1 DEF Shapes
(* The others keep their places and slots.                                 *)
<1>o. \A d \in Threads : d # t => call'[d] = call[d] /\ slot'[d] = slot[d]
  <2>1. /\ call' = call \/ \E label \in CallPCs : call' = [call EXCEPT ![t] = label]
        /\ slot' = slot \/ \E v : slot' = [slot EXCEPT ![t] = v]
    BY DEF EnqueueStep, AddUnassigned, AddInFlight, ResetComplete, PushBack, Release, CallEnqueue, CallWait,
           CallClear, WaitStep, LoadInFlight, AtomicWait, RequestStop, ReleaseStop, Join, ClearStep, ClearList,
           ClearInFlight, ClearUnassigned, calls, CallGoesTo, CallPCs, SleepOf
  <2> QED BY <1>s, <2>1 DEF Shapes
<1>1. CASE PushBack(t)
  <2>1. /\ tasks' = [tasks EXCEPT ![slot[t]] = Append(@, arg[t])] /\ UNCHANGED <<signal, slot>>
        /\ call' = [call EXCEPT ![t] = "release"] /\ call[t] = "push"
    BY <1>1 DEF PushBack, CallGoesTo
  <2>2. call'[t] = "release"
    BY <1>s, <2>1 DEF Shapes
  <2>3. IsList(tasks')
    BY <1>s, <2>1 DEF Shapes, IsList
  <2>4. \A w \in Workers : w # slot[t] => tasks'[w] = tasks[w]
    BY <1>s, <2>1 DEF Shapes, IsList
  <2>5. \A w \in Workers : Releasing(w) \/ w = slot[t] => Releasing(w)'
    BY <1>o, <2>1, <2>2 DEF Releasing
  <2>6. QueuesAreWatched'
    BY <1>s, <1>i, <2>1, <2>4, <2>5 DEF QueuesAreWatched
  <2> QED BY <1>s, <1>u, <1>i, <1>c, <2>1, <2>3, <2>6 DEF WatchInv, Shapes, IsList
<1>2. CASE Release(t) \/ ReleaseStop(t)
  <2>1. /\ signal' = [signal EXCEPT ![slot[t]] = 1] /\ UNCHANGED <<tasks, slot>>
    BY <1>2 DEF Release, ReleaseStop
  <2>2. signal' \in [Workers -> {0, 1}] /\ \A w \in Workers : signal[w] = 1 \/ w = slot[t] => signal'[w] = 1
    BY <1>s, <2>1 DEF Shapes
  <2>3. \A w \in Workers : Releasing(w) => Releasing(w)' \/ w = slot[t]
    BY <1>o DEF Releasing
  <2>4. QueuesAreWatched'
    BY <1>s, <1>i, <2>1, <2>2, <2>3 DEF QueuesAreWatched
  <2> QED BY <1>s, <1>u, <1>i, <1>c, <2>1, <2>2, <2>4 DEF WatchInv, Shapes, IsList
(* The other calls lengthen no queue and release or take no semaphore.     *)
<1>3. ASSUME call[t] # "release", signal' = signal, IsList(tasks'),
             \A w \in Workers : tasks'[w] # <<>> => tasks[w] # <<>>
      PROVE  WatchInv'
  <2>1. \A w \in Workers : Releasing(w) => Releasing(w)'
    BY <1>o, <1>3 DEF Releasing
  <2>2. QueuesAreWatched'
    BY <1>s, <1>i, <1>3, <2>1 DEF QueuesAreWatched
  <2> QED BY <1>s, <1>u, <1>i, <1>c, <1>3, <2>2 DEF WatchInv, Shapes, IsList
<1>4. CASE ClearList(t)
  <2>1. tasks' = [tasks EXCEPT ![slot[t]] = <<>>] /\ signal' = signal /\ call[t] = "clear"
    BY <1>4 DEF ClearList
  <2>2. IsList(tasks') /\ \A w \in Workers : tasks'[w] # <<>> => tasks[w] # <<>>
    BY <1>s, <2>1 DEF Shapes, IsList
  <2> QED BY <1>3, <2>1, <2>2
<1>5. CASE \/ AddUnassigned(t) \/ AddInFlight(t) \/ ResetComplete(t) \/ \E task \in Tasks : CallEnqueue(t, task)
           \/ CallWait(t) \/ CallClear(t) \/ LoadInFlight(t) \/ AtomicWait(t) \/ RequestStop(t) \/ Join(t)
           \/ ClearInFlight(t) \/ ClearUnassigned(t)
  <2>1. call[t] # "release" /\ UNCHANGED <<tasks, signal>>
    BY <1>5 DEF AddUnassigned, AddInFlight, ResetComplete, CallEnqueue, CallWait, CallClear, LoadInFlight,
                AtomicWait, RequestStop, Join, ClearInFlight, ClearUnassigned, MayCall, lists
  <2>2. IsList(tasks')
    BY <1>s, <2>1 DEF Shapes, IsList
  <2> QED BY <1>3, <2>1, <2>2
<1> QED BY <1>1, <1>2, <1>4, <1>5 DEF EnqueueStep, WaitStep, ClearStep

LEMMA WatchStep == WatchInv /\ [Next]_vars => WatchInv'
<1> SUFFICES ASSUME WatchInv, [Next]_vars PROVE WatchInv'
  OBVIOUS
<1>1. CASE UNCHANGED vars
  BY <1>1 DEF vars, lists, counters, workers, calls, WatchInv, Shapes, IsList, IndexAtRest, QueuesAreWatched,
              Releasing, WillLook
<1>2. CASE Next
  BY <1>1, <1>2, WorkerWatches, CallWatches, WorkersAreNumbers DEF Next, CallStep, Threads
<1> QED BY <1>1, <1>2

(* No task waits in the queue of a worker that will not look into it.      *)
THEOREM NoTaskIsForgotten == Spec => []NoTaskWithoutWorker
<1>1. WatchInv => NoTaskWithoutWorker
  BY DEF WatchInv, QueuesAreWatched, Releasing, WillLook, NoTaskWithoutWorker
<1> QED BY <1>1, WatchInit, WatchStep, PTL DEF Spec

-----------------------------------------------------------------------------
(* The types, except those of the two counters, which count.               *)
Types ==
    /\ tasks \in [Workers -> Seq(Tasks)]
    /\ signal \in [Workers -> {0, 1}]
    /\ complete \in BOOLEAN
    /\ wpc \in [Workers -> WorkerPCs]
    /\ j \in [Workers -> Workers]
    /\ held \in [Workers -> Tasks \cup {NoTask}]
    /\ stop \in [Workers -> BOOLEAN]
    /\ executions \in [Tasks -> Nat]
    /\ call \in [Threads -> CallPCs]
    /\ arg \in [Threads -> Tasks \cup {NoTask}]
    /\ slot \in [Threads -> Workers]
    /\ removed \in [Threads -> SUBSET Tasks]
    /\ fresh \subseteq Tasks /\ cleared \subseteq Tasks

(* priority_queue_ names every worker once.                                *)
WorkersQueue ==
    /\ priority_queue \in Seq(Workers) /\ Len(priority_queue) = NumberOfThreads
    /\ IsInjective(priority_queue) /\ ToSet(priority_queue) = Workers

(* Who sleeps, and who has been forgotten, waits.                          *)
Sleepers ==
    /\ asleep \subseteq Callers /\ forgotten \subseteq Callers
    /\ \A c \in asleep : call[c] \in {"wait sleep", "destroy sleep"}
    /\ \A c \in forgotten : call[c] \in Waiting

(* A thread in enqueue_task has an argument, a worker that runs one a task.*)
EnqueuePCs == {"add unassigned", "add in flight", "reset", "push"}
BusyPCs == {"assigned", "task", "ran"}

HandsFull ==
    /\ \A t \in Threads : arg[t] # NoTask <=> call[t] \in EnqueuePCs
    /\ \A w \in Workers : held[w] # NoTask <=> wpc[w] \in BusyPCs
    /\ \A w \in Workers : IsInjective(tasks[w])

LEMMA QueueInit == Init => WorkersQueue
<1> SUFFICES ASSUME Init PROVE WorkersQueue
  OBVIOUS
<1>1. priority_queue = [i \in 1 .. NumberOfThreads |-> i - 1] /\ NumberOfThreads \in Nat \ {0}
  BY DpAssumption DEF Init
<1>2. \A i \in 1 .. NumberOfThreads : i - 1 \in Workers
  BY <1>1 DEF Workers
<1>3. priority_queue \in Seq(Workers) /\ Len(priority_queue) = NumberOfThreads
  BY <1>1, <1>2
<1>4. IsInjective(priority_queue)
  BY <1>1 DEF IsInjective
<1>5. \A w \in Workers : w + 1 \in 1 .. NumberOfThreads /\ priority_queue[w + 1] = w
  BY <1>1 DEF Workers
<1>6. ToSet(priority_queue) = Workers
  BY <1>1, <1>2, <1>5 DEF ToSet
<1> QED BY <1>3, <1>4, <1>6 DEF WorkersQueue

LEMMA QueueStep == WorkersQueue /\ [Next]_vars => WorkersQueue'
<1> SUFFICES ASSUME WorkersQueue, [Next]_vars PROVE WorkersQueue'
  OBVIOUS
<1>1. ASSUME NEW t \in Threads, NEW task \in Tasks, CallEnqueue(t, task) PROVE WorkersQueue'
  <2>1. priority_queue' = Append(Tail(priority_queue), Head(priority_queue))
    BY <1>1 DEF CallEnqueue
  <2>2. priority_queue # <<>>
    BY DpAssumption DEF WorkersQueue
  <2> QED BY <2>1, <2>2, HeadToBack DEF WorkersQueue
<1>2. ASSUME NEW w \in Workers, RotateToFront(w) PROVE WorkersQueue'
  <2>1. priority_queue' = <<w>> \o RemoveFirst(priority_queue, w)
    BY <1>2 DEF RotateToFront
  <2> QED BY <2>1, FoundToFront DEF WorkersQueue
<1>3. CASE UNCHANGED priority_queue
  BY <1>3 DEF WorkersQueue
<1>4. ASSUME NEW w \in Workers, WorkerStep(w) PROVE WorkersQueue'
  BY <1>2, <1>3, <1>4
  DEF WorkerStep, Acquire, Take, SubtractUnassigned, TaskEnds, SubtractInFlight, CheckUnassigned,
      InspectInFlight, StoreComplete, NotifyOne, TestStop, lists
<1>5. ASSUME NEW t \in Threads, \/ EnqueueStep(t) \/ CallWait(t) \/ CallClear(t) \/ WaitStep(t) \/ ClearStep(t)
      PROVE  WorkersQueue'
  BY <1>3, <1>5
  DEF EnqueueStep, AddUnassigned, AddInFlight, ResetComplete, PushBack, Release, CallWait, CallClear, WaitStep,
      LoadInFlight, AtomicWait, RequestStop, ReleaseStop, Join, ClearStep, ClearList, ClearInFlight,
      ClearUnassigned, lists
<1> QED BY <1>1, <1>3, <1>4, <1>5 DEF Next, CallStep, Threads, vars, lists

LEMMA TypesInit == Init => Types /\ HandsFull /\ Sleepers
<1> SUFFICES ASSUME Init PROVE Types /\ HandsFull /\ Sleepers
  OBVIOUS
<1>1. Types
  <2>1. tasks \in [Workers -> Seq(Tasks)]
    BY DEF Init
  <2>2. /\ arg \in [Threads -> Tasks \cup {NoTask}] /\ slot \in [Threads -> Workers]
        /\ removed \in [Threads -> SUBSET Tasks] /\ call \in [Threads -> CallPCs]
    BY WorkersAreNumbers DEF Init, CallPCs
  <2>3. /\ wpc \in [Workers -> WorkerPCs] /\ j \in [Workers -> Workers]
        /\ held \in [Workers -> Tasks \cup {NoTask}]
    BY WorkersAreNumbers DEF Init, WorkerPCs
  <2> QED BY <2>1, <2>2, <2>3 DEF Init, Types
<1>2. HandsFull
  BY EmptyList DEF Init, HandsFull, EnqueuePCs, BusyPCs
<1> QED BY <1>1, <1>2 DEF Init, Sleepers

(* The tasks of a list that a worker or clear_tasks shortens.              *)
LEMMA TakenFrom ==
    ASSUME Types, HandsFull, NEW w \in Workers, Take(w), tasks[Victim(w)] # <<>>
    PROVE  /\ held'[w] \in ToSet(tasks[Victim(w)]) /\ Victim(w) \in Workers
           /\ held' = [held EXCEPT ![w] = held'[w]] /\ held'[w] \in Tasks
           /\ \E list \in Seq(Tasks) : /\ tasks' = [tasks EXCEPT ![Victim(w)] = list] /\ IsInjective(list)
                                       /\ ToSet(list) = ToSet(tasks[Victim(w)]) \ {held'[w]}
<1>1. Victim(w) \in Workers
  BY VictimIsWorker DEF Types
<1>2. PICK s \in Seq(Tasks) : s = tasks[Victim(w)] /\ IsInjective(s)
  BY <1>1 DEF Types, HandsFull
<1>3. /\ held' = [held EXCEPT ![w] = IF j[w] = 0 THEN Head(s) ELSE Last(s)]
      /\ tasks' = [tasks EXCEPT ![Victim(w)] = IF j[w] = 0 THEN Tail(s) ELSE Front(s)]
  BY <1>2 DEF Take
<1>4. CASE j[w] = 0
  <2>1. /\ Head(s) \in Tasks /\ Tail(s) \in Seq(Tasks) /\ IsInjective(Tail(s))
        /\ ToSet(Tail(s)) = ToSet(s) \ {Head(s)} /\ Head(s) \in ToSet(s)
    BY <1>2, TailLeaves
  <2>2. held' = [held EXCEPT ![w] = Head(s)] /\ tasks' = [tasks EXCEPT ![Victim(w)] = Tail(s)]
    BY <1>3, <1>4
  <2>3. held'[w] = Head(s)
    BY <2>2 DEF Types
  <2> QED BY <1>1, <1>2, <2>1, <2>2, <2>3
<1>5. CASE j[w] # 0
  <2>1. /\ Last(s) \in Tasks /\ Front(s) \in Seq(Tasks) /\ IsInjective(Front(s))
        /\ ToSet(Front(s)) = ToSet(s) \ {Last(s)} /\ Last(s) \in ToSet(s)
    BY <1>2, FrontLeaves
  <2>2. held' = [held EXCEPT ![w] = Last(s)] /\ tasks' = [tasks EXCEPT ![Victim(w)] = Front(s)]
    BY <1>3, <1>5
  <2>3. held'[w] = Last(s)
    BY <2>2 DEF Types
  <2> QED BY <1>1, <1>2, <2>1, <2>2, <2>3
<1> QED BY <1>4, <1>5
LEMMA TypesStep == Types /\ HandsFull /\ WorkersQueue /\ [Next]_vars => Types'
<1> SUFFICES ASSUME Types, HandsFull, WorkersQueue, [Next]_vars PROVE Types'
  OBVIOUS
<1>w. Workers \subseteq Threads /\ 0 \in Workers
  BY WorkersAreNumbers
<1>1. ASSUME NEW w \in Workers, WorkerStep(w) PROVE Types'
  <2>1. UNCHANGED <<call, arg, slot, removed, fresh, cleared>>
    BY <1>1
    DEF WorkerStep, Acquire, Take, SubtractUnassigned, TaskEnds, SubtractInFlight, CheckUnassigned,
        RotateToFront, InspectInFlight, StoreComplete, NotifyOne, TestStop, calls, ghosts
  <2>2. wpc' \in [Workers -> WorkerPCs]
    BY <1>1
    DEF WorkerStep, Acquire, Take, SubtractUnassigned, TaskEnds, SubtractInFlight, CheckUnassigned,
        RotateToFront, InspectInFlight, StoreComplete, NotifyOne, TestStop, WorkerGoesTo, WorkerPCs, Types
  <2>3. /\ signal' \in [Workers -> {0, 1}] /\ complete' \in BOOLEAN
        /\ stop' \in [Workers -> BOOLEAN]
    BY <1>1
    DEF WorkerStep, Acquire, Take, SubtractUnassigned, TaskEnds, SubtractInFlight, CheckUnassigned,
        RotateToFront, InspectInFlight, StoreComplete, NotifyOne, TestStop, lists, counters, Types
  <2>e. executions' \in [Tasks -> Nat]
    <3>1. executions' = executions \/ executions' = [executions EXCEPT ![held[w]] = @ + 1]
      BY <1>1
      DEF WorkerStep, Acquire, Take, SubtractUnassigned, TaskEnds, SubtractInFlight, CheckUnassigned,
          RotateToFront, InspectInFlight, StoreComplete, NotifyOne, TestStop
    <3> QED BY <3>1 DEF Types
  <2>4. j' \in [Workers -> Workers]
    BY <1>1, <1>w, VictimIsWorker
    DEF WorkerStep, Acquire, Take, SubtractUnassigned, TaskEnds, SubtractInFlight, CheckUnassigned,
        RotateToFront, InspectInFlight, StoreComplete, NotifyOne, TestStop, Types
  <2>5. held' \in [Workers -> Tasks \cup {NoTask}] /\ tasks' \in [Workers -> Seq(Tasks)]
    <3>1. CASE Take(w) /\ tasks[Victim(w)] # <<>>
      BY <3>1, TakenFrom DEF Types
    <3>2. CASE Take(w) /\ tasks[Victim(w)] = <<>>
      BY <3>2 DEF Take, Types
    <3>3. CASE ~Take(w)
      BY <1>1, <3>3
      DEF WorkerStep, Acquire, SubtractUnassigned, TaskEnds, SubtractInFlight, CheckUnassigned,
          RotateToFront, InspectInFlight, StoreComplete, NotifyOne, TestStop, lists, Types
    <3> QED BY <3>1, <3>2, <3>3
  <2> QED BY <2>1, <2>2, <2>3, <2>4, <2>5, <2>e DEF Types
<1>2. ASSUME NEW t \in Threads,
             \/ EnqueueStep(t) \/ CallWait(t) \/ CallClear(t) \/ WaitStep(t) \/ ClearStep(t)
             \/ \E task \in Tasks : CallEnqueue(t, task)
      PROVE  Types'
  <2>1. UNCHANGED <<wpc, j, held, executions>>
    BY <1>2
    DEF EnqueueStep, AddUnassigned, AddInFlight, ResetComplete, PushBack, Release, CallEnqueue, CallWait,
        CallClear, WaitStep, LoadInFlight, AtomicWait, RequestStop, ReleaseStop, Join, ClearStep, ClearList,
        ClearInFlight, ClearUnassigned, workers
  <2>2. call' \in [Threads -> CallPCs]
    BY <1>2
    DEF EnqueueStep, AddUnassigned, AddInFlight, ResetComplete, PushBack, Release, CallEnqueue, CallWait,
        CallClear, WaitStep, LoadInFlight, AtomicWait, RequestStop, ReleaseStop, Join, ClearStep, ClearList,
        ClearInFlight, ClearUnassigned, calls, CallGoesTo, SleepOf, CallPCs, Types
  <2>3. slot' \in [Threads -> Workers]
    <3>1. ASSUME NEW task \in Tasks, CallEnqueue(t, task) PROVE slot' \in [Threads -> Workers]
      <4>1. priority_queue # <<>>
        BY DpAssumption DEF WorkersQueue
      <4>2. Head(priority_queue) \in Workers
        BY <4>1, HeadTailProperties DEF WorkersQueue
      <4> QED BY <3>1, <4>2 DEF CallEnqueue, Types
    <3> QED
      BY <1>2, <1>w, <3>1
      DEF EnqueueStep, AddUnassigned, AddInFlight, ResetComplete, PushBack, Release, CallWait,
          CallClear, WaitStep, LoadInFlight, AtomicWait, RequestStop, ReleaseStop, Join, ClearStep, ClearList,
          ClearInFlight, ClearUnassigned, Types
  <2>4. /\ signal' \in [Workers -> {0, 1}] /\ complete' \in BOOLEAN
        /\ stop' \in [Workers -> BOOLEAN] /\ arg' \in [Threads -> Tasks \cup {NoTask}]
    BY <1>2
    DEF EnqueueStep, AddUnassigned, AddInFlight, ResetComplete, PushBack, Release, CallEnqueue, CallWait,
        CallClear, WaitStep, LoadInFlight, AtomicWait, RequestStop, ReleaseStop, Join, ClearStep, ClearList,
        ClearInFlight, ClearUnassigned, lists, counters, workers, Types
  <2>5. tasks' \in [Workers -> Seq(Tasks)]
    <3>1. CASE PushBack(t)
      <4>1. slot[t] \in Workers /\ arg[t] \in Tasks
        BY <3>1 DEF Types, HandsFull, PushBack, EnqueuePCs
      <4>2. Append(tasks[slot[t]], arg[t]) \in Seq(Tasks)
        BY <4>1 DEF Types
      <4> QED BY <3>1, <4>2 DEF PushBack, Types
    <3>2. CASE ClearList(t)
      <4>1. PICK list : list = <<>> /\ list \in Seq(Tasks)
        <5>1. <<>> \in Seq(Tasks)
          OBVIOUS
        <5> QED BY <5>1
      <4>2. tasks' = [tasks EXCEPT ![slot[t]] = list]
        BY <3>2, <4>1 DEF ClearList
      <4>3. tasks \in [Workers -> Seq(Tasks)]
        BY DEF Types
      <4> QED BY <4>1, <4>2, <4>3
    <3>3. CASE ~PushBack(t) /\ ~ClearList(t)
      BY <1>2, <3>3
      DEF EnqueueStep, AddUnassigned, AddInFlight, ResetComplete, Release, CallEnqueue, CallWait,
          CallClear, WaitStep, LoadInFlight, AtomicWait, RequestStop, ReleaseStop, Join, ClearStep,
          ClearInFlight, ClearUnassigned, lists, Types
    <3> QED BY <3>1, <3>2, <3>3
  <2>6. removed' \in [Threads -> SUBSET Tasks]
    <3>1. ToSet(tasks[slot[t]]) \subseteq Tasks
      BY ListFacts DEF Types
    <3>2. CASE ClearList(t)
      BY <3>1, <3>2 DEF ClearList, Types
    <3>3. CASE ~ClearList(t)
      BY <1>2, <3>3
      DEF EnqueueStep, AddUnassigned, AddInFlight, ResetComplete, PushBack, Release, CallEnqueue, CallWait,
          CallClear, WaitStep, LoadInFlight, AtomicWait, RequestStop, ReleaseStop, Join, ClearStep,
          ClearInFlight, ClearUnassigned, calls, Types
    <3> QED BY <3>2, <3>3
  <2>7. fresh' \subseteq Tasks /\ cleared' \subseteq Tasks
    BY <1>2
    DEF EnqueueStep, AddUnassigned, AddInFlight, ResetComplete, PushBack, Release, CallEnqueue, CallWait,
        CallClear, WaitStep, LoadInFlight, AtomicWait, RequestStop, ReleaseStop, Join, ClearStep, ClearList,
        ClearInFlight, ClearUnassigned, ghosts, Types
  <2> QED BY <2>1, <2>2, <2>3, <2>4, <2>5, <2>6, <2>7 DEF Types
<1>3. CASE UNCHANGED vars
  BY <1>3 DEF vars, lists, counters, workers, calls, ghosts, Types
<1> QED BY <1>1, <1>2, <1>3, <1>w DEF Next, CallStep, Threads
LEMMA SleepersStep == Types /\ Sleepers /\ [Next]_vars => Sleepers'
<1> SUFFICES ASSUME Types, Sleepers, [Next]_vars PROVE Sleepers'
  OBVIOUS
<1>c. call \in [Threads -> CallPCs] /\ Callers \subseteq Threads
  BY DEF Types, Threads
<1>1. ASSUME NEW w \in Workers, WorkerStep(w) PROVE Sleepers'
  <2>1. call' = call /\ asleep' \subseteq asleep /\ forgotten' \subseteq forgotten \cup asleep
    BY <1>1
    DEF WorkerStep, Acquire, Take, SubtractUnassigned, TaskEnds, SubtractInFlight, CheckUnassigned,
        RotateToFront, InspectInFlight, StoreComplete, NotifyOne, TestStop, calls, counters, ghosts
  <2> QED BY <2>1 DEF Sleepers, Waiting
(* A thread that does not wait goes on with its call.                      *)
<1>2. ASSUME UNCHANGED <<asleep, forgotten>>, NEW t \in Threads, NEW label,
             call' = [call EXCEPT ![t] = label] \/ call' = call,
             call[t] \notin Waiting
      PROVE  Sleepers'
  <2>1. \A c \in asleep \cup forgotten : c # t /\ call'[c] = call[c]
    BY <1>2, <1>c DEF Sleepers, Waiting
  <2> QED BY <1>2, <2>1 DEF Sleepers
<1>3. ASSUME NEW t \in Threads, EnqueueStep(t) \/ \E task \in Tasks : CallEnqueue(t, task)
      PROVE  Sleepers'
  BY <1>2, <1>3
  DEF EnqueueStep, AddUnassigned, AddInFlight, ResetComplete, PushBack, Release, CallEnqueue, CallGoesTo,
      MayCall, counters, ghosts, Waiting
<1>4. ASSUME NEW c \in Callers,
             \/ CallWait(c) \/ CallClear(c) \/ RequestStop(c) \/ ReleaseStop(c) \/ Join(c)
             \/ ClearStep(c)
      PROVE  Sleepers'
  BY <1>2, <1>4, <1>c
  DEF CallWait, CallClear, RequestStop, ReleaseStop, Join, ClearStep, ClearList, ClearInFlight,
      ClearUnassigned, CallGoesTo, MayCall, counters, ghosts, Waiting
<1>5. ASSUME NEW c \in Callers, LoadInFlight(c)
      PROVE  Sleepers'
  <2>1. /\ asleep' = asleep /\ call[c] \in {"wait", "destroy"}
        /\ \/ /\ call' = [call EXCEPT ![c] = SleepOf(call[c])] /\ forgotten' = forgotten
           \/ /\ \E label : call' = [call EXCEPT ![c] = label]
              /\ forgotten' = forgotten \ {c}
    BY <1>5 DEF LoadInFlight, CallGoesTo, counters
  <2>2. c \notin asleep
    BY <2>1 DEF Sleepers
  <2> QED BY <1>c, <2>1, <2>2 DEF Sleepers, SleepOf, Waiting
<1>6. ASSUME NEW c \in Callers, AtomicWait(c)
      PROVE  Sleepers'
  <2>1. /\ call[c] \in {"wait sleep", "destroy sleep"} /\ c \notin asleep /\ forgotten' = forgotten
        /\ \/ /\ call' = [call EXCEPT ![c] = IF call[c] = "wait sleep" THEN "wait" ELSE "destroy"]
              /\ asleep' = asleep
           \/ call' = call /\ asleep' = asleep \cup {c}
    BY <1>6 DEF AtomicWait, CallGoesTo, ghosts
  <2> QED BY <1>c, <2>1 DEF Sleepers, Waiting
<1>7. CASE UNCHANGED vars
  BY <1>7 DEF vars, counters, calls, ghosts, Sleepers
<1> QED
  BY <1>1, <1>3, <1>4, <1>5, <1>6, <1>7, WorkersAreNumbers DEF Next, CallStep, WaitStep, Threads

-----------------------------------------------------------------------------
(* Every task is of one kind and, unless it has not begun or has ended, in *)
(* the hands of one thread: the argument of its enqueue_task, in its       *)
(* queue, run by it, or removed by its clear_tasks.                        *)
Kinds == {"fresh", "argument", "listed", "held", "removed", "done", "cleared"}

PlaceOf(task, kind, owner) ==
    /\ kind \in {"listed", "held"} => owner \in Workers
    /\ task \in fresh <=> kind = "fresh"
    /\ \A t \in Threads : arg[t] = task <=> kind = "argument" /\ owner = t
    /\ \A w \in Workers : task \in ToSet(tasks[w]) <=> kind = "listed" /\ owner = w
    /\ \A w \in Workers : held[w] = task <=> kind = "held" /\ owner = w
    /\ \A t \in Threads : task \in removed[t] <=> kind = "removed" /\ owner = t
    /\ executions[task] # 0 <=> kind = "done" \/ (kind = "held" /\ wpc[owner] = "ran")
    /\ task \in cleared <=>
           kind = "cleared" \/ (kind = "removed" /\ call[owner] = "subtract unassigned")

Placed == \A task \in Tasks : \E kind \in Kinds, owner \in Threads : PlaceOf(task, kind, owner)

(* What the place of a task tells.                                         *)
StatusAt(kind, owner) ==
    CASE kind = "fresh" -> "new"
      [] kind = "argument" -> IF call[owner] \in {"reset", "push"} THEN "queued" ELSE "new"
      [] kind = "listed" -> "queued"
      [] kind = "held" -> "running"
      [] kind = "removed" -> IF call[owner] = "subtract unassigned" THEN "cleared" ELSE "queued"
      [] OTHER -> kind

Unassigned(task) ==
    \/ \E t \in Threads : arg[t] = task /\ call[t] # "add unassigned"
    \/ \E w \in Workers : task \in ToSet(tasks[w])
    \/ \E w \in Workers : held[w] = task /\ wpc[w] = "assigned"
    \/ \E t \in Threads : task \in removed[t]

UnassignedAt(kind, owner) ==
    \/ kind = "argument" /\ call[owner] # "add unassigned"
    \/ kind = "listed"
    \/ kind = "held" /\ wpc[owner] = "assigned"
    \/ kind = "removed"

PlacesTell ==
    \A task \in Tasks, kind \in Kinds, owner \in Threads :
        PlaceOf(task, kind, owner) =>
            /\ StatusOf(task) = StatusAt(kind, owner)
            /\ Unassigned(task) <=> UnassignedAt(kind, owner)

LEMMA PlacesDoTell == Types => PlacesTell
<1> SUFFICES ASSUME Types, NEW task \in Tasks, NEW kind \in Kinds, NEW owner \in Threads,
                    PlaceOf(task, kind, owner)
             PROVE  /\ StatusOf(task) = StatusAt(kind, owner)
                    /\ Unassigned(task) <=> UnassignedAt(kind, owner)
  BY DEF PlacesTell
<1>1. Unassigned(task) <=> UnassignedAt(kind, owner)
  BY DEF PlaceOf, Unassigned, UnassignedAt
<1>2. Held(task) <=> kind = "held"
  BY DEF PlaceOf, Held
<1>3. executions[task] > 0 <=> executions[task] # 0
  BY DEF Types
<1>4. Counted(task) <=>
          \/ kind = "argument" /\ call[owner] \in {"reset", "push"}
          \/ kind = "listed"
          \/ kind = "removed" /\ call[owner] # "subtract unassigned"
  BY DEF PlaceOf, Counted
<1>5. ~Held(task) => (executions[task] > 0 <=> kind = "done")
  BY <1>2, <1>3 DEF PlaceOf
<1>6. task \in cleared <=> kind = "cleared" \/ (kind = "removed" /\ call[owner] = "subtract unassigned")
  BY DEF PlaceOf
<1>7. CASE kind = "held"
  <2>1. StatusOf(task) = "running"
    BY <1>2, <1>4, <1>5, <1>6, <1>7 DEF StatusOf
  <2>2. StatusAt(kind, owner) = "running"
    BY <1>7 DEF StatusAt
  <2> QED BY <1>1, <2>1, <2>2
<1>8. CASE kind = "done"
  <2>1. StatusOf(task) = "done"
    BY <1>2, <1>4, <1>5, <1>6, <1>8 DEF StatusOf
  <2>2. StatusAt(kind, owner) = "done"
    BY <1>8 DEF StatusAt
  <2> QED BY <1>1, <2>1, <2>2
<1>9. CASE task \in cleared
  <2>1. StatusOf(task) = "cleared"
    BY <1>2, <1>4, <1>5, <1>6, <1>9 DEF StatusOf
  <2>2. StatusAt(kind, owner) = "cleared"
    BY <1>6, <1>9 DEF StatusAt
  <2> QED BY <1>1, <2>1, <2>2
<1>10. CASE kind \in {"argument", "listed", "removed", "fresh"} /\ task \notin cleared
  <2>1. ~Held(task) /\ ~(executions[task] > 0)
    BY <1>2, <1>5, <1>10
  <2>2. StatusOf(task) = IF Counted(task) THEN "queued" ELSE "new"
    BY <1>10, <2>1 DEF StatusOf
  <2>3. StatusAt(kind, owner) = IF Counted(task) THEN "queued" ELSE "new"
    BY <1>4, <1>6, <1>10 DEF StatusAt
  <2> QED BY <1>1, <2>2, <2>3
<1> QED BY <1>1, <1>6, <1>7, <1>8, <1>9, <1>10 DEF Kinds
-----------------------------------------------------------------------------
(* A step moves a set of tasks from one status to another and leaves the   *)
(* other tasks where they are.                                             *)
HasPlace(task) == \E kind \in Kinds, owner \in Threads : PlaceOf(task, kind, owner)

Is(task, status, counts) == HasPlace(task) /\ StatusOf(task) = status /\ (Unassigned(task) <=> counts = "unassigned")

Keeps(task) ==
    HasPlace(task)' /\ StatusOf(task)' = StatusOf(task) /\ (Unassigned(task)' <=> Unassigned(task))

Unmoved(task) ==
    /\ task \in fresh' <=> task \in fresh
    /\ task \in cleared' <=> task \in cleared
    /\ executions'[task] = executions[task]
    /\ \A t \in Threads : arg'[t] = task <=> arg[t] = task
    /\ \A w \in Workers : task \in ToSet(tasks'[w]) <=> task \in ToSet(tasks[w])
    /\ \A w \in Workers : held'[w] = task <=> held[w] = task
    /\ \A t \in Threads : task \in removed'[t] <=> task \in removed[t]
    /\ \A t \in Threads : arg[t] = task =>
           /\ call'[t] = "add unassigned" <=> call[t] = "add unassigned"
           /\ call'[t] \in {"reset", "push"} <=> call[t] \in {"reset", "push"}
    /\ \A w \in Workers : held[w] = task =>
           /\ wpc'[w] = "assigned" <=> wpc[w] = "assigned"
           /\ wpc'[w] = "ran" <=> wpc[w] = "ran"
    /\ \A t \in Threads : task \in removed[t] =>
           (call'[t] = "subtract unassigned" <=> call[t] = "subtract unassigned")

LEMMA UnmovedKeeps ==
    ASSUME Placed, PlacesTell, PlacesTell', NEW task \in Tasks, Unmoved(task)
    PROVE  Keeps(task)
<1>1. PICK kind \in Kinds, owner \in Threads : PlaceOf(task, kind, owner)
  BY DEF Placed
<1>2. /\ kind = "argument" => arg[owner] = task
      /\ kind = "held" => owner \in Workers /\ held[owner] = task
      /\ kind = "removed" => task \in removed[owner]
  BY <1>1 DEF PlaceOf
<1>3. PlaceOf(task, kind, owner)'
  BY <1>1, <1>2 DEF PlaceOf, Unmoved
<1>4. StatusAt(kind, owner)' = StatusAt(kind, owner)
  BY <1>2 DEF StatusAt, Unmoved
<1>5. UnassignedAt(kind, owner)' <=> UnassignedAt(kind, owner)
  BY <1>2 DEF UnassignedAt, Unmoved
<1> QED BY <1>1, <1>3, <1>4, <1>5 DEF PlacesTell, Keeps, HasPlace

(* The steps that move no task.                                            *)
StillStep ==
    \/ \E w \in Workers :
           \/ Acquire(w) \/ (Take(w) /\ tasks[Victim(w)] = <<>>) \/ CheckUnassigned(w) \/ RotateToFront(w)
           \/ InspectInFlight(w) \/ StoreComplete(w) \/ NotifyOne(w) \/ TestStop(w)
    \/ \E t \in Threads : ResetComplete(t) \/ Release(t)
    \/ \E c \in Callers :
           \/ CallWait(c) \/ LoadInFlight(c) \/ AtomicWait(c) \/ RequestStop(c) \/ ReleaseStop(c) \/ Join(c)
           \/ CallClear(c)
    \/ UNCHANGED vars

LEMMA StillTasks ==
    ASSUME Types, HandsFull, StillStep
    PROVE  /\ \A task \in Tasks : Unmoved(task)
           /\ UNCHANGED <<tasks, in_flight, unassigned>>
<1>1. ASSUME NEW w \in Workers,
             \/ Acquire(w) \/ (Take(w) /\ tasks[Victim(w)] = <<>>) \/ CheckUnassigned(w) \/ RotateToFront(w)
             \/ InspectInFlight(w) \/ StoreComplete(w) \/ NotifyOne(w) \/ TestStop(w)
      PROVE  /\ \A task \in Tasks : Unmoved(task)
             /\ UNCHANGED <<tasks, in_flight, unassigned>>
  <2>1. UNCHANGED <<tasks, in_flight, unassigned, held, executions, call, arg, removed, fresh, cleared>>
    BY <1>1
    DEF Acquire, Take, CheckUnassigned, RotateToFront, InspectInFlight, StoreComplete, NotifyOne, TestStop,
        lists, counters, calls, ghosts
  <2>2. wpc[w] \notin BusyPCs /\ \E label \in WorkerPCs \ BusyPCs : wpc' = [wpc EXCEPT ![w] = label]
    BY <1>1
    DEF Acquire, Take, CheckUnassigned, RotateToFront, InspectInFlight, StoreComplete, NotifyOne, TestStop,
        WorkerGoesTo, WorkerPCs, BusyPCs
  <2>3. \A v \in Workers : wpc'[v] = wpc[v] \/ (wpc[v] \notin BusyPCs /\ wpc'[v] \notin BusyPCs)
    BY <2>2 DEF Types
  <2> QED BY <2>1, <2>3 DEF Unmoved, BusyPCs
<1>2. ASSUME NEW t \in Threads,
             \/ ResetComplete(t) \/ Release(t)
             \/ CallWait(t) \/ LoadInFlight(t) \/ AtomicWait(t) \/ RequestStop(t) \/ ReleaseStop(t) \/ Join(t)
             \/ CallClear(t)
      PROVE  /\ \A task \in Tasks : Unmoved(task)
             /\ UNCHANGED <<tasks, in_flight, unassigned>>
  <2>1. UNCHANGED <<tasks, in_flight, unassigned, held, wpc, executions, arg, removed, fresh, cleared>>
    BY <1>2
    DEF ResetComplete, Release, CallWait, LoadInFlight, AtomicWait, RequestStop, ReleaseStop, Join, CallClear,
        lists, counters, workers, calls, ghosts
  <2>2. \/ call' = call
        \/ /\ call[t] = "reset"
           /\ call' = [call EXCEPT ![t] = "push"]
        \/ /\ call[t] \notin EnqueuePCs \cup {"subtract unassigned"}
           /\ \E label \in CallPCs \ (EnqueuePCs \cup {"subtract unassigned"}) :
                  call' = [call EXCEPT ![t] = label]
    BY <1>2
    DEF ResetComplete, Release, CallWait, LoadInFlight, AtomicWait, RequestStop, ReleaseStop, Join, CallClear,
        CallGoesTo, CallPCs, EnqueuePCs, MayCall, SleepOf
  <2>3. \A d \in Threads :
            /\ call'[d] = "add unassigned" <=> call[d] = "add unassigned"
            /\ call'[d] \in {"reset", "push"} <=> call[d] \in {"reset", "push"}
            /\ call'[d] = "subtract unassigned" <=> call[d] = "subtract unassigned"
    BY <2>2 DEF Types, EnqueuePCs
  <2> QED BY <2>1, <2>3 DEF Unmoved
<1>3. CASE UNCHANGED vars
  BY <1>3 DEF vars, lists, counters, workers, calls, ghosts, Unmoved
<1> QED BY <1>1, <1>2, <1>3 DEF StillStep, Threads
(* The tasks of S had the first status and get the second.                 *)
Moved(S, from, counts, to, countsThen) ==
    /\ \A task \in S : Is(task, from, counts) /\ Is(task, to, countsThen)'
    /\ \A task \in Tasks \ S : Keeps(task)

TellInv == Types /\ HandsFull /\ Placed /\ PlacesTell

LEMMA TakeMoves ==
    ASSUME TellInv, PlacesTell', NEW w \in Workers, Take(w), tasks[Victim(w)] # <<>>
    PROVE  /\ \E item \in Tasks : Moved({item}, "queued", "unassigned", "running", "unassigned")
           /\ \A v \in Workers : IsInjective(tasks'[v])
           /\ UNCHANGED <<in_flight, unassigned, call, forgotten>>
<1>t. Types /\ HandsFull /\ Placed /\ PlacesTell
  BY DEF TellInv
<1>1. PICK item \in Tasks : item = held'[w]
  BY <1>t, TakenFrom
<1>2. PICK victim \in Workers : victim = Victim(w) /\ item \in ToSet(tasks[victim])
  BY <1>t, <1>1, TakenFrom
<1>3. PICK list \in Seq(Tasks) : /\ tasks' = [tasks EXCEPT ![victim] = list] /\ IsInjective(list)
                                 /\ ToSet(list) = ToSet(tasks[victim]) \ {item}
  BY <1>t, <1>1, <1>2, TakenFrom
<1>4. held' = [held EXCEPT ![w] = item]
  BY <1>t, <1>1, TakenFrom
<1>5. /\ wpc[w] = "take" /\ wpc' = [wpc EXCEPT ![w] = "assigned"]
      /\ UNCHANGED <<in_flight, unassigned, executions, call, arg, removed, fresh, cleared, forgotten>>
  BY DEF Take, WorkerGoesTo, counters, calls, ghosts
<1>6. held[w] = NoTask
  BY <1>t, <1>5 DEF HandsFull, BusyPCs
<1>7. \A v \in Workers : ToSet(tasks'[v]) = IF v = victim THEN ToSet(tasks[v]) \ {item} ELSE ToSet(tasks[v])
  BY <1>t, <1>3 DEF Types
<1>8. \A v \in Workers : wpc'[v] = IF v = w THEN "assigned" ELSE wpc[v]
  BY <1>t, <1>5 DEF Types
<1>9. \A v \in Workers : held'[v] = IF v = w THEN item ELSE held[v]
  BY <1>t, <1>4 DEF Types
<1>10. PlaceOf(item, "listed", victim)
  <2>1. PICK kind \in Kinds, owner \in Threads : PlaceOf(item, kind, owner)
    BY <1>t DEF Placed
  <2>2. kind = "listed" /\ owner = victim
    BY <1>2, <2>1 DEF PlaceOf
  <2> QED BY <2>1, <2>2
<1>11. PlaceOf(item, "held", w)'
  <2>1. \A v \in Workers : held'[v] = item <=> v = w
    BY <1>9, <1>10 DEF PlaceOf
  <2>2. \A v \in Workers : item \notin ToSet(tasks'[v])
    BY <1>7, <1>10 DEF PlaceOf
  <2>3. /\ item \notin fresh' /\ item \notin cleared' /\ executions'[item] = 0
        /\ \A t \in Threads : arg'[t] # item /\ item \notin removed'[t]
    BY <1>5, <1>10 DEF PlaceOf
  <2>4. wpc'[w] = "assigned"
    BY <1>8
  <2> QED BY <2>1, <2>2, <2>3, <2>4 DEF PlaceOf
<1>12. Is(item, "queued", "unassigned")
  BY <1>t, <1>10, WorkersAreNumbers DEF PlacesTell, Is, HasPlace, StatusAt, UnassignedAt, Kinds
<1>13. Is(item, "running", "unassigned")'
  BY <1>8, <1>11, WorkersAreNumbers DEF PlacesTell, Is, HasPlace, StatusAt, UnassignedAt, Kinds
<1>14. ASSUME NEW task \in Tasks \ {item} PROVE Keeps(task)
  <2>1. Unmoved(task)
    BY <1>5, <1>6, <1>7, <1>8, <1>9, DpAssumption DEF Unmoved
  <2> QED BY <1>t, <2>1, UnmovedKeeps
<1>15. \A v \in Workers : IsInjective(tasks'[v])
  BY <1>t, <1>3 DEF Types, HandsFull
<1> QED BY <1>5, <1>12, <1>13, <1>14, <1>15 DEF Moved

(* A worker that runs its task.                                            *)
LEMMA RunningMoves ==
    ASSUME TellInv, PlacesTell', NEW w \in Workers,
           SubtractUnassigned(w) \/ TaskEnds(w) \/ SubtractInFlight(w)
    PROVE  /\ held[w] \in Tasks /\ UNCHANGED <<tasks, call, forgotten>>
           /\ SubtractUnassigned(w) =>
                  /\ Moved({held[w]}, "running", "unassigned", "running", "assigned")
                  /\ unassigned' = unassigned - 1 /\ in_flight' = in_flight
           /\ TaskEnds(w) =>
                  /\ Moved({held[w]}, "running", "assigned", "running", "assigned")
                  /\ UNCHANGED <<unassigned, in_flight>>
           /\ SubtractInFlight(w) =>
                  /\ Moved({held[w]}, "running", "assigned", "done", "assigned")
                  /\ in_flight' = in_flight - 1 /\ unassigned' = unassigned
<1>t. Types /\ HandsFull /\ Placed /\ PlacesTell
  BY DEF TellInv
<1>1. wpc[w] \in BusyPCs
  BY DEF SubtractUnassigned, TaskEnds, SubtractInFlight, BusyPCs
<1>2. PICK item \in Tasks : item = held[w]
  BY <1>t, <1>1 DEF HandsFull, Types
<1>3. UNCHANGED <<tasks, call, arg, removed, fresh, cleared, forgotten>>
  BY DEF SubtractUnassigned, TaskEnds, SubtractInFlight, lists, calls, ghosts
<1>4. PlaceOf(item, "held", w)
  <2>1. PICK kind \in Kinds, owner \in Threads : PlaceOf(item, kind, owner)
    BY <1>t DEF Placed
  <2>2. kind = "held" /\ owner = w
    BY <1>2, <2>1 DEF PlaceOf
  <2> QED BY <2>1, <2>2
<1>5. Is(item, "running", IF wpc[w] = "assigned" THEN "unassigned" ELSE "assigned")
  BY <1>t, <1>4, WorkersAreNumbers DEF PlacesTell, Is, HasPlace, StatusAt, UnassignedAt, Kinds
<1>6. \A v \in Workers \ {w} : held[v] # item
  BY <1>4 DEF PlaceOf
(* The other tasks, whatever w does with its own.                          *)
<1>7. ASSUME \A v \in Workers \ {w} : wpc'[v] = wpc[v] /\ held'[v] = held[v],
             held'[w] \in {item, NoTask},
             \A task \in Tasks \ {item} : executions'[task] = executions[task]
      PROVE  \A task \in Tasks \ {item} : Keeps(task)
  <2>1. ASSUME NEW task \in Tasks \ {item} PROVE Unmoved(task)
    BY <1>2, <1>3, <1>7, DpAssumption DEF Unmoved
  <2> QED BY <1>t, <2>1, UnmovedKeeps
<1>8. CASE SubtractUnassigned(w)
  <2>1. /\ wpc[w] = "assigned" /\ wpc' = [wpc EXCEPT ![w] = "task"] /\ UNCHANGED <<held, executions>>
        /\ unassigned' = unassigned - 1 /\ in_flight' = in_flight
    BY <1>8 DEF SubtractUnassigned, WorkerGoesTo
  <2>2. \A v \in Workers : wpc'[v] = IF v = w THEN "task" ELSE wpc[v]
    BY <1>t, <2>1 DEF Types
  <2>3. PlaceOf(item, "held", w)'
    BY <1>3, <1>4, <2>1, <2>2 DEF PlaceOf
  <2>4. Is(item, "running", "assigned")'
    BY <2>2, <2>3, WorkersAreNumbers DEF PlacesTell, Is, HasPlace, StatusAt, UnassignedAt, Kinds
  <2>5. Is(item, "running", "unassigned")
    BY <1>5, <2>1 DEF Is
  <2>6. \A task \in Tasks \ {item} : Keeps(task)
    BY <1>2, <1>7, <2>1, <2>2
  <2> QED BY <1>2, <1>3, <2>1, <2>4, <2>5, <2>6 DEF Moved, TaskEnds, SubtractInFlight
<1>9. CASE TaskEnds(w)
  <2>1. /\ wpc[w] = "task" /\ wpc' = [wpc EXCEPT ![w] = "ran"] /\ held' = held
        /\ executions' = [executions EXCEPT ![item] = @ + 1]
        /\ UNCHANGED <<unassigned, in_flight>>
    BY <1>2, <1>9 DEF TaskEnds, WorkerGoesTo, counters
  <2>2. \A v \in Workers : wpc'[v] = IF v = w THEN "ran" ELSE wpc[v]
    BY <1>t, <2>1 DEF Types
  <2>3. \A task \in Tasks : executions'[task] = IF task = item THEN executions[task] + 1 ELSE executions[task]
    BY <1>t, <2>1 DEF Types
  <2>4. executions'[item] # 0
    BY <1>t, <2>3 DEF Types
  <2>5. PlaceOf(item, "held", w)'
    BY <1>3, <1>4, <2>1, <2>2, <2>4 DEF PlaceOf
  <2>6. Is(item, "running", "assigned")'
    BY <2>2, <2>5, WorkersAreNumbers DEF PlacesTell, Is, HasPlace, StatusAt, UnassignedAt, Kinds
  <2>7. Is(item, "running", "assigned")
    BY <1>5, <2>1 DEF Is
  <2>8. \A task \in Tasks \ {item} : Keeps(task)
    BY <1>2, <1>7, <2>1, <2>2, <2>3
  <2> QED BY <1>2, <1>3, <2>1, <2>6, <2>7, <2>8 DEF Moved, SubtractUnassigned, SubtractInFlight
<1>10. CASE SubtractInFlight(w)
  <2>1. /\ wpc[w] = "ran" /\ held' = [held EXCEPT ![w] = NoTask] /\ executions' = executions
        /\ \E label : wpc' = [wpc EXCEPT ![w] = label]
        /\ in_flight' = in_flight - 1 /\ unassigned' = unassigned
    BY <1>10 DEF SubtractInFlight, WorkerGoesTo
  <2>2. \A v \in Workers \ {w} : wpc'[v] = wpc[v]
    BY <1>t, <2>1 DEF Types
  <2>3. \A v \in Workers : held'[v] = IF v = w THEN NoTask ELSE held[v]
    BY <1>t, <2>1 DEF Types
  <2>4. PlaceOf(item, "done", w)'
    BY <1>3, <1>4, <1>6, <2>1, <2>3, DpAssumption DEF PlaceOf
  <2>5. Is(item, "done", "assigned")'
    BY <2>4, WorkersAreNumbers DEF PlacesTell, Is, HasPlace, StatusAt, UnassignedAt, Kinds
  <2>6. Is(item, "running", "assigned")
    BY <1>5, <2>1 DEF Is
  <2>7. \A task \in Tasks \ {item} : Keeps(task)
    BY <1>2, <1>7, <2>1, <2>2, <2>3
  <2> QED BY <1>2, <1>3, <2>1, <2>5, <2>6, <2>7 DEF Moved, SubtractUnassigned, TaskEnds
<1> QED BY <1>8, <1>9, <1>10
(* A task that is submitted.                                               *)
LEMMA SubmitMoves ==
    ASSUME TellInv, PlacesTell', NEW t \in Threads, NEW item \in Tasks, CallEnqueue(t, item)
    PROVE  /\ Moved({item}, "new", "assigned", "new", "assigned")
           /\ UNCHANGED <<tasks, in_flight, unassigned, forgotten>>
<1>t. Types /\ HandsFull /\ Placed /\ PlacesTell
  BY DEF TellInv
<1>1. /\ call[t] = "none" /\ item \in fresh /\ fresh' = fresh \ {item}
      /\ arg' = [arg EXCEPT ![t] = item] /\ call' = [call EXCEPT ![t] = "add unassigned"]
      /\ UNCHANGED <<tasks, in_flight, unassigned, held, wpc, executions, removed, cleared, forgotten>>
  BY DEF CallEnqueue, MayCall, CallGoesTo, counters, workers
<1>2. arg[t] = NoTask
  BY <1>t, <1>1 DEF HandsFull, EnqueuePCs
<1>3. \A d \in Threads : /\ arg'[d] = IF d = t THEN item ELSE arg[d]
                         /\ call'[d] = IF d = t THEN "add unassigned" ELSE call[d]
  BY <1>t, <1>1 DEF Types
<1>4. PICK owner \in Threads : PlaceOf(item, "fresh", owner)
  <2>1. PICK kind \in Kinds, owner \in Threads : PlaceOf(item, kind, owner)
    BY <1>t DEF Placed
  <2> QED BY <1>1, <2>1 DEF PlaceOf
<1>5. PlaceOf(item, "argument", t)'
  BY <1>1, <1>3, <1>4 DEF PlaceOf
<1>6. Is(item, "new", "assigned")
  BY <1>t, <1>4 DEF PlacesTell, Is, HasPlace, StatusAt, UnassignedAt, Kinds
<1>7. Is(item, "new", "assigned")'
  BY <1>3, <1>5 DEF PlacesTell, Is, HasPlace, StatusAt, UnassignedAt, Kinds
<1>8. ASSUME NEW task \in Tasks \ {item} PROVE Keeps(task)
  <2>1. task # NoTask /\ task # item
    BY DpAssumption
  <2>2. \A d \in Threads : arg'[d] = task <=> arg[d] = task
    BY <1>2, <1>3, <2>1
  <2>3. \A d \in Threads : arg[d] = task => call'[d] = call[d]
    BY <1>2, <1>3, <2>1
  <2>4. \A d \in Threads : call'[d] = "subtract unassigned" <=> call[d] = "subtract unassigned"
    <3>1. call[t] = "none" /\ \A d \in Threads : call'[d] = IF d = t THEN "add unassigned" ELSE call[d]
      BY <1>1, <1>3
    <3> QED BY <3>1
  <2>5. Unmoved(task)
    BY <1>1, <2>1, <2>2, <2>3, <2>4 DEF Unmoved
  <2> QED BY <1>t, <2>5, UnmovedKeeps
<1> QED BY <1>1, <1>6, <1>7, <1>8 DEF Moved

LEMMA ArgumentMoves ==
    ASSUME TellInv, PlacesTell', NEW t \in Threads, AddUnassigned(t) \/ AddInFlight(t) \/ PushBack(t)
    PROVE  /\ arg[t] \in Tasks /\ UNCHANGED forgotten
           /\ AddUnassigned(t) =>
                  /\ Moved({arg[t]}, "new", "assigned", "new", "unassigned")
                  /\ unassigned' = unassigned + 1 /\ UNCHANGED <<in_flight, tasks>>
           /\ AddInFlight(t) =>
                  /\ Moved({arg[t]}, "new", "unassigned", "queued", "unassigned")
                  /\ in_flight' = in_flight + 1 /\ UNCHANGED <<unassigned, tasks>>
           /\ PushBack(t) =>
                  /\ Moved({arg[t]}, "queued", "unassigned", "queued", "unassigned")
                  /\ UNCHANGED <<in_flight, unassigned>>
                  /\ \A w \in Workers : IsInjective(tasks'[w])
<1>t. Types /\ HandsFull /\ Placed /\ PlacesTell
  BY DEF TellInv
<1>1. call[t] \in EnqueuePCs
  BY DEF AddUnassigned, AddInFlight, PushBack, EnqueuePCs
<1>2. PICK item \in Tasks : item = arg[t]
  BY <1>t, <1>1 DEF HandsFull, Types
<1>3. UNCHANGED <<held, wpc, executions, removed, fresh, cleared, forgotten>>
  BY DEF AddUnassigned, AddInFlight, PushBack, workers, ghosts
<1>4. PlaceOf(item, "argument", t)
  <2>1. PICK kind \in Kinds, owner \in Threads : PlaceOf(item, kind, owner)
    BY <1>t DEF Placed
  <2>2. kind = "argument" /\ owner = t
    BY <1>2, <2>1 DEF PlaceOf
  <2> QED BY <2>1, <2>2
<1>5. Is(item, IF call[t] \in {"reset", "push"} THEN "queued" ELSE "new", 
         IF call[t] = "add unassigned" THEN "assigned" ELSE "unassigned")
  BY <1>t, <1>4 DEF PlacesTell, Is, HasPlace, StatusAt, UnassignedAt, Kinds
<1>6. \A d \in Threads : arg[d] = item <=> d = t
  BY <1>4 DEF PlaceOf
<1>7. \E label \in CallPCs : call' = [call EXCEPT ![t] = label] /\ label # "subtract unassigned"
  BY DEF AddUnassigned, AddInFlight, PushBack, CallGoesTo, CallPCs
<1>8. /\ \A d \in Threads \ {t} : call'[d] = call[d]
      /\ call'[t] # "subtract unassigned" /\ call[t] # "subtract unassigned"
  BY <1>t, <1>1, <1>7 DEF Types, EnqueuePCs
<1>9. ASSUME \A d \in Threads \ {t} : arg'[d] = arg[d], arg'[t] \in {item, NoTask},
             \A w \in Workers, task \in Tasks \ {item} : task \in ToSet(tasks'[w]) <=> task \in ToSet(tasks[w])
      PROVE  \A task \in Tasks \ {item} : Keeps(task)
  <2>1. ASSUME NEW task \in Tasks \ {item} PROVE Unmoved(task)
    BY <1>2, <1>3, <1>8, <1>9, DpAssumption DEF Unmoved
  <2> QED BY <1>t, <2>1, UnmovedKeeps
<1>10. CASE AddUnassigned(t)
  <2>1. /\ call[t] = "add unassigned" /\ call' = [call EXCEPT ![t] = "add in flight"]
        /\ unassigned' = unassigned + 1 /\ UNCHANGED <<in_flight, tasks, arg>>
    BY <1>10 DEF AddUnassigned, CallGoesTo, lists
  <2>2. call'[t] = "add in flight"
    BY <1>t, <2>1 DEF Types
  <2>3. PlaceOf(item, "argument", t)'
    BY <1>3, <1>4, <2>1 DEF PlaceOf
  <2>4. Is(item, "new", "unassigned")'
    BY <2>2, <2>3 DEF PlacesTell, Is, HasPlace, StatusAt, UnassignedAt, Kinds
  <2>5. Is(item, "new", "assigned")
    BY <1>5, <2>1 DEF Is
  <2>6. \A task \in Tasks \ {item} : Keeps(task)
    BY <1>2, <1>9, <2>1
  <2> QED BY <1>2, <1>3, <2>1, <2>4, <2>5, <2>6 DEF Moved, AddInFlight, PushBack
<1>11. CASE AddInFlight(t)
  <2>1. /\ call[t] = "add in flight" /\ \E label \in {"reset", "push"} : call' = [call EXCEPT ![t] = label]
        /\ in_flight' = in_flight + 1 /\ UNCHANGED <<unassigned, tasks, arg>>
    BY <1>11 DEF AddInFlight, CallGoesTo, lists
  <2>2. call'[t] \in {"reset", "push"}
    BY <1>t, <2>1 DEF Types
  <2>3. PlaceOf(item, "argument", t)'
    BY <1>3, <1>4, <2>1 DEF PlaceOf
  <2>4. Is(item, "queued", "unassigned")'
    BY <2>2, <2>3 DEF PlacesTell, Is, HasPlace, StatusAt, UnassignedAt, Kinds
  <2>5. Is(item, "new", "unassigned")
    BY <1>5, <2>1 DEF Is
  <2>6. \A task \in Tasks \ {item} : Keeps(task)
    BY <1>2, <1>9, <2>1
  <2> QED BY <1>2, <1>3, <2>1, <2>4, <2>5, <2>6 DEF Moved, AddUnassigned, PushBack
<1>12. CASE PushBack(t)
  <2>1. PICK w \in Workers : w = slot[t]
    BY <1>t DEF Types
  <2>2. PICK s \in Seq(Tasks) : s = tasks[w] /\ IsInjective(s)
    BY <1>t DEF Types, HandsFull
  <2>3. item \notin ToSet(s)
    BY <1>4, <2>2 DEF PlaceOf
  <2>4. PICK list \in Seq(Tasks) : /\ list = Append(s, item)
                                   /\ ToSet(list) = ToSet(s) \cup {item} /\ IsInjective(list)
    BY <2>2, <2>3, AppendAdds
  <2>5. /\ call[t] = "push" /\ tasks' = [tasks EXCEPT ![w] = list]
        /\ arg' = [arg EXCEPT ![t] = NoTask] /\ UNCHANGED <<unassigned, in_flight>>
    BY <1>2, <1>12, <2>1, <2>2, <2>4 DEF PushBack, counters
  <2>6. \A v \in Workers : ToSet(tasks'[v]) = IF v = w THEN ToSet(tasks[v]) \cup {item} ELSE ToSet(tasks[v])
    BY <1>t, <2>2, <2>4, <2>5 DEF Types
  <2>7. \A d \in Threads : arg'[d] = IF d = t THEN NoTask ELSE arg[d]
    BY <1>t, <2>5 DEF Types
  <2>8. PlaceOf(item, "listed", w)'
    <3>1. \A d \in Threads : arg'[d] # item
      BY <1>6, <2>7, DpAssumption
    <3>2. \A v \in Workers : item \in ToSet(tasks'[v]) <=> v = w
      BY <1>4, <2>6 DEF PlaceOf
    <3> QED BY <1>3, <1>4, <3>1, <3>2 DEF PlaceOf
  <2>9. Is(item, "queued", "unassigned")'
    BY <2>8, WorkersAreNumbers DEF PlacesTell, Is, HasPlace, StatusAt, UnassignedAt, Kinds
  <2>10. Is(item, "queued", "unassigned")
    BY <1>5, <2>5 DEF Is
  <2>11. \A task \in Tasks \ {item} : Keeps(task)
    BY <1>2, <1>9, <2>6, <2>7
  <2>12. \A v \in Workers : IsInjective(tasks'[v])
    BY <1>t, <2>4, <2>5 DEF Types, HandsFull
  <2> QED BY <1>2, <1>3, <2>5, <2>9, <2>10, <2>11, <2>12 DEF Moved, AddUnassigned, AddInFlight
<1> QED BY <1>10, <1>11, <1>12

(* The tasks that clear_tasks removes.                                     *)
LEMMA ClearMoves ==
    ASSUME TellInv, PlacesTell', NEW c \in Callers, ClearStep(c)
    PROVE  /\ UNCHANGED forgotten
           /\ ClearList(c) =>
                  /\ \E S \in SUBSET Tasks : Moved(S, "queued", "unassigned", "queued", "unassigned")
                  /\ UNCHANGED <<in_flight, unassigned>>
                  /\ \A w \in Workers : IsInjective(tasks'[w])
           /\ ClearInFlight(c) =>
                  /\ Moved(removed[c], "queued", "unassigned", "cleared", "unassigned")
                  /\ in_flight' = in_flight - Cardinality(removed[c]) /\ UNCHANGED <<unassigned, tasks>>
           /\ ClearUnassigned(c) =>
                  /\ Moved(removed[c], "cleared", "unassigned", "cleared", "assigned")
                  /\ unassigned' = unassigned - Cardinality(removed[c]) /\ UNCHANGED <<in_flight, tasks>>
<1>t. Types /\ HandsFull /\ Placed /\ PlacesTell
  BY DEF TellInv
<1>0. c \in Threads
  BY DEF Threads
<1>1. UNCHANGED <<held, wpc, executions, arg, fresh, forgotten>>
  BY DEF ClearStep, ClearList, ClearInFlight, ClearUnassigned, workers, ghosts
<1>2. call[c] \notin EnqueuePCs
  BY DEF ClearStep, ClearList, ClearInFlight, ClearUnassigned, EnqueuePCs
<1>3. \A d \in Threads : arg[d] \in Tasks => d # c
  BY <1>t, <1>2, DpAssumption DEF HandsFull
<1>4. call' = call \/ \E label \in CallPCs : call' = [call EXCEPT ![c] = label]
  BY DEF ClearStep, ClearList, ClearInFlight, ClearUnassigned, CallGoesTo, CallPCs
<1>5. \A d \in Threads \ {c} : call'[d] = call[d]
  BY <1>t, <1>4 DEF Types
<1>6. CASE ClearList(c)
  <2>1. PICK w \in Workers : w = slot[c]
    BY <1>t, <1>0 DEF Types
  <2>2. PICK S \in SUBSET Tasks : S = ToSet(tasks[w])
    BY <1>t, ListFacts DEF Types
  <2>3. /\ call[c] = "clear" /\ tasks' = [tasks EXCEPT ![w] = <<>>]
        /\ removed' = [removed EXCEPT ![c] = removed[c] \cup S]
        /\ UNCHANGED <<unassigned, in_flight, cleared>>
        /\ call' = call \/ call' = [call EXCEPT ![c] = "subtract in flight"]
    BY <1>6, <2>1, <2>2 DEF ClearList, CallGoesTo, counters, ghosts
  <2>4. \A v \in Workers : tasks'[v] = IF v = w THEN <<>> ELSE tasks[v]
    BY <1>t, <2>3 DEF Types
  <2>5. \A v \in Workers : ToSet(tasks'[v]) = IF v = w THEN {} ELSE ToSet(tasks[v])
    BY <2>4, EmptyList
  <2>6. \A d \in Threads : removed'[d] = IF d = c THEN removed[d] \cup S ELSE removed[d]
    BY <1>t, <2>3 DEF Types
  <2>7. call'[c] # "subtract unassigned"
    BY <1>t, <1>0, <2>3 DEF Types
  <2>8. ASSUME NEW task \in S PROVE Is(task, "queued", "unassigned") /\ Is(task, "queued", "unassigned")'
    <3>1. PlaceOf(task, "listed", w)
      <4>1. PICK kind \in Kinds, owner \in Threads : PlaceOf(task, kind, owner)
        BY <1>t DEF Placed
      <4>2. kind = "listed" /\ owner = w
        BY <2>2, <4>1 DEF PlaceOf
      <4> QED BY <4>1, <4>2
    <3>2. \A d \in Threads : task \in removed'[d] <=> d = c
      BY <2>6, <3>1 DEF PlaceOf
    <3>3. \A v \in Workers : task \notin ToSet(tasks'[v])
      BY <2>5, <3>1 DEF PlaceOf
    <3>4. PlaceOf(task, "removed", c)'
      BY <1>1, <2>3, <2>7, <3>1, <3>2, <3>3 DEF PlaceOf
    <3>5. Is(task, "queued", "unassigned")
      BY <1>t, <3>1, WorkersAreNumbers DEF PlacesTell, Is, HasPlace, StatusAt, UnassignedAt, Kinds
    <3>6. Is(task, "queued", "unassigned")'
      BY <1>0, <2>7, <3>4 DEF PlacesTell, Is, HasPlace, StatusAt, UnassignedAt, Kinds
    <3> QED BY <3>5, <3>6
  <2>9. ASSUME NEW task \in Tasks \ S PROVE Keeps(task)
    <3>a. \A d \in Threads : arg[d] = task => call'[d] = call[d]
      BY <1>3, <1>5
    <3>b. \A d \in Threads : call'[d] = "subtract unassigned" <=> call[d] = "subtract unassigned"
      BY <1>5, <2>3, <2>7
    <3>c. /\ \A v \in Workers : task \in ToSet(tasks'[v]) <=> task \in ToSet(tasks[v])
          /\ \A d \in Threads : task \in removed'[d] <=> task \in removed[d]
      BY <2>2, <2>5, <2>6
    <3>1. Unmoved(task)
      BY <1>1, <2>3, <3>a, <3>b, <3>c DEF Unmoved
    <3> QED BY <1>t, <3>1, UnmovedKeeps
  <2>10. \A v \in Workers : IsInjective(tasks'[v])
    BY <1>t, <2>4, EmptyList DEF HandsFull
  <2>11. Moved(S, "queued", "unassigned", "queued", "unassigned")
    BY <2>8, <2>9 DEF Moved
  <2> QED BY <1>1, <2>3, <2>10, <2>11 DEF ClearInFlight, ClearUnassigned
<1>7. PICK S \in SUBSET Tasks : S = removed[c]
  BY <1>t, <1>0 DEF Types
<1>8. \A task \in S : PlaceOf(task, "removed", c)
  <2> SUFFICES ASSUME NEW task \in S PROVE PlaceOf(task, "removed", c)
    OBVIOUS
  <2>1. PICK kind \in Kinds, owner \in Threads : PlaceOf(task, kind, owner)
    BY <1>t DEF Placed
  <2>2. kind = "removed" /\ owner = c
    BY <1>0, <1>7, <2>1 DEF PlaceOf
  <2> QED BY <2>1, <2>2
<1>9. \A task \in S : Is(task, IF call[c] = "subtract unassigned" THEN "cleared" ELSE "queued", "unassigned")
  BY <1>t, <1>0, <1>8 DEF PlacesTell, Is, HasPlace, StatusAt, UnassignedAt, Kinds
<1>10. CASE ClearInFlight(c)
  <2>1. /\ call[c] = "subtract in flight" /\ call' = [call EXCEPT ![c] = "subtract unassigned"]
        /\ in_flight' = in_flight - Cardinality(S) /\ cleared' = cleared \cup S
        /\ UNCHANGED <<unassigned, tasks, removed>>
    BY <1>7, <1>10 DEF ClearInFlight, CallGoesTo, lists
  <2>2. call'[c] = "subtract unassigned"
    BY <1>t, <1>0, <2>1 DEF Types
  <2>3. \A task \in S : PlaceOf(task, "removed", c)'
    BY <1>1, <1>8, <2>1, <2>2 DEF PlaceOf
  <2>4. \A task \in S : Is(task, "cleared", "unassigned")'
    BY <1>0, <2>2, <2>3 DEF PlacesTell, Is, HasPlace, StatusAt, UnassignedAt, Kinds
  <2>5. \A task \in S : Is(task, "queued", "unassigned")
    BY <1>9, <2>1
  <2>6. ASSUME NEW task \in Tasks \ S PROVE Keeps(task)
    <3>1. Unmoved(task)
      BY <1>1, <1>3, <1>5, <1>7, <2>1 DEF Unmoved
    <3> QED BY <1>t, <3>1, UnmovedKeeps
  <2> QED BY <1>1, <1>7, <2>1, <2>4, <2>5, <2>6 DEF Moved, ClearList, ClearUnassigned
<1>11. CASE ClearUnassigned(c)
  <2>1. /\ call[c] = "subtract unassigned" /\ call' = [call EXCEPT ![c] = "none"]
        /\ unassigned' = unassigned - Cardinality(S)
        /\ removed' = [removed EXCEPT ![c] = {}]
        /\ UNCHANGED <<in_flight, tasks, cleared>>
    BY <1>7, <1>11 DEF ClearUnassigned, CallGoesTo, lists, ghosts
  <2>2. \A d \in Threads : removed'[d] = IF d = c THEN {} ELSE removed[d]
    BY <1>t, <2>1 DEF Types
  <2>3. ASSUME NEW task \in S PROVE PlaceOf(task, "cleared", c)'
    <3>1. PlaceOf(task, "removed", c)
      BY <1>8
    <3>2. \A d \in Threads : task \notin removed'[d]
      BY <2>2, <3>1 DEF PlaceOf
    <3> QED BY <1>1, <2>1, <3>1, <3>2 DEF PlaceOf
  <2>4. \A task \in S : Is(task, "cleared", "assigned")'
    BY <1>0, <2>3 DEF PlacesTell, Is, HasPlace, StatusAt, UnassignedAt, Kinds
  <2>5. \A task \in S : Is(task, "cleared", "unassigned")
    BY <1>9, <2>1
  <2>6. ASSUME NEW task \in Tasks \ S PROVE Keeps(task)
    <3>a. \A d \in Threads : arg[d] = task => call'[d] = call[d]
      BY <1>3, <1>5
    <3>b. \A d \in Threads : task \in removed[d] => d # c /\ call'[d] = call[d]
      BY <1>5, <1>7
    <3>c. \A d \in Threads : task \in removed'[d] <=> task \in removed[d]
      BY <1>7, <2>2
    <3>1. Unmoved(task)
      BY <1>1, <2>1, <3>a, <3>b, <3>c DEF Unmoved
    <3> QED BY <1>t, <3>1, UnmovedKeeps
  <2> QED BY <1>1, <1>7, <2>1, <2>4, <2>5, <2>6 DEF Moved, ClearList, ClearInFlight
<1> QED BY <1>6, <1>10, <1>11 DEF ClearStep
-----------------------------------------------------------------------------
(* What the counters count.                                                *)
InFlightTasks == {task \in Tasks : StatusOf(task) \in {"queued", "running"}}
UnassignedTasks == {task \in Tasks : Unassigned(task)}

CountsAreRight ==
    in_flight = Cardinality(InFlightTasks) /\ unassigned = Cardinality(UnassignedTasks)

InFlight(status) == status \in {"queued", "running"}

LEMMA SetsMove ==
    ASSUME NEW S, NEW from, NEW u, NEW to, NEW v, Moved(S, from, u, to, v), S \subseteq Tasks
    PROVE  /\ Placed' /\ Promise!Move(S, from, to) /\ (from = to => Status' = Status)
           /\ (InFlight(from) <=> InFlight(to)) => InFlightTasks' = InFlightTasks
           /\ InFlight(from) /\ ~InFlight(to) =>
                  InFlightTasks' = InFlightTasks \ S /\ S \subseteq InFlightTasks
           /\ ~InFlight(from) /\ InFlight(to) =>
                  InFlightTasks' = InFlightTasks \cup S /\ S \cap InFlightTasks = {}
           /\ u = v => UnassignedTasks' = UnassignedTasks
           /\ u = "unassigned" /\ v = "assigned" =>
                  UnassignedTasks' = UnassignedTasks \ S /\ S \subseteq UnassignedTasks
           /\ u = "assigned" /\ v = "unassigned" =>
                  UnassignedTasks' = UnassignedTasks \cup S /\ S \cap UnassignedTasks = {}
<1>1. \A task \in Tasks : HasPlace(task)'
  BY DEF Moved, Is, Keeps
<1>2. Placed'
  BY <1>1 DEF Placed, HasPlace
<1>3. /\ \A task \in S : StatusOf(task) = from
      /\ \A task \in Tasks : StatusOf(task)' = IF task \in S THEN to ELSE StatusOf(task)
  BY DEF Moved, Is, Keeps
<1>4. Promise!Move(S, from, to) /\ (from = to => Status' = Status)
  BY <1>3 DEF Promise!Move, Status
<1>5. (InFlight(from) <=> InFlight(to)) => InFlightTasks' = InFlightTasks
  BY <1>3 DEF InFlightTasks, InFlight
<1>6. InFlight(from) /\ ~InFlight(to) => InFlightTasks' = InFlightTasks \ S /\ S \subseteq InFlightTasks
  BY <1>3 DEF InFlightTasks, InFlight
<1>7. ~InFlight(from) /\ InFlight(to) => InFlightTasks' = InFlightTasks \cup S /\ S \cap InFlightTasks = {}
  BY <1>3 DEF InFlightTasks, InFlight
<1>8. /\ \A task \in S : Unassigned(task) <=> u = "unassigned"
      /\ \A task \in Tasks : Unassigned(task)' <=> IF task \in S THEN v = "unassigned" ELSE Unassigned(task)
  BY DEF Moved, Is, Keeps
<1>9. u = v => UnassignedTasks' = UnassignedTasks
  BY <1>8 DEF UnassignedTasks
<1>10. u = "unassigned" /\ v = "assigned" =>
           UnassignedTasks' = UnassignedTasks \ S /\ S \subseteq UnassignedTasks
  BY <1>8 DEF UnassignedTasks
<1>11. u = "assigned" /\ v = "unassigned" =>
           UnassignedTasks' = UnassignedTasks \cup S /\ S \cap UnassignedTasks = {}
  BY <1>8 DEF UnassignedTasks
<1> QED BY <1>2, <1>4, <1>5, <1>6, <1>7, <1>9, <1>10, <1>11

LEMMA FiniteTasks ==
    /\ IsFiniteSet(InFlightTasks) /\ IsFiniteSet(UnassignedTasks)
    /\ Cardinality(InFlightTasks) \in Nat /\ Cardinality(UnassignedTasks) \in Nat
    /\ \A S \in SUBSET Tasks : IsFiniteSet(S) /\ Cardinality(S) \in Nat
<1>1. IsFiniteSet(Tasks) /\ InFlightTasks \subseteq Tasks /\ UnassignedTasks \subseteq Tasks
  BY DpAssumption DEF InFlightTasks, UnassignedTasks
<1> QED BY <1>1, FS_Subset, FS_CardinalityType

(* The tasks stay in both counts, enter one of them, or leave one.         *)
LEMMA CountsFollow ==
    ASSUME CountsAreRight, NEW S \in SUBSET Tasks,
           \/ /\ InFlightTasks' = InFlightTasks /\ in_flight' = in_flight
           \/ /\ InFlightTasks' = InFlightTasks \ S /\ S \subseteq InFlightTasks
              /\ in_flight' = in_flight - Cardinality(S)
           \/ /\ InFlightTasks' = InFlightTasks \cup S /\ S \cap InFlightTasks = {}
              /\ in_flight' = in_flight + Cardinality(S),
           \/ /\ UnassignedTasks' = UnassignedTasks /\ unassigned' = unassigned
           \/ /\ UnassignedTasks' = UnassignedTasks \ S /\ S \subseteq UnassignedTasks
              /\ unassigned' = unassigned - Cardinality(S)
           \/ /\ UnassignedTasks' = UnassignedTasks \cup S /\ S \cap UnassignedTasks = {}
              /\ unassigned' = unassigned + Cardinality(S)
    PROVE  CountsAreRight'
<1>1. /\ S \subseteq InFlightTasks => Cardinality(InFlightTasks \ S) = Cardinality(InFlightTasks) - Cardinality(S)
      /\ S \cap InFlightTasks = {} =>
             Cardinality(InFlightTasks \cup S) = Cardinality(InFlightTasks) + Cardinality(S)
  BY FiniteTasks, SetLoses, SetGains
<1>2. /\ S \subseteq UnassignedTasks =>
             Cardinality(UnassignedTasks \ S) = Cardinality(UnassignedTasks) - Cardinality(S)
      /\ S \cap UnassignedTasks = {} =>
             Cardinality(UnassignedTasks \cup S) = Cardinality(UnassignedTasks) + Cardinality(S)
  BY FiniteTasks, SetLoses, SetGains
<1>3. in_flight' = Cardinality(InFlightTasks')
  BY <1>1 DEF CountsAreRight
<1>4. unassigned' = Cardinality(UnassignedTasks')
  BY <1>2 DEF CountsAreRight
<1> QED BY <1>3, <1>4 DEF CountsAreRight

-----------------------------------------------------------------------------
(* The steps, one promise at a time.                                       *)
DInv == Types /\ HandsFull /\ WorkersQueue /\ Sleepers /\ Placed /\ CountsAreRight

StepInv == DInv /\ PlacesTell

Result ==
    /\ Placed' /\ CountsAreRight' /\ [Promise!WNext]_Promise!wvars
    /\ \A w \in Workers : IsInjective(tasks'[w])

LEMMA WaitsStay ==
    ASSUME \A c \in Callers : call'[c] \in Waiting <=> call[c] \in Waiting
    PROVE  Waits' = Waits
BY DEF Waits

LEMMA SameLists ==
    ASSUME HandsFull, tasks' = tasks
    PROVE  \A w \in Workers : IsInjective(tasks'[w])
BY DEF HandsFull

LEMMA WorkerResult ==
    ASSUME StepInv, PlacesTell', NEW w \in Workers,
           \/ (Take(w) /\ tasks[Victim(w)] # <<>>)
           \/ SubtractUnassigned(w) \/ TaskEnds(w) \/ SubtractInFlight(w)
    PROVE  Result
<1>t. TellInv /\ CountsAreRight /\ HandsFull
  BY DEF StepInv, DInv, TellInv
<1>1. CASE Take(w) /\ tasks[Victim(w)] # <<>>
  <2>1. PICK item \in Tasks : Moved({item}, "queued", "unassigned", "running", "unassigned")
    BY <1>t, <1>1, TakeMoves
  <2>2. /\ \A v \in Workers : IsInjective(tasks'[v])
        /\ UNCHANGED <<in_flight, unassigned, call, forgotten>>
    BY <1>t, <1>1, TakeMoves
  <2>3. /\ Placed' /\ Promise!Move({item}, "queued", "running")
        /\ InFlightTasks' = InFlightTasks /\ UnassignedTasks' = UnassignedTasks
    BY <2>1, SetsMove DEF InFlight
  <2>4. CountsAreRight'
    BY <1>t, <2>2, <2>3 DEF CountsAreRight
  <2>5. Waits' = Waits
    BY <2>2 DEF Waits
  <2>6. Promise!Start
    BY <2>2, <2>3, <2>5 DEF Promise!Start
  <2> QED BY <2>2, <2>3, <2>4, <2>6 DEF Result, Promise!WNext
<1>2. CASE SubtractUnassigned(w) \/ TaskEnds(w) \/ SubtractInFlight(w)
  <2>1. PICK item \in Tasks : item = held[w]
    BY <1>t, <1>2, RunningMoves
  <2>2. UNCHANGED <<tasks, call, forgotten>>
    BY <1>t, <1>2, RunningMoves
  <2>3. Waits' = Waits
    BY <2>2 DEF Waits
  <2>4. \A v \in Workers : IsInjective(tasks'[v])
    BY <1>t, <2>2, SameLists
  <2>5. Cardinality({item}) = 1
    BY FS_Singleton
  <2>6. CASE SubtractUnassigned(w)
    <3>1. /\ Moved({item}, "running", "unassigned", "running", "assigned")
          /\ unassigned' = unassigned - 1 /\ in_flight' = in_flight
      BY <1>t, <2>1, <2>6, RunningMoves
    <3>2. /\ Placed' /\ Status' = Status /\ InFlightTasks' = InFlightTasks
          /\ UnassignedTasks' = UnassignedTasks \ {item} /\ {item} \subseteq UnassignedTasks
      BY <3>1, SetsMove DEF InFlight
    <3>3. CountsAreRight'
      BY <1>t, <2>5, <3>1, <3>2, CountsFollow
    <3> QED BY <2>2, <2>3, <2>4, <3>2, <3>3 DEF Result, Promise!wvars
  <2>7. CASE TaskEnds(w)
    <3>1. Moved({item}, "running", "assigned", "running", "assigned") /\ UNCHANGED <<unassigned, in_flight>>
      BY <1>t, <2>1, <2>7, RunningMoves
    <3>2. /\ Placed' /\ Status' = Status /\ InFlightTasks' = InFlightTasks
          /\ UnassignedTasks' = UnassignedTasks
      BY <3>1, SetsMove DEF InFlight
    <3>3. CountsAreRight'
      BY <1>t, <3>1, <3>2 DEF CountsAreRight
    <3> QED BY <2>2, <2>3, <2>4, <3>2, <3>3 DEF Result, Promise!wvars
  <2>8. CASE SubtractInFlight(w)
    <3>1. /\ Moved({item}, "running", "assigned", "done", "assigned")
          /\ in_flight' = in_flight - 1 /\ unassigned' = unassigned
      BY <1>t, <2>1, <2>8, RunningMoves
    <3>2. /\ Placed' /\ Promise!Move({item}, "running", "done")
          /\ InFlightTasks' = InFlightTasks \ {item} /\ {item} \subseteq InFlightTasks
          /\ UnassignedTasks' = UnassignedTasks
      BY <3>1, SetsMove DEF InFlight
    <3>3. CountsAreRight'
      BY <1>t, <2>5, <3>1, <3>2, CountsFollow
    <3>4. Promise!Finish
      BY <2>2, <2>3, <3>2 DEF Promise!Finish
    <3> QED BY <2>4, <3>2, <3>3, <3>4 DEF Result, Promise!WNext
  <2> QED BY <1>2, <2>6, <2>7, <2>8
<1> QED BY <1>1, <1>2

LEMMA EnqueueResult ==
    ASSUME StepInv, PlacesTell', NEW t \in Threads,
           \/ AddUnassigned(t) \/ AddInFlight(t) \/ PushBack(t)
           \/ \E task \in Tasks : CallEnqueue(t, task)
    PROVE  Result
<1>t. TellInv /\ CountsAreRight /\ HandsFull /\ Types
  BY DEF StepInv, DInv, TellInv
<1>1. Waits' = Waits
  <2>1. /\ call[t] \notin Waiting
        /\ \E label : label \notin Waiting /\ call' = [call EXCEPT ![t] = label]
    BY DEF AddUnassigned, AddInFlight, PushBack, CallEnqueue, MayCall, CallGoesTo, Waiting
  <2>2. \A c \in Callers : c \in Threads
    BY DEF Threads
  <2> QED BY <1>t, <2>1, <2>2, WaitsStay DEF Types
<1>2. ASSUME NEW item \in Tasks, CallEnqueue(t, item) PROVE Result
  <2>1. Moved({item}, "new", "assigned", "new", "assigned") /\ UNCHANGED <<tasks, in_flight, unassigned, forgotten>>
    BY <1>t, <1>2, SubmitMoves
  <2>2. /\ Placed' /\ Status' = Status /\ InFlightTasks' = InFlightTasks
        /\ UnassignedTasks' = UnassignedTasks
    BY <2>1, SetsMove DEF InFlight
  <2>3. CountsAreRight'
    BY <1>t, <2>1, <2>2 DEF CountsAreRight
  <2>4. \A v \in Workers : IsInjective(tasks'[v])
    BY <1>t, <2>1, SameLists
  <2> QED BY <1>1, <2>1, <2>2, <2>3, <2>4 DEF Result, Promise!wvars
<1>3. ASSUME AddUnassigned(t) \/ AddInFlight(t) \/ PushBack(t) PROVE Result
  <2>1. PICK item \in Tasks : item = arg[t]
    BY <1>t, <1>3, ArgumentMoves
  <2>2. UNCHANGED forgotten /\ Cardinality({item}) = 1
    BY <1>t, <1>3, ArgumentMoves, FS_Singleton
  <2>3. CASE AddUnassigned(t)
    <3>1. /\ Moved({item}, "new", "assigned", "new", "unassigned")
          /\ unassigned' = unassigned + 1 /\ UNCHANGED <<in_flight, tasks>>
      BY <1>t, <2>1, <2>3, ArgumentMoves
    <3>2. /\ Placed' /\ Status' = Status /\ InFlightTasks' = InFlightTasks
          /\ UnassignedTasks' = UnassignedTasks \cup {item} /\ {item} \cap UnassignedTasks = {}
      BY <3>1, SetsMove DEF InFlight
    <3>3. CountsAreRight'
      BY <1>t, <2>2, <3>1, <3>2, CountsFollow
    <3>4. \A v \in Workers : IsInjective(tasks'[v])
      BY <1>t, <3>1, SameLists
    <3> QED BY <1>1, <2>2, <3>2, <3>3, <3>4 DEF Result, Promise!wvars
  <2>4. CASE AddInFlight(t)
    <3>1. /\ Moved({item}, "new", "unassigned", "queued", "unassigned")
          /\ in_flight' = in_flight + 1 /\ UNCHANGED <<unassigned, tasks>>
      BY <1>t, <2>1, <2>4, ArgumentMoves
    <3>2. /\ Placed' /\ Promise!Move({item}, "new", "queued")
          /\ InFlightTasks' = InFlightTasks \cup {item} /\ {item} \cap InFlightTasks = {}
          /\ UnassignedTasks' = UnassignedTasks
      BY <3>1, SetsMove DEF InFlight
    <3>3. CountsAreRight'
      BY <1>t, <2>2, <3>1, <3>2, CountsFollow
    <3>4. \A v \in Workers : IsInjective(tasks'[v])
      BY <1>t, <3>1, SameLists
    <3>5. Promise!Submit
      BY <1>1, <2>2, <3>2 DEF Promise!Submit
    <3> QED BY <3>2, <3>3, <3>4, <3>5 DEF Result, Promise!WNext
  <2>5. CASE PushBack(t)
    <3>1. /\ Moved({item}, "queued", "unassigned", "queued", "unassigned") /\ UNCHANGED <<in_flight, unassigned>>
          /\ \A v \in Workers : IsInjective(tasks'[v])
      BY <1>t, <2>1, <2>5, ArgumentMoves
    <3>2. /\ Placed' /\ Status' = Status /\ InFlightTasks' = InFlightTasks
          /\ UnassignedTasks' = UnassignedTasks
      BY <3>1, SetsMove DEF InFlight
    <3>3. CountsAreRight'
      BY <1>t, <3>1, <3>2 DEF CountsAreRight
    <3> QED BY <1>1, <2>2, <3>1, <3>2, <3>3 DEF Result, Promise!wvars
  <2> QED BY <1>3, <2>3, <2>4, <2>5
<1> QED BY <1>2, <1>3

LEMMA ClearResult ==
    ASSUME StepInv, PlacesTell', NEW c \in Callers, ClearStep(c)
    PROVE  Result
<1>t. TellInv /\ CountsAreRight /\ HandsFull /\ Types
  BY DEF StepInv, DInv, TellInv
<1>1. Waits' = Waits
  <2>1. /\ call[c] \notin Waiting
        /\ \/ call' = call
           \/ \E label : label \notin Waiting /\ call' = [call EXCEPT ![c] = label]
    BY DEF ClearStep, ClearList, ClearInFlight, ClearUnassigned, CallGoesTo, Waiting
  <2>2. \A d \in Callers : d \in Threads
    BY DEF Threads
  <2> QED BY <1>t, <2>1, <2>2, WaitsStay DEF Types
<1>2. UNCHANGED forgotten
  BY <1>t, ClearMoves
<1>3. CASE ClearList(c)
  <2>1. PICK S \in SUBSET Tasks : Moved(S, "queued", "unassigned", "queued", "unassigned")
    BY <1>t, <1>3, ClearMoves
  <2>2. UNCHANGED <<in_flight, unassigned>> /\ \A w \in Workers : IsInjective(tasks'[w])
    BY <1>t, <1>3, ClearMoves
  <2>3. /\ Placed' /\ Status' = Status /\ InFlightTasks' = InFlightTasks
        /\ UnassignedTasks' = UnassignedTasks
    BY <2>1, SetsMove DEF InFlight
  <2>4. CountsAreRight'
    BY <1>t, <2>2, <2>3 DEF CountsAreRight
  <2> QED BY <1>1, <1>2, <2>2, <2>3, <2>4 DEF Result, Promise!wvars
<1>4. PICK S \in SUBSET Tasks : S = removed[c]
  BY <1>t DEF Types, Threads
<1>5. CASE ClearInFlight(c)
  <2>1. /\ Moved(S, "queued", "unassigned", "cleared", "unassigned")
        /\ in_flight' = in_flight - Cardinality(S) /\ UNCHANGED <<unassigned, tasks>>
    BY <1>t, <1>4, <1>5, ClearMoves
  <2>2. /\ Placed' /\ Promise!Move(S, "queued", "cleared")
        /\ InFlightTasks' = InFlightTasks \ S /\ S \subseteq InFlightTasks
        /\ UnassignedTasks' = UnassignedTasks
    BY <2>1, SetsMove DEF InFlight
  <2>3. CountsAreRight'
    BY <1>t, <2>1, <2>2, CountsFollow
  <2>4. \A v \in Workers : IsInjective(tasks'[v])
    BY <1>t, <2>1, SameLists
  <2>5. CASE S = {}
    <3>1. \A task \in Tasks : StatusOf(task)' = StatusOf(task)
      BY <2>1, <2>5 DEF Moved, Keeps
    <3>2. Status' = Status
      BY <3>1 DEF Status
    <3> QED BY <1>1, <1>2, <2>2, <2>3, <2>4, <3>2 DEF Result, Promise!wvars
  <2>6. CASE S # {}
    <3>1. forgotten \subseteq Promise!Waiters
      BY <1>t DEF StepInv, DInv, Sleepers, Promise!Waiters, Waits
    <3>2. Promise!Clear
      BY <1>1, <1>2, <2>2, <2>6, <3>1 DEF Promise!Clear
    <3> QED BY <2>2, <2>3, <2>4, <3>2 DEF Result, Promise!WNext
  <2> QED BY <2>5, <2>6
<1>6. CASE ClearUnassigned(c)
  <2>1. /\ Moved(S, "cleared", "unassigned", "cleared", "assigned")
        /\ unassigned' = unassigned - Cardinality(S) /\ UNCHANGED <<in_flight, tasks>>
    BY <1>t, <1>4, <1>6, ClearMoves
  <2>2. /\ Placed' /\ Status' = Status /\ InFlightTasks' = InFlightTasks
        /\ UnassignedTasks' = UnassignedTasks \ S /\ S \subseteq UnassignedTasks
    BY <2>1, SetsMove DEF InFlight
  <2>3. CountsAreRight'
    BY <1>t, <2>1, <2>2, CountsFollow
  <2>4. \A v \in Workers : IsInjective(tasks'[v])
    BY <1>t, <2>1, SameLists
  <2> QED BY <1>1, <1>2, <2>2, <2>3, <2>4 DEF Result, Promise!wvars
<1> QED BY <1>3, <1>5, <1>6 DEF ClearStep

(* A step that moves no task is a promise about the waits, or nothing.     *)
LEMMA StillPromise ==
    ASSUME StepInv, StillStep, Status' = Status
    PROVE  [Promise!WNext]_Promise!wvars
<1>t. Types /\ Sleepers /\ CountsAreRight
  BY DEF StepInv, DInv
<1>0. Callers \subseteq Threads /\ call \in [Threads -> CallPCs]
  BY <1>t DEF Threads, Types
<1>1. ASSUME UNCHANGED <<call, forgotten>> PROVE [Promise!WNext]_Promise!wvars
  BY <1>1 DEF Waits, Promise!wvars
<1>2. ASSUME NEW w \in Workers, NotifyOne(w) PROVE [Promise!WNext]_Promise!wvars
  <2>1. call' = call /\ forgotten' = forgotten \cup asleep'
    BY <1>2 DEF NotifyOne, calls
  <2>2. Waits' = Waits
    BY <2>1 DEF Waits
  <2>3. CASE asleep' = {}
    BY <1>1, <2>1, <2>3
  <2>4. ASSUME NEW d \in asleep' PROVE [Promise!WNext]_Promise!wvars
    <3>1. PICK t \in asleep : asleep' = asleep \ {t}
      BY <1>2, <2>4 DEF NotifyOne
    <3>2. t \in Callers /\ d \in Callers /\ d # t /\ asleep' \subseteq asleep
      BY <1>t, <2>4, <3>1 DEF Sleepers
    <3>3. asleep \cup forgotten \subseteq Promise!Waiters
      BY <1>t DEF Sleepers, Promise!Waiters, Waits, Waiting
    <3>4. Promise!Waiters \ {t} # {}
      BY <2>4, <3>1, <3>2, <3>3
    <3>5. forgotten' \in SUBSET Promise!Waiters /\ forgotten \subseteq forgotten'
      BY <2>1, <3>2, <3>3
    <3>6. Promise!Forget(t)
      BY <2>2, <3>4, <3>5 DEF Promise!Forget
    <3> QED BY <3>2, <3>6 DEF Promise!WNext
  <2> QED BY <2>3, <2>4
<1>3. ASSUME NEW c \in Callers, CallWait(c) PROVE [Promise!WNext]_Promise!wvars
  <2>1. /\ call[c] = "none" /\ UNCHANGED forgotten
        /\ \E label \in {"wait", "destroy"} : call' = [call EXCEPT ![c] = label]
    BY <1>3 DEF CallWait, MayCall, CallGoesTo, ghosts
  <2>2. \A d \in Callers : call'[d] \in Waiting <=> d = c \/ call[d] \in Waiting
    BY <1>0, <2>1 DEF Waiting
  <2>3. Waits' = [Waits EXCEPT ![c] = "all"] /\ Waits[c] = "no"
    BY <2>1, <2>2 DEF Waits, Waiting
  <2>4. Promise!Wait(c)
    BY <2>1, <2>3 DEF Promise!Wait
  <2> QED BY <2>4 DEF Promise!WNext
<1>4. ASSUME NEW c \in Callers, LoadInFlight(c), ~(in_flight > 0) PROVE [Promise!WNext]_Promise!wvars
  <2>1. /\ call[c] \in {"wait", "destroy"} /\ forgotten' = forgotten \ {c}
        /\ \E label \in {"none", "request stop"} : call' = [call EXCEPT ![c] = label]
    BY <1>4 DEF LoadInFlight, CallGoesTo
  <2>2. \A d \in Callers : call'[d] \in Waiting <=> d # c /\ call[d] \in Waiting
    BY <1>0, <2>1 DEF Waiting
  <2>3. Waits' = [Waits EXCEPT ![c] = "no"] /\ Waits[c] = "all"
    BY <2>1, <2>2 DEF Waits, Waiting
  <2>4. InFlightTasks = {}
    BY <1>t, <1>4, FiniteTasks, FS_EmptySet DEF CountsAreRight
  <2>5. \A task \in Tasks : Status[task] \notin Promise!Awaited(Waits[c])
    BY <2>3, <2>4 DEF InFlightTasks, Status, Promise!Awaited
  <2>6. forgotten' \in SUBSET (Promise!Waiters \ {c}) /\ forgotten \ {c} \subseteq forgotten'
    BY <1>t, <2>1 DEF Sleepers, Promise!Waiters, Waits
  <2>7. Promise!Return(c)
    BY <2>3, <2>5, <2>6 DEF Promise!Return
  <2> QED BY <2>7 DEF Promise!WNext
(* The other steps: whoever waits goes on waiting.                         *)
<1>5. ASSUME UNCHANGED forgotten, NEW t \in Threads,
             \/ call' = call
             \/ \E label : /\ call' = [call EXCEPT ![t] = label]
                           /\ call[t] \in Waiting <=> label \in Waiting
      PROVE  [Promise!WNext]_Promise!wvars
  <2>1. \A c \in Callers : call'[c] \in Waiting <=> call[c] \in Waiting
    BY <1>0, <1>5
  <2> QED BY <1>5, <2>1, WaitsStay DEF Promise!wvars
<1>6. ASSUME NEW c \in Callers, (LoadInFlight(c) /\ in_flight > 0) \/ AtomicWait(c)
      PROVE  [Promise!WNext]_Promise!wvars
  <2>1. c \in Threads
    BY <1>0
  <2> QED BY <1>5, <1>6, <2>1 DEF LoadInFlight, AtomicWait, SleepOf, CallGoesTo, Waiting, ghosts
<1>7. ASSUME NEW t \in Threads,
             \/ ResetComplete(t) \/ Release(t) \/ RequestStop(t) \/ ReleaseStop(t) \/ Join(t) \/ CallClear(t)
      PROVE  [Promise!WNext]_Promise!wvars
  <2>1. /\ UNCHANGED forgotten /\ call[t] \notin Waiting
        /\ \/ call' = call
           \/ \E label : label \notin Waiting /\ call' = [call EXCEPT ![t] = label]
    BY <1>7
    DEF ResetComplete, Release, RequestStop, ReleaseStop, Join, CallClear, MayCall, CallGoesTo, Waiting, ghosts
  <2> QED BY <1>5, <2>1
<1>8. ASSUME NEW w \in Workers,
             \/ Acquire(w) \/ Take(w) \/ CheckUnassigned(w) \/ RotateToFront(w)
             \/ InspectInFlight(w) \/ StoreComplete(w) \/ TestStop(w)
      PROVE  [Promise!WNext]_Promise!wvars
  BY <1>1, <1>8
  DEF Acquire, Take, CheckUnassigned, RotateToFront, InspectInFlight, StoreComplete, TestStop, calls, ghosts
<1>9. CASE UNCHANGED vars
  BY <1>1, <1>9 DEF vars, calls, ghosts
<1> QED BY <1>0, <1>2, <1>3, <1>4, <1>6, <1>7, <1>8, <1>9 DEF StillStep

LEMMA StillResult ==
    ASSUME StepInv, PlacesTell', StillStep
    PROVE  Result
<1>t. TellInv /\ CountsAreRight /\ HandsFull /\ Types /\ Placed /\ PlacesTell
  BY DEF StepInv, DInv, TellInv
<1>1. \A task \in Tasks : Keeps(task)
  BY <1>t, StillTasks, UnmovedKeeps
<1>2. UNCHANGED <<tasks, in_flight, unassigned>>
  BY <1>t, StillTasks
<1>3. Placed'
  BY <1>1 DEF Placed, Keeps, HasPlace
<1>4. Status' = Status
  BY <1>1 DEF Status, Keeps
<1>5. InFlightTasks' = InFlightTasks /\ UnassignedTasks' = UnassignedTasks
  BY <1>1 DEF Keeps, InFlightTasks, UnassignedTasks
<1>6. CountsAreRight'
  BY <1>t, <1>2, <1>5 DEF CountsAreRight
<1>7. \A w \in Workers : IsInjective(tasks'[w])
  BY <1>t, <1>2, SameLists
<1> QED BY <1>3, <1>4, <1>6, <1>7, StillPromise DEF Result

LEMMA StepResult ==
    ASSUME StepInv, PlacesTell', [Next]_vars
    PROVE  Result
<1>1. ASSUME NEW w \in Workers, WorkerStep(w) PROVE Result
  BY <1>1, WorkerResult, StillResult DEF WorkerStep, StillStep
<1>2. ASSUME NEW t \in Threads, EnqueueStep(t) \/ \E task \in Tasks : CallEnqueue(t, task) PROVE Result
  BY <1>2, EnqueueResult, StillResult DEF EnqueueStep, StillStep
<1>3. ASSUME NEW c \in Callers, CallWait(c) \/ CallClear(c) \/ WaitStep(c) \/ ClearStep(c) PROVE Result
  BY <1>3, ClearResult, StillResult DEF WaitStep, StillStep
<1>4. CASE UNCHANGED vars
  BY <1>4, StillResult DEF StillStep
<1> QED BY <1>1, <1>2, <1>3, <1>4, WorkersAreNumbers DEF Next, CallStep, Threads

LEMMA HandsStep ==
    ASSUME Types, HandsFull, [Next]_vars, \A w \in Workers : IsInjective(tasks'[w])
    PROVE  HandsFull'
<1>1. ASSUME NEW w \in Workers, WorkerStep(w) PROVE HandsFull'
  <2>1. UNCHANGED <<call, arg>>
    BY <1>1
    DEF WorkerStep, Acquire, Take, SubtractUnassigned, TaskEnds, SubtractInFlight, CheckUnassigned,
        RotateToFront, InspectInFlight, StoreComplete, NotifyOne, TestStop, calls
  <2>2. \A v \in Workers : held'[v] # NoTask <=> wpc'[v] \in BusyPCs
    <3>1. CASE Take(w) /\ tasks[Victim(w)] # <<>>
      <4>1. PICK item \in Tasks : held' = [held EXCEPT ![w] = item]
        BY <3>1, TakenFrom
      <4>2. wpc' = [wpc EXCEPT ![w] = "assigned"] /\ "assigned" \in BusyPCs
        BY <3>1 DEF Take, WorkerGoesTo, BusyPCs
      <4> QED BY <4>1, <4>2, DpAssumption DEF Types, HandsFull
    <3>2. CASE SubtractInFlight(w)
      <4>1. /\ held' = [held EXCEPT ![w] = NoTask]
            /\ \E label \in {"take", "check"} : wpc' = [wpc EXCEPT ![w] = label]
        BY <3>2 DEF SubtractInFlight, WorkerGoesTo
      <4> QED BY <4>1 DEF Types, HandsFull, BusyPCs
    <3>3. CASE ~(Take(w) /\ tasks[Victim(w)] # <<>>) /\ ~SubtractInFlight(w)
      <4>1. held' = held /\ \E label : /\ wpc' = [wpc EXCEPT ![w] = label]
                                       /\ label \in BusyPCs <=> wpc[w] \in BusyPCs
        BY <1>1, <3>3
        DEF WorkerStep, Acquire, Take, SubtractUnassigned, TaskEnds, CheckUnassigned,
            RotateToFront, InspectInFlight, StoreComplete, NotifyOne, TestStop, WorkerGoesTo, BusyPCs
      <4> QED BY <4>1 DEF Types, HandsFull
    <3> QED BY <3>1, <3>2, <3>3
  <2> QED BY <2>1, <2>2 DEF HandsFull
<1>2. ASSUME NEW t \in Threads,
             \/ EnqueueStep(t) \/ CallWait(t) \/ CallClear(t) \/ WaitStep(t) \/ ClearStep(t)
             \/ \E task \in Tasks : CallEnqueue(t, task)
      PROVE  HandsFull'
  <2>1. UNCHANGED <<wpc, held>>
    BY <1>2
    DEF EnqueueStep, AddUnassigned, AddInFlight, ResetComplete, PushBack, Release, CallEnqueue, CallWait,
        CallClear, WaitStep, LoadInFlight, AtomicWait, RequestStop, ReleaseStop, Join, ClearStep, ClearList,
        ClearInFlight, ClearUnassigned, workers
  <2>2. \A d \in Threads : arg'[d] # NoTask <=> call'[d] \in EnqueuePCs
    <3>1. CASE \E task \in Tasks : CallEnqueue(t, task)
      <4>1. PICK item \in Tasks : /\ arg' = [arg EXCEPT ![t] = item]
                                  /\ call' = [call EXCEPT ![t] = "add unassigned"]
        BY <3>1 DEF CallEnqueue, CallGoesTo
      <4> QED BY <4>1, DpAssumption DEF Types, HandsFull, EnqueuePCs
    <3>2. CASE PushBack(t)
      <4>1. arg' = [arg EXCEPT ![t] = NoTask] /\ call' = [call EXCEPT ![t] = "release"]
        BY <3>2 DEF PushBack, CallGoesTo
      <4> QED BY <4>1 DEF Types, HandsFull, EnqueuePCs
    <3>3. CASE ~(\E task \in Tasks : CallEnqueue(t, task)) /\ ~PushBack(t)
      <4>1. /\ arg' = arg
            /\ \/ call' = call
               \/ \E label : /\ call' = [call EXCEPT ![t] = label]
                             /\ label \in EnqueuePCs <=> call[t] \in EnqueuePCs
        BY <1>2, <3>3
        DEF EnqueueStep, AddUnassigned, AddInFlight, ResetComplete, Release, CallWait, CallClear, WaitStep,
            LoadInFlight, AtomicWait, RequestStop, ReleaseStop, Join, ClearStep, ClearList, ClearInFlight,
            ClearUnassigned, CallGoesTo, SleepOf, MayCall, EnqueuePCs
      <4> QED BY <4>1 DEF Types, HandsFull
    <3> QED BY <3>1, <3>2, <3>3
  <2> QED BY <2>1, <2>2 DEF HandsFull
<1>3. CASE UNCHANGED vars
  BY <1>3 DEF vars, lists, workers, calls, HandsFull
<1> QED BY <1>1, <1>2, <1>3, WorkersAreNumbers DEF Next, CallStep, Threads

LEMMA DInvInit == Init => DInv
<1> SUFFICES ASSUME Init PROVE DInv
  OBVIOUS
<1>1. Types /\ HandsFull /\ Sleepers /\ WorkersQueue
  BY TypesInit, QueueInit
<1>2. \A task \in Tasks : /\ \A t \in Threads : arg[t] # task /\ task \notin removed[t]
                          /\ \A w \in Workers : held[w] # task /\ task \notin ToSet(tasks[w])
                          /\ task \in fresh /\ task \notin cleared /\ executions[task] = 0
  BY DpAssumption, EmptyList DEF Init
<1>3. 0 \in Threads
  BY WorkersAreNumbers
<1>4. \A task \in Tasks : PlaceOf(task, "fresh", 0)
  BY <1>2 DEF PlaceOf
<1>5. Placed
  BY <1>3, <1>4 DEF Placed, Kinds
<1>6. InFlightTasks = {} /\ UnassignedTasks = {}
  <2>1. PlacesTell
    BY <1>1, PlacesDoTell
  <2>2. \A task \in Tasks : StatusOf(task) = "new" /\ ~Unassigned(task)
    BY <1>3, <1>4, <2>1 DEF PlacesTell, StatusAt, UnassignedAt, Kinds
  <2> QED BY <2>2 DEF InFlightTasks, UnassignedTasks
<1>7. CountsAreRight
  BY <1>6, FS_EmptySet DEF Init, CountsAreRight
<1> QED BY <1>1, <1>5, <1>7 DEF DInv

LEMMA DInvStep == DInv /\ [Next]_vars => DInv' /\ [Promise!WNext]_Promise!wvars
<1> SUFFICES ASSUME DInv, [Next]_vars PROVE DInv' /\ [Promise!WNext]_Promise!wvars
  OBVIOUS
<1>1. Types' /\ WorkersQueue' /\ Sleepers'
  BY TypesStep, QueueStep, SleepersStep DEF DInv
<1>2. PlacesTell
  BY PlacesDoTell DEF DInv
<1>3. PlacesTell'
  BY <1>1, PlacesDoTell, PTL
<1>4. Result
  BY <1>2, <1>3, StepResult DEF StepInv
<1>5. HandsFull'
  BY <1>4, HandsStep DEF DInv, Result
<1> QED BY <1>1, <1>4, <1>5 DEF DInv, Result

LEMMA PromiseInit == Init => Promise!WInit
<1> SUFFICES ASSUME Init PROVE Promise!WInit
  OBVIOUS
<1>1. DInv /\ PlacesTell
  BY DInvInit, PlacesDoTell DEF DInv
<1>2. \A task \in Tasks : task \in fresh
  BY DEF Init
<1>3. \A task \in Tasks : StatusOf(task) = "new"
  <2> SUFFICES ASSUME NEW task \in Tasks PROVE StatusOf(task) = "new"
    OBVIOUS
  <2>1. PICK kind \in Kinds, owner \in Threads : PlaceOf(task, kind, owner)
    BY <1>1 DEF DInv, Placed
  <2>2. kind = "fresh"
    BY <1>2, <2>1 DEF PlaceOf
  <2> QED BY <1>1, <2>1, <2>2 DEF PlacesTell, StatusAt
<1>4. Waits = [c \in Callers |-> "no"]
  BY DEF Init, Waits, Waiting, Threads
<1> QED BY <1>3, <1>4 DEF Init, Promise!WInit, Status

(* The types, and both counters natural numbers because they count tasks.  *)
THEOREM TypeCorrect == Spec => []TypeOK
<1>1. DInv => TypeOK
  BY FiniteTasks DEF DInv, Types, WorkersQueue, Sleepers, CountsAreRight, TypeOK
<1> QED BY <1>1, DInvInit, DInvStep, PTL DEF Spec

(* dp::thread_pool implements the safety of WaitablePool: no task is run   *)
(* twice or after it was cleared, although every worker may take from      *)
(* every queue, and wait_for_tasks returns only when in_flight_tasks_,     *)
(* lowered by workers and by clear_tasks, stands for no task at all.       *)
THEOREM KeepsThePromise == Spec => Promise!WSafety
BY DInvInit, DInvStep, PromiseInit, PTL DEF Spec, Promise!WSafety
=============================================================================
