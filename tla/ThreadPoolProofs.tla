-------------------------- MODULE ThreadPoolProofs --------------------------
(***************************************************************************)
(* Theorems about ThreadPool.h for any number of workers, callers and      *)
(* tasks and any capacity of the queue: its types and its drain, the count *)
(* of its executions, who sleeps and who wakes whom, where each task is,   *)
(* and the life of tasks it implements.  The last part is about the way    *)
(* main.cpp uses it, and only there DispatchAssumption is assumed.         *)
(***************************************************************************)
EXTENDS PoolDispatch, CountingLemmas, SequenceTheorems

LEMMA NotifyOneFacts ==
    ASSUME NEW W, NEW rest \in NotifyOne(W)
    PROVE  /\ rest \subseteq W
           /\ W = {} => rest = {}
           /\ W # {} => \E t \in W : rest = W \ {t}
BY DEF NotifyOne

(* What the pool goes through when callers may begin a shutdown at any     *)
(* time, any number of times.                                              *)
AnyStep == Next \/ \E c \in Callers, operation \in ShutdownFunctions : BeginShutdown(c, operation)

LEMMA NextIsAnyStep == [Next]_vars => [AnyStep]_vars
BY DEF AnyStep

LEMMA ShutdownBegins ==
    ASSUME NEW c \in Callers, CallShutdown(c)
    PROVE  \E operation \in ShutdownFunctions : BeginShutdown(c, operation)
BY PoolAssumption DEF CallShutdown

-----------------------------------------------------------------------------
(* Types, and with them the agreement of _size with the deque: without it  *)
(* --_size could leave the natural numbers.                                *)
TypeInv == TypeOK /\ SizeAgrees

LEMMA TypeInvInit == Init => TypeInv
<1> SUFFICES ASSUME Init PROVE TypeInv
  OBVIOUS
<1>1. QTypeOK(Tasks, Threads) /\ SizeAgrees /\ cv = {}
  BY EmptySeq DEF Init, QInit, QTypeOK, SizeAgrees
<1> QED
  BY <1>1, PoolAssumption DEF Init, TypeInv, TypeOK, WorkerPCs

LEMMA EnqueueTypes ==
    ASSUME TypeInv, NEW task \in Tasks, Enqueue(task)
    PROVE  /\ QTypeOK(Tasks, Threads)' /\ SizeAgrees' /\ cv' \subseteq cv
           /\ cvFull' = cvFull /\ shutdown' = shutdown
BY NotifyOneFacts DEF TypeInv, TypeOK, QTypeOK, SizeAgrees, Enqueue

LEMMA DequeueTypes ==
    ASSUME TypeInv, queue # <<>>, Dequeue
    PROVE  /\ QTypeOK(Tasks, Threads)' /\ SizeAgrees' /\ cv' = cv
           /\ shutdown' = shutdown
BY NotifyOneFacts DEF TypeInv, TypeOK, QTypeOK, SizeAgrees, Dequeue

(* A thread in tryEnqueueTask has a task to submit, not yet answered for,  *)
(* and no other thread submits the same task.                              *)
SubmitsPending ==
    /\ \A t \in Threads : call[t] \in EnqueuePCs =>
           arg[t] \in Tasks /\ result[arg[t]] = "pending"
    /\ \A t, u \in Threads :
           call[t] \in EnqueuePCs /\ call[u] \in EnqueuePCs /\ arg[t] = arg[u] => t = u

(* A worker holds a task exactly while it calls it.                        *)
HoldsWhileRunning == \A w \in Workers : wpc[w] = "task" <=> running[w] # NoTask

BaseInv == TypeInv /\ SubmitsPending /\ HoldsWhileRunning

LEMMA BaseInvInit == Init => BaseInv
BY TypeInvInit, PoolAssumption
DEF Init, BaseInv, SubmitsPending, HoldsWhileRunning, EnqueuePCs

LEMMA WorkerStepBase ==
    ASSUME BaseInv, NEW w \in Workers, WorkerStep(w)
    PROVE  BaseInv'
<1> USE PoolAssumption DEF WorkerGoesTo, WorkerPCs, callvars, ghosts
<1>t. TypeOK /\ SizeAgrees /\ SubmitsPending /\ HoldsWhileRunning
  BY DEF BaseInv, TypeInv
<1>s. ASSUME UNCHANGED callvars PROVE SubmitsPending'
  BY <1>s, <1>t DEF SubmitsPending
<1>1. ASSUME TakeTask(w) PROVE BaseInv'
  <2>1. CASE PopSleeps(w) /\ UNCHANGED <<wpc, running>>
    BY <1>1, <2>1, <1>s, <1>t
    DEF TakeTask, PopSleeps, BaseInv, TypeInv, TypeOK, QTypeOK, SizeAgrees, HoldsWhileRunning, Threads
  <2>2. CASE PopFindsClosed /\ WorkerGoesTo(w, "exited") /\ UNCHANGED running
    BY <1>1, <2>2, <1>s, <1>t
    DEF TakeTask, PopFindsClosed, qvars, BaseInv, TypeInv, TypeOK, QTypeOK, SizeAgrees, HoldsWhileRunning
  <2>3. ASSUME NEW task \in Tasks, PopTakes(task),
               running' = [running EXCEPT ![w] = task], WorkerGoesTo(w, "task")
        PROVE  BaseInv'
    <3>1. QTypeOK(Tasks, Threads)' /\ SizeAgrees' /\ cv' = cv
      BY <2>3, DequeueTypes DEF PopTakes, BaseInv
    <3>2. HoldsWhileRunning'
      BY <2>3, <1>t DEF HoldsWhileRunning, TypeOK
    <3>3. TypeOK'
      BY <1>1, <2>3, <3>1, <1>t DEF TakeTask, TypeOK
    <3> QED BY <1>1, <3>1, <3>2, <3>3, <1>s DEF TakeTask, BaseInv, TypeInv
  <2> QED BY <1>1, <2>1, <2>2, <2>3 DEF TakeTask
<1>2. ASSUME TaskEnds(w) PROVE BaseInv'
  <2>1. running[w] \in Tasks
    BY <1>2, <1>t DEF TaskEnds, HoldsWhileRunning, TypeOK
  <2> QED
    BY <1>2, <2>1, <1>s, <1>t
    DEF TaskEnds, qvars, BaseInv, TypeInv, TypeOK, QTypeOK, SizeAgrees, HoldsWhileRunning
<1>3. ASSUME CountTask(w) PROVE BaseInv'
  BY <1>3, <1>s, <1>t
  DEF CountTask, qvars, BaseInv, TypeInv, TypeOK, QTypeOK, SizeAgrees, HoldsWhileRunning
<1> QED BY <1>1, <1>2, <1>3 DEF WorkerStep

(* The two ways a call of tryEnqueueTask moves on.                         *)
LEMMA CallGoesToBase ==
    ASSUME BaseInv, NEW t \in Threads, call[t] \in EnqueuePCs,
           NEW label \in EnqueuePCs, CallGoesTo(t, label),
           UNCHANGED <<poolvars, stopped, promised>>, late' \subseteq Tasks,
           QTypeOK(Tasks, Threads)', SizeAgrees', cv' \subseteq cv
    PROVE  BaseInv'
<1>1. TypeOK'
  BY DEF BaseInv, TypeInv, TypeOK, CallGoesTo, poolvars
<1>2. SubmitsPending'
  BY DEF BaseInv, TypeInv, TypeOK, SubmitsPending, CallGoesTo
<1> QED BY <1>1, <1>2 DEF BaseInv, TypeInv, HoldsWhileRunning, poolvars

LEMMA EnqueueReturnsBase ==
    ASSUME BaseInv, NEW t \in Threads, call[t] \in EnqueuePCs,
           NEW answer \in {"true", "false"}, EnqueueReturns(t, answer),
           UNCHANGED <<poolvars, stopped, promised>>, late' \subseteq Tasks,
           QTypeOK(Tasks, Threads)', SizeAgrees', cv' \subseteq cv
    PROVE  BaseInv'
<1>1. TypeOK'
  BY DEF BaseInv, TypeInv, TypeOK, EnqueueReturns, poolvars, SubmitsPending
<1>2. SubmitsPending'
  BY DEF BaseInv, TypeInv, TypeOK, SubmitsPending, EnqueueReturns, EnqueuePCs
<1> QED BY <1>1, <1>2 DEF BaseInv, TypeInv, HoldsWhileRunning, poolvars

LEMMA UnchangedQueueTypes ==
    ASSUME TypeInv, UNCHANGED qvars
    PROVE  QTypeOK(Tasks, Threads)' /\ SizeAgrees' /\ cv' = cv
BY DEF TypeInv, TypeOK, QTypeOK, SizeAgrees, qvars

LEMMA EnqueueStepBase ==
    ASSUME BaseInv, NEW t \in Threads, EnqueueStep(t)
    PROVE  BaseInv'
<1>t. TypeInv /\ (call[t] \in EnqueuePCs => arg[t] \in Tasks) /\ late \subseteq Tasks
  BY DEF BaseInv, SubmitsPending, TypeInv, TypeOK
<1> USE DEF EnqueuePCs, ghosts
<1>1. ASSUME ReadActive(t) PROVE BaseInv'
  <2>1. UNCHANGED qvars /\ UNCHANGED <<poolvars, stopped, promised>> /\ late' \subseteq Tasks
    BY <1>1, <1>t DEF ReadActive
  <2>2. QTypeOK(Tasks, Threads)' /\ SizeAgrees' /\ cv' = cv
    BY <2>1, UnchangedQueueTypes DEF BaseInv
  <2>3. CASE EnqueueReturns(t, "false")
    BY <1>1, <2>1, <2>2, <2>3, EnqueueReturnsBase DEF ReadActive
  <2>4. ASSUME NEW b \in BOOLEAN, CallGoesTo(t, IF b THEN "push" ELSE "tryPush")
        PROVE  BaseInv'
    <3>1. CASE b
      BY <1>1, <2>1, <2>2, <2>4, <3>1, CallGoesToBase DEF ReadActive
    <3>2. CASE ~b
      BY <1>1, <2>1, <2>2, <2>4, <3>2, CallGoesToBase DEF ReadActive
    <3> QED BY <3>1, <3>2
  <2> QED BY <1>1, <2>3, <2>4, PoolAssumption DEF ReadActive, PoliciesOf
<1>2. ASSUME Push(t) PROVE BaseInv'
  <2>0. call[t] = "push" /\ UNCHANGED <<poolvars, stopped, promised>> /\ late' \subseteq Tasks
    BY <1>2, <1>t DEF Push
  <2>1. CASE PushSleeps(t) /\ UNCHANGED <<call, arg, result>>
    BY <2>0, <2>1 DEF PushSleeps, BaseInv, TypeInv, TypeOK, QTypeOK, SizeAgrees,
       SubmitsPending, HoldsWhileRunning, poolvars
  <2>2. CASE PushDrops /\ EnqueueReturns(t, "true")
    <3>1. QTypeOK(Tasks, Threads)' /\ SizeAgrees' /\ cv' = cv
      BY <2>2, UnchangedQueueTypes DEF PushDrops, BaseInv
    <3> QED BY <2>0, <2>2, <3>1, EnqueueReturnsBase
  <2>3. CASE PushAccepts(arg[t]) /\ EnqueueReturns(t, "true")
    <3>1. QTypeOK(Tasks, Threads)' /\ SizeAgrees' /\ cv' \subseteq cv
      BY <1>t, <2>0, <2>3, EnqueueTypes DEF PushAccepts
    <3> QED BY <2>0, <2>3, <3>1, EnqueueReturnsBase
  <2> QED BY <1>2, <2>1, <2>2, <2>3 DEF Push
<1>3. ASSUME TryPushEntry(t) PROVE BaseInv'
  <2>1. /\ call[t] = "tryPush"
        /\ UNCHANGED <<poolvars, stopped, promised>> /\ late' \subseteq Tasks
        /\ QTypeOK(Tasks, Threads)' /\ SizeAgrees' /\ cv' = cv
    BY <1>3, <1>t, UnchangedQueueTypes DEF TryPushEntry, BaseInv
  <2>2. CASE CallGoesTo(t, "tryPush locked")
    BY <2>1, <2>2, CallGoesToBase
  <2>3. CASE EnqueueReturns(t, "false")
    BY <2>1, <2>3, EnqueueReturnsBase
  <2> QED BY <1>3, <2>2, <2>3 DEF TryPushEntry
<1>4. ASSUME TryPushLocked(t) PROVE BaseInv'
  <2>0. /\ call[t] = "tryPush locked"
        /\ UNCHANGED <<poolvars, stopped, promised>> /\ late' \subseteq Tasks
    BY <1>4, <1>t DEF TryPushLocked, NoteLate
  <2>1. CASE TryPushRefuses /\ EnqueueReturns(t, "false") /\ UNCHANGED late
    <3>1. QTypeOK(Tasks, Threads)' /\ SizeAgrees' /\ cv' = cv
      BY <2>1, UnchangedQueueTypes DEF TryPushRefuses, BaseInv
    <3> QED BY <2>0, <2>1, <3>1, EnqueueReturnsBase
  <2>2. CASE TryPushAccepts(arg[t]) /\ EnqueueReturns(t, "true") /\ NoteLate(arg[t])
    <3>1. QTypeOK(Tasks, Threads)' /\ SizeAgrees' /\ cv' \subseteq cv
      BY <1>t, <2>0, <2>2, EnqueueTypes DEF TryPushAccepts
    <3> QED BY <2>0, <2>2, <3>1, EnqueueReturnsBase
  <2> QED BY <1>4, <2>1, <2>2 DEF TryPushLocked
<1> QED BY <1>1, <1>2, <1>3, <1>4 DEF EnqueueStep

(* A caller that moves between calls or through a shutdown function.       *)
LEMMA CallerMovesBase ==
    ASSUME BaseInv, NEW c \in Callers, call[c] \notin EnqueuePCs,
           NEW label \in {"none"} \cup ShutdownPCs, CallGoesTo(c, label),
           UNCHANGED <<wpc, running, executions, completed>>,
           active' \in BOOLEAN, joined' \in BOOLEAN,
           stopped' \subseteq Callers, promised' \subseteq Tasks, late' \subseteq Tasks,
           QTypeOK(Tasks, Threads)', SizeAgrees', cv' \subseteq cv
    PROVE  BaseInv'
<1>0. c \in Threads /\ label \notin EnqueuePCs
  BY DEF Threads, EnqueuePCs, ShutdownPCs, ShutdownFunctions
<1>1. TypeOK'
  BY <1>0 DEF BaseInv, TypeInv, TypeOK, CallGoesTo
<1>2. SubmitsPending'
  BY <1>0 DEF BaseInv, TypeInv, TypeOK, SubmitsPending, CallGoesTo
<1> QED BY <1>1, <1>2 DEF BaseInv, TypeInv, HoldsWhileRunning

LEMMA ShutdownStepBase ==
    ASSUME BaseInv, NEW c \in Callers, ShutdownStep(c)
    PROVE  BaseInv'
<1>t. /\ TypeInv
      /\ active \in BOOLEAN /\ joined \in BOOLEAN
      /\ stopped \subseteq Callers /\ promised \subseteq Tasks /\ late \subseteq Tasks
      /\ Accepted \subseteq Tasks
  BY DEF BaseInv, TypeInv, TypeOK, Accepted
<1> USE DEF EnqueuePCs, ShutdownPCs, ShutdownFunctions, ShutdownReturns, poolvars, ghosts
<1>1. ASSUME ExchangeActive(c) PROVE BaseInv'
  <2>1. QTypeOK(Tasks, Threads)' /\ SizeAgrees' /\ cv' = cv
    BY <1>1, <1>t, UnchangedQueueTypes DEF ExchangeActive
  <2> QED BY <1>1, <2>1, <1>t, CallerMovesBase DEF ExchangeActive
<1>2. ASSUME ClearTasks(c) PROVE BaseInv'
  <2>1. QTypeOK(Tasks, Threads)' /\ SizeAgrees' /\ cv' = cv
    BY <1>2, <1>t, EmptySeq DEF ClearTasks, ClearQueue, TypeInv, TypeOK, QTypeOK, SizeAgrees
  <2> QED BY <1>2, <2>1, <1>t, CallerMovesBase DEF ClearTasks
<1>3. ASSUME DrainEnds(c) PROVE BaseInv'
  <2>1. QTypeOK(Tasks, Threads)' /\ SizeAgrees' /\ cv' = cv
    BY <1>3, <1>t, UnchangedQueueTypes DEF DrainEnds
  <2> QED BY <1>3, <2>1, <1>t, CallerMovesBase DEF DrainEnds
<1>4. ASSUME ShutdownQueue(c) PROVE BaseInv'
  <2>1. QTypeOK(Tasks, Threads)' /\ SizeAgrees' /\ cv' \subseteq cv
    BY <1>4, <1>t DEF ShutdownQueue, CloseQueue, TypeInv, TypeOK, QTypeOK, SizeAgrees
  <2> QED BY <1>4, <2>1, <1>t, CallerMovesBase DEF ShutdownQueue
<1>5. ASSUME JoinWorkers(c) PROVE BaseInv'
  <2>1. QTypeOK(Tasks, Threads)' /\ SizeAgrees' /\ cv' = cv
    BY <1>5, <1>t, UnchangedQueueTypes DEF JoinWorkers
  <2> QED BY <1>5, <2>1, <1>t, CallerMovesBase DEF JoinWorkers
<1> QED BY <1>1, <1>2, <1>3, <1>4, <1>5 DEF ShutdownStep

LEMMA NewCallBase ==
    ASSUME BaseInv,
           \/ \E t \in Threads, task \in Tasks : CallTryEnqueueTask(t, task)
           \/ \E c \in Callers, operation \in ShutdownFunctions : BeginShutdown(c, operation)
           \/ \E t \in Threads : Spurious(t)
    PROVE  BaseInv'
<1>1. ASSUME NEW t \in Threads, NEW task \in Tasks, CallTryEnqueueTask(t, task)
      PROVE  BaseInv'
  <2>1. QTypeOK(Tasks, Threads)' /\ SizeAgrees' /\ cv' = cv
    BY <1>1, UnchangedQueueTypes DEF CallTryEnqueueTask, BaseInv
  <2>2. TypeOK'
    BY <1>1, <2>1 DEF CallTryEnqueueTask, BaseInv, TypeInv, TypeOK, poolvars, ghosts, EnqueuePCs
  <2>3. SubmitsPending'
    <3>1. \A u \in Threads : call[u] \in EnqueuePCs => arg[u] # task
      BY <1>1 DEF CallTryEnqueueTask, BaseInv, SubmitsPending
    <3>2. /\ call' = [call EXCEPT ![t] = "tryEnqueueTask"]
          /\ arg' = [arg EXCEPT ![t] = task]
          /\ result' = [result EXCEPT ![task] = "pending"]
      BY <1>1 DEF CallTryEnqueueTask
    <3> QED BY <3>1, <3>2 DEF BaseInv, TypeInv, TypeOK, SubmitsPending
  <2> QED BY <1>1, <2>1, <2>2, <2>3
          DEF CallTryEnqueueTask, BaseInv, TypeInv, HoldsWhileRunning, poolvars
<1>2. ASSUME NEW c \in Callers, NEW operation \in ShutdownFunctions, BeginShutdown(c, operation)
      PROVE  BaseInv'
  <2>1. QTypeOK(Tasks, Threads)' /\ SizeAgrees' /\ cv' = cv
    BY <1>2, UnchangedQueueTypes DEF BeginShutdown, BaseInv
  <2>2. CallGoesTo(c, operation)
    BY <1>2 DEF BeginShutdown
  <2>3. operation \in {"none"} \cup ShutdownPCs
    BY DEF ShutdownPCs
  <2>4. /\ active' \in BOOLEAN /\ joined' \in BOOLEAN
        /\ stopped' \subseteq Callers /\ promised' \subseteq Tasks /\ late' \subseteq Tasks
        /\ UNCHANGED <<wpc, running, executions, completed>>
    BY <1>2 DEF BeginShutdown, poolvars, ghosts, BaseInv, TypeInv, TypeOK
  <2>5. call[c] \notin EnqueuePCs
    BY <1>2 DEF BeginShutdown, EnqueuePCs
  <2> QED BY <2>1, <2>2, <2>3, <2>4, <2>5, CallerMovesBase
<1>3. ASSUME NEW t \in Threads, Spurious(t) PROVE BaseInv'
  BY <1>3 DEF Spurious, WakesUp, BaseInv, TypeInv, TypeOK, QTypeOK, SizeAgrees,
     SubmitsPending, HoldsWhileRunning, poolvars, callvars, ghosts
<1> QED BY <1>1, <1>2, <1>3

LEMMA StutterBase ==
    ASSUME BaseInv, UNCHANGED vars
    PROVE  BaseInv'
BY DEF vars, qvars, poolvars, callvars, ghosts, BaseInv, TypeInv, TypeOK, QTypeOK, SizeAgrees,
   SubmitsPending, HoldsWhileRunning, EnqueuePCs

LEMMA BaseInvStep == BaseInv /\ [AnyStep]_vars => BaseInv'
<1> SUFFICES ASSUME BaseInv, [AnyStep]_vars PROVE BaseInv'
  OBVIOUS
<1>1. ASSUME PoolStep PROVE BaseInv'
  BY <1>1, WorkerStepBase, EnqueueStepBase, ShutdownStepBase, NewCallBase DEF PoolStep
<1>2. ASSUME AtRest PROVE BaseInv'
  BY <1>2, StutterBase DEF AtRest
<1> QED BY <1>1, <1>2, NewCallBase, ShutdownBegins, StutterBase DEF AnyStep, Next

(* Type correctness, and _size agrees with the deque, for any pool.        *)
THEOREM TypeCorrect == Spec => [](TypeOK /\ SizeAgrees)
<1>1. Spec => []BaseInv
  BY BaseInvInit, BaseInvStep, NextIsAnyStep, PTL DEF Spec
<1> QED
  BY <1>1, PTL DEF BaseInv, TypeInv
-----------------------------------------------------------------------------
(* Counting.  A step adds one unit to a counter or leaves it alone.        *)
LEMMA NoUnitsYet ==
    ASSUME NEW S
    PROVE  IsFiniteSet(Units([x \in S |-> 0])) /\ Total([x \in S |-> 0]) = 0
<1>1. Units([x \in S |-> 0]) = {}
  BY DEF Units
<1> QED BY <1>1, FS_EmptySet DEF Total

LEMMA UnitAdded ==
    ASSUME NEW S, NEW f \in [S -> Nat], NEW x \in S, IsFiniteSet(Units(f))
    PROVE  /\ IsFiniteSet(Units([f EXCEPT ![x] = @ + 1]))
           /\ Total([f EXCEPT ![x] = @ + 1]) = Total(f) + 1
<1> DEFINE g == [f EXCEPT ![x] = @ + 1]
           unit == <<x, f[x] + 1>>
<1>1. \A y \in S : 1 .. g[y] = (1 .. f[y]) \cup (IF y = x THEN {f[x] + 1} ELSE {})
  OBVIOUS
<1>2. Units(g) = Units(f) \cup {unit}
  <2>1. ASSUME NEW y
        PROVE  y \in Units(g) <=> y \in Units(f) \cup {unit}
    <3>1. y \in Units(g) <=> \E z \in S : \E n \in 1 .. g[z] : y = <<z, n>>
      BY DEF Units
    <3>2. y \in Units(f) <=> \E z \in S : \E n \in 1 .. f[z] : y = <<z, n>>
      BY DEF Units
    <3>3. ASSUME NEW z \in S, NEW n
          PROVE  n \in 1 .. g[z] <=> n \in 1 .. f[z] \/ (z = x /\ n = f[x] + 1)
      BY <1>1
    <3>4. (\E z \in S : \E n \in 1 .. g[z] : y = <<z, n>>)
            <=> (\E z \in S : \E n \in 1 .. f[z] : y = <<z, n>>) \/ y = unit
      BY <3>3, Zenon
    <3> QED BY <3>1, <3>2, <3>4
  <2> QED BY <2>1
<1>3. unit \notin Units(f)
  BY DEF Units
<1>4. IsFiniteSet(Units(f) \cup {unit}) /\ Cardinality(Units(f) \cup {unit}) = Cardinality(Units(f)) + 1
  BY <1>3, FS_AddElement
<1> QED BY <1>2, <1>4 DEF Total

CountInv ==
    /\ IsFiniteSet(Units(executions)) /\ IsFiniteSet(Units(completed))
    /\ CompletedCountsExecutions

Counting == {w \in Workers : wpc[w] = "count"}

LEMMA CountingFinite == IsFiniteSet(Counting) /\ Cardinality(Counting) \in Nat
<1>1. Counting \subseteq Workers
  BY DEF Counting
<1> QED BY <1>1, FS_Subset, FS_CardinalityType, PoolAssumption

LEMMA CountInvInit == Init => CountInv
<1> SUFFICES ASSUME Init PROVE CountInv
  OBVIOUS
<1>1. Counting = {}
  BY DEF Init, Counting
<1>2. Cardinality(Counting) = 0
  BY <1>1, FS_EmptySet
<1> QED BY <1>2, NoUnitsYet DEF Init, CountInv, CompletedCountsExecutions, Counting

LEMMA CountInvStep == BaseInv /\ CountInv /\ [Next]_vars => CountInv'
<1> SUFFICES ASSUME BaseInv, CountInv, [Next]_vars PROVE CountInv'
  OBVIOUS
<1>t. /\ wpc \in [Workers -> WorkerPCs] /\ running \in [Workers -> Tasks \cup {NoTask}]
      /\ executions \in [Tasks -> Nat] /\ completed \in [Workers -> Nat]
      /\ \A w \in Workers : wpc[w] = "task" => running[w] \in Tasks
  BY DEF BaseInv, TypeInv, TypeOK, HoldsWhileRunning
<1>c. /\ IsFiniteSet(Units(executions)) /\ IsFiniteSet(Units(completed))
      /\ Total(executions) = Total(completed) + Cardinality(Counting)
      /\ Total(executions) \in Nat /\ Total(completed) \in Nat
  BY FS_CardinalityType DEF CountInv, CompletedCountsExecutions, Counting, Total
<1>same. ASSUME UNCHANGED <<executions, completed>>, Counting' = Counting
         PROVE  CountInv'
  BY <1>same, <1>c DEF CountInv, CompletedCountsExecutions, Counting
<1>1. ASSUME NEW w \in Workers, TakeTask(w) PROVE CountInv'
  <2>1. wpc[w] = "waitPop" /\ wpc'[w] # "count" /\ \A v \in Workers \ {w} : wpc'[v] = wpc[v]
    BY <1>1, <1>t DEF TakeTask, WorkerGoesTo
  <2>2. Counting' = Counting
    BY <2>1 DEF Counting
  <2> QED BY <1>1, <2>2, <1>same DEF TakeTask
<1>2. ASSUME NEW w \in Workers, TaskEnds(w) PROVE CountInv'
  <2>1. /\ wpc[w] = "task" /\ wpc' = [wpc EXCEPT ![w] = "count"]
        /\ executions' = [executions EXCEPT ![running[w]] = @ + 1] /\ UNCHANGED completed
    BY <1>2 DEF TaskEnds, WorkerGoesTo
  <2>2. running[w] \in Tasks
    BY <2>1, <1>t
  <2>3. IsFiniteSet(Units(executions')) /\ Total(executions') = Total(executions) + 1
    BY <2>1, <2>2, <1>t, <1>c, UnitAdded
  <2>4. Counting' = Counting \cup {w} /\ w \notin Counting
    BY <2>1, <1>t DEF Counting
  <2>5. Cardinality(Counting') = Cardinality(Counting) + 1
    BY <2>4, CountingFinite, FS_AddElement
  <2> QED BY <2>1, <2>3, <2>5, <1>c, CountingFinite DEF CountInv, CompletedCountsExecutions, Counting
<1>3. ASSUME NEW w \in Workers, CountTask(w) PROVE CountInv'
  <2>1. /\ wpc[w] = "count" /\ wpc' = [wpc EXCEPT ![w] = "waitPop"]
        /\ completed' = [completed EXCEPT ![w] = @ + 1] /\ UNCHANGED executions
    BY <1>3 DEF CountTask, WorkerGoesTo
  <2>2. IsFiniteSet(Units(completed')) /\ Total(completed') = Total(completed) + 1
    BY <2>1, <1>t, <1>c, UnitAdded
  <2>3. Counting' = Counting \ {w} /\ w \in Counting
    BY <2>1, <1>t DEF Counting
  <2>4. Cardinality(Counting') = Cardinality(Counting) - 1
    BY <2>3, CountingFinite, OneLess
  <2> QED BY <2>1, <2>2, <2>4, <1>c, CountingFinite DEF CountInv, CompletedCountsExecutions, Counting
<1>4. ASSUME UNCHANGED <<executions, completed, wpc>> PROVE CountInv'
  BY <1>4, <1>same DEF Counting
<1>5. ASSUME NEW t \in Threads, EnqueueStep(t) \/ Spurious(t) \/ \E task \in Tasks : CallTryEnqueueTask(t, task)
      PROVE  UNCHANGED <<executions, completed, wpc>>
  BY <1>5 DEF EnqueueStep, ReadActive, Push, TryPushEntry, TryPushLocked, Spurious, CallTryEnqueueTask, poolvars
<1>6. ASSUME NEW c \in Callers, ShutdownStep(c) \/ CallShutdown(c)
      PROVE  UNCHANGED <<executions, completed, wpc>>
  BY <1>6 DEF ShutdownStep, ExchangeActive, ClearTasks, DrainEnds, ShutdownQueue, JoinWorkers, CallShutdown, BeginShutdown, poolvars
<1>7. ASSUME UNCHANGED vars PROVE UNCHANGED <<executions, completed, wpc>>
  BY <1>7 DEF vars, poolvars
<1> QED
  BY <1>1, <1>2, <1>3, <1>4, <1>5, <1>6, <1>7 DEF Next, PoolStep, WorkerStep, AtRest

(* tasksCompleted, which each worker raises after its task under a mutex   *)
(* of its own, lags behind the executions by the workers on their way to   *)
(* that mutex, whatever tasks throw and however many workers there are.    *)
THEOREM CountIsExact == Spec => []CompletedCountsExecutions
<1>1. Init => BaseInv /\ CountInv
  BY BaseInvInit, CountInvInit
<1>2. BaseInv /\ CountInv /\ [Next]_vars => BaseInv' /\ CountInv'
  BY BaseInvStep, CountInvStep, NextIsAnyStep
<1> QED
  BY <1>1, <1>2, PTL DEF Spec, CountInv
-----------------------------------------------------------------------------
(* Draining.  A task is located when the pool still has it or has run it.  *)
Located(task) == InQueue(task) \/ BeingRun(task) \/ executions[task] > 0

Closing == {"clear", "drain", "shutdown", "join"}

(* Before active is turned off nobody is inside a shutdown, the queue is   *)
(* open and no promise has been made; the caller that goes through clear() *)
(* is the one that turned active off, so no promise is ever cleared away.  *)
OneShutdown ==
    /\ active => /\ \A c \in Callers : call[c] \notin Closing
                 /\ ~shutdown /\ ~joined /\ promised = {}
    /\ \A c \in Callers : call[c] = "clear" => promised = {}

AcceptedAreLocated == active => \A task \in Accepted : Located(task)

PromisedAreLocated == \A task \in promised : result[task] = "true" /\ Located(task)

(* The first worker that leaves has seen an empty queue: only a late       *)
(* tryPush fills it again, and never with a promised task.                 *)
LeavingWorkersSawAll ==
    (\E w \in Workers : wpc[w] = "exited") =>
        /\ shutdown
        /\ \A task \in promised : ~InQueue(task)
        /\ \A task \in Tasks : InQueue(task) => task \in late

JoinedAreExited == joined => \A w \in Workers : wpc[w] = "exited"

DrainInv ==
    /\ BaseInv
    /\ OneShutdown
    /\ AcceptedAreLocated
    /\ PromisedAreLocated
    /\ LeavingWorkersSawAll
    /\ JoinedAreExited

LEMMA DrainInvInit == Init => DrainInv
<1> SUFFICES ASSUME Init PROVE DrainInv
  OBVIOUS
<1>1. BaseInv
  BY BaseInvInit
<1> QED
  BY <1>1, PoolAssumption
  DEF Init, QInit, DrainInv, OneShutdown, Closing, AcceptedAreLocated, Accepted,
      PromisedAreLocated, LeavingWorkersSawAll, JoinedAreExited, Threads

(* The invariant implies the property: when the workers have been joined   *)
(* there is one, it has left, so a promised task is not queued; no worker  *)
(* that has left runs a task; so the task has been executed.               *)
LEMMA DrainInvSuffices == DrainInv => DrainRunsWhatItFound
<1> SUFFICES ASSUME DrainInv, joined, NEW task \in promised
             PROVE  executions[task] > 0
  BY DEF DrainRunsWhatItFound
<1>1. PICK w \in Workers : wpc[w] = "exited"
  BY PoolAssumption DEF DrainInv, JoinedAreExited
<1>2. ~InQueue(task)
  BY <1>1 DEF DrainInv, LeavingWorkersSawAll
<1>3. ~BeingRun(task)
  BY PoolAssumption
  DEF BeingRun, DrainInv, JoinedAreExited, BaseInv, HoldsWhileRunning, TypeInv, TypeOK
<1> QED
  BY <1>2, <1>3 DEF Located, DrainInv, PromisedAreLocated

LEMMA DrainInvLeavesLate == DrainInv => OnlyLateTasksAreLeft
BY PoolAssumption DEF DrainInv, JoinedAreExited, LeavingWorkersSawAll, OnlyLateTasksAreLeft

(* What appending and taking do to membership of the queue.                *)
LEMMA EnqueueMembers ==
    ASSUME TypeInv, NEW item \in Tasks, Enqueue(item), NEW task \in Tasks
    PROVE  InQueue(task)' <=> InQueue(task) \/ task = item
<1>1. queue \in Seq(Tasks) /\ queue' = Append(queue, item)
  BY DEF TypeInv, TypeOK, QTypeOK, Enqueue
<1>2. /\ DOMAIN queue' = 1 .. Len(queue) + 1 /\ DOMAIN queue = 1 .. Len(queue)
      /\ \A i \in 1 .. Len(queue) : queue'[i] = queue[i]
      /\ queue'[Len(queue) + 1] = item
      /\ Len(queue) \in Nat
  BY <1>1
<1> QED BY <1>2 DEF InQueue

LEMMA DequeueMembers ==
    ASSUME TypeInv, queue # <<>>, Dequeue, NEW task \in Tasks
    PROVE  InQueue(task) <=> InQueue(task)' \/ task = Head(queue)
<1>1. queue \in Seq(Tasks) /\ queue' = Tail(queue)
  BY DEF TypeInv, TypeOK, QTypeOK, Dequeue
<1>2. /\ DOMAIN queue' = 1 .. Len(queue) - 1 /\ DOMAIN queue = 1 .. Len(queue)
      /\ \A i \in 1 .. Len(queue) - 1 : queue'[i] = queue[i + 1]
      /\ queue[1] = Head(queue)
      /\ Len(queue) \in Nat \ {0}
  BY <1>1
<1>3. ASSUME NEW i \in DOMAIN queue, queue[i] = task, task # Head(queue)
      PROVE  InQueue(task)'
  <2>1. i - 1 \in DOMAIN queue' /\ queue'[i - 1] = queue[i]
    BY <1>2, <1>3
  <2> QED BY <2>1, <1>3 DEF InQueue
<1>4. ASSUME NEW i \in DOMAIN queue', queue'[i] = task PROVE InQueue(task)
  <2>1. i + 1 \in DOMAIN queue /\ queue[i + 1] = task
    BY <1>2, <1>4
  <2> QED BY <2>1 DEF InQueue
<1> QED BY <1>2, <1>3, <1>4 DEF InQueue

(* What a step of a worker does to the tasks: none is mislaid, none comes  *)
(* into the queue, and a worker leaves only if nothing is queued any more. *)
WorkerEffects ==
    /\ \A task \in Tasks : Located(task) => Located(task)'
    /\ \A task \in Tasks : InQueue(task)' => InQueue(task)
    /\ \A v \in Workers : wpc[v] = "exited" => wpc'[v] = "exited"
    /\ \A v \in Workers : wpc'[v] = "exited" =>
          wpc[v] = "exited" \/ (shutdown /\ queue' = <<>>)

LEMMA WorkerStepEffects ==
    ASSUME BaseInv, NEW w \in Workers, WorkerStep(w)
    PROVE  WorkerEffects
<1>t. /\ TypeInv
      /\ wpc \in [Workers -> WorkerPCs]
      /\ running \in [Workers -> Tasks \cup {NoTask}]
      /\ executions \in [Tasks -> Nat]
      /\ HoldsWhileRunning
  BY DEF BaseInv, TypeInv, TypeOK
<1>same. ASSUME queue' = queue PROVE \A task \in Tasks : InQueue(task)' <=> InQueue(task)
  BY <1>same DEF InQueue
<1> USE PoolAssumption DEF WorkerGoesTo
<1>1. CASE TakeTask(w)
  <2>0. executions' = executions /\ wpc[w] = "waitPop"
    BY <1>1 DEF TakeTask
  <2>1. CASE PopSleeps(w) /\ UNCHANGED <<wpc, running>>
    <3>1. queue' = queue
      BY <2>1 DEF PopSleeps
    <3> QED BY <2>0, <2>1, <3>1, <1>same DEF WorkerEffects, Located, BeingRun
  <2>2. CASE PopFindsClosed /\ WorkerGoesTo(w, "exited") /\ UNCHANGED running
    <3>1. shutdown /\ queue = <<>> /\ queue' = queue
      BY <2>2 DEF PopFindsClosed, qvars
    <3> QED BY <1>t, <2>0, <2>2, <3>1, <1>same DEF WorkerEffects, Located, BeingRun
  <2>3. ASSUME NEW item \in Tasks, PopTakes(item),
               running' = [running EXCEPT ![w] = item], WorkerGoesTo(w, "task")
        PROVE  WorkerEffects
    <3>1. \A task \in Tasks : InQueue(task) <=> InQueue(task)' \/ task = item
      BY <1>t, <2>3, DequeueMembers DEF PopTakes
    <3>2. running[w] = NoTask
      BY <2>0, <1>t DEF HoldsWhileRunning
    <3>3. \A task \in Tasks : BeingRun(task) \/ task = item => BeingRun(task)'
      BY <1>t, <2>3, <3>2 DEF BeingRun
    <3>4. \A v \in Workers : (wpc[v] = "exited" <=> wpc'[v] = "exited")
      BY <1>t, <2>0, <2>3
    <3> QED BY <2>0, <3>1, <3>3, <3>4 DEF WorkerEffects, Located
  <2> QED BY <1>1, <2>1, <2>2, <2>3 DEF TakeTask
<1>2. CASE TaskEnds(w)
  <2>1. /\ running[w] \in Tasks /\ queue' = queue
        /\ executions' = [executions EXCEPT ![running[w]] = @ + 1]
        /\ running' = [running EXCEPT ![w] = NoTask]
        /\ wpc[w] = "task" /\ wpc' = [wpc EXCEPT ![w] = "count"]
    BY <1>2, <1>t DEF TaskEnds, HoldsWhileRunning, qvars
  <2>2. ASSUME NEW task \in Tasks, BeingRun(task) \/ executions[task] > 0
        PROVE  (BeingRun(task) \/ executions[task] > 0)'
    <3>1. executions'[running[w]] > 0
      BY <1>t, <2>1
    <3>2. executions[task] > 0 => executions'[task] > 0
      BY <1>t, <2>1
    <3> QED BY <1>t, <2>1, <2>2, <3>1, <3>2 DEF BeingRun
  <2>3. \A v \in Workers : (wpc[v] = "exited" <=> wpc'[v] = "exited")
    BY <1>t, <2>1
  <2> QED BY <2>1, <2>2, <2>3, <1>same DEF WorkerEffects, Located
<1>3. CASE CountTask(w)
  <2>1. /\ queue' = queue /\ UNCHANGED <<executions, running>>
        /\ wpc[w] = "count" /\ wpc' = [wpc EXCEPT ![w] = "waitPop"]
    BY <1>3 DEF CountTask, qvars
  <2> QED BY <1>t, <2>1, <1>same DEF WorkerEffects, Located, BeingRun
<1> QED BY <1>1, <1>2, <1>3 DEF WorkerStep

LEMMA WorkerStepDrain ==
    ASSUME DrainInv, NEW w \in Workers, WorkerStep(w)
    PROVE  DrainInv'
<1>b. BaseInv' /\ BaseInv /\ WorkerEffects /\ promised \subseteq Tasks
  BY WorkerStepBase, WorkerStepEffects DEF DrainInv, BaseInv, TypeInv, TypeOK
<1>c. UNCHANGED <<active, joined, callvars, ghosts>> /\ shutdown' = shutdown
  BY DEF WorkerStep, TakeTask, TaskEnds, CountTask, PopSleeps, PopFindsClosed, PopTakes,
         Dequeue, qvars
<1>1. OneShutdown'
  BY <1>c DEF DrainInv, OneShutdown, callvars, ghosts
<1>2. AcceptedAreLocated' /\ PromisedAreLocated'
  BY <1>b, <1>c
  DEF DrainInv, AcceptedAreLocated, PromisedAreLocated, Accepted, callvars, ghosts, WorkerEffects
<1>3. JoinedAreExited'
  BY <1>b, <1>c DEF DrainInv, JoinedAreExited, WorkerEffects
<1>4. LeavingWorkersSawAll'
  BY <1>b, <1>c DEF DrainInv, LeavingWorkersSawAll, ghosts, WorkerEffects, InQueue
<1> QED BY <1>b, <1>1, <1>2, <1>3, <1>4 DEF DrainInv

(* What a step inside tryEnqueueTask does: the answer true is given for a  *)
(* task that is in the queue now, unless the queue was shut down; what     *)
(* enters a queue already shut down is late; nothing else moves.           *)
EnqueueEffects(t) ==
    /\ UNCHANGED <<poolvars, stopped, promised, shutdown>>
    /\ \A task \in Tasks : InQueue(task) => InQueue(task)'
    /\ \A task \in Tasks : InQueue(task)' => InQueue(task) \/ task = arg[t]
    /\ late \subseteq late'
    /\ shutdown => \A task \in Tasks : InQueue(task)' => InQueue(task) \/ task \in late'
    /\ \A task \in Tasks : result'[task] # result[task] =>
           task = arg[t] /\ (result'[task] = "true" => shutdown \/ InQueue(task)')
    /\ \A u \in Threads : u # t => call'[u] = call[u]
    /\ call[t] \in EnqueuePCs /\ call'[t] \in EnqueuePCs \cup {"none"}

LEMMA EnqueueStepEffects ==
    ASSUME BaseInv, NEW t \in Threads, EnqueueStep(t)
    PROVE  EnqueueEffects(t)
<1>t. /\ TypeInv
      /\ call \in [Threads -> {"none"} \cup EnqueuePCs \cup ShutdownPCs]
      /\ result \in [Tasks -> {"none", "pending", "true", "false"}]
      /\ call[t] \in EnqueuePCs => arg[t] \in Tasks
  BY DEF BaseInv, TypeInv, TypeOK, SubmitsPending
<1>same. ASSUME queue' = queue PROVE \A task \in Tasks : InQueue(task)' <=> InQueue(task)
  BY <1>same DEF InQueue
<1> USE PoolAssumption DEF EnqueuePCs, CallGoesTo, EnqueueReturns, ghosts
<1>acc. ASSUME arg[t] \in Tasks, Enqueue(arg[t])
        PROVE  /\ shutdown' = shutdown
               /\ \A task \in Tasks : InQueue(task)' <=> InQueue(task) \/ task = arg[t]
  BY <1>acc, <1>t, EnqueueMembers DEF Enqueue
<1>1. CASE ReadActive(t)
  BY <1>1, <1>t, <1>same DEF ReadActive, EnqueueEffects, qvars
<1>2. CASE Push(t)
  <2>1. CASE PushSleeps(t) /\ UNCHANGED <<call, arg, result>>
    BY <1>2, <2>1, <1>t, <1>same DEF Push, PushSleeps, EnqueueEffects
  <2>2. CASE PushDrops /\ EnqueueReturns(t, "true")
    BY <1>2, <2>2, <1>t, <1>same DEF Push, PushDrops, EnqueueEffects, qvars
  <2>3. CASE PushAccepts(arg[t]) /\ EnqueueReturns(t, "true")
    BY <1>2, <2>3, <1>t, <1>acc DEF Push, PushAccepts, EnqueueEffects
  <2> QED BY <1>2, <2>1, <2>2, <2>3 DEF Push
<1>3. CASE TryPushEntry(t)
  BY <1>3, <1>t, <1>same DEF TryPushEntry, EnqueueEffects, qvars
<1>4. CASE TryPushLocked(t)
  <2>1. CASE TryPushRefuses /\ EnqueueReturns(t, "false") /\ UNCHANGED late
    BY <1>4, <2>1, <1>t, <1>same DEF TryPushLocked, TryPushRefuses, EnqueueEffects, qvars
  <2>2. CASE TryPushAccepts(arg[t]) /\ EnqueueReturns(t, "true") /\ NoteLate(arg[t])
    BY <1>4, <2>2, <1>t, <1>acc DEF TryPushLocked, TryPushAccepts, EnqueueEffects, NoteLate
  <2> QED BY <1>4, <2>1, <2>2 DEF TryPushLocked
<1> QED BY <1>1, <1>2, <1>3, <1>4 DEF EnqueueStep

LEMMA EnqueueStepDrain ==
    ASSUME DrainInv, NEW t \in Threads, EnqueueStep(t)
    PROVE  DrainInv'
<1>b. BaseInv' /\ BaseInv /\ EnqueueEffects(t) /\ promised \subseteq Tasks
  BY EnqueueStepBase, EnqueueStepEffects DEF DrainInv, BaseInv, TypeInv, TypeOK
<1>p. /\ arg[t] \in Tasks /\ result[arg[t]] = "pending"
      /\ \A task \in promised : task # arg[t]
  BY <1>b DEF BaseInv, SubmitsPending, DrainInv, PromisedAreLocated, EnqueueEffects
<1>l. \A task \in Tasks : Located(task) => Located(task)'
  BY <1>b DEF Located, BeingRun, EnqueueEffects, poolvars
<1>1. OneShutdown'
  BY <1>b DEF DrainInv, OneShutdown, EnqueueEffects, poolvars, Closing, EnqueuePCs, Threads
<1>2. AcceptedAreLocated'
  <2> SUFFICES ASSUME active', NEW task \in Tasks, result'[task] = "true"
               PROVE  Located(task)'
    BY DEF AcceptedAreLocated, Accepted
  <2>1. active /\ ~shutdown
    BY <1>b DEF EnqueueEffects, poolvars, DrainInv, OneShutdown
  <2>2. CASE result[task] = "true"
    BY <2>1, <2>2, <1>l DEF DrainInv, AcceptedAreLocated, Accepted
  <2>3. CASE result[task] # "true"
    BY <2>1, <2>3, <1>b DEF EnqueueEffects, Located
  <2> QED BY <2>2, <2>3
<1>3. PromisedAreLocated'
  BY <1>b, <1>p, <1>l DEF DrainInv, PromisedAreLocated, EnqueueEffects
<1>4. JoinedAreExited'
  BY <1>b DEF DrainInv, JoinedAreExited, EnqueueEffects, poolvars
<1>5. LeavingWorkersSawAll'
  BY <1>b, <1>p DEF DrainInv, LeavingWorkersSawAll, EnqueueEffects, poolvars
<1> QED BY <1>b, <1>1, <1>2, <1>3, <1>4, <1>5 DEF DrainInv

LEMMA SameQueueMembers ==
    ASSUME queue' = queue
    PROVE  \A task \in Tasks : InQueue(task)' <=> InQueue(task)
BY DEF InQueue

LEMMA ShutdownStepDrain ==
    ASSUME DrainInv, NEW c \in Callers, ShutdownStep(c)
    PROVE  DrainInv'
<1>b. /\ BaseInv' /\ BaseInv /\ promised \subseteq Tasks
      /\ call \in [Threads -> {"none"} \cup EnqueuePCs \cup ShutdownPCs]
      /\ c \in Threads /\ Callers \subseteq Threads
  BY ShutdownStepBase DEF DrainInv, BaseInv, TypeInv, TypeOK, Threads
<1>d. /\ OneShutdown /\ AcceptedAreLocated /\ PromisedAreLocated
      /\ LeavingWorkersSawAll /\ JoinedAreExited
  BY DEF DrainInv
<1>w. UNCHANGED <<wpc, running, executions, result, late>>
  BY DEF ShutdownStep, ExchangeActive, ClearTasks, DrainEnds, ShutdownQueue, JoinWorkers,
         ShutdownReturns, CallGoesTo, poolvars, ghosts
<1> USE DEF ghosts
<1>l. ASSUME queue' = queue PROVE \A task \in Tasks : Located(task)' <=> Located(task)
  BY <1>l, <1>w, SameQueueMembers DEF Located, BeingRun
<1>1. CASE ExchangeActive(c)
  <2>1. queue' = queue /\ shutdown' = shutdown /\ joined' = joined /\ active' = FALSE
    BY <1>1 DEF ExchangeActive, qvars
  <2>2. CASE active
    <3>1. \A u \in Callers : call[u] \notin Closing
      BY <1>d, <2>2 DEF OneShutdown
    <3>2. promised' = promised \/ (promised' = Accepted /\ call' = [call EXCEPT ![c] = "drain"])
      BY <1>1 DEF ExchangeActive, CallGoesTo
    <3>3. promised = {} /\ ~shutdown /\ ~joined
      BY <1>d, <2>2 DEF OneShutdown
    <3>4. /\ \A u \in Threads : u # c => call'[u] = call[u]
          /\ call'[c] \in {"none", "clear", "drain"}
      BY <1>1, <1>b DEF ExchangeActive, CallGoesTo, ShutdownReturns
    <3>5. OneShutdown'
      BY <1>b, <2>1, <3>1, <3>2, <3>3, <3>4 DEF OneShutdown, Closing
    <3>6. PromisedAreLocated'
      BY <1>d, <1>w, <1>l, <2>1, <2>2, <3>2, <3>3
      DEF PromisedAreLocated, AcceptedAreLocated, Accepted
    <3>7. LeavingWorkersSawAll' /\ JoinedAreExited' /\ AcceptedAreLocated'
      BY <1>d, <1>w, <2>1, <3>3 DEF LeavingWorkersSawAll, JoinedAreExited, AcceptedAreLocated
    <3> QED BY <1>b, <3>5, <3>6, <3>7 DEF DrainInv
  <2>3. CASE ~active
    <3>1. promised' = promised /\ call' = [call EXCEPT ![c] = "none"]
      BY <1>1, <2>3 DEF ExchangeActive, ShutdownReturns, CallGoesTo
    <3>2. OneShutdown'
      BY <1>b, <1>d, <2>1, <3>1 DEF OneShutdown
    <3>3. PromisedAreLocated' /\ LeavingWorkersSawAll'
      BY <1>b, <1>d, <1>w, <1>l, <2>1, <3>1, SameQueueMembers
      DEF PromisedAreLocated, LeavingWorkersSawAll
    <3> QED BY <1>b, <1>d, <1>w, <2>1, <3>2, <3>3 DEF DrainInv, JoinedAreExited, AcceptedAreLocated
  <2> QED BY <2>2, <2>3
<1> DEFINE Moves ==
        /\ active' = active /\ promised' = promised /\ late' = late /\ call[c] \in Closing
        /\ \A u \in Callers : call'[u] = "clear" => call[u] = "clear"
<1>m. ASSUME Moves PROVE OneShutdown' /\ AcceptedAreLocated' /\ ~active
  BY <1>m, <1>d DEF OneShutdown, AcceptedAreLocated
<1>2. CASE ClearTasks(c)
  <2>1. Moves /\ queue' = <<>> /\ promised = {} /\ shutdown' = shutdown /\ joined' = joined
    BY <1>2, <1>b, <1>d DEF ClearTasks, ClearQueue, CallGoesTo, OneShutdown, Closing, poolvars
  <2>2. PromisedAreLocated' /\ LeavingWorkersSawAll' /\ JoinedAreExited'
    BY <1>d, <1>w, <2>1 DEF PromisedAreLocated, InQueue, LeavingWorkersSawAll,
       JoinedAreExited
  <2> QED BY <1>b, <1>m, <2>1, <2>2 DEF DrainInv
<1>3. CASE DrainEnds(c)
  <2>1. Moves /\ queue' = queue /\ shutdown' = shutdown /\ joined' = joined
    BY <1>3, <1>b DEF DrainEnds, CallGoesTo, Closing, poolvars, qvars
  <2>2. PromisedAreLocated' /\ LeavingWorkersSawAll' /\ JoinedAreExited'
    BY <1>b, <1>d, <1>w, <1>l, <2>1, SameQueueMembers
    DEF PromisedAreLocated, LeavingWorkersSawAll, JoinedAreExited
  <2> QED BY <1>b, <1>m, <2>1, <2>2 DEF DrainInv
<1>4. CASE ShutdownQueue(c)
  <2>1. Moves /\ queue' = queue /\ shutdown' /\ joined' = joined
    BY <1>4, <1>b DEF ShutdownQueue, CloseQueue, CallGoesTo, Closing, poolvars
  <2>2. PromisedAreLocated' /\ LeavingWorkersSawAll' /\ JoinedAreExited'
    BY <1>b, <1>d, <1>w, <1>l, <2>1, SameQueueMembers
    DEF PromisedAreLocated, LeavingWorkersSawAll, JoinedAreExited
  <2> QED BY <1>b, <1>m, <2>1, <2>2 DEF DrainInv
<1>5. CASE JoinWorkers(c)
  <2>1. Moves /\ queue' = queue /\ shutdown' = shutdown
    BY <1>5, <1>b DEF JoinWorkers, ShutdownReturns, CallGoesTo, Closing, qvars
  <2>2. PromisedAreLocated' /\ LeavingWorkersSawAll'
    BY <1>b, <1>d, <1>w, <1>l, <2>1, SameQueueMembers
    DEF PromisedAreLocated, LeavingWorkersSawAll
  <2>3. JoinedAreExited'
    BY <1>5, <1>w DEF JoinWorkers, JoinedAreExited
  <2> QED BY <1>b, <1>m, <2>1, <2>2, <2>3 DEF DrainInv
<1> QED BY <1>1, <1>2, <1>3, <1>4, <1>5 DEF ShutdownStep

LEMMA NewCallDrain ==
    ASSUME DrainInv,
           \/ \E t \in Threads, task \in Tasks : CallTryEnqueueTask(t, task)
           \/ \E c \in Callers, operation \in ShutdownFunctions : BeginShutdown(c, operation)
           \/ \E t \in Threads : Spurious(t)
           \/ UNCHANGED vars
    PROVE  DrainInv'
<1>b. /\ BaseInv' /\ BaseInv /\ promised \subseteq Tasks
      /\ call \in [Threads -> {"none"} \cup EnqueuePCs \cup ShutdownPCs]
      /\ result \in [Tasks -> {"none", "pending", "true", "false"}]
      /\ Callers \subseteq Threads
  BY NewCallBase, StutterBase DEF DrainInv, BaseInv, TypeInv, TypeOK, Threads
<1> DEFINE Quiet ==
        /\ UNCHANGED <<poolvars, ghosts, queue, shutdown>>
        /\ \A task \in Tasks : result'[task] = "true" <=> result[task] = "true"
        /\ \A u \in Callers : call'[u] \in Closing => call'[u] = call[u]
<1>1. Quiet
  <2>1. ASSUME NEW t \in Threads, NEW task \in Tasks, CallTryEnqueueTask(t, task)
        PROVE  Quiet
    BY <1>b, <2>1 DEF CallTryEnqueueTask, qvars, Closing
  <2>2. ASSUME NEW c \in Callers, NEW operation \in ShutdownFunctions, BeginShutdown(c, operation)
        PROVE  Quiet
    BY <1>b, <2>2 DEF ShutdownFunctions, BeginShutdown, CallGoesTo, qvars, Closing
  <2>3. ASSUME NEW t \in Threads, Spurious(t) PROVE Quiet
    BY <2>3 DEF Spurious, WakesUp, callvars
  <2>4. CASE UNCHANGED vars
    BY <2>4 DEF vars, qvars, callvars
  <2> QED BY <2>1, <2>2, <2>3, <2>4
<1>l. \A task \in Tasks : Located(task)' <=> Located(task)
  BY <1>1, SameQueueMembers DEF Located, BeingRun, poolvars
<1>2. OneShutdown'
  BY <1>1 DEF DrainInv, OneShutdown, poolvars, ghosts, Closing
<1>3. AcceptedAreLocated' /\ PromisedAreLocated'
  BY <1>b, <1>1, <1>l DEF DrainInv, AcceptedAreLocated, PromisedAreLocated, Accepted, poolvars, ghosts
<1>4. LeavingWorkersSawAll' /\ JoinedAreExited'
  BY <1>b, <1>1, SameQueueMembers
  DEF DrainInv, LeavingWorkersSawAll, JoinedAreExited, poolvars, ghosts
<1> QED BY <1>b, <1>2, <1>3, <1>4 DEF DrainInv

LEMMA DrainInvStep == DrainInv /\ [AnyStep]_vars => DrainInv'
BY WorkerStepDrain, EnqueueStepDrain, ShutdownStepDrain, NewCallDrain, ShutdownBegins
DEF AnyStep, Next, PoolStep, AtRest

(* shutdownProcessRemainingTasks runs every task it found accepted, for    *)
(* any number of workers, submitters and tasks, any capacity and any       *)
(* number of concurrent shutdown calls.                                    *)
THEOREM DrainKeepsPromises == Spec => []DrainRunsWhatItFound
<1> QED
  BY DrainInvInit, DrainInvStep, NextIsAnyStep, DrainInvSuffices, PTL DEF Spec

(* A task can be left behind in the queue of a pool that has been shut     *)
(* down only if a tryPush that had passed its test of _shutdown appended   *)
(* it afterwards.                                                          *)
THEOREM NothingButLateTasksIsLeft == Spec => []OnlyLateTasksAreLeft
<1> QED
  BY DrainInvInit, DrainInvStep, NextIsAnyStep, DrainInvLeavesLate, PTL DEF Spec

-----------------------------------------------------------------------------
(* A sleeper is inside the call that waits on its condition variable, and  *)
(* a worker calls a function of the pool only from inside a task.          *)
SleepersInCalls ==
    /\ \A w \in cv : wpc[w] = "waitPop"
    /\ \A t \in cvFull : call[t] = "push"

NestedCallsRun == \A w \in Workers : call[w] # "none" => wpc[w] = "task"

WakeInv ==
    /\ DrainInv
    /\ SleepersInCalls
    /\ NestedCallsRun
    /\ NobodySleepsAfterShutdown

LEMMA WakeInvInit == Init => WakeInv
BY DrainInvInit
DEF Init, QInit, WakeInv, SleepersInCalls, NestedCallsRun, NobodySleepsAfterShutdown, Threads

LEMMA WakeInvTypes ==
    ASSUME WakeInv
    PROVE  /\ BaseInv /\ TypeInv
           /\ queue \in Seq(Tasks) /\ Len(queue) \in Nat
           /\ cv \subseteq Workers /\ cvFull \subseteq Threads
           /\ wpc \in [Workers -> WorkerPCs]
           /\ call \in [Threads -> {"none"} \cup EnqueuePCs \cup ShutdownPCs]
           /\ Workers \subseteq Threads /\ Callers \subseteq Threads
           /\ \A t \in Threads : call[t] \in EnqueuePCs => arg[t] \in Tasks
           /\ MaxSize \in Nat
BY LenProperties, MaxSizeAssumption
DEF WakeInv, DrainInv, BaseInv, TypeInv, TypeOK, QTypeOK, SubmitsPending, Threads

LEMMA WakeInvStep == WakeInv /\ [Next]_vars => WakeInv'
<1> SUFFICES ASSUME WakeInv, [Next]_vars PROVE WakeInv'
  OBVIOUS
<1>d. DrainInv'
  BY DrainInvStep, NextIsAnyStep DEF WakeInv
<1>t. /\ wpc \in [Workers -> WorkerPCs]
      /\ call \in [Threads -> {"none"} \cup EnqueuePCs \cup ShutdownPCs]
      /\ cv \subseteq Workers /\ cvFull \subseteq Threads
      /\ Workers \subseteq Threads /\ Callers \subseteq Threads /\ Workers \cap Callers = {}
      /\ SleepersInCalls /\ NestedCallsRun /\ NobodySleepsAfterShutdown
  BY WakeInvTypes, PoolAssumption DEF WakeInv
<1> DEFINE Goal == (SleepersInCalls /\ NestedCallsRun /\ NobodySleepsAfterShutdown)'
<1> SUFFICES Goal
  BY <1>d DEF WakeInv
<1> USE DEF SleepersInCalls, NestedCallsRun, NobodySleepsAfterShutdown
<1>1. ASSUME NEW w \in Workers, WorkerStep(w) PROVE Goal
  <2>1. CASE TakeTask(w) /\ PopSleeps(w)
    BY <1>1, <2>1, <1>t DEF TakeTask, PopSleeps, WorkerGoesTo, callvars, PopFindsClosed, PopTakes
  <2>2. CASE TakeTask(w) /\ PopFindsClosed
    BY <1>1, <2>2, <1>t DEF TakeTask, PopFindsClosed, WorkerGoesTo, callvars, qvars, PopSleeps, PopTakes
  <2>3. ASSUME TakeTask(w), NEW task \in Tasks, PopTakes(task), WorkerGoesTo(w, "task") PROVE Goal
    <3>1. /\ cv' = cv /\ cvFull' \subseteq cvFull /\ shutdown' = shutdown
          /\ call' = call /\ wpc' = [wpc EXCEPT ![w] = "task"] /\ w \notin cv
      BY <2>3, NotifyOneFacts DEF TakeTask, PopTakes, Dequeue, WorkerGoesTo, callvars
    <3> QED BY <3>1, <1>t
  <2>4. CASE TaskEnds(w)
    BY <1>1, <2>4, <1>t DEF TaskEnds, WorkerGoesTo, callvars, qvars
  <2>5. CASE CountTask(w)
    BY <1>1, <2>5, <1>t DEF CountTask, WorkerGoesTo, callvars, qvars
  <2> QED BY <1>1, <2>1, <2>2, <2>3, <2>4, <2>5 DEF WorkerStep, TakeTask
<1>2. ASSUME NEW t \in Threads, EnqueueStep(t) PROVE Goal
  <2>0. wpc' = wpc /\ call[t] \in EnqueuePCs /\ call' = [call EXCEPT ![t] = call'[t]]
    BY <1>2, <1>t DEF EnqueueStep, ReadActive, Push, TryPushEntry, TryPushLocked, CallGoesTo,
       EnqueueReturns, EnqueuePCs, poolvars
  <2>1. CASE ReadActive(t) \/ TryPushEntry(t)
    <3>1. /\ cv' = cv /\ cvFull' = cvFull /\ shutdown' = shutdown
          /\ call[t] \in {"tryEnqueueTask", "tryPush"}
      BY <2>1 DEF ReadActive, TryPushEntry, qvars
    <3> QED BY <2>0, <3>1, <1>t
  <2>2. CASE Push(t)
    <3>1. CASE PushSleeps(t) /\ UNCHANGED <<call, arg, result>>
      BY <2>0, <2>2, <3>1, <1>t DEF Push, PushSleeps, EnqueuePCs
    <3>2. CASE PushDrops /\ EnqueueReturns(t, "true")
      BY <2>0, <2>2, <3>2, <1>t DEF Push, PushDrops, qvars, EnqueuePCs
    <3>3. CASE PushAccepts(arg[t]) /\ EnqueueReturns(t, "true")
      <4>1. cv' \subseteq cv /\ cvFull' = cvFull /\ shutdown' = shutdown /\ t \notin cvFull
        BY <2>2, <3>3, NotifyOneFacts DEF Push, PushAccepts, Enqueue
      <4> QED BY <2>0, <4>1, <1>t DEF EnqueuePCs
    <3> QED BY <2>2, <3>1, <3>2, <3>3 DEF Push
  <2>3. CASE TryPushLocked(t)
    <3>1. /\ cv' \subseteq cv /\ cvFull' = cvFull /\ shutdown' = shutdown
          /\ call[t] = "tryPush locked"
      BY <2>3, NotifyOneFacts DEF TryPushLocked, TryPushAccepts, TryPushRefuses, Enqueue, qvars
    <3> QED BY <2>0, <3>1, <1>t DEF EnqueuePCs
  <2> QED BY <1>2, <2>1, <2>2, <2>3 DEF EnqueueStep
<1>3. ASSUME NEW c \in Callers, ShutdownStep(c) \/ CallShutdown(c) PROVE Goal
  <2>1. /\ wpc' = wpc /\ call' = [call EXCEPT ![c] = call'[c]]
        /\ call[c] # "push"
    BY <1>3, <1>t DEF ShutdownStep, CallShutdown, BeginShutdown, ExchangeActive, ClearTasks, DrainEnds,
       ShutdownQueue, JoinWorkers, ShutdownReturns, CallGoesTo, poolvars, ShutdownFunctions
  <2>2. \/ cv' = cv /\ cvFull' = cvFull /\ shutdown' = shutdown
        \/ cv' = {} /\ cvFull' = {}
    BY <1>3 DEF ShutdownStep, CallShutdown, BeginShutdown, ExchangeActive, ClearTasks, DrainEnds,
       ShutdownQueue, JoinWorkers, qvars, ClearQueue, CloseQueue
  <2> QED BY <2>1, <2>2, <1>t
<1>4. ASSUME NEW t \in Threads, NEW task \in Tasks, CallTryEnqueueTask(t, task) PROVE Goal
  BY <1>4, <1>t DEF CallTryEnqueueTask, MaySubmit, qvars, poolvars
<1>5. ASSUME NEW t \in Threads, Spurious(t) PROVE Goal
  BY <1>5, <1>t DEF Spurious, WakesUp, poolvars, callvars
<1>6. CASE UNCHANGED vars
  BY <1>6, <1>t DEF vars, qvars, poolvars, callvars
<1> QED BY <1>1, <1>2, <1>3, <1>4, <1>5, <1>6 DEF Next, PoolStep, AtRest
-----------------------------------------------------------------------------
LEMMA AwakeAreFinite ==
    /\ IsFiniteSet(AwakePoppers) /\ IsFiniteSet(AwakePushers)
    /\ Cardinality(AwakePoppers) \in Nat /\ Cardinality(AwakePushers) \in Nat
<1>1. AwakePoppers \subseteq Workers /\ AwakePushers \subseteq Threads
  BY DEF AwakePoppers, AwakePushers
<1>2. IsFiniteSet(Threads)
  BY PoolAssumption, FS_Union DEF Threads
<1> QED BY <1>1, <1>2, FS_Subset, FS_CardinalityType, PoolAssumption

LEMMA AwakeStayFinite ==
    /\ IsFiniteSet(AwakePoppers') /\ IsFiniteSet(AwakePushers')
    /\ Cardinality(AwakePoppers') \in Nat /\ Cardinality(AwakePushers') \in Nat
<1>1. AwakePoppers' \subseteq Workers /\ AwakePushers' \subseteq Threads
  BY DEF AwakePoppers, AwakePushers
<1>2. IsFiniteSet(Threads)
  BY PoolAssumption, FS_Union DEF Threads
<1> QED BY <1>1, <1>2, FS_Subset, FS_CardinalityType, PoolAssumption

(* The lengths before and after the sections that change the queue.        *)
LEMMA LengthAfter ==
    ASSUME WakeInv
    PROVE  /\ \A item \in Tasks : Enqueue(item) => Len(queue') = Len(queue) + 1
           /\ queue # <<>> /\ Dequeue => Len(queue') = Len(queue) - 1 /\ Len(queue') \in Nat
BY WakeInvTypes DEF Enqueue, Dequeue

LEMMA NoIdleWorkerStep ==
    WakeInv /\ NoIdleWorkerWhileTasksWait /\ [Next]_vars => NoIdleWorkerWhileTasksWait'
<1> SUFFICES ASSUME WakeInv, NoIdleWorkerWhileTasksWait, [Next]_vars, cv' # {}
             PROVE  Len(queue') <= Cardinality(AwakePoppers')
  BY DEF NoIdleWorkerWhileTasksWait
<1>t. /\ wpc \in [Workers -> WorkerPCs]
      /\ cv \subseteq {w \in Workers : wpc[w] = "waitPop"}
      /\ Len(queue) \in Nat
      /\ cv # {} => Len(queue) <= Cardinality(AwakePoppers)
      /\ IsFiniteSet(AwakePoppers) /\ IsFiniteSet(AwakePoppers')
      /\ Cardinality(AwakePoppers) \in Nat /\ Cardinality(AwakePoppers') \in Nat
  BY WakeInvTypes, AwakeAreFinite, AwakeStayFinite
  DEF WakeInv, SleepersInCalls, NoIdleWorkerWhileTasksWait
<1> DEFINE Goal == Len(queue') <= Cardinality(AwakePoppers')
<1>same. ASSUME queue' = queue, cv # {}, AwakePoppers \subseteq AwakePoppers'
         PROVE  Goal
  BY <1>same, <1>t, NotFewer
<1>none. ASSUME queue' = <<>> PROVE Goal
  BY <1>none, <1>t, EmptySeq
<1>enq. ASSUME NEW item \in Tasks, Enqueue(item), wpc' = wpc PROVE Goal
  <2>1. PICK t \in cv : cv' = cv \ {t}
    BY <1>enq, NotifyOneFacts DEF Enqueue
  <2>2. t \notin AwakePoppers /\ AwakePoppers \cup {t} \subseteq AwakePoppers'
    BY <2>1, <1>enq, <1>t DEF AwakePoppers
  <2>3. Cardinality(AwakePoppers) + 1 <= Cardinality(AwakePoppers')
    BY <2>2, <1>t, OneMore
  <2>4. Len(queue') = Len(queue) + 1
    BY <1>enq, LengthAfter
  <2> QED BY <2>1, <2>3, <2>4, <1>t
<1>1. ASSUME NEW w \in Workers, WorkerStep(w) PROVE Goal
  <2>1. CASE TakeTask(w)
    <3>1. CASE PopSleeps(w) \/ PopFindsClosed
      BY <3>1, <1>none DEF PopSleeps, PopFindsClosed, qvars
    <3>2. ASSUME NEW task \in Tasks, PopTakes(task), WorkerGoesTo(w, "task") PROVE Goal
      <4>1. /\ Len(queue') = Len(queue) - 1 /\ cv' = cv
            /\ wpc[w] = "waitPop" /\ w \notin cv /\ wpc' = [wpc EXCEPT ![w] = "task"]
        BY <2>1, <3>2, LengthAfter DEF TakeTask, PopTakes, Dequeue, WorkerGoesTo
      <4>2. w \in AwakePoppers /\ AwakePoppers' = AwakePoppers \ {w}
        BY <4>1, <1>t DEF AwakePoppers
      <4>3. Cardinality(AwakePoppers') = Cardinality(AwakePoppers) - 1
        BY <4>2, <1>t, OneLess
      <4> QED BY <4>1, <4>3, <1>t
    <3> QED BY <2>1, <3>1, <3>2 DEF TakeTask
  <2>2. CASE TaskEnds(w) \/ CountTask(w)
    <3>1. /\ queue' = queue /\ cv' = cv /\ wpc[w] # "waitPop"
          /\ \E label : wpc' = [wpc EXCEPT ![w] = label]
      BY <2>2 DEF TaskEnds, CountTask, WorkerGoesTo, qvars
    <3>2. AwakePoppers \subseteq AwakePoppers'
      BY <3>1, <1>t DEF AwakePoppers
    <3> QED BY <3>1, <3>2, <1>same
  <2> QED BY <1>1, <2>1, <2>2 DEF WorkerStep
<1>quiet. ASSUME queue' = queue, cv' \subseteq cv, wpc' = wpc PROVE Goal
  <2>1. AwakePoppers \subseteq AwakePoppers' /\ cv # {}
    BY <1>quiet DEF AwakePoppers
  <2> QED BY <1>quiet, <2>1, <1>same
<1>2. ASSUME NEW t \in Threads, EnqueueStep(t) PROVE Goal
  <2>1. call[t] \in EnqueuePCs => arg[t] \in Tasks
    BY WakeInvTypes
  <2>2. CASE (PushAccepts(arg[t]) /\ call[t] = "push") \/ (TryPushAccepts(arg[t]) /\ call[t] = "tryPush locked")
    <3>1. wpc' = wpc
      BY <1>2 DEF EnqueueStep, ReadActive, Push, TryPushEntry, TryPushLocked, poolvars
    <3> QED BY <2>1, <2>2, <3>1, <1>enq DEF PushAccepts, TryPushAccepts, EnqueuePCs
  <2>3. CASE ~((PushAccepts(arg[t]) /\ call[t] = "push") \/ (TryPushAccepts(arg[t]) /\ call[t] = "tryPush locked"))
    <3>1. queue' = queue /\ cv' = cv /\ wpc' = wpc
      BY <1>2, <2>3 DEF EnqueueStep, ReadActive, Push, TryPushEntry, TryPushLocked, PushSleeps,
         PushDrops, TryPushRefuses, poolvars, qvars
    <3> QED BY <3>1, <1>quiet
  <2> QED BY <2>2, <2>3
<1>3. ASSUME NEW c \in Callers, ShutdownStep(c) \/ CallShutdown(c) PROVE Goal
  <2>1. \/ queue' = queue /\ cv' = cv /\ wpc' = wpc
        \/ queue' = <<>>
        \/ cv' = {}
    BY <1>3 DEF ShutdownStep, CallShutdown, BeginShutdown, ExchangeActive, ClearTasks, DrainEnds,
       ShutdownQueue, JoinWorkers, poolvars, qvars, ClearQueue, CloseQueue
  <2> QED BY <2>1, <1>none, <1>quiet
<1>4. ASSUME NEW t \in Threads, NEW task \in Tasks, CallTryEnqueueTask(t, task) PROVE Goal
  BY <1>4, <1>quiet DEF CallTryEnqueueTask, qvars, poolvars
<1>5. ASSUME NEW t \in Threads, Spurious(t) PROVE Goal
  <2>1. queue' = queue /\ cv' \subseteq cv /\ wpc' = wpc
    BY <1>5 DEF Spurious, WakesUp, poolvars
  <2> QED BY <2>1, <1>quiet
<1>6. CASE UNCHANGED vars
  BY <1>6, <1>quiet DEF vars, qvars, poolvars
<1> QED BY <1>1, <1>2, <1>3, <1>4, <1>5, <1>6 DEF Next, PoolStep, AtRest

(* While a worker sleeps in waitPop every queued task has an awake worker  *)
(* on its way to it, for any number of workers and submitters, nested      *)
(* submissions, spurious wakeups and shutdowns included.                   *)
THEOREM WorkersAreNotIdle == Spec => []NoIdleWorkerWhileTasksWait
<1>1. Init => NoIdleWorkerWhileTasksWait
  BY DEF Init, QInit, NoIdleWorkerWhileTasksWait
<1>2. WakeInv /\ NoIdleWorkerWhileTasksWait /\ [Next]_vars
          => (WakeInv /\ NoIdleWorkerWhileTasksWait)'
  BY WakeInvStep, NoIdleWorkerStep
<1> QED
  BY <1>1, <1>2, WakeInvInit, PTL DEF Spec

(* A pool that holds tasks and serves none of them has left, or is asleep  *)
(* as a whole in pushes its own tasks made.                                *)
LEMMA StallIsKnown ==
    WakeInv /\ NoIdleWorkerWhileTasksWait => StallsOnlyInOwnPush
<1> SUFFICES ASSUME WakeInv, NoIdleWorkerWhileTasksWait, queue # <<>>,
                    \A w \in Workers : ~Serving(w),
                    NEW w \in Workers, wpc[w] # "exited",
                    NEW v \in Workers
             PROVE  v \in cvFull
  BY DEF StallsOnlyInOwnPush
<1>1. cv = {}
  <2>1. AwakePoppers = {} /\ cv # {} => Len(queue) <= 0
    BY FS_EmptySet DEF NoIdleWorkerWhileTasksWait
  <2>2. AwakePoppers = {}
    BY DEF AwakePoppers, Serving, WakeInv, SleepersInCalls, NestedCallsRun
  <2>3. Len(queue) > 0
    BY WakeInvTypes, EmptySeq
  <2> QED BY <2>1, <2>2, <2>3, WakeInvTypes
<1>2. w \in cvFull
  BY <1>1 DEF Serving
<1>3. ~shutdown
  BY <1>2 DEF WakeInv, NobodySleepsAfterShutdown
<1>4. wpc[v] # "exited"
  BY <1>3 DEF WakeInv, DrainInv, LeavingWorkersSawAll
<1> QED BY <1>1, <1>4 DEF Serving

(* The pool stalls with tasks in its queue in one way only: every worker   *)
(* runs a task that is itself asleep in push.                              *)
THEOREM TheOnlyStall == Spec => []StallsOnlyInOwnPush
<1>1. Init => NoIdleWorkerWhileTasksWait
  BY DEF Init, QInit, NoIdleWorkerWhileTasksWait
<1>2. WakeInv /\ NoIdleWorkerWhileTasksWait /\ [Next]_vars
          => (WakeInv /\ NoIdleWorkerWhileTasksWait)'
  BY WakeInvStep, NoIdleWorkerStep
<1> QED
  BY <1>1, <1>2, WakeInvInit, StallIsKnown, PTL DEF Spec
-----------------------------------------------------------------------------
LEMMA NoStrandedSubmitterStep ==
    WakeInv /\ NoStrandedSubmitter /\ [Next]_vars => NoStrandedSubmitter'
<1> SUFFICES ASSUME WakeInv, NoStrandedSubmitter, [Next]_vars, cvFull' # {},
                    \A c \in Callers : call'[c] # "shutdown"
             PROVE  MaxSize <= Len(queue') + Cardinality(AwakePushers')
  BY DEF NoStrandedSubmitter
<1>t. /\ call \in [Threads -> {"none"} \cup EnqueuePCs \cup ShutdownPCs]
      /\ cvFull \subseteq {t \in Threads : call[t] = "push"}
      /\ Callers \subseteq Threads
      /\ MaxSize \in Nat /\ Len(queue) \in Nat /\ Len(queue') \in Nat
      /\ IsFiniteSet(AwakePushers) /\ IsFiniteSet(AwakePushers')
      /\ Cardinality(AwakePushers) \in Nat /\ Cardinality(AwakePushers') \in Nat
      /\ shutdown => cvFull = {}
  <2>1. WakeInv'
    BY WakeInvStep
  <2>2. Len(queue') \in Nat
    BY <2>1, LenProperties DEF WakeInv, DrainInv, BaseInv, TypeInv, TypeOK, QTypeOK
  <2> QED BY <2>2, WakeInvTypes, AwakeAreFinite, AwakeStayFinite
          DEF WakeInv, SleepersInCalls, NobodySleepsAfterShutdown
<1> DEFINE Goal == MaxSize <= Len(queue') + Cardinality(AwakePushers')
           Enough == MaxSize <= Len(queue) + Cardinality(AwakePushers)
<1>same. ASSUME Enough, Len(queue) <= Len(queue'), AwakePushers \subseteq AwakePushers'
         PROVE  Goal
  BY <1>same, <1>t, NotFewer
<1>full. ASSUME Full, queue' = queue PROVE Goal
  BY <1>full, <1>t DEF Full
<1>had. ASSUME \A c \in Callers : call'[c] = call[c] \/ call[c] # "shutdown", cvFull # {}
        PROVE  Enough
  BY <1>had DEF NoStrandedSubmitter
<1>quiet. ASSUME queue' = queue, cvFull' \subseteq cvFull,
                 \A t \in Threads : call'[t] = call[t] \/ call[t] \notin {"push", "shutdown"}
          PROVE  Goal
  <2>1. AwakePushers \subseteq AwakePushers'
    BY <1>quiet, <1>t DEF AwakePushers
  <2>2. Enough
    BY <1>quiet, <1>t, <1>had
  <2> QED BY <1>quiet, <1>t, <1>same, <2>1, <2>2
<1>1. ASSUME NEW w \in Workers, WorkerStep(w) PROVE Goal
  <2>0. call' = call
    BY <1>1 DEF WorkerStep, TakeTask, TaskEnds, CountTask, callvars
  <2>1. ASSUME queue # <<>>, Dequeue PROVE Goal
    <3>1. PICK t \in cvFull : cvFull' = cvFull \ {t}
      BY <2>1, NotifyOneFacts DEF Dequeue
    <3>2. t \notin AwakePushers /\ AwakePushers \cup {t} \subseteq AwakePushers'
      BY <2>0, <3>1, <1>t DEF AwakePushers
    <3>3. Cardinality(AwakePushers) + 1 <= Cardinality(AwakePushers')
      BY <3>2, <1>t, OneMore
    <3>4. Len(queue') = Len(queue) - 1
      BY <2>1, LengthAfter
    <3>5. Enough
      BY <2>0, <3>1, <1>had
    <3> QED BY <3>3, <3>4, <3>5, <1>t
  <2>2. CASE queue' = queue /\ cvFull' = cvFull
    BY <2>0, <2>2, <1>quiet
  <2> QED BY <1>1, <2>1, <2>2 DEF WorkerStep, TakeTask, TaskEnds, CountTask, PopSleeps,
          PopFindsClosed, PopTakes, qvars
<1>2. ASSUME NEW t \in Threads, EnqueueStep(t) PROVE Goal
  <2>0. /\ call[t] \in EnqueuePCs /\ arg[t] \in Tasks
        /\ \A u \in Threads : u # t => call'[u] = call[u]
        /\ call[t] # "shutdown"
    BY <1>2, <1>t, WakeInvTypes DEF EnqueueStep, ReadActive, Push, TryPushEntry, TryPushLocked,
       CallGoesTo, EnqueueReturns, EnqueuePCs
  <2>1. CASE ReadActive(t) \/ TryPushEntry(t)
    <3>1. queue' = queue /\ cvFull' = cvFull /\ call[t] # "push"
      BY <2>1 DEF ReadActive, TryPushEntry, qvars
    <3> QED BY <2>0, <3>1, <1>quiet
  <2>2. CASE Push(t)
    <3>1. CASE PushSleeps(t)
      BY <3>1, <1>full DEF PushSleeps
    <3>2. CASE PushDrops
      BY <3>2, <1>t DEF PushDrops, qvars
    <3>3. CASE PushAccepts(arg[t]) /\ EnqueueReturns(t, "true")
      <4>1. /\ Len(queue') = Len(queue) + 1 /\ cvFull' = cvFull
            /\ call' = [call EXCEPT ![t] = "none"] /\ call[t] = "push" /\ t \notin cvFull
        BY <2>0, <2>2, <3>3, LengthAfter DEF Push, PushAccepts, Enqueue, EnqueueReturns
      <4>2. t \in AwakePushers /\ AwakePushers' = AwakePushers \ {t}
        BY <4>1, <1>t DEF AwakePushers
      <4>3. Cardinality(AwakePushers') = Cardinality(AwakePushers) - 1
        BY <4>2, <1>t, OneLess
      <4>4. Enough
        BY <2>0, <4>1, <1>t, <1>had
      <4> QED BY <4>1, <4>3, <4>4, <1>t
    <3> QED BY <2>2, <3>1, <3>2, <3>3 DEF Push
  <2>3. CASE TryPushLocked(t)
    <3>1. CASE TryPushRefuses
      BY <3>1, <1>full DEF TryPushRefuses, qvars
    <3>2. CASE TryPushAccepts(arg[t])
      <4>1. /\ Len(queue') = Len(queue) + 1 /\ cvFull' = cvFull
            /\ call[t] = "tryPush locked"
        BY <2>0, <2>3, <3>2, LengthAfter DEF TryPushLocked, TryPushAccepts, Enqueue
      <4>2. AwakePushers \subseteq AwakePushers'
        BY <2>0, <4>1, <1>t DEF AwakePushers
      <4>3. Enough
        BY <2>0, <4>1, <1>t, <1>had
      <4>4. Len(queue) <= Len(queue')
        <5>1. Len(queue') = Len(queue) + 1 /\ Len(queue) \in Nat
          BY <4>1, <1>t
        <5> QED BY <5>1
      <4> QED BY <4>2, <4>3, <4>4, <1>same
    <3> QED BY <2>3, <3>1, <3>2 DEF TryPushLocked
  <2> QED BY <1>2, <2>1, <2>2, <2>3 DEF EnqueueStep
<1>3. ASSUME NEW c \in Callers, ShutdownStep(c) \/ CallShutdown(c) PROVE Goal
  <2>1. \/ call'[c] = "shutdown"
        \/ cvFull' = {}
        \/ /\ queue' = queue /\ cvFull' = cvFull /\ call[c] \notin {"push", "shutdown"}
           /\ \A u \in Threads : u # c => call'[u] = call[u]
    BY <1>3, <1>t DEF ShutdownStep, CallShutdown, BeginShutdown, ExchangeActive, ClearTasks, DrainEnds,
       ShutdownQueue, JoinWorkers, ShutdownReturns, CallGoesTo, qvars, CloseQueue, ShutdownFunctions
  <2> QED BY <2>1, <1>quiet
<1>4. ASSUME NEW t \in Threads, NEW task \in Tasks, CallTryEnqueueTask(t, task) PROVE Goal
  <2>1. /\ queue' = queue /\ cvFull' = cvFull /\ call[t] = "none"
        /\ \A u \in Threads : u # t => call'[u] = call[u]
    BY <1>4, <1>t DEF CallTryEnqueueTask, MaySubmit, qvars
  <2> QED BY <2>1, <1>quiet
<1>5. ASSUME NEW t \in Threads, Spurious(t) PROVE Goal
  <2>1. queue' = queue /\ cvFull' \subseteq cvFull /\ call' = call
    BY <1>5 DEF Spurious, WakesUp, callvars
  <2> QED BY <2>1, <1>quiet
<1>6. CASE UNCHANGED vars
  BY <1>6, <1>quiet DEF vars, qvars, callvars
<1> QED BY <1>1, <1>2, <1>3, <1>4, <1>5, <1>6 DEF Next, PoolStep, AtRest

(* While a submitter sleeps in push every free slot has an awake submitter *)
(* to fill it, but for the moment between the clear() and the shutdown()   *)
(* of shutdownImmediately, for any number of submitters and shutdowns.     *)
THEOREM SubmittersAreNotStranded == Spec => []NoStrandedSubmitter
<1>1. Init => NoStrandedSubmitter
  BY DEF Init, QInit, NoStrandedSubmitter
<1>2. WakeInv /\ NoStrandedSubmitter /\ [Next]_vars => (WakeInv /\ NoStrandedSubmitter)'
  BY WakeInvStep, NoStrandedSubmitterStep
<1> QED
  BY <1>1, <1>2, WakeInvInit, PTL DEF Spec

-----------------------------------------------------------------------------
(* That a task is never in two places, without counting: no two positions  *)
(* of the queue and no two workers hold the same task, the queue, the      *)
(* workers and the past have none in common, and a task is somewhere only  *)
(* once its submitter has let go of it.                                    *)
QueueHasNoDuplicates == \A i, j \in DOMAIN queue : queue[i] = queue[j] => i = j

WorkersShareNoTask ==
    \A v, w \in Workers : running[v] = running[w] /\ running[v] # NoTask => v = w

InOnePlace(task) ==
    /\ ~(InQueue(task) /\ BeingRun(task))
    /\ executions[task] > 0 => executions[task] = 1 /\ ~InQueue(task) /\ ~BeingRun(task)
    /\ Located(task) => result[task] = "true"

SubmittersAreInCalls == \A t \in Threads : arg[t] # NoTask => call[t] \in EnqueuePCs

PlaceInv ==
    /\ BaseInv
    /\ SubmittersAreInCalls
    /\ QueueHasNoDuplicates
    /\ WorkersShareNoTask
    /\ \A task \in Tasks : InOnePlace(task)

LEMMA PlaceInvInit == Init => PlaceInv
<1> SUFFICES ASSUME Init PROVE PlaceInv
  OBVIOUS
<1>1. \A task \in Tasks : ~InQueue(task) /\ ~BeingRun(task) /\ executions[task] = 0
  BY EmptySeq, PoolAssumption DEF Init, QInit, InQueue, BeingRun
<1>2. SubmittersAreInCalls /\ QueueHasNoDuplicates /\ WorkersShareNoTask
  BY EmptySeq DEF Init, QInit, SubmittersAreInCalls, QueueHasNoDuplicates, WorkersShareNoTask
<1> QED BY <1>1, <1>2, BaseInvInit DEF PlaceInv, InOnePlace, Located

LEMMA PlaceInvTypes ==
    ASSUME PlaceInv
    PROVE  /\ BaseInv /\ TypeInv
           /\ queue \in Seq(Tasks)
           /\ wpc \in [Workers -> WorkerPCs]
           /\ running \in [Workers -> Tasks \cup {NoTask}]
           /\ executions \in [Tasks -> Nat]
           /\ call \in [Threads -> {"none"} \cup EnqueuePCs \cup ShutdownPCs]
           /\ arg \in [Threads -> Tasks \cup {NoTask}]
           /\ result \in [Tasks -> {"none", "pending", "true", "false"}]
           /\ Callers \subseteq Threads
BY DEF PlaceInv, BaseInv, TypeInv, TypeOK, QTypeOK, Threads

LEMMA AppendKeepsApart ==
    ASSUME PlaceInv, NEW item \in Tasks, Enqueue(item), ~InQueue(item)
    PROVE  QueueHasNoDuplicates'
<1>1. queue \in Seq(Tasks) /\ queue' = Append(queue, item)
  BY PlaceInvTypes DEF Enqueue
<1>2. /\ DOMAIN queue' = 1 .. Len(queue) + 1 /\ DOMAIN queue = 1 .. Len(queue)
      /\ \A i \in 1 .. Len(queue) : queue'[i] = queue[i]
      /\ queue'[Len(queue) + 1] = item
      /\ Len(queue) \in Nat
  BY <1>1
<1>3. \A i \in 1 .. Len(queue) : queue[i] # item
  BY <1>2 DEF InQueue
<1> QED BY <1>2, <1>3 DEF PlaceInv, QueueHasNoDuplicates

LEMMA TakeKeepsApart ==
    ASSUME PlaceInv, queue # <<>>, Dequeue, NEW item \in Tasks, item = Head(queue)
    PROVE  QueueHasNoDuplicates' /\ InQueue(item) /\ ~InQueue(item)'
<1>1. queue \in Seq(Tasks) /\ queue' = Tail(queue)
  BY PlaceInvTypes DEF Dequeue
<1>2. /\ DOMAIN queue' = 1 .. Len(queue) - 1 /\ DOMAIN queue = 1 .. Len(queue)
      /\ \A i \in 1 .. Len(queue) - 1 : queue'[i] = queue[i + 1]
      /\ queue[1] = item
      /\ Len(queue) \in Nat \ {0}
  BY <1>1
<1>3. QueueHasNoDuplicates'
  BY <1>2 DEF PlaceInv, QueueHasNoDuplicates
<1>4. InQueue(item)
  BY <1>2 DEF InQueue
<1>5. ASSUME NEW i \in DOMAIN queue', queue'[i] = item PROVE FALSE
  <2>1. i + 1 \in DOMAIN queue /\ queue[i + 1] = queue[1] /\ 1 \in DOMAIN queue /\ i + 1 # 1
    BY <1>2, <1>5
  <2> QED BY <2>1 DEF PlaceInv, QueueHasNoDuplicates
<1> QED BY <1>3, <1>4, <1>5 DEF InQueue

(* A worker moves a task on: from the queue to itself, or into the past.   *)
LEMMA WorkerStepPlaces ==
    ASSUME PlaceInv, NEW w \in Workers, WorkerStep(w)
    PROVE  PlaceInv'
<1>t. /\ BaseInv' /\ TypeInv /\ HoldsWhileRunning
      /\ wpc \in [Workers -> WorkerPCs]
      /\ running \in [Workers -> Tasks \cup {NoTask}]
      /\ executions \in [Tasks -> Nat]
      /\ SubmittersAreInCalls /\ QueueHasNoDuplicates /\ WorkersShareNoTask
      /\ \A task \in Tasks : InOnePlace(task)
  BY PlaceInvTypes, WorkerStepBase DEF PlaceInv, BaseInv
<1>c. UNCHANGED callvars /\ SubmittersAreInCalls'
  BY <1>t DEF WorkerStep, TakeTask, TaskEnds, CountTask, callvars, SubmittersAreInCalls
<1> USE PoolAssumption DEF WorkerGoesTo
<1>same. ASSUME UNCHANGED <<queue, running, executions>> PROVE PlaceInv'
  BY <1>same, <1>t, <1>c
  DEF PlaceInv, QueueHasNoDuplicates, WorkersShareNoTask, InOnePlace, InQueue, BeingRun, Located,
      callvars
<1>1. CASE TakeTask(w)
  <2>1. CASE PopSleeps(w) /\ UNCHANGED <<wpc, running>>
    BY <1>1, <2>1, <1>same DEF TakeTask, PopSleeps
  <2>2. CASE PopFindsClosed /\ WorkerGoesTo(w, "exited") /\ UNCHANGED running
    BY <1>1, <2>2, <1>same DEF TakeTask, PopFindsClosed, qvars
  <2>3. ASSUME NEW item \in Tasks, PopTakes(item), running' = [running EXCEPT ![w] = item]
        PROVE  PlaceInv'
    <3>1. /\ queue # <<>> /\ Dequeue /\ item = Head(queue) /\ executions' = executions
          /\ wpc[w] = "waitPop"
      BY <1>1, <2>3 DEF PopTakes, TakeTask
    <3>2. QueueHasNoDuplicates' /\ InQueue(item) /\ ~InQueue(item)'
      BY <3>1, TakeKeepsApart
    <3>3. \A task \in Tasks : InQueue(task) <=> InQueue(task)' \/ task = item
      BY <1>t, <3>1, DequeueMembers
    <3>4. running[w] = NoTask
      BY <1>t, <3>1 DEF HoldsWhileRunning
    <3>5. \A task \in Tasks : BeingRun(task)' <=> BeingRun(task) \/ task = item
      BY <1>t, <2>3, <3>4 DEF BeingRun
    <3>6. ~BeingRun(item) /\ executions[item] = 0
      BY <1>t, <3>2 DEF InOnePlace
    <3>7. WorkersShareNoTask'
      BY <1>t, <2>3, <3>6 DEF WorkersShareNoTask, BeingRun
    <3>8. \A task \in Tasks : InOnePlace(task)'
      BY <1>t, <1>c, <3>1, <3>2, <3>3, <3>5, <3>6 DEF InOnePlace, Located, callvars
    <3> QED BY <1>t, <1>c, <3>2, <3>7, <3>8 DEF PlaceInv
  <2> QED BY <1>1, <2>1, <2>2, <2>3 DEF TakeTask
<1>2. CASE TaskEnds(w)
  <2>0. PICK item \in Tasks : item = running[w]
    BY <1>2, <1>t DEF TaskEnds, HoldsWhileRunning
  <2>1. /\ item = running[w] /\ queue' = queue
        /\ executions' = [executions EXCEPT ![item] = @ + 1]
        /\ running' = [running EXCEPT ![w] = NoTask]
    BY <1>2, <2>0 DEF TaskEnds, qvars
  <2>2. \A task \in Tasks : InQueue(task)' <=> InQueue(task)
    BY <2>1, SameQueueMembers
  <2>3. BeingRun(item) /\ ~InQueue(item) /\ executions[item] = 0
    BY <1>t, <2>1 DEF BeingRun, InOnePlace
  <2>4. \A task \in Tasks : BeingRun(task)' <=> BeingRun(task) /\ task # item
    BY <1>t, <2>1 DEF BeingRun, WorkersShareNoTask
  <2>5. executions'[item] = 1 /\ \A task \in Tasks : task # item => executions'[task] = executions[task]
    BY <1>t, <2>1, <2>3
  <2>6. WorkersShareNoTask' /\ QueueHasNoDuplicates'
    BY <1>t, <2>1 DEF WorkersShareNoTask, QueueHasNoDuplicates
  <2>7. \A task \in Tasks : InOnePlace(task)'
    <3>1. result[item] = "true"
      BY <1>t, <2>1, <2>3 DEF InOnePlace, Located
    <3>2. ASSUME NEW task \in Tasks, task # item PROVE InOnePlace(task)'
      BY <1>t, <1>c, <2>2, <2>4, <2>5, <3>2 DEF InOnePlace, Located, callvars
    <3>3. InOnePlace(item)'
      BY <1>c, <2>1, <2>2, <2>3, <2>4, <2>5, <3>1 DEF InOnePlace, Located, callvars
    <3> QED BY <3>2, <3>3
  <2> QED BY <1>t, <1>c, <2>6, <2>7 DEF PlaceInv
<1>3. CASE CountTask(w)
  BY <1>3, <1>same DEF CountTask, qvars
<1> QED BY <1>1, <1>2, <1>3 DEF WorkerStep

(* A submitter lets go of its task; what it appends was nowhere before.    *)
LEMMA EnqueueStepPlaces ==
    ASSUME PlaceInv, NEW t \in Threads, EnqueueStep(t)
    PROVE  PlaceInv'
<1>t. /\ BaseInv' /\ TypeInv /\ SubmitsPending
      /\ call \in [Threads -> {"none"} \cup EnqueuePCs \cup ShutdownPCs]
      /\ arg \in [Threads -> Tasks \cup {NoTask}]
      /\ result \in [Tasks -> {"none", "pending", "true", "false"}]
      /\ SubmittersAreInCalls /\ QueueHasNoDuplicates /\ WorkersShareNoTask
      /\ \A task \in Tasks : InOnePlace(task)
  BY PlaceInvTypes, EnqueueStepBase DEF PlaceInv, BaseInv
<1>e. /\ call[t] \in EnqueuePCs /\ UNCHANGED <<running, executions>>
      /\ WorkersShareNoTask'
  BY <1>t DEF EnqueueStep, ReadActive, Push, TryPushEntry, TryPushLocked, EnqueuePCs, poolvars,
     WorkersShareNoTask
<1>p. /\ arg[t] \in Tasks /\ result[arg[t]] = "pending" /\ ~Located(arg[t])
  BY <1>t, <1>e DEF SubmitsPending, InOnePlace
<1>1. SubmittersAreInCalls'
  <2>1. \/ UNCHANGED <<call, arg>>
        \/ arg' = arg /\ \E label \in EnqueuePCs : call' = [call EXCEPT ![t] = label]
        \/ arg' = [arg EXCEPT ![t] = NoTask] /\ call' = [call EXCEPT ![t] = "none"]
    BY DEF EnqueueStep, ReadActive, Push, TryPushEntry, TryPushLocked, EnqueuePCs, CallGoesTo,
       EnqueueReturns
  <2> QED BY <1>t, <2>1 DEF SubmittersAreInCalls
<1>2. CASE Enqueue(arg[t]) /\ result' = [result EXCEPT ![arg[t]] = "true"]
  <2>1. QueueHasNoDuplicates'
    BY <1>2, <1>p, AppendKeepsApart DEF Located
  <2>2. \A task \in Tasks : InQueue(task)' <=> InQueue(task) \/ task = arg[t]
    BY <1>2, <1>t, <1>p, EnqueueMembers
  <2>3. \A task \in Tasks : BeingRun(task)' <=> BeingRun(task)
    BY <1>e DEF BeingRun
  <2>4. \A task \in Tasks : InOnePlace(task)'
    BY <1>2, <1>t, <1>e, <1>p, <2>2, <2>3 DEF InOnePlace, Located
  <2> QED BY <1>t, <1>e, <1>1, <2>1, <2>4 DEF PlaceInv
<1>3. CASE /\ queue' = queue
           /\ \A task \in Tasks : task # arg[t] => result'[task] = result[task]
  <2>1. QueueHasNoDuplicates'
    BY <1>3, <1>t DEF QueueHasNoDuplicates
  <2>2. \A task \in Tasks : InQueue(task)' <=> InQueue(task)
    BY <1>3, SameQueueMembers
  <2>3. \A task \in Tasks : BeingRun(task)' <=> BeingRun(task)
    BY <1>e DEF BeingRun
  <2>4. \A task \in Tasks : InOnePlace(task)'
    BY <1>3, <1>t, <1>e, <1>p, <2>2, <2>3 DEF InOnePlace, Located
  <2> QED BY <1>t, <1>e, <1>1, <2>1, <2>4 DEF PlaceInv
<1>4. \/ Enqueue(arg[t]) /\ result' = [result EXCEPT ![arg[t]] = "true"]
      \/ /\ queue' = queue
         /\ \A task \in Tasks : task # arg[t] => result'[task] = result[task]
  BY <1>t DEF EnqueueStep, ReadActive, Push, TryPushEntry, TryPushLocked, CallGoesTo, EnqueueReturns,
     PushSleeps, PushDrops, PushAccepts, TryPushRefuses, TryPushAccepts, qvars
<1> QED BY <1>2, <1>3, <1>4

LEMMA PlaceInvStep == PlaceInv /\ [AnyStep]_vars => PlaceInv'
<1> SUFFICES ASSUME PlaceInv, [AnyStep]_vars PROVE PlaceInv'
  OBVIOUS
<1>t. /\ BaseInv'
      /\ call \in [Threads -> {"none"} \cup EnqueuePCs \cup ShutdownPCs]
      /\ result \in [Tasks -> {"none", "pending", "true", "false"}]
      /\ arg \in [Threads -> Tasks \cup {NoTask}]
      /\ Callers \subseteq Threads
      /\ SubmittersAreInCalls /\ QueueHasNoDuplicates /\ WorkersShareNoTask
      /\ \A task \in Tasks : InOnePlace(task)
  BY PlaceInvTypes, BaseInvStep DEF PlaceInv
<1>quiet. ASSUME UNCHANGED <<running, executions>>, queue' = queue \/ queue' = <<>>,
                 \A task \in Tasks : result[task] = "true" => result'[task] = "true",
                 SubmittersAreInCalls'
          PROVE  PlaceInv'
  <2>1. QueueHasNoDuplicates' /\ WorkersShareNoTask'
    BY <1>quiet, <1>t, EmptySeq DEF QueueHasNoDuplicates, WorkersShareNoTask
  <2>2. \A task \in Tasks : (InQueue(task)' => InQueue(task)) /\ (BeingRun(task)' <=> BeingRun(task))
    BY <1>quiet, EmptySeq DEF InQueue, BeingRun
  <2>3. \A task \in Tasks : InOnePlace(task)'
    BY <1>quiet, <1>t, <2>2 DEF InOnePlace, Located
  <2> QED BY <1>t, <1>quiet, <2>1, <2>3 DEF PlaceInv
<1>1. ASSUME NEW c \in Callers,
             ShutdownStep(c) \/ \E operation \in ShutdownFunctions : BeginShutdown(c, operation)
      PROVE  PlaceInv'
  <2>1. /\ UNCHANGED <<running, executions, arg, result>>
        /\ queue' = queue \/ queue' = <<>>
        /\ call[c] \notin EnqueuePCs
        /\ \A u \in Threads : u # c => call'[u] = call[u]
    BY <1>1, <1>t DEF ShutdownStep, CallShutdown, BeginShutdown, ExchangeActive, ClearTasks, DrainEnds, ShutdownQueue,
       JoinWorkers, ShutdownReturns, CallGoesTo, ClearQueue, CloseQueue, qvars, poolvars, EnqueuePCs, ShutdownFunctions
  <2>2. SubmittersAreInCalls'
    BY <1>t, <2>1 DEF SubmittersAreInCalls
  <2> QED BY <2>1, <2>2, <1>quiet
<1>2. ASSUME NEW t \in Threads, NEW task \in Tasks, CallTryEnqueueTask(t, task) PROVE PlaceInv'
  <2>1. /\ UNCHANGED <<running, executions, queue>>
        /\ result[task] = "none" /\ result' = [result EXCEPT ![task] = "pending"]
        /\ arg' = [arg EXCEPT ![t] = task] /\ call' = [call EXCEPT ![t] = "tryEnqueueTask"]
    BY <1>2 DEF CallTryEnqueueTask, qvars, poolvars
  <2>2. SubmittersAreInCalls'
    BY <1>t, <2>1 DEF SubmittersAreInCalls, EnqueuePCs
  <2>3. \A other \in Tasks : result[other] = "true" => result'[other] = "true"
    BY <1>t, <2>1
  <2> QED BY <2>1, <2>2, <2>3, <1>quiet
<1>3. ASSUME NEW t \in Threads, Spurious(t) PROVE PlaceInv'
  <2>1. UNCHANGED <<running, executions, queue, result, call, arg>>
    BY <1>3 DEF Spurious, WakesUp, poolvars, callvars
  <2> QED BY <1>t, <2>1, <1>quiet DEF SubmittersAreInCalls
<1>4. CASE UNCHANGED vars
  <2>1. UNCHANGED <<running, executions, queue, result, call, arg>>
    BY <1>4 DEF vars, qvars, poolvars, callvars
  <2> QED BY <1>t, <2>1, <1>quiet DEF SubmittersAreInCalls
<1> QED BY <1>1, <1>2, <1>3, <1>4, ShutdownBegins, WorkerStepPlaces, EnqueueStepPlaces
  DEF AnyStep, Next, PoolStep, AtRest

-----------------------------------------------------------------------------
(* The places, counted.                                                    *)
LEMMA PlacesCounted ==
    ASSUME PlaceInv, NEW task \in Tasks
    PROVE  Places(task) = (IF InQueue(task) THEN 1 ELSE 0)
                          + (IF BeingRun(task) THEN 1 ELSE 0)
                          + (IF \E t \in Threads : arg[t] = task THEN 1 ELSE 0)
                          + executions[task]
<1> DEFINE Q == {i \in DOMAIN queue : queue[i] = task}
           R == {w \in Workers : running[w] = task}
           A == {t \in Threads : arg[t] = task}
<1>1. Cardinality(Q) = IF InQueue(task) THEN 1 ELSE 0
  <2>1. \A i, j \in Q : i = j
    BY DEF PlaceInv, QueueHasNoDuplicates
  <2>2. Q = {} <=> ~InQueue(task)
    BY DEF InQueue
  <2> QED BY <2>1, <2>2, AtMostOne
<1>2. Cardinality(R) = IF BeingRun(task) THEN 1 ELSE 0
  <2>1. \A v, w \in R : v = w
    BY PoolAssumption DEF PlaceInv, WorkersShareNoTask
  <2>2. R = {} <=> ~BeingRun(task)
    BY DEF BeingRun
  <2> QED BY <2>1, <2>2, AtMostOne
<1>3. Cardinality(A) = IF \E t \in Threads : arg[t] = task THEN 1 ELSE 0
  <2>1. \A t, u \in A : t = u
    BY PoolAssumption DEF PlaceInv, SubmittersAreInCalls, BaseInv, SubmitsPending
  <2> QED BY <2>1, AtMostOne
<1> QED BY <1>1, <1>2, <1>3 DEF Places

LEMMA SubmittedAreNowhereElse ==
    ASSUME PlaceInv, NEW task \in Tasks, \E t \in Threads : arg[t] = task
    PROVE  ~Located(task) /\ result[task] = "pending"
BY PoolAssumption DEF PlaceInv, SubmittersAreInCalls, BaseInv, SubmitsPending, InOnePlace

LEMMA PlaceInvSuffices == PlaceInv => NeverInTwoPlaces
<1> SUFFICES ASSUME PlaceInv, NEW task \in Tasks PROVE Places(task) <= 1
  BY DEF NeverInTwoPlaces
<1>1. executions[task] \in Nat
  BY PlaceInvTypes
<1> QED BY <1>1, PlacesCounted, SubmittedAreNowhereElse DEF PlaceInv, InOnePlace, Located

LEMMA AcceptedInOnePlace == PlaceInv /\ DrainInv => NoTaskLostWhileActive
<1> SUFFICES ASSUME PlaceInv, DrainInv, active, NEW task \in Tasks, result[task] = "true"
             PROVE  Places(task) = 1
  BY DEF NoTaskLostWhileActive, Accepted
<1>1. Located(task)
  BY DEF DrainInv, AcceptedAreLocated, Accepted
<1>2. executions[task] \in Nat
  BY PlaceInvTypes
<1> QED BY <1>1, <1>2, PlacesCounted, SubmittedAreNowhereElse DEF PlaceInv, InOnePlace, Located

(* A task is never in two places, and in particular never executed twice,  *)
(* for any number of threads, whoever submits and shuts down meanwhile.    *)
THEOREM TasksAreInOnePlace == Spec => []NeverInTwoPlaces
<1> QED
  BY PlaceInvInit, PlaceInvStep, NextIsAnyStep, PlaceInvSuffices, PTL DEF Spec

(* While the pool is active every task reported accepted is in the queue,  *)
(* in a worker or done, and in one of them only.                           *)
THEOREM AcceptedTasksAreKept == Spec => []NoTaskLostWhileActive
<1>1. Spec => [](PlaceInv /\ DrainInv)
  BY PlaceInvInit, PlaceInvStep, DrainInvInit, DrainInvStep, NextIsAnyStep, PTL DEF Spec
<1> QED
  BY <1>1, AcceptedInOnePlace, PTL
-----------------------------------------------------------------------------
(* What tryEnqueueTask promises, when nobody blocks: nobody is in push, so *)
(* nobody has its task dropped there and is told true.                     *)
NobodyBlocks == TRUE \notin Policies \cup NestedPolicies

NobodyPushes == \A t \in Threads : call[t] # "push"

LEMMA NobodyPushesStep ==
    ASSUME NobodyBlocks, BaseInv, NobodyPushes, [Next]_vars
    PROVE  NobodyPushes'
<1>t. call \in [Threads -> {"none"} \cup EnqueuePCs \cup ShutdownPCs] /\ Callers \subseteq Threads
  BY DEF BaseInv, TypeInv, TypeOK, Threads
<1>1. ASSUME NEW t \in Threads, EnqueueStep(t) PROVE NobodyPushes'
  <2>1. /\ \A u \in Threads : u # t => call'[u] = call[u]
        /\ call'[t] \in {"none", "tryPush", "tryPush locked"}
    BY <1>1, <1>t, PoolAssumption
    DEF NobodyBlocks, NobodyPushes, EnqueueStep, ReadActive, Push, TryPushEntry, TryPushLocked, CallGoesTo,
        EnqueueReturns, PoliciesOf
  <2> QED BY <2>1 DEF NobodyPushes
<1>2. ASSUME NEW c \in Callers, ShutdownStep(c) \/ CallShutdown(c) PROVE NobodyPushes'
  <2>1. /\ \A u \in Threads : u # c => call'[u] = call[u]
        /\ call'[c] \in ShutdownPCs \cup {"none"}
    BY <1>2, <1>t, PoolAssumption
    DEF ShutdownStep, ExchangeActive, ClearTasks, DrainEnds, ShutdownQueue, JoinWorkers, ShutdownReturns,
        CallShutdown, BeginShutdown, CallGoesTo, ShutdownPCs
  <2> QED BY <2>1 DEF NobodyPushes, ShutdownPCs, ShutdownFunctions
<1>3. ASSUME NEW t \in Threads, NEW task \in Tasks, CallTryEnqueueTask(t, task) PROVE NobodyPushes'
  BY <1>3, <1>t DEF CallTryEnqueueTask, NobodyPushes
<1>4. ASSUME \/ \E w \in Workers : WorkerStep(w)
             \/ \E t \in Threads : Spurious(t)
             \/ UNCHANGED vars
      PROVE  NobodyPushes'
  BY <1>4 DEF WorkerStep, TakeTask, TaskEnds, CountTask, Spurious, vars, callvars, NobodyPushes
<1> QED BY <1>1, <1>2, <1>3, <1>4 DEF Next, PoolStep, AtRest

LEMMA TrueIsQueued ==
    ASSUME BaseInv, NobodyPushes, [Next]_vars,
           NEW task \in Tasks, result[task] = "pending", result'[task] = "true"
    PROVE  Len(queue') = Len(queue) + 1 /\ queue'[Len(queue')] = task
<1>t. /\ call \in [Threads -> {"none"} \cup EnqueuePCs \cup ShutdownPCs]
      /\ result \in [Tasks -> {"none", "pending", "true", "false"}]
      /\ queue \in Seq(Tasks)
  BY DEF BaseInv, TypeInv, TypeOK, QTypeOK
<1>1. ASSUME NEW t \in Threads, EnqueueStep(t)
      PROVE  Len(queue') = Len(queue) + 1 /\ queue'[Len(queue')] = task
  <2>1. task = arg[t]
    BY <1>1, EnqueueStepEffects DEF EnqueueEffects
  <2>2. Enqueue(task)
    BY <1>1, <1>t, <2>1
    DEF EnqueueStep, ReadActive, Push, TryPushEntry, TryPushLocked, CallGoesTo, EnqueueReturns, NobodyPushes,
        TryPushAccepts
  <2> QED BY <2>2, <1>t DEF Enqueue
<1>2. ASSUME NEW t \in Threads, NEW item \in Tasks, CallTryEnqueueTask(t, item) PROVE FALSE
  BY <1>2, <1>t DEF CallTryEnqueueTask
<1>3. ASSUME \/ \E w \in Workers : WorkerStep(w)
             \/ \E t \in Threads : Spurious(t)
             \/ \E c \in Callers : ShutdownStep(c) \/ CallShutdown(c)
             \/ UNCHANGED vars
      PROVE  FALSE
  BY <1>3
  DEF WorkerStep, TakeTask, TaskEnds, CountTask, Spurious, vars, callvars, ShutdownStep, ExchangeActive, ClearTasks,
      DrainEnds, ShutdownQueue, JoinWorkers, ShutdownReturns, CallShutdown, BeginShutdown, CallGoesTo
<1> QED BY <1>1, <1>2, <1>3 DEF Next, PoolStep, AtRest

(* A pool whose callers and tasks submit without blocking, as main.cpp     *)
(* does, answers true exactly for what it has queued, whoever shuts it     *)
(* down meanwhile: the answer that ThreadPool.h:127 promises can be wrong  *)
(* for a blocking submission only.                                         *)
THEOREM TrueMeansQueuedUnlessBlocking ==
    ASSUME NobodyBlocks
    PROVE  Spec => TrueMeansQueued
<1>1. Init => BaseInv /\ NobodyPushes
  BY BaseInvInit DEF Init, NobodyPushes
<1>2. BaseInv /\ NobodyPushes /\ [Next]_vars => BaseInv' /\ NobodyPushes'
  BY BaseInvStep, NextIsAnyStep, NobodyPushesStep
<1>3. BaseInv /\ NobodyPushes /\ [Next]_vars =>
          [\A task \in Tasks :
              result[task] = "pending" /\ result'[task] = "true" =>
                  Len(queue') = Len(queue) + 1 /\ queue'[Len(queue')] = task]_vars
  BY TrueIsQueued
<1> QED
  BY <1>1, <1>2, <1>3, PTL DEF Spec, TrueMeansQueued
-----------------------------------------------------------------------------
(* Refinement to the life of tasks.  One caller at a time closes the pool; *)
(* what it has not shut down yet has no late task.                         *)
OneCloser ==
    /\ \A c, d \in Callers : call[c] \in Closing /\ call[d] \in Closing => c = d
    /\ \A c \in Callers : call[c] \in {"clear", "drain", "shutdown"} => ~shutdown
    /\ ~shutdown => late = {}
    /\ \A task \in late : result[task] = "true"

LifeInv == PlaceInv /\ DrainInv /\ OneCloser

LEMMA LifeInvInit == Init => LifeInv
BY PlaceInvInit, DrainInvInit DEF Init, QInit, LifeInv, OneCloser, Closing, Threads

LEMMA LifeInvStep == LifeInv /\ [AnyStep]_vars => LifeInv'
<1> SUFFICES ASSUME LifeInv, [AnyStep]_vars PROVE OneCloser'
  BY PlaceInvStep, DrainInvStep DEF LifeInv
<1>t. /\ call \in [Threads -> {"none"} \cup EnqueuePCs \cup ShutdownPCs]
      /\ result \in [Tasks -> {"none", "pending", "true", "false"}]
      /\ Callers \subseteq Threads
      /\ late \subseteq Tasks
      /\ OneCloser /\ OneShutdown
  BY PlaceInvTypes DEF LifeInv, DrainInv, BaseInv, TypeInv, TypeOK
<1>quiet. ASSUME \A c \in Callers : call'[c] \in Closing => call'[c] = call[c],
                 shutdown' = shutdown, late' = late,
                 \A task \in Tasks : result[task] = "true" => result'[task] = "true"
          PROVE  OneCloser'
  BY <1>quiet, <1>t DEF OneCloser, Closing
<1>1. ASSUME NEW w \in Workers, WorkerStep(w) PROVE OneCloser'
  <2>1. call' = call /\ result' = result /\ late' = late /\ shutdown' = shutdown
    BY <1>1 DEF WorkerStep, TakeTask, TaskEnds, CountTask, PopSleeps, PopFindsClosed, PopTakes, Dequeue,
       qvars, callvars, ghosts
  <2> QED BY <2>1, <1>quiet
<1>2. ASSUME NEW t \in Threads, EnqueueStep(t) PROVE OneCloser'
  <2>1. /\ shutdown' = shutdown
        /\ late' = late \/ (shutdown /\ late' = late \cup {arg[t]} /\ result' = [result EXCEPT ![arg[t]] = "true"])
        /\ \A task \in Tasks : task # arg[t] => result'[task] = result[task]
        /\ \A u \in Threads : u # t => call'[u] = call[u]
        /\ call'[t] \notin Closing
        /\ call[t] \in EnqueuePCs
    BY <1>2, <1>t DEF EnqueueStep, ReadActive, Push, TryPushEntry, TryPushLocked, CallGoesTo,
       EnqueueReturns, PushSleeps, PushDrops, PushAccepts, TryPushRefuses, TryPushAccepts, Enqueue,
       NoteLate, qvars, ghosts, Closing, EnqueuePCs
  <2>2. arg[t] \in Tasks /\ result[arg[t]] = "pending"
    BY <2>1 DEF LifeInv, PlaceInv, BaseInv, SubmitsPending
  <2> QED BY <2>1, <2>2, <1>t DEF OneCloser, Closing
<1>3. ASSUME NEW c \in Callers, ShutdownStep(c) PROVE OneCloser'
  <2>0. /\ result' = result /\ late' = late
        /\ \A u \in Threads : u # c => call'[u] = call[u]
    BY <1>3, <1>t DEF ShutdownStep, ExchangeActive, ClearTasks, DrainEnds, ShutdownQueue, JoinWorkers,
       ShutdownReturns, CallGoesTo, poolvars, ghosts
  <2>1. CASE ExchangeActive(c)
    <3>1. shutdown' = shutdown
      BY <2>1 DEF ExchangeActive, qvars
    <3>2. call'[c] \in Closing => active
      BY <2>1, <1>t DEF ExchangeActive, ShutdownReturns, CallGoesTo, Closing
    <3> QED BY <2>0, <3>1, <3>2, <1>t DEF OneCloser, OneShutdown, Closing
  <2>2. CASE ClearTasks(c) \/ DrainEnds(c)
    <3>1. /\ call[c] \in {"clear", "drain"} /\ call'[c] = "shutdown"
          /\ shutdown' = shutdown
      BY <2>2, <1>t DEF ClearTasks, DrainEnds, CallGoesTo, ClearQueue, qvars
    <3> QED BY <2>0, <3>1, <1>t DEF OneCloser, Closing
  <2>3. CASE ShutdownQueue(c)
    <3>1. call[c] = "shutdown" /\ call'[c] = "join" /\ shutdown'
      BY <2>3, <1>t DEF ShutdownQueue, CallGoesTo, CloseQueue
    <3> QED BY <2>0, <3>1, <1>t DEF OneCloser, Closing
  <2>4. CASE JoinWorkers(c)
    <3>1. call'[c] = "none" /\ shutdown' = shutdown
      BY <2>4, <1>t DEF JoinWorkers, ShutdownReturns, CallGoesTo, qvars
    <3> QED BY <2>0, <3>1, <1>t DEF OneCloser, Closing
  <2> QED BY <1>3, <2>1, <2>2, <2>3, <2>4 DEF ShutdownStep
<1>4. ASSUME NEW t \in Threads, NEW task \in Tasks, CallTryEnqueueTask(t, task) PROVE OneCloser'
  <2>1. /\ shutdown' = shutdown /\ late' = late /\ result[task] = "none"
        /\ call' = [call EXCEPT ![t] = "tryEnqueueTask"]
        /\ result' = [result EXCEPT ![task] = "pending"]
    BY <1>4 DEF CallTryEnqueueTask, qvars, ghosts
  <2> QED BY <2>1, <1>t, <1>quiet DEF Closing
<1>5. ASSUME NEW c \in Callers, NEW operation \in ShutdownFunctions, BeginShutdown(c, operation)
      PROVE  OneCloser'
  <2>1. /\ shutdown' = shutdown /\ late' = late /\ result' = result
        /\ call' = [call EXCEPT ![c] = operation]
    BY <1>5 DEF BeginShutdown, CallGoesTo, qvars, ghosts
  <2> QED BY <2>1, <1>t, <1>quiet DEF ShutdownFunctions, Closing
<1>6. ASSUME NEW t \in Threads, Spurious(t) PROVE OneCloser'
  <2>1. UNCHANGED <<shutdown, late, result, call>>
    BY <1>6 DEF Spurious, WakesUp, callvars, ghosts
  <2> QED BY <2>1, <1>quiet
<1>7. CASE UNCHANGED vars
  <2>1. UNCHANGED <<shutdown, late, result, call>>
    BY <1>7 DEF vars, qvars, callvars, ghosts
  <2> QED BY <2>1, <1>quiet
<1> QED BY <1>1, <1>2, <1>3, <1>4, <1>5, <1>6, <1>7, ShutdownBegins DEF AnyStep, Next, PoolStep, AtRest

(* The status is told by where the task is and, if it is nowhere, by the   *)
(* answer its submitter got.                                               *)
StatusFacts ==
    \A task \in Tasks :
        /\ executions[task] > 0 => StatusOf(task) = "done"
        /\ BeingRun(task) => StatusOf(task) = "running"
        /\ InQueue(task) => StatusOf(task) = IF task \in late THEN "late" ELSE "queued"
        /\ ~Located(task) =>
               /\ result[task] = "none" => StatusOf(task) = "new"
               /\ result[task] = "pending" => StatusOf(task) = "submitting"
               /\ result[task] = "false" => StatusOf(task) = "refused"
               /\ result[task] = "true" => StatusOf(task) = "lost"

LEMMA StatusIsTold == PlaceInv => StatusFacts
<1> SUFFICES ASSUME PlaceInv PROVE StatusFacts
  OBVIOUS
<1>1. \A task \in Tasks : InOnePlace(task) /\ executions[task] \in Nat
  BY PlaceInvTypes DEF PlaceInv
<1> QED BY <1>1 DEF StatusFacts, StatusOf, InOnePlace, Located

Status == [task \in Tasks |-> StatusOf(task)]

(* Nothing that tells the status of a task changes.                        *)
Kept(task) ==
    /\ InQueue(task)' <=> InQueue(task)
    /\ BeingRun(task)' <=> BeingRun(task)
    /\ executions'[task] = executions[task]
    /\ result'[task] = result[task]
    /\ task \in late' <=> task \in late

LEMMA KeptStatus ==
    ASSUME NEW task \in Tasks, Kept(task)
    PROVE  StatusOf(task)' = StatusOf(task)
BY DEF Kept, StatusOf

LEMMA OneMoves ==
    ASSUME NEW item \in Tasks, \A task \in Tasks \ {item} : Kept(task),
           NEW from, NEW to, StatusOf(item) = from, StatusOf(item)' = to, active' = active
    PROVE  Life!Become({item}, from, to)
<1>1. \A task \in Tasks \ {item} : StatusOf(task)' = StatusOf(task)
  BY KeptStatus
<1>2. Status' = [task \in Tasks |-> IF task \in {item} THEN to ELSE Status[task]]
  BY <1>1 DEF Status
<1>3. \A task \in {item} : Status[task] = from
  BY DEF Status
<1> QED BY <1>2, <1>3 DEF Life!Become, Status

LEMMA NoneMoves ==
    ASSUME \A task \in Tasks : Kept(task)
    PROVE  Status' = Status
BY KeptStatus DEF Status

LEMMA LifeInit == Init => Life!LInit
<1> SUFFICES ASSUME Init PROVE Life!LInit
  OBVIOUS
<1>1. StatusFacts
  BY PlaceInvInit, StatusIsTold
<1>2. \A task \in Tasks : ~Located(task) /\ result[task] = "none"
  BY EmptySeq, PoolAssumption DEF Init, QInit, InQueue, BeingRun, Located
<1> QED BY <1>1, <1>2 DEF StatusFacts, Init, Life!LInit

(* A step of a worker starts a queued task, ends a running one, or moves   *)
(* no task.                                                                *)
Starts(item) == InQueue(item) /\ BeingRun(item)'
Finishes(item) == BeingRun(item) /\ executions'[item] > 0
OthersKept(item) == \A task \in Tasks \ {item} : Kept(task)

LEMMA WorkerMoves ==
    ASSUME PlaceInv, NEW w \in Workers, WorkerStep(w)
    PROVE  /\ active' = active
           /\ \/ \A task \in Tasks : Kept(task)
              \/ \E item \in Tasks : OthersKept(item) /\ (Starts(item) \/ Finishes(item))
<1>t. /\ TypeInv /\ HoldsWhileRunning /\ WorkersShareNoTask
      /\ running \in [Workers -> Tasks \cup {NoTask}]
      /\ executions \in [Tasks -> Nat]
  BY PlaceInvTypes DEF PlaceInv, BaseInv
<1>c. active' = active /\ result' = result /\ late' = late
  BY DEF WorkerStep, TakeTask, TaskEnds, CountTask, callvars, ghosts
<1> USE PoolAssumption DEF WorkerGoesTo
<1>same. ASSUME UNCHANGED <<queue, running, executions>>
         PROVE  \A task \in Tasks : Kept(task)
  BY <1>same, <1>c DEF Kept, InQueue, BeingRun
<1>1. CASE TakeTask(w)
  <2>1. CASE (PopSleeps(w) \/ PopFindsClosed) /\ UNCHANGED running
    BY <1>1, <2>1, <1>same, <1>c DEF TakeTask, PopSleeps, PopFindsClosed, qvars
  <2>2. ASSUME NEW item \in Tasks, PopTakes(item), running' = [running EXCEPT ![w] = item]
        PROVE  OthersKept(item) /\ Starts(item)
    <3>1. /\ queue # <<>> /\ Dequeue /\ item = Head(queue) /\ executions' = executions
          /\ wpc[w] = "waitPop"
      BY <1>1, <2>2 DEF PopTakes, TakeTask
    <3>2. \A task \in Tasks : InQueue(task) <=> InQueue(task)' \/ task = item
      BY <1>t, <3>1, DequeueMembers
    <3>3. running[w] = NoTask
      BY <1>t, <3>1 DEF HoldsWhileRunning
    <3>4. \A task \in Tasks : BeingRun(task)' <=> BeingRun(task) \/ task = item
      BY <1>t, <2>2, <3>3 DEF BeingRun
    <3> QED BY <1>c, <3>1, <3>2, <3>4 DEF OthersKept, Kept, Starts
  <2> QED BY <1>1, <2>1, <2>2, <1>c DEF TakeTask
<1>2. CASE TaskEnds(w)
  <2>0. PICK item \in Tasks : item = running[w]
    BY <1>2, <1>t DEF TaskEnds, HoldsWhileRunning
  <2>1. /\ item = running[w] /\ queue' = queue
        /\ executions' = [executions EXCEPT ![item] = @ + 1]
        /\ running' = [running EXCEPT ![w] = NoTask]
    BY <1>2, <2>0 DEF TaskEnds, qvars
  <2>2. \A task \in Tasks : InQueue(task)' <=> InQueue(task)
    BY <2>1, SameQueueMembers
  <2>3. \A task \in Tasks \ {item} : BeingRun(task)' <=> BeingRun(task)
    BY <1>t, <2>1 DEF BeingRun
  <2>4. executions'[item] > 0 /\ \A task \in Tasks \ {item} : executions'[task] = executions[task]
    BY <1>t, <2>1
  <2>5. BeingRun(item)
    BY <2>0 DEF BeingRun
  <2> QED BY <1>c, <2>2, <2>3, <2>4, <2>5 DEF OthersKept, Kept, Finishes
<1>3. CASE CountTask(w)
  BY <1>3, <1>same, <1>c DEF CountTask, qvars
<1> QED BY <1>1, <1>2, <1>3 DEF WorkerStep

(* A step of tryEnqueueTask queues the task, late or not, or answers for   *)
(* it without queueing it, or moves no task.                               *)
Queues(task) ==
    /\ InQueue(task)' /\ ~shutdown /\ late' = late
Delays(task) == InQueue(task)' /\ shutdown /\ task \in late'
Answers(task) ==
    /\ InQueue(task)' <=> InQueue(task)
    /\ BeingRun(task)' <=> BeingRun(task)
    /\ executions'[task] = executions[task]
    /\ result'[task] = "false" \/ (result'[task] = "true" /\ shutdown)

LEMMA SubmitterMoves ==
    ASSUME PlaceInv, NEW t \in Threads, EnqueueStep(t)
    PROVE  /\ active' = active
           /\ arg[t] \in Tasks /\ result[arg[t]] = "pending"
           /\ \A item \in Tasks : item = arg[t] =>
                 /\ OthersKept(item)
                 /\ Kept(item) \/ Queues(item) \/ Delays(item) \/ Answers(item)
<1>t. /\ TypeInv /\ SubmitsPending
      /\ result \in [Tasks -> {"none", "pending", "true", "false"}]
  BY PlaceInvTypes DEF PlaceInv, BaseInv
<1>e. /\ call[t] \in EnqueuePCs /\ UNCHANGED <<active, running, executions>>
  BY DEF EnqueueStep, ReadActive, Push, TryPushEntry, TryPushLocked, EnqueuePCs, poolvars
<1>p. PICK item \in Tasks : item = arg[t] /\ result[item] = "pending"
  BY <1>t, <1>e DEF SubmitsPending
<1>r. \A task \in Tasks : BeingRun(task)' <=> BeingRun(task)
  BY <1>e DEF BeingRun
<1> SUFFICES OthersKept(item) /\ (Kept(item) \/ Queues(item) \/ Delays(item) \/ Answers(item))
  BY <1>e, <1>p
<1>same. ASSUME queue' = queue PROVE \A task \in Tasks : InQueue(task)' <=> InQueue(task)
  BY <1>same, SameQueueMembers
<1>app. ASSUME Enqueue(item) PROVE \A task \in Tasks : InQueue(task)' <=> InQueue(task) \/ task = item
  BY <1>app, <1>t, EnqueueMembers
<1>1. CASE Enqueue(item) /\ result' = [result EXCEPT ![item] = "true"] /\ NoteLate(item)
  BY <1>1, <1>app, <1>e, <1>r, <1>t DEF OthersKept, Kept, Queues, Delays, NoteLate
<1>2. CASE /\ Enqueue(item) /\ ~shutdown /\ late' = late
           /\ result' = [result EXCEPT ![item] = "true"]
  BY <1>2, <1>app, <1>e, <1>r, <1>t DEF OthersKept, Kept, Queues
<1>3. CASE queue' = queue /\ late' = late /\ result' = result
  BY <1>3, <1>same, <1>e, <1>r DEF OthersKept, Kept
<1>4. CASE /\ queue' = queue /\ late' = late
           /\ \/ result' = [result EXCEPT ![item] = "false"]
              \/ shutdown /\ result' = [result EXCEPT ![item] = "true"]
  BY <1>4, <1>same, <1>e, <1>r, <1>t DEF OthersKept, Kept, Answers
<1>5. \/ Enqueue(item) /\ result' = [result EXCEPT ![item] = "true"] /\ NoteLate(item)
      \/ Enqueue(item) /\ ~shutdown /\ late' = late /\ result' = [result EXCEPT ![item] = "true"]
      \/ queue' = queue /\ late' = late /\ result' = result
      \/ /\ queue' = queue /\ late' = late
         /\ \/ result' = [result EXCEPT ![item] = "false"]
            \/ shutdown /\ result' = [result EXCEPT ![item] = "true"]
  BY <1>p DEF EnqueueStep, ReadActive, Push, TryPushEntry, TryPushLocked, CallGoesTo, EnqueueReturns,
     PushSleeps, PushDrops, PushAccepts, TryPushRefuses, TryPushAccepts, qvars, ghosts
<1> QED BY <1>1, <1>2, <1>3, <1>4, <1>5

LEMMA LifeStep == LifeInv /\ LifeInv' /\ [Next]_vars => [Life!LNext]_Life!lvars
<1> SUFFICES ASSUME LifeInv, LifeInv', [Next]_vars PROVE [Life!LNext]_Life!lvars
  OBVIOUS
<1>f. StatusFacts
  BY StatusIsTold DEF LifeInv
<1>g. StatusFacts'
  <2>1. PlaceInv => StatusFacts
    BY StatusIsTold
  <2> QED BY <2>1, StatusIsTold, PTL DEF LifeInv
<1>t. /\ PlaceInv /\ OneShutdown /\ OneCloser
      /\ call \in [Threads -> {"none"} \cup EnqueuePCs \cup ShutdownPCs]
      /\ result \in [Tasks -> {"none", "pending", "true", "false"}]
      /\ active \in BOOLEAN
      /\ Callers \subseteq Threads
      /\ \A task \in Tasks : InOnePlace(task)
  BY PlaceInvTypes DEF LifeInv, DrainInv, PlaceInv, TypeInv, TypeOK
<1>same. ASSUME \A task \in Tasks : Kept(task), active' = active
         PROVE  UNCHANGED Life!lvars
  BY <1>same, NoneMoves DEF Life!lvars, Status
<1>1. ASSUME NEW w \in Workers, WorkerStep(w) PROVE [Life!LNext]_Life!lvars
  <2>0. active' = active
    BY <1>1, <1>t, WorkerMoves
  <2>1. ASSUME NEW item \in Tasks, OthersKept(item), Starts(item)
        PROVE  Life!Start \/ Life!StartLate
    <3>1. StatusOf(item) \in {"queued", "late"} /\ StatusOf(item)' = "running"
      BY <2>1, <1>f, <1>g DEF Starts, StatusFacts
    <3>2. Life!Become({item}, StatusOf(item), "running")
      BY <2>0, <2>1, <3>1, OneMoves DEF OthersKept
    <3> QED BY <3>1, <3>2 DEF Life!Start, Life!StartLate
  <2>2. ASSUME NEW item \in Tasks, OthersKept(item), Finishes(item)
        PROVE  Life!Finish
    <3>1. StatusOf(item) = "running" /\ StatusOf(item)' = "done"
      BY <2>2, <1>f, <1>g DEF Finishes, StatusFacts
    <3>2. Life!Become({item}, "running", "done")
      BY <2>0, <2>2, <3>1, OneMoves DEF OthersKept
    <3> QED BY <3>2 DEF Life!Finish
  <2> QED BY <1>1, <1>t, <1>same, <2>0, <2>1, <2>2, WorkerMoves DEF Life!LNext
<1>2. ASSUME NEW t \in Threads, EnqueueStep(t) PROVE [Life!LNext]_Life!lvars
  <2>0. PICK item \in Tasks : item = arg[t] /\ result[item] = "pending"
    BY <1>2, <1>t, SubmitterMoves
  <2>1. /\ active' = active /\ OthersKept(item)
        /\ Kept(item) \/ Queues(item) \/ Delays(item) \/ Answers(item)
    BY <1>2, <1>t, <2>0, SubmitterMoves
  <2>2. ~Located(item) /\ StatusOf(item) = "submitting"
    BY <1>t, <1>f, <2>0 DEF InOnePlace, StatusFacts
  <2>m. ASSUME NEW to, StatusOf(item)' = to PROVE Life!Become({item}, "submitting", to)
    BY <2>1, <2>2, <2>m, OneMoves DEF OthersKept
  <2>open. shutdown => ~active
    BY <1>t DEF OneShutdown
  <2>3. CASE Kept(item)
    <3>1. \A task \in Tasks : Kept(task)
      BY <2>1, <2>3 DEF OthersKept
    <3> QED BY <2>1, <3>1, <1>same
  <2>4. CASE Queues(item)
    <3>1. StatusOf(item)' = "queued"
      BY <2>4, <1>g, <1>t DEF Queues, StatusFacts, OneCloser
    <3> QED BY <3>1, <2>m DEF Life!Queue, Life!LNext
  <2>5. CASE Delays(item)
    <3>1. StatusOf(item)' = "late"
      BY <2>5, <1>g DEF Delays, StatusFacts
    <3> QED BY <3>1, <2>5, <2>m, <2>open DEF Delays, Life!Late, Life!LNext
  <2>6. CASE Answers(item)
    <3>1. ~Located(item)'
      BY <2>2, <2>6 DEF Answers, Located
    <3>2. CASE result'[item] = "false"
      <4>1. StatusOf(item)' = "refused"
        BY <3>1, <3>2, <1>g DEF StatusFacts
      <4> QED BY <4>1, <2>m DEF Life!Refuse, Life!LNext
    <3>3. CASE result'[item] = "true" /\ shutdown
      <4>1. StatusOf(item)' = "lost"
        BY <3>1, <3>3, <1>g DEF StatusFacts
      <4> QED BY <3>3, <4>1, <2>m, <2>open DEF Life!Drop, Life!LNext
    <3> QED BY <2>6, <3>2, <3>3 DEF Answers
  <2> QED BY <2>1, <2>3, <2>4, <2>5, <2>6
<1>k. ASSUME UNCHANGED <<queue, running, executions, result, late>>
      PROVE  \A task \in Tasks : Kept(task)
  BY <1>k DEF Kept, InQueue, BeingRun
<1>3. ASSUME NEW c \in Callers, ShutdownStep(c) PROVE [Life!LNext]_Life!lvars
  <2>0. UNCHANGED <<running, executions, result, late>>
    BY <1>3 DEF ShutdownStep, ExchangeActive, ClearTasks, DrainEnds, ShutdownQueue, JoinWorkers,
       ShutdownReturns, CallGoesTo, poolvars, ghosts
  <2>1. CASE ExchangeActive(c)
    <3>1. queue' = queue /\ active' = FALSE
      BY <2>1 DEF ExchangeActive, qvars
    <3>2. Status' = Status
      BY <2>0, <3>1, <1>k, NoneMoves
    <3>3. CASE active
      BY <3>1, <3>2, <3>3 DEF Life!Close, Life!LNext, Status
    <3>4. CASE ~active
      BY <1>t, <3>1, <3>2, <3>4 DEF Life!lvars, Status
    <3> QED BY <3>3, <3>4
  <2>2. CASE ClearTasks(c)
    <3>1. queue' = <<>> /\ active' = active /\ call[c] = "clear"
      BY <2>2 DEF ClearTasks, ClearQueue, poolvars
    <3>2. ~active /\ late = {}
      BY <1>t, <3>1 DEF OneShutdown, OneCloser, Closing
    <3> DEFINE S == {task \in Tasks : StatusOf(task) = "queued"}
    <3>3. \A task \in Tasks : InQueue(task) <=> task \in S
      BY <1>f, <1>t, <3>2 DEF StatusFacts, Located
    <3>4. ASSUME NEW task \in Tasks PROVE StatusOf(task)' = IF task \in S THEN "lost" ELSE StatusOf(task)
      <4>1. ~InQueue(task)' /\ (BeingRun(task)' <=> BeingRun(task))
        BY <2>0, <3>1, EmptySeq DEF InQueue, BeingRun
      <4>2. CASE InQueue(task)
        <5>1. ~Located(task)' /\ result'[task] = "true"
          BY <2>0, <4>1, <4>2, <1>t, PlaceInvTypes DEF InOnePlace, Located
        <5> QED BY <5>1, <4>2, <3>3, <1>g DEF StatusFacts
      <4>3. CASE ~InQueue(task)
        <5>1. Kept(task)
          BY <2>0, <4>1, <4>3 DEF Kept
        <5> QED BY <5>1, <4>3, <3>3, KeptStatus
      <4> QED BY <4>2, <4>3
    <3>5. CASE S = {}
      <4>1. Status' = Status
        BY <3>4, <3>5 DEF Status
      <4> QED BY <4>1, <3>1 DEF Life!lvars, Status
    <3>6. CASE S # {}
      <4>1. PICK R : R = S
        OBVIOUS
      <4>2. \A task \in Tasks : StatusOf(task)' = IF task \in R THEN "lost" ELSE StatusOf(task)
        BY <3>4, <4>1
      <4>3. Status' = [task \in Tasks |-> IF task \in R THEN "lost" ELSE Status[task]]
        BY <4>2 DEF Status
      <4>4. R = {task \in Tasks : Status[task] = "queued"}
        BY <4>1 DEF Status
      <4>5. Life!Become(R, "queued", "lost")
        BY <3>1, <3>6, <4>1, <4>3, <4>4 DEF Life!Become, Status
      <4>6. Life!Discard
        BY <3>2, <4>4, <4>5 DEF Life!Discard, Status
      <4> QED BY <4>6 DEF Life!LNext
    <3> QED BY <3>5, <3>6
  <2>3. CASE DrainEnds(c) \/ ShutdownQueue(c) \/ JoinWorkers(c)
    <3>1. queue' = queue /\ active' = active
      BY <2>3 DEF DrainEnds, ShutdownQueue, JoinWorkers, CloseQueue, qvars, poolvars
    <3> QED BY <2>0, <3>1, <1>k, <1>same
  <2> QED BY <1>3, <2>1, <2>2, <2>3 DEF ShutdownStep
<1>4. ASSUME NEW t \in Threads, NEW task \in Tasks, CallTryEnqueueTask(t, task)
      PROVE  [Life!LNext]_Life!lvars
  <2>1. /\ UNCHANGED <<queue, running, executions, late, active>>
        /\ result[task] = "none" /\ result' = [result EXCEPT ![task] = "pending"]
    BY <1>4 DEF CallTryEnqueueTask, qvars, poolvars, ghosts
  <2>2. \A other \in Tasks \ {task} : Kept(other)
    BY <2>1, <1>t DEF Kept, InQueue, BeingRun
  <2>3. ~Located(task) /\ ~Located(task)' /\ result'[task] = "pending"
    BY <2>1, <1>t DEF InOnePlace, Located, InQueue, BeingRun
  <2>4. StatusOf(task) = "new" /\ StatusOf(task)' = "submitting"
    BY <2>1, <2>3, <1>f, <1>g DEF StatusFacts
  <2>5. Life!Become({task}, "new", "submitting")
    BY <2>1, <2>2, <2>4, OneMoves
  <2> QED BY <2>5 DEF Life!Submit, Life!LNext
<1>5. ASSUME (\E c \in Callers : CallShutdown(c)) \/ (\E t \in Threads : Spurious(t)) \/ UNCHANGED vars
      PROVE  [Life!LNext]_Life!lvars
  <2>1. UNCHANGED <<queue, running, executions, result, late, active>>
    BY <1>5 DEF CallShutdown, BeginShutdown, CallGoesTo, Spurious, WakesUp, vars, qvars, poolvars, callvars, ghosts
  <2> QED BY <2>1, <1>k, <1>same
<1> QED BY <1>1, <1>2, <1>3, <1>4, <1>5 DEF Next, PoolStep, AtRest

(* The pool implements the safety half of the life of tasks, for any       *)
(* number of workers, callers and tasks: a task runs at most once, never   *)
(* after it was refused, none is lost while the pool is open, and only a   *)
(* closing pool drops, discards or delays one.                             *)
THEOREM PoolKeepsTaskLifecycle == Spec => Life!LSafety
<1>1. Spec => []LifeInv
  BY LifeInvInit, LifeInvStep, NextIsAnyStep, PTL DEF Spec
<1> QED
  BY <1>1, LifeInit, LifeStep, PTL DEF Spec, Life!LSafety
-----------------------------------------------------------------------------
(* The pool as main.cpp uses it (PoolDispatch).  First its start-up: cores *)
(* are handed out in turn.                                                 *)
LEMMA NextInTurn ==
    ASSUME NEW cores \in Nat \ {0}, NEW n \in Nat
    PROVE  /\ n % cores \in 0 .. cores - 1
           /\ (n + 1) % cores = IF (n % cores) + 1 = cores THEN 0 ELSE (n % cores) + 1
<1> DEFINE q == n \div cores
           r == n % cores
           p == (n + 1) \div cores
           s == (n + 1) % cores
<1>1. /\ q \in Int /\ r \in 0 .. cores - 1 /\ n = cores * q + r
      /\ p \in Int /\ s \in 0 .. cores - 1 /\ n + 1 = cores * p + s
  OBVIOUS
<1> HIDE DEF q, r, p, s
<1>2. PICK d \in Int : d = p - q
  BY <1>1
<1>3. cores * d = r + 1 - s
  <2>1. cores * d = cores * p - cores * q
    BY <1>1, <1>2
  <2> QED BY <1>1, <2>1
<1>4. d = 0 \/ d = 1
  <2>1. ASSUME d >= 2 PROVE FALSE
    <3>1. cores * d >= cores * 2
      BY <2>1
    <3> QED BY <1>1, <1>3, <3>1
  <2>2. ASSUME d <= -1 PROVE FALSE
    <3>1. cores * d <= cores * (-1)
      BY <2>2
    <3> QED BY <1>1, <1>3, <3>1
  <2> QED BY <2>1, <2>2
<1>5. s = IF r + 1 = cores THEN 0 ELSE r + 1
  BY <1>1, <1>3, <1>4
<1> QED BY <1>1, <1>5 DEF r, s

WorkerStages == {"unborn", "born", "pinning", "serving", "gone"}
ConstructorStages == {"spawning", "returned", "threw", "terminated"}
Cores == 0 .. numLogicalCores - 1

StartTypes ==
    /\ enableAffinity \in BOOLEAN
    /\ constructor \in ConstructorStages
    /\ worker \in [Workers -> WorkerStages]
    /\ nextCoreId \in Nat
    /\ coreId \in [Workers -> 0 .. numLogicalCores]
    /\ pinned \in [Workers -> Nat]

(* A worker has a core number from the moment it took one, and is bound to *)
(* that core when it enters its loop.                                      *)
PinnedWhereTaken ==
    \A w \in Workers :
        /\ worker[w] \in {"unborn", "born"} => coreId[w] = Startup!Unpinned
        /\ enableAffinity /\ worker[w] \in {"pinning", "serving"} => coreId[w] \in Cores
        /\ enableAffinity /\ worker[w] = "serving" /\ numLogicalCores <= MachineCores =>
               pinned[w] = coreId[w]

(* After any number of turns, complete or not, the cores before the next   *)
(* one have been dealt one more worker than the others.                    *)
DealtInTurn ==
    \E rounds \in Nat : \A core \in Cores :
        Startup!Load(core) = rounds + IF core < nextCoreId % numLogicalCores THEN 1 ELSE 0

StartInv == StartTypes /\ PinnedWhereTaken /\ DealtInTurn

OnCore(core) == {w \in Workers : coreId[w] = core}

LEMMA LoadIsCounted ==
    ASSUME NEW core
    PROVE  /\ Startup!Load(core) = Cardinality(OnCore(core))
           /\ Startup!Load(core)' = Cardinality(OnCore(core)')
BY DEF Startup!Load, OnCore, Startup!Cardinality, Cardinality

LEMMA OnCoreFinite ==
    ASSUME NEW core
    PROVE  IsFiniteSet(OnCore(core)) /\ Cardinality(OnCore(core)) \in Nat
<1>1. OnCore(core) \subseteq Workers
  BY DEF OnCore
<1> QED BY <1>1, FS_Subset, FS_CardinalityType, PoolAssumption

LEMMA StartInvInit == ASSUME DispatchAssumption, Startup!Init PROVE StartInv
<1> USE DEF DispatchAssumption, Startup!Init, Startup!Unpinned, Cores
<1>1. StartTypes
  BY DEF StartTypes, WorkerStages, ConstructorStages
<1>2. PinnedWhereTaken
  BY DEF PinnedWhereTaken
<1>3. DealtInTurn
  <2>1. nextCoreId % numLogicalCores = 0
    OBVIOUS
  <2>2. ASSUME NEW core \in Cores PROVE Startup!Load(core) = 0
    <3>1. OnCore(core) = {}
      BY <2>2 DEF OnCore
    <3> QED BY <3>1, FS_EmptySet, LoadIsCounted
  <2> QED BY <2>1, <2>2 DEF DealtInTurn
<1> QED BY <1>1, <1>2, <1>3 DEF StartInv

LEMMA TakeCoreIdDeals ==
    ASSUME DispatchAssumption, StartInv, NEW w \in Workers, Startup!TakeCoreId(w)
    PROVE  DealtInTurn'
<1>1. /\ coreId' = [coreId EXCEPT ![w] = nextCoreId % numLogicalCores]
      /\ nextCoreId' = nextCoreId + 1
      /\ coreId \in [Workers -> 0 .. numLogicalCores] /\ nextCoreId \in Nat
      /\ coreId[w] = numLogicalCores /\ numLogicalCores \in Nat \ {0}
  BY DEF Startup!TakeCoreId, StartInv, StartTypes, PinnedWhereTaken, DispatchAssumption, Startup!Unpinned
<1>2. PICK turn \in Cores :
          /\ turn = nextCoreId % numLogicalCores
          /\ nextCoreId' % numLogicalCores = IF turn + 1 = numLogicalCores THEN 0 ELSE turn + 1
  BY <1>1, NextInTurn DEF Cores
<1>3. PICK rounds \in Nat : \A core \in Cores :
          Cardinality(OnCore(core)) = rounds + IF core < turn THEN 1 ELSE 0
  BY <1>2, LoadIsCounted DEF StartInv, DealtInTurn
<1>4. Cardinality(OnCore(turn)') = Cardinality(OnCore(turn)) + 1
  <2>1. OnCore(turn)' = OnCore(turn) \cup {w} /\ w \notin OnCore(turn)
    BY <1>1, <1>2 DEF OnCore, Cores
  <2>2. IsFiniteSet(OnCore(turn))
    BY OnCoreFinite
  <2> QED BY <2>1, <2>2, FS_AddElement
<1>5. ASSUME NEW core \in Cores, core # turn
      PROVE  OnCore(core)' = OnCore(core)
  BY <1>1, <1>2, <1>5 DEF OnCore, Cores
<1>6. ASSUME NEW core \in Cores
      PROVE  Startup!Load(core)' = rounds + IF core <= turn THEN 1 ELSE 0
  <2>1. CASE core = turn
    <3>1. Cardinality(OnCore(core)') = rounds + 1
      BY <1>2, <1>3, <1>4, <2>1 DEF Cores
    <3> QED BY <2>1, <3>1, LoadIsCounted DEF Cores
  <2>2. CASE core # turn
    <3>1. Cardinality(OnCore(core)') = rounds + IF core < turn THEN 1 ELSE 0
      BY <1>3, <1>5, <2>2
    <3> QED BY <2>2, <3>1, LoadIsCounted DEF Cores
  <2> QED BY <2>1, <2>2
<1>7. CASE turn + 1 = numLogicalCores
  <2>1. ASSUME NEW core \in Cores
        PROVE  Startup!Load(core)' = (rounds + 1) + IF core < nextCoreId' % numLogicalCores THEN 1 ELSE 0
    BY <1>1, <1>2, <1>6, <1>7 DEF Cores
  <2> QED BY <2>1 DEF DealtInTurn
<1>8. CASE turn + 1 # numLogicalCores
  <2>1. ASSUME NEW core \in Cores
        PROVE  Startup!Load(core)' = rounds + IF core < nextCoreId' % numLogicalCores THEN 1 ELSE 0
    BY <1>1, <1>2, <1>6, <1>8 DEF Cores
  <2> QED BY <2>1 DEF DealtInTurn
<1> QED BY <1>7, <1>8

StartupStep ==
    \/ Startup!Construct \/ Startup!SpawnFails
    \/ \E w \in Workers : Startup!StartWorker(w)

LEMMA StartInvStep ==
    ASSUME DispatchAssumption, StartInv, StartupStep \/ UNCHANGED startvars
    PROVE  StartInv'
<1>t. /\ StartTypes /\ PinnedWhereTaken /\ DealtInTurn
      /\ numLogicalCores \in Nat \ {0} /\ MachineCores \in Nat \ {0}
  BY DEF StartInv, DispatchAssumption
<1> USE DEF StartTypes, WorkerStages, ConstructorStages, Cores, Startup!Unpinned, Startup!WorkerGoesTo
<1>deal. ASSUME UNCHANGED <<nextCoreId, coreId>> PROVE DealtInTurn'
  BY <1>deal, <1>t DEF DealtInTurn, Startup!Load
<1>1. ASSUME NEW w \in Workers, Startup!SpawnWorker(w) PROVE StartInv'
  BY <1>1, <1>t, <1>deal DEF Startup!SpawnWorker, StartInv, PinnedWhereTaken
<1>2. ASSUME Startup!FinishConstructor PROVE StartInv'
  BY <1>2, <1>t, <1>deal DEF Startup!FinishConstructor, StartInv, PinnedWhereTaken
<1>3. ASSUME Startup!SpawnFails PROVE StartInv'
  BY <1>3, <1>t, <1>deal DEF Startup!SpawnFails, StartInv, PinnedWhereTaken, Startup!Born
<1>4. ASSUME NEW w \in Workers, Startup!SkipPinning(w) PROVE StartInv'
  BY <1>4, <1>t, <1>deal DEF Startup!SkipPinning, StartInv, PinnedWhereTaken
<1>5. ASSUME NEW w \in Workers, Startup!TakeCoreId(w) PROVE StartInv'
  <2>1. DealtInTurn'
    BY <1>5, TakeCoreIdDeals
  <2>2. nextCoreId % numLogicalCores \in Cores
    BY <1>t, NextInTurn
  <2>3. StartTypes' /\ PinnedWhereTaken'
    BY <1>5, <1>t, <2>2 DEF Startup!TakeCoreId, PinnedWhereTaken
  <2> QED BY <2>1, <2>3 DEF StartInv
<1>6. ASSUME NEW w \in Workers, Startup!PinCurrentThreadToCore(w) PROVE StartInv'
  BY <1>6, <1>t, <1>deal DEF Startup!PinCurrentThreadToCore, StartInv, PinnedWhereTaken
<1>7. ASSUME UNCHANGED startvars PROVE StartInv'
  BY <1>7, <1>t, <1>deal DEF startvars, StartInv, PinnedWhereTaken
<1> QED
  BY <1>1, <1>2, <1>3, <1>4, <1>5, <1>6, <1>7
  DEF StartupStep, Startup!Construct, Startup!StartWorker

LEMMA StartInvSuffices == ASSUME DispatchAssumption, StartInv PROVE RoundRobinIsEven
<1>1. PICK rounds \in Nat : \A core \in Cores :
          Startup!Load(core) = rounds + IF core < nextCoreId % numLogicalCores THEN 1 ELSE 0
  BY DEF StartInv, DealtInTurn
<1>2. ASSUME NEW i \in Cores, NEW j \in Cores
      PROVE  Startup!Load(i) <= Startup!Load(j) + 1
  BY <1>1
<1> QED BY <1>2 DEF RoundRobinIsEven, Startup!RoundRobinIsEven, Cores
-----------------------------------------------------------------------------
(* Then the suite on its way through the pool.  Main still has the tasks   *)
(* nobody has answered for; an unbounded pool that is active refuses none. *)
SuiteInv ==
    /\ left \in Seq(Tasks) /\ IsInjective(left)
    /\ \A task \in Tasks :
           /\ result[task] = "none" <=> task \in ToSet(left)
           /\ result[task] = "pending" => call[main] \in EnqueuePCs /\ arg[main] = task
           /\ result[task] # "false"
    /\ \A w \in Workers : call[w] = "none"

(* Where main is in its function tells how far the shutdown has come.      *)
SubmitsOrDrains ==
    stage = "drain" => active /\ call[main] \in {"none"} \cup EnqueuePCs

Drains ==
    stage = "destroy" =>
        /\ left = <<>>
        /\ \/ call[main] = "shutdownProcessRemainingTasks" /\ active
           \/ call[main] \in {"drain", "shutdown", "join"} /\ promised = Tasks /\ ~active
           \/ call[main] = "none" /\ promised = Tasks /\ ~active /\ joined

Destroys ==
    stage = "returned" =>
        /\ left = <<>> /\ promised = Tasks /\ ~active /\ joined
        /\ call[main] \in {"none", "shutdownImmediately"}

StageInv ==
    /\ stage \in {"drain", "destroy", "returned"}
    /\ SubmitsOrDrains /\ Drains /\ Destroys

(* Nothing is submitted before the constructor has returned, and only      *)
(* workers that have started run tasks.                                    *)
BuiltBeforeUse ==
    constructor # "returned" => stage = "drain" /\ left = Suite /\ call[main] = "none"

ServingWorkersRun == \A w \in Workers : running[w] # NoTask => worker[w] = "serving"

UseInv == SuiteInv /\ StageInv /\ BuiltBeforeUse /\ ServingWorkersRun

DispatchInv == LifeInv /\ StartInv /\ UseInv

LEMMA DispatchTypes ==
    ASSUME DispatchAssumption, LifeInv
    PROVE  /\ main \in Callers /\ main \in Threads /\ main \notin Workers
           /\ active \in BOOLEAN /\ promised \subseteq Tasks
           /\ running \in [Workers -> Tasks \cup {NoTask}]
           /\ call \in [Threads -> {"none"} \cup EnqueuePCs \cup ShutdownPCs]
           /\ arg \in [Threads -> Tasks \cup {NoTask}]
           /\ result \in [Tasks -> {"none", "pending", "true", "false"}]
           /\ active => ~shutdown
           /\ \A task \in Tasks : BeingRun(task) \/ executions[task] > 0 => result[task] = "true"
<1>1. main \in Callers /\ main \in Threads /\ main \notin Workers
  BY PoolAssumption DEF DispatchAssumption, Threads
<1>2. PlaceInv /\ OneShutdown
  BY DEF LifeInv, DrainInv
<1>3. TypeOK
  BY <1>2, PlaceInvTypes DEF TypeInv
<1>4. \A task \in Tasks : BeingRun(task) \/ executions[task] > 0 => result[task] = "true"
  BY <1>2 DEF PlaceInv, InOnePlace, Located
<1> QED BY <1>1, <1>2, <1>3, <1>4 DEF TypeOK, OneShutdown

LEMMA DispatchInvInit == ASSUME DispatchAssumption, InitDispatch PROVE DispatchInv
<1>1. LifeInv /\ StartInv
  BY LifeInvInit, StartInvInit DEF InitDispatch
<1>2. Suite \in Seq(Tasks) /\ IsInjective(Suite) /\ ToSet(Suite) = Tasks
  BY ListFacts DEF DispatchAssumption, IsInjective, ToSet
<1>3. SuiteInv
  BY <1>2, PoolAssumption DEF InitDispatch, Init, SuiteInv, Threads
<1>4. StageInv /\ BuiltBeforeUse /\ ServingWorkersRun
  BY DispatchTypes, <1>1 DEF InitDispatch, Init, Startup!Init, StageInv, SubmitsOrDrains, Drains, Destroys,
     BuiltBeforeUse, ServingWorkersRun
<1> QED BY <1>1, <1>3, <1>4 DEF DispatchInv, UseInv

(* Every step of the program is one of the pool, or changes nothing there. *)
LEMMA DispatchStepIsPoolStep ==
    ASSUME DispatchAssumption, left \in Seq(Tasks), [NextDispatch]_dispatchvars
    PROVE  [AnyStep]_vars
<1>1. main \in Callers /\ main \in Threads /\ Workers \subseteq Threads
  BY DEF DispatchAssumption, Threads
<1>2. ASSUME MainStep PROVE AnyStep
  <2>1. CASE SubmitNext
    <3>1. Head(left) \in Tasks
      BY <2>1 DEF SubmitNext
    <3> QED BY <1>1, <2>1, <3>1 DEF SubmitNext, AnyStep, Next
  <2>2. CASE BeginDrain \/ BeginDestroy
    BY <1>1, <2>2 DEF BeginDrain, BeginDestroy, AnyStep, ShutdownFunctions
  <2> QED BY <1>2, <2>1, <2>2 DEF MainStep
<1>3. ASSUME CallStep PROVE AnyStep
  BY <1>1, <1>3 DEF CallStep, AnyStep, Next, PoolStep
<1>4. ASSUME NEW w \in Workers, ServingStep(w) \/ Spurious(w) PROVE AnyStep
  BY <1>1, <1>4 DEF ServingStep, AnyStep, Next, PoolStep
<1> QED BY <1>2, <1>3, <1>4 DEF NextDispatch, dispatchvars

LEMMA StartupKeepsUse ==
    ASSUME DispatchAssumption, DispatchInv, StartupStep, UNCHANGED <<vars, mainvars>>
    PROVE  UseInv'
<1>u. UNCHANGED <<call, arg, result, active, promised, joined, running, left, stage>>
  BY DEF vars, poolvars, callvars, ghosts, mainvars
<1>i. SuiteInv /\ StageInv /\ BuiltBeforeUse /\ ServingWorkersRun
  BY DEF DispatchInv, UseInv
<1>1. SuiteInv' /\ StageInv'
  BY <1>u, <1>i DEF SuiteInv, StageInv, SubmitsOrDrains, Drains, Destroys, EnqueuePCs
<1>t. worker \in [Workers -> WorkerStages]
  BY DEF DispatchInv, StartInv, StartTypes
<1>2. ASSUME NEW w \in Workers, Startup!SpawnWorker(w) \/ Startup!StartWorker(w)
      PROVE  constructor' = constructor /\ ServingWorkersRun'
  <2>1. /\ constructor' = constructor /\ worker[w] # "serving"
        /\ \E label \in WorkerStages : worker' = [worker EXCEPT ![w] = label]
    BY <1>2 DEF Startup!SpawnWorker, Startup!StartWorker, Startup!SkipPinning, Startup!TakeCoreId,
       Startup!PinCurrentThreadToCore, Startup!WorkerGoesTo, WorkerStages
  <2> QED BY <2>1, <1>t, <1>u, <1>i DEF ServingWorkersRun
<1>3. ASSUME Startup!FinishConstructor PROVE UseInv'
  BY <1>1, <1>3, <1>u, <1>i DEF Startup!FinishConstructor, UseInv, BuiltBeforeUse, ServingWorkersRun
<1>4. ASSUME Startup!SpawnFails PROVE UseInv'
  <2>1. constructor = "spawning"
    BY <1>4 DEF Startup!SpawnFails
  <2>2. left = Suite /\ stage = "drain" /\ call[main] = "none"
    BY <2>1, <1>i DEF BuiltBeforeUse
  <2>3. \A task \in Tasks : result[task] = "none"
    BY <2>2, <1>i, ListFacts DEF SuiteInv, DispatchAssumption, ToSet
  <2>4. \A w \in Workers : running[w] = NoTask
    BY <2>3, DispatchTypes DEF DispatchInv, BeingRun
  <2> QED BY <1>1, <1>u, <2>2, <2>4 DEF UseInv, BuiltBeforeUse, ServingWorkersRun
<1> QED BY <1>1, <1>2, <1>3, <1>4, <1>u, <1>i DEF StartupStep, Startup!Construct, UseInv, BuiltBeforeUse

LEMMA MainKeepsUse ==
    ASSUME DispatchAssumption, DispatchInv, MainStep, UNCHANGED startvars
    PROVE  UseInv'
<1>i. SuiteInv /\ StageInv /\ BuiltBeforeUse /\ ServingWorkersRun
  BY DEF DispatchInv, UseInv
<1>t. /\ main \in Threads /\ main \notin Workers /\ Workers \subseteq Threads
      /\ call \in [Threads -> {"none"} \cup EnqueuePCs \cup ShutdownPCs]
      /\ arg \in [Threads -> Tasks \cup {NoTask}]
      /\ result \in [Tasks -> {"none", "pending", "true", "false"}]
  BY DispatchTypes DEF DispatchInv, Threads
<1>s. UNCHANGED <<constructor, worker>> /\ constructor = "returned" /\ call[main] = "none"
  BY DEF startvars, MainStep, SubmitNext, BeginDrain, BeginDestroy, MainIsFree
<1>1. CASE SubmitNext
  <2>1. /\ left # <<>> /\ left' = Tail(left) /\ stage' = stage
        /\ call' = [call EXCEPT ![main] = "tryEnqueueTask"]
        /\ arg' = [arg EXCEPT ![main] = Head(left)]
        /\ result' = [result EXCEPT ![Head(left)] = "pending"]
        /\ UNCHANGED <<active, promised, joined, running>>
    BY <1>1 DEF SubmitNext, CallTryEnqueueTask, poolvars, ghosts
  <2>2. PICK item \in Tasks : item = Head(left)
    BY <2>1, <1>i, TailLeaves DEF SuiteInv
  <2>3. left' \in Seq(Tasks) /\ IsInjective(left') /\ ToSet(left') = ToSet(left) \ {item}
    BY <2>1, <2>2, <1>i, TailLeaves DEF SuiteInv
  <2>4. SuiteInv'
    BY <2>1, <2>2, <2>3, <1>i, <1>t, <1>s DEF SuiteInv, EnqueuePCs
  <2>5. stage = "drain"
    BY <2>1, <1>i DEF StageInv, Drains, Destroys
  <2>6. StageInv'
    BY <2>1, <2>5, <1>i, <1>t DEF StageInv, SubmitsOrDrains, Drains, Destroys, EnqueuePCs
  <2> QED BY <2>1, <2>4, <2>6, <1>s, <1>i DEF UseInv, BuiltBeforeUse, ServingWorkersRun
<1>2. CASE BeginDrain
  <2>1. /\ left = <<>> /\ stage = "drain" /\ stage' = "destroy"
        /\ call' = [call EXCEPT ![main] = "shutdownProcessRemainingTasks"]
        /\ UNCHANGED <<left, arg, result, active, promised, joined, running>>
    BY <1>2 DEF BeginDrain, BeginShutdown, CallGoesTo, poolvars, ghosts
  <2>2. SuiteInv'
    BY <2>1, <1>i, <1>t, <1>s DEF SuiteInv, EnqueuePCs
  <2>3. StageInv'
    BY <2>1, <1>i, <1>t DEF StageInv, SubmitsOrDrains, Drains, Destroys
  <2> QED BY <2>1, <2>2, <2>3, <1>s, <1>i DEF UseInv, BuiltBeforeUse, ServingWorkersRun
<1>3. CASE BeginDestroy
  <2>1. /\ stage = "destroy" /\ stage' = "returned"
        /\ call' = [call EXCEPT ![main] = "shutdownImmediately"]
        /\ UNCHANGED <<left, arg, result, active, promised, joined, running>>
    BY <1>3 DEF BeginDestroy, BeginShutdown, CallGoesTo, poolvars, ghosts
  <2>2. SuiteInv'
    BY <2>1, <1>i, <1>t, <1>s DEF SuiteInv, EnqueuePCs
  <2>3. StageInv'
    BY <2>1, <1>i, <1>t, <1>s DEF StageInv, SubmitsOrDrains, Drains, Destroys
  <2> QED BY <2>1, <2>2, <2>3, <1>s, <1>i DEF UseInv, BuiltBeforeUse, ServingWorkersRun
<1> QED BY <1>1, <1>2, <1>3 DEF MainStep

LEMMA SubmitterKeepsUse ==
    ASSUME DispatchAssumption, DispatchInv, EnqueueStep(main), UNCHANGED <<mainvars, startvars>>
    PROVE  UseInv'
<1>i. SuiteInv /\ StageInv /\ BuiltBeforeUse /\ ServingWorkersRun
  BY DEF DispatchInv, UseInv
<1>t. /\ main \in Threads /\ main \notin Workers /\ Workers \subseteq Threads
      /\ call \in [Threads -> {"none"} \cup EnqueuePCs \cup ShutdownPCs]
      /\ arg \in [Threads -> Tasks \cup {NoTask}]
      /\ result \in [Tasks -> {"none", "pending", "true", "false"}]
      /\ active => ~shutdown
  BY DispatchTypes DEF DispatchInv, Threads
<1>b. BaseInv
  BY DEF DispatchInv, LifeInv, DrainInv
<1>e. EnqueueEffects(main)
  BY <1>b, <1>t, EnqueueStepEffects
<1>1. call[main] \in EnqueuePCs /\ stage = "drain" /\ constructor = "returned" /\ active
  BY <1>e, <1>i DEF EnqueueEffects, EnqueuePCs, StageInv, SubmitsOrDrains, Drains, Destroys, BuiltBeforeUse
<1>2. PICK item \in Tasks : item = arg[main] /\ result[item] = "pending"
  BY <1>t, <1>1, <1>b DEF BaseInv, SubmitsPending
<1>3. \/ /\ UNCHANGED <<arg, result>>
         /\ \E label \in EnqueuePCs : call' = [call EXCEPT ![main] = label]
      \/ EnqueueReturns(main, "true")
  BY <1>t, <1>1
  DEF EnqueueStep, ReadActive, Push, TryPushEntry, TryPushLocked, CallGoesTo, PushSleeps, PushDrops,
      PushAccepts, TryPushRefuses, TryPushAccepts, TryPushMayEnter, Full, DispatchAssumption, EnqueuePCs
<1>4. /\ UNCHANGED <<active, promised, joined, running, left, stage, constructor, worker>>
      /\ call'[main] \in EnqueuePCs \cup {"none"}
  BY <1>e DEF EnqueueEffects, poolvars, mainvars, startvars
<1>5. SuiteInv'
  <2>1. \A w \in Workers : call'[w] = "none"
    BY <1>i, <1>t, <1>3 DEF SuiteInv, EnqueueReturns
  <2>2. CASE UNCHANGED <<arg, result>> /\ \E label \in EnqueuePCs : call' = [call EXCEPT ![main] = label]
    BY <2>1, <2>2, <1>4, <1>i, <1>t DEF SuiteInv
  <2>3. CASE EnqueueReturns(main, "true")
    BY <2>1, <2>3, <1>1, <1>2, <1>4, <1>i, <1>t DEF SuiteInv, EnqueueReturns
  <2> QED BY <2>2, <2>3, <1>3
<1>6. StageInv'
  BY <1>1, <1>4 DEF StageInv, SubmitsOrDrains, Drains, Destroys
<1> QED BY <1>1, <1>4, <1>5, <1>6, <1>i DEF UseInv, BuiltBeforeUse, ServingWorkersRun

LEMMA ShutdownKeepsUse ==
    ASSUME DispatchAssumption, DispatchInv, ShutdownStep(main), UNCHANGED <<mainvars, startvars>>
    PROVE  UseInv'
<1>i. SuiteInv /\ StageInv /\ BuiltBeforeUse /\ ServingWorkersRun
  BY DEF DispatchInv, UseInv
<1>t. /\ main \in Threads /\ main \notin Workers /\ Workers \subseteq Threads
      /\ call \in [Threads -> {"none"} \cup EnqueuePCs \cup ShutdownPCs]
      /\ result \in [Tasks -> {"none", "pending", "true", "false"}]
  BY DispatchTypes DEF DispatchInv, Threads
<1>1. /\ UNCHANGED <<arg, result, running, left, stage, constructor, worker>>
      /\ call' = [call EXCEPT ![main] = call'[main]]
      /\ call[main] \in ShutdownFunctions \cup Closing
  BY <1>t
  DEF ShutdownStep, ExchangeActive, ClearTasks, DrainEnds, ShutdownQueue, JoinWorkers, ShutdownReturns,
      CallGoesTo, ShutdownFunctions, Closing, poolvars, mainvars, startvars
<1>2. call[main] \notin EnqueuePCs \cup {"none"}
  BY <1>1 DEF ShutdownFunctions, Closing, EnqueuePCs
<1>3. SuiteInv'
  BY <1>1, <1>2, <1>i, <1>t DEF SuiteInv
<1>4. stage \in {"destroy", "returned"} /\ constructor = "returned"
  BY <1>2, <1>i DEF StageInv, SubmitsOrDrains, BuiltBeforeUse
<1>5. StageInv'
  <2>1. CASE ExchangeActive(main) /\ active
    <3>1. stage = "destroy" /\ left = <<>> /\ call[main] = "shutdownProcessRemainingTasks"
      BY <2>1, <1>i, <1>4 DEF StageInv, Drains, Destroys
    <3>2. call'[main] = "drain" /\ promised' = Accepted /\ ~active'
      BY <2>1, <3>1, <1>t DEF ExchangeActive, CallGoesTo
    <3>3. Accepted = Tasks
      <4>1. \A task \in Tasks : task \notin ToSet(left)
        BY <3>1 DEF ToSet
      <4>2. ASSUME NEW task \in Tasks PROVE result[task] = "true"
        BY <4>1, <1>2, <1>i, <1>t DEF SuiteInv
      <4> QED BY <4>2 DEF Accepted
    <3> QED BY <3>1, <3>2, <3>3, <1>1 DEF StageInv, SubmitsOrDrains, Drains, Destroys
  <2>2. CASE ExchangeActive(main) /\ ~active
    <3>1. call[main] \in ShutdownFunctions /\ call'[main] = "none" /\ UNCHANGED <<promised, joined>> /\ ~active'
      BY <2>2, <1>t DEF ExchangeActive, ShutdownReturns, CallGoesTo, ShutdownFunctions
    <3>2. stage = "returned"
      BY <3>1, <2>2, <1>i, <1>4 DEF StageInv, Drains, ShutdownFunctions
    <3> QED BY <3>1, <3>2, <1>1, <1>i DEF StageInv, SubmitsOrDrains, Drains, Destroys
  <2>3. CASE ClearTasks(main)
    BY <2>3, <1>i, <1>4 DEF ClearTasks, StageInv, Drains, Destroys
  <2>4. CASE DrainEnds(main) \/ ShutdownQueue(main)
    <3>1. /\ call[main] \in {"drain", "shutdown"} /\ call'[main] \in {"shutdown", "join"}
          /\ UNCHANGED <<active, promised, joined>>
      BY <2>4, <1>t DEF DrainEnds, ShutdownQueue, CallGoesTo, poolvars, ghosts
    <3>2. stage = "destroy"
      BY <3>1, <1>i, <1>4 DEF StageInv, Destroys
    <3> QED BY <3>1, <3>2, <1>1, <1>i DEF StageInv, SubmitsOrDrains, Drains, Destroys
  <2>5. CASE JoinWorkers(main)
    <3>1. call[main] = "join" /\ call'[main] = "none" /\ joined' /\ UNCHANGED <<active, promised>>
      BY <2>5, <1>t DEF JoinWorkers, ShutdownReturns, CallGoesTo, ghosts
    <3>2. stage = "destroy"
      BY <3>1, <1>i, <1>4 DEF StageInv, Destroys
    <3> QED BY <3>1, <3>2, <1>1, <1>i DEF StageInv, SubmitsOrDrains, Drains, Destroys
  <2> QED BY <2>1, <2>2, <2>3, <2>4, <2>5 DEF ShutdownStep
<1> QED BY <1>1, <1>3, <1>4, <1>5, <1>i DEF UseInv, BuiltBeforeUse, ServingWorkersRun

LEMMA WorkerKeepsUse ==
    ASSUME DispatchAssumption, DispatchInv, UNCHANGED <<mainvars, startvars>>,
           \/ \E w \in Workers : ServingStep(w) \/ Spurious(w)
           \/ UNCHANGED vars
    PROVE  UseInv'
<1>i. SuiteInv /\ StageInv /\ BuiltBeforeUse /\ ServingWorkersRun
  BY DEF DispatchInv, UseInv
<1>t. running \in [Workers -> Tasks \cup {NoTask}]
  BY DispatchTypes DEF DispatchInv
<1>1. UNCHANGED <<call, arg, result, active, promised, joined, left, stage, constructor, worker>>
  BY DEF ServingStep, WorkerStep, TakeTask, TaskEnds, CountTask, Spurious, vars, poolvars, callvars, ghosts,
         mainvars, startvars
<1>2. \A v \in Workers : running'[v] = running[v] \/ worker[v] = "serving"
  BY <1>t DEF ServingStep, WorkerStep, TakeTask, TaskEnds, CountTask, Spurious, vars, poolvars
<1>3. SuiteInv' /\ StageInv' /\ BuiltBeforeUse'
  BY <1>1, <1>i DEF SuiteInv, StageInv, SubmitsOrDrains, Drains, Destroys, BuiltBeforeUse
<1>4. ServingWorkersRun'
  BY <1>1, <1>2, <1>i DEF ServingWorkersRun
<1> QED BY <1>3, <1>4 DEF UseInv

LEMMA DispatchInvStep ==
    ASSUME DispatchAssumption, DispatchInv, [NextDispatch]_dispatchvars
    PROVE  DispatchInv'
<1>1. LifeInv'
  BY DispatchStepIsPoolStep, LifeInvStep DEF DispatchInv, UseInv, SuiteInv
<1>2. StartInv'
  BY StartInvStep DEF DispatchInv, NextDispatch, StartupStep, dispatchvars
<1>3. UseInv'
  BY StartupKeepsUse, MainKeepsUse, SubmitterKeepsUse, ShutdownKeepsUse, WorkerKeepsUse
  DEF NextDispatch, StartupStep, CallStep, dispatchvars
<1> QED BY <1>1, <1>2, <1>3 DEF DispatchInv
-----------------------------------------------------------------------------
(* Refinement to the contract of a dispatch function: a task is running    *)
(* from when a worker has taken it to when it ends, and when main returns  *)
(* it has joined every worker.                                             *)
ProgressOf(task) ==
    IF executions[task] > 1 THEN "repeated"
    ELSE IF BeingRun(task) THEN "running"
    ELSE IF executions[task] = 1 THEN "done" ELSE "waiting"

Progress == [task \in Tasks |-> ProgressOf(task)]

Outcome ==
    IF Returned THEN "returned"
    ELSE IF constructor \in {"threw", "terminated"} THEN "failed" ELSE "none"

ProgressFacts ==
    \A task \in Tasks :
        /\ executions[task] > 0 => ProgressOf(task) = "done"
        /\ BeingRun(task) => ProgressOf(task) = "running"
        /\ InQueue(task) \/ result[task] = "none" => ProgressOf(task) = "waiting"

LEMMA ProgressIsTold == PlaceInv => ProgressFacts
<1> SUFFICES ASSUME PlaceInv PROVE ProgressFacts
  OBVIOUS
<1>1. \A task \in Tasks : InOnePlace(task) /\ executions[task] \in Nat
  BY PlaceInvTypes DEF PlaceInv
<1> QED BY <1>1 DEF ProgressFacts, ProgressOf, InOnePlace, Located

(* When the workers are joined main has seen all its tasks accepted before *)
(* the drain, which has run them all.                                      *)
LEMMA AllDoneWhenReturning ==
    ASSUME DispatchAssumption, DispatchInv, stage = "returned"
    PROVE  \A task \in Tasks : executions[task] > 0
<1>1. joined /\ promised = Tasks
  BY DEF DispatchInv, UseInv, StageInv, Destroys
<1> QED BY <1>1, DrainInvSuffices DEF DispatchInv, LifeInv, DrainRunsWhatItFound

LEMMA NothingStartedWhileBuilding ==
    ASSUME DispatchAssumption, DispatchInv, constructor # "returned", NEW task \in Tasks
    PROVE  result[task] = "none"
<1>1. left = Suite
  BY DEF DispatchInv, UseInv, BuiltBeforeUse
<1> QED BY <1>1, ListFacts DEF DispatchInv, UseInv, SuiteInv, DispatchAssumption, ToSet

LEMMA ContractInit == ASSUME DispatchAssumption, InitDispatch PROVE Contract!DInit
<1>1. \A task \in Tasks : ~BeingRun(task) /\ executions[task] = 0
  BY PoolAssumption DEF InitDispatch, Init, BeingRun
<1>2. ~Returned /\ constructor = "spawning"
  BY DEF InitDispatch, Startup!Init, Returned
<1> QED BY <1>1, <1>2 DEF Contract!DInit

LEMMA ContractStep ==
    ASSUME DispatchAssumption, DispatchInv, DispatchInv', [NextDispatch]_dispatchvars
    PROVE  [Contract!DNext]_Contract!dvars
<1>i. /\ PlaceInv /\ SuiteInv /\ StageInv /\ BuiltBeforeUse
      /\ \A task \in Tasks : InOnePlace(task)
  BY DEF DispatchInv, LifeInv, UseInv, PlaceInv
<1>t. /\ main \in Callers /\ main \in Threads
      /\ call \in [Threads -> {"none"} \cup EnqueuePCs \cup ShutdownPCs]
  BY DispatchTypes DEF DispatchInv
<1>f. ProgressFacts /\ ProgressFacts'
  <2>1. PlaceInv'
    BY DEF DispatchInv, LifeInv
  <2> QED BY <1>i, <2>1, ProgressIsTold, PTL
<1>same. ASSUME Progress' = Progress, Outcome' = Outcome
         PROVE  UNCHANGED Contract!dvars
  BY <1>same DEF Contract!dvars, Progress, ProgressOf, Outcome
<1>rest. ASSUME UNCHANGED <<running, executions>> PROVE Progress' = Progress
  BY <1>rest DEF Progress, ProgressOf, BeingRun
<1>moves. ASSUME NEW item \in Tasks, NEW from, NEW to,
                 ProgressOf(item) = from, ProgressOf(item)' = to, Outcome' = Outcome,
                 OthersKept(item)
          PROVE  Contract!Advance(item, from, to)
  <2>1. \A task \in Tasks \ {item} : ProgressOf(task)' = ProgressOf(task)
    BY <1>moves DEF OthersKept, Kept, ProgressOf
  <2>2. Progress' = [Progress EXCEPT ![item] = to] /\ Progress[item] = from
    BY <1>moves, <2>1 DEF Progress
  <2> QED BY <1>moves, <2>2 DEF Contract!Advance, Progress, ProgressOf, Outcome
<1>1. ASSUME NEW w \in Workers, ServingStep(w), UNCHANGED <<mainvars, startvars>>
      PROVE  [Contract!DNext]_Contract!dvars
  <2>1. WorkerStep(w) /\ Outcome' = Outcome
    BY <1>1 DEF ServingStep, WorkerStep, TakeTask, TaskEnds, CountTask, callvars, mainvars, startvars,
       Outcome, Returned
  <2>2. ASSUME \A task \in Tasks : Kept(task) PROVE UNCHANGED Contract!dvars
    <3>1. \A task \in Tasks : ProgressOf(task)' = ProgressOf(task)
      BY <2>2 DEF Kept, ProgressOf
    <3>2. Progress' = Progress
      BY <3>1 DEF Progress
    <3> QED BY <3>2, <2>1, <1>same
  <2>3. ASSUME NEW item \in Tasks, OthersKept(item), Starts(item) PROVE Contract!Begin
    <3>1. ProgressOf(item) = "waiting" /\ ProgressOf(item)' = "running"
      BY <1>f, <2>3 DEF Starts, ProgressFacts
    <3>2. stage # "returned"
      BY <1>f, <2>3, <3>1, AllDoneWhenReturning DEF ProgressFacts
    <3>3. constructor = "returned"
      <4>1. result[item] # "none"
        BY <1>i, <2>3 DEF Starts, InOnePlace, Located
      <4> QED BY <4>1, NothingStartedWhileBuilding
    <3>4. Outcome = "none"
      BY <3>2, <3>3 DEF Outcome, Returned
    <3>5. Contract!Advance(item, "waiting", "running")
      BY <2>1, <2>3, <3>1, <1>moves
    <3> QED BY <3>4, <3>5 DEF Contract!Begin, Outcome
  <2>4. ASSUME NEW item \in Tasks, OthersKept(item), Finishes(item) PROVE Contract!End
    <3>1. ProgressOf(item) = "running" /\ ProgressOf(item)' = "done"
      BY <1>f, <2>4 DEF Finishes, ProgressFacts
    <3>2. Contract!Advance(item, "running", "done")
      BY <2>1, <2>4, <3>1, <1>moves
    <3> QED BY <3>2 DEF Contract!End, Outcome
  <2> QED BY <1>i, <2>1, <2>2, <2>3, <2>4, WorkerMoves DEF Contract!DNext
<1>2. ASSUME EnqueueStep(main), UNCHANGED <<mainvars, startvars>>
      PROVE  UNCHANGED Contract!dvars
  <2>1. BaseInv
    BY DEF DispatchInv, LifeInv, DrainInv
  <2>2. EnqueueEffects(main)
    BY <2>1, <1>2, <1>t, EnqueueStepEffects
  <2>3. UNCHANGED <<running, executions>> /\ stage # "returned" /\ UNCHANGED <<stage, constructor>>
    BY <1>2, <1>i, <2>2 DEF EnqueueEffects, poolvars, EnqueuePCs, StageInv, Destroys, mainvars, startvars
  <2> QED BY <2>3, <1>rest, <1>same DEF Outcome, Returned
<1>3. ASSUME ShutdownStep(main), UNCHANGED <<mainvars, startvars>>
      PROVE  [Contract!DNext]_Contract!dvars
  <2>1. UNCHANGED <<running, executions, stage, constructor>> /\ call[main] # "none"
    BY <1>3
    DEF ShutdownStep, ExchangeActive, ClearTasks, DrainEnds, ShutdownQueue, JoinWorkers, ShutdownFunctions,
        poolvars, mainvars, startvars
  <2>2. Progress' = Progress
    BY <2>1, <1>rest
  <2>3. constructor = "returned" /\ Outcome = "none"
    BY <2>1, <1>i DEF BuiltBeforeUse, Outcome, Returned
  <2>4. CASE Outcome' = Outcome
    BY <2>2, <2>4, <1>same
  <2>5. CASE Outcome' # Outcome
    <3>1. stage = "returned" /\ Outcome' = "returned"
      BY <2>1, <2>3, <2>5 DEF Outcome, Returned
    <3>2. \A task \in Tasks : Progress[task] = "done"
      BY <3>1, <1>f, AllDoneWhenReturning DEF ProgressFacts, Progress
    <3>3. Contract!Return
      BY <2>2, <2>3, <3>1, <3>2 DEF Contract!Return, Contract!Conclude, Progress, ProgressOf, Outcome
    <3> QED BY <3>3 DEF Contract!DNext
  <2> QED BY <2>4, <2>5
<1>4. ASSUME MainStep, UNCHANGED startvars PROVE UNCHANGED Contract!dvars
  <2>1. /\ UNCHANGED <<running, executions, constructor>>
        /\ constructor = "returned" /\ call[main] = "none"
    BY <1>4 DEF MainStep, SubmitNext, BeginDrain, BeginDestroy, MainIsFree, CallTryEnqueueTask, BeginShutdown,
       poolvars, startvars
  <2>2. ~Returned /\ ~Returned'
    BY <1>4, <1>t, <1>i
    DEF MainStep, SubmitNext, BeginDrain, BeginDestroy, Returned, CallTryEnqueueTask, BeginShutdown, CallGoesTo,
        StageInv, Destroys
  <2> QED BY <2>1, <2>2, <1>rest, <1>same DEF Outcome
<1>5. ASSUME Startup!SpawnFails, UNCHANGED <<vars, mainvars>> PROVE Contract!Fail
  <2>1. /\ UNCHANGED <<running, executions, stage, call>>
        /\ constructor = "spawning" /\ constructor' \in {"threw", "terminated"}
    BY <1>5 DEF Startup!SpawnFails, vars, poolvars, callvars, mainvars
  <2>2. stage = "drain"
    BY <2>1, <1>i DEF BuiltBeforeUse
  <2>3. Outcome = "none" /\ Outcome' = "failed"
    BY <2>1, <2>2 DEF Outcome, Returned
  <2>4. \A task \in Tasks : Progress[task] = "waiting"
    BY <2>1, <1>f, NothingStartedWhileBuilding DEF ProgressFacts, Progress
  <2>5. Progress' = Progress
    BY <2>1, <1>rest
  <2> QED BY <2>3, <2>4, <2>5 DEF Contract!Fail, Contract!Conclude, Progress, ProgressOf, Outcome
<1>6. ASSUME Startup!Construct \/ \E w \in Workers : Startup!StartWorker(w), UNCHANGED <<vars, mainvars>>
      PROVE  UNCHANGED Contract!dvars
  <2>1. UNCHANGED <<running, executions, stage, call>>
    BY <1>6 DEF vars, poolvars, callvars, mainvars
  <2>2. constructor' = constructor \/ (constructor = "spawning" /\ constructor' = "returned")
    BY <1>6
    DEF Startup!Construct, Startup!FinishConstructor, Startup!SpawnWorker, Startup!StartWorker,
        Startup!SkipPinning, Startup!TakeCoreId, Startup!PinCurrentThreadToCore
  <2> QED BY <2>1, <2>2, <1>rest, <1>same DEF Outcome, Returned
<1>7. ASSUME \/ (\E w \in Workers : Spurious(w)) /\ UNCHANGED <<mainvars, startvars>>
             \/ UNCHANGED dispatchvars
      PROVE  UNCHANGED Contract!dvars
  <2>1. UNCHANGED <<running, executions, stage, call, constructor>>
    BY <1>7 DEF Spurious, dispatchvars, vars, poolvars, callvars, mainvars, startvars
  <2> QED BY <2>1, <1>rest, <1>same DEF Outcome, Returned
<1> QED
  BY <1>1, <1>2, <1>3, <1>4, <1>5, <1>6, <1>7 DEF NextDispatch, CallStep, Contract!DNext

(* The dispatch function of ThreadPool runs each task exactly once and     *)
(* returns after all of them, for any suite and any number of workers,     *)
(* though workers run tasks while main is still submitting and its second  *)
(* shutdown, the destructor's, comes after the first.                      *)
THEOREM DispatchKeepsTheContract ==
    ASSUME DispatchAssumption
    PROVE  SpecDispatch => Contract!DSafety
<1>1. InitDispatch => DispatchInv
  BY DispatchInvInit
<1>2. DispatchInv /\ [NextDispatch]_dispatchvars => DispatchInv'
  BY DispatchInvStep
<1>3. SpecDispatch => []DispatchInv
  BY <1>1, <1>2, PTL DEF SpecDispatch
<1>4. InitDispatch => Contract!DInit
  BY ContractInit
<1>5. DispatchInv /\ DispatchInv' /\ [NextDispatch]_dispatchvars => [Contract!DNext]_Contract!dvars
  BY ContractStep
<1> QED
  BY <1>3, <1>4, <1>5, PTL DEF SpecDispatch, Contract!DSafety

(* Cores are dealt out evenly whatever order any number of workers come up *)
(* in: a worker that takes a number is the next of the round it is in.     *)
THEOREM RoundRobinDealsEvenly ==
    ASSUME DispatchAssumption
    PROVE  SpecDispatch => []RoundRobinIsEven
<1>1. InitDispatch => DispatchInv
  BY DispatchInvInit
<1>2. DispatchInv /\ [NextDispatch]_dispatchvars => DispatchInv'
  BY DispatchInvStep
<1>3. DispatchInv => RoundRobinIsEven
  BY StartInvSuffices DEF DispatchInv
<1> QED
  BY <1>1, <1>2, <1>3, PTL DEF SpecDispatch

(* With affinity on, a worker that runs a task has been bound to its core, *)
(* on a machine that has the cores the code assumes: a worker enters its   *)
(* loop only after it pinned itself, though the queue may have tasks for   *)
(* it while it is still starting.                                          *)
THEOREM OnlyPinnedWorkersRun ==
    ASSUME DispatchAssumption
    PROVE  SpecDispatch => []TasksRunPinned
<1>1. InitDispatch => DispatchInv
  BY DispatchInvInit
<1>2. DispatchInv /\ [NextDispatch]_dispatchvars => DispatchInv'
  BY DispatchInvStep
<1>3. DispatchInv => TasksRunPinned
  BY DEF DispatchInv, StartInv, PinnedWhereTaken, UseInv, ServingWorkersRun, TasksRunPinned, Startup!Unpinned,
     Cores, DispatchAssumption
<1> QED
  BY <1>1, <1>2, <1>3, PTL DEF SpecDispatch
=============================================================================
