--------------------------- MODULE TaskPoolProofs ---------------------------
(***************************************************************************)
(* Theorems about task_thread_pool, for any numbers of workers, callers    *)
(* and tasks: its count of tasks in flight is right across resizes, no     *)
(* worker sleeps over a task, and the destructor leaves what it must not   *)
(* run only when running tasks submit behind its back.                     *)
(***************************************************************************)
EXTENDS TaskThreadPool, CountingLemmas, SequenceTheorems

Types ==
    /\ tasks \in Seq(Tasks)
    /\ pool_running \in BOOLEAN /\ pool_paused \in BOOLEAN /\ notify_task_finish \in BOOLEAN
    /\ wpc \in [Workers -> {"none", "wait", "task", "finished", "exited"}]
    /\ taskCv \subseteq {w \in Workers : wpc[w] = "wait"}
    /\ finishedCv \subseteq {c \in Callers : call[c] = "wait"}
    /\ held \in [Workers -> Tasks \cup {NoTask}]
    /\ executions \in [Tasks -> Nat]
    /\ call \in [Callers -> {"none", "enter", "wait", "destroy", "stop", "join", "restart", "destroyed"}]
    /\ kind \in [Callers -> {"queued", "all", "last"}]
    /\ target \in 1 .. Cardinality(Workers)
    /\ fresh \subseteq Tasks /\ cleared \subseteq Tasks /\ late \subseteq Tasks
    /\ forgotten \subseteq Callers

(* The one thread that stops the workers, joins them and starts new ones.  *)
Stops(c) == call[c] \in {"stop", "join", "restart"}
Destroys(c) == kind[c] = "last"

OneStopper ==
    /\ \A c, d \in Callers : Stops(c) /\ Stops(d) => c = d
    /\ \A c, d \in Callers : Destroys(c) /\ c # d => call[d] = "none" /\ ~Destroys(d)
    /\ \A c \in Callers : call[c] \in {"destroy", "destroyed"} => Destroys(c)
    /\ \A c \in Callers : Destroys(c) => call[c] \notin {"none", "restart"}

(* While the pool does not run no worker sleeps, and a worker leaves only  *)
(* then; a thread that has joined the workers finds none.                  *)
StoppedPool ==
    /\ \A c \in Callers : call[c] \in {"join", "restart", "destroyed"} => ~pool_running
    /\ ~pool_running =>
           /\ taskCv = {}
           /\ \E c \in Callers : call[c] \in {"join", "restart", "destroyed"}
    /\ \A w \in Workers : wpc[w] = "exited" => ~pool_running
    /\ \A c \in Callers : call[c] \in {"restart", "destroyed"} => \A w \in Workers : wpc[w] = "none"

CountIsRight == num_inflight = Cardinality(InFlight)

(* Between the wait of the destructor and its end.                         *)
NothingButLate ==
    \A c \in Callers : Destroys(c) /\ call[c] \in {"stop", "join", "destroyed"} => ToSet(tasks) \subseteq late

TInv == Types /\ OneStopper /\ StoppedPool

LEMMA FiniteWorkers ==
    /\ IsFiniteSet(Workers) /\ Cardinality(Workers) \in Nat \ {0}
    /\ \A S \in SUBSET Workers : IsFiniteSet(S) /\ Cardinality(S) \in Nat
<1>1. IsFiniteSet(Workers) /\ Workers # {}
  BY TtpAssumption
<1>2. Cardinality(Workers) # 0
  BY <1>1, FS_EmptySet
<1> QED BY <1>1, <1>2, FS_Subset, FS_CardinalityType

LEMMA TInvInit == Init => TInv
<1> SUFFICES ASSUME Init PROVE TInv
  OBVIOUS
<1>1. Types
  <2>1. tasks \in Seq(Tasks)
    BY DEF Init
  <2>2. target \in 1 .. Cardinality(Workers)
    BY FiniteWorkers DEF Init
  <2> QED BY <2>1, <2>2 DEF Init, Types
<1>2. OneStopper /\ StoppedPool
  BY DEF Init, OneStopper, StoppedPool, Stops, Destroys
<1> QED BY <1>1, <1>2 DEF TInv

LEMMA NotifyOneLeaves ==
    ASSUME NEW cv, NEW rest \in NotifyOne(cv)
    PROVE  rest \subseteq cv /\ (cv # {} => \E t \in cv : rest = cv \ {t})
BY DEF NotifyOne

(* The workers.                                                            *)
LEMMA WorkerKeepsT ==
    ASSUME TInv, NEW w \in Workers, WorkerStep(w)
    PROVE  TInv'
<1>t. Types /\ OneStopper /\ StoppedPool
  BY DEF TInv
<1>1. CASE TaskEnds(w)
  <2>u. UNCHANGED <<tasks, pool_running, pool_paused, notify_task_finish, taskCv, finishedCv,
                    call, kind, target, fresh, cleared, late, forgotten>>
    BY <1>1 DEF TaskEnds, state, sleepers, calls, ghosts
  <2>1. /\ wpc' = [wpc EXCEPT ![w] = "finished"] /\ wpc[w] = "task"
        /\ held' = [held EXCEPT ![w] = NoTask]
        /\ executions' = [executions EXCEPT ![held[w]] = @ + 1]
    BY <1>1 DEF TaskEnds
  <2>2. Types'
    <3>0. executions \in [Tasks -> Nat] /\ held \in [Workers -> Tasks \cup {NoTask}]
      BY <1>t DEF Types
    <3>1. executions' \in [Tasks -> Nat] /\ held' \in [Workers -> Tasks \cup {NoTask}]
      <4>1. executions' = [t \in Tasks |-> IF t = held[w] THEN executions[t] + 1 ELSE executions[t]]
        BY <2>1, <3>0
      <4>2. executions' \in [Tasks -> Nat]
        BY ONLY <3>0, <4>1
      <4> QED BY <2>1, <3>0, <4>2
    <3>2. /\ wpc' \in [Workers -> {"none", "wait", "task", "finished", "exited"}]
          /\ taskCv \subseteq {v \in Workers : wpc'[v] = "wait"}
      BY <1>t, <2>1 DEF Types
    <3> QED BY <1>t, <2>u, <3>1, <3>2 DEF Types
  <2>3. OneStopper'
    BY <1>t, <2>u DEF OneStopper, Stops, Destroys
  <2>4. StoppedPool'
    BY <1>t, <2>u, <2>1 DEF StoppedPool, Types
  <2> QED BY <2>2, <2>3, <2>4 DEF TInv
<1>2. CASE WorkerSection(w)
  <2>u. UNCHANGED <<pool_running, pool_paused, notify_task_finish, executions,
                    call, kind, target, fresh, cleared, late, forgotten>>
    BY <1>2 DEF WorkerSection, calls, ghosts
  <2>f. finishedCv' \subseteq finishedCv /\ wpc[w] \in {"wait", "finished"} /\ w \notin taskCv
    BY <1>2 DEF WorkerSection
  <2>c. \/ /\ ~pool_running /\ wpc' = [wpc EXCEPT ![w] = "exited"]
           /\ UNCHANGED <<tasks, taskCv, held>>
        \/ /\ pool_running /\ tasks # <<>>
           /\ held' = [held EXCEPT ![w] = Head(tasks)] /\ tasks' = Tail(tasks)
           /\ wpc' = [wpc EXCEPT ![w] = "task"] /\ taskCv' = taskCv
        \/ /\ pool_running /\ wpc' = [wpc EXCEPT ![w] = "wait"] /\ taskCv' = taskCv \cup {w}
           /\ UNCHANGED <<tasks, held>>
    BY <1>2 DEF WorkerSection
  <2>1. tasks # <<>> => Head(tasks) \in Tasks /\ Tail(tasks) \in Seq(Tasks)
    BY <1>t DEF Types
  <2>2. Types'
    <3>1. tasks' \in Seq(Tasks)
      BY <1>t, <2>c, <2>1 DEF Types
    <3>2. held' \in [Workers -> Tasks \cup {NoTask}]
      <4>1. held \in [Workers -> Tasks \cup {NoTask}]
        BY <1>t DEF Types
      <4> QED BY <2>c, <2>1, <4>1
    <3>3. wpc' \in [Workers -> {"none", "wait", "task", "finished", "exited"}]
      BY <1>t, <2>c DEF Types
    <3>4. taskCv' \subseteq {v \in Workers : wpc'[v] = "wait"}
      <4>1. wpc \in [Workers -> {"none", "wait", "task", "finished", "exited"}]
            /\ taskCv \subseteq {v \in Workers : wpc[v] = "wait"}
        BY <1>t DEF Types
      <4> QED BY <2>c, <2>f, <4>1
    <3> QED BY <1>t, <2>u, <2>f, <3>1, <3>2, <3>3, <3>4 DEF Types
  <2>3. OneStopper'
    BY <1>t, <2>u DEF OneStopper, Stops, Destroys
  <2>4. StoppedPool'
    BY <1>t, <2>u, <2>f, <2>c DEF StoppedPool, Types
  <2> QED BY <2>2, <2>3, <2>4 DEF TInv
<1> QED BY <1>1, <1>2 DEF WorkerStep

(* The calls of one critical section, and the spurious wakeups.            *)
LEMMA ShortCallKeepsT ==
    ASSUME TInv,
           \/ \E task \in Tasks : SubmitNow(task)
           \/ \E c \in Callers : ClearTaskQueue(c) \/ Pause(c) \/ Unpause(c)
           \/ \E t \in Workers \cup Callers : Spurious(t)
    PROVE  TInv'
<1>t. Types /\ OneStopper /\ StoppedPool
  BY DEF TInv
<1>u. UNCHANGED <<pool_running, notify_task_finish, wpc, held, executions, call, kind, target>>
  BY DEF SubmitNow, ClearTaskQueue, Pause, Unpause, UnpauseNow, Spurious, state, workers, calls
<1>1. taskCv' \subseteq taskCv /\ finishedCv' \subseteq finishedCv
  BY NotifyOneLeaves
  DEF SubmitNow, ClearTaskQueue, Pause, Unpause, UnpauseNow, Spurious, sleepers
<1>2. tasks' \in Seq(Tasks)
  <2>1. \/ tasks' = tasks \/ tasks' = <<>> \/ \E task \in Tasks : tasks' = Append(tasks, task)
    BY DEF SubmitNow, ClearTaskQueue, Pause, Unpause, UnpauseNow, Spurious, state
  <2>2. tasks \in Seq(Tasks) /\ <<>> \in Seq(Tasks)
    BY <1>t DEF Types
  <2>3. \A task \in Tasks : Append(tasks, task) \in Seq(Tasks)
    BY <2>2, AppendProperties
  <2> QED BY <2>1, <2>2, <2>3
<1>3. pool_paused' \in BOOLEAN
  BY <1>t DEF SubmitNow, ClearTaskQueue, Pause, Unpause, UnpauseNow, Spurious, state, Types
<1>4. fresh' \subseteq Tasks /\ cleared' \subseteq Tasks /\ late' \subseteq Tasks /\ forgotten' \subseteq Callers
  <2>1. ToSet(tasks) \subseteq Tasks
    BY <1>t DEF ToSet, Types
  <2>2. finishedCv \subseteq Callers
    BY <1>t DEF Types
  <2> QED
    BY <1>t, <2>1, <2>2 DEF SubmitNow, ClearTaskQueue, Pause, Unpause, UnpauseNow, Spurious, ghosts, Types
<1>5. Types'
  BY <1>t, <1>u, <1>1, <1>2, <1>3, <1>4 DEF Types
<1>6. OneStopper'
  BY <1>t, <1>u DEF OneStopper, Stops, Destroys
<1>7. StoppedPool'
  BY <1>t, <1>u, <1>1 DEF StoppedPool
<1> QED BY <1>5, <1>6, <1>7 DEF TInv

(* The calls that wait, resize and destroy.                                *)
LEMMA LongCallKeepsT ==
    ASSUME TInv, NEW c \in Callers,
           CallWait(c) \/ CallDestroy(c) \/ SetNumThreads(c) \/ CallStep(c)
    PROVE  TInv'
<1>t. Types /\ OneStopper /\ StoppedPool
  BY DEF TInv
<1>k. kind \in [Callers -> {"queued", "all", "last"}]
  BY <1>t DEF Types
<1>1. CASE CallWait(c)
  <2>1. /\ UNCHANGED <<tasks, pool_running, pool_paused, notify_task_finish, taskCv, finishedCv,
                       wpc, held, executions, target, fresh, cleared, late, forgotten>>
        /\ call[c] = "none" /\ call' = [call EXCEPT ![c] = "enter"] /\ ~Destroying
    BY <1>1 DEF CallWait, MayCall, CallGoesTo, state, sleepers, workers, ghosts
  <2>2. PICK k \in {"queued", "all"} : kind' = [kind EXCEPT ![c] = k]
    BY <1>1 DEF CallWait
  <2>3. Types'
    BY <1>t, <2>1, <2>2 DEF Types
  <2>4. \A d \in Callers : ~Destroys(d) /\ ~Destroys(d)'
    BY <1>k, <2>1, <2>2 DEF Destroying, Destroys
  <2>5. OneStopper'
    BY <1>t, <2>1, <2>4 DEF OneStopper, Stops, Types
  <2>6. StoppedPool'
    BY <1>t, <2>1 DEF StoppedPool, Types
  <2> QED BY <2>3, <2>5, <2>6 DEF TInv
<1>2. CASE CallDestroy(c)
  <2>1. /\ UNCHANGED <<tasks, pool_running, pool_paused, notify_task_finish, taskCv, finishedCv,
                       wpc, held, executions, target, fresh, cleared, late, forgotten>>
        /\ call' = [call EXCEPT ![c] = "destroy"] /\ ~Destroying
        /\ \A d \in Callers : call[d] = "none"
        /\ kind' = [kind EXCEPT ![c] = "last"]
    BY <1>2 DEF CallDestroy, MayCall, CallGoesTo, state, sleepers, workers, ghosts
  <2>3. Types'
    BY <1>t, <2>1 DEF Types
  <2>4. \A d \in Callers : ~Destroys(d)
    BY <2>1 DEF Destroying, Destroys
  <2>5. \A d \in Callers : Destroys(d)' <=> d = c
    BY <1>k, <2>1, <2>4 DEF Destroys
  <2>6. OneStopper'
    BY <1>t, <2>1, <2>5 DEF OneStopper, Stops, Types
  <2>7. StoppedPool'
    BY <1>t, <2>1 DEF StoppedPool, Types
  <2> QED BY <2>3, <2>6, <2>7 DEF TInv
<1>3. CASE SetNumThreads(c)
  <2>1. /\ UNCHANGED <<tasks, pool_running, pool_paused, notify_task_finish, taskCv, finishedCv,
                       held, executions, kind, fresh, cleared, late, forgotten>>
        /\ call[c] = "none" /\ ~Destroying /\ ~Resizing
    BY <1>3 DEF SetNumThreads, MayCall, state, sleepers, ghosts
  <2>2. PICK n \in 1 .. Cardinality(Workers) :
          \/ target' = n /\ call' = [call EXCEPT ![c] = "stop"] /\ wpc' = wpc
          \/ /\ \E S \in SUBSET (Workers \ Alive) :
                    wpc' = [w \in Workers |-> IF w \in S THEN "wait" ELSE wpc[w]]
             /\ UNCHANGED <<target, call>>
    BY <1>3 DEF SetNumThreads, CallGoesTo
  <2>3. \A d \in Callers : ~Stops(d) /\ ~Destroys(d)
    BY <2>1 DEF Resizing, Stops, Destroying, Destroys
  <2>4. /\ wpc' \in [Workers -> {"none", "wait", "task", "finished", "exited"}]
        /\ \A w \in Workers : wpc[w] = "wait" => wpc'[w] = "wait"
        /\ \A w \in Workers : wpc'[w] = "exited" => wpc[w] = "exited"
    BY <1>t, <2>2 DEF Types
  <2>5. Types'
    BY <1>t, <2>1, <2>2, <2>4 DEF Types
  <2>6. \A d \in Callers : Destroys(d)' <=> Destroys(d)
    BY <2>1 DEF Destroys
  <2>7. \A d \in Callers : call'[d] = call[d] \/ (d = c /\ call'[d] = "stop")
    BY <2>2, <1>t DEF Types
  <2>8. OneStopper'
    BY <1>t, <2>3, <2>6, <2>7 DEF OneStopper, Stops
  <2>9. \A d \in Callers : call[d] \notin {"restart", "destroyed"}
    BY <1>t, <2>3 DEF OneStopper, Stops
  <2>10. StoppedPool'
    BY <1>t, <2>1, <2>3, <2>4, <2>7, <2>9 DEF StoppedPool, Stops
  <2> QED BY <2>5, <2>8, <2>10 DEF TInv
<1>4. CASE WaitSection(c)
  <2>1. /\ UNCHANGED <<tasks, pool_running, pool_paused, taskCv, wpc, held, executions, kind,
                       target, fresh, cleared, late>>
        /\ call[c] \in {"enter", "wait"} /\ c \notin finishedCv
    BY <1>4 DEF WaitSection, workers
  <2>2. \/ /\ notify_task_finish' = FALSE /\ forgotten' \subseteq forgotten \cup Callers
           /\ call' = [call EXCEPT ![c] = IF kind[c] = "last" THEN "stop" ELSE "none"]
           /\ finishedCv' = finishedCv
        \/ /\ notify_task_finish' \in BOOLEAN /\ forgotten' = forgotten
           /\ call' = [call EXCEPT ![c] = "wait"]
           /\ finishedCv' = finishedCv \cup {c}
    BY <1>4, <1>t DEF WaitSection, CallGoesTo, Types
  <2>3. /\ call' \in [Callers -> {"none", "enter", "wait", "destroy", "stop", "join", "restart", "destroyed"}]
        /\ \A d \in Callers : d # c => call'[d] = call[d]
        /\ call'[c] = IF finishedCv' # finishedCv THEN "wait" ELSE call'[c]
        /\ call'[c] \in {"none", "stop", "wait"}
        /\ call'[c] = "none" => ~Destroys(c)
        /\ call'[c] = "stop" => Destroys(c)
    BY <2>2, <1>t DEF Types, Destroys
  <2>4. finishedCv' \subseteq {d \in Callers : call'[d] = "wait"}
    BY <1>t, <2>1, <2>2, <2>3 DEF Types
  <2>5. Types'
    BY <1>t, <2>1, <2>2, <2>3, <2>4 DEF Types
  <2>6. \A d \in Callers : Destroys(d)' <=> Destroys(d)
    BY <2>1 DEF Destroys
  <2>7. OneStopper'
    BY <1>t, <2>1, <2>3, <2>6 DEF OneStopper, Stops
  <2>8. StoppedPool'
    BY <1>t, <2>1, <2>3 DEF StoppedPool
  <2> QED BY <2>5, <2>7, <2>8 DEF TInv
<1>5. CASE DestroyUnpauses(c)
  <2>1. /\ UNCHANGED <<tasks, pool_running, notify_task_finish, finishedCv,
                       wpc, held, executions, kind, target, fresh, cleared, late, forgotten>>
        /\ call[c] = "destroy" /\ call' = [call EXCEPT ![c] = "enter"]
        /\ pool_paused' = FALSE /\ taskCv' = {}
    BY <1>5 DEF DestroyUnpauses, UnpauseNow, CallGoesTo, workers, ghosts
  <2>2. Types'
    BY <1>t, <2>1 DEF Types
  <2>3. OneStopper'
    BY <1>t, <2>1 DEF OneStopper, Stops, Destroys, Types
  <2>4. StoppedPool'
    BY <1>t, <2>1 DEF StoppedPool, Types
  <2> QED BY <2>2, <2>3, <2>4 DEF TInv
<1>6. CASE StopThreads(c)
  <2>1. /\ UNCHANGED <<tasks, pool_paused, notify_task_finish, finishedCv,
                       wpc, held, executions, kind, target, fresh, cleared, late, forgotten>>
        /\ call[c] = "stop" /\ call' = [call EXCEPT ![c] = "join"]
        /\ pool_running' = FALSE /\ taskCv' = {}
    BY <1>6 DEF StopThreads, CallGoesTo, workers, ghosts
  <2>2. Types'
    BY <1>t, <2>1 DEF Types
  <2>3. OneStopper'
    BY <1>t, <2>1 DEF OneStopper, Stops, Destroys, Types
  <2>4. call'[c] = "join" /\ \A d \in Callers : d # c => call'[d] = call[d]
    BY <1>t, <2>1 DEF Types
  <2>5. StoppedPool'
    BY <1>t, <2>1, <2>4 DEF StoppedPool
  <2> QED BY <2>2, <2>3, <2>5 DEF TInv
<1>7. CASE JoinThreads(c)
  <2>1. /\ UNCHANGED <<tasks, pool_running, pool_paused, notify_task_finish, taskCv, finishedCv,
                       held, executions, kind, target, fresh, cleared, late, forgotten>>
        /\ call[c] = "join" /\ wpc' = [w \in Workers |-> "none"]
        /\ call' = [call EXCEPT ![c] = IF kind[c] = "last" THEN "destroyed" ELSE "restart"]
    BY <1>7 DEF JoinThreads, CallGoesTo, state, sleepers, ghosts
  <2>2. ~pool_running /\ taskCv = {}
    BY <1>t, <2>1 DEF StoppedPool
  <2>3. Types'
    BY <1>t, <2>1, <2>2 DEF Types
  <2>4. /\ call'[c] = IF Destroys(c) THEN "destroyed" ELSE "restart"
        /\ \A d \in Callers : d # c => call'[d] = call[d]
        /\ \A d \in Callers : Destroys(d)' <=> Destroys(d)
    BY <1>t, <2>1 DEF Types, Destroys
  <2>5. OneStopper'
    BY <1>t, <2>1, <2>4 DEF OneStopper, Stops
  <2>6. StoppedPool'
    BY <1>t, <2>1, <2>2, <2>4 DEF StoppedPool
  <2> QED BY <2>3, <2>5, <2>6 DEF TInv
<1>8. CASE RestartThreads(c)
  <2>1. /\ UNCHANGED <<tasks, pool_paused, notify_task_finish, taskCv, finishedCv,
                       held, executions, kind, target, fresh, cleared, late, forgotten>>
        /\ call[c] = "restart" /\ pool_running' = TRUE
        /\ call' = [call EXCEPT ![c] = "none"]
    BY <1>8 DEF RestartThreads, CallGoesTo, sleepers, ghosts
  <2>2. PICK S \in SUBSET Workers : wpc' = [w \in Workers |-> IF w \in S THEN "wait" ELSE "none"]
    BY <1>8 DEF RestartThreads
  <2>3. taskCv = {}
    BY <1>t, <2>1 DEF StoppedPool
  <2>4. Types'
    BY <1>t, <2>1, <2>2, <2>3 DEF Types
  <2>5. /\ call'[c] = "none" /\ \A d \in Callers : d # c => call'[d] = call[d]
        /\ \A d \in Callers : Destroys(d)' <=> Destroys(d)
    BY <1>t, <2>1 DEF Types, Destroys
  <2>6. \A d \in Callers : d # c => call[d] \notin {"join", "restart", "destroyed"}
    BY <1>t, <2>1 DEF OneStopper, Stops
  <2>7. OneStopper'
    BY <1>t, <2>1, <2>5 DEF OneStopper, Stops
  <2>8. StoppedPool'
    BY <1>t, <2>1, <2>2, <2>5, <2>6 DEF StoppedPool
  <2> QED BY <2>4, <2>7, <2>8 DEF TInv
<1> QED BY <1>1, <1>2, <1>3, <1>4, <1>5, <1>6, <1>7, <1>8 DEF CallStep

LEMMA TInvStep == TInv /\ [Next]_vars => TInv'
<1> SUFFICES ASSUME TInv, [Next]_vars PROVE TInv'
  OBVIOUS
<1>1. CASE UNCHANGED vars
  BY <1>1
  DEF vars, state, sleepers, workers, calls, ghosts, TInv, Types, OneStopper, StoppedPool, Stops, Destroys
<1>2. CASE Next
  BY <1>1, <1>2, WorkerKeepsT, ShortCallKeepsT, LongCallKeepsT DEF Next, SubmitFromTask, SubmitDetach
<1> QED BY <1>1, <1>2

-----------------------------------------------------------------------------
(* Only the section of a worker and the join change who is in flight.      *)
LEMMA CountStep == TInv /\ CountIsRight /\ [Next]_vars => CountIsRight'
<1> SUFFICES ASSUME TInv, CountIsRight, [Next]_vars PROVE CountIsRight'
  OBVIOUS
<1>t. Types /\ OneStopper /\ StoppedPool
  BY DEF TInv
<1>p. wpc \in [Workers -> {"none", "wait", "task", "finished", "exited"}]
  BY <1>t DEF Types
<1>same. ASSUME InFlight' = InFlight, num_inflight' = num_inflight
         PROVE  CountIsRight'
  BY <1>same DEF CountIsRight
<1>1. ASSUME NEW w \in Workers, TaskEnds(w)
      PROVE  CountIsRight'
  <2>1. wpc[w] = "task" /\ wpc' = [wpc EXCEPT ![w] = "finished"] /\ num_inflight' = num_inflight
    BY <1>1 DEF TaskEnds, state
  <2>2. InFlight' = InFlight
    BY <1>p, <2>1 DEF InFlight
  <2> QED BY <2>1, <2>2, <1>same
<1>2. ASSUME NEW w \in Workers, WorkerSection(w)
      PROVE  CountIsRight'
  <2> DEFINE Rest == InFlight \ {w}
             before == IF wpc[w] = "finished" THEN num_inflight - 1 ELSE num_inflight
  <2>1. IsFiniteSet(InFlight) /\ IsFiniteSet(Rest) /\ w \notin Rest /\ Cardinality(Rest) \in Nat
    BY FiniteWorkers DEF InFlight
  <2>2. before = Cardinality(Rest)
    <3>1. CASE wpc[w] = "finished"
      <4>1. w \in InFlight
        BY <3>1 DEF InFlight
      <4> QED BY <2>1, <3>1, <4>1, OneLess DEF CountIsRight
    <3>2. CASE wpc[w] = "wait"
      <4>1. w \notin InFlight
        BY <3>2 DEF InFlight
      <4>2. Rest = InFlight
        BY <4>1
      <4> QED BY <3>2, <4>2 DEF CountIsRight
    <3> QED BY <1>2, <3>1, <3>2 DEF WorkerSection
  <2>3. \/ wpc' = [wpc EXCEPT ![w] = "task"] /\ num_inflight' = before + 1
        \/ /\ \E label \in {"wait", "exited"} : wpc' = [wpc EXCEPT ![w] = label]
           /\ num_inflight' = before
    BY <1>2 DEF WorkerSection
  <2>4. CASE wpc' = [wpc EXCEPT ![w] = "task"] /\ num_inflight' = before + 1
    <3>1. InFlight' = Rest \cup {w}
      BY <1>p, <2>4 DEF InFlight
    <3>2. Cardinality(Rest \cup {w}) = Cardinality(Rest) + 1
      BY <2>1, FS_AddElement
    <3> QED BY <2>2, <2>4, <3>1, <3>2 DEF CountIsRight
  <2>5. CASE /\ \E label \in {"wait", "exited"} : wpc' = [wpc EXCEPT ![w] = label]
             /\ num_inflight' = before
    <3>1. InFlight' = Rest
      BY <1>p, <2>5 DEF InFlight
    <3> QED BY <2>2, <2>5, <3>1 DEF CountIsRight
  <2> QED BY <2>3, <2>4, <2>5
<1>3. ASSUME NEW c \in Callers, SetNumThreads(c)
      PROVE  CountIsRight'
  <2>1. num_inflight' = num_inflight
    BY <1>3 DEF SetNumThreads, state
  <2>2. \/ wpc' = wpc
        \/ \E S \in SUBSET (Workers \ Alive) : wpc' = [w \in Workers |-> IF w \in S THEN "wait" ELSE wpc[w]]
    BY <1>3 DEF SetNumThreads
  <2>3. \A w \in Workers : wpc'[w] \in {"task", "finished"} <=> wpc[w] \in {"task", "finished"}
    BY <1>p, <2>2 DEF Alive
  <2>4. InFlight' = InFlight
    BY <2>3 DEF InFlight
  <2> QED BY <2>1, <2>4, <1>same
<1>4. ASSUME NEW c \in Callers, JoinThreads(c) \/ RestartThreads(c)
      PROVE  CountIsRight'
  <2>1. \A w \in Workers : wpc[w] \notin {"task", "finished"}
    BY <1>4, <1>t DEF JoinThreads, RestartThreads, Alive, StoppedPool
  <2>2. \A w \in Workers : wpc'[w] \notin {"task", "finished"}
    BY <1>4 DEF JoinThreads, RestartThreads
  <2>3. InFlight' = InFlight /\ num_inflight' = num_inflight
    BY <1>4, <2>1, <2>2 DEF JoinThreads, RestartThreads, InFlight, state
  <2> QED BY <2>3, <1>same
<1>5. CASE UNCHANGED <<num_inflight, wpc>>
  BY <1>5, <1>same DEF InFlight
<1>6. ASSUME \/ \E task \in Tasks : SubmitNow(task)
             \/ \E c \in Callers :
                    \/ ClearTaskQueue(c) \/ Pause(c) \/ Unpause(c) \/ CallWait(c) \/ CallDestroy(c)
                    \/ WaitSection(c) \/ DestroyUnpauses(c) \/ StopThreads(c)
             \/ \E t \in Workers \cup Callers : Spurious(t)
             \/ UNCHANGED vars
      PROVE  UNCHANGED <<num_inflight, wpc>>
  BY <1>6
  DEF SubmitNow, ClearTaskQueue, Pause, Unpause, UnpauseNow, CallWait, CallDestroy, WaitSection,
      DestroyUnpauses, StopThreads, Spurious, state, workers, vars
<1> QED
  BY <1>1, <1>2, <1>3, <1>4, <1>5, <1>6
  DEF Next, WorkerStep, CallStep, SubmitFromTask, SubmitDetach

LEMMA CountInit == Init => CountIsRight
<1> SUFFICES ASSUME Init PROVE CountIsRight
  OBVIOUS
<1>1. InFlight = {}
  BY DEF Init, InFlight
<1> QED BY <1>1, FS_EmptySet DEF Init, CountIsRight

(* num_inflight_tasks counts the tasks in flight, across resizes.          *)
THEOREM TypeCorrect == Spec => []TypeOK
<1>1. TInv /\ CountIsRight => TypeOK
  BY DEF TInv, Types, CountIsRight, TypeOK
<1> QED BY <1>1, TInvInit, TInvStep, CountInit, CountStep, PTL DEF Spec

-----------------------------------------------------------------------------
AwakeWorkers == {w \in Workers : wpc[w] = "wait"} \ taskCv

LEMMA NoIdleStep ==
    TInv /\ NoIdleWorkerWhileTasksWait /\ [Next]_vars => NoIdleWorkerWhileTasksWait'
<1> SUFFICES ASSUME TInv, NoIdleWorkerWhileTasksWait, [Next]_vars, TInv',
                    pool_running', ~pool_paused', taskCv' # {}
             PROVE  Len(tasks') <= Cardinality(AwakeWorkers')
  BY TInvStep DEF NoIdleWorkerWhileTasksWait, AwakeWorkers
<1>t. Types /\ OneStopper /\ StoppedPool
  BY DEF TInv
<1>p. /\ wpc \in [Workers -> {"none", "wait", "task", "finished", "exited"}]
      /\ tasks \in Seq(Tasks) /\ tasks' \in Seq(Tasks) /\ taskCv \subseteq Workers
      /\ Len(tasks) \in Nat /\ Len(tasks') \in Nat
  BY DEF TInv, Types
<1>f. /\ IsFiniteSet(AwakeWorkers) /\ IsFiniteSet(AwakeWorkers')
      /\ Cardinality(AwakeWorkers) \in Nat /\ Cardinality(AwakeWorkers') \in Nat
  BY FiniteWorkers DEF AwakeWorkers
<1>i. pool_running /\ ~pool_paused /\ taskCv # {} => Len(tasks) <= Cardinality(AwakeWorkers)
  BY DEF NoIdleWorkerWhileTasksWait, AwakeWorkers
(* The queue does not grow, and whoever was awake is.                      *)
<1>keep. ASSUME pool_running, ~pool_paused, taskCv # {}, AwakeWorkers \subseteq AwakeWorkers',
                Len(tasks') <= Len(tasks)
         PROVE  Len(tasks') <= Cardinality(AwakeWorkers')
  <2>1. Cardinality(AwakeWorkers) <= Cardinality(AwakeWorkers')
    BY <1>keep, <1>f, FS_Subset
  <2> QED BY <1>keep, <1>i, <1>f, <1>p, <2>1
<1>empty. ASSUME tasks' = <<>>
          PROVE  Len(tasks') <= Cardinality(AwakeWorkers')
  BY <1>empty, <1>f
<1>1. ASSUME NEW w \in Workers, TaskEnds(w)
      PROVE  Len(tasks') <= Cardinality(AwakeWorkers')
  <2>1. /\ UNCHANGED <<tasks, pool_running, pool_paused, taskCv>>
        /\ wpc[w] = "task" /\ wpc' = [wpc EXCEPT ![w] = "finished"]
    BY <1>1 DEF TaskEnds, state, sleepers
  <2>2. AwakeWorkers \subseteq AwakeWorkers'
    BY <1>p, <2>1 DEF AwakeWorkers
  <2> QED BY <2>1, <2>2, <1>keep, <1>p
<1>2. ASSUME NEW w \in Workers, WorkerSection(w)
      PROVE  Len(tasks') <= Cardinality(AwakeWorkers')
  <2>1. /\ UNCHANGED <<pool_running, pool_paused>>
        /\ w \notin taskCv /\ wpc[w] \in {"wait", "finished"}
    BY <1>2 DEF WorkerSection
  <2>2. CASE /\ tasks # <<>> /\ tasks' = Tail(tasks) /\ taskCv' = taskCv
             /\ wpc' = [wpc EXCEPT ![w] = "task"]
    <3>1. AwakeWorkers \ {w} \subseteq AwakeWorkers'
      BY <1>p, <2>2 DEF AwakeWorkers
    <3>2. Cardinality(AwakeWorkers \ {w}) >= Cardinality(AwakeWorkers) - 1 /\ IsFiniteSet(AwakeWorkers \ {w})
      <4>1. CASE w \in AwakeWorkers
        BY <4>1, <1>f, OneLess, FS_Subset
      <4>2. CASE w \notin AwakeWorkers
        <5>1. AwakeWorkers \ {w} = AwakeWorkers
          BY <4>2
        <5> QED BY <5>1, <1>f
      <4> QED BY <4>1, <4>2
    <3>3. Cardinality(AwakeWorkers \ {w}) <= Cardinality(AwakeWorkers')
      BY <3>1, <1>f, FS_Subset
    <3>4. Cardinality(AwakeWorkers \ {w}) \in Nat
      BY <3>2, FS_CardinalityType
    <3>5. Len(tasks') = Len(tasks) - 1
      BY <2>2, <1>p
    <3>6. Len(tasks) <= Cardinality(AwakeWorkers)
      BY <1>i, <2>1, <2>2
    <3> QED BY <1>f, <1>p, <3>2, <3>3, <3>4, <3>5, <3>6
  <2>3. CASE tasks = <<>> /\ tasks' = tasks
    BY <2>3, <1>empty
  <2> QED BY <1>2, <2>1, <2>2, <2>3 DEF WorkerSection
<1>3. ASSUME NEW task \in Tasks, SubmitNow(task)
      PROVE  Len(tasks') <= Cardinality(AwakeWorkers')
  <2>1. /\ UNCHANGED <<pool_running, pool_paused, wpc>>
        /\ tasks' = Append(tasks, task) /\ taskCv' \in NotifyOne(taskCv)
    BY <1>3 DEF SubmitNow, workers
  <2>2. taskCv # {}
    BY <2>1, NotifyOneLeaves
  <2>3. PICK t \in taskCv : taskCv' = taskCv \ {t}
    BY <2>1, <2>2, NotifyOneLeaves
  <2>4. wpc[t] = "wait" /\ t \in Workers
    BY <1>t, <2>3 DEF Types
  <2>5. t \notin AwakeWorkers /\ AwakeWorkers \cup {t} \subseteq AwakeWorkers'
    BY <2>1, <2>3, <2>4 DEF AwakeWorkers
  <2>6. Cardinality(AwakeWorkers) + 1 <= Cardinality(AwakeWorkers')
    BY <1>f, <2>5, OneMore
  <2>7. Len(tasks') = Len(tasks) + 1
    BY <2>1, <1>p
  <2>8. Len(tasks) <= Cardinality(AwakeWorkers)
    BY <1>i, <2>1, <2>2
  <2> QED BY <1>f, <1>p, <2>6, <2>7, <2>8
<1>4. ASSUME NEW c \in Callers,
             \/ ClearTaskQueue(c) \/ Pause(c) \/ Unpause(c) \/ DestroyUnpauses(c)
             \/ StopThreads(c) \/ JoinThreads(c) \/ RestartThreads(c)
      PROVE  Len(tasks') <= Cardinality(AwakeWorkers')
  <2>1. CASE ClearTaskQueue(c)
    BY <2>1, <1>empty DEF ClearTaskQueue
  <2>2. CASE Pause(c) \/ Unpause(c) \/ DestroyUnpauses(c) \/ StopThreads(c)
    BY <2>2 DEF Pause, Unpause, DestroyUnpauses, UnpauseNow, StopThreads
  <2>3. CASE JoinThreads(c)
    BY <2>3, <1>t DEF JoinThreads, StoppedPool, state
  <2>4. CASE RestartThreads(c)
    BY <2>4, <1>t DEF RestartThreads, StoppedPool, sleepers
  <2> QED BY <1>4, <2>1, <2>2, <2>3, <2>4
<1>5. ASSUME NEW c \in Callers, SetNumThreads(c)
      PROVE  Len(tasks') <= Cardinality(AwakeWorkers')
  <2>1. UNCHANGED <<tasks, pool_running, pool_paused, taskCv>>
    BY <1>5 DEF SetNumThreads, state, sleepers
  <2>2. \/ wpc' = wpc
        \/ \E S \in SUBSET (Workers \ Alive) : wpc' = [w \in Workers |-> IF w \in S THEN "wait" ELSE wpc[w]]
    BY <1>5 DEF SetNumThreads
  <2>3. \A w \in Workers : wpc[w] = "wait" => wpc'[w] = "wait"
    BY <1>p, <2>2
  <2>4. AwakeWorkers \subseteq AwakeWorkers'
    BY <2>1, <2>3 DEF AwakeWorkers
  <2> QED BY <2>1, <2>4, <1>keep, <1>p
<1>6. ASSUME \/ \E c \in Callers : CallWait(c) \/ CallDestroy(c) \/ WaitSection(c)
             \/ \E t \in Workers \cup Callers : Spurious(t)
             \/ UNCHANGED vars
      PROVE  Len(tasks') <= Cardinality(AwakeWorkers')
  <2>1. UNCHANGED <<tasks, pool_running, pool_paused, wpc>> /\ taskCv' \subseteq taskCv
    BY <1>6 DEF CallWait, CallDestroy, WaitSection, Spurious, state, sleepers, workers, vars
  <2>2. AwakeWorkers \subseteq AwakeWorkers' /\ taskCv # {}
    BY <2>1 DEF AwakeWorkers
  <2> QED BY <2>1, <2>2, <1>keep, <1>p
<1> QED
  BY <1>1, <1>2, <1>3, <1>4, <1>5, <1>6
  DEF Next, WorkerStep, CallStep, SubmitFromTask, SubmitDetach

(* While a worker sleeps in a running pool that is not paused, every task  *)
(* in the queue has an awake worker, through every pause and resize.       *)
THEOREM WorkersAreNotIdle == Spec => []NoIdleWorkerWhileTasksWait
<1>1. Init => NoIdleWorkerWhileTasksWait
  BY DEF Init, NoIdleWorkerWhileTasksWait
<1> QED BY <1>1, TInvInit, TInvStep, NoIdleStep, PTL DEF Spec

-----------------------------------------------------------------------------
LEMMA NothingButLateStep == TInv /\ NothingButLate /\ [Next]_vars => NothingButLate'
<1> SUFFICES ASSUME TInv, NothingButLate, [Next]_vars,
                    NEW c \in Callers, Destroys(c)', call'[c] \in {"stop", "join", "destroyed"},
                    NEW task \in ToSet(tasks')
             PROVE  task \in late'
  BY DEF NothingButLate
<1>t. Types /\ OneStopper /\ StoppedPool
  BY DEF TInv
<1>p. tasks \in Seq(Tasks)
  BY <1>t DEF Types
<1>1. ASSUME Destroys(c), call[c] \in {"stop", "join", "destroyed"}, ToSet(tasks') \subseteq ToSet(tasks), late' = late
      PROVE  task \in late'
  BY <1>1 DEF NothingButLate
<1>2. ASSUME NEW w \in Workers, WorkerStep(w)
      PROVE  task \in late'
  <2>1. UNCHANGED <<call, kind, late>> /\ (tasks' = tasks \/ (tasks # <<>> /\ tasks' = Tail(tasks)))
    BY <1>2 DEF WorkerStep, WorkerSection, TaskEnds, state, calls, ghosts
  <2>2. ToSet(tasks') \subseteq ToSet(tasks)
    BY <1>p, <2>1 DEF ToSet
  <2> QED BY <1>1, <2>1, <2>2 DEF Destroys
<1>3. ASSUME NEW new \in Tasks, SubmitNow(new)
      PROVE  task \in late'
  <2>1. UNCHANGED <<call, kind>> /\ tasks' = Append(tasks, new)
    BY <1>3 DEF SubmitNow, calls
  <2>2. Destroys(c) /\ call[c] \in {"stop", "join", "destroyed"}
    BY <2>1 DEF Destroys
  <2>3. late' = late \cup {new}
    BY <1>3, <2>2 DEF SubmitNow, Destroys
  <2>4. task \in ToSet(tasks) \/ task = new
    BY <1>p, <2>1 DEF ToSet
  <2> QED BY <2>2, <2>3, <2>4 DEF NothingButLate
<1>4. ASSUME NEW d \in Callers, WaitSection(d)
      PROVE  task \in late'
  <2>1. UNCHANGED <<tasks, kind, late>>
    BY <1>4 DEF WaitSection
  <2>2. CASE call'[c] = call[c]
    BY <1>1, <2>1, <2>2 DEF Destroys
  <2>3. CASE call'[c] # call[c]
    <3>1. tasks = <<>>
      BY <1>4, <1>t, <2>3 DEF WaitSection, CallGoesTo, Quiet, Types
    <3> QED BY <2>1, <3>1 DEF ToSet
  <2> QED BY <2>2, <2>3
<1>5. ASSUME NEW d \in Callers,
             \/ ClearTaskQueue(d) \/ Pause(d) \/ Unpause(d) \/ CallWait(d) \/ CallDestroy(d)
             \/ SetNumThreads(d) \/ DestroyUnpauses(d) \/ StopThreads(d) \/ JoinThreads(d)
             \/ RestartThreads(d)
      PROVE  task \in late'
  <2>1. late' = late /\ (tasks' = tasks \/ tasks' = <<>>)
    BY <1>5
    DEF ClearTaskQueue, Pause, Unpause, UnpauseNow, CallWait, CallDestroy, SetNumThreads, DestroyUnpauses,
        StopThreads, JoinThreads, RestartThreads, state, ghosts
  <2>2. ToSet(tasks') \subseteq ToSet(tasks)
    BY <2>1 DEF ToSet
  <2>3. Destroys(c) /\ call[c] \in {"stop", "join", "destroyed"}
    BY <1>5, <1>t
    DEF ClearTaskQueue, Pause, Unpause, UnpauseNow, CallWait, CallDestroy, SetNumThreads, DestroyUnpauses,
        StopThreads, JoinThreads, RestartThreads, MayCall, Destroying, CallGoesTo, calls, Types, Destroys
  <2> QED BY <1>1, <2>1, <2>2, <2>3
<1>6. ASSUME (\E t \in Workers \cup Callers : Spurious(t)) \/ UNCHANGED vars
      PROVE  task \in late'
  <2>1. UNCHANGED <<tasks, call, kind, late>>
    BY <1>6 DEF Spurious, state, calls, ghosts, vars
  <2> QED BY <1>1, <2>1 DEF Destroys
<1> QED
  BY <1>2, <1>3, <1>4, <1>5, <1>6
  DEF Next, CallStep, SubmitFromTask, SubmitDetach

(* The destructor leaves in the queue only what a running task submitted   *)
(* after it had seen the queue empty.                                      *)
THEOREM DestructorLeavesOnlyLateTasks == Spec => []DestructorFinishesQueue
<1>1. Init => NothingButLate
  BY DEF Init, NothingButLate, Destroys
<1>2. TInv /\ NothingButLate => DestructorFinishesQueue
  BY DEF TInv, OneStopper, NothingButLate, DestructorFinishesQueue, Destroyed
<1> QED BY <1>1, <1>2, TInvInit, TInvStep, NothingButLateStep, PTL DEF Spec

-----------------------------------------------------------------------------
(* Where a task is: not submitted, in the queue, at a worker, executed or  *)
(* cleared, and in one of these places at a time.                          *)
Queued(task) == task \in ToSet(tasks)
Held(task) == \E w \in Workers : held[w] = task

InOnePlace(task) ==
    /\ task \in fresh => ~Queued(task) /\ ~Held(task) /\ executions[task] = 0 /\ task \notin cleared
    /\ Queued(task) => ~Held(task) /\ executions[task] = 0 /\ task \notin cleared
    /\ Held(task) => executions[task] = 0 /\ task \notin cleared
    /\ task \in cleared => executions[task] = 0

QueuedOnce == IsInjective(tasks)

HeldOnce ==
    /\ \A w \in Workers : wpc[w] = "task" <=> held[w] # NoTask
    /\ \A v, w \in Workers : held[v] = held[w] /\ held[v] # NoTask => v = w

(* Only a caller that sleeps is forgotten.                                 *)
ForgottenWait == \A c \in forgotten : call[c] = "wait"

Placed ==
    /\ \A task \in Tasks : InOnePlace(task)
    /\ QueuedOnce
    /\ HeldOnce
    /\ ForgottenWait

LEMMA PlacedInit == Init => Placed
<1> SUFFICES ASSUME Init PROVE Placed
  OBVIOUS
<1>1. ToSet(tasks) = {} /\ QueuedOnce /\ \A w \in Workers : held[w] = NoTask /\ wpc[w] = "wait"
  BY EmptyList DEF Init, QueuedOnce
<1>2. \A task \in Tasks : ~Queued(task) /\ ~Held(task)
  BY <1>1, TtpAssumption DEF Queued, Held
<1>3. \A task \in Tasks : InOnePlace(task)
  BY <1>2 DEF Init, InOnePlace
<1> QED BY <1>1, <1>3 DEF Init, Placed, HeldOnce, ForgottenWait

(* The four moves of a task, and the steps that move none.                 *)
Places == <<tasks, held, executions, fresh, cleared>>

LEMMA TakeMoves ==
    ASSUME TInv, Placed, NEW w \in Workers, WorkerSection(w), held' # held
    PROVE  /\ tasks # <<>> /\ Head(tasks) \in Tasks
           /\ ~Paused /\ ~Paused'
           /\ held[w] = NoTask /\ held' = [held EXCEPT ![w] = Head(tasks)]
           /\ wpc' = [wpc EXCEPT ![w] = "task"]
           /\ \A task \in Tasks : Queued(task)' <=> Queued(task) /\ task # Head(tasks)
           /\ \A task \in Tasks : Held(task)' <=> Held(task) \/ task = Head(tasks)
           /\ Queued(Head(tasks)) /\ QueuedOnce'
           /\ UNCHANGED <<executions, fresh, cleared, forgotten, call, kind>>
<1>t. Types /\ StoppedPool /\ QueuedOnce /\ HeldOnce
  BY DEF TInv, Placed
<1>1. /\ tasks # <<>> /\ held' = [held EXCEPT ![w] = Head(tasks)] /\ tasks' = Tail(tasks)
      /\ wpc' = [wpc EXCEPT ![w] = "task"] /\ pool_running /\ ~pool_paused
      /\ wpc[w] \in {"wait", "finished"}
      /\ UNCHANGED <<pool_running, pool_paused, executions, fresh, cleared, forgotten, call, kind>>
  BY DEF WorkerSection, calls, ghosts
<1>2. /\ Head(tasks) \in Tasks /\ Head(tasks) \in ToSet(tasks)
      /\ ToSet(tasks') = ToSet(tasks) \ {Head(tasks)} /\ QueuedOnce'
  BY <1>1, <1>t, TailLeaves DEF Types, QueuedOnce
<1>3. held[w] = NoTask
  BY <1>1, <1>t DEF HeldOnce
<1>4. \A task \in Tasks : Held(task)' <=> Held(task) \/ task = Head(tasks)
  BY <1>1, <1>2, <1>3, <1>t, TtpAssumption DEF Held, Types
<1>5. \A c \in Callers : call[c] \notin {"join", "restart", "destroyed"}
  BY <1>1, <1>t DEF StoppedPool
<1> QED BY <1>1, <1>2, <1>3, <1>4, <1>5 DEF Queued, Paused

LEMMA TaskEndMoves ==
    ASSUME TInv, Placed, NEW w \in Workers, TaskEnds(w)
    PROVE  /\ held[w] \in Tasks /\ Held(held[w])
           /\ held' = [held EXCEPT ![w] = NoTask]
           /\ wpc' = [wpc EXCEPT ![w] = "finished"]
           /\ \A task \in Tasks : Held(task)' <=> Held(task) /\ task # held[w]
           /\ \A task \in Tasks :
                  executions'[task] = IF task = held[w] THEN executions[task] + 1 ELSE executions[task]
           /\ UNCHANGED <<tasks, pool_running, pool_paused, fresh, cleared, forgotten, call, kind>>
<1>t. Types /\ HeldOnce
  BY DEF TInv, Placed
<1>1. /\ wpc[w] = "task"
      /\ executions' = [executions EXCEPT ![held[w]] = @ + 1]
      /\ held' = [held EXCEPT ![w] = NoTask]
      /\ wpc' = [wpc EXCEPT ![w] = "finished"]
      /\ UNCHANGED <<tasks, pool_running, pool_paused, fresh, cleared, forgotten, call, kind>>
  BY DEF TaskEnds, state, calls, ghosts
<1>2. held[w] \in Tasks /\ Held(held[w])
  BY <1>1, <1>t DEF HeldOnce, Types, Held
<1>3. \A task \in Tasks : Held(task)' <=> Held(task) /\ task # held[w]
  <2> SUFFICES ASSUME NEW task \in Tasks PROVE Held(task)' <=> Held(task) /\ task # held[w]
    OBVIOUS
  <2>1. \A v \in Workers : held'[v] = IF v = w THEN NoTask ELSE held[v]
    BY <1>1, <1>t DEF Types
  <2>2. \A v \in Workers : held[v] = held[w] => v = w
    BY <1>2, <1>t, TtpAssumption DEF HeldOnce
  <2>3. task # NoTask
    BY TtpAssumption
  <2> QED BY <2>1, <2>2, <2>3 DEF Held
<1>4. \A task \in Tasks :
        executions'[task] = IF task = held[w] THEN executions[task] + 1 ELSE executions[task]
  BY <1>1, <1>t DEF Types
<1> QED BY <1>1, <1>2, <1>3, <1>4

LEMMA SubmitMoves ==
    ASSUME TInv, Placed, NEW new \in Tasks, SubmitNow(new)
    PROVE  /\ new \in fresh /\ fresh' = fresh \ {new}
           /\ \A task \in Tasks : Queued(task)' <=> Queued(task) \/ task = new
           /\ QueuedOnce'
           /\ UNCHANGED <<pool_paused, wpc, held, executions, cleared, forgotten, call, kind>>
<1>1. /\ new \in fresh /\ fresh' = fresh \ {new} /\ tasks' = Append(tasks, new)
      /\ UNCHANGED <<pool_paused, wpc, held, executions, cleared, forgotten, call, kind>>
  BY DEF SubmitNow, workers, calls
<1>2. new \notin ToSet(tasks) /\ tasks \in Seq(Tasks)
  BY <1>1 DEF TInv, Types, Placed, InOnePlace, Queued
<1>3. ToSet(tasks') = ToSet(tasks) \cup {new} /\ QueuedOnce'
  BY <1>1, <1>2, AppendAdds DEF Placed, QueuedOnce
<1> QED BY <1>1, <1>3 DEF Queued

LEMMA ClearMoves ==
    ASSUME TInv, NEW c \in Callers, ClearTaskQueue(c)
    PROVE  /\ \A task \in Tasks : ~Queued(task)'
           /\ \A task \in Tasks : task \in cleared' <=> task \in cleared \/ Queued(task)
           /\ QueuedOnce'
           /\ forgotten \subseteq forgotten' /\ forgotten' \subseteq forgotten \cup finishedCv
           /\ tasks = <<>> => forgotten' = forgotten
           /\ UNCHANGED <<pool_paused, wpc, held, executions, fresh, call, kind>>
<1>1. /\ tasks' = <<>> /\ cleared' = cleared \cup ToSet(tasks)
      /\ UNCHANGED <<pool_paused, wpc, held, executions, fresh, call, kind>>
  BY DEF ClearTaskQueue, workers, calls
<1>2. /\ forgotten \subseteq forgotten' /\ forgotten' \subseteq forgotten \cup finishedCv
      /\ tasks = <<>> => forgotten' = forgotten
  BY DEF ClearTaskQueue
<1>3. ToSet(tasks') = {} /\ QueuedOnce'
  BY <1>1, EmptyList DEF QueuedOnce
<1> QED BY <1>1, <1>2, <1>3 DEF Queued

(* Every other step leaves the tasks where they are; workers end and begin *)
(* without one.                                                            *)
Stays(task) ==
    /\ Queued(task)' <=> Queued(task)
    /\ Held(task)' <=> Held(task)
    /\ executions'[task] = executions[task]
    /\ task \in cleared' <=> task \in cleared
    /\ task \in fresh' <=> task \in fresh

LEMMA PlacesStay == UNCHANGED Places => (\A task \in Tasks : Stays(task)) /\ (QueuedOnce => QueuedOnce')
BY DEF Places, Stays, Queued, Held, QueuedOnce

LEMMA OtherStepsMoveNone ==
    ASSUME TInv, Placed,
           \/ \E w \in Workers : WorkerSection(w) /\ held' = held
           \/ \E c \in Callers :
                  \/ Pause(c) \/ Unpause(c) \/ CallWait(c) \/ CallDestroy(c)
                  \/ SetNumThreads(c) \/ CallStep(c)
           \/ \E t \in Workers \cup Callers : Spurious(t)
           \/ UNCHANGED vars
    PROVE  UNCHANGED Places /\ HeldOnce'
<1>t. Types /\ StoppedPool /\ HeldOnce
  BY DEF TInv, Placed
<1>1. ASSUME NEW w \in Workers, WorkerSection(w), held' = held
      PROVE  UNCHANGED Places /\ HeldOnce'
  <2>1. wpc[w] \in {"wait", "finished"} /\ UNCHANGED <<executions, fresh, cleared>>
    BY <1>1 DEF WorkerSection, ghosts
  <2>2. held[w] = NoTask
    BY <1>t, <2>1 DEF HeldOnce
  <2>3. CASE tasks # <<>> /\ held' = [held EXCEPT ![w] = Head(tasks)]
    <3>1. Head(tasks) \in Tasks
      BY <1>t, <2>3 DEF Types
    <3>2. held'[w] \in Tasks
      BY <1>t, <2>3, <3>1 DEF Types
    <3> QED BY <1>1, <2>2, <3>2, TtpAssumption
  <2>4. CASE (\E label \in {"exited", "wait"} : wpc' = [wpc EXCEPT ![w] = label]) /\ tasks' = tasks
    BY <1>1, <1>t, <2>1, <2>2, <2>4 DEF HeldOnce, Types, Places
  <2> QED BY <1>1, <2>3, <2>4 DEF WorkerSection
<1>2. ASSUME NEW c \in Callers, SetNumThreads(c)
      PROVE  UNCHANGED Places /\ HeldOnce'
  <2>1. UNCHANGED Places
    BY <1>2 DEF SetNumThreads, state, ghosts, Places
  <2>2. \/ wpc' = wpc
        \/ \E S \in SUBSET (Workers \ Alive) : wpc' = [w \in Workers |-> IF w \in S THEN "wait" ELSE wpc[w]]
    BY <1>2 DEF SetNumThreads
  <2>3. \A w \in Workers : wpc'[w] = "task" <=> wpc[w] = "task"
    BY <2>2 DEF Alive
  <2> QED BY <1>t, <2>1, <2>3 DEF HeldOnce, Places
<1>3. ASSUME NEW c \in Callers, JoinThreads(c) \/ RestartThreads(c)
      PROVE  UNCHANGED Places /\ HeldOnce'
  <2>1. UNCHANGED Places
    BY <1>3 DEF JoinThreads, RestartThreads, state, ghosts, Places
  <2>2. \A w \in Workers : wpc[w] # "task" /\ wpc'[w] # "task"
    BY <1>3, <1>t DEF JoinThreads, RestartThreads, Alive, StoppedPool
  <2> QED BY <1>t, <2>1, <2>2 DEF HeldOnce, Places
<1>4. ASSUME \/ \E c \in Callers :
                    \/ Pause(c) \/ Unpause(c) \/ CallWait(c) \/ CallDestroy(c)
                    \/ WaitSection(c) \/ DestroyUnpauses(c) \/ StopThreads(c)
             \/ \E t \in Workers \cup Callers : Spurious(t)
             \/ UNCHANGED vars
      PROVE  UNCHANGED Places /\ HeldOnce'
  <2>1. UNCHANGED <<Places, wpc>>
    BY <1>4
    DEF Pause, Unpause, UnpauseNow, CallWait, CallDestroy, WaitSection, DestroyUnpauses, StopThreads,
        Spurious, state, workers, ghosts, vars, Places
  <2> QED BY <1>t, <2>1 DEF HeldOnce, Places
<1> QED BY <1>1, <1>2, <1>3, <1>4 DEF CallStep

LEMMA ForgottenStep == TInv /\ ForgottenWait /\ [Next]_vars => ForgottenWait'
<1> SUFFICES ASSUME TInv, ForgottenWait, [Next]_vars, NEW c \in forgotten'
             PROVE  call'[c] = "wait"
  BY DEF ForgottenWait
<1>t. Types
  BY DEF TInv
<1>p. /\ call \in [Callers -> {"none", "enter", "wait", "destroy", "stop", "join", "restart", "destroyed"}]
      /\ forgotten \subseteq Callers
  BY <1>t DEF Types
<1>1. ASSUME NEW d \in Callers, WaitSection(d) PROVE call'[c] = "wait"
  <2>1. \/ /\ call' = [call EXCEPT ![d] = IF kind[d] = "last" THEN "stop" ELSE "none"]
           /\ forgotten' = (forgotten \cup {e \in Callers : call[e] = "wait"}) \ {d}
        \/ call' = [call EXCEPT ![d] = "wait"] /\ forgotten' = forgotten
    BY <1>1 DEF WaitSection, CallGoesTo
  <2> QED BY <1>p, <2>1 DEF ForgottenWait
<1>2. ASSUME NEW d \in Callers, ClearTaskQueue(d) PROVE call'[c] = "wait"
  <2>1. c \in forgotten \cup finishedCv /\ call' = call
    BY <1>2, ClearMoves
  <2> QED BY <1>t, <2>1 DEF Types, ForgottenWait
<1>3. ASSUME forgotten' = forgotten,
             NEW d \in Callers, call[d] # "wait", \A e \in Callers \ {d} : call'[e] = call[e]
      PROVE  call'[c] = "wait"
  BY <1>p, <1>3 DEF ForgottenWait
<1>4. ASSUME NEW d \in Callers,
             \/ CallWait(d) \/ CallDestroy(d) \/ SetNumThreads(d) \/ DestroyUnpauses(d)
             \/ StopThreads(d) \/ JoinThreads(d) \/ RestartThreads(d)
      PROVE  call'[c] = "wait"
  <2>1. forgotten' = forgotten /\ call[d] # "wait"
    BY <1>4
    DEF CallWait, CallDestroy, SetNumThreads, DestroyUnpauses, StopThreads, JoinThreads, RestartThreads,
        MayCall, ghosts
  <2>2. \A e \in Callers \ {d} : call'[e] = call[e]
    BY <1>4, <1>p
    DEF CallWait, CallDestroy, SetNumThreads, DestroyUnpauses, StopThreads, JoinThreads, RestartThreads,
        CallGoesTo
  <2> QED BY <1>3, <2>1, <2>2
<1>5. ASSUME \/ \E w \in Workers : WorkerStep(w)
             \/ \E task \in Tasks : SubmitNow(task)
             \/ \E d \in Callers : Pause(d) \/ Unpause(d)
             \/ \E t \in Workers \cup Callers : Spurious(t)
             \/ UNCHANGED vars
      PROVE  call'[c] = "wait"
  <2>1. forgotten' = forgotten /\ call' = call
    BY <1>5
    DEF WorkerStep, WorkerSection, TaskEnds, SubmitNow, Pause, Unpause, Spurious, calls, ghosts, vars
  <2> QED BY <2>1 DEF ForgottenWait
<1> QED
  BY <1>1, <1>2, <1>4, <1>5 DEF Next, CallStep, SubmitFromTask, SubmitDetach

LEMMA PlacedStep == TInv /\ Placed /\ [Next]_vars => Placed'
<1> SUFFICES ASSUME TInv, Placed, [Next]_vars
             PROVE  (\A task \in Tasks : InOnePlace(task)') /\ QueuedOnce' /\ HeldOnce'
  BY ForgottenStep DEF Placed
<1>t. Types /\ HeldOnce /\ QueuedOnce /\ \A task \in Tasks : InOnePlace(task)
  BY DEF TInv, Placed
<1>1. ASSUME NEW w \in Workers, TaskEnds(w)
      PROVE  (\A task \in Tasks : InOnePlace(task)') /\ QueuedOnce' /\ HeldOnce'
  <2>1. HeldOnce'
    <3>1. held' = [held EXCEPT ![w] = NoTask] /\ wpc' = [wpc EXCEPT ![w] = "finished"]
      BY <1>1, TaskEndMoves
    <3> QED BY <1>t, <3>1 DEF HeldOnce, Types
  <2>2. UNCHANGED <<tasks, fresh, cleared>>
    BY <1>1, TaskEndMoves
  <2>3. QueuedOnce'
    BY <1>t, <2>2 DEF QueuedOnce
  <2>4. \A task \in Tasks : InOnePlace(task)'
    BY <1>1, <1>t, <2>2, TaskEndMoves DEF InOnePlace, Queued
  <2> QED BY <2>1, <2>3, <2>4
<1>2. ASSUME NEW w \in Workers, WorkerSection(w), held' # held
      PROVE  (\A task \in Tasks : InOnePlace(task)') /\ QueuedOnce' /\ HeldOnce'
  <2>1. HeldOnce'
    <3>1. /\ Head(tasks) \in Tasks /\ held' = [held EXCEPT ![w] = Head(tasks)]
          /\ wpc' = [wpc EXCEPT ![w] = "task"] /\ Queued(Head(tasks))
      BY <1>2, TakeMoves
    <3>2. \A v \in Workers : held[v] # Head(tasks)
      BY <1>t, <3>1 DEF InOnePlace, Held
    <3> QED BY <1>t, <3>1, <3>2, TtpAssumption DEF HeldOnce, Types
  <2>2. \A task \in Tasks : InOnePlace(task)'
    BY <1>2, <1>t, TakeMoves DEF InOnePlace
  <2> QED BY <1>2, <2>1, <2>2, TakeMoves
<1>3. ASSUME NEW new \in Tasks, SubmitNow(new)
      PROVE  (\A task \in Tasks : InOnePlace(task)') /\ QueuedOnce' /\ HeldOnce'
  <2>1. UNCHANGED <<wpc, held, executions, cleared>> /\ QueuedOnce'
    BY <1>3, SubmitMoves
  <2>2. \A task \in Tasks : InOnePlace(task)'
    BY <1>3, <1>t, <2>1, SubmitMoves DEF InOnePlace, Held
  <2> QED BY <1>t, <2>1, <2>2 DEF HeldOnce
<1>4. ASSUME NEW c \in Callers, ClearTaskQueue(c)
      PROVE  (\A task \in Tasks : InOnePlace(task)') /\ QueuedOnce' /\ HeldOnce'
  <2>1. UNCHANGED <<wpc, held, executions, fresh>> /\ QueuedOnce'
    BY <1>4, ClearMoves
  <2>2. \A task \in Tasks : InOnePlace(task)'
    BY <1>4, <1>t, <2>1, ClearMoves DEF InOnePlace, Held
  <2> QED BY <1>t, <2>1, <2>2 DEF HeldOnce
<1>5. ASSUME UNCHANGED Places, HeldOnce'
      PROVE  (\A task \in Tasks : InOnePlace(task)') /\ QueuedOnce' /\ HeldOnce'
  BY <1>5, <1>t, PlacesStay DEF Stays, InOnePlace
<1> QED
  BY <1>1, <1>2, <1>3, <1>4, <1>5, OtherStepsMoveNone
  DEF Next, WorkerStep, SubmitFromTask, SubmitDetach

-----------------------------------------------------------------------------
(* The status of a task tells its place.                                   *)
TellsPlace(task) ==
    /\ StatusOf(task) = "running" <=> Held(task)
    /\ StatusOf(task) = "queued" <=> Queued(task)
    /\ StatusOf(task) = "cleared" <=> task \in cleared
    /\ StatusOf(task) = "done" <=> executions[task] # 0
    /\ task \in fresh => StatusOf(task) = "new"
    /\ StatusOf(task) \in {"new", "queued", "running", "done", "cleared"}

Told == \A task \in Tasks : TellsPlace(task)

LEMMA StatusIsTold == Types /\ Placed => Told
<1> SUFFICES ASSUME Types, Placed, NEW task \in Tasks PROVE TellsPlace(task)
  BY DEF Told
<1>1. InOnePlace(task) /\ executions[task] \in Nat
  BY DEF Placed, Types
<1>2. CASE Held(task)
  <2>1. StatusOf(task) = "running"
    BY <1>1, <1>2 DEF StatusOf, InOnePlace, Held, Queued
  <2> QED BY <1>1, <1>2, <2>1 DEF InOnePlace, TellsPlace
<1>3. CASE executions[task] > 0
  <2>1. StatusOf(task) = "done"
    BY <1>1, <1>3 DEF StatusOf, InOnePlace, Held, Queued
  <2> QED BY <1>1, <1>3, <2>1 DEF InOnePlace, TellsPlace
<1>4. CASE task \in cleared
  <2>1. StatusOf(task) = "cleared"
    BY <1>1, <1>4 DEF StatusOf, InOnePlace, Held, Queued
  <2> QED BY <1>1, <1>4, <2>1 DEF InOnePlace, TellsPlace
<1>5. CASE Queued(task)
  <2>1. StatusOf(task) = "queued"
    BY <1>1, <1>5 DEF StatusOf, InOnePlace, Held, Queued
  <2> QED BY <1>1, <1>5, <2>1 DEF InOnePlace, TellsPlace
<1>6. CASE ~Held(task) /\ ~(executions[task] > 0) /\ task \notin cleared /\ ~Queued(task)
  <2>1. StatusOf(task) = "new"
    BY <1>6 DEF StatusOf, Held, Queued
  <2> QED BY <1>1, <1>6, <2>1 DEF TellsPlace
<1> QED BY <1>2, <1>3, <1>4, <1>5, <1>6

LEMMA StayingStatus ==
    ASSUME Told, Told', NEW task \in Tasks, Stays(task)
    PROVE  StatusOf(task)' = StatusOf(task)
BY DEF Told, TellsPlace, Stays

LEMMA NoneMoves == Told /\ Told' /\ (\A task \in Tasks : Stays(task)) => Status' = Status
BY StayingStatus DEF Status

LEMMA SomeMove ==
    ASSUME Told, Told', NEW S \in SUBSET Tasks, NEW from, NEW to,
           \A task \in S : StatusOf(task) = from /\ StatusOf(task)' = to,
           \A task \in Tasks \ S : Stays(task)
    PROVE  Promise!Move(S, from, to)
<1>1. \A task \in Tasks : StatusOf(task)' = IF task \in S THEN to ELSE StatusOf(task)
  BY StayingStatus
<1> QED BY <1>1 DEF Promise!Move, Status

LEMMA PromiseInit == Init => Promise!WInit
<1> SUFFICES ASSUME Init PROVE Promise!WInit
  OBVIOUS
<1>1. \A task \in Tasks : StatusOf(task) = "new"
  <2>1. \A task \in Tasks : ~(\E w \in Workers : held[w] = task) /\ executions[task] = 0
    BY TtpAssumption DEF Init
  <2>2. ToSet(tasks) = {} /\ cleared = {}
    BY EmptyList DEF Init
  <2> QED BY <2>1, <2>2 DEF StatusOf
<1>2. \A c \in Callers : WaitsFor(c) = "no"
  BY DEF Init, WaitsFor
<1>3. ~Paused
  BY DEF Init, Paused
<1> QED BY <1>1, <1>2, <1>3 DEF Promise!WInit, Init, Status, Waits

(* A step that moves no task and touches no wait pauses, or stutters.      *)
LEMMA PauseOrNothing ==
    ASSUME Status' = Status, Waits' = Waits, forgotten' = forgotten
    PROVE  [Promise!WNext]_Promise!wvars
<1>1. CASE Paused' = Paused
  BY <1>1 DEF Promise!wvars
<1>2. CASE Paused' = ~Paused
  BY <1>2 DEF Promise!Pause, Promise!WNext
<1> QED BY <1>1, <1>2 DEF Paused

PInv == TInv /\ CountIsRight /\ Placed

LEMMA WorkerKeepsPromise ==
    ASSUME PInv, Told, Told', NEW w \in Workers, WorkerStep(w)
    PROVE  [Promise!WNext]_Promise!wvars
<1>t. TInv /\ Placed
  BY DEF PInv
<1>1. UNCHANGED <<pool_paused, call, kind, forgotten>>
  BY DEF WorkerStep, WorkerSection, TaskEnds, state, calls, ghosts
<1>2. Paused' = Paused /\ Waits' = Waits
  BY <1>1 DEF Paused, Waits, WaitsFor
<1>3. CASE TaskEnds(w)
  <2>1. held[w] \in Tasks /\ StatusOf(held[w]) = "running"
    BY <1>t, <1>3, TaskEndMoves DEF Told, TellsPlace
  <2>2. PICK item \in Tasks : item = held[w]
    BY <2>1
  <2>3. executions[item] = 0 /\ executions'[item] = executions[item] + 1
    BY <1>t, <1>3, <2>2, TaskEndMoves DEF Placed, InOnePlace
  <2>4. StatusOf(item)' = "done"
    BY <2>3 DEF Told, TellsPlace
  <2>5. \A task \in Tasks \ {item} : Stays(task)
    BY <1>t, <1>3, <2>2, TaskEndMoves DEF Stays, Queued
  <2>6. Promise!Move({item}, "running", "done")
    BY <2>1, <2>2, <2>4, <2>5, SomeMove
  <2> QED BY <1>1, <1>2, <2>6 DEF Promise!Finish, Promise!WNext
<1>4. CASE WorkerSection(w) /\ held' # held
  <2>1. PICK item \in Tasks : item = Head(tasks)
    BY <1>t, <1>4, TakeMoves
  <2>2. Queued(item) /\ Held(item)' /\ ~Paused
    BY <1>t, <1>4, <2>1, TakeMoves
  <2>3. StatusOf(item) = "queued" /\ StatusOf(item)' = "running"
    BY <2>2 DEF Told, TellsPlace
  <2>4. \A task \in Tasks \ {item} : Stays(task)
    BY <1>t, <1>4, <2>1, TakeMoves DEF Stays
  <2>5. Promise!Move({item}, "queued", "running")
    BY <2>3, <2>4, SomeMove
  <2> QED BY <1>1, <1>2, <2>2, <2>5 DEF Promise!Start, Promise!WNext
<1>5. CASE WorkerSection(w) /\ held' = held
  BY <1>t, <1>1, <1>2, <1>5, OtherStepsMoveNone, PlacesStay, NoneMoves, PauseOrNothing
<1> QED BY <1>3, <1>4, <1>5 DEF WorkerStep

LEMMA SubmitKeepsPromise ==
    ASSUME PInv, Told, Told', NEW new \in Tasks, SubmitNow(new)
    PROVE  [Promise!WNext]_Promise!wvars
<1>1. UNCHANGED <<pool_paused, call, kind, forgotten>> /\ new \in fresh /\ Queued(new)'
  BY SubmitMoves DEF PInv
<1>2. Paused' = Paused /\ Waits' = Waits
  BY <1>1 DEF Paused, Waits, WaitsFor
<1>3. StatusOf(new) = "new" /\ StatusOf(new)' = "queued"
  BY <1>1 DEF Told, TellsPlace
<1>4. \A task \in Tasks \ {new} : Stays(task)
  BY SubmitMoves DEF PInv, Stays, Held
<1>5. Promise!Move({new}, "new", "queued")
  BY <1>3, <1>4, SomeMove
<1> QED BY <1>1, <1>2, <1>5 DEF Promise!Submit, Promise!WNext

LEMMA ClearKeepsPromise ==
    ASSUME PInv, Told, Told', NEW c \in Callers, ClearTaskQueue(c)
    PROVE  [Promise!WNext]_Promise!wvars
<1>t. TInv /\ Placed
  BY DEF PInv
<1>1. UNCHANGED <<pool_paused, call, kind>>
  BY <1>t, ClearMoves
<1>2. Paused' = Paused /\ Waits' = Waits
  BY <1>1 DEF Paused, Waits, WaitsFor
<1>3. PICK S \in SUBSET Tasks : S = {task \in Tasks : Queued(task)}
  OBVIOUS
<1>4. \A task \in S : StatusOf(task) = "queued" /\ StatusOf(task)' = "cleared"
  BY <1>t, <1>3, ClearMoves DEF Told, TellsPlace
<1>5. \A task \in Tasks \ S : Stays(task)
  BY <1>t, <1>3, ClearMoves DEF Stays, Held
<1>6. CASE S = {}
  <2>1. tasks = <<>>
    <3>1. tasks \in Seq(Tasks)
      BY <1>t DEF TInv, Types
    <3>2. tasks # <<>> => tasks[1] \in Tasks /\ Queued(tasks[1])
      BY <3>1 DEF Queued, ToSet
    <3> QED BY <1>3, <1>6, <3>2
  <2>2. forgotten' = forgotten
    BY <1>t, <2>1, ClearMoves
  <2> QED BY <1>2, <1>5, <1>6, <2>2, NoneMoves, PauseOrNothing
<1>7. CASE S # {}
  <2>1. Promise!Move(S, "queued", "cleared")
    BY <1>4, <1>5, SomeMove
  <2>2. forgotten \subseteq forgotten' /\ forgotten' \subseteq forgotten \cup finishedCv
    BY <1>t, ClearMoves
  <2>3. \A d \in forgotten \cup finishedCv : d \in Callers /\ call[d] = "wait"
    BY <1>t DEF TInv, Types, Placed, ForgottenWait
  <2>4. forgotten' \subseteq Promise!Waiters
    BY <2>2, <2>3 DEF Promise!Waiters, Waits, WaitsFor
  <2> QED BY <1>2, <1>7, <2>1, <2>2, <2>4 DEF Promise!Clear, Promise!WNext
<1> QED BY <1>6, <1>7

(* A caller begins to wait: for its own wait or, as the destructor, for    *)
(* the queue.                                                              *)
LEMMA WaitBegins ==
    ASSUME NEW c \in Callers, NEW k \in {"queued", "all"},
           Status' = Status, Paused' = Paused, forgotten' = forgotten,
           WaitsFor(c) = "no", WaitsFor(c)' = k,
           \A d \in Callers \ {c} : WaitsFor(d)' = WaitsFor(d)
    PROVE  Promise!Wait(c)
<1>1. Waits' = [Waits EXCEPT ![c] = k] /\ Waits[c] = "no"
  BY DEF Waits
<1> QED BY <1>1 DEF Promise!Wait

(* A wait returns.                                                         *)
LEMMA WaitReturns ==
    ASSUME PInv, Told, Status' = Status, NEW c \in Callers, WaitSection(c), Quiet(kind[c])
    PROVE  Promise!Return(c)
<1>t. Types /\ CountIsRight /\ Placed
  BY DEF PInv, TInv
<1>p. /\ call \in [Callers -> {"none", "enter", "wait", "destroy", "stop", "join", "restart", "destroyed"}]
      /\ kind \in [Callers -> {"queued", "all", "last"}]
  BY <1>t DEF Types
<1>1. /\ call[c] \in {"enter", "wait"} /\ UNCHANGED <<pool_paused, kind>>
      /\ call' = [call EXCEPT ![c] = IF kind[c] = "last" THEN "stop" ELSE "none"]
      /\ forgotten' = (forgotten \cup {d \in Callers : call[d] = "wait"}) \ {c}
  BY DEF WaitSection, CallGoesTo
<1>2. \A d \in Callers : WaitsFor(d)' = IF d = c THEN "no" ELSE WaitsFor(d)
  BY <1>p, <1>1 DEF WaitsFor
<1>3. Waits' = [Waits EXCEPT ![c] = "no"]
  BY <1>2 DEF Waits
<1>4. Paused' = Paused
  BY <1>p, <1>1 DEF Paused
<1>5. WaitsFor(c) = IF kind[c] = "all" THEN "all" ELSE "queued"
  BY <1>1 DEF WaitsFor
<1>6. \A task \in Tasks : Status[task] # "queued"
  <2>1. ToSet(tasks) = {}
    BY EmptyList DEF Quiet
  <2> QED BY <2>1 DEF Told, TellsPlace, Queued, Status
<1>7. kind[c] = "all" => \A task \in Tasks : Status[task] # "running"
  <2> SUFFICES ASSUME kind[c] = "all" PROVE \A w \in Workers : held[w] = NoTask
    BY TtpAssumption DEF Told, TellsPlace, Held, Status
  <2>1. Cardinality(InFlight) = 0 /\ IsFiniteSet(InFlight)
    BY <1>t, FiniteWorkers DEF Quiet, CountIsRight, InFlight
  <2>2. InFlight = {}
    BY <2>1, FS_EmptySet
  <2> QED BY <1>t, <2>2 DEF Placed, HeldOnce, InFlight
<1>8. \A task \in Tasks : Status[task] \notin Promise!Awaited(Waits[c])
  BY <1>5, <1>6, <1>7 DEF Promise!Awaited, Waits
<1>9. forgotten' \in SUBSET (Promise!Waiters \ {c}) /\ forgotten \ {c} \subseteq forgotten'
  <2>1. \A d \in forgotten' : d \in Callers /\ call[d] = "wait" /\ d # c
    BY <1>t, <1>1 DEF Placed, ForgottenWait, Types
  <2>2. \A d \in forgotten' : Waits[d] # "no"
    BY <2>1 DEF Waits, WaitsFor
  <2> QED BY <1>1, <2>1, <2>2 DEF Promise!Waiters
<1> QED BY <1>3, <1>4, <1>5, <1>8, <1>9 DEF Promise!Return, Waits

LEMMA CallKeepsPromise ==
    ASSUME PInv, Told, Told', NEW c \in Callers,
           \/ Pause(c) \/ Unpause(c) \/ CallWait(c) \/ CallDestroy(c)
           \/ SetNumThreads(c) \/ CallStep(c)
    PROVE  [Promise!WNext]_Promise!wvars
<1>t. Types /\ TInv /\ Placed
  BY DEF PInv, TInv
<1>p. /\ call \in [Callers -> {"none", "enter", "wait", "destroy", "stop", "join", "restart", "destroyed"}]
      /\ kind \in [Callers -> {"queued", "all", "last"}]
  BY <1>t DEF Types
<1>s. Status' = Status
  BY <1>t, OtherStepsMoveNone, PlacesStay, NoneMoves
<1>1. CASE Pause(c) \/ Unpause(c)
  <2>1. UNCHANGED <<call, kind, forgotten>>
    BY <1>1 DEF Pause, Unpause, calls, ghosts
  <2>2. Waits' = Waits
    BY <2>1 DEF Waits, WaitsFor
  <2> QED BY <1>s, <2>1, <2>2, PauseOrNothing
<1>2. CASE CallWait(c)
  <2>1. /\ UNCHANGED <<pool_paused, forgotten>> /\ call[c] = "none"
        /\ call' = [call EXCEPT ![c] = "enter"]
    BY <1>2 DEF CallWait, MayCall, CallGoesTo, state, ghosts
  <2>2. PICK k \in {"queued", "all"} : kind' = [kind EXCEPT ![c] = k]
    BY <1>2 DEF CallWait
  <2>3. Paused' = Paused
    BY <1>p, <2>1 DEF Paused
  <2>4. /\ WaitsFor(c) = "no" /\ WaitsFor(c)' = k
        /\ \A d \in Callers \ {c} : WaitsFor(d)' = WaitsFor(d)
    BY <1>p, <2>1, <2>2 DEF WaitsFor
  <2>5. Promise!Wait(c)
    BY <1>s, <2>1, <2>3, <2>4, WaitBegins
  <2> QED BY <2>5 DEF Promise!WNext
<1>3. CASE CallDestroy(c)
  <2>1. /\ UNCHANGED <<pool_paused, forgotten>> /\ call[c] = "none"
        /\ call' = [call EXCEPT ![c] = "destroy"] /\ kind' = [kind EXCEPT ![c] = "last"]
    BY <1>3 DEF CallDestroy, MayCall, CallGoesTo, state, ghosts
  <2>2. Paused' = Paused
    BY <1>p, <2>1 DEF Paused
  <2>3. /\ WaitsFor(c) = "no" /\ WaitsFor(c)' = "queued"
        /\ \A d \in Callers \ {c} : WaitsFor(d)' = WaitsFor(d)
    BY <1>p, <2>1 DEF WaitsFor
  <2>4. Promise!Wait(c)
    BY <1>s, <2>1, <2>2, <2>3, WaitBegins
  <2> QED BY <2>4 DEF Promise!WNext
<1>4. CASE WaitSection(c) /\ Quiet(kind[c])
  BY <1>4, <1>s, WaitReturns DEF Promise!WNext
<1>5. CASE \/ WaitSection(c) /\ ~Quiet(kind[c])
           \/ SetNumThreads(c) \/ DestroyUnpauses(c) \/ StopThreads(c)
           \/ JoinThreads(c) \/ RestartThreads(c)
  <2>1. UNCHANGED <<kind, forgotten>>
    BY <1>5
    DEF WaitSection, SetNumThreads, DestroyUnpauses, StopThreads, JoinThreads, RestartThreads, ghosts
  <2>2. /\ \A d \in Callers \ {c} : call'[d] = call[d]
        /\ call[c] \in {"destroy", "enter", "wait"} <=> call'[c] \in {"destroy", "enter", "wait"}
    BY <1>p, <1>5
    DEF WaitSection, SetNumThreads, DestroyUnpauses, StopThreads, JoinThreads, RestartThreads, MayCall,
        CallGoesTo
  <2>3. Waits' = Waits
    BY <2>1, <2>2 DEF Waits, WaitsFor
  <2> QED BY <1>s, <2>1, <2>3, PauseOrNothing
<1> QED BY <1>1, <1>2, <1>3, <1>4, <1>5 DEF CallStep

LEMMA PInvStep == PInv /\ [Next]_vars => PInv'
BY TInvStep, CountStep, PlacedStep DEF PInv

LEMMA PromiseStep == PInv /\ PInv' /\ [Next]_vars => [Promise!WNext]_Promise!wvars
<1> SUFFICES ASSUME PInv, PInv', [Next]_vars PROVE [Promise!WNext]_Promise!wvars
  OBVIOUS
<1>1. Told
  BY StatusIsTold DEF PInv, TInv
<1>2. Told'
  BY StatusIsTold, PTL DEF PInv, TInv
<1>3. ASSUME (\E t \in Workers \cup Callers : Spurious(t)) \/ UNCHANGED vars
      PROVE  [Promise!WNext]_Promise!wvars
  <2>1. UNCHANGED <<pool_paused, call, kind, forgotten>>
    BY <1>3 DEF Spurious, state, calls, ghosts, vars
  <2>2. Waits' = Waits
    BY <2>1 DEF Waits, WaitsFor
  <2>3. Status' = Status
    BY <1>1, <1>2, <1>3, OtherStepsMoveNone, PlacesStay, NoneMoves DEF PInv
  <2> QED BY <2>1, <2>2, <2>3, PauseOrNothing
<1> QED
  BY <1>1, <1>2, <1>3, WorkerKeepsPromise, SubmitKeepsPromise, ClearKeepsPromise, CallKeepsPromise
  DEF Next, WorkerStep, SubmitFromTask, SubmitDetach

(* task_thread_pool implements the safety of WaitablePool: no task starts  *)
(* twice, after it was cleared or while the pool is paused or stopped, and *)
(* a wait returns only when nothing it waits for is left, however calls,   *)
(* resizes and spurious wakeups interleave.                                *)
THEOREM KeepsThePromise == Spec => Promise!WSafety
<1>1. Init => PInv
  BY TInvInit, CountInit, PlacedInit DEF PInv
<1> QED BY <1>1, PInvStep, PromiseInit, PromiseStep, PTL DEF Spec, Promise!WSafety
=============================================================================
