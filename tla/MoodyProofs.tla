----------------------------- MODULE MoodyProofs -----------------------------
(***************************************************************************)
(* The worker loop around moodycamel's queue keeps the contract of a       *)
(* dispatch function, for any number of threads and any suite, in which a  *)
(* task that throws ends the program.                                      *)
(***************************************************************************)
EXTENDS MoodyDispatch, CountingLemmas, TLAPS

WorkerPCs == {"unborn", "test", "dequeue", "task", "ran", "exited", "gone"}
Stages == {"spawning", "enqueue", "wait", "done", "join", "returned", "failed", "aborted"}

TypeOK ==
    /\ queue \subseteq Tasks /\ left \subseteq Tasks
    /\ done \in BOOLEAN
    /\ remainingTasks \in Nat /\ seen \in Nat
    /\ wpc \in [Workers -> WorkerPCs]
    /\ task \in [Workers -> Tasks \cup {NoTask}]
    /\ executions \in [Tasks -> Nat]
    /\ stage \in Stages

(* A worker owes the counter a decrement from the moment it has dequeued a *)
(* task until it has counted it.                                           *)
Owes(w) == wpc[w] \in {"task", "ran"}

OwedFor(t) == \E w \in Workers : Owes(w) /\ task[w] = t

(* A task is yet to enqueue, in the queue, or owed for by one worker, or   *)
(* counted; and it has been executed once in the latter part of its way.   *)
OnePlace ==
    /\ left \cap queue = {}
    /\ \A w \in Workers : Owes(w) => task[w] \in Tasks \ (left \cup queue)
    /\ \A v, w \in Workers : Owes(v) /\ Owes(w) /\ task[v] = task[w] => v = w

BeingRun(t) == \E w \in Workers : wpc[w] = "task" /\ task[w] = t

RunOnce ==
    \A t \in Tasks :
        executions[t] = IF t \in left \cup queue \/ BeingRun(t) THEN 0 ELSE 1

(* The counter is exact, and a relaxed load only errs on the high side.    *)
Uncounted == {t \in Tasks : t \in left \cup queue \/ OwedFor(t)}

CounterIsRight == remainingTasks = Cardinality(Uncounted) /\ remainingTasks <= seen

(* What the place of main says of the rest.                                *)
StageIsRight ==
    /\ stage \in {"spawning", "failed"} => left = Tasks
    /\ stage \in {"wait", "done", "join", "returned"} => left = {}
    /\ stage \in {"done", "join", "returned"} => seen = 0

MInv == TypeOK /\ OnePlace /\ RunOnce /\ CounterIsRight /\ StageIsRight

LEMMA UncountedFinite ==
    IsFiniteSet(Uncounted) /\ Cardinality(Uncounted) \in Nat
<1>1. Uncounted \subseteq Tasks
  BY DEF Uncounted
<1> QED BY <1>1, FS_Subset, FS_CardinalityType, MoodyAssumption

LEMMA MInvInit == Init => MInv
<1> SUFFICES ASSUME Init PROVE MInv
  OBVIOUS
<1>1. \A w \in Workers : ~Owes(w) /\ wpc[w] # "task"
  BY DEF Init, Owes
<1>2. Uncounted = Tasks
  BY DEF Init, Uncounted
<1>3. Cardinality(Tasks) \in Nat
  BY FS_CardinalityType, MoodyAssumption
<1>4. TypeOK
  BY <1>3 DEF Init, TypeOK, WorkerPCs, Stages
<1>5. OnePlace /\ RunOnce
  BY <1>1 DEF Init, OnePlace, RunOnce, BeingRun
<1>6. CounterIsRight /\ StageIsRight
  BY <1>2, <1>3 DEF Init, CounterIsRight, StageIsRight
<1> QED BY <1>4, <1>5, <1>6 DEF MInv

(* Nobody is owed for and nothing is left when the counter is zero.        *)
LEMMA ZeroMeansDone ==
    ASSUME MInv, remainingTasks = 0
    PROVE  \A t \in Tasks : executions[t] = 1 /\ t \notin queue /\ ~OwedFor(t)
<1>1. Uncounted = {}
  BY UncountedFinite, FS_EmptySet DEF MInv, CounterIsRight
<1> QED BY <1>1 DEF Uncounted, MInv, RunOnce, BeingRun, OwedFor, Owes

LEMMA MInvStep == MInv /\ [Next]_vars => MInv'
<1> SUFFICES ASSUME MInv, [Next]_vars PROVE MInv'
  OBVIOUS
<1>t. TypeOK /\ OnePlace /\ RunOnce /\ CounterIsRight /\ StageIsRight
  BY DEF MInv
<1>n. Cardinality(Uncounted) \in Nat /\ IsFiniteSet(Uncounted)
  BY UncountedFinite
<1> USE MoodyAssumption DEF WorkerGoesTo, workervars, mainvars
(* A worker that neither takes a task nor gets rid of one.                 *)
<1>idle. ASSUME NEW w \in Workers, wpc[w] \in {"unborn", "test", "dequeue"},
                NEW label \in {"test", "dequeue", "exited"}, WorkerGoesTo(w, label),
                UNCHANGED <<queue, remainingTasks, seen, task, executions, mainvars>>
         PROVE  MInv'
  <2>1. TypeOK'
    BY <1>idle, <1>t DEF TypeOK, WorkerPCs
  <2>2. \A v \in Workers : (Owes(v)' <=> Owes(v)) /\ (wpc'[v] = "task" <=> wpc[v] = "task")
    BY <1>idle, <1>t DEF TypeOK, Owes
  <2>3. OnePlace' /\ RunOnce' /\ Uncounted' = Uncounted
    BY <1>idle, <1>t, <2>2 DEF OnePlace, RunOnce, Uncounted, OwedFor, BeingRun
  <2>4. CounterIsRight' /\ StageIsRight'
    BY <1>idle, <1>t, <2>3 DEF CounterIsRight, StageIsRight
  <2> QED BY <2>1, <2>3, <2>4 DEF MInv
<1>1. ASSUME NEW w \in Workers, Test(w) \/ DequeueFails(w) PROVE MInv'
  BY <1>1, <1>idle DEF Test, DequeueFails
<1>2. ASSUME NEW w \in Workers, Dequeue(w) PROVE MInv'
  <2>1. PICK item \in queue :
           /\ queue' = queue \ {item}
           /\ task' = [task EXCEPT ![w] = item]
    BY <1>2 DEF Dequeue
  <2>2. /\ wpc[w] = "dequeue" /\ wpc' = [wpc EXCEPT ![w] = "task"]
        /\ UNCHANGED <<remainingTasks, seen, executions, done, stage, left>>
    BY <1>2 DEF Dequeue
  <2>3. item \in Tasks /\ item \notin left
    BY <1>t DEF TypeOK, OnePlace
  <2>4. TypeOK'
    BY <1>t, <2>1, <2>2, <2>3 DEF TypeOK, WorkerPCs
  <2>5. \A v \in Workers : Owes(v)' <=> Owes(v) \/ v = w
    BY <1>t, <2>2 DEF TypeOK, Owes
  <2>6. OnePlace'
    BY <1>t, <2>1, <2>2, <2>3, <2>5 DEF OnePlace, TypeOK
  <2>7. \A t \in Tasks : (BeingRun(t)' <=> BeingRun(t) \/ t = item) /\ (OwedFor(t)' <=> OwedFor(t) \/ t = item)
    BY <1>t, <2>1, <2>2, <2>5 DEF BeingRun, OwedFor, TypeOK, Owes
  <2>8. RunOnce'
    BY <1>t, <2>1, <2>2, <2>3, <2>7 DEF RunOnce
  <2>9. Uncounted' = Uncounted
    BY <2>1, <2>2, <2>3, <2>7 DEF Uncounted
  <2> QED BY <1>t, <2>2, <2>4, <2>6, <2>8, <2>9 DEF MInv, CounterIsRight, StageIsRight
<1>3. ASSUME NEW w \in Workers, TaskEnds(w) PROVE MInv'
  <2>0. PICK item \in Tasks : item = task[w]
    BY <1>3, <1>t DEF TaskEnds, OnePlace, Owes
  <2>1. /\ wpc[w] = "task" /\ wpc' = [wpc EXCEPT ![w] = "ran"]
        /\ executions' = [executions EXCEPT ![item] = @ + 1]
        /\ UNCHANGED <<queue, remainingTasks, seen, task, done, stage, left>>
    BY <1>3, <2>0 DEF TaskEnds
  <2>2. TypeOK'
    BY <1>t, <2>1 DEF TypeOK, WorkerPCs
  <2>3. \A v \in Workers : Owes(v)' <=> Owes(v)
    BY <1>t, <2>1 DEF TypeOK, Owes
  <2>4. \A t \in Tasks : BeingRun(t)' <=> BeingRun(t) /\ t # item
    BY <1>t, <2>0, <2>1 DEF BeingRun, TypeOK, OnePlace, Owes
  <2>5. BeingRun(item) /\ item \notin left \cup queue /\ executions[item] = 0
    BY <1>t, <2>0, <2>1 DEF BeingRun, OnePlace, Owes, RunOnce
  <2>6. OnePlace' /\ Uncounted' = Uncounted
    BY <1>t, <2>1, <2>3 DEF OnePlace, Uncounted, OwedFor
  <2>7. RunOnce'
    BY <1>t, <2>1, <2>4, <2>5 DEF RunOnce, TypeOK
  <2> QED BY <1>t, <2>1, <2>2, <2>6, <2>7 DEF MInv, CounterIsRight, StageIsRight
<1>4. ASSUME NEW w \in Workers, CountTask(w) PROVE MInv'
  <2>0. PICK item \in Tasks : item = task[w]
    BY <1>4, <1>t DEF CountTask, OnePlace, Owes
  <2>1. /\ wpc[w] = "ran" /\ wpc' = [wpc EXCEPT ![w] = "dequeue"]
        /\ remainingTasks' = remainingTasks - 1
        /\ UNCHANGED <<queue, seen, task, executions, done, stage, left>>
    BY <1>4 DEF CountTask
  <2>2. \A v \in Workers : (Owes(v)' <=> Owes(v) /\ v # w) /\ (wpc'[v] = "task" <=> wpc[v] = "task")
    BY <1>t, <2>1 DEF TypeOK, Owes
  <2>3. OwedFor(item) /\ item \notin left \cup queue
    BY <1>t, <2>0, <2>1 DEF OwedFor, OnePlace, Owes
  <2>4. \A t \in Tasks : (OwedFor(t)' <=> OwedFor(t) /\ t # item) /\ (BeingRun(t)' <=> BeingRun(t))
    BY <1>t, <2>0, <2>1, <2>2 DEF OwedFor, BeingRun, OnePlace, Owes
  <2>5. item \in Uncounted /\ Uncounted' = Uncounted \ {item}
    BY <2>1, <2>3, <2>4 DEF Uncounted
  <2>6. Cardinality(Uncounted') = Cardinality(Uncounted) - 1 /\ Cardinality(Uncounted') \in Nat
    BY <1>n, <2>5, OneLess, FS_Subset, FS_CardinalityType
  <2>7. CounterIsRight' /\ remainingTasks' \in Nat
    BY <1>t, <2>1, <2>6 DEF CounterIsRight, TypeOK
  <2>8. TypeOK'
    BY <1>t, <2>1, <2>7 DEF TypeOK, WorkerPCs
  <2>9. OnePlace' /\ RunOnce'
    BY <1>t, <2>1, <2>2, <2>4 DEF OnePlace, RunOnce
  <2> QED BY <1>t, <2>1, <2>7, <2>8, <2>9 DEF MInv, StageIsRight
<1>5. ASSUME NEW w \in Workers, SpawnWorker(w) PROVE MInv'
  BY <1>5, <1>idle DEF SpawnWorker
<1>same. ASSUME UNCHANGED <<queue, remainingTasks, workervars, left>>, TypeOK', StageIsRight', remainingTasks' <= seen'
         PROVE  MInv'
  <2>1. OnePlace' /\ RunOnce' /\ Uncounted' = Uncounted
    BY <1>same, <1>t DEF OnePlace, RunOnce, Uncounted, OwedFor, BeingRun, Owes
  <2> QED BY <1>same, <1>t, <2>1 DEF MInv, CounterIsRight
<1>6. ASSUME FinishSpawning PROVE MInv'
  BY <1>6, <1>t, <1>same DEF FinishSpawning, TypeOK, Stages, StageIsRight, CounterIsRight
<1>7. ASSUME SpawnFails PROVE MInv'
  <2>1. /\ stage = "spawning" /\ left = Tasks /\ stage' = "failed"
        /\ wpc' = [w \in Workers |-> IF wpc[w] = "unborn" THEN "unborn" ELSE "gone"]
        /\ UNCHANGED <<queue, remainingTasks, seen, task, executions, done, left>>
    BY <1>7, <1>t DEF SpawnFails, StageIsRight
  <2>2. \A w \in Workers : ~Owes(w) /\ ~Owes(w)' /\ wpc[w] # "task" /\ wpc'[w] # "task"
    BY <1>t, <2>1 DEF OnePlace, Owes
  <2>3. OnePlace' /\ RunOnce' /\ Uncounted' = Uncounted
    BY <1>t, <2>1, <2>2 DEF OnePlace, RunOnce, Uncounted, OwedFor, BeingRun
  <2>4. TypeOK'
    BY <1>t, <2>1 DEF TypeOK, WorkerPCs, Stages
  <2> QED BY <1>t, <2>1, <2>3, <2>4 DEF MInv, CounterIsRight, StageIsRight
<1>8. ASSUME Enqueue PROVE MInv'
  <2>1. CASE left = {}
    BY <1>8, <2>1, <1>t, <1>same DEF Enqueue, TypeOK, Stages, StageIsRight, CounterIsRight
  <2>2. CASE left # {}
    <3>1. PICK item \in left : queue' = queue \cup {item} /\ left' = left \ {item}
      BY <1>8, <2>2 DEF Enqueue
    <3>2. stage = "enqueue" /\ UNCHANGED <<remainingTasks, seen, wpc, task, executions, done, stage>>
      BY <1>8, <2>2 DEF Enqueue
    <3>3. TypeOK'
      BY <1>t, <3>1, <3>2 DEF TypeOK
    <3>4. OnePlace' /\ RunOnce' /\ Uncounted' = Uncounted
      BY <1>t, <3>1, <3>2 DEF OnePlace, RunOnce, Uncounted, OwedFor, BeingRun, Owes, TypeOK
    <3> QED BY <1>t, <3>2, <3>3, <3>4 DEF MInv, CounterIsRight, StageIsRight
  <2> QED BY <2>1, <2>2
<1>9. ASSUME WaitForTasks PROVE MInv'
  <2>1. /\ seen' \in Nat /\ remainingTasks <= seen'
        /\ stage = "wait" /\ stage' = IF seen' > 0 THEN "wait" ELSE "done"
        /\ UNCHANGED <<queue, remainingTasks, workervars, done, left>>
    BY <1>9, <1>t DEF WaitForTasks, Loads, TypeOK
  <2> QED BY <1>t, <2>1, <1>same DEF TypeOK, Stages, StageIsRight
<1>10. ASSUME StoreDone \/ JoinThreads PROVE MInv'
  BY <1>10, <1>t, <1>same DEF StoreDone, JoinThreads, TypeOK, Stages, StageIsRight, CounterIsRight
<1>11. ASSUME NEW w \in Workers, TaskThrows(w) PROVE MInv'
  BY <1>11, <1>t, <1>same DEF TaskThrows, TypeOK, Stages, StageIsRight, CounterIsRight
<1>12. CASE UNCHANGED vars
  BY <1>12, <1>t, <1>same DEF vars, TypeOK, Stages, StageIsRight, CounterIsRight
<1> QED
  BY <1>1, <1>2, <1>3, <1>4, <1>5, <1>6, <1>7, <1>8, <1>9, <1>10, <1>11, <1>12
  DEF Next, WorkerStep, MainStep
-----------------------------------------------------------------------------
(* Refinement to the contract of a dispatch function.                      *)
Progress ==
    [t \in Tasks |->
        IF executions[t] > 1 THEN "repeated"
        ELSE IF \E w \in Workers : task[w] = t /\ wpc[w] = "task" THEN "running"
        ELSE IF executions[t] = 1 THEN "done" ELSE "waiting"]

Outcome == IF stage \in {"returned", "failed", "aborted"} THEN stage ELSE "none"

LEMMA ContractInit == Init => Contract!DInit
BY DEF Init, Contract!DInit

(* A task moves when it is dequeued and when it ends.                      *)
ProgressFacts ==
    \A t \in Tasks :
        /\ Progress[t] = "done" <=> t \notin left \cup queue /\ ~BeingRun(t)
        /\ Progress[t] = "running" <=> BeingRun(t)
        /\ Progress[t] = "waiting" <=> t \in left \cup queue
        /\ Progress[t] \in {"waiting", "running", "done"}

LEMMA ProgressIsTold == MInv => ProgressFacts
<1> SUFFICES ASSUME MInv, NEW t \in Tasks
             PROVE  /\ Progress[t] = "done" <=> t \notin left \cup queue /\ ~BeingRun(t)
                    /\ Progress[t] = "running" <=> BeingRun(t)
                    /\ Progress[t] = "waiting" <=> t \in left \cup queue
                    /\ Progress[t] \in {"waiting", "running", "done"}
  BY DEF ProgressFacts
<1>1. executions[t] = IF t \in left \cup queue \/ BeingRun(t) THEN 0 ELSE 1
  BY DEF MInv, RunOnce
<1>2. BeingRun(t) => t \notin left \cup queue
  BY DEF BeingRun, MInv, OnePlace, Owes
<1> QED BY <1>1, <1>2 DEF Progress, BeingRun

LEMMA ContractStep == MInv /\ MInv' /\ [Next]_vars => [Contract!DNext]_Contract!dvars
<1> SUFFICES ASSUME MInv, MInv', [Next]_vars PROVE [Contract!DNext]_Contract!dvars
  OBVIOUS
<1>f. ProgressFacts
  BY ProgressIsTold
<1>g. ProgressFacts'
  BY ProgressIsTold, PTL
<1>t. TypeOK /\ OnePlace /\ RunOnce /\ CounterIsRight /\ StageIsRight
  BY DEF MInv
<1>same. ASSUME Progress' = Progress, Outcome' = Outcome
         PROVE  UNCHANGED Contract!dvars
  BY <1>same DEF Contract!dvars, Progress, Outcome
<1>p. ASSUME UNCHANGED executions,
             \A t \in Tasks : BeingRun(t)' <=> BeingRun(t)
      PROVE  Progress' = Progress
  BY <1>p DEF Progress, BeingRun
<1>r. ASSUME UNCHANGED <<task, executions>>, \A v \in Workers : wpc'[v] = "task" <=> wpc[v] = "task"
      PROVE  Progress' = Progress
  BY <1>r DEF Progress
<1> USE MoodyAssumption DEF WorkerGoesTo, workervars, mainvars
<1>moves. ASSUME NEW item \in Tasks, NEW from, NEW to,
                 Progress[item] = from, Progress'[item] = to, Outcome' = Outcome,
                 \A t \in Tasks \ {item} : Progress'[t] = Progress[t]
          PROVE  Contract!Advance(item, from, to)
  <2>0. Progress = [t \in Tasks |-> Progress[t]] /\ Progress' = [t \in Tasks |-> Progress'[t]]
    BY DEF Progress
  <2>1. Progress' = [Progress EXCEPT ![item] = to]
    BY <2>0, <1>moves
  <2> QED BY <1>moves, <2>1 DEF Contract!Advance, Progress, Outcome
<1>1. ASSUME NEW w \in Workers, Running, Dequeue(w) PROVE Contract!Begin
  <2>1. PICK item \in queue : queue' = queue \ {item} /\ task' = [task EXCEPT ![w] = item]
    BY <1>1 DEF Dequeue
  <2>2. /\ wpc[w] = "dequeue" /\ wpc' = [wpc EXCEPT ![w] = "task"]
        /\ UNCHANGED <<remainingTasks, executions, stage, left>>
    BY <1>1 DEF Dequeue
  <2>3. item \in Tasks
    BY <1>t DEF TypeOK
  <2>4. \A t \in Tasks : BeingRun(t)' <=> BeingRun(t) \/ t = item
    BY <1>t, <2>1, <2>2 DEF BeingRun, TypeOK
  <2>5. Progress[item] = "waiting" /\ Progress'[item] = "running"
    BY <1>f, <1>g, <2>3, <2>4 DEF ProgressFacts
  <2>6. \A t \in Tasks \ {item} : Progress'[t] = Progress[t]
    BY <2>2, <2>4 DEF Progress, BeingRun
  <2>7. Outcome = "none" /\ Outcome' = Outcome
    <3>1. remainingTasks # 0
      BY <2>3, ZeroMeansDone
    <3>2. stage \notin {"failed", "returned", "aborted"}
      <4>1. stage # "failed"
        BY <1>t, <2>3 DEF StageIsRight, OnePlace
      <4>2. stage # "returned"
        BY <1>t, <3>1 DEF StageIsRight, CounterIsRight, TypeOK
      <4> QED BY <4>1, <4>2, <1>1 DEF Running
    <3> QED BY <3>2, <2>2 DEF Outcome
  <2>8. Contract!Advance(item, "waiting", "running")
    BY <2>3, <2>5, <2>6, <2>7, <1>moves
  <2> QED BY <2>3, <2>7, <2>8 DEF Contract!Begin, Outcome
<1>2. ASSUME NEW w \in Workers, Running, TaskEnds(w) PROVE Contract!End
  <2>0. PICK item \in Tasks : item = task[w]
    BY <1>2, <1>t DEF TaskEnds, OnePlace, Owes
  <2>1. /\ wpc[w] = "task" /\ wpc' = [wpc EXCEPT ![w] = "ran"]
        /\ executions' = [executions EXCEPT ![item] = @ + 1]
        /\ UNCHANGED <<queue, task, stage, left>>
    BY <1>2, <2>0 DEF TaskEnds
  <2>2. BeingRun(item) /\ item \notin left \cup queue
    BY <1>t, <2>0, <2>1 DEF BeingRun, OnePlace, Owes
  <2>3. \A t \in Tasks : BeingRun(t)' <=> BeingRun(t) /\ t # item
    BY <1>t, <2>0, <2>1 DEF BeingRun, TypeOK, OnePlace, Owes
  <2>4. Progress[item] = "running" /\ Progress'[item] = "done"
    BY <1>f, <1>g, <2>1, <2>2, <2>3 DEF ProgressFacts
  <2>5. \A t \in Tasks \ {item} : Progress'[t] = Progress[t]
    BY <1>t, <2>1, <2>3 DEF Progress, BeingRun, TypeOK
  <2>6. Outcome' = Outcome
    BY <2>1 DEF Outcome
  <2>7. Contract!Advance(item, "running", "done")
    BY <2>4, <2>5, <2>6, <1>moves
  <2>8. Outcome # "aborted"
    BY <1>2 DEF Running, Outcome
  <2> QED BY <2>7, <2>8 DEF Contract!End, Outcome
<1>3. ASSUME NEW w \in Workers, Test(w) \/ DequeueFails(w) \/ CountTask(w) \/ SpawnWorker(w)
      PROVE  UNCHANGED Contract!dvars
  <2>1. /\ UNCHANGED <<task, executions, stage>>
        /\ \E label \in {"test", "dequeue", "exited"} : wpc' = [wpc EXCEPT ![w] = label]
        /\ wpc[w] # "task"
    BY <1>3 DEF Test, DequeueFails, CountTask, SpawnWorker
  <2>2. \A v \in Workers : wpc'[v] = "task" <=> wpc[v] = "task"
    BY <2>1, <1>t DEF TypeOK
  <2> QED BY <2>1, <2>2, <1>r, <1>same DEF Outcome
<1>4. ASSUME FinishSpawning \/ Enqueue \/ WaitForTasks \/ StoreDone PROVE UNCHANGED Contract!dvars
  <2>1. UNCHANGED <<task, executions, wpc>> /\ Outcome' = Outcome
    BY <1>4 DEF FinishSpawning, Enqueue, WaitForTasks, StoreDone, Outcome
  <2> QED BY <2>1, <1>r, <1>same
<1>5. ASSUME JoinThreads PROVE Contract!Return
  <2>1. stage = "join" /\ stage' = "returned" /\ UNCHANGED <<task, executions, wpc>>
    BY <1>5 DEF JoinThreads
  <2>2. remainingTasks = 0
    BY <1>t, <2>1 DEF StageIsRight, CounterIsRight, TypeOK
  <2>3. \A t \in Tasks : Progress[t] = "done"
    BY <1>f, <1>t, <2>1, <2>2, ZeroMeansDone
    DEF ProgressFacts, StageIsRight, OwedFor, Owes, BeingRun
  <2>4. Progress' = Progress /\ Outcome = "none" /\ Outcome' = "returned"
    BY <2>1, <1>r DEF Outcome
  <2> QED BY <2>3, <2>4 DEF Contract!Return, Contract!Conclude, Progress, Outcome
<1>6. ASSUME SpawnFails PROVE Contract!Fail
  <2>1. /\ stage = "spawning" /\ left = Tasks /\ stage' = "failed"
        /\ wpc' = [w \in Workers |-> IF wpc[w] = "unborn" THEN "unborn" ELSE "gone"]
        /\ UNCHANGED <<task, executions, left, queue>>
    BY <1>6, <1>t DEF SpawnFails, StageIsRight
  <2>2. \A t \in Tasks : Progress[t] = "waiting" /\ Progress'[t] = "waiting"
    BY <1>f, <1>g, <2>1 DEF ProgressFacts
  <2>3. Progress' = Progress
    BY <2>2 DEF Progress
  <2>4. Outcome = "none" /\ Outcome' = "failed"
    BY <2>1 DEF Outcome
  <2> QED BY <2>2, <2>3, <2>4 DEF Contract!Fail, Contract!Conclude, Progress, Outcome
<1>7. ASSUME UNCHANGED vars PROVE UNCHANGED Contract!dvars
  <2>1. UNCHANGED <<task, executions, wpc>> /\ Outcome' = Outcome
    BY <1>7 DEF vars, Outcome
  <2> QED BY <2>1, <1>r, <1>same
<1>8. ASSUME NEW w \in Workers, Running, TaskThrows(w) PROVE Contract!Abort
  <2>0. PICK item \in Tasks : item = task[w]
    BY <1>8, <1>t DEF TaskThrows, OnePlace, Owes
  <2>1. /\ MayThrow /\ wpc[w] = "task" /\ stage' = "aborted"
        /\ UNCHANGED <<task, executions, wpc>>
    BY <1>8 DEF TaskThrows
  <2>2. Progress[item] = "running"
    BY <1>f, <2>0, <2>1 DEF ProgressFacts, BeingRun
  <2>3. BeingRun(item) /\ item \notin left \cup queue
    BY <1>t, <2>0, <2>1 DEF BeingRun, OnePlace, Owes
  <2>4. Outcome = "none"
    <3>1. remainingTasks # 0
      BY <2>0, <2>1, ZeroMeansDone DEF OwedFor, Owes
    <3>2. stage # "failed" /\ stage # "returned"
      BY <1>t, <2>0, <2>3, <3>1 DEF StageIsRight, CounterIsRight, TypeOK
    <3> QED BY <3>2, <1>8 DEF Running, Outcome
  <2>5. Progress' = Progress /\ Outcome' = "aborted"
    BY <2>1, <1>r DEF Outcome
  <2> QED BY <2>1, <2>2, <2>4, <2>5 DEF Contract!Abort, Progress, Outcome
<1> QED
  BY <1>1, <1>2, <1>3, <1>4, <1>5, <1>6, <1>7, <1>8
  DEF Next, WorkerStep, MainStep, Contract!DNext

(* Each task once, all of them before main returns, on the word of one     *)
(* counter read with relaxed loads, for any number of threads and tasks,   *)
(* unless a task throws and ends the program.                              *)
THEOREM MoodyKeepsTheContract == Spec => Contract!DSafety
<1>1. Spec => []MInv
  BY MInvInit, MInvStep, PTL DEF Spec
<1> QED
  BY <1>1, ContractInit, ContractStep, PTL DEF Spec, Contract!DSafety
=============================================================================
