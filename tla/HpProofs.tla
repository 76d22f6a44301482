------------------------------ MODULE HpProofs ------------------------------
(***************************************************************************)
(* HPThreadPool runs every posted task exactly once as long as no two      *)
(* posters meet at one worker, and with one poster it keeps the contract   *)
(* of a dispatch function.  The slot task_ is protected by no lock:        *)
(* task_done_ hands it from a poster to the worker and back, and the       *)
(* inductive invariant says who owns it when.                              *)
(***************************************************************************)
EXTENDS HpThreadPool, CountingLemmas

InSlot(w, task) == task_[w] = task /\ ~task_done[w] /\ wpc[w] # "ran"

(* Between choosing a worker and the end of Worker::post.                  *)
IsPosting(p, w) == ppc[p] \in {"test", "write", "store"} /\ slot[p] = w

Stages ==
    /\ \A p \in Posters : arg[p] = NoTask <=> ppc[p] = "idle"
    /\ stage \notin {"post", "aborted"} => \A p \in Posters : ppc[p] = "idle"
    /\ stage \in {"wait", "stop", "join", "returned"} => unposted = {}
    /\ stage \in {"start", "threw", "terminated"} => unposted = Tasks
    /\ stage = "post" => next = 0
    /\ stage = "wait" => \A w \in Workers : w < next => task_done[w]
    /\ stage \in {"start", "stop", "join", "returned"} => \A w \in Workers : task_done[w]

(* A worker that tests task_done_ and stores it owns the slot in between;  *)
(* a poster that chose the worker owns it until its own store.             *)
Ownership ==
    /\ \A w \in Workers : wpc[w] \in {"task", "ran"} => ~task_done[w]
    /\ \A w \in Workers : ~task_done[w] => task_[w] \in Tasks
    /\ \A p \in Posters, w \in Workers : IsPosting(p, w) => task_done[w]
    /\ \A p, q \in Posters, w \in Workers : IsPosting(p, w) /\ IsPosting(q, w) => p = q
    /\ \A p \in Posters : ppc[p] = "store" => task_[slot[p]] = arg[p]

(* A posted task is with one poster, in one slot, or has run, once.        *)
PlacedOnce(task) ==
    /\ executions[task] \in {0, 1}
    /\ task \in unposted => executions[task] = 0
    /\ \A p \in Posters : arg[p] = task => executions[task] = 0 /\ task \notin unposted
    /\ \A w \in Workers : InSlot(w, task) => executions[task] = 0 /\ task \notin unposted
    /\ \A p, q \in Posters : arg[p] = task /\ arg[q] = task => p = q
    /\ \A v, w \in Workers : InSlot(v, task) /\ InSlot(w, task) => v = w
    /\ \A p \in Posters, w \in Workers : ~(arg[p] = task /\ InSlot(w, task))
    /\ task \notin unposted /\ executions[task] = 0 =>
           (\E p \in Posters : arg[p] = task) \/ (\E w \in Workers : InSlot(w, task))

Placed == \A task \in Tasks : PlacedOnce(task)

HpInv == TypeOK /\ Stages /\ (~raced => Ownership /\ Placed)

-----------------------------------------------------------------------------
LEMMA WorkersAreNumbers == Workers \subseteq Nat /\ 0 \in Workers
BY HpAssumption DEF Workers

LEMMA NextWorker == \A w \in Workers : (w + 1) % NumberOfWorkers \in Workers
BY HpAssumption DEF Workers

LEMMA HpInvInit == Init => HpInv
<1>1. Init => TypeOK
  <2> SUFFICES ASSUME Init PROVE TypeOK
    OBVIOUS
  <2>1. /\ task_ \in [Workers -> Tasks \cup {NoTask}]
        /\ task_done \in [Workers -> BOOLEAN] /\ stop \in [Workers -> BOOLEAN]
        /\ wpc \in [Workers -> {"unborn", "loop", "task", "ran", "test stop", "exited", "gone"}]
    BY DEF Init
  <2>2. /\ ppc \in [Posters -> {"idle", "choose", "test", "write", "store"}]
        /\ arg \in [Posters -> Tasks \cup {NoTask}]
        /\ slot \in [Posters -> Workers]
    BY WorkersAreNumbers DEF Init
  <2>3. /\ executions \in [Tasks -> Nat] /\ unposted \subseteq Tasks
        /\ stage = "start" /\ next \in Workers /\ raced \in BOOLEAN
    BY WorkersAreNumbers DEF Init
  <2> QED BY <2>1, <2>2, <2>3 DEF TypeOK
<1>2. Init => Stages
  <2> SUFFICES ASSUME Init PROVE Stages
    OBVIOUS
  <2>1. /\ arg = [p \in Posters |-> NoTask] /\ ppc = [p \in Posters |-> "idle"]
        /\ task_done = [w \in Workers |-> TRUE]
        /\ stage = "start" /\ unposted = Tasks
    BY DEF Init
  <2>2. \A p \in Posters : arg[p] = NoTask /\ ppc[p] = "idle"
    BY <2>1
  <2>3. \A w \in Workers : task_done[w]
    BY <2>1
  <2> QED BY <2>1, <2>2, <2>3 DEF Stages
<1>3. Init => Ownership
  BY DEF Init, Ownership, IsPosting
<1>4. Init => Placed
  BY HpAssumption DEF Init, Placed, PlacedOnce, InSlot
<1> QED BY <1>1, <1>2, <1>3, <1>4 DEF HpInv

LEMMA PlacedSame ==
    ASSUME Placed, UNCHANGED <<executions, arg, unposted>>,
           \A v \in Workers, task \in Tasks : InSlot(v, task)' <=> InSlot(v, task)
    PROVE  Placed'
<1> SUFFICES ASSUME NEW task \in Tasks PROVE PlacedOnce(task)'
  BY DEF Placed
<1>1. PlacedOnce(task)
  BY DEF Placed
<1> QED BY <1>1 DEF PlacedOnce

(* One worker moves: it owns its slot.                                     *)
LEMMA WorkerKeeps ==
    ASSUME HpInv, NEW w \in Workers, WorkerStep(w)
    PROVE  HpInv'
<1>t. TypeOK /\ Stages
  BY DEF HpInv
<1>u. UNCHANGED <<postervars, ownervars>>
  BY DEF WorkerStep, TestTask, TaskEnds, StoreTaskDone, TestStop
<1>1. ASSUME ~raced
      PROVE  Ownership' /\ Placed'
  <2>1. Ownership /\ Placed
    BY <1>1 DEF HpInv
  <2>2. CASE TestTask(w)
    <3>1. Ownership'
      BY <2>1, <2>2, <1>t, <1>u DEF TestTask, WorkerGoesTo, Ownership, IsPosting, TypeOK, postervars
    <3>2. \A v \in Workers, task \in Tasks : InSlot(v, task)' <=> InSlot(v, task)
      BY <2>2, <1>t DEF TestTask, WorkerGoesTo, InSlot, TypeOK
    <3>3. UNCHANGED <<executions, arg, unposted>>
      BY <2>2, <1>u DEF TestTask, postervars
    <3> QED BY <2>1, <3>1, <3>2, <3>3, PlacedSame
  <2>3. CASE TaskEnds(w)
    <3>1. Ownership'
      BY <2>1, <2>3, <1>t, <1>u DEF TaskEnds, WorkerGoesTo, Ownership, IsPosting, TypeOK, postervars
    <3>2. PICK t \in Tasks : task_[w] = t
      BY <2>1, <2>3, <1>t DEF TaskEnds, Ownership
    <3>3. InSlot(w, t)
      BY <2>1, <2>3, <3>2 DEF TaskEnds, Ownership, InSlot
    <3>4. \A v \in Workers, task \in Tasks : InSlot(v, task)' <=> v # w /\ InSlot(v, task)
      BY <2>3, <1>t DEF TaskEnds, WorkerGoesTo, InSlot, TypeOK
    <3>5. executions[t] = 0
      BY <2>1, <3>3 DEF Placed, PlacedOnce
    <3>6. executions' = [executions EXCEPT ![t] = executions[t] + 1]
      BY <2>3, <3>2 DEF TaskEnds
    <3>7. executions'[t] = 1 /\ \A task \in Tasks : task # t => executions'[task] = executions[task]
      <4>1. executions \in [Tasks -> Nat]
        BY <1>t DEF TypeOK
      <4> QED BY ONLY <3>5, <3>6, <4>1
    <3>8. arg' = arg /\ unposted' = unposted
      BY <1>u DEF postervars
    <3>9. \A task \in Tasks : InSlot(w, task) => task = t
      BY <3>2 DEF InSlot
    <3> HIDE DEF InSlot
    <3>10. ASSUME NEW task \in Tasks, task # t
           PROVE  PlacedOnce(task)'
      BY <2>1, <3>4, <3>7, <3>8, <3>9, <3>10 DEF Placed, PlacedOnce
    <3>11. PlacedOnce(t)'
      BY <2>1, <3>3, <3>4, <3>7, <3>8 DEF Placed, PlacedOnce
    <3>12. Placed'
      BY <3>10, <3>11 DEF Placed
    <3> QED BY <3>1, <3>12
  <2>4. CASE StoreTaskDone(w)
    <3>1. Ownership'
      BY <2>1, <2>4, <1>t, <1>u DEF StoreTaskDone, WorkerGoesTo, Ownership, IsPosting, TypeOK, postervars
    <3>2. \A v \in Workers, task \in Tasks : InSlot(v, task)' <=> InSlot(v, task)
      BY <2>4, <1>t DEF StoreTaskDone, WorkerGoesTo, InSlot, TypeOK
    <3>3. UNCHANGED <<executions, arg, unposted>>
      BY <2>4, <1>u DEF StoreTaskDone, postervars
    <3> QED BY <2>1, <3>1, <3>2, <3>3, PlacedSame
  <2>5. CASE TestStop(w)
    <3>1. Ownership'
      BY <2>1, <2>5, <1>t, <1>u DEF TestStop, WorkerGoesTo, Ownership, IsPosting, TypeOK, postervars
    <3>2. \A v \in Workers, task \in Tasks : InSlot(v, task)' <=> InSlot(v, task)
      BY <2>5, <1>t DEF TestStop, WorkerGoesTo, InSlot, TypeOK
    <3>3. UNCHANGED <<executions, arg, unposted>>
      BY <2>5, <1>u DEF TestStop, postervars
    <3> QED BY <2>1, <3>1, <3>2, <3>3, PlacedSame
  <2> QED BY <2>2, <2>3, <2>4, <2>5 DEF WorkerStep
<1>2. TypeOK'
  <2>1. \A label \in {"loop", "task", "ran", "test stop", "exited"} : WorkerGoesTo(w, label) =>
            wpc' \in [Workers -> {"unborn", "loop", "task", "ran", "test stop", "exited", "gone"}]
    BY <1>t DEF WorkerGoesTo, TypeOK
  <2>2. wpc' \in [Workers -> {"unborn", "loop", "task", "ran", "test stop", "exited", "gone"}]
    BY <2>1 DEF WorkerStep, TestTask, TaskEnds, StoreTaskDone, TestStop
  <2>3. executions' \in [Tasks -> Nat]
    <3>1. executions \in [Tasks -> Nat]
      BY <1>t DEF TypeOK
    <3>2. \/ executions' = executions
          \/ executions' = [executions EXCEPT ![task_[w]] = @ + 1]
      BY DEF WorkerStep, TestTask, TaskEnds, StoreTaskDone, TestStop
    <3> QED BY <3>1, <3>2
  <2>4. task_' = task_ /\ stop' = stop /\ task_done' \in [Workers -> BOOLEAN]
    BY <1>t DEF WorkerStep, TestTask, TaskEnds, StoreTaskDone, TestStop, TypeOK
  <2> QED BY <1>t, <1>u, <2>2, <2>3, <2>4 DEF TypeOK, postervars, ownervars
<1>3. Stages'
  <2>1. \A v \in Workers : task_done[v] => task_done'[v]
    BY <1>t DEF WorkerStep, TestTask, TaskEnds, StoreTaskDone, TestStop, TypeOK
  <2>2. UNCHANGED <<ppc, arg, unposted, stage, next>>
    BY <1>u DEF postervars, ownervars
  <2> QED BY <1>t, <2>1, <2>2 DEF Stages
<1>4. raced' = raced
  BY <1>u DEF postervars
<1> QED BY <1>1, <1>2, <1>3, <1>4 DEF HpInv

LEMMA OwnershipSame ==
    ASSUME Ownership, UNCHANGED <<task_, task_done, wpc, arg>>,
           \A p \in Posters, w \in Workers : IsPosting(p, w)' => IsPosting(p, w),
           \A p \in Posters : ppc'[p] = "store" => ppc[p] = "store" /\ slot'[p] = slot[p]
    PROVE  Ownership'
BY DEF Ownership

LEMMA PosterTyped ==
    ASSUME TypeOK, NEW p \in Posters, PosterStep(p)
    PROVE  /\ TypeOK'
           /\ \A q \in Posters : q # p => UNCHANGED <<ppc[q], arg[q], slot[q]>>
<1>1. UNCHANGED <<stage, next, stop, wpc, executions>>
  BY DEF PosterStep, CallPost, ChooseWorker, TestTaskDone, WriteTask, StoreTaskNotDone, workervars, ownervars
<1>2. ppc' \in [Posters -> {"idle", "choose", "test", "write", "store"}]
  <2>1. ppc \in [Posters -> {"idle", "choose", "test", "write", "store"}]
    BY DEF TypeOK
  <2>2. \/ UNCHANGED ppc
        \/ \E label \in {"idle", "choose", "test", "write", "store"} :
               ppc' = [ppc EXCEPT ![p] = label]
    BY DEF PosterStep, CallPost, ChooseWorker, TestTaskDone, WriteTask, StoreTaskNotDone, PosterGoesTo
  <2> QED BY <2>1, <2>2
<1>3. arg' \in [Posters -> Tasks \cup {NoTask}] /\ unposted' \subseteq Tasks
  BY DEF PosterStep, CallPost, ChooseWorker, TestTaskDone, WriteTask, StoreTaskNotDone, TypeOK
<1>4. slot' \in [Posters -> Workers]
  <2>1. slot \in [Posters -> Workers]
    BY DEF TypeOK
  <2>2. \/ slot' = slot \/ slot' = [slot EXCEPT ![p] = 0]
        \/ slot' = [slot EXCEPT ![p] = (@ + 1) % NumberOfWorkers]
    BY DEF PosterStep, CallPost, ChooseWorker, TestTaskDone, WriteTask, StoreTaskNotDone
  <2> QED BY <2>1, <2>2, WorkersAreNumbers, NextWorker
<1>5. task_' \in [Workers -> Tasks \cup {NoTask}] /\ task_done' \in [Workers -> BOOLEAN]
  BY DEF PosterStep, CallPost, ChooseWorker, TestTaskDone, WriteTask, StoreTaskNotDone, workervars, TypeOK
<1>6. raced' \in BOOLEAN
  BY DEF PosterStep, CallPost, ChooseWorker, TestTaskDone, WriteTask, StoreTaskNotDone, workervars, TypeOK
<1>7. \A q \in Posters : q # p => UNCHANGED <<ppc[q], arg[q], slot[q]>>
  BY DEF PosterStep, CallPost, ChooseWorker, TestTaskDone, WriteTask, StoreTaskNotDone, PosterGoesTo, TypeOK
<1> QED BY <1>1, <1>2, <1>3, <1>4, <1>5, <1>6, <1>7 DEF TypeOK

(* One poster moves: from its choice to its store it owns the slot.        *)
LEMMA PosterKeeps ==
    ASSUME HpInv, NEW p \in Posters, Running, PosterStep(p)
    PROVE  HpInv'
<1>t. TypeOK /\ Stages /\ TypeOK'
  BY PosterTyped DEF HpInv
<1>q. \A q \in Posters : q # p => UNCHANGED <<ppc[q], arg[q], slot[q]>>
  BY <1>t, PosterTyped
<1>u. UNCHANGED <<stage, next, stop, wpc, executions>> /\ stage = "post"
  BY <1>t
  DEF Running, PosterStep, CallPost, ChooseWorker, TestTaskDone, WriteTask, StoreTaskNotDone, workervars, ownervars,
      Stages
<1>s. Stages'
  <2>1. arg'[p] = NoTask <=> ppc'[p] = "idle"
    <3>1. arg[p] = NoTask <=> ppc[p] = "idle"
      BY <1>t DEF Stages
    <3>2. CASE CallPost(p)
      <4>1. arg'[p] \in unposted
        BY <3>2, <1>t DEF CallPost, TypeOK
      <4>2. arg'[p] # NoTask
        BY <4>1, <1>t, HpAssumption DEF TypeOK
      <4>3. ppc'[p] = "choose"
        BY <3>2, <1>t DEF CallPost, PosterGoesTo, TypeOK
      <4> QED BY <4>2, <4>3
    <3>3. CASE ChooseWorker(p)
      BY <3>1, <3>3, <1>t DEF ChooseWorker, PosterGoesTo, TypeOK
    <3>4. CASE TestTaskDone(p)
      BY <3>1, <3>4, <1>t DEF TestTaskDone, PosterGoesTo, TypeOK
    <3>5. CASE WriteTask(p)
      BY <3>1, <3>5, <1>t DEF WriteTask, PosterGoesTo, TypeOK
    <3>6. CASE StoreTaskNotDone(p)
      BY <3>6, <1>t DEF StoreTaskNotDone, PosterGoesTo, TypeOK
    <3> QED BY <3>2, <3>3, <3>4, <3>5, <3>6 DEF PosterStep
  <2> QED BY <1>t, <1>q, <1>u, <2>1 DEF Stages
<1>1. ASSUME ~raced'
      PROVE  Ownership' /\ Placed'
  <2>r. ~raced
    BY <1>1 DEF PosterStep, CallPost, ChooseWorker, TestTaskDone, WriteTask, StoreTaskNotDone
  <2>o. Ownership /\ Placed
    BY <2>r DEF HpInv
  <2>s. slot[p] \in Workers
    BY <1>t DEF TypeOK
  <2>1. CASE CallPost(p)
    <3>1. PICK t \in unposted : /\ arg' = [arg EXCEPT ![p] = t]
                                /\ unposted' = unposted \ {t}
      BY <2>1 DEF CallPost
    <3>2. /\ UNCHANGED <<task_, task_done, wpc, executions>>
          /\ ppc[p] = "idle" /\ ppc'[p] = "choose"
      BY <2>1, <1>t DEF CallPost, PosterGoesTo, workervars, TypeOK
    <3>3. Ownership'
      <4>1. \A q \in Posters : ppc'[q] = "store" => ppc[q] = "store" /\ slot'[q] = slot[q] /\ arg'[q] = arg[q]
        BY <1>q, <3>2
      <4>2. \A q \in Posters, w \in Workers : IsPosting(q, w)' => IsPosting(q, w)
        BY <1>q, <3>2 DEF IsPosting
      <4> QED BY <2>o, <3>2, <4>1, <4>2 DEF Ownership
    <3>4. arg[p] = NoTask /\ t \in Tasks /\ arg'[p] = t
      BY <1>t, <3>1, <3>2 DEF Stages, TypeOK
    <3>5. \A w \in Workers, task \in Tasks : InSlot(w, task)' <=> InSlot(w, task)
      BY <3>2 DEF InSlot
    <3> HIDE DEF InSlot
    <3>6. ASSUME NEW task \in Tasks, task # t
          PROVE  PlacedOnce(task)'
      <4>1. \A q \in Posters : arg'[q] = task <=> arg[q] = task
        BY <1>q, <3>4, <3>6, HpAssumption
      <4>2. (task \in unposted' <=> task \in unposted) /\ executions' = executions
        BY <3>1, <3>2, <3>6
      <4>3. PlacedOnce(task)
        BY <2>o DEF Placed
      <4> QED BY <3>5, <4>1, <4>2, <4>3 DEF PlacedOnce
    <3>7. PlacedOnce(t)'
      <4>1. PlacedOnce(t) /\ t \notin unposted' /\ executions' = executions /\ t \in unposted
        BY <2>o, <3>1, <3>2, <3>4 DEF Placed
      <4>2. \A q \in Posters : arg'[q] = t <=> q = p
        BY <1>q, <3>4, <4>1 DEF PlacedOnce
      <4>3. executions[t] = 0 /\ \A w \in Workers : ~InSlot(w, t)'
        BY <3>4, <3>5, <4>1 DEF PlacedOnce
      <4> QED BY <4>1, <4>2, <4>3 DEF PlacedOnce
    <3> QED BY <3>3, <3>6, <3>7 DEF Placed
  <2>2. CASE ChooseWorker(p)
    <3>1. UNCHANGED <<task_, task_done, wpc, executions, arg, unposted>> /\ ppc[p] = "choose"
      BY <2>2 DEF ChooseWorker, workervars
    <3>2. Placed'
      <4>1. \A w \in Workers, task \in Tasks : InSlot(w, task)' <=> InSlot(w, task)
        BY <3>1 DEF InSlot
      <4> QED BY <2>o, <3>1, <4>1, PlacedSame
    <3>3. CASE task_done[slot[p]]
      <4>1. ppc'[p] = "test" /\ slot' = slot /\ Posting(slot[p]) = {}
        BY <1>1, <1>t, <2>2, <3>3 DEF ChooseWorker, PosterGoesTo, TypeOK
      <4>2. \A q \in Posters, w \in Workers : IsPosting(q, w) => w # slot[p]
        BY <4>1 DEF Posting, IsPosting
      <4>3. \A q \in Posters, w \in Workers :
                IsPosting(q, w)' <=> IsPosting(q, w) \/ (q = p /\ w = slot[p])
        BY <1>q, <2>s, <3>1, <4>1 DEF IsPosting
      <4>4. \A q \in Posters : ppc'[q] = "store" => ppc[q] = "store"
        BY <1>q, <4>1
      <4> HIDE DEF IsPosting
      <4> QED BY <2>o, <3>1, <3>2, <3>3, <4>1, <4>2, <4>3, <4>4 DEF Ownership
    <3>4. CASE ~task_done[slot[p]]
      <4>1. ppc' = ppc
        BY <2>2, <3>4 DEF ChooseWorker
      <4>2. \A q \in Posters, w \in Workers : IsPosting(q, w)' => IsPosting(q, w)
        BY <1>q, <3>1, <4>1 DEF IsPosting
      <4>3. \A q \in Posters : ppc'[q] = "store" => ppc[q] = "store" /\ slot'[q] = slot[q]
        BY <1>q, <3>1, <4>1
      <4> QED BY <2>o, <3>1, <3>2, <4>2, <4>3, OwnershipSame
    <3> QED BY <3>3, <3>4
  <2>3. CASE TestTaskDone(p)
    <3>1. task_done[slot[p]]
      BY <2>3, <2>o, <2>s DEF TestTaskDone, Ownership, IsPosting
    <3>2. /\ UNCHANGED <<task_, task_done, wpc, executions, arg, unposted, slot>>
          /\ ppc[p] = "test" /\ ppc'[p] = "write"
      BY <2>3, <3>1, <1>t DEF TestTaskDone, PosterGoesTo, workervars, TypeOK
    <3>3. \A w \in Workers, task \in Tasks : InSlot(w, task)' <=> InSlot(w, task)
      BY <3>2 DEF InSlot
    <3>4. \A q \in Posters, w \in Workers : IsPosting(q, w)' => IsPosting(q, w)
      BY <1>q, <3>2 DEF IsPosting
    <3>5. \A q \in Posters : ppc'[q] = "store" => ppc[q] = "store" /\ slot'[q] = slot[q]
      BY <1>q, <3>2
    <3> QED BY <2>o, <3>2, <3>3, <3>4, <3>5, PlacedSame, OwnershipSame
  <2>4. CASE WriteTask(p)
    <3>1. /\ UNCHANGED <<task_done, wpc, executions, arg, unposted, slot>>
          /\ task_' = [task_ EXCEPT ![slot[p]] = arg[p]]
          /\ ppc[p] = "write" /\ ppc'[p] = "store"
      BY <2>4, <1>t DEF WriteTask, PosterGoesTo, TypeOK
    <3>2. task_done[slot[p]] /\ IsPosting(p, slot[p])
      BY <3>1, <2>o, <2>s DEF Ownership, IsPosting
    <3>3. \A w \in Workers : w # slot[p] => task_'[w] = task_[w]
      BY <3>1, <1>t DEF TypeOK
    <3>4. task_'[slot[p]] = arg[p]
      BY <3>1, <2>s, <1>t DEF TypeOK
    <3>5. \A w \in Workers, task \in Tasks : InSlot(w, task)' <=> InSlot(w, task)
      BY <3>1, <3>2, <3>3 DEF InSlot
    <3>6. \A q \in Posters, w \in Workers : IsPosting(q, w)' <=> IsPosting(q, w)
      BY <1>q, <3>1 DEF IsPosting
    <3>7. ASSUME NEW q \in Posters, ppc'[q] = "store"
          PROVE  task_'[slot'[q]] = arg'[q]
      <4>1. CASE q = p
        BY <3>1, <3>4, <4>1
      <4>2. CASE q # p
        <5>1. ppc[q] = "store" /\ slot[q] \in Workers /\ IsPosting(q, slot[q])
          BY <1>q, <1>t, <3>7, <4>2 DEF IsPosting, TypeOK
        <5>2. slot[q] # slot[p]
          BY <2>o, <3>2, <4>2, <5>1 DEF Ownership
        <5> QED BY <2>o, <3>1, <3>3, <5>1, <5>2 DEF Ownership
      <4> QED BY <4>1, <4>2
    <3>8. Ownership'
      BY <2>o, <3>1, <3>2, <3>3, <3>6, <3>7 DEF Ownership
    <3> QED BY <2>o, <3>1, <3>5, <3>8, PlacedSame
  <2>5. CASE StoreTaskNotDone(p)
    <3> PICK v \in Workers : v = slot[p]
      BY <2>s
    <3> PICK t : t = arg[p]
      OBVIOUS
    <3>1. /\ UNCHANGED <<task_, wpc, executions, unposted, slot>>
          /\ task_done' = [task_done EXCEPT ![v] = FALSE]
          /\ arg'[p] = NoTask
          /\ ppc[p] = "store" /\ ppc'[p] = "idle"
      BY <2>5, <1>t DEF StoreTaskNotDone, PosterGoesTo, TypeOK
    <3>2. task_done[v] /\ IsPosting(p, v) /\ task_[v] = t /\ t \in Tasks
      BY <3>1, <2>o, <1>t DEF Ownership, IsPosting, Stages, TypeOK
    <3>3. ~task_done'[v] /\ \A w \in Workers : w # v => task_done'[w] = task_done[w]
      BY <3>1, <1>t DEF TypeOK
    <3>4. wpc[v] # "ran"
      BY <2>o, <3>2 DEF Ownership
    <3>5. \A w \in Workers, task \in Tasks : InSlot(w, task)' <=> InSlot(w, task) \/ (w = v /\ task = t)
      BY <3>1, <3>2, <3>3, <3>4 DEF InSlot
    <3>6. \A q \in Posters, w \in Workers : IsPosting(q, w)' <=> q # p /\ IsPosting(q, w)
      BY <1>q, <3>1 DEF IsPosting
    <3>7. \A q \in Posters : ppc'[q] = "store" => q # p /\ ppc[q] = "store" /\ arg'[q] = arg[q]
      BY <1>q, <3>1
    <3>8. \A q \in Posters : ~IsPosting(q, v)'
      BY <2>o, <3>2, <3>6 DEF Ownership
    <3>9. Ownership'
      <4> HIDE DEF IsPosting
      <4> QED BY <2>o, <3>1, <3>2, <3>3, <3>6, <3>7, <3>8 DEF Ownership
    <3>10. \A q \in Posters, task \in Tasks : arg'[q] = task <=> q # p /\ arg[q] = task
      BY <1>q, <3>1, HpAssumption
    <3> HIDE DEF InSlot
    <3>11. ASSUME NEW task \in Tasks
           PROVE  PlacedOnce(task)'
      <4>1. PlacedOnce(task) /\ UNCHANGED <<executions, unposted>>
        BY <2>o, <3>1 DEF Placed
      <4>2. CASE task = t
        BY <3>5, <3>10, <4>1, <4>2 DEF PlacedOnce
      <4>3. CASE task # t
        BY <3>5, <3>10, <4>1, <4>3 DEF PlacedOnce
      <4> QED BY <4>2, <4>3
    <3> QED BY <3>9, <3>11 DEF Placed
  <2> QED BY <2>1, <2>2, <2>3, <2>4, <2>5 DEF PosterStep
<1> QED BY <1>1, <1>t, <1>s DEF HpInv

-----------------------------------------------------------------------------
LEMMA OwnerMovesOn ==
    ASSUME next \in Workers, NEW label, OwnerMoves(label)
    PROVE  /\ next' \in Workers
           /\ \/ stage' = stage /\ next' = next + 1
              \/ stage' = label /\ next' = 0 /\ next = NumberOfWorkers - 1
BY HpAssumption DEF OwnerMoves, Workers

LEMMA NothingMovesForTasks ==
    ASSUME Ownership, Placed, UNCHANGED <<task_, task_done, executions, postervars>>,
           \A w \in Workers : wpc'[w] \in {"task", "ran"} <=> wpc[w] \in {"task", "ran"},
           \A w \in Workers : wpc'[w] = "ran" <=> wpc[w] = "ran"
    PROVE  Ownership' /\ Placed'
<1>u. UNCHANGED <<ppc, arg, slot, unposted>>
  BY DEF postervars
<1>1. \A w \in Workers, task \in Tasks : InSlot(w, task)' <=> InSlot(w, task)
  BY DEF InSlot
<1>2. \A p \in Posters, w \in Workers : IsPosting(p, w)' <=> IsPosting(p, w)
  BY <1>u DEF IsPosting
<1>3. Placed'
  BY <1>u, <1>1, PlacedSame
<1> HIDE DEF IsPosting
<1> QED BY <1>u, <1>2, <1>3 DEF Ownership

(* The owner, which writes no slot.                                        *)
LEMMA OwnerKeeps ==
    ASSUME HpInv, OwnerStep \/ SpawnFails
    PROVE  HpInv'
<1>t. TypeOK /\ Stages
  BY DEF HpInv
<1>n. next \in Workers
  BY <1>t DEF TypeOK
<1>u. UNCHANGED <<ppc, arg, slot, unposted, raced, postervars, task_, task_done, executions>>
  BY DEF OwnerStep, StartWorker, FinishPosting, IsTaskDone, StopOnly, JoinWorker, SpawnFails, postervars, workervars
<1>b. Workers = 0 .. (NumberOfWorkers - 1) /\ NumberOfWorkers \in Nat \ {0}
  BY HpAssumption DEF Workers
<1>1. CASE StartWorker
  <2>1. /\ stage = "start" /\ next' \in Workers
        /\ stage' = "start" \/ (stage' = "post" /\ next' = 0)
        /\ stop' = [stop EXCEPT ![next] = FALSE]
        /\ wpc' = [wpc EXCEPT ![next] = "loop"]
    BY <1>1, <1>n, OwnerMovesOn DEF StartWorker, WorkerGoesTo
  <2>2. TypeOK'
    BY <1>t, <1>u, <2>1 DEF TypeOK
  <2>3. Stages'
    BY <1>t, <1>u, <2>1 DEF Stages
  <2>4. ~raced => \A w \in Workers : wpc[w] \notin {"task", "ran"}
    BY <1>t, <2>1 DEF Stages, Ownership, HpInv
  <2>5. ~raced => /\ \A w \in Workers : wpc'[w] \in {"task", "ran"} <=> wpc[w] \in {"task", "ran"}
                  /\ \A w \in Workers : wpc'[w] = "ran" <=> wpc[w] = "ran"
    BY <1>t, <2>1, <2>4 DEF TypeOK
  <2> QED BY <1>u, <2>2, <2>3, <2>5, NothingMovesForTasks DEF HpInv
<1>2. CASE SpawnFails
  <2>1. /\ stage = "start" /\ stage' \in {"threw", "terminated"} /\ next' = next /\ stop' = stop
        /\ wpc' = [w \in Workers |-> IF w < next THEN "gone" ELSE "unborn"]
    BY <1>2 DEF SpawnFails
  <2>2. TypeOK'
    BY <1>t, <1>u, <2>1 DEF TypeOK
  <2>3. Stages'
    BY <1>t, <1>u, <2>1 DEF Stages
  <2>4. ~raced => \A w \in Workers : wpc[w] \notin {"task", "ran"}
    BY <1>t, <2>1 DEF Stages, Ownership, HpInv
  <2>5. ~raced => /\ \A w \in Workers : wpc'[w] \in {"task", "ran"} <=> wpc[w] \in {"task", "ran"}
                  /\ \A w \in Workers : wpc'[w] = "ran" <=> wpc[w] = "ran"
    BY <2>1, <2>4
  <2> QED BY <1>u, <2>2, <2>3, <2>5, NothingMovesForTasks DEF HpInv
<1>3. ASSUME wpc' = wpc, TypeOK', Stages'
      PROVE  HpInv'
  BY <1>3, <1>u, NothingMovesForTasks DEF HpInv
<1>4. CASE FinishPosting
  <2>1. /\ stage = "post" /\ stage' = "wait" /\ next' \in Workers
        /\ unposted = {} /\ \A p \in Posters : ppc[p] = "idle"
        /\ wpc' = wpc /\ stop' = stop
    BY <1>4, <1>n DEF FinishPosting, workervars
  <2>2. TypeOK'
    BY <1>t, <1>u, <2>1 DEF TypeOK
  <2>3. next' = 0 /\ \A w \in Workers : ~(w < 0)
    BY <1>4, <1>t, <1>b DEF FinishPosting, Stages
  <2>4. Stages'
    BY <1>t, <1>u, <2>1, <2>3 DEF Stages
  <2> QED BY <1>3, <2>1, <2>2, <2>4
<1>5. CASE IsTaskDone
  <2>1. stage = "wait" /\ UNCHANGED <<wpc, stop>>
    BY <1>5 DEF IsTaskDone, workervars
  <2>2. \/ stage' = "wait" /\ next' = 0
        \/ stage' = "wait" /\ next' = next + 1 /\ task_done[next]
        \/ stage' = "stop" /\ next' = 0 /\ next = NumberOfWorkers - 1 /\ task_done[next]
    BY <1>5, <1>n, <2>1, OwnerMovesOn DEF IsTaskDone
  <2>3. next' \in Workers
    BY <1>5, <1>n, WorkersAreNumbers, OwnerMovesOn DEF IsTaskDone
  <2>4. \A w \in Workers : w < next => task_done[w]
    BY <1>t, <2>1 DEF Stages
  <2>5. stage' = "wait" => \A w \in Workers : w < next' => task_done[w]
    BY <1>n, <1>b, <2>2, <2>4
  <2>6. stage' = "stop" => \A w \in Workers : task_done[w]
    BY <1>n, <1>b, <2>2, <2>4
  <2>7. stage' \in {"wait", "stop"}
    BY <2>2
  <2>8. TypeOK'
    BY <1>t, <1>u, <2>1, <2>3, <2>7 DEF TypeOK
  <2>9. Stages'
    BY <1>t, <1>u, <2>1, <2>5, <2>6, <2>7 DEF Stages
  <2> QED BY <1>3, <2>1, <2>8, <2>9
<1>6. CASE StopOnly \/ JoinWorker
  <2>1. /\ stage \in {"stop", "join"} /\ stage' \in {"stop", "join", "returned"} /\ next' \in Workers
        /\ wpc' = wpc
    BY <1>6, <1>n, OwnerMovesOn DEF StopOnly, JoinWorker, workervars
  <2>2. stop' \in [Workers -> BOOLEAN]
    BY <1>6, <1>t DEF StopOnly, JoinWorker, workervars, TypeOK
  <2>3. TypeOK'
    BY <1>t, <1>u, <2>1, <2>2 DEF TypeOK
  <2>4. Stages'
    BY <1>t, <1>u, <2>1 DEF Stages
  <2> QED BY <1>3, <2>1, <2>3, <2>4
<1> QED BY <1>1, <1>2, <1>4, <1>5, <1>6 DEF OwnerStep

LEMMA HpInvStep == HpInv /\ [Next]_vars => HpInv'
<1> SUFFICES ASSUME HpInv, [Next]_vars PROVE HpInv'
  OBVIOUS
<1>1. CASE UNCHANGED vars
  <2>1. UNCHANGED <<task_, task_done, stop, wpc, executions, ppc, arg, slot, unposted, raced, stage, next>>
    BY <1>1 DEF vars, workervars, postervars, ownervars
  <2>2. TypeOK' /\ Stages'
    BY <2>1 DEF HpInv, TypeOK, Stages
  <2> QED BY <2>1, <2>2, NothingMovesForTasks DEF HpInv, postervars
<1>2. ASSUME NEW w \in Workers, TaskThrows(w) PROVE HpInv'
  <2>1. /\ stage' = "aborted"
        /\ UNCHANGED <<task_, task_done, stop, wpc, executions, ppc, arg, slot, unposted, raced, next>>
    BY <1>2 DEF TaskThrows, workervars, postervars
  <2>2. TypeOK' /\ Stages'
    BY <2>1 DEF HpInv, TypeOK, Stages
  <2> QED BY <2>1, <2>2, NothingMovesForTasks DEF HpInv, postervars
<1> QED BY <1>1, <1>2, WorkerKeeps, PosterKeeps, OwnerKeeps DEF Next

-----------------------------------------------------------------------------
(* The invariant implies the property.                                     *)
LEMMA RunOnceInvariant == HpInv => PostedTasksRunOnce
<1> SUFFICES ASSUME HpInv, ~raced
             PROVE  /\ ~DataRace
                    /\ \A task \in Tasks \ unposted :
                           executions[task]
                               = 1 - Cardinality(WithPoster(task)) - Cardinality(WithWorker(task))
                    /\ stage \in {"stop", "join", "returned"} =>
                           \A task \in Tasks : executions[task] = 1
  BY DEF PostedTasksRunOnce
<1>t. TypeOK /\ Stages /\ Ownership /\ Placed
  BY DEF HpInv
<1>1. ~DataRace
  <2> SUFFICES ASSUME NEW p \in Posters, ppc[p] = "write"
               PROVE  /\ wpc[slot[p]] # "task"
                      /\ \A q \in Posters \ {p} : ~(ppc[q] = "write" /\ slot[q] = slot[p])
    BY DEF DataRace
  <2>1. slot[p] \in Workers /\ IsPosting(p, slot[p])
    BY <1>t DEF TypeOK, IsPosting
  <2>2. wpc[slot[p]] # "task"
    BY <1>t, <2>1 DEF Ownership
  <2>3. ASSUME NEW q \in Posters, ppc[q] = "write", slot[q] = slot[p]
        PROVE  q = p
    <3>1. IsPosting(q, slot[p])
      BY <2>3 DEF IsPosting
    <3> QED BY <1>t, <2>1, <3>1 DEF Ownership
  <2> QED BY <2>2, <2>3
<1>2. ASSUME NEW task \in Tasks \ unposted
      PROVE  executions[task] = 1 - Cardinality(WithPoster(task)) - Cardinality(WithWorker(task))
  <2>1. PlacedOnce(task) /\ task \notin unposted
    BY <1>t DEF Placed
  <2>2. \A w \in WithWorker(task) : w \in Workers /\ InSlot(w, task)
    BY DEF WithWorker, InSlot
  <2>3. \A w \in Workers : InSlot(w, task) => w \in WithWorker(task)
    BY DEF WithWorker, InSlot
  <2>4. Cardinality(WithPoster(task)) = IF WithPoster(task) = {} THEN 0 ELSE 1
    <3>1. \A p, q \in WithPoster(task) : p = q
      BY <2>1 DEF PlacedOnce, WithPoster
    <3> QED BY <3>1, AtMostOne
  <2>5. Cardinality(WithWorker(task)) = IF WithWorker(task) = {} THEN 0 ELSE 1
    <3>1. \A v, w \in WithWorker(task) : v = w
      BY <2>1, <2>2 DEF PlacedOnce
    <3> QED BY <3>1, AtMostOne
  <2>6. WithPoster(task) # {} <=> \E p \in Posters : arg[p] = task
    BY DEF WithPoster
  <2>7. WithWorker(task) # {} <=> \E w \in Workers : InSlot(w, task)
    BY <2>2, <2>3
  <2>8. /\ executions[task] \in {0, 1}
        /\ (WithPoster(task) # {} \/ WithWorker(task) # {}) <=> executions[task] = 0
        /\ ~(WithPoster(task) # {} /\ WithWorker(task) # {})
    BY <2>1, <2>6, <2>7 DEF PlacedOnce
  <2> QED BY <2>4, <2>5, <2>8
<1>3. ASSUME stage \in {"stop", "join", "returned"}, NEW task \in Tasks
      PROVE  executions[task] = 1
  <2>1. task \notin unposted /\ \A p \in Posters : arg[p] = NoTask
    BY <1>3, <1>t DEF Stages
  <2>2. \A w \in Workers : ~InSlot(w, task)
    BY <1>3, <1>t DEF Stages, InSlot
  <2>3. \A p \in Posters : arg[p] # task
    BY <2>1, HpAssumption
  <2> QED BY <1>t, <2>1, <2>2, <2>3 DEF Placed, PlacedOnce
<1> QED BY <1>1, <1>2, <1>3

(* Every task posted is run exactly once, without a lock around its slot,  *)
(* unless two posters were about to post to one worker at once.            *)
THEOREM PostedTasksAreRunOnce == Spec => []PostedTasksRunOnce
<1> QED BY RunOnceInvariant, HpInvInit, HpInvStep, PTL DEF Spec

-----------------------------------------------------------------------------
(* Refinement to the contract of a dispatch function, as long as no two    *)
(* posters meet: only the step that finds a task in a slot and the one     *)
(* that ends it move a task.                                               *)
ProgressOf(task) ==
    IF executions[task] > 1 THEN "repeated"
    ELSE IF BeingRun(task) THEN "running"
    ELSE IF executions[task] = 1 THEN "done" ELSE "waiting"

Progress == [task \in Tasks |-> ProgressOf(task)]

Outcome ==
    CASE stage = "returned" -> "returned"
      [] stage \in {"threw", "terminated"} -> "failed"
      [] stage = "aborted" -> "aborted"
      [] OTHER -> "none"

Begun == {w \in Workers : wpc[w] = "task"}

LEMMA RunningIsInSlot ==
    ASSUME Ownership, NEW w \in Begun
    PROVE  w \in Workers /\ task_[w] \in Tasks /\ InSlot(w, task_[w])
BY DEF Begun, Ownership, InSlot

ProgressFacts ==
    \A task \in Tasks :
        /\ executions[task] = 1 => ProgressOf(task) = "done"
        /\ BeingRun(task) => ProgressOf(task) = "running"
        /\ executions[task] = 0 /\ ~BeingRun(task) => ProgressOf(task) = "waiting"

LEMMA ProgressIsTold == HpInv /\ ~raced => ProgressFacts
<1> SUFFICES ASSUME HpInv, ~raced, NEW task \in Tasks
             PROVE  /\ executions[task] = 1 => ProgressOf(task) = "done"
                    /\ BeingRun(task) => ProgressOf(task) = "running"
                    /\ executions[task] = 0 /\ ~BeingRun(task) => ProgressOf(task) = "waiting"
  BY DEF ProgressFacts
<1>1. Ownership /\ PlacedOnce(task)
  BY DEF HpInv, Placed
<1>2. BeingRun(task) => executions[task] = 0
  BY <1>1, RunningIsInSlot DEF BeingRun, Begun, PlacedOnce
<1> QED BY <1>1, <1>2 DEF ProgressOf, PlacedOnce

(* The task a worker calls stays what it is while others move: a poster    *)
(* writes to slots whose worker has nothing to do.                         *)
LEMMA RestOfTasksKept ==
    ASSUME UNCHANGED executions, Begun' = Begun,
           \A w \in Begun : task_'[w] = task_[w]
    PROVE  Progress' = Progress
<1>1. ASSUME NEW task \in Tasks PROVE BeingRun(task)' <=> BeingRun(task)
  BY DEF BeingRun, Begun
<1>2. \A task \in Tasks : ProgressOf(task)' = ProgressOf(task)
  BY <1>1 DEF ProgressOf
<1> QED BY <1>2 DEF Progress

LEMMA StutterKept ==
    ASSUME Progress' = Progress, Outcome' = Outcome
    PROVE  UNCHANGED Contract!dvars
BY DEF Contract!dvars, Progress, ProgressOf, Outcome

LEMMA WorkerContract ==
    ASSUME HpInv, HpInv', ~raced, ~raced', NEW w \in Workers, Running, WorkerStep(w)
    PROVE  [Contract!DNext]_Contract!dvars
<1>t. TypeOK /\ Stages /\ Ownership /\ Placed
  BY DEF HpInv
<1>u. UNCHANGED <<task_, stage>> /\ Outcome' = Outcome
  BY DEF WorkerStep, TestTask, TaskEnds, StoreTaskDone, TestStop, ownervars, Outcome
<1>f. ProgressFacts /\ ProgressFacts'
  BY ProgressIsTold, PTL
<1>moves. ASSUME NEW item \in Tasks, NEW from, NEW to,
                 ProgressOf(item) = from, ProgressOf(item)' = to,
                 \A task \in Tasks \ {item} : ProgressOf(task)' = ProgressOf(task)
          PROVE  Contract!Advance(item, from, to)
  <2>1. Progress' = [Progress EXCEPT ![item] = to] /\ Progress[item] = from
    BY <1>moves DEF Progress
  <2> QED BY <1>u, <2>1 DEF Contract!Advance, Progress, ProgressOf, Outcome
<1>1. CASE TestTask(w) /\ ~task_done[w]
  <2>1. /\ wpc[w] = "loop" /\ wpc' = [wpc EXCEPT ![w] = "task"] /\ UNCHANGED executions
    BY <1>1 DEF TestTask, WorkerGoesTo
  <2>2. PICK item \in Tasks : item = task_[w] /\ InSlot(w, item)
    BY <1>1, <2>1, <1>t DEF Ownership, InSlot
  <2>3. executions[item] = 0 /\ item \notin unposted /\ \A v \in Workers : InSlot(v, item) => v = w
    BY <2>2, <1>t DEF Placed, PlacedOnce
  <2>4. \A task \in Tasks : BeingRun(task)' <=> BeingRun(task) \/ task = item
    BY <2>1, <2>2, <1>t, <1>u DEF BeingRun, TypeOK
  <2>5. ~BeingRun(item)
    BY <2>1, <2>3, <1>t, RunningIsInSlot DEF BeingRun, Begun
  <2>6. ProgressOf(item) = "waiting" /\ ProgressOf(item)' = "running"
    BY <2>3, <2>4, <2>5, <1>f DEF ProgressFacts
  <2>7. \A task \in Tasks \ {item} : ProgressOf(task)' = ProgressOf(task)
    BY <2>1, <2>4 DEF ProgressOf
  <2>8. Outcome = "none"
    <3>1. stage # "returned"
      BY <1>1, <1>t DEF Stages
    <3>2. stage \notin {"threw", "terminated"}
      BY <2>3, <1>t DEF Stages
    <3> QED BY <3>1, <3>2 DEF Running, Outcome
  <2>9. Contract!Advance(item, "waiting", "running")
    BY <2>6, <2>7, <1>moves
  <2> QED BY <2>8, <2>9 DEF Contract!DNext, Contract!Begin, Outcome
<1>2. CASE TaskEnds(w)
  <2>1. wpc[w] = "task" /\ wpc' = [wpc EXCEPT ![w] = "ran"]
    BY <1>2 DEF TaskEnds, WorkerGoesTo
  <2>2. PICK item \in Tasks : item = task_[w] /\ InSlot(w, item)
    BY <2>1, <1>t, RunningIsInSlot DEF Begun
  <2>3. executions[item] = 0 /\ \A v \in Workers : InSlot(v, item) => v = w
    BY <2>2, <1>t DEF Placed, PlacedOnce
  <2>4. /\ executions' = [executions EXCEPT ![item] = @ + 1] /\ executions \in [Tasks -> Nat]
    BY <1>2, <2>2, <1>t DEF TaskEnds, TypeOK
  <2>5. executions'[item] = 1 /\ \A task \in Tasks \ {item} : executions'[task] = executions[task]
    BY <2>3, <2>4
  <2>6. \A task \in Tasks \ {item} : BeingRun(task)' <=> BeingRun(task)
    BY <2>1, <2>2, <1>t, <1>u DEF BeingRun, TypeOK
  <2>7. BeingRun(item)
    BY <2>1, <2>2 DEF BeingRun
  <2>8. ProgressOf(item) = "running" /\ ProgressOf(item)' = "done"
    BY <2>5, <2>7, <1>f DEF ProgressFacts
  <2>9. \A task \in Tasks \ {item} : ProgressOf(task)' = ProgressOf(task)
    BY <2>5, <2>6 DEF ProgressOf
  <2>10. Contract!Advance(item, "running", "done")
    BY <2>8, <2>9, <1>moves
  <2>11. Outcome # "aborted"
    BY DEF Running, Outcome
  <2> QED BY <2>10, <2>11 DEF Contract!DNext, Contract!End, Outcome
<1>3. CASE (TestTask(w) /\ task_done[w]) \/ StoreTaskDone(w) \/ TestStop(w)
  <2>1. /\ wpc[w] # "task" /\ UNCHANGED executions
        /\ \E label \in {"test stop", "exited", "loop"} : wpc' = [wpc EXCEPT ![w] = label]
    BY <1>3 DEF TestTask, StoreTaskDone, TestStop, WorkerGoesTo
  <2>2. Begun' = Begun
    BY <2>1, <1>t DEF Begun, TypeOK
  <2> QED BY <2>1, <2>2, <1>u, RestOfTasksKept, StutterKept
<1> QED BY <1>1, <1>2, <1>3 DEF WorkerStep

LEMMA ThrowContract ==
    ASSUME HpInv, ~raced, NEW w \in Workers, Running, TaskThrows(w)
    PROVE  Contract!Abort
<1>t. TypeOK /\ Stages /\ Ownership /\ Placed
  BY DEF HpInv
<1>1. /\ MayThrow /\ wpc[w] = "task" /\ stage' = "aborted"
      /\ UNCHANGED <<task_, wpc, executions>>
  BY DEF TaskThrows, workervars
<1>2. PICK item \in Tasks : item = task_[w] /\ InSlot(w, item)
  BY <1>1, <1>t, RunningIsInSlot DEF Begun
<1>3. executions[item] = 0 /\ item \notin unposted /\ ~task_done[w]
  BY <1>2, <1>t DEF Placed, PlacedOnce, InSlot
<1>4. stage \notin {"returned", "threw", "terminated", "aborted"}
  BY <1>3, <1>t DEF Stages, Running
<1>5. Progress[item] = "running"
  <2>1. BeingRun(item)
    BY <1>1, <1>2 DEF BeingRun
  <2> QED BY <2>1, ProgressIsTold DEF ProgressFacts, Progress
<1>6. Progress' = Progress
  BY <1>1, RestOfTasksKept DEF Begun
<1>7. Outcome = "none" /\ Outcome' = "aborted"
  BY <1>1, <1>4 DEF Outcome
<1> QED BY <1>1, <1>5, <1>6, <1>7 DEF Contract!Abort, Progress, ProgressOf, Outcome

LEMMA PosterContract ==
    ASSUME HpInv, ~raced, NEW p \in Posters, PosterStep(p)
    PROVE  UNCHANGED Contract!dvars
<1>t. TypeOK /\ Ownership
  BY DEF HpInv
<1>1. UNCHANGED <<executions, wpc, stage>>
  BY DEF PosterStep, CallPost, ChooseWorker, TestTaskDone, WriteTask, StoreTaskNotDone, workervars, ownervars
<1>2. ASSUME NEW w \in Begun PROVE task_'[w] = task_[w]
  <2>1. CASE WriteTask(p)
    <3>1. IsPosting(p, slot[p]) /\ slot[p] \in Workers /\ task_' = [task_ EXCEPT ![slot[p]] = arg[p]]
      BY <2>1, <1>t DEF WriteTask, IsPosting, TypeOK
    <3>2. w \in Workers /\ ~task_done[w] /\ task_done[slot[p]]
      BY <3>1, <1>t DEF Begun, Ownership
    <3> QED BY <3>1, <3>2, <1>t DEF TypeOK
  <2>2. CASE ~WriteTask(p)
    BY <2>2 DEF PosterStep, CallPost, ChooseWorker, TestTaskDone, StoreTaskNotDone, workervars
  <2> QED BY <2>1, <2>2
<1>3. Begun' = Begun /\ Outcome' = Outcome
  BY <1>1 DEF Begun, Outcome
<1> QED BY <1>1, <1>2, <1>3, RestOfTasksKept, StutterKept

LEMMA OwnerContract ==
    ASSUME HpInv, ~raced, OwnerStep \/ SpawnFails
    PROVE  [Contract!DNext]_Contract!dvars
<1>t. TypeOK /\ Stages /\ Ownership /\ Placed /\ next \in Workers
  BY DEF HpInv, TypeOK
<1>u. UNCHANGED <<executions, task_>>
  BY DEF OwnerStep, StartWorker, FinishPosting, IsTaskDone, StopOnly, JoinWorker, SpawnFails, workervars
<1>idle. ASSUME stage \in {"start", "stop", "join"} PROVE Begun = {}
  BY <1>idle, <1>t DEF Begun, Stages, Ownership
<1>rest. ASSUME Begun' = Begun PROVE Progress' = Progress
  BY <1>rest, <1>u, RestOfTasksKept
<1>1. CASE StartWorker
  <2>1. stage = "start" /\ stage' \in {"start", "post"} /\ wpc' = [wpc EXCEPT ![next] = "loop"]
    BY <1>1, <1>t, OwnerMovesOn DEF StartWorker, WorkerGoesTo
  <2>2. Begun' = Begun
    BY <2>1, <1>idle, <1>t DEF Begun, TypeOK
  <2> QED BY <2>1, <2>2, <1>rest, StutterKept DEF Outcome
<1>2. CASE FinishPosting \/ IsTaskDone \/ StopOnly
  <2>1. /\ stage \in {"post", "wait", "stop"} /\ stage' \in {"wait", "stop", "join"} /\ UNCHANGED wpc
    BY <1>2, <1>t, OwnerMovesOn DEF FinishPosting, IsTaskDone, StopOnly, workervars
  <2> QED BY <2>1, <1>rest, StutterKept DEF Begun, Outcome
<1>3. CASE JoinWorker
  <2>1. stage = "join" /\ stage' \in {"join", "returned"} /\ UNCHANGED wpc
    BY <1>3, <1>t, OwnerMovesOn DEF JoinWorker, workervars
  <2>2. Progress' = Progress
    BY <2>1, <1>rest DEF Begun
  <2>3. CASE stage' = "join"
    BY <2>1, <2>2, <2>3, StutterKept DEF Outcome
  <2>4. CASE stage' = "returned"
    <3>1. \A task \in Tasks : executions[task] = 1
      BY <2>1, RunOnceInvariant DEF PostedTasksRunOnce
    <3>2. \A task \in Tasks : Progress[task] = "done"
      BY <3>1, ProgressIsTold DEF ProgressFacts, Progress
    <3>3. Outcome = "none" /\ Outcome' = "returned"
      BY <2>1, <2>4 DEF Outcome
    <3> QED BY <2>2, <3>2, <3>3 DEF Contract!DNext, Contract!Return, Contract!Conclude, Progress, ProgressOf, Outcome
  <2> QED BY <2>1, <2>3, <2>4
<1>4. CASE SpawnFails
  <2>1. /\ stage = "start" /\ stage' \in {"threw", "terminated"}
        /\ \A w \in Workers : wpc'[w] \in {"gone", "unborn"}
    BY <1>4 DEF SpawnFails
  <2>2. Progress' = Progress
    BY <2>1, <1>idle, <1>rest DEF Begun
  <2>3. \A task \in Tasks : executions[task] = 0 /\ ~BeingRun(task)
    BY <2>1, <1>idle, <1>t DEF Stages, Placed, PlacedOnce, BeingRun, Begun
  <2>4. \A task \in Tasks : Progress[task] = "waiting"
    BY <2>3, ProgressIsTold DEF ProgressFacts, Progress
  <2>5. Outcome = "none" /\ Outcome' = "failed"
    BY <2>1 DEF Outcome
  <2> QED BY <2>2, <2>4, <2>5 DEF Contract!DNext, Contract!Fail, Contract!Conclude, Progress, ProgressOf, Outcome
<1> QED BY <1>1, <1>2, <1>3, <1>4 DEF OwnerStep

LEMMA ContractStep ==
    HpInv /\ HpInv' /\ ~raced /\ ~raced' /\ [Next]_vars => [Contract!DNext]_Contract!dvars
<1> SUFFICES ASSUME HpInv, HpInv', ~raced, ~raced', [Next]_vars PROVE [Contract!DNext]_Contract!dvars
  OBVIOUS
<1>1. CASE UNCHANGED vars
  <2>1. UNCHANGED <<executions, wpc, task_, stage>>
    BY <1>1 DEF vars, workervars, ownervars
  <2> QED BY <2>1, RestOfTasksKept, StutterKept DEF Begun, Outcome
<1> QED BY <1>1, WorkerContract, ThrowContract, PosterContract, OwnerContract DEF Next, Contract!DNext

LEMMA ContractInit == Init => Contract!DInit
<1> SUFFICES ASSUME Init PROVE Contract!DInit
  OBVIOUS
<1>1. \A task \in Tasks : executions[task] = 0 /\ ~BeingRun(task)
  BY DEF Init, BeingRun
<1>2. stage = "start"
  BY DEF Init
<1> QED BY <1>1, <1>2 DEF Contract!DInit

LEMMA RacedForEver == raced /\ [Next]_vars => raced'
BY DEF Next, WorkerStep, TestTask, TaskEnds, TaskThrows, StoreTaskDone, TestStop, PosterStep, CallPost, ChooseWorker,
       TestTaskDone, WriteTask, StoreTaskNotDone, OwnerStep, StartWorker, FinishPosting, IsTaskDone, StopOnly,
       JoinWorker, SpawnFails, vars, postervars

(* Whatever goes wrong starts with two posters that meet: up to there any  *)
(* number of posters and workers keep the contract of a dispatch function, *)
(* in which a task that throws ends the program.                           *)
THEOREM ContractUntilPostersMeet == Spec => [][~raced' => Contract!DNext]_Contract!dvars
<1>1. HpInv /\ HpInv' /\ [Next]_vars => [~raced' => Contract!DNext]_Contract!dvars
  BY ContractStep, RacedForEver
<1> QED
  BY <1>1, HpInvInit, HpInvStep, PTL DEF Spec

(* One poster meets nobody.                                                *)
LEMMA AloneIsSafe == OnePoster /\ HpInv /\ ~raced /\ [Next]_vars => ~raced'
<1> SUFFICES ASSUME OnePoster, HpInv, ~raced, [Next]_vars PROVE ~raced'
  OBVIOUS
<1>1. ASSUME NEW p \in Posters, ChooseWorker(p) PROVE ~raced'
  <2>1. Posters = {p} /\ ppc[p] = "choose"
    BY <1>1 DEF OnePoster, ChooseWorker
  <2>2. Posting(slot[p]) = {}
    BY <2>1 DEF Posting
  <2> QED BY <1>1, <2>2 DEF ChooseWorker
<1>2. ASSUME NEW p \in Posters, PosterStep(p), ~ChooseWorker(p) PROVE ~raced'
  BY <1>2 DEF PosterStep, CallPost, TestTaskDone, WriteTask, StoreTaskNotDone
<1>3. ASSUME NEW w \in Workers, WorkerStep(w) \/ TaskThrows(w) PROVE ~raced'
  BY <1>3 DEF WorkerStep, TestTask, TaskEnds, TaskThrows, StoreTaskDone, TestStop, postervars
<1>4. ASSUME OwnerStep \/ SpawnFails PROVE ~raced'
  BY <1>4 DEF OwnerStep, StartWorker, FinishPosting, IsTaskDone, StopOnly, JoinWorker, SpawnFails, postervars
<1>5. CASE UNCHANGED vars
  BY <1>5 DEF vars, postervars
<1> QED BY <1>1, <1>2, <1>3, <1>4, <1>5 DEF Next

(* The dispatch function on HPThreadPool, which posts from one thread,     *)
(* runs each task once and returns after all of them, for any number of    *)
(* workers and tasks, on the word of the flags task_done_ alone, unless a  *)
(* task throws and ends the program.                                       *)
THEOREM HpKeepsTheContract ==
    ASSUME OnePoster
    PROVE  Spec => Contract!DSafety
<1>1. Init => HpInv /\ ~raced
  BY HpInvInit DEF Init
<1>2. HpInv /\ ~raced /\ [Next]_vars => HpInv' /\ ~raced'
  BY HpInvStep, AloneIsSafe
<1>3. Spec => [](HpInv /\ ~raced)
  BY <1>1, <1>2, PTL DEF Spec
<1> QED
  BY <1>3, ContractInit, ContractStep, PTL DEF Spec, Contract!DSafety
=============================================================================
