# ThreadPoolBenchmark in TLA+

The program (`src/ThreadPoolBenchmark`) is a C++23 benchmark for Windows. It runs the same suites of
tasks on a dozen thread pools: two written for it, `ThreadPool` on `ThreadSafeQueue` and
`oneTBB_Wrapper`, a hand-written worker loop around moodycamel's queue, several vendored
single-header pools, and the parallel loops of oneTBB, PPL, OpenMP and Taskflow. There are no unit
tests. This directory specifies the concurrent core and four of the pools it is compared with,
model-checks them with TLC and proves their main invariants with TLAPS.

File names below are relative to `src/ThreadPoolBenchmark/`.

## 1. Inventory

| Part | State | Operations | What makes it correct |
|---|---|---|---|
| `ThreadSafeQueue.h` | `_queue`, atomic `_size` and `_shutdown`, `_mutex`, `_cv`, `_cvFull`, `_maxSize` | `push`, `tryPush`, `waitPop`, `waitPopFor`, `tryPop`, `shutdown`, `clear`, `empty`, `size` | no lost wakeup on either side, nobody asleep after `shutdown`, FIFO, the capacity, `_size` in step with the deque |
| `ThreadPool.h` | `active`, the queue, `workers`, `tasksCompleted`, `enableAffinity`, `nextCoreId` | constructor, `tryEnqueueTask`, `shutdownImmediately` (also the destructor), `shutdownProcessRemainingTasks`, `workerThread`, `pinCurrentThreadToCore` | a task runs at most once; none is lost while the pool is active; a drain runs what was accepted; every call returns |
| `oneTBB_Wrapper.h` | `queueSize_`, `maxQueueSize_`, `thread_local` buffers, an arena | `tryEnqueue` with seven strategies, `flush_streamed_tasks`, `shutdownProcessRemainingTasks` | the counter covers what is unfinished; a drain returns, and not early; tasks run once |
| dispatch functions, `main.cpp:57-491` | locals | build a pool, submit a suite, wait, destroy | every task exactly once, all before the return |
| moodycamel loop, `main.cpp:237-272` | `done`, `remainingTasks`, an MPMC queue | hand-written workers | the same |
| `hp_threadpool.h` (vendored) | one task slot and two flags per worker | `post`, `is_task_done`, `stop`, `join`, ... | a posted task runs once; `is_task_done` means done |
| `dp_threadpool.h`, `dp_thread_safe_queue.h` (vendored) | a queue and a binary semaphore per worker, `in_flight_tasks_`, `unassigned_tasks_`, a completion flag | `enqueue`, `wait_for_tasks`, `clear_tasks`, destructor, stealing workers | counters agree with the queues; no task with a sleeping worker; waiters wake |
| `task_thread_pool.hpp` (vendored) | a queue, `num_inflight_tasks`, flags, two condition variables | `submit`, `pause`, `unpause`, waits, `clear_task_queue`, `set_num_threads`, destructor | the count is right; no worker sleeps over a task; waiters wake when they may |
| `BS_thread_pool.hpp` (vendored) | as above with priorities and optional pausing | `submit_task`, `wait`, `purge`, `reset` | the same |
| `concurrentqueue.h`, `blockingconcurrentqueue.h`, `lightweightsemaphore.h` (vendored) | lock-free blocks | enqueue and dequeue | linearizable bag |
| `Helpers.h` and the suites | results and timings | run suites, print tables | sequential |
| `ThreadProfiler.h` | a ring of snapshots | sampling thread | compiled out and included nowhere |
| `include/` | oneTBB and Taskflow | | external |

**Interaction.** A suite builds a vector of tasks and calls a dispatch function. That of
`ThreadPool` constructs a pool (24 threads, unbounded queue), calls `tryEnqueueTask` for each
task, `shutdownProcessRemainingTasks`, and lets the destructor run. `tryEnqueueTask` reads
`active` and calls `push` or `tryPush`. Workers loop on `waitPop`. The shutdown functions turn
`active` off, clear the queue or spin until it reads empty, call `shutdown()` on the queue and
join the workers. The queue wakes its sleepers through `_cv` and `_cvFull`. The other pools are
used in the same way: built, filled by one thread, waited for, destroyed.

**What is hard here.** Wakeups handed out one at a time by `notify_one` while threads that never
slept compete for the same item or slot. Tests made outside the mutex (`_shutdown` in `tryPush`,
`active` in `tryEnqueueTask`, `is_task_done` in `post`) and acted on later. A lock-free length the
drain loop trusts. Shutdown calls that meet each other, submissions in flight, and running tasks
that submit more. A counter that is read, compared and added to in three steps, counted twice by
two strategies, and skipped by an exception. Semaphores that swallow a release, flags shared by
waiters that reset them, counters lowered by two parties. The list of hazards in `PROJECT.json`
gives each one its line and the properties that guard it, or says why none does.

## 2. Modules

| Module | Models |
|---|---|
| `ThreadSafeQueue` | the queue's state and, for each operation, its critical sections |
| `QueueClients` | the queue with producers and consumers that call anything at any time |
| `AwaitQueue` | abstract: a queue whose callers wait for a condition; no condition variables, no counter |
| `ThreadPool` | the pool with workers, callers, both shutdowns; extends `ThreadSafeQueue` |
| `TaskLifecycle` | abstract: new, submitting, queued, running, done, or refused, lost, late |
| `PoolStartup` | the constructor, threads that cannot be created, round-robin core choice and pinning |
| `PoolDispatch` | the four dispatch functions of `main.cpp` built on the pool; extends `ThreadPool`, has an instance of `PoolStartup` |
| `Dispatch` | abstract: what the benchmark expects of a dispatch function |
| `MoodyDispatch` | the dispatch function around moodycamel's queue |
| `OneTbbWrapper` | `oneTBB_Wrapper` |
| `HpThreadPool` | `HPThreadPool` with several posting threads, and the dispatch function that uses it |
| `DpThreadPool` | `dp::thread_pool` under any callers |
| `TaskThreadPool` | `task_thread_pool` under any callers |
| `WaitablePool` | abstract: a pool with a waiting function, implemented by the last two |
| `CountingLemmas` | facts about cardinalities, and about lists without repetitions, that the proofs share |
| `QueueClientsProofs`, `ThreadPoolProofs`, `MoodyProofs`, `OneTbbProofs`, `HpProofs`, `TaskPoolProofs`, `DpPoolProofs` | theorems; `ThreadPoolProofs` is about `ThreadPool` and, in its last part, about `PoolStartup` and `PoolDispatch` |
| `MC...` | instances for TLC |

How they build on one another:

```
AwaitQueue     <= QueueClients -> ThreadSafeQueue
TaskLifecycle  <= ThreadPool   -> ThreadSafeQueue
Dispatch       <= PoolDispatch -> ThreadPool, PoolStartup
Dispatch       <= MoodyDispatch, HpThreadPool (one poster)
WaitablePool   <= DpThreadPool, TaskThreadPool
```

(`->` extends or instantiates, `<=` is implemented by.)

**Grain.** One action is what a thread does between two points where another can interfere: a
critical section, or one access to an atomic, a semaphore or a slot. `tryPush` is therefore two
actions (the test of `_shutdown` at `ThreadSafeQueue.h:106`, then the section from :108), a `push`
that sleeps is one action to fall asleep and one for each time it re-evaluates its predicate, and
`enqueue_task` of `dp::thread_pool` is six. A condition variable is the set of its sleepers;
`notify_one` removes any one of them; spurious wakeups (`WakesUp`, `Spurious`) may happen at any
time. `pc`, `call`, `wpc`, `ppc`, `stage` say where a thread is; each value is named for the
function or the statement the thread is about to execute.

**Correspondence.** `queue`, `size`, `shutdown`, `cv`, `cvFull`, `active`, `nextCoreId`,
`queueSize`, `task_`, `task_done`, `stop`, `tasks`, `signal`, `priority_queue`, `unassigned`,
`in_flight`, `complete`, `pool_running`, `pool_paused`, `notify_task_finish`, `num_inflight`,
`remainingTasks`, `done` are the members and locals of nearly the same name; `running[w]` is the
local `task` of `workerThread`; `completed` is `tasksCompleted`; `arg` and `result` are the
argument and the answer of a call. `promised`, `late`, `executions`, `cleared`, `stopped`,
`raced`, `forgotten`, `fresh`, and in the wrapper `accepted`, `executed`, `dropped`, `leaked`, are
history: no action reads them to decide what the code does, except that `stopped` limits each
caller to one shutdown call and `fresh` (and `unposted`, `result`) each task to one submission.
`PROJECT.json` maps every definition to its lines. A definition whose name ends in `Bug` is used
by no specification: it is its neighbour with a plausible mistake, kept to show which property
notices that mistake.

**Abstractions.** Tasks are names. In `ThreadPool`, `DpThreadPool` and `TaskThreadPool` a task ends in one
step whether it returns or throws, since something catches what it throws (`ThreadPool.h:226-233`; the wrappers that
`enqueue` and `enqueue_detach` put around a task, `dp_threadpool.h:150-163`, `:215-231`; `task_thread_pool.hpp:373-378`). `HPThreadPool`
(`hp_threadpool.h:103`, `:123`) and the moodycamel loop (`main.cpp:250`) catch nothing: there `TaskThrows`
ends the program, the outcome "aborted" of `Dispatch`, if `MayThrow` allows it, as it does in the runs.
In `OneTbbWrapper` an exception comes out of the arena. Memory does not run out: allocations succeed, and
`queue.enqueue`, whose answer `main.cpp:260` ignores, never answers false. `waitPopFor` may time out whenever
its predicate is false. Atomics are sequentially consistent, with one exception: the loads of
`remainingTasks` in the moodycamel loop, which are relaxed, may return any value between the present
one and the last one main has seen. The relaxed `_size` and `queueSize_` are not treated so: on x86
and x64, the platforms of the project file, a stale read of `_size` only lengthens the busy-wait,
and every read-modify-write is atomic. A pool object outlives the calls made on it, as C++
requires: the destructors in the models start when no other caller is inside. A task does not shut
down its own pool (it would join itself).

In `OneTbbWrapper` the arena is external: `execute` runs every task of the vector, in any order
and on any threads, and returns when they have ended; the first exception cancels the tasks not
begun and comes out of `execute`. The five strategies that are not streamed are one, since they
differ only in how the arena splits the vector. Vectors are sets, and tasks are handed over lowest
number first, which loses nothing as tasks differ in name only. The `default` branch of
`tryEnqueue` is unreachable for the values of `Strategy` and is left out. The `thread_local`
buffers outlive the wrapper in the code; the model has one wrapper. In `MoodyDispatch` the queue is
external: a set, whose dequeue may fail even when it is not empty, though not for ever.

`HpThreadPool` makes the unlocked slot explicit: `DataRace` is the state in which a poster is about
to assign to `task_` while the worker calls it or another poster assigns too. From there on the
program may do anything, so such states are terminal. `DpThreadPool` takes `release()` on a binary
semaphore that is already released as leaving it so, as in the Microsoft library; the standard
leaves it undefined.

**Not every call is a state.** Where a vendored pool offers several ways into one operation, the
operation is modelled: `enqueue`, `enqueue_detach` and `enqueue_task`; `submit` and
`submit_detach`; `wait_for_tasks` and the destructor's wait. Constructors of vendored pools are the
initial states, except that of `HPThreadPool`, whose threads are started one by one and may be
refused. In `PoolDispatch`, batching by 16 only groups the iterations of one submission loop; in the
oneTBB variant a batch is one task of the pool and therefore one task of the model.

## 3. Runs

Passing runs, all of which exhaust their state space:

| Run | Instance | Shows |
|---|---|---|
| `queue` | 2 producers, 3 consumers, 2 items, capacity 2 | types, `SizeAgrees`, `WithinCapacity`, `NobodySleepsAfterShutdown`, `NoLostWakeup`, `NoStrandedProducer`; every call returns after `shutdown`; the queue implements `AwaitQueue` |
| `pool_safety` | 2 workers, 2 callers, 5 tasks, capacity 1, both submission policies outside and inside tasks, both shutdowns; threads and tasks symmetric | at most one place per task, nothing lost while active, the drain's promise, the count of completed tasks, no idle worker beside a queued task, no stranded submitter, only late tasks left, and the one way in which the pool stalls |
| `pool_life` | 2 workers, 2 callers, 2 tasks; tasks submit without blocking | shutdowns and submissions return, queued tasks leave, the pool implements `TaskLifecycle` |
| `pool_dispatch` | 3 workers, 3 tasks, unbounded, 2 cores; thread creation may fail | the dispatch functions on `ThreadPool` implement `Dispatch`, liveness included; even round-robin; no task on an unpinned worker |
| `onetbb` | 2 threads, 7 tasks, vectors of up to 3, batches of 2, capacity 3, exceptions | no underflow, nothing twice, `OvershootIsBounded` (never more than twice `maxQueueSize_` per thread in the counter), no early end of the drain, and its end when nothing leaks |
| `dp_pool` | 2 workers, 2 callers, 2 tasks; tasks enqueue tasks | counters stay natural, no task with a sleeping worker, the pool implements `WaitablePool` |
| `task_pool` | 2 workers, 2 callers, 2 tasks; tasks submit tasks | the count of tasks in flight, no worker asleep over a task, what the destructor leaves, the pool implements `WaitablePool` |
| `hp_pool` | 2 workers, 2 posters, 3 tasks; thread creation may fail, tasks may throw | a posted task runs once unless two posters met at one worker; the dispatch does not hang: it returns, or thread creation fails, a task throws, or two posters come to a data race, after which nothing is claimed |
| `moody` | 3 workers, 3 tasks; thread creation may fail, tasks may throw | the moodycamel loop implements `Dispatch` |

Runs that TLC must find violated. Each states what a comment of the code says:

| Run | Statement | What the code does |
|---|---|---|
| `queue_closed` | `tryPush` answers "false if the queue is full or shutting down" (`ThreadSafeQueue.h:95-96`, `:102`) | it tests `_shutdown` before it takes the mutex and appends to a queue closed in between |
| `pool_true` | true means accepted into the queue (`ThreadPool.h:127`) | a blocking submission released by the shutdown drops its task and answers true |
| `onetbb_streamed` | "Flush any partial batches in this thread" (`oneTBB_Wrapper.h:275`) | `flush_streamed_tasks` has a buffer of its own; the accumulated tasks never run and the drain spins |

**Facts about the code that live inside passing properties.** The properties that meet these cases exempt
them, and hold outside them; they do not show that the cases are harmless. Some of them contradict a doc, which is quoted.

- A `tryPush` that passed its test of `_shutdown` may append after the last worker has left: in the queue this is the
  violation `queue_closed`. In the pool its caller is told true and the task stays in the queue (`late`), although "No new tasks
  are accepted" (`ThreadPool.h:170`). `OnlyLateTasksAreLeft` says that nothing else is left.
- A second shutdown call, also the destructor's, returns at once while the first one is still
  draining or joining.
- `clear()` frees the slots of a bounded queue without notifying `_cvFull`: `NoStrandedProducer` holds
  until `clear()` is called, and in the pool the `shutdown()` that follows every `clear()` repairs it
  (`NoStrandedSubmitter`, `EnqueueTerminates`).
- A task that submits with `blockIfQueueFull = true` while the queue is full blocks its worker; if all
  workers do so, nobody pops. `StallsOnlyInOwnPush` shows that this is the only way in which the pool can stop with tasks
  in its queue. `shutdownProcessRemainingTasks` then spins for ever, and a shutdown call after it
  returns at once without releasing anybody. This is why `pool_life`, which checks liveness, lets tasks submit without
  blocking only.
- `ThreadPool.h:89` initialises `enableAffinity` from itself (the parameter is spelled `enableAfinity`), although pinning is
  documented as the caller's choice (`:52-58`). `PoolStartup` lets the member have either value; the contract holds with both.
- Racing `tryEnqueue` calls of the wrapper exceed `maxQueueSize_` together, and a streamed batch is counted twice and subtracted
  once. `OvershootIsBounded` says how far that goes, but with a maximum it ends in a wrapper that refuses everything. A drain
  after a task has thrown, or with streamed tasks in a buffer, spins (`leaked`, exempted in `ShutdownReturns`; the second
  case is the violation `onetbb_streamed`).
- Two threads in `wait_for_tasks` of `dp::thread_pool` share one `notify_one`: the other may sleep on, against "will block
  until all tasks have been completed" (`dp_threadpool.h:242`). `clear_tasks`, although it signals nothing, leaves nobody
  asleep: a worker still passes the test of `in_flight_tasks_` after it.
- The waits of `task_thread_pool` share the flag `notify_task_finish`, which each resets when it
  returns, and `clear_task_queue` notifies nobody, against "Block until the task queue is empty" and "Block until all tasks
  have finished" (`task_thread_pool.hpp:323`, `:333`). A waiter left behind in one of these ways is `forgotten`, and
  `WaitablePool` promises nothing to it. Tasks that running tasks submit after the wait of the
  destructor are dropped (`late`), against "Finish all tasks left in the queue" (`:147`).
- `ThreadPool::post` of `HPThreadPool` ignores the answer of `Worker::post`. With two posters a task
  may be dropped that `post` answered true for, against "true if task is posted successfully" (`hp_threadpool.h:151`), or the slot
  may be written by two threads. `main.cpp` posts from one thread only, and one poster is safe.
- In the moodycamel loop the join of the workers alone would do; the wait of main for
  `remainingTasks` before it is not needed for the contract.

`main.cpp` stays clear of all of these: one thread submits, waits and destroys, one after the other.

**Bounds and why they are enough.** Lost wakeups need two sleepers on one side and one thread
that competes without sleeping: three consumers show every such pattern on the side of the items, and
two producers with a `tryPush` in between on the side of the slots; capacity 2 makes full, empty and
in-between differ. `LengthBound` stops new pushes on a queue of length 3; it is never reached at
capacity 2 and only matters for unbounded instances. In `pool_safety`, five tasks and capacity 1 are
the least that fill the queue while both workers run tasks that submit one more each, which is what the stall
needs. Each caller calls one shutdown function and each task is submitted once; two callers are a submitter
and a shutdown, or two shutdowns. `VectorBound` 3 exceeds the batch of 2, so a vector may go straight
to the arena, fill the buffer exactly or leave it short; 64 tasks a batch in the code are the same
three cases. With seven tasks the counter passes the bound of
`OvershootIsBounded` as soon as the comparison before the admission is wrong. The action constraint `ArenaRunsLowestFirst` makes the arena
run the tasks of a batch in one order: a batch belongs to one call and no action tells its tasks apart, so the constraint drops
only states that differ in the numbers of a batch's tasks. In `dp_pool` a task can be stolen, cleared or enqueued by the other
task, and two callers can wait and clear at the same time; a third task or caller only adds states.
In `task_pool` `set_num_threads` goes from two threads to one and back. In `hp_pool` three tasks on two slots make a
poster go round.

`CHECK_DEADLOCK FALSE` stands only in the wrapper's cfgs: all threads may be in the drain loop for
ever there, which is what `onetbb_streamed` is about; the other specifications have an explicit final
stutter (`AtRest`, `Destroyed`, `Returned`, `Ended`, ...).

**Fairness.** Weak fairness of each thread's own steps: the operating system schedules runnable
threads, a thread before a mutex gets it in the end, and tasks end. Nothing obliges anyone to call a
function, to submit, to shut down, to destroy, or to wake spuriously, threads need not be refused, and timeouts
need not fire. Weak fairness is enough although `push` competes for slots with `tryPush`: a shutdown
ends the competition, and in the pool each task is submitted once. The busy-waits (`DrainEnds`) are
steps that are enabled only when the loop's condition lets go; iterations that change nothing are
stutters. `MoodyDispatch` assumes two things more: strong fairness of `Dequeue`, since an attempt may fail
although the queue is not empty but not every time, and that a store becomes visible to the relaxed
loads in the end, as the C++ standard asks of implementations.

The contracts `Dispatch` and `TaskLifecycle` have no state for a task that runs twice: the mappings
send it to a status ("repeated") no action leads to, so a second execution would violate them.

## 4. Theorems

All are for any sets of threads, items or tasks, any capacity and any batch size, from the
assumptions named in the modules (finite disjoint sets of threads, `MaxSize \in Nat` and the like).
TLC evaluates these assumptions in the runs. Some theorems assume more, and say so in `ASSUME`:
`TrueMeansQueuedUnlessBlocking` assumes `NobodyBlocks`; the last part of `ThreadPoolProofs` assumes
`DispatchAssumption`, how `main.cpp` uses the pool (one caller, which submits each task of its suite
once and does not block, to a queue without a bound, `main.cpp:57-157`); `HpKeepsTheContract`
assumes `OnePoster`, the same of `HPThreadPool` (`main.cpp:167-176`).

`QueueClientsProofs`

- `TypeCorrect`, `SizeIsRight`: `TypeOK` and `SizeAgrees` are inductive together. Neither is alone:
  `--_size` stays a natural number only because the deque it mirrors is not empty.
- `CapacityIsKept`, `ShutdownReleasesEverybody`: the inductive invariant `SleepInv` adds that sleepers are
  inside the call that waits on their condition variable.
- `WakeupsAreNotLost`: while a consumer sleeps, there are at least as many awake consumers in a pop as
  items. The proof follows cardinalities: an append adds an item and wakes one sleeper, a pop removes an item
  and one awake popper, and a consumer falls asleep or times out only on an empty queue.
- `ProducersAreNotStranded`: the same for the other side, until `clear()` is called.
- `OnlyLateTryPushes`: how far the code stays behind the promise that `queue_closed` finds broken: after `shutdown()` only a
  `tryPush` past its test appends, one item each.
- `QueueAwaits`: every step is a step of `AwaitQueue` or changes nothing there.

`ThreadPoolProofs`

- `TypeCorrect`: as above, with `SubmitsPending` (a thread inside `tryEnqueueTask` holds a task of
  its own with no answer yet) and `HoldsWhileRunning` in the invariant `BaseInv`.
- `DrainKeepsPromises`, `NothingButLateTasksIsLeft`: `DrainInv` says that at most one caller gets past
  the exchange of `active`, that a promised task is queued, running or done, and, the key conjunct
  `LeavingWorkersSawAll`, that once one worker has left, the queue is shut down and holds nothing promised
  and nothing but late tasks. It is needed since workers leave one after the other, and what the first one saw
  must still be true when the last one is joined.
- `WorkersAreNotIdle`, `TheOnlyStall`, `SubmittersAreNotStranded`: the counting argument of the queue, with workers
  that are consumers and, inside a task, producers too. `TheOnlyStall` follows: if tasks are queued and
  no worker is awake outside a push of its own, no worker sleeps in `waitPop`.
- `TasksAreInOnePlace`, `AcceptedTasksAreKept`: `PlaceInv` gives each task its single place by what
  `tryEnqueueTask` answered for it.
- `CountIsExact`: both counters are sets of units, one for each time they were raised, and a step adds one unit. Their
  finiteness is part of the invariant, so a counter over any finite set can be totalled without induction over that set.
- `TrueMeansQueuedUnlessBlocking`: the other half of the violation `pool_true`. If no submission blocks (`NobodyBlocks`) nobody is
  inside `push`, and every answer true follows an append.
- `PoolKeepsTaskLifecycle`: every step of the pool is a step of `TaskLifecycle` or changes nothing there.
- `DispatchKeepsTheContract`: each step of a dispatch function on the pool is a step of `Dispatch` or changes nothing there.
  Every step of `PoolDispatch` leaves the pool alone or is a step the pool could take, so the invariants of
  the pool are reused. They are proved for `AnyStep`, in which a caller may begin any shutdown at any time, since `main` begins a second one,
  the destructor's, after the first. `UseInv` adds what `main` knows: which tasks it still has, that an active unbounded pool refuses
  none, that every task is promised when the drain begins, and that nothing is submitted before the constructor has returned.
- `RoundRobinDealsEvenly`: `DealtInTurn` says that after any number of draws the cores before the next one have one worker more
  than the others. `OnlyPinnedWorkersRun` needs that a worker which runs a task has come through its start.

`OneTbbProofs`

- `TasksRunOnce`: `OwnInv` says that an admitted task is in one buffer, one vector or one batch, or has
  run once, or was cancelled, and that vectors that are being handed over are apart.
- `TypeCorrect`, `DrainFindsAllDone`: `CounterIsRight` is an equation, `queueSize_` is the number of tasks held
  by threads and buffers, with the second count of streamed batches and the leaked part. Written as a sum over threads it
  would need induction; the proof counts a set of tokens, one for each unit a thread will still subtract.
- `OvershootOfAllIsBounded`: `Reserve` is what a thread may still add to the counter before it compares again: its vector, and the
  second count of what it then holds, at most twice `maxQueueSize_`. Counter and reserves together stay within the bound: whoever
  passes the comparison has just read a counter that leaves room for its vector, and from then on it only moves its reserve into
  the counter or gives units back.

`HpProofs`, theorem `PostedTasksAreRunOnce`: `Ownership` says who may touch the slot: a poster that has chosen
the worker until its store, then the worker until it stores `task_done_`. It holds until two posters meet at one worker (`raced`).
`ContractUntilPostersMeet`: up to that step each step is a step of `Dispatch`, where a task begins with the test of `task_done_`
that finds it and one that throws aborts the program. With one poster two never meet, hence `HpKeepsTheContract`.

`TaskPoolProofs`

- `TypeCorrect`: `num_inflight_tasks` counts the workers in a task, although `set_num_threads` takes all
  workers away and starts others. The invariant says that one thread at a time stops the pool, that no worker sleeps in a stopped pool
  and none is left after the join.
- `WorkersAreNotIdle`: the counting argument for running pools that are not paused.
- `DestructorLeavesOnlyLateTasks`: from the end of the destructor's wait on, the queue gains only late tasks.
- `KeepsThePromise`: every step is a step of `WaitablePool` or changes nothing there. A task is in one place, fresh,
  queued, held by one worker, done or cleared; a waiter reads the condition it returns on under the mutex that
  guards the queue and the counter.

`DpPoolProofs`

- `NoTaskIsForgotten`: a worker leaves its own queue only after it has found it empty. A release its semaphore
  swallows comes while an earlier one is pending, so the worker will look again anyway. `QueuesAreWatched` states this
  for a worker in any place.
- `TypeCorrect`: `in_flight_tasks_` and `unassigned_tasks_` are natural numbers only because each counts a set of tasks,
  from the thread that is about to queue one to the worker that has finished or taken it. The invariant has both equations.
- `KeepsThePromise`: every step is a step of `WaitablePool` or changes nothing there. `PlaceOf` says of each task its
  status and in whose hands it is: the argument of an `enqueue_task`, a queue, a worker, or what `clear_tasks` took out.
  Each step moves a set of tasks from one status to another, leaves the others, and the counters follow.

`MoodyProofs`, theorem `MoodyKeepsTheContract`: every step is a step of `Dispatch` or changes nothing there, a throwing task being
its `Abort`. The counter is the number of tasks not yet counted, and a relaxed load only errs on the high side.

The proofs also show things about the code. The busy-wait of `shutdownProcessRemainingTasks` is not what
keeps its promise: `waitPop` goes on returning items after `shutdown()` until the queue is empty. The same is
true of the waiting loop of the moodycamel function.

**Only model-checked.** Liveness (`CallsReturnAfterShutdown`, `ShutdownTerminates`, `EnqueueTerminates`,
`QueuedTaskLeaves`, `ShutdownReturns`, `DispatchNeverHangs`) and the fairness part of the refinements, which are
out of the prover's reach. Every invariant and every action property of the passing runs has a theorem, and every
refinement has one for its safety part. The three violations are TLC's.

## 5. Not modelled

- `BS_thread_pool.hpp`. One mutex, a flag set by waiters and reset by whoever returns, `notify_all` on
  completion: the protocol of `task_thread_pool.hpp`, with stop tokens in place of `pool_running`, and around it templates for
  priorities, futures and loops. What `TaskThreadPool` shows about waiters that share a flag and about a queue emptied behind a waiter
  is to be expected of `wait` and `purge` there, but no run says so.
- `concurrentqueue.h`, `blockingconcurrentqueue.h`, `lightweightsemaphore.h`: vendored, and what is interesting
  in them are weak-memory steps that interleaving semantics does not show; the last two are included by no file
  that is built.
- `post_task`, `post_tasks`, `restart_task` and `restart` of `hp_threadpool.h`: nothing calls them, and their
  callers must know that the workers are idle.
- oneTBB, Taskflow, PPL and OpenMP, and the dispatch functions that consist of one call to them.
- `Helpers.h` and the suites: sequential code about time and layout. The suites ask of a pool what `Dispatch`
  states; their waiting loops (`BackToBack.h:42`) end when it is kept.
- `ThreadProfiler.h`: included nowhere, compiled out.
- Weak-memory effects other than the relaxed loads of the moodycamel loop.

Worth doing next: `BsThreadPool` as a third implementation of `WaitablePool`; `LightweightSemaphore` with its spin-then-wait
counter, although nothing built reaches it.
