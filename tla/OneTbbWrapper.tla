--------------------------- MODULE OneTbbWrapper ---------------------------
(***************************************************************************)
(* oneTBB_Wrapper: threads hand over vectors of tasks with a strategy, an  *)
(* arena of oneTBB executes them, and the counter queueSize_ bounds what   *)
(* is admitted and tells shutdownProcessRemainingTasks when to return.     *)
(*                                                                         *)
(* The five strategies that are not streamed differ only in how the arena  *)
(* splits a vector.  Of oneTBB the model assumes that arena_.execute       *)
(* returns when every task of the vector has run, and that the exception   *)
(* of a task cancels the tasks not yet begun and comes out of execute.     *)
(* Vectors are sets: the arena fixes no order.                             *)
(***************************************************************************)
EXTENDS Naturals, FiniteSets, Functions

CONSTANTS
    Callers,            \* the threads that use the wrapper
    Tasks,
    Strategies,         \* the strategies they use
    maxQueueSize,       \* 0 admits everything
    flushBatchSize,     \* 64 in the code
    MayThrow,           \* can a task throw?
    VectorBound         \* bound of the model: the longest vector handed over

Streamed == {"TASK_GROUP_BATCHED_STREAMED", "TASK_GROUP_BATCHED_STREAMED_AFFINITY"}
Direct == {"BULK_PARALLEL_AUTO", "BULK_PARALLEL_AFFINITY", "BULK_PARALLEL_STATIC",
           "TASK_GROUP", "TASK_GROUP_BATCHED"}

ASSUME WrapperAssumption ==
    /\ IsFiniteSet(Callers) /\ IsFiniteSet(Tasks) /\ Tasks \subseteq Nat
    /\ Strategies \subseteq Streamed \cup Direct
    /\ maxQueueSize \in Nat
    /\ flushBatchSize \in Nat \ {0}
    /\ MayThrow \in BOOLEAN
    /\ VectorBound \in Nat \ {0}

\* A name ending in Bug is a mistake no specification uses: it shows that a
\* property notices it.

VARIABLES
    queueSize,          \* queueSize_
    buffer,             \* the thread_local buffer of each streamed function, per thread
    pc,                 \* where each thread is in its call
    tasks,              \* the parameter tasks of that call
    strategy,           \* and its parameter strategy
    batch,              \* what the arena has yet to run for it
    taskCount,          \* what it subtracts when the arena has finished
    accepted,           \* ghost: the tasks counted as admitted
    executed,           \* ghost: how often each task has run
    dropped,            \* ghost: the tasks cancelled by an exception
    leaked              \* ghost: the part of queueSize nothing will subtract

callvars == <<pc, tasks, strategy, batch, taskCount>>
ghosts == <<accepted, executed, dropped, leaked>>
vars == <<queueSize, buffer, callvars, ghosts>>

Init ==
    /\ queueSize = 0
    /\ buffer = [c \in Callers |-> [s \in Streamed |-> {}]]
    /\ pc = [c \in Callers |-> "idle"]
    /\ tasks = [c \in Callers |-> {}]
    /\ strategy = [c \in Callers |-> "none"]
    /\ batch = [c \in Callers |-> {}]
    /\ taskCount = [c \in Callers |-> 0]
    /\ accepted = {}
    /\ executed = [task \in Tasks |-> 0]
    /\ dropped = {}
    /\ leaked = 0

-----------------------------------------------------------------------------
GoTo(c, label) == pc' = [pc EXCEPT ![c] = label]

Returns(c) ==
    /\ GoTo(c, "idle")
    /\ tasks' = [tasks EXCEPT ![c] = {}]
    /\ strategy' = [strategy EXCEPT ![c] = "none"]
    /\ taskCount' = [taskCount EXCEPT ![c] = 0]

\* Tasks a caller can still hand over: not admitted and in nobody's vector.
Fresh == Tasks \ (accepted \cup (UNION {tasks[c] : c \in Callers}))

\* A vector without tasks is answered true at once and changes nothing.
\* Tasks differ in nothing but their number, so a vector takes the lowest.
CallTryEnqueue(c) ==
    /\ pc[c] = "idle"
    /\ \E S \in SUBSET Fresh, s \in Strategies :
           /\ Cardinality(S) \in 1 .. VectorBound
           /\ \A mine \in S, other \in Fresh \ S : mine < other
           /\ tasks' = [tasks EXCEPT ![c] = S]
           /\ strategy' = [strategy EXCEPT ![c] = s]
    /\ GoTo(c, "tryEnqueue")
    /\ UNCHANGED <<queueSize, buffer, batch, taskCount, ghosts>>

ReadQueueSizeBug(c) ==                          \* tests the counter alone
    /\ pc[c] = "tryEnqueue"
    /\ IF maxQueueSize # 0 /\ queueSize > maxQueueSize
         THEN Returns(c) ELSE GoTo(c, "admitted") /\ UNCHANGED <<tasks, strategy, taskCount>>
    /\ UNCHANGED <<queueSize, buffer, batch, ghosts>>

ReadQueueSize(c) ==
    /\ pc[c] = "tryEnqueue"
    /\ IF maxQueueSize # 0 /\ queueSize + Cardinality(tasks[c]) > maxQueueSize
         THEN Returns(c) ELSE GoTo(c, "admitted") /\ UNCHANGED <<tasks, strategy, taskCount>>
    /\ UNCHANGED <<queueSize, buffer, batch, ghosts>>

ToArena(c, S) ==
    /\ batch' = [batch EXCEPT ![c] = S]
    /\ taskCount' = [taskCount EXCEPT ![c] = Cardinality(S)]
    /\ GoTo(c, "arena")
    /\ UNCHANGED <<tasks, strategy>>

AdmitBug(c) ==                                  \* counts after the arena is done
    /\ pc[c] = "admitted"
    /\ accepted' = accepted \cup tasks[c]
    /\ IF strategy[c] \in Direct
         THEN ToArena(c, tasks[c])
         ELSE GoTo(c, "streamed") /\ UNCHANGED <<tasks, strategy, batch, taskCount>>
    /\ queueSize' = IF strategy[c] \in Streamed THEN queueSize + Cardinality(tasks[c])
                                                 ELSE queueSize
    /\ UNCHANGED <<buffer, executed, dropped, leaked>>

\* queueSize_.fetch_add, and on to the function of the strategy.
Admit(c) ==
    /\ pc[c] = "admitted"
    /\ queueSize' = queueSize + Cardinality(tasks[c])
    /\ accepted' = accepted \cup tasks[c]
    /\ IF strategy[c] \in Direct
         THEN ToArena(c, tasks[c])
         ELSE GoTo(c, "streamed") /\ UNCHANGED <<tasks, strategy, batch, taskCount>>
    /\ UNCHANGED <<buffer, executed, dropped, leaked>>

-----------------------------------------------------------------------------
(* The streamed strategies: a vector longer than flushBatchSize goes to    *)
(* the arena, a shorter one into the buffer of its thread, and the buffer  *)
(* goes to the arena when it is long enough.  Both ways count the tasks a  *)
(* second time.                                                            *)
Accumulated(c) == buffer[c][strategy[c]] \cup tasks[c]

StreamLarge(c) ==
    /\ pc[c] = "streamed"
    /\ Cardinality(tasks[c]) > flushBatchSize
    /\ queueSize' = queueSize + Cardinality(tasks[c])
    /\ ToArena(c, tasks[c])
    /\ UNCHANGED <<buffer, ghosts>>

Accumulate(c) ==
    /\ pc[c] = "streamed"
    /\ Cardinality(Accumulated(c)) < flushBatchSize
    /\ buffer' = [buffer EXCEPT ![c][strategy[c]] = Accumulated(c)]
    /\ Returns(c)
    /\ UNCHANGED <<queueSize, batch, ghosts>>

FlushBatchBug(c) ==                             \* a copy instead of the swap
    /\ pc[c] = "streamed"
    /\ Cardinality(tasks[c]) <= flushBatchSize
    /\ Cardinality(Accumulated(c)) >= flushBatchSize
    /\ buffer' = [buffer EXCEPT ![c][strategy[c]] = Accumulated(c)]
    /\ queueSize' = queueSize + Cardinality(Accumulated(c))
    /\ ToArena(c, Accumulated(c))
    /\ UNCHANGED ghosts

FlushBatch(c) ==
    /\ pc[c] = "streamed"
    /\ Cardinality(tasks[c]) <= flushBatchSize
    /\ Cardinality(Accumulated(c)) >= flushBatchSize
    /\ buffer' = [buffer EXCEPT ![c][strategy[c]] = {}]
    /\ queueSize' = queueSize + Cardinality(Accumulated(c))
    /\ ToArena(c, Accumulated(c))
    /\ UNCHANGED ghosts

-----------------------------------------------------------------------------
\* Streamed tasks were added to queueSize twice and are subtracted once.
SecondCount(c) == IF strategy[c] \in Streamed THEN taskCount[c] ELSE 0

Run(task) == executed' = [executed EXCEPT ![task] = @ + 1]

RunTask(c) ==
    /\ pc[c] = "arena"
    /\ \E task \in batch[c] :
           /\ Run(task)
           /\ batch' = [batch EXCEPT ![c] = @ \ {task}]
    /\ UNCHANGED <<queueSize, buffer, pc, tasks, strategy, taskCount, accepted, dropped, leaked>>

\* A task that throws: the rest of the batch is dropped, the exception
\* leaves tryEnqueue, and nothing is subtracted.
TaskThrows(c) ==
    /\ MayThrow
    /\ pc[c] = "arena"
    /\ \E task \in batch[c] :
           /\ Run(task)
           /\ dropped' = dropped \cup (batch[c] \ {task})
    /\ leaked' = leaked + taskCount[c] + SecondCount(c)
    /\ batch' = [batch EXCEPT ![c] = {}]
    /\ Returns(c)
    /\ UNCHANGED <<queueSize, buffer, accepted>>

FinishArenaBug(c) ==                            \* does not wait for the group
    /\ pc[c] = "arena"
    /\ queueSize' = queueSize - taskCount[c]
    /\ Returns(c)
    /\ UNCHANGED <<buffer, batch, ghosts>>

FinishArenaLeakBug(c) ==                        \* without the fetch_sub
    /\ pc[c] = "arena"
    /\ batch[c] = {}
    /\ Returns(c)
    /\ UNCHANGED <<queueSize, buffer, batch, ghosts>>

FinishArena(c) ==
    /\ pc[c] = "arena"
    /\ batch[c] = {}
    /\ queueSize' = queueSize - taskCount[c]
    /\ Returns(c)
    /\ leaked' = leaked + SecondCount(c)
    /\ UNCHANGED <<buffer, batch, accepted, executed, dropped>>

-----------------------------------------------------------------------------
(* shutdownProcessRemainingTasks: a call of flush_streamed_tasks, then a   *)
(* loop that spins on queueSize_.  The buffer flush_streamed_tasks looks   *)
(* at is a static variable of its own: nothing is ever inserted into it,   *)
(* so it is empty and the call returns at once.                            *)
FlushStreamedTasks == UNCHANGED <<queueSize, buffer, batch, taskCount>>

CallShutdown(c) ==
    /\ pc[c] = "idle"
    /\ FlushStreamedTasks
    /\ GoTo(c, "drain")
    /\ UNCHANGED <<tasks, strategy, ghosts>>

DrainEnds(c) ==
    /\ pc[c] = "drain"
    /\ queueSize = 0
    /\ GoTo(c, "idle")
    /\ UNCHANGED <<queueSize, buffer, tasks, strategy, batch, taskCount, ghosts>>

CallStep(c) ==
    \/ ReadQueueSize(c) \/ Admit(c)
    \/ StreamLarge(c) \/ Accumulate(c) \/ FlushBatch(c)
    \/ RunTask(c) \/ TaskThrows(c) \/ FinishArena(c)
    \/ DrainEnds(c)

Next ==
    \E c \in Callers : CallTryEnqueue(c) \/ CallShutdown(c) \/ CallStep(c)

(* Fairness: threads that can go on do, the arena runs what it was given,  *)
(* and tasks end.                                                          *)
Spec == Init /\ [][Next]_vars /\ \A c \in Callers : WF_vars(CallStep(c))

-----------------------------------------------------------------------------
\* The state is well typed; in particular the unsigned queueSize_ is never
\* taken below zero by the arenas that finish.
TypeOK ==
    /\ queueSize \in Nat
    /\ buffer \in [Callers -> [Streamed -> SUBSET Tasks]]
    /\ pc \in [Callers -> {"idle", "tryEnqueue", "admitted", "streamed", "arena", "drain"}]
    /\ tasks \in [Callers -> SUBSET Tasks]
    /\ strategy \in [Callers -> Strategies \cup {"none"}]
    /\ batch \in [Callers -> SUBSET Tasks]
    /\ taskCount \in [Callers -> Nat]
    /\ accepted \subseteq Tasks /\ dropped \subseteq Tasks
    /\ executed \in [Tasks -> Nat]
    /\ leaked \in Nat

\* What was admitted and has neither run nor been cancelled by an exception.
Unfinished == {task \in accepted \ dropped : executed[task] = 0}

\* A streamed task passes through the buffer of its thread and a batch that
\* is swapped out of it, and still runs no more than once.
NothingRunsTwice == \A task \in Tasks : executed[task] <= 1

\* tryEnqueue reads queueSize_, compares and adds in separate steps, so every
\* thread may be admitted on the same reading; and the streamed strategies add
\* once more what they hand to the arena, and subtract it once.  The counter
\* exceeds maxQueueSize_ by this, but however threads race, batches accumulate
\* and exceptions leave it too high, never beyond twice the maximum for each
\* thread (oneTBB_Wrapper.h:228-232, :91, :118, :140, :167).
OvershootIsBounded ==
    maxQueueSize # 0 => queueSize <= 2 * Cardinality(Callers) * maxQueueSize

\* shutdownProcessRemainingTasks returns only when everything admitted, by
\* any thread and any strategy, has run; tasks buffered by a thread count.
ShutdownFindsAllDone ==
    [][\A c \in Callers : pc[c] = "drain" /\ pc'[c] = "idle" => Unfinished = {}]_vars

\* shutdownProcessRemainingTasks returns, except when streamed tasks or an
\* exception have left queueSize_ too high or a buffer holds tasks.
ShutdownReturns ==
    \A c \in Callers :
        pc[c] = "drain" ~>
            \/ pc[c] = "idle"
            \/ leaked > 0
            \/ \E d \in Callers, s \in Streamed : buffer[d][s] # {}

\* "Flush any partial batches in this thread": what a thread has accumulated
\* is run when it calls shutdownProcessRemainingTasks.  It is not.
ShutdownFlushesOwnBuffer ==
    \A c \in Callers : pc[c] = "drain" ~> \A s \in Streamed : buffer[c][s] = {}
=============================================================================
