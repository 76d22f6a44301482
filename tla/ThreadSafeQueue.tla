-------------------------- MODULE ThreadSafeQueue --------------------------
(***************************************************************************)
(* The bounded blocking queue of ThreadSafeQueue.h: a deque under one      *)
(* mutex, a condition variable for each side and an atomic copy of the     *)
(* length.  This module holds the queue's state and its operations;        *)
(* QueueClients and ThreadPool compose them with the threads that call     *)
(* them.                                                                   *)
(*                                                                         *)
(* Every operator below is one critical section: what a thread does from   *)
(* the moment it holds _mutex until it releases it or goes to sleep on a   *)
(* condition variable.  Nobody else can observe the middle of a section,   *)
(* except _size, which lock-free readers may see before or after the       *)
(* section with the same effect.  A condition variable is the set of the   *)
(* threads asleep on it; a thread that is in a blocking call and in no     *)
(* wait set is about to take the mutex and evaluate its predicate.         *)
(*                                                                         *)
(* A definition whose name ends in Bug is never used by a specification:   *)
(* it is the definition after it with a mistake one could make in the      *)
(* code, kept to show that some property notices the mistake.              *)
(***************************************************************************)
EXTENDS Naturals, Sequences

CONSTANT MaxSize        \* _maxSize; 0 is an unbounded queue

VARIABLES
    queue,              \* _queue, front first
    size,               \* _size
    shutdown,           \* _shutdown
    cv,                 \* threads asleep on _cv (consumers)
    cvFull              \* threads asleep on _cvFull (producers)

qvars == <<queue, size, shutdown, cv, cvFull>>

ASSUME MaxSizeAssumption == MaxSize \in Nat

QInit ==
    /\ queue = <<>>
    /\ size = 0
    /\ shutdown = FALSE
    /\ cv = {}
    /\ cvFull = {}

QTypeOK(Items, Threads) ==
    /\ queue \in Seq(Items)
    /\ size \in Nat
    /\ shutdown \in BOOLEAN
    /\ cv \subseteq Threads
    /\ cvFull \subseteq Threads

-----------------------------------------------------------------------------
FullBug == MaxSize # 0 /\ Len(queue) > MaxSize       \* off by one

Full == MaxSize # 0 /\ Len(queue) >= MaxSize

\* The wait sets that notify_one can leave: it wakes any one sleeper, if any.
NotifyOne(waiting) ==
    {rest \in SUBSET waiting :
        waiting = {} \/ \E t \in waiting : rest = waiting \ {t}}

EnqueueBug(item) ==
    /\ queue' = Append(queue, item)
    /\ size' = size + 1
    /\ UNCHANGED <<shutdown, cv, cvFull>>       \* no notify_one

Enqueue(item) ==
    /\ queue' = Append(queue, item)
    /\ size' = size + 1
    /\ cv' \in NotifyOne(cv)
    /\ UNCHANGED <<shutdown, cvFull>>

DequeueSilentBug ==
    /\ queue' = Tail(queue)
    /\ size' = size - 1
    /\ UNCHANGED <<shutdown, cv, cvFull>>       \* no notify_one

DequeueCopyBug ==                               \* no pop_front
    /\ cvFull' \in NotifyOne(cvFull)
    /\ UNCHANGED <<queue, size, shutdown, cv>>

Dequeue ==
    /\ queue' = Tail(queue)
    /\ size' = size - 1
    /\ cvFull' \in NotifyOne(cvFull)
    /\ UNCHANGED <<shutdown, cv>>

-----------------------------------------------------------------------------
(* tryPush reads the atomic _shutdown before it takes the mutex and does   *)
(* not read it again inside, so it is two steps.                           *)
TryPushMayEnter == ~shutdown

TryPushAccepts(item) == ~Full /\ Enqueue(item)

TryPushRefuses == Full /\ UNCHANGED qvars

(* push: t sleeps, gives up because of the shutdown, or appends.           *)
PushSleeps(t) ==
    /\ ~shutdown /\ Full
    /\ cvFull' = cvFull \cup {t}
    /\ UNCHANGED <<queue, size, shutdown, cv>>

PushDrops == shutdown /\ UNCHANGED qvars

PushAccepts(item) == ~shutdown /\ ~Full /\ Enqueue(item)

(* waitPop, and waitPopFor until its timeout.                              *)
PopSleepsBug(t) ==                              \* waits on the wrong variable
    /\ ~shutdown /\ queue = <<>>
    /\ cvFull' = cvFull \cup {t}
    /\ UNCHANGED <<queue, size, shutdown, cv>>

PopSleepsClosedBug(t) ==                        \* predicate without _shutdown
    /\ queue = <<>>
    /\ cv' = cv \cup {t}
    /\ UNCHANGED <<queue, size, shutdown, cvFull>>

PopSleeps(t) ==
    /\ ~shutdown /\ queue = <<>>
    /\ cv' = cv \cup {t}
    /\ UNCHANGED <<queue, size, shutdown, cvFull>>

PopFindsClosedBug == shutdown /\ UNCHANGED qvars    \* leaves items behind

PopFindsClosed == shutdown /\ queue = <<>> /\ UNCHANGED qvars

PopTakes(item) == queue # <<>> /\ item = Head(queue) /\ Dequeue

(* waitPopFor whose time is up when it evaluates its predicate last.       *)
PopTimesOut(t) ==
    /\ ~shutdown /\ queue = <<>>
    /\ cv' = cv \ {t}
    /\ UNCHANGED <<queue, size, shutdown, cvFull>>

TryPopRefuses == queue = <<>> /\ UNCHANGED qvars

(* A spurious wakeup, which the standard allows, or a timed wait that ends *)
(* before its notification.                                                *)
WakesUp(t) ==
    \/ t \in cv /\ cv' = cv \ {t} /\ UNCHANGED <<queue, size, shutdown, cvFull>>
    \/ t \in cvFull /\ cvFull' = cvFull \ {t} /\ UNCHANGED <<queue, size, shutdown, cv>>

SeesEmpty == size = 0

CloseQueueBug ==                                \* notify_one for notify_all
    /\ shutdown' = TRUE
    /\ cv' \in NotifyOne(cv)
    /\ cvFull' = {}
    /\ UNCHANGED <<queue, size>>

CloseQueue ==
    /\ shutdown' = TRUE
    /\ cv' = {}
    /\ cvFull' = {}
    /\ UNCHANGED <<queue, size>>

ClearQueueBug ==                                \* _size is not reset
    /\ queue' = <<>>
    /\ UNCHANGED <<size, shutdown, cv, cvFull>>

ClearQueueKeepsBug ==                           \* _queue is not cleared
    /\ size' = 0
    /\ UNCHANGED <<queue, shutdown, cv, cvFull>>

ClearQueue ==
    /\ queue' = <<>>
    /\ size' = 0
    /\ UNCHANGED <<shutdown, cv, cvFull>>

-----------------------------------------------------------------------------
(* The lock-free length is the length of the deque whenever no section is  *)
(* under way: every path that changes _queue keeps _size in step, clear    *)
(* and the four pops included.  The drain loop of                          *)
(* shutdownProcessRemainingTasks relies on it.                             *)
SizeAgrees == size = Len(queue)

(* A bounded queue never holds more than _maxSize items, whichever of push *)
(* and tryPush the producers mix.                                          *)
WithinCapacity == MaxSize # 0 => Len(queue) <= MaxSize

(* After shutdown() nobody is asleep on either condition variable, and     *)
(* nobody falls asleep again: the predicates of both waits read _shutdown  *)
(* under the mutex that shutdown() holds when it notifies.                 *)
NobodySleepsAfterShutdown == shutdown => cv = {} /\ cvFull = {}
=============================================================================
