---------------------------- MODULE QueueClients ----------------------------
(***************************************************************************)
(* The queue of ThreadSafeQueue.h in the hands of threads that call any    *)
(* of its operations at any time.                                          *)
(***************************************************************************)
EXTENDS ThreadSafeQueue, FiniteSets

CONSTANTS
    Producers, Consumers,   \* threads that push, threads that pop
    Items,                  \* the values pushed
    LengthBound             \* bound of the model: no push begins on a queue this long

ASSUME ThreadsAssumption ==
    /\ IsFiniteSet(Producers) /\ IsFiniteSet(Consumers)
    /\ Producers \cap Consumers = {}
    /\ LengthBound \in Nat \ {0}

VARIABLES
    pc,                     \* the call each thread is in, "idle" between calls
    arg,                    \* the value a producer passed to its call
    cleared                 \* has anybody called clear()?

vars == <<queue, size, shutdown, cv, cvFull, pc, arg, cleared>>

Threads == Producers \cup Consumers

ProducerPCs == {"idle", "push", "tryPush", "tryPush locked"}
ConsumerPCs == {"idle", "waitPop", "waitPopFor"}

Init ==
    /\ QInit
    /\ pc = [t \in Threads |-> "idle"]
    /\ arg \in [Producers -> Items]
    /\ cleared = FALSE

TypeOK ==
    /\ QTypeOK(Items, Threads)
    /\ cv \subseteq Consumers
    /\ cvFull \subseteq Producers
    /\ pc \in [Threads -> ProducerPCs \cup ConsumerPCs]
    /\ \A p \in Producers : pc[p] \in ProducerPCs
    /\ \A c \in Consumers : pc[c] \in ConsumerPCs
    /\ arg \in [Producers -> Items]
    /\ cleared \in BOOLEAN

Awake(t) == t \notin cv \cup cvFull

GoTo(t, label) == pc' = [pc EXCEPT ![t] = label]

Returns(t) == GoTo(t, "idle")

-----------------------------------------------------------------------------
Calls(t, operation) ==
    /\ pc[t] = "idle"
    /\ GoTo(t, operation)
    /\ UNCHANGED qvars

CallPush(p) ==
    /\ Len(queue) < LengthBound
    /\ \E operation \in {"push", "tryPush"} : Calls(p, operation)
    /\ \E item \in Items : arg' = [arg EXCEPT ![p] = item]
    /\ UNCHANGED cleared

CallPop(c) ==
    /\ \E operation \in {"waitPop", "waitPopFor"} : Calls(c, operation)
    /\ UNCHANGED <<arg, cleared>>

Push(p) ==
    /\ pc[p] = "push" /\ Awake(p)
    /\ \/ PushSleeps(p) /\ UNCHANGED pc
       \/ PushDrops /\ Returns(p)
       \/ PushAccepts(arg[p]) /\ Returns(p)
    /\ UNCHANGED <<arg, cleared>>

TryPushEntry(p) ==
    /\ pc[p] = "tryPush"
    /\ GoTo(p, IF TryPushMayEnter THEN "tryPush locked" ELSE "idle")
    /\ UNCHANGED <<qvars, arg, cleared>>

TryPushLocked(p) ==
    /\ pc[p] = "tryPush locked"
    /\ TryPushRefuses \/ TryPushAccepts(arg[p])
    /\ Returns(p)
    /\ UNCHANGED <<arg, cleared>>

WaitPop(c) ==
    /\ pc[c] \in {"waitPop", "waitPopFor"} /\ Awake(c)
    /\ \/ PopSleeps(c) /\ UNCHANGED pc
       \/ PopFindsClosed /\ Returns(c)
       \/ \E item \in Items : PopTakes(item) /\ Returns(c)
    /\ UNCHANGED <<arg, cleared>>

WaitPopForTimeout(c) ==
    /\ pc[c] = "waitPopFor"
    /\ PopTimesOut(c)
    /\ Returns(c)
    /\ UNCHANGED <<arg, cleared>>

(* The calls that take the mutex once and never wait are one step.         *)
TryPop(c) ==
    /\ pc[c] = "idle"
    /\ TryPopRefuses \/ \E item \in Items : PopTakes(item)
    /\ UNCHANGED <<pc, arg, cleared>>

Spurious(t) == WakesUp(t) /\ UNCHANGED <<pc, arg, cleared>>

Shutdown == CloseQueue /\ UNCHANGED <<pc, arg, cleared>>

Clear == ClearQueue /\ cleared' = TRUE /\ UNCHANGED <<pc, arg>>

ProducerStep(p) == Push(p) \/ TryPushEntry(p) \/ TryPushLocked(p)

Next ==
    \/ \E p \in Producers : CallPush(p) \/ ProducerStep(p)
    \/ \E c \in Consumers : CallPop(c) \/ WaitPop(c) \/ WaitPopForTimeout(c) \/ TryPop(c)
    \/ \E t \in Threads : Spurious(t)
    \/ Shutdown
    \/ Clear

(* Fairness: a thread that stands before the mutex gets it in the end.     *)
(* Nothing is assumed of timeouts, spurious wakeups or new calls.          *)
Fairness ==
    /\ \A p \in Producers : WF_vars(ProducerStep(p))
    /\ \A c \in Consumers : WF_vars(WaitPop(c))

Spec == Init /\ [][Next]_vars /\ Fairness

-----------------------------------------------------------------------------
Poppers == {c \in Consumers : pc[c] \in {"waitPop", "waitPopFor"}}

(* No wakeup of a consumer is lost: while one sleeps on _cv, every item in *)
(* the queue has an awake consumer in a pop of its own to take it.  It     *)
(* would fail if an item were added without a notification, or if a        *)
(* notified consumer could leave waitPopFor without its item.              *)
NoLostWakeup ==
    cv # {} => Len(queue) <= Cardinality(Poppers \ cv)

Pushers == {p \in Producers : pc[p] = "push"}

(* No wakeup of a producer is lost: while one sleeps on _cvFull, every     *)
(* free slot has an awake producer in push, as long as nobody has called   *)
(* clear(), which frees every slot and notifies nobody.                    *)
NoStrandedProducer ==
    ~cleared /\ cvFull # {} => MaxSize <= Len(queue) + Cardinality(Pushers \ cvFull)

(* What tryPush promises: it checks whether the queue "is full (if bounded)  *)
(* or in shutdown state and returns false immediately in those cases"      *)
(* (ThreadSafeQueue.h:95-96, and :102 "false if the queue is full or        *)
(* shutting down").  The mutex protects _shutdown (:51), so a call that     *)
(* appends must not do it to a queue that has been shut down.  The code    *)
(* tests _shutdown before it takes the mutex (:106-108).                   *)
TryPushRefusesWhenClosed ==
    [][\A p \in Producers :
           shutdown /\ pc[p] = "tryPush locked" /\ pc'[p] = "idle" => queue' = queue]_vars

(* How far the code stays behind that promise: once shutdown() has run,    *)
(* the calls of tryPush that had passed their test of _shutdown may still  *)
(* append, one item each, and nobody else does: no push and no later       *)
(* tryPush gets through.                                                   *)
PastTest == {p \in Producers : pc[p] = "tryPush locked"}
OnlyLateTryPushAfterShutdown ==
    [][shutdown => /\ shutdown'
                   /\ PastTest' \subseteq PastTest
                   /\ Len(queue') > Len(queue) =>
                          Cardinality(PastTest') < Cardinality(PastTest)]_vars

(* After shutdown() every call in progress returns: nobody is left asleep  *)
(* and every predicate lets its thread out.                                *)
CallsReturnAfterShutdown ==
    \A t \in Threads : (shutdown /\ pc[t] # "idle") ~> (pc[t] = "idle")

(* The queue of ThreadSafeQueue.h implements the awaiting queue, with its  *)
(* promise that a blocked caller whose condition holds is not forgotten.   *)
Await ==
    INSTANCE AwaitQueue WITH
        Capacity <- MaxSize,
        buffer <- queue,
        closed <- shutdown,
        emptied <- cleared,
        calls <- [t \in Threads |->
                    IF pc[t] = "tryPush locked" THEN "tryPush" ELSE pc[t]]

ImplementsAwaitQueue == Await!ASpec
=============================================================================
