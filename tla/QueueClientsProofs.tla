------------------------- MODULE QueueClientsProofs -------------------------
(***************************************************************************)
(* Theorems about the queue of ThreadSafeQueue.h under any number of       *)
(* producers and consumers and for any capacity.                           *)
(***************************************************************************)
EXTENDS QueueClients, CountingLemmas, SequenceTheorems, TLAPS

(* notify_one takes at most one sleeper away and adds none.                *)
LEMMA NotifyOneFacts ==
    ASSUME NEW W, NEW rest \in NotifyOne(W)
    PROVE  /\ rest \subseteq W
           /\ W = {} => rest = {}
           /\ W # {} => \E t \in W : rest = W \ {t}
BY DEF NotifyOne

-----------------------------------------------------------------------------
(* TypeOK is inductive only with SizeAgrees: size - 1 is a natural number  *)
(* because a thread that takes an item has found the queue non-empty.      *)
TypeInv == TypeOK /\ SizeAgrees

LEMMA TypeInvInit == Init => TypeInv
<1> SUFFICES ASSUME Init PROVE TypeInv
  OBVIOUS
<1>1. QTypeOK(Items, Threads) /\ SizeAgrees /\ cv = {} /\ cvFull = {}
  BY EmptySeq DEF Init, QInit, QTypeOK, SizeAgrees
<1>2. pc = [t \in Threads |-> "idle"] /\ arg \in [Producers -> Items] /\ cleared = FALSE
  BY DEF Init
<1> QED
  BY <1>1, <1>2 DEF TypeInv, TypeOK, ProducerPCs, ConsumerPCs, Threads

(* What the two sections that change the length do to the queue's state.   *)
LEMMA EnqueueTypes ==
    ASSUME TypeInv, NEW item \in Items, Enqueue(item)
    PROVE  /\ QTypeOK(Items, Threads)' /\ SizeAgrees'
           /\ cv' \subseteq cv /\ cvFull' = cvFull
           /\ Len(queue') = Len(queue) + 1
BY NotifyOneFacts DEF TypeInv, TypeOK, QTypeOK, SizeAgrees, Enqueue

LEMMA DequeueTypes ==
    ASSUME TypeInv, queue # <<>>, Dequeue
    PROVE  /\ QTypeOK(Items, Threads)' /\ SizeAgrees'
           /\ cv' = cv /\ cvFull' \subseteq cvFull
           /\ Len(queue') = Len(queue) - 1
           /\ Head(queue) \in Items
BY NotifyOneFacts DEF TypeInv, TypeOK, QTypeOK, SizeAgrees, Dequeue

LEMMA TypeInvStep == TypeInv /\ [Next]_vars => TypeInv'
<1> SUFFICES ASSUME TypeInv, [Next]_vars PROVE TypeInv'
  OBVIOUS
<1> USE DEF TypeInv, ProducerPCs, ConsumerPCs, Threads, GoTo, Returns, Awake
<1>1. ASSUME NEW p \in Producers, CallPush(p) PROVE TypeInv'
  <2>1. PICK operation \in {"push", "tryPush"} : pc' = [pc EXCEPT ![p] = operation]
    BY <1>1 DEF CallPush, Calls
  <2>2. UNCHANGED <<qvars, cleared>>
    BY <1>1 DEF CallPush, Calls
  <2>3. arg' \in [Producers -> Items]
    <3>1. arg \in [Producers -> Items]
      BY DEF TypeOK
    <3>2. PICK item \in Items : arg' = [arg EXCEPT ![p] = item]
      BY <1>1 DEF CallPush
    <3> QED BY <3>1, <3>2
  <2> QED BY <2>1, <2>2, <2>3, ThreadsAssumption DEF TypeOK, QTypeOK, SizeAgrees, qvars
<1>2. ASSUME NEW p \in Producers, Push(p) PROVE TypeInv'
  <2>1. CASE PushSleeps(p) /\ UNCHANGED <<pc, arg, cleared>>
    BY <2>1 DEF PushSleeps, TypeOK, QTypeOK, SizeAgrees
  <2>2. CASE PushDrops /\ Returns(p) /\ UNCHANGED <<arg, cleared>>
    BY <2>2 DEF PushDrops, TypeOK, QTypeOK, SizeAgrees, qvars
  <2>3. CASE PushAccepts(arg[p]) /\ Returns(p) /\ UNCHANGED <<arg, cleared>>
    BY <2>3, EnqueueTypes DEF PushAccepts, TypeOK
  <2> QED BY <1>2, <2>1, <2>2, <2>3 DEF Push
<1>3. ASSUME NEW p \in Producers, TryPushEntry(p) PROVE TypeInv'
  BY <1>3 DEF TryPushEntry, TypeOK, QTypeOK, SizeAgrees, qvars
<1>4. ASSUME NEW p \in Producers, TryPushLocked(p) PROVE TypeInv'
  <2>1. CASE TryPushRefuses /\ Returns(p) /\ UNCHANGED <<arg, cleared>>
    BY <2>1 DEF TryPushRefuses, TypeOK, QTypeOK, SizeAgrees, qvars
  <2>2. CASE TryPushAccepts(arg[p]) /\ Returns(p) /\ UNCHANGED <<arg, cleared>>
    BY <2>2, EnqueueTypes DEF TryPushAccepts, TypeOK
  <2> QED BY <1>4, <2>1, <2>2 DEF TryPushLocked
<1>5. ASSUME NEW c \in Consumers, CallPop(c) PROVE TypeInv'
  <2>1. PICK operation \in {"waitPop", "waitPopFor"} : pc' = [pc EXCEPT ![c] = operation]
    BY <1>5 DEF CallPop, Calls
  <2>2. UNCHANGED <<qvars, arg, cleared>>
    BY <1>5 DEF CallPop, Calls
  <2> QED BY <2>1, <2>2, ThreadsAssumption DEF TypeOK, QTypeOK, SizeAgrees, qvars
<1>6. ASSUME NEW c \in Consumers, WaitPop(c) PROVE TypeInv'
  <2>1. CASE PopSleeps(c) /\ UNCHANGED <<pc, arg, cleared>>
    BY <2>1 DEF PopSleeps, TypeOK, QTypeOK, SizeAgrees
  <2>2. CASE PopFindsClosed /\ Returns(c) /\ UNCHANGED <<arg, cleared>>
    BY <2>2 DEF PopFindsClosed, TypeOK, QTypeOK, SizeAgrees, qvars
  <2>3. CASE (\E item \in Items : PopTakes(item)) /\ Returns(c) /\ UNCHANGED <<arg, cleared>>
    BY <2>3, DequeueTypes DEF PopTakes, TypeOK
  <2> QED BY <1>6, <2>1, <2>2, <2>3 DEF WaitPop
<1>7. ASSUME NEW c \in Consumers, WaitPopForTimeout(c) PROVE TypeInv'
  BY <1>7 DEF WaitPopForTimeout, PopTimesOut, TypeOK, QTypeOK, SizeAgrees
<1>8. ASSUME NEW c \in Consumers, TryPop(c) PROVE TypeInv'
  <2>1. CASE TryPopRefuses /\ UNCHANGED <<pc, arg, cleared>>
    BY <2>1 DEF TryPopRefuses, TypeOK, QTypeOK, SizeAgrees, qvars
  <2>2. CASE (\E item \in Items : PopTakes(item)) /\ UNCHANGED <<pc, arg, cleared>>
    BY <2>2, DequeueTypes DEF PopTakes, TypeOK
  <2> QED BY <1>8, <2>1, <2>2 DEF TryPop
<1>9. ASSUME NEW t \in Threads, Spurious(t) PROVE TypeInv'
  BY <1>9 DEF Spurious, WakesUp, TypeOK, QTypeOK, SizeAgrees
<1>10. ASSUME Shutdown PROVE TypeInv'
  BY <1>10 DEF Shutdown, CloseQueue, TypeOK, QTypeOK, SizeAgrees
<1>11. ASSUME Clear PROVE TypeInv'
  BY <1>11, EmptySeq DEF Clear, ClearQueue, TypeOK, QTypeOK, SizeAgrees
<1>12. CASE UNCHANGED vars
  BY <1>12 DEF vars, TypeOK, QTypeOK, SizeAgrees
<1> QED
  BY <1>1, <1>2, <1>3, <1>4, <1>5, <1>6, <1>7, <1>8, <1>9, <1>10, <1>11, <1>12
  DEF Next, ProducerStep

(* Type correctness, and the lock-free length is the length of the deque,  *)
(* for any threads and any capacity.                                       *)
THEOREM TypeCorrect == Spec => [](TypeOK /\ SizeAgrees)
<1>1. Spec => []TypeInv
  BY TypeInvInit, TypeInvStep, PTL DEF Spec
<1> QED
  BY <1>1, PTL DEF TypeInv

(* The lock-free length is right whenever no section is under way, for any *)
(* threads and any capacity, clear() included.                             *)
THEOREM SizeIsRight == Spec => []SizeAgrees
<1> QED
  BY TypeCorrect, PTL
-----------------------------------------------------------------------------
(* A thread asleep on a condition variable is inside the call that waits   *)
(* on it: it has not returned, so waking it brings it back to its test.    *)
SleepersInCalls == cv \subseteq Poppers /\ cvFull \subseteq Pushers

SleepInv ==
    /\ TypeInv
    /\ SleepersInCalls
    /\ NobodySleepsAfterShutdown
    /\ WithinCapacity

LEMMA SleepInvInit == Init => SleepInv
BY TypeInvInit, EmptySeq, MaxSizeAssumption
DEF Init, QInit, SleepInv, SleepersInCalls, NobodySleepsAfterShutdown, WithinCapacity,
    TypeInv, SizeAgrees

(* What each action does to the sleepers, the callers and the length.      *)
LEMMA SleepInvStep == SleepInv /\ [Next]_vars => SleepInv'
<1> SUFFICES ASSUME SleepInv, [Next]_vars PROVE SleepInv'
  OBVIOUS
<1>0. TypeInv'
  BY TypeInvStep DEF SleepInv
<1> USE MaxSizeAssumption, ThreadsAssumption
    DEF SleepersInCalls, NobodySleepsAfterShutdown, WithinCapacity, Poppers, Pushers,
        GoTo, Returns, Awake, Threads
<1> SUFFICES (SleepersInCalls /\ NobodySleepsAfterShutdown /\ WithinCapacity)'
  BY <1>0 DEF SleepInv
<1>t. /\ pc \in [Threads -> ProducerPCs \cup ConsumerPCs]
      /\ cv \subseteq Consumers /\ cvFull \subseteq Producers
      /\ Len(queue) \in Nat
      /\ SleepersInCalls /\ NobodySleepsAfterShutdown /\ WithinCapacity
  BY LenProperties DEF SleepInv, TypeInv, TypeOK, QTypeOK
<1> DEFINE Goal == (SleepersInCalls /\ NobodySleepsAfterShutdown /\ WithinCapacity)'
<1>1. ASSUME NEW p \in Producers, CallPush(p) PROVE Goal
  BY <1>1, <1>t DEF CallPush, Calls, qvars
<1>2. ASSUME NEW p \in Producers, Push(p) PROVE Goal
  <2>1. CASE PushSleeps(p) /\ UNCHANGED <<pc, arg, cleared>>
    BY <1>2, <2>1, <1>t DEF PushSleeps, Push
  <2>2. CASE PushDrops /\ Returns(p) /\ UNCHANGED <<arg, cleared>>
    BY <1>2, <2>2, <1>t DEF PushDrops, qvars
  <2>3. CASE PushAccepts(arg[p]) /\ Returns(p) /\ UNCHANGED <<arg, cleared>>
    <3>1. /\ cv' \subseteq cv /\ cvFull' = cvFull
          /\ Len(queue') = Len(queue) + 1 /\ shutdown' = shutdown
      BY <2>3, EnqueueTypes DEF PushAccepts, SleepInv, TypeInv, TypeOK, Enqueue
    <3> QED BY <1>2, <2>3, <3>1, <1>t DEF PushAccepts, Push, Full
  <2> QED BY <1>2, <2>1, <2>2, <2>3 DEF Push
<1>3. ASSUME NEW p \in Producers, TryPushEntry(p) PROVE Goal
  BY <1>3, <1>t DEF TryPushEntry, qvars
<1>4. ASSUME NEW p \in Producers, TryPushLocked(p) PROVE Goal
  <2>1. CASE TryPushRefuses /\ Returns(p) /\ UNCHANGED <<arg, cleared>>
    BY <1>4, <2>1, <1>t DEF TryPushRefuses, TryPushLocked, qvars
  <2>2. CASE TryPushAccepts(arg[p]) /\ Returns(p) /\ UNCHANGED <<arg, cleared>>
    <3>1. /\ cv' \subseteq cv /\ cvFull' = cvFull
          /\ Len(queue') = Len(queue) + 1 /\ shutdown' = shutdown
      BY <2>2, EnqueueTypes DEF TryPushAccepts, SleepInv, TypeInv, TypeOK, Enqueue
    <3>2. SleepersInCalls'
      BY <1>4, <2>2, <3>1, <1>t DEF TryPushLocked
    <3>3. NobodySleepsAfterShutdown'
      BY <3>1, <1>t
    <3>4. WithinCapacity'
      BY <2>2, <3>1, <1>t DEF TryPushAccepts, Full
    <3> QED BY <3>2, <3>3, <3>4
  <2> QED BY <1>4, <2>1, <2>2 DEF TryPushLocked
<1>5. ASSUME NEW c \in Consumers, CallPop(c) PROVE Goal
  BY <1>5, <1>t DEF CallPop, Calls, qvars
<1>6. ASSUME NEW c \in Consumers, WaitPop(c) PROVE Goal
  <2>1. CASE PopSleeps(c) /\ UNCHANGED <<pc, arg, cleared>>
    BY <1>6, <2>1, <1>t DEF PopSleeps, WaitPop
  <2>2. CASE PopFindsClosed /\ Returns(c) /\ UNCHANGED <<arg, cleared>>
    BY <1>6, <2>2, <1>t DEF PopFindsClosed, qvars
  <2>3. CASE (\E item \in Items : PopTakes(item)) /\ Returns(c) /\ UNCHANGED <<arg, cleared>>
    <3>1. /\ cv' = cv /\ cvFull' \subseteq cvFull
          /\ Len(queue') = Len(queue) - 1 /\ shutdown' = shutdown
      BY <2>3, DequeueTypes DEF PopTakes, SleepInv, Dequeue
    <3> QED BY <1>6, <2>3, <3>1, <1>t DEF WaitPop
  <2> QED BY <1>6, <2>1, <2>2, <2>3 DEF WaitPop
<1>7. ASSUME NEW c \in Consumers, WaitPopForTimeout(c) PROVE Goal
  BY <1>7, <1>t DEF WaitPopForTimeout, PopTimesOut
<1>8. ASSUME NEW c \in Consumers, TryPop(c) PROVE Goal
  <2>1. CASE TryPopRefuses /\ UNCHANGED <<pc, arg, cleared>>
    BY <2>1, <1>t DEF TryPopRefuses, qvars
  <2>2. CASE (\E item \in Items : PopTakes(item)) /\ UNCHANGED <<pc, arg, cleared>>
    <3>1. /\ cv' = cv /\ cvFull' \subseteq cvFull
          /\ Len(queue') = Len(queue) - 1 /\ shutdown' = shutdown
      BY <2>2, DequeueTypes DEF PopTakes, SleepInv, Dequeue
    <3> QED BY <2>2, <3>1, <1>t
  <2> QED BY <1>8, <2>1, <2>2 DEF TryPop
<1>9. ASSUME NEW t \in Threads, Spurious(t) PROVE Goal
  BY <1>9, <1>t DEF Spurious, WakesUp
<1>10. ASSUME Shutdown PROVE Goal
  BY <1>10, <1>t DEF Shutdown, CloseQueue
<1>11. ASSUME Clear PROVE Goal
  BY <1>11, <1>t, EmptySeq DEF Clear, ClearQueue
<1>12. CASE UNCHANGED vars
  BY <1>12, <1>t DEF vars
<1> QED
  BY <1>1, <1>2, <1>3, <1>4, <1>5, <1>6, <1>7, <1>8, <1>9, <1>10, <1>11, <1>12
  DEF Next, ProducerStep

(* Nobody sleeps on a queue that is shut down, whatever the order of the   *)
(* calls around shutdown().                                                *)
THEOREM ShutdownReleasesEverybody == Spec => []NobodySleepsAfterShutdown
<1>1. Spec => []SleepInv
  BY SleepInvInit, SleepInvStep, PTL DEF Spec
<1> QED
  BY <1>1, PTL DEF SleepInv

(* A bounded queue never exceeds its capacity, whichever of push and       *)
(* tryPush the producers mix.                                              *)
THEOREM CapacityIsKept == Spec => []WithinCapacity
<1>1. Spec => []SleepInv
  BY SleepInvInit, SleepInvStep, PTL DEF Spec
<1> QED
  BY <1>1, PTL DEF SleepInv
-----------------------------------------------------------------------------
(* The wakeup invariants, by counting.  NoLostWakeup needs SleepersInCalls *)
(* to know that a notified consumer joins the awake ones.                  *)
AwakeConsumers == Poppers \ cv

AwakeProducers == Pushers \ cvFull

LEMMA AwakeAreFinite ==
    IsFiniteSet(AwakeConsumers) /\ IsFiniteSet(AwakeProducers)
<1>1. AwakeConsumers \subseteq Consumers /\ AwakeProducers \subseteq Producers
  BY DEF AwakeConsumers, AwakeProducers, Poppers, Pushers
<1> QED BY <1>1, FS_Subset, ThreadsAssumption

LEMMA NoLostWakeupStep ==
    SleepInv /\ NoLostWakeup /\ [Next]_vars => NoLostWakeup'
<1> SUFFICES ASSUME SleepInv, NoLostWakeup, [Next]_vars, cv' # {}
             PROVE  Len(queue') <= Cardinality(AwakeConsumers')
  BY DEF NoLostWakeup, AwakeConsumers
<1>t. /\ pc \in [Threads -> ProducerPCs \cup ConsumerPCs]
      /\ cv \subseteq Poppers
      /\ Len(queue) \in Nat
      /\ cv # {} => Len(queue) <= Cardinality(AwakeConsumers)
      /\ IsFiniteSet(AwakeConsumers) /\ IsFiniteSet(AwakeConsumers')
      /\ Cardinality(AwakeConsumers) \in Nat
      /\ Cardinality(AwakeConsumers') \in Nat
  <2>1. IsFiniteSet(AwakeConsumers')
    <3>1. AwakeConsumers' \subseteq Consumers
      BY DEF AwakeConsumers, Poppers
    <3> QED BY <3>1, FS_Subset, ThreadsAssumption
  <2> QED
    BY <2>1, LenProperties, AwakeAreFinite, FS_CardinalityType
    DEF SleepInv, TypeInv, TypeOK, QTypeOK, SleepersInCalls, NoLostWakeup, AwakeConsumers
<1> DEFINE Goal == Len(queue') <= Cardinality(AwakeConsumers')
<1>same. ASSUME Len(queue') <= Len(queue), cv' = cv, AwakeConsumers \subseteq AwakeConsumers',
                Len(queue') \in Nat
         PROVE  Goal
  BY <1>same, <1>t, NotFewer
<1>none. ASSUME queue = <<>>, queue' = queue PROVE Goal
  BY <1>none, <1>t, EmptySeq
<1>enq. ASSUME NEW item \in Items, Enqueue(item), Poppers' = Poppers PROVE Goal
  <2>1. PICK t \in cv : cv' = cv \ {t}
    BY <1>enq, NotifyOneFacts DEF Enqueue
  <2>2. t \notin AwakeConsumers /\ AwakeConsumers \cup {t} \subseteq AwakeConsumers'
    BY <2>1, <1>enq, <1>t DEF AwakeConsumers
  <2>3. Cardinality(AwakeConsumers) + 1 <= Cardinality(AwakeConsumers')
    BY <2>2, <1>t, OneMore
  <2>4. Len(queue') = Len(queue) + 1
    BY <1>enq, EnqueueTypes DEF SleepInv
  <2> QED BY <2>1, <2>3, <2>4, <1>t
<1> USE ThreadsAssumption
    DEF Poppers, GoTo, Returns, Awake, Threads, AwakeConsumers
<1>1. ASSUME NEW p \in Producers, CallPush(p) PROVE Goal
  BY <1>1, <1>t, <1>same DEF CallPush, Calls, qvars
<1>2. ASSUME NEW p \in Producers, Push(p) PROVE Goal
  <2>1. CASE PushSleeps(p) /\ UNCHANGED <<pc, arg, cleared>>
    BY <2>1, <1>t, <1>same DEF PushSleeps
  <2>2. CASE PushDrops /\ Returns(p) /\ UNCHANGED <<arg, cleared>>
    BY <2>2, <1>t, <1>same DEF PushDrops, qvars
  <2>3. CASE PushAccepts(arg[p]) /\ Returns(p) /\ UNCHANGED <<arg, cleared>>
    <3>1. Poppers' = Poppers /\ arg[p] \in Items
      BY <2>3, <1>t DEF SleepInv, TypeInv, TypeOK
    <3> QED BY <2>3, <3>1, <1>enq DEF PushAccepts
  <2> QED BY <1>2, <2>1, <2>2, <2>3 DEF Push
<1>3. ASSUME NEW p \in Producers, TryPushEntry(p) PROVE Goal
  BY <1>3, <1>t, <1>same DEF TryPushEntry, qvars
<1>4. ASSUME NEW p \in Producers, TryPushLocked(p) PROVE Goal
  <2>1. CASE TryPushRefuses /\ Returns(p) /\ UNCHANGED <<arg, cleared>>
    BY <2>1, <1>t, <1>same DEF TryPushRefuses, qvars
  <2>2. CASE TryPushAccepts(arg[p]) /\ Returns(p) /\ UNCHANGED <<arg, cleared>>
    <3>1. Poppers' = Poppers /\ arg[p] \in Items
      BY <2>2, <1>t DEF SleepInv, TypeInv, TypeOK
    <3> QED BY <2>2, <3>1, <1>enq DEF TryPushAccepts
  <2> QED BY <1>4, <2>1, <2>2 DEF TryPushLocked
<1>5. ASSUME NEW c \in Consumers, CallPop(c) PROVE Goal
  BY <1>5, <1>t, <1>same DEF CallPop, Calls, qvars
<1>6. ASSUME NEW c \in Consumers, WaitPop(c) PROVE Goal
  <2>1. CASE PopSleeps(c) /\ UNCHANGED <<pc, arg, cleared>>
    BY <2>1, <1>none DEF PopSleeps
  <2>2. CASE PopFindsClosed /\ Returns(c) /\ UNCHANGED <<arg, cleared>>
    BY <2>2, <1>none DEF PopFindsClosed, qvars
  <2>3. CASE (\E item \in Items : PopTakes(item)) /\ Returns(c) /\ UNCHANGED <<arg, cleared>>
    <3>1. Len(queue') = Len(queue) - 1 /\ cv' = cv
      BY <2>3, DequeueTypes DEF PopTakes, SleepInv
    <3>2. c \in AwakeConsumers /\ AwakeConsumers' = AwakeConsumers \ {c}
      BY <1>6, <2>3, <3>1, <1>t DEF WaitPop
    <3>3. Cardinality(AwakeConsumers') = Cardinality(AwakeConsumers) - 1
      BY <3>2, <1>t, OneLess
    <3> HIDE DEF AwakeConsumers
    <3> QED BY <3>1, <3>3, <1>t
  <2> QED BY <1>6, <2>1, <2>2, <2>3 DEF WaitPop
<1>7. ASSUME NEW c \in Consumers, WaitPopForTimeout(c) PROVE Goal
  BY <1>7, <1>none DEF WaitPopForTimeout, PopTimesOut
<1>8. ASSUME NEW c \in Consumers, TryPop(c) PROVE Goal
  <2>1. CASE TryPopRefuses /\ UNCHANGED <<pc, arg, cleared>>
    BY <2>1, <1>none DEF TryPopRefuses, qvars
  <2>2. CASE (\E item \in Items : PopTakes(item)) /\ UNCHANGED <<pc, arg, cleared>>
    <3>1. Len(queue') = Len(queue) - 1 /\ cv' = cv /\ Len(queue') \in Nat
      BY <2>2, DequeueTypes, LenProperties DEF PopTakes, SleepInv, QTypeOK
    <3> QED BY <2>2, <3>1, <1>t, <1>same
  <2> QED BY <1>8, <2>1, <2>2 DEF TryPop
<1>9. ASSUME NEW t \in Threads, Spurious(t) PROVE Goal
  <2>1. cv # {} /\ Len(queue') = Len(queue) /\ AwakeConsumers \subseteq AwakeConsumers'
    BY <1>9, <1>t DEF Spurious, WakesUp
  <2> HIDE DEF AwakeConsumers
  <2> QED BY <2>1, <1>t, NotFewer
<1>10. ASSUME Shutdown PROVE Goal
  BY <1>10 DEF Shutdown, CloseQueue
<1>11. ASSUME Clear PROVE Goal
  BY <1>11, EmptySeq, <1>t DEF Clear, ClearQueue
<1>12. CASE UNCHANGED vars
  BY <1>12, <1>t, <1>same DEF vars
<1> QED
  BY <1>1, <1>2, <1>3, <1>4, <1>5, <1>6, <1>7, <1>8, <1>9, <1>10, <1>11, <1>12
  DEF Next, ProducerStep

(* No wakeup of a consumer is lost, for any number of producers and        *)
(* consumers, any capacity, clear() or not, timeouts and spurious wakeups  *)
(* included: as long as a consumer sleeps, each queued item has an awake   *)
(* consumer to take it.                                                    *)
THEOREM WakeupsAreNotLost == Spec => []NoLostWakeup
<1>1. Init => NoLostWakeup
  BY DEF Init, QInit, NoLostWakeup
<1>2. SleepInv /\ NoLostWakeup /\ [Next]_vars => (SleepInv /\ NoLostWakeup)'
  BY SleepInvStep, NoLostWakeupStep
<1> QED
  BY <1>1, <1>2, SleepInvInit, PTL DEF Spec

LEMMA NoStrandedProducerStep ==
    SleepInv /\ NoStrandedProducer /\ [Next]_vars => NoStrandedProducer'
<1> SUFFICES ASSUME SleepInv, NoStrandedProducer, [Next]_vars, ~cleared', cvFull' # {}
             PROVE  MaxSize <= Len(queue') + Cardinality(AwakeProducers')
  BY DEF NoStrandedProducer, AwakeProducers
<1>0. ~cleared
  BY DEF Next, ProducerStep, CallPush, CallPop, Push, TryPushEntry, TryPushLocked,
         WaitPop, WaitPopForTimeout, TryPop, Spurious, Shutdown, Clear, vars
<1>t. /\ pc \in [Threads -> ProducerPCs \cup ConsumerPCs]
      /\ cvFull \subseteq Pushers
      /\ Len(queue) \in Nat /\ Len(queue') \in Nat
      /\ cvFull # {} => MaxSize <= Len(queue) + Cardinality(AwakeProducers)
      /\ IsFiniteSet(AwakeProducers) /\ IsFiniteSet(AwakeProducers')
      /\ Cardinality(AwakeProducers) \in Nat
      /\ Cardinality(AwakeProducers') \in Nat
      /\ MaxSize \in Nat
  <2>1. IsFiniteSet(AwakeProducers')
    <3>1. AwakeProducers' \subseteq Producers
      BY DEF AwakeProducers, Pushers
    <3> QED BY <3>1, FS_Subset, ThreadsAssumption
  <2>2. TypeInv'
    BY TypeInvStep DEF SleepInv
  <2> QED
    BY <1>0, <2>1, <2>2, LenProperties, AwakeAreFinite, FS_CardinalityType, MaxSizeAssumption
    DEF SleepInv, TypeInv, TypeOK, QTypeOK, SleepersInCalls, NoStrandedProducer, AwakeProducers
<1> DEFINE Goal == MaxSize <= Len(queue') + Cardinality(AwakeProducers')
<1>same. ASSUME Len(queue) <= Len(queue'), cvFull # {}, AwakeProducers \subseteq AwakeProducers'
         PROVE  Goal
  BY <1>same, <1>t, NotFewer
<1>full. ASSUME Full, queue' = queue PROVE Goal
  BY <1>full, <1>t DEF Full
<1>deq. ASSUME NEW item \in Items, PopTakes(item), Pushers' = Pushers PROVE Goal
  <2>1. PICK t \in cvFull : cvFull' = cvFull \ {t}
    BY <1>deq, NotifyOneFacts DEF PopTakes, Dequeue
  <2>2. t \notin AwakeProducers /\ AwakeProducers \cup {t} \subseteq AwakeProducers'
    BY <2>1, <1>deq, <1>t DEF AwakeProducers
  <2>3. Cardinality(AwakeProducers) + 1 <= Cardinality(AwakeProducers')
    BY <2>2, <1>t, OneMore
  <2>4. Len(queue') = Len(queue) - 1
    BY <1>deq, DequeueTypes DEF SleepInv, PopTakes
  <2> QED BY <2>1, <2>3, <2>4, <1>t
<1> USE ThreadsAssumption
    DEF Pushers, GoTo, Returns, Awake, Threads, AwakeProducers
<1>1. ASSUME NEW p \in Producers, CallPush(p) PROVE Goal
  <2>1. cvFull' = cvFull /\ queue' = queue /\ AwakeProducers \subseteq AwakeProducers'
    BY <1>1, <1>t DEF CallPush, Calls, qvars
  <2> HIDE DEF AwakeProducers
  <2> QED BY <2>1, <1>t, <1>same
<1>2. ASSUME NEW p \in Producers, Push(p) PROVE Goal
  <2>1. CASE PushSleeps(p) /\ UNCHANGED <<pc, arg, cleared>>
    BY <2>1, <1>full DEF PushSleeps
  <2>2. CASE PushDrops /\ Returns(p) /\ UNCHANGED <<arg, cleared>>
    BY <2>2 DEF PushDrops, qvars, SleepInv, NobodySleepsAfterShutdown
  <2>3. CASE PushAccepts(arg[p]) /\ Returns(p) /\ UNCHANGED <<arg, cleared>>
    <3>0. arg[p] \in Items
      BY DEF SleepInv, TypeInv, TypeOK
    <3>1. Len(queue') = Len(queue) + 1 /\ cvFull' = cvFull
      BY <2>3, <3>0, EnqueueTypes DEF PushAccepts, SleepInv
    <3>2. p \in AwakeProducers /\ AwakeProducers' = AwakeProducers \ {p}
      BY <1>2, <2>3, <3>1, <1>t DEF Push
    <3>3. Cardinality(AwakeProducers') = Cardinality(AwakeProducers) - 1
      BY <3>2, <1>t, OneLess
    <3> HIDE DEF AwakeProducers
    <3> QED BY <3>1, <3>3, <1>t
  <2> QED BY <1>2, <2>1, <2>2, <2>3 DEF Push
<1>3. ASSUME NEW p \in Producers, TryPushEntry(p) PROVE Goal
  BY <1>3, <1>t, <1>same DEF TryPushEntry, qvars
<1>4. ASSUME NEW p \in Producers, TryPushLocked(p) PROVE Goal
  <2>1. CASE TryPushRefuses /\ Returns(p) /\ UNCHANGED <<arg, cleared>>
    BY <2>1, <1>full DEF TryPushRefuses, qvars
  <2>2. CASE TryPushAccepts(arg[p]) /\ Returns(p) /\ UNCHANGED <<arg, cleared>>
    <3>0. arg[p] \in Items
      BY DEF SleepInv, TypeInv, TypeOK
    <3>1. Len(queue') = Len(queue) + 1 /\ cvFull' = cvFull
      BY <2>2, <3>0, EnqueueTypes DEF TryPushAccepts, SleepInv
    <3>2. AwakeProducers \subseteq AwakeProducers'
      BY <1>4, <2>2, <3>1, <1>t DEF TryPushLocked
    <3> HIDE DEF AwakeProducers
    <3> QED BY <3>1, <3>2, <1>t, <1>same
  <2> QED BY <1>4, <2>1, <2>2 DEF TryPushLocked
<1>5. ASSUME NEW c \in Consumers, CallPop(c) PROVE Goal
  BY <1>5, <1>t, <1>same DEF CallPop, Calls, qvars
<1>6. ASSUME NEW c \in Consumers, WaitPop(c) PROVE Goal
  <2>1. CASE PopSleeps(c) /\ UNCHANGED <<pc, arg, cleared>>
    BY <2>1, <1>t, <1>same DEF PopSleeps
  <2>2. CASE PopFindsClosed /\ Returns(c) /\ UNCHANGED <<arg, cleared>>
    BY <2>2 DEF PopFindsClosed, qvars, SleepInv, NobodySleepsAfterShutdown
  <2>3. CASE (\E item \in Items : PopTakes(item)) /\ Returns(c) /\ UNCHANGED <<arg, cleared>>
    <3>1. Pushers' = Pushers
      BY <1>6, <2>3, <1>t
    <3> HIDE DEF Pushers
    <3> QED BY <2>3, <3>1, <1>deq
  <2> QED BY <1>6, <2>1, <2>2, <2>3 DEF WaitPop
<1>7. ASSUME NEW c \in Consumers, WaitPopForTimeout(c) PROVE Goal
  BY <1>7, <1>t, <1>same DEF WaitPopForTimeout, PopTimesOut
<1>8. ASSUME NEW c \in Consumers, TryPop(c) PROVE Goal
  <2>1. CASE TryPopRefuses /\ UNCHANGED <<pc, arg, cleared>>
    BY <2>1, <1>t, <1>same DEF TryPopRefuses, qvars
  <2>2. CASE (\E item \in Items : PopTakes(item)) /\ UNCHANGED <<pc, arg, cleared>>
    BY <2>2, <1>deq
  <2> QED BY <1>8, <2>1, <2>2 DEF TryPop
<1>9. ASSUME NEW t \in Threads, Spurious(t) PROVE Goal
  <2>1. cvFull # {} /\ queue' = queue /\ AwakeProducers \subseteq AwakeProducers'
    BY <1>9, <1>t DEF Spurious, WakesUp
  <2> HIDE DEF AwakeProducers
  <2> QED BY <2>1, <1>t, <1>same
<1>10. ASSUME Shutdown PROVE Goal
  BY <1>10 DEF Shutdown, CloseQueue
<1>11. ASSUME Clear PROVE Goal
  BY <1>11 DEF Clear
<1>12. CASE UNCHANGED vars
  BY <1>12, <1>t, <1>same DEF vars
<1> QED
  BY <1>1, <1>2, <1>3, <1>4, <1>5, <1>6, <1>7, <1>8, <1>9, <1>10, <1>11, <1>12
  DEF Next, ProducerStep

(* No wakeup of a producer is lost until somebody calls clear(): while a   *)
(* producer sleeps in push, each free slot has an awake producer to fill   *)
(* it.                                                                     *)
THEOREM ProducersAreNotStranded == Spec => []NoStrandedProducer
<1>1. Init => NoStrandedProducer
  BY DEF Init, QInit, NoStrandedProducer
<1>2. SleepInv /\ NoStrandedProducer /\ [Next]_vars => (SleepInv /\ NoStrandedProducer)'
  BY SleepInvStep, NoStrandedProducerStep
<1> QED
  BY <1>1, <1>2, SleepInvInit, PTL DEF Spec
(* What shutdown() lets in although tryPush promises to refuse it          *)
(* (ThreadSafeQueue.h:95-96): one item for each tryPush past its test of   *)
(* _shutdown, and nothing else.                                            *)
THEOREM OnlyLateTryPushes == Spec => OnlyLateTryPushAfterShutdown
<1> DEFINE A == shutdown => /\ shutdown'
                            /\ PastTest' \subseteq PastTest
                            /\ Len(queue') > Len(queue) =>
                                   Cardinality(PastTest') < Cardinality(PastTest)
<1>1. TypeInv /\ [Next]_vars => [A]_vars
  <2> SUFFICES ASSUME TypeInv, Next, shutdown
               PROVE  /\ shutdown'
                      /\ PastTest' \subseteq PastTest
                      /\ Len(queue') > Len(queue) => Cardinality(PastTest') < Cardinality(PastTest)
    OBVIOUS
  <2>t. /\ pc \in [Threads -> ProducerPCs \cup ConsumerPCs]
        /\ queue \in Seq(Items) /\ IsFiniteSet(PastTest)
    <3>1. IsFiniteSet(Producers) /\ PastTest \subseteq Producers
      BY ThreadsAssumption DEF PastTest
    <3> QED BY <3>1, FS_Subset DEF TypeInv, TypeOK, QTypeOK
  <2>p. \A p \in Producers : p \in Threads /\ p \notin Consumers
    BY ThreadsAssumption DEF Threads
  <2>n. queue # <<>> => Len(Tail(queue)) = Len(queue) - 1 /\ Len(queue) \in Nat
    BY <2>t
  (* Nobody enters and nothing is appended, or a late tryPush leaves.      *)
  <2>1. ASSUME shutdown', queue' \in {queue, <<>>} \/ (queue # <<>> /\ queue' = Tail(queue)),
               PastTest' \subseteq PastTest
        PROVE  Len(queue') <= Len(queue)
    <3>1. Len(queue) \in Nat /\ Len(<<>>) = 0
      BY <2>t
    <3> QED BY <2>1, <2>n, <3>1
  <2>2. ASSUME NEW p \in Producers, CallPush(p) \/ Push(p) \/ TryPushEntry(p)
        PROVE  shutdown' /\ queue' = queue /\ PastTest' \subseteq PastTest
    <3>1. shutdown' /\ queue' = queue
      BY <2>2
      DEF CallPush, Calls, Push, PushSleeps, PushDrops, PushAccepts, TryPushEntry, qvars
    <3>2. pc' = pc \/ \E label \in {"push", "tryPush", "idle"} : pc' = [pc EXCEPT ![p] = label]
      BY <2>2
      DEF CallPush, Calls, Push, PushSleeps, PushDrops, PushAccepts, TryPushEntry, TryPushMayEnter, GoTo, Returns
    <3> QED BY <3>1, <3>2, <2>t, <2>p DEF PastTest
  <2>3. ASSUME NEW p \in Producers, TryPushLocked(p)
        PROVE  shutdown' /\ PastTest' \subseteq PastTest /\ Cardinality(PastTest') < Cardinality(PastTest)
    <3>1. p \in PastTest /\ PastTest' = PastTest \ {p} /\ shutdown'
      BY <2>3, <2>t, <2>p
      DEF TryPushLocked, TryPushRefuses, TryPushAccepts, Enqueue, Returns, GoTo, PastTest, qvars
    <3>2. Cardinality(PastTest \ {p}) = Cardinality(PastTest) - 1 /\ Cardinality(PastTest) \in Nat
      BY <3>1, <2>t, FS_RemoveElement, FS_CardinalityType
    <3> QED BY <3>1, <3>2
  <2>4. ASSUME NEW c \in Consumers, CallPop(c) \/ WaitPop(c) \/ WaitPopForTimeout(c) \/ TryPop(c)
        PROVE  /\ shutdown' /\ PastTest' \subseteq PastTest
               /\ queue' = queue \/ (queue # <<>> /\ queue' = Tail(queue))
    <3>1. \A p \in Producers : pc'[p] = pc[p]
      BY <2>4, <2>t, <2>p
      DEF CallPop, Calls, WaitPop, WaitPopForTimeout, TryPop, GoTo, Returns
    <3> QED
      BY <2>4, <3>1
      DEF CallPop, Calls, WaitPop, WaitPopForTimeout, TryPop, PopSleeps, PopFindsClosed, PopTakes, Dequeue,
          PopTimesOut, TryPopRefuses, qvars, PastTest
  <2>5. ASSUME (\E t \in Threads : Spurious(t)) \/ Shutdown \/ Clear
        PROVE  shutdown' /\ queue' \in {queue, <<>>} /\ PastTest' \subseteq PastTest
    BY <2>5 DEF Spurious, WakesUp, Shutdown, CloseQueue, Clear, ClearQueue, PastTest
  <2>6. Len(queue) \in Nat
    BY <2>t
  <2>7. CASE \E p \in Producers : TryPushLocked(p)
    BY <2>3, <2>7
  <2>8. CASE ~\E p \in Producers : TryPushLocked(p)
    <3>1. /\ shutdown' /\ PastTest' \subseteq PastTest
          /\ queue' \in {queue, <<>>} \/ (queue # <<>> /\ queue' = Tail(queue))
      BY <2>2, <2>4, <2>5, <2>8 DEF Next, ProducerStep
    <3>2. Len(queue') <= Len(queue) /\ Len(queue') \in Nat
      <4>1. Len(<<>>) = 0 /\ (queue # <<>> => Len(Tail(queue)) \in Nat)
        BY <2>t
      <4> QED BY <3>1, <2>1, <2>6, <4>1
    <3> QED BY <3>1, <3>2, <2>6
  <2> QED BY <2>7, <2>8
<1>2. Spec => []TypeInv
  BY TypeInvInit, TypeInvStep, PTL DEF Spec
<1> QED BY <1>1, <1>2, PTL DEF Spec, OnlyLateTryPushAfterShutdown

-----------------------------------------------------------------------------
(* Refinement: each step of the queue with its mutex, condition variables  *)
(* and notifications is a step of the awaiting queue, or none.             *)
AbstractCalls == [t \in Threads |-> IF pc[t] = "tryPush locked" THEN "tryPush" ELSE pc[t]]

LEMMA AwaitInit == Init => Await!AInit
BY DEF Init, QInit, Await!AInit, Threads

LEMMA AwaitStep == TypeInv /\ [Next]_vars => [Await!ANext]_Await!avars
<1> SUFFICES ASSUME TypeInv, [Next]_vars PROVE [Await!ANext]_Await!avars
  OBVIOUS
<1>t. /\ pc \in [Threads -> ProducerPCs \cup ConsumerPCs]
      /\ arg \in [Producers -> Items]
      /\ Len(queue) \in Nat /\ MaxSize \in Nat
      /\ Producers \subseteq Threads /\ Consumers \subseteq Threads
      /\ Producers \cap Consumers = {}
      /\ Threads = Producers \cup Consumers
  BY LenProperties, ThreadsAssumption, MaxSizeAssumption DEF TypeInv, TypeOK, QTypeOK, Threads
<1> DEFINE Stutters == UNCHANGED <<queue, shutdown, arg, cleared>> /\ AbstractCalls' = AbstractCalls
<1>same. ASSUME Stutters PROVE UNCHANGED Await!avars
  BY <1>same DEF Await!avars, AbstractCalls
<1>pc. ASSUME UNCHANGED pc PROVE AbstractCalls' = AbstractCalls
  BY <1>pc DEF AbstractCalls
<1>ends. ASSUME NEW t \in Threads, Returns(t)
         PROVE  AbstractCalls' = [AbstractCalls EXCEPT ![t] = "idle"]
  BY <1>ends, <1>t DEF AbstractCalls, Returns, GoTo
<1>room. Await!Room <=> ~Full
  BY <1>t DEF Await!Room, Full
<1>1. ASSUME NEW p \in Producers, CallPush(p) PROVE Await!Begin(p)
  <2>1. PICK operation \in {"push", "tryPush"} : pc[p] = "idle" /\ pc' = [pc EXCEPT ![p] = operation]
    BY <1>1 DEF CallPush, Calls, GoTo
  <2>2. PICK item \in Items : arg' = [arg EXCEPT ![p] = item]
    BY <1>1 DEF CallPush
  <2>3. AbstractCalls[p] = "idle" /\ AbstractCalls' = [AbstractCalls EXCEPT ![p] = operation]
    BY <2>1, <1>t DEF AbstractCalls
  <2>4. UNCHANGED <<queue, shutdown, cleared>>
    BY <1>1 DEF CallPush, Calls, qvars
  <2>5. arg' \in [Producers -> Items] /\ \A q \in Producers \ {p} : arg'[q] = arg[q]
    BY <2>2, <1>t
  <2> QED BY <2>3, <2>4, <2>5 DEF Await!Begin, AbstractCalls
<1>2. ASSUME NEW p \in Producers, Push(p) PROVE Await!FinishPush(p) \/ Stutters
  <2>0. AbstractCalls[p] = "push"
    BY <1>2, <1>t DEF Push, AbstractCalls
  <2>1. CASE PushSleeps(p) /\ UNCHANGED <<pc, arg, cleared>>
    BY <2>1, <1>pc DEF PushSleeps
  <2>2. CASE PushDrops /\ Returns(p) /\ UNCHANGED <<arg, cleared>>
    BY <2>0, <2>2, <1>ends, <1>t DEF PushDrops, qvars, Await!FinishPush, Await!GivesUp, Await!Ends, AbstractCalls
  <2>3. CASE PushAccepts(arg[p]) /\ Returns(p) /\ UNCHANGED <<arg, cleared>>
    BY <2>0, <2>3, <1>ends, <1>room, <1>t DEF PushAccepts, Enqueue, Await!FinishPush, Await!Appends, Await!Ends, AbstractCalls
  <2> QED BY <1>2, <2>1, <2>2, <2>3 DEF Push
<1>3. ASSUME NEW p \in Producers, TryPushEntry(p) PROVE Await!FinishTryPush(p) \/ Stutters
  <2>0. AbstractCalls[p] = "tryPush" /\ UNCHANGED <<queue, shutdown, arg, cleared>>
    BY <1>3, <1>t DEF TryPushEntry, AbstractCalls, qvars
  <2>1. CASE GoTo(p, "tryPush locked")
    BY <1>3, <2>0, <2>1, <1>t DEF TryPushEntry, AbstractCalls, GoTo
  <2>2. CASE shutdown /\ Returns(p)
    BY <2>0, <2>2, <1>ends, <1>t DEF Await!FinishTryPush, Await!GivesUp, Await!Ends, AbstractCalls
  <2> QED BY <1>3, <2>1, <2>2 DEF TryPushEntry, TryPushMayEnter, Returns
<1>4. ASSUME NEW p \in Producers, TryPushLocked(p) PROVE Await!FinishTryPush(p)
  <2>0. AbstractCalls[p] = "tryPush"
    BY <1>4, <1>t DEF TryPushLocked, AbstractCalls
  <2>1. CASE TryPushRefuses /\ Returns(p) /\ UNCHANGED <<arg, cleared>>
    BY <2>0, <2>1, <1>ends, <1>room, <1>t
    DEF TryPushRefuses, qvars, Await!FinishTryPush, Await!GivesUp, Await!Ends, AbstractCalls
  <2>2. CASE TryPushAccepts(arg[p]) /\ Returns(p) /\ UNCHANGED <<arg, cleared>>
    BY <2>0, <2>2, <1>ends, <1>room, <1>t
    DEF TryPushAccepts, Enqueue, Await!FinishTryPush, Await!Appends, Await!Ends, AbstractCalls
  <2> QED BY <1>4, <2>1, <2>2 DEF TryPushLocked
<1>5. ASSUME NEW c \in Consumers, CallPop(c) PROVE Await!Begin(c)
  <2>1. PICK operation \in {"waitPop", "waitPopFor"} : pc[c] = "idle" /\ pc' = [pc EXCEPT ![c] = operation]
    BY <1>5 DEF CallPop, Calls, GoTo
  <2>2. AbstractCalls[c] = "idle" /\ AbstractCalls' = [AbstractCalls EXCEPT ![c] = operation]
    BY <2>1, <1>t DEF AbstractCalls
  <2>3. UNCHANGED <<queue, shutdown, cleared, arg>> /\ c \notin Producers
    BY <1>5, <1>t DEF CallPop, Calls, qvars
  <2> QED BY <2>2, <2>3, <1>t DEF Await!Begin, AbstractCalls
<1>6. ASSUME NEW c \in Consumers, WaitPop(c) PROVE Await!FinishPop(c) \/ Stutters
  <2>0. AbstractCalls[c] \in {"waitPop", "waitPopFor"}
    BY <1>6, <1>t DEF WaitPop, AbstractCalls
  <2>1. CASE PopSleeps(c) /\ UNCHANGED <<pc, arg, cleared>>
    BY <2>1, <1>pc DEF PopSleeps
  <2>2. CASE PopFindsClosed /\ Returns(c) /\ UNCHANGED <<arg, cleared>>
    BY <2>0, <2>2, <1>ends, <1>t
    DEF PopFindsClosed, qvars, Await!FinishPop, Await!GivesUp, Await!Ends, AbstractCalls
  <2>3. CASE (\E item \in Items : PopTakes(item)) /\ Returns(c) /\ UNCHANGED <<arg, cleared>>
    BY <2>0, <2>3, <1>ends, <1>t DEF PopTakes, Dequeue, Await!FinishPop, Await!Ends, AbstractCalls
  <2> QED BY <1>6, <2>1, <2>2, <2>3 DEF WaitPop
<1>7. ASSUME NEW c \in Consumers, WaitPopForTimeout(c) PROVE Await!TimedOut(c)
  BY <1>7, <1>ends, <1>t
  DEF WaitPopForTimeout, PopTimesOut, Await!TimedOut, Await!GivesUp, Await!Ends, AbstractCalls
<1>8. ASSUME NEW c \in Consumers, TryPop(c) PROVE Await!Takes(c) \/ Stutters
  <2>0. AbstractCalls[c] = "idle" /\ UNCHANGED <<arg, cleared>> /\ AbstractCalls' = AbstractCalls
    BY <1>8, <1>t, <1>pc DEF TryPop, AbstractCalls
  <2>1. CASE TryPopRefuses
    BY <2>0, <2>1 DEF TryPopRefuses, qvars
  <2>2. CASE \E item \in Items : PopTakes(item)
    BY <2>0, <2>2 DEF PopTakes, Dequeue, Await!Takes, AbstractCalls
  <2> QED BY <1>8, <2>1, <2>2 DEF TryPop
<1>9. ASSUME NEW t \in Threads, Spurious(t) PROVE Stutters
  BY <1>9, <1>pc DEF Spurious, WakesUp
<1>10. ASSUME Shutdown PROVE Await!Closes
  <2>1. AbstractCalls' = AbstractCalls
    BY <1>10, <1>pc DEF Shutdown
  <2> QED BY <1>10, <2>1 DEF Shutdown, CloseQueue, Await!Closes, AbstractCalls
<1>11. ASSUME Clear PROVE Await!Empties
  <2>1. AbstractCalls' = AbstractCalls
    BY <1>11, <1>pc DEF Clear
  <2> QED BY <1>11, <2>1 DEF Clear, ClearQueue, Await!Empties, AbstractCalls
<1>12. ASSUME UNCHANGED vars PROVE Stutters
  BY <1>12, <1>pc DEF vars
<1> HIDE DEF Stutters
<1> QED
  BY <1>1, <1>2, <1>3, <1>4, <1>5, <1>6, <1>7, <1>8, <1>9, <1>10, <1>11, <1>12, <1>same, <1>t
  DEF Next, ProducerStep, Await!ANext

(* The queue implements the safety half of the awaiting queue: with its    *)
(* mutex and condition variables each of its calls takes effect at once,   *)
(* under the condition the call states, for any threads and any capacity.  *)
THEOREM QueueAwaits == Spec => Await!ASafety
<1>1. Spec => []TypeInv
  BY TypeInvInit, TypeInvStep, PTL DEF Spec
<1> QED
  BY <1>1, AwaitInit, AwaitStep, PTL DEF Spec, Await!ASafety
=============================================================================
