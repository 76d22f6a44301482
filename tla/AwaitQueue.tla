----------------------------- MODULE AwaitQueue -----------------------------
(***************************************************************************)
(* What the queue of ThreadSafeQueue.h promises to its callers, with no    *)
(* mutex, condition variable or wakeup in sight: a blocking call awaits    *)
(* its condition and then takes effect at once.                            *)
(*                                                                         *)
(* The liveness half is the promise that is hard to keep with notify_one:  *)
(* while a consumer is in a blocking pop and there is an item for it, some *)
(* consumer gets one; while a producer is in push and there is room, some  *)
(* producer goes on, unless clear() has been called: the slots that it     *)
(* frees are promised to nobody.  No individual thread is promised its     *)
(* turn.                                                                   *)
(***************************************************************************)
EXTENDS Naturals, Sequences

CONSTANTS Producers, Consumers, Items, Capacity

VARIABLES
    buffer, closed, calls, arg,
    emptied             \* has the buffer been emptied by clear()?

avars == <<buffer, closed, calls, arg, emptied>>

Room == Capacity = 0 \/ Len(buffer) < Capacity

AInit ==
    /\ buffer = <<>>
    /\ closed = FALSE
    /\ calls = [t \in Producers \cup Consumers |-> "idle"]
    /\ arg \in [Producers -> Items]
    /\ emptied = FALSE

Ends(t) == calls' = [calls EXCEPT ![t] = "idle"]

Begin(t) ==
    /\ calls[t] = "idle"
    /\ \E operation \in IF t \in Producers THEN {"push", "tryPush"}
                                           ELSE {"waitPop", "waitPopFor"} :
           calls' = [calls EXCEPT ![t] = operation]
    /\ \A p \in Producers \ {t} : arg'[p] = arg[p]
    /\ arg' \in [Producers -> Items]
    /\ UNCHANGED <<buffer, closed, emptied>>

Appends(p) ==
    /\ Room
    /\ buffer' = Append(buffer, arg[p])
    /\ Ends(p)
    /\ UNCHANGED <<closed, arg, emptied>>

GivesUp(t) == Ends(t) /\ UNCHANGED <<buffer, closed, arg, emptied>>

FinishPush(p) ==
    /\ calls[p] = "push"
    /\ IF closed THEN GivesUp(p) ELSE Appends(p)

\* A tryPush that began before the queue closed may still append to it.
FinishTryPush(p) ==
    /\ calls[p] = "tryPush"
    /\ \/ Appends(p)
       \/ (closed \/ ~Room) /\ GivesUp(p)

FinishPop(c) ==
    /\ calls[c] \in {"waitPop", "waitPopFor"}
    /\ \/ /\ buffer # <<>>
          /\ buffer' = Tail(buffer)
          /\ Ends(c)
          /\ UNCHANGED <<closed, arg, emptied>>
       \/ closed /\ buffer = <<>> /\ GivesUp(c)

TimedOut(c) == calls[c] = "waitPopFor" /\ buffer = <<>> /\ GivesUp(c)

\* tryPop of an idle consumer.
Takes(c) ==
    /\ calls[c] = "idle" /\ buffer # <<>>
    /\ buffer' = Tail(buffer)
    /\ UNCHANGED <<closed, calls, arg, emptied>>

Closes == closed' = TRUE /\ UNCHANGED <<buffer, calls, arg, emptied>>

Empties == buffer' = <<>> /\ emptied' = TRUE /\ UNCHANGED <<closed, calls, arg>>

ANext ==
    \/ \E t \in Producers \cup Consumers : Begin(t)
    \/ \E p \in Producers : FinishPush(p) \/ FinishTryPush(p)
    \/ \E c \in Consumers : FinishPop(c) \/ TimedOut(c) \/ Takes(c)
    \/ Closes
    \/ Empties

SomeProducerGoesOn == ~emptied /\ \E p \in Producers : FinishPush(p)
SomeConsumerGoesOn == \E c \in Consumers : FinishPop(c)

ASafety == AInit /\ [][ANext]_avars

ASpec ==
    /\ ASafety
    /\ WF_avars(SomeProducerGoesOn)
    /\ WF_avars(SomeConsumerGoesOn)
=============================================================================
