---------------------------- MODULE WaitablePool ----------------------------
(***************************************************************************)
(* What a pool with a waiting function promises, whatever its threads do:  *)
(* a task is started at most once and never after it was cleared, and a    *)
(* call that waits returns only when nothing it waits for is left.         *)
(*                                                                         *)
(* It returns in the end, except to a caller that has been forgotten.  The *)
(* vendored pools wake their waiters in ways that are made for one at a    *)
(* time: a waiter may be forgotten when another one waits as well, and, if *)
(* ClearForgets, when the queue is cleared behind its back.  Their docs    *)
(* know no such exception ("Block until ...", task_thread_pool.hpp:323,    *)
(* :333; dp_threadpool.h:242): the promise stated here is a weaker one.    *)
(***************************************************************************)
CONSTANTS Tasks, Callers, ClearForgets

VARIABLES status, paused, waits, forgotten

wvars == <<status, paused, waits, forgotten>>

WInit ==
    /\ status = [task \in Tasks |-> "new"]
    /\ paused = FALSE
    /\ waits = [c \in Callers |-> "no"]
    /\ forgotten = {}

Move(S, from, to) ==
    /\ \A task \in S : status[task] = from
    /\ status' = [task \in Tasks |-> IF task \in S THEN to ELSE status[task]]

Waiters == {c \in Callers : waits[c] # "no"}

Submit == \E task \in Tasks : Move({task}, "new", "queued") /\ UNCHANGED <<paused, waits, forgotten>>

Start ==
    /\ ~paused
    /\ \E task \in Tasks : Move({task}, "queued", "running")
    /\ UNCHANGED <<paused, waits, forgotten>>

Finish ==
    /\ \E task \in Tasks : Move({task}, "running", "done")
    /\ UNCHANGED <<paused, waits, forgotten>>

Clear ==
    /\ \E S \in SUBSET Tasks : S # {} /\ Move(S, "queued", "cleared")
    /\ forgotten' \in SUBSET Waiters /\ forgotten \subseteq forgotten'
    /\ ClearForgets \/ UNCHANGED forgotten
    /\ UNCHANGED <<paused, waits>>

Pause == paused' = ~paused /\ UNCHANGED <<status, waits, forgotten>>

Wait(c) ==
    /\ waits[c] = "no"
    /\ \E kind \in {"queued", "all"} : waits' = [waits EXCEPT ![c] = kind]
    /\ UNCHANGED <<status, paused, forgotten>>

Awaited(kind) == IF kind = "all" THEN {"queued", "running"} ELSE {"queued"}

\* With c's call another one may end up forgotten.
Return(c) ==
    /\ waits[c] # "no"
    /\ \A task \in Tasks : status[task] \notin Awaited(waits[c])
    /\ waits' = [waits EXCEPT ![c] = "no"]
    /\ forgotten' \in SUBSET (Waiters \ {c}) /\ forgotten \ {c} \subseteq forgotten'
    /\ UNCHANGED <<status, paused>>

Forget(c) ==
    /\ Waiters \ {c} # {}
    /\ forgotten' \in SUBSET Waiters /\ forgotten \subseteq forgotten'
    /\ UNCHANGED <<status, paused, waits>>

WNext ==
    \/ Submit \/ Start \/ Finish \/ Clear \/ Pause
    \/ \E c \in Callers : Wait(c) \/ Return(c) \/ Forget(c)

WSafety == WInit /\ [][WNext]_wvars

WSpec ==
    /\ WSafety
    /\ WF_wvars(Start) /\ WF_wvars(Finish)
    /\ \A c \in Callers : WF_wvars(c \notin forgotten /\ Return(c))
=============================================================================
