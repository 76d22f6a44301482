------------------------------ MODULE Dispatch ------------------------------
(***************************************************************************)
(* What the benchmark expects of every pool it compares: a dispatch        *)
(* function is handed a suite of tasks, executes each of them exactly      *)
(* once, on whatever threads it likes, and returns when all have ended,    *)
(* which it does in the end.  The timings of the harness are those of this *)
(* call, so a pool that returned early would be measured for less work.    *)
(* If it cannot have its threads it fails, and then no task has begun.     *)
(* Where nothing catches what a task throws, an exception ends the         *)
(* program, and then neither the suite nor the call goes on.               *)
(***************************************************************************)
CONSTANTS
    Tasks,
    MayAbort            \* does a task throw, and nobody catch it?

VARIABLES progress, outcome

dvars == <<progress, outcome>>

DInit ==
    /\ progress = [task \in Tasks |-> "waiting"]
    /\ outcome = "none"

Advance(task, from, to) ==
    /\ progress[task] = from
    /\ progress' = [progress EXCEPT ![task] = to]
    /\ UNCHANGED outcome

Begin == outcome = "none" /\ \E task \in Tasks : Advance(task, "waiting", "running")
End   == outcome # "aborted" /\ \E task \in Tasks : Advance(task, "running", "done")

Conclude(state, answer) ==
    /\ outcome = "none"
    /\ \A task \in Tasks : progress[task] = state
    /\ outcome' = answer
    /\ UNCHANGED progress

Return == Conclude("done", "returned")
Fail   == Conclude("waiting", "failed")

Abort ==
    /\ MayAbort
    /\ outcome = "none" /\ \E task \in Tasks : progress[task] = "running"
    /\ outcome' = "aborted"
    /\ UNCHANGED progress

DNext == Begin \/ End \/ Return \/ Fail \/ Abort

DSafety == DInit /\ [][DNext]_dvars

DSpec == DSafety /\ WF_dvars(Begin \/ End \/ Return)
=============================================================================
