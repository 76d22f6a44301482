--------------------------- MODULE TaskLifecycle ---------------------------
(***************************************************************************)
(* What a thread pool does with each task, with no thread in sight.        *)
(*                                                                         *)
(*     new -> submitting -> queued -> running -> done                      *)
(*                 |           |         ^                                 *)
(*                 |           +-> lost  |     (once the pool closes)      *)
(*                 +-> refused           |                                 *)
(*                 +-> lost              |     (once the pool closes)      *)
(*                 +-> late -------------+     (once the pool closes)      *)
(*                                                                         *)
(* A task runs at most once, never after it was refused, and while the     *)
(* pool is open no task is lost.  The pool that is not idle makes          *)
(* progress: as long as tasks are queued some task is started.  To a late  *)
(* task, which the pool took when it was already closing, it owes nothing. *)
(***************************************************************************)
CONSTANTS Tasks

VARIABLES open, status

lvars == <<open, status>>

LInit == open = TRUE /\ status = [task \in Tasks |-> "new"]

Become(S, from, to) ==
    /\ S # {}
    /\ \A task \in S : status[task] = from
    /\ status' = [task \in Tasks |-> IF task \in S THEN to ELSE status[task]]
    /\ UNCHANGED open

Submit == \E task \in Tasks : Become({task}, "new", "submitting")
Queue  == \E task \in Tasks : Become({task}, "submitting", "queued")
Refuse == \E task \in Tasks : Become({task}, "submitting", "refused")
Start  == \E task \in Tasks : Become({task}, "queued", "running")
Finish == \E task \in Tasks : Become({task}, "running", "done")

Late      == ~open /\ \E task \in Tasks : Become({task}, "submitting", "late")
StartLate == \E task \in Tasks : Become({task}, "late", "running")

Drop    == ~open /\ \E task \in Tasks : Become({task}, "submitting", "lost")
Discard == ~open /\ Become({task \in Tasks : status[task] = "queued"}, "queued", "lost")

Close == open /\ open' = FALSE /\ UNCHANGED status

LNext ==
    \/ Submit \/ Queue \/ Refuse \/ Start \/ Finish
    \/ Late \/ StartLate \/ Drop \/ Discard \/ Close

LSafety == LInit /\ [][LNext]_lvars

LSpec == LSafety /\ WF_lvars(Start) /\ WF_lvars(Finish)
=============================================================================
