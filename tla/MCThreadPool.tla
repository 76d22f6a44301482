---------------------------- MODULE MCThreadPool ----------------------------
(***************************************************************************)
(* ThreadPool on small sets of threads and tasks for TLC.                  *)
(***************************************************************************)
EXTENDS ThreadPool, TLC

BothShutdowns == {"shutdownImmediately", "shutdownProcessRemainingTasks"}
DrainOnly == {"shutdownProcessRemainingTasks"}

\* Threads of one kind are interchangeable, and so are tasks.
PoolSymmetry ==
    Permutations(Workers) \cup Permutations(Callers) \cup Permutations(Tasks)
=============================================================================
