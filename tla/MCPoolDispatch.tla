--------------------------- MODULE MCPoolDispatch ---------------------------
(***************************************************************************)
(* PoolDispatch for a suite of a few tasks.                                *)
(***************************************************************************)
EXTENDS PoolDispatch, TLC

CONSTANTS t1, t2, t3

ASSUME DispatchAssumption

ThreeTasks == <<t1, t2, t3>>
DrainOnly == {"shutdownProcessRemainingTasks"}
=============================================================================
