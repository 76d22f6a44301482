-------------------------- MODULE MCOneTbbWrapper --------------------------
(* Instances of OneTbbWrapper for TLC.                                     *)
EXTENDS OneTbbWrapper

BothWays == {"TASK_GROUP", "TASK_GROUP_BATCHED_STREAMED"}
FiveTasks == 1 .. 5
SevenTasks == 1 .. 7

(* The tasks of a batch differ only in their number, so of the orders in   *)
(* which the arena can run them TLC follows the one by number.             *)
ArenaRunsLowestFirst ==
    \A c \in Callers : \A task \in batch[c] :
        executed'[task] # executed[task] => \A other \in batch[c] : task <= other
=============================================================================
