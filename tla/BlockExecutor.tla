---------------------------- MODULE BlockExecutor ----------------------------
(***************************************************************************)
(* What AwesomeRequester needs of the dispatcher: a block handed to        *)
(* executeBlock runs once, and does run.                                   *)
(***************************************************************************)
CONSTANT Jobs           \* the blocks handed to executeBlock

VARIABLE block          \* block[j]: "new", "submitted" or "ran"

ExecutorInit == block = [j \in Jobs |-> "new"]

Submit(j) == block[j] = "new" /\ block' = [block EXCEPT ![j] = "submitted"]
Run(j)    == block[j] = "submitted" /\ block' = [block EXCEPT ![j] = "ran"]

ExecutorNext == \E j \in Jobs : Submit(j) \/ Run(j)

ExecutorSafety == ExecutorInit /\ [][ExecutorNext]_block

ExecutorSpec == ExecutorSafety /\ \A j \in Jobs : WF_block(Run(j))
=============================================================================
