-------------------------- MODULE ExecutionPromise --------------------------
(***************************************************************************)
(* What the execution engine promises about ONE workflow execution, seen   *)
(* from outside: the nodes of the plan that have really run, the status    *)
(* and the checkpoint (saved node results) that the executions row shows.  *)
(* Nothing is said of workers, brokers or control tasks.  The promise is   *)
(* about nodes and not about steps: a resume may put a step together from  *)
(* nodes that succeeded in different, failed tries of it.                  *)
(***************************************************************************)
EXTENDS Naturals

CONSTANTS NumSteps,     \* number of steps of the execution plan
          Nodes         \* nodes of a step

VARIABLES status,       \* status shown by the executions row ("none": no row)
          saved,        \* nodes that the row shows as done
          ran           \* nodes that have once succeeded or been skipped

vars == <<status, saved, ran>>

Steps == 1..NumSteps
PlanNodes == Steps \X Nodes
NodesOf(s) == {s} \X Nodes
RowStatuses == {"RUNNING", "PAUSED", "COMPLETED", "FAILED", "CANCELLED"}

Init == /\ status = "none"
        /\ saved = {}
        /\ ran = {}

(* Nodes of a step run (again) only after all those of every earlier step. *)
Run == \E s \in Steps, good \in SUBSET Nodes :
         /\ \A r \in Steps : r < s => NodesOf(r) \subseteq ran
         /\ ran' = ran \cup ({s} \X good)
         /\ UNCHANGED <<status, saved>>

(* The row changes.  It shows only nodes that ran, those of a step only    *)
(* behind all of every earlier step, and COMPLETED only when all ran.      *)
Commit == /\ status' \in RowStatuses
          /\ saved' \in SUBSET ran
          /\ \A n \in saved' : \A r \in Steps :
                r < n[1] => NodesOf(r) \subseteq saved'
          /\ status' = "COMPLETED" => ran = PlanNodes
          /\ UNCHANGED ran

Next == Run \/ Commit

Spec == Init /\ [][Next]_vars
=============================================================================
