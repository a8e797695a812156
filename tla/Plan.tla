--------------------------------- MODULE Plan ---------------------------------
(***************************************************************************)
(* What the planner hands to a run: an ExecutionPlan is a sequence of      *)
(* steps.  A "level" step is one set of nodes that run side by side, a     *)
(* "loop" step a loop body unfolded into levels, with its back edges, its  *)
(* exit edges and the number of rounds it may take.                        *)
(*                                                                         *)
(* A workflow is a record with the fields nodes, edges and steps (and more *)
(* that is not asked here).  Module Scheduler makes the plans, module      *)
(* WorkflowRun follows them.                                               *)
(***************************************************************************)
EXTENDS Integers, Sequences

(* The nodes of a step (_step_node_ids).                                   *)
StepNodes(s) == UNION {s.levels[k] : k \in DOMAIN s.levels}

StepRecords(w) == [kind : {"level", "loop"}, levels : Seq(SUBSET w.nodes),
                   back : SUBSET w.edges, exit : SUBSET w.edges, max : Int]

(* Every node is in one level of one step, and every step has a level.     *)
WellPlanned(w) ==
    /\ w.steps \in Seq(StepRecords(w))
    /\ w.nodes = UNION {StepNodes(w.steps[i]) : i \in DOMAIN w.steps}
    /\ \A i, j \in DOMAIN w.steps :
          i # j => StepNodes(w.steps[i]) \cap StepNodes(w.steps[j]) = {}
    /\ \A i \in DOMAIN w.steps :
          LET levels == w.steps[i].levels
          IN  /\ levels # <<>>
              /\ \A k, l \in DOMAIN levels : k # l => levels[k] \cap levels[l] = {}

(* A plan runs forward: every edge but a back edge leads to a later step,  *)
(* or to a later level of the same loop; only a loop has several levels,   *)
(* of which the first is a single node, and back edges, which come from    *)
(* its own nodes.                                                          *)
PlannedForward(w) ==
    /\ \A e \in w.edges \ UNION {w.steps[i].back : i \in DOMAIN w.steps} :
          \E i, j \in DOMAIN w.steps :
             \E k \in DOMAIN w.steps[i].levels, l \in DOMAIN w.steps[j].levels :
                /\ e.from \in w.steps[i].levels[k]
                /\ e.to \in w.steps[j].levels[l]
                /\ i < j \/ (i = j /\ k < l)
    /\ \A i \in DOMAIN w.steps :
          IF w.steps[i].kind = "loop"
            THEN /\ \E n \in w.nodes : w.steps[i].levels[1] = {n}
                 /\ \A e \in w.steps[i].back : e.from \in StepNodes(w.steps[i])
            ELSE Len(w.steps[i].levels) = 1 /\ w.steps[i].back = {}
=============================================================================
