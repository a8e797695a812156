--------------------------------- MODULE Kahn ---------------------------------
(***************************************************************************)
(* One round of Kahn's algorithm, which the planner runs three times: over *)
(* the nodes of a workflow without a loop (TopologicalScheduler.schedule), *)
(* over the nodes of a loop (_kahn_levels) and over the components         *)
(* (_emit_steps).  A is a set of records from, to; cur is the level whose  *)
(* nodes are taken out.                                                    *)
(***************************************************************************)
EXTENDS Integers, FiniteSets

Indegrees(N, A) == [v \in N |-> Cardinality({a \in A : a.to = v})]

Sources(deg) == {v \in DOMAIN deg : deg[v] = 0}

Decremented(deg, A, cur) ==
    [v \in DOMAIN deg |->
        deg[v] - Cardinality({a \in A : a.to = v /\ a.from \in cur})]

(* Fault: a node is ready when any of its incoming edges was removed.      *)
ReadyAny(deg, A, cur) ==
    {v \in DOMAIN deg : deg[v] > 0 /\ Decremented(deg, A, cur)[v] < deg[v]}

(* The nodes whose last incoming edge was just removed.                    *)
Ready(deg, A, cur) ==
    {v \in DOMAIN deg : deg[v] > 0 /\ Decremented(deg, A, cur)[v] = 0}
=============================================================================
