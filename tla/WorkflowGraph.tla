----------------------------- MODULE WorkflowGraph -----------------------------
(***************************************************************************)
(* The graph of a workflow, as the planner of the engine and the validator *)
(* of the catalog read it, and what is true of a graph whoever reads it.   *)
(*                                                                         *)
(* A workflow graph is a record: nodes and edges are sequences (the order  *)
(* of the workflow document), brancher the set of condition nodes, limit   *)
(* the max_iterations parameter of the nodes that have one.                *)
(***************************************************************************)
EXTENDS Integers, Sequences, FiniteSets

CONSTANT GraphsToPlan      \* the workflow graphs to plan

NodesOf(g) == {g.nodes[i] : i \in DOMAIN g.nodes}
EdgesOf(g) == {g.edges[i] : i \in DOMAIN g.edges}

(* WorkflowSchema.validate_graph, which plan() asks first: every edge      *)
(* joins two nodes of the workflow.  A limit is an integer (_build_loop    *)
(* takes no other).                                                        *)
IsGraph(g) ==
    /\ g.nodes \in Seq(NodesOf(g)) /\ g.edges \in Seq(EdgesOf(g))
    /\ \A e \in EdgesOf(g) : e.from \in NodesOf(g) /\ e.to \in NodesOf(g)
    /\ \A n \in DOMAIN g.limit : g.limit[n] \in Int

ASSUME GraphsAssumption == \A g \in GraphsToPlan : IsGraph(g)

VARIABLE graph             \* the workflow that is looked at

Nodes == NodesOf(graph)
Edges == EdgesOf(graph)

-----------------------------------------------------------------------------
Unseen == -1
Least(a, b) == IF a < b THEN a ELSE b

(* The place of an element in the document, and the first of a set.        *)
Place(s, x) == CHOOSE i \in DOMAIN s : s[i] = x /\ \A j \in 1..(i - 1) : s[j] # x
IsFirst(s, S, x) == x \in S /\ \A y \in S : Place(s, x) <= Place(s, y)

OutEdges(u) == {e \in Edges : e.from = u}

-----------------------------------------------------------------------------
(* Reference: b is reached from a along the edges of E when every set that *)
(* holds a and that no edge leaves holds b.                                *)
IsClosed(S, E) == \A e \in E : e.from \in S => e.to \in S
Reaches(N, E, a, b) ==
    \A S \in SUBSET N : a \in S /\ IsClosed(S, E) => b \in S

SameLoop(a, b) == Reaches(Nodes, Edges, a, b) /\ Reaches(Nodes, Edges, b, a)

(* A node that can return to itself.                                       *)
OnCycle(n) == \/ \E m \in Nodes \ {n} : SameLoop(n, m)
              \/ \E e \in Edges : e.from = n /\ e.to = n

(* Every cycle has a condition node that could leave it.                   *)
Breakable == \A n \in Nodes : OnCycle(n) =>
                 \E m \in Nodes \cap graph.brancher : SameLoop(n, m)
=============================================================================
