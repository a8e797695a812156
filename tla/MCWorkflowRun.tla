---------------------------- MODULE MCWorkflowRun ----------------------------
(* Workflows to run: every graph that joins three nodes by few edges,     *)
(* and some larger ones, each with the plan of module Planner.             *)
EXTENDS WorkflowRun, Planner

CONSTANT MaxEdges3          \* bound on the edges of the graphs of three nodes

MCSelectors == {"yes", "no", "other"}

(* An edge of a condition leaves by one of its handles; the handle of any  *)
(* other node does not matter.                                             *)
Handles(n, b) == IF n \in b THEN {"yes", "no"} ELSE {"out"}

EdgesOver(N, b) == {e \in [from : N, to : N, handle : {"yes", "no", "out"}] :
                        e.handle \in Handles(e.from, b)}

EdgeLess(a, b) == \/ a.from < b.from
                  \/ a.from = b.from /\ a.to < b.to
                  \/ a.from = b.from /\ a.to = b.to /\ a.handle = "no"
                                                    /\ b.handle = "yes"
Ascending(E) == SetToSortSeq(E, EdgeLess)

Graph(n, E, b, limit) ==
    [nodes |-> [i \in 1..n |-> i], edges |-> Ascending(E), brancher |-> b,
     limit |-> [k \in b |-> limit]]

UpTo(k, S) == UNION {kSubset(i, S) : i \in 0..k}

(* A node without an edge runs apart from the others, and a condition with *)
(* no edge to choose is like any other node: neither is worth a graph.     *)
Small == UNION {{Graph(3, E, b, 2) :
                    E \in {F \in UpTo(MaxEdges3, EdgesOver(1..3, b)) :
                              /\ \A k \in b : \E e \in F : e.from = k
                              /\ \A n \in 1..3 :
                                    \E e \in F : n \in {e.from, e.to}}} :
                    b \in UpTo(2, 1..3)}

E(a, b, h) == [from |-> a, to |-> b, handle |-> h]

(* The quality gate of ADR-0023, with a parallel branch and a reporter; a  *)
(* loop behind a branch; a branch that joins again; two loops in a row.    *)
Large == {
    Graph(5, {E(1, 2, "out"), E(2, 3, "out"), E(3, 2, "no"), E(3, 4, "yes"),
              E(1, 5, "out"), E(5, 4, "out")}, {3}, 3),
    Graph(4, {E(1, 2, "yes"), E(1, 4, "no"), E(2, 3, "out"), E(3, 2, "no"),
              E(3, 4, "yes")}, {1, 3}, 2),
    Graph(4, {E(1, 2, "yes"), E(1, 3, "no"), E(2, 4, "out"), E(3, 4, "out")},
          {1}, 2),
    Graph(4, {E(1, 2, "out"), E(2, 1, "no"), E(2, 3, "yes"), E(3, 4, "out"),
              E(4, 3, "no")}, {2, 4}, 2)}

MCWorkflows ==
    {[nodes |-> ToSet(g.nodes), edges |-> ToSet(g.edges), brancher |-> g.brancher,
      steps |-> PlanOf(g).steps] :
        g \in {h \in Small \cup Large : PlanOf(h).ok}}
=============================================================================
