----------------------------- MODULE MCScheduler -----------------------------
(* All small workflow graphs: three nodes whose edges may be parallel (two *)
(* handles of one condition) and may return to their node, and four nodes  *)
(* with single edges; at most two of the nodes are conditions.  The edges  *)
(* of the document come in either order.  And a larger graph.              *)
EXTENDS Admission, FiniteSetsExt, SequencesExt

P == INSTANCE Planner

CONSTANTS MaxEdges3, MaxEdges4      \* bounds on the number of edges

EdgeLess(a, b) == \/ a.from < b.from
                  \/ a.from = b.from /\ a.to < b.to
                  \/ a.from = b.from /\ a.to = b.to /\ a.handle < b.handle

Ascending(E) == <<>> \o [i \in 1..Cardinality(E) |->
                    CHOOSE e \in E : Cardinality({d \in E : EdgeLess(d, e)}) = i - 1]

UpTo(k, S) == {{}} \cup {{f[i] : i \in 1..k} : f \in [1..k -> S]}

(* The number of nodes and the edges of a graph.                           *)
Shapes ==
    ({3} \X UpTo(MaxEdges3, [from : 1..3, to : 1..3, handle : {1, 2}]))
    \cup ({4} \X UpTo(MaxEdges4, {e \in [from : 1..4, to : 1..4, handle : {1}] :
                                      e.from # e.to}))

Graph(n, es, b) == [nodes |-> [i \in 1..n |-> i], edges |-> es,
                    brancher |-> b, limit |-> <<>>]

(* Two loops of one rank, which Tarjan's algorithm finds in an order other *)
(* than that of the document.                                              *)
TwoLoops ==
    LET edge(a, b) == [from |-> a, to |-> b, handle |-> 1]
    IN  Graph(3, <<edge(1, 3), edge(1, 2), edge(2, 2), edge(3, 3)>>, {2, 3})

MCGraphs ==
    {TwoLoops} \cup
    {Graph(c[1][1], IF c[2] THEN Ascending(c[1][2])
                            ELSE Reverse(Ascending(c[1][2])), c[3]) :
        c \in {d \in Shapes \X BOOLEAN \X UpTo(2, 1..4) : d[3] \subseteq 1..d[1][1]}}

(* The steps of plan() give what the functions of module Planner give,     *)
(* which the runs of a workflow take their plans from.                     *)
PlannersAgree ==
    /\ phase = "done" => P!PlanOf(graph) = P!Planned(steps)
    /\ phase = "refused" => ~P!PlanOf(graph).ok
=============================================================================
