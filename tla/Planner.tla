------------------------------ MODULE Planner --------------------------------
(***************************************************************************)
(* The execution planner of services/execution_engine as functions:        *)
(* CyclicScheduler and TopologicalScheduler.  A workflow graph becomes a   *)
(* sequence of steps: a "level" is a set of nodes that run side by side, a *)
(* "loop" is a strongly connected component unfolded into levels by        *)
(* dropping its back edges.                                                *)
(*                                                                         *)
(* Module Scheduler has the same algorithms as steps, which proofs can     *)
(* follow; the functions here compute the plans of the workflows that      *)
(* MCWorkflowRun runs, and module GraphCheck shares their graphs.  That    *)
(* both give the same plan is PlannersAgree of MCScheduler.                *)
(*                                                                         *)
(* A graph is a record: nodes and edges are sequences (the order of the    *)
(* workflow document), brancher the set of condition nodes, limit the      *)
(* max_iterations parameter of the nodes that have one.                    *)
(***************************************************************************)
EXTENDS Integers, SequencesExt

DefaultMaxIterations == 10

Rejected   == [ok |-> FALSE, steps |-> <<>>, pending |-> FALSE]
Planned(s) == [ok |-> TRUE,  steps |-> s,    pending |-> FALSE]

NodesOf(g) == ToSet(g.nodes)
EdgesOf(g) == ToSet(g.edges)
OutEdges(edges, u) == SelectSeq(edges, LAMBDA e : e.from = u)

-----------------------------------------------------------------------------
(* Strongly connected components, by Tarjan's algorithm.                   *)

Unseen == -1
Least(a, b) == IF a < b THEN a ELSE b

RECURSIVE StrongConnect(_, _, _)
StrongConnect(g, v, st) ==
    LET enter == [st EXCEPT !.index[v] = st.counter, !.low[v] = st.counter,
                            !.counter = @ + 1, !.stack = Append(@, v)]
        visit(s, e) ==
            IF s.index[e.to] = Unseen
              THEN LET t == StrongConnect(g, e.to, s)
                   IN  [t EXCEPT !.low[v] = Least(@, t.low[e.to])]
            ELSE IF Contains(s.stack, e.to)
              THEN [s EXCEPT !.low[v] = Least(@, s.index[e.to])]
            ELSE s
        seen == FoldLeft(visit, enter, OutEdges(g.edges, v))
        at   == CHOOSE i \in DOMAIN seen.stack : seen.stack[i] = v
    IN  IF seen.low[v] # seen.index[v]
          THEN seen
          ELSE [seen EXCEPT
                  !.stack = SubSeq(@, 1, at - 1),
                  !.comps = Append(@, Reverse(SubSeq(seen.stack, at,
                                                     Len(seen.stack))))]

TarjanSccs(g) ==
    LET none == [counter |-> 0, stack |-> <<>>, comps |-> <<>>,
                 index |-> [n \in NodesOf(g) |-> Unseen],
                 low   |-> [n \in NodesOf(g) |-> Unseen]]
        start(s, v) == IF s.index[v] = Unseen THEN StrongConnect(g, v, s) ELSE s
    IN  FoldLeft(start, none, g.nodes).comps

(* A component is a loop when it has two nodes or a self edge.             *)
IsNontrivial(comp, edges) ==
    \/ Len(comp) > 1
    \/ \E i \in DOMAIN edges : edges[i].from = comp[1] /\ edges[i].to = comp[1]

-----------------------------------------------------------------------------
(* Kahn's algorithm over nodes N and a sequence of edges inside N: the     *)
(* frontier is the set of nodes whose last incoming edge was just removed. *)

EdgesInto(edges, S, v) == SelectSeq(edges, LAMBDA e : e.from \in S /\ e.to = v)

RECURSIVE Frontiers(_, _, _)
Frontiers(cur, indeg, edges) ==
    IF cur = {} THEN <<>>
    ELSE LET left == [v \in DOMAIN indeg |->
                         indeg[v] - Len(EdgesInto(edges, cur, v))]
             nxt  == {v \in DOMAIN indeg : indeg[v] > 0 /\ left[v] = 0}
         IN  <<cur>> \o Frontiers(nxt, left, edges)

KahnLevels(N, edges) ==
    LET indeg == [v \in N |-> Len(EdgesInto(edges, N, v))]
    IN  Frontiers({v \in N : indeg[v] = 0}, indeg, edges)

-----------------------------------------------------------------------------
(* Back edges of a component: edges that a depth-first search finds        *)
(* leading to a node still on its stack.  The search starts at a node that *)
(* is entered from outside, or else at one that is not a condition.        *)

StartsBefore(g, comp, a, b) ==
    LET entered(n) == \E e \in EdgesOf(g) : e.to = n /\ ~Contains(comp, e.from)
        place(n) == CHOOSE i \in DOMAIN comp : comp[i] = n
        rank(n) == (IF entered(n) THEN 0 ELSE 2 * Len(comp))
                   + (IF n \in g.brancher THEN Len(comp) ELSE 0) + place(n)
    IN  rank(a) < rank(b)

RECURSIVE Dfs(_, _, _)
Dfs(edges, u, st) ==
    LET visit(s, e) ==
            CASE s.color[e.to] = "gray"  -> [s EXCEPT !.back = @ \cup {e}]
              [] s.color[e.to] = "white" -> Dfs(edges, e.to, s)
              [] s.color[e.to] = "black" -> s
        done == FoldLeft(visit, [st EXCEPT !.color[u] = "gray"],
                         OutEdges(edges, u))
    IN  [done EXCEPT !.color[u] = "black"]

Inside(g, comp) ==
    SelectSeq(g.edges, LAMBDA e : Contains(comp, e.from) /\ Contains(comp, e.to))

BackEdges(g, comp) ==
    LET starts == SortSeq(comp, LAMBDA a, b : StartsBefore(g, comp, a, b))
        visit(s, n) == IF s.color[n] = "white" THEN Dfs(Inside(g, comp), n, s)
                       ELSE s
    IN  FoldLeft(visit,
                 [color |-> [n \in ToSet(comp) |-> "white"], back |-> {}],
                 starts).back

(* The guard is the smallest max_iterations of the loop's conditions.      *)
MaxIterations(g, comp) ==
    LET given == {g.limit[n] : n \in ToSet(comp) \cap g.brancher \cap DOMAIN g.limit}
    IN  IF given = {} THEN DefaultMaxIterations ELSE Min(given)

LevelStep(nodes) == [kind |-> "level", levels |-> <<nodes>>,
                     back |-> {}, exit |-> {}, max |-> 1]

BuildLoop(g, comp) ==
    LET back == BackEdges(g, comp)
        forward == SelectSeq(Inside(g, comp), LAMBDA e : e \notin back)
    IN  [kind |-> "loop",
         levels |-> KahnLevels(ToSet(comp), forward),
         back |-> back,
         exit |-> {e \in EdgesOf(g) : Contains(comp, e.from) /\ ~Contains(comp, e.to)},
         max |-> MaxIterations(g, comp)]

-----------------------------------------------------------------------------
(* _emit_steps: Kahn's algorithm over the condensation.  Of each frontier  *)
(* the single nodes form one level, before the loops, which follow in the  *)
(* order of their first node in the document.                              *)

CompKey(g, comp) == Min({i \in DOMAIN g.nodes : Contains(comp, g.nodes[i])})

EmitRank(g, comps, cur) ==
    LET single == {ci \in cur : ~IsNontrivial(comps[ci], g.edges)}
        loops  == SetToSortSeq(cur \ single, LAMBDA a, b :
                      CompKey(g, comps[a]) < CompKey(g, comps[b]))
    IN  (IF single = {} THEN <<>>
         ELSE <<LevelStep({comps[ci][1] : ci \in single})>>)
        \o [i \in DOMAIN loops |-> BuildLoop(g, comps[loops[i]])]

EmitSteps(g, comps) ==
    LET compOf(n) == CHOOSE ci \in DOMAIN comps : Contains(comps[ci], n)
        between == {<<compOf(e.from), compOf(e.to)>> : e \in EdgesOf(g)}
        compEdges == SetToSeq({[from |-> p[1], to |-> p[2]] :
                                   p \in {q \in between : q[1] # q[2]}})
        ranks == KahnLevels(DOMAIN comps, compEdges)
    IN  FlattenSeq([r \in DOMAIN ranks |-> EmitRank(g, comps, ranks[r])])

PlanOf(g) ==
    LET comps == TarjanSccs(g)
        loops == {ci \in DOMAIN comps : IsNontrivial(comps[ci], g.edges)}
        levels == KahnLevels(NodesOf(g), g.edges)
    IN  IF loops = {} THEN Planned([i \in DOMAIN levels |-> LevelStep(levels[i])])
        ELSE IF \E ci \in loops : ToSet(comps[ci]) \cap g.brancher = {} THEN Rejected
        ELSE Planned(EmitSteps(g, comps))
=============================================================================
