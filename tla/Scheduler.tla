------------------------------ MODULE Scheduler ------------------------------
(***************************************************************************)
(* CyclicScheduler.plan(): a workflow graph becomes a sequence of steps.   *)
(* A "level" is a set of nodes that run side by side; a "loop" is a        *)
(* strongly connected component unfolded into levels by dropping its back  *)
(* edges.  The order in which nodes and edges are visited is that of the   *)
(* document, because it decides which edges become back edges; the order   *)
(* of the nodes inside a level has no effect on a run.                     *)
(*                                                                         *)
(* phase says where plan() is:                                             *)
(*   "components"  _tarjan_sccs, with the steps of module Components       *)
(*   "schedule"    TopologicalScheduler.schedule, when there is no loop    *)
(*   "rank"        _emit_steps, at the top of its loop                     *)
(*   "loops"       _emit_steps, between the loops of one rank              *)
(*   "search"      _classify_back_edges of one loop                        *)
(*   "unfold"      _kahn_levels of one loop                                *)
(*   "done"        the plan is returned                                    *)
(*   "refused"     E_CYCLE_DETECTED is raised                              *)
(***************************************************************************)
EXTENDS Components, Kahn, Plan

VARIABLES
  phase,
  compIndeg,   \* component -> incoming edges from components not emitted
  frontier,    \* the components whose turn it is (cur of _emit_steps)
  pending,     \* the loops of the frontier that are still to be built
  body,        \* the component that is being built
  color,       \* node of the body -> "white", "gray", "black"
  path,        \* the open calls of dfs, outermost first
  open,        \* node of the body -> its edges still to be followed
  back,        \* the back edges found in the body
  indeg,       \* node -> incoming edges that are not removed yet
  cur,         \* the nodes of the next level
  levels,      \* the levels of the body, so far
  steps        \* the steps of the plan, so far

condensation == <<compIndeg, frontier, pending>>
search       == <<body, color, path, open, back>>
kahn         == <<indeg, cur, levels>>

vars == <<graph, tarjan, phase, condensation, search, kahn, steps>>

DefaultMaxIterations == 10

-----------------------------------------------------------------------------
(* Fault: an edge from a node to itself is not seen as a loop.             *)
IsNontrivialByLength(c) == Cardinality(comps[c]) > 1

(* A component is a loop when it has two nodes or a self edge.             *)
IsNontrivial(c) ==
    \/ Cardinality(comps[c]) > 1
    \/ \E e \in Edges : e.from \in comps[c] /\ e.to = e.from

Loops == {c \in DOMAIN comps : IsNontrivial(c)}

HasExit(c) == comps[c] \cap graph.brancher # {}

CompEdges ==
    {a \in [from : DOMAIN comps, to : DOMAIN comps] :
        /\ a.from # a.to
        /\ \E e \in Edges : e.from \in comps[a.from] /\ e.to \in comps[a.to]}

(* The component that comes first in the document (comp_key).              *)
CompKey(c) == CHOOSE i \in DOMAIN graph.nodes :
                 /\ graph.nodes[i] \in comps[c]
                 /\ \A j \in 1..(i - 1) : graph.nodes[j] \notin comps[c]

Inside == {e \in Edges : e.from \in comps[body] /\ e.to \in comps[body]}
Exits  == {e \in Edges : e.from \in comps[body] /\ e.to \notin comps[body]}

LevelStep(nodes) == [kind |-> "level", levels |-> <<nodes>>,
                     back |-> {}, exit |-> {}, max |-> 1]

(* The guard is the smallest max_iterations of the loop's conditions.      *)
MaxIterations ==
    LET given == {graph.limit[n] : n \in comps[body] \cap graph.brancher
                                                     \cap DOMAIN graph.limit}
    IN  IF given = {} THEN DefaultMaxIterations
        ELSE CHOOSE m \in given : \A k \in given : m <= k

LoopStep == [kind |-> "loop", levels |-> levels, back |-> back,
             exit |-> Exits, max |-> MaxIterations]

-----------------------------------------------------------------------------
Init ==
    /\ graph \in GraphsToPlan
    /\ TarjanInit
    /\ phase = "components"
    /\ compIndeg = <<>> /\ frontier = {} /\ pending = {}
    /\ body = 0 /\ color = <<>> /\ path = <<>>
    /\ open = <<>> /\ back = {}
    /\ indeg = <<>> /\ cur = {} /\ levels = <<>>
    /\ steps = <<>>

FindComponents ==
    /\ phase = "components"
    /\ TarjanNext
    /\ UNCHANGED <<graph, phase, condensation, search, kahn, steps>>

(* Every loop must have a condition node that can leave it.                *)
Refuse ==
    /\ phase = "components" /\ Found
    /\ \E c \in Loops : ~HasExit(c)
    /\ phase' = "refused"
    /\ UNCHANGED <<graph, tarjan, condensation, search, kahn, steps>>

(* A workflow without a loop is left to TopologicalScheduler, which counts *)
(* the nodes it met to make sure that there is no cycle (validate_dag).    *)
Acyclic ==
    /\ phase = "components" /\ Found
    /\ Loops = {}
    /\ phase' = "schedule"
    /\ indeg' = Indegrees(Nodes, Edges)
    /\ cur' = Sources(indeg')
    /\ UNCHANGED <<graph, tarjan, condensation, search, levels, steps>>

ScheduleLevel ==
    /\ phase = "schedule" /\ cur # {}
    /\ steps' = Append(steps, LevelStep(cur))
    /\ indeg' = Decremented(indeg, Edges, cur)
    /\ cur' = Ready(indeg, Edges, cur)
    /\ UNCHANGED <<graph, tarjan, phase, condensation, search, levels>>

ScheduleEnds ==
    /\ phase = "schedule" /\ cur = {}
    /\ phase' = IF \A n \in Nodes : indeg[n] = 0 THEN "done" ELSE "refused"
    /\ UNCHANGED <<graph, tarjan, condensation, search, kahn, steps>>

Condense ==
    /\ phase = "components" /\ Found
    /\ Loops # {} /\ \A c \in Loops : HasExit(c)
    /\ phase' = "rank"
    /\ compIndeg' = Indegrees(DOMAIN comps, CompEdges)
    /\ frontier' = Sources(compIndeg')
    /\ UNCHANGED <<graph, tarjan, pending, search, kahn, steps>>

(* Of each rank the single nodes form one level, before the loops.         *)
WithSingles ==
    LET singles == UNION {comps[c] : c \in frontier \ Loops}
    IN  IF singles = {} THEN steps ELSE Append(steps, LevelStep(singles))

EmitSingles ==
    /\ phase = "rank" /\ frontier # {}
    /\ steps' = WithSingles
    /\ pending' = frontier \cap Loops
    /\ phase' = "loops"
    /\ UNCHANGED <<graph, tarjan, compIndeg, frontier, search, kahn>>

NextRank ==
    /\ phase = "loops" /\ pending = {}
    /\ phase' = "rank"
    /\ compIndeg' = Decremented(compIndeg, CompEdges, frontier)
    /\ frontier' = Ready(compIndeg, CompEdges, frontier)
    /\ UNCHANGED <<graph, tarjan, pending, search, kahn, steps>>

PlanEnds ==
    /\ phase = "rank" /\ frontier = {}
    /\ phase' = "done"
    /\ UNCHANGED <<graph, tarjan, condensation, search, kahn, steps>>

-----------------------------------------------------------------------------
(* _build_loop, for the loops of the rank in the order of their first node *)
(* in the document: the back edges of the body are the edges by which a    *)
(* depth-first search meets a node that is still on its path.              *)

(* Fault: the loops are taken in the order in which they were found.       *)
ComesFirstFound(c) == \A d \in pending : c <= d

ComesFirst(c) == \A d \in pending : CompKey(c) <= CompKey(d)

BuildLoop ==
    /\ phase = "loops"
    /\ \E c \in pending :
          /\ ComesFirst(c)
          /\ body' = c
          /\ color' = [n \in comps[c] |-> "white"]
          /\ open' = [n \in comps[c] |->
                         {e \in OutEdges(n) : e.to \in comps[c]}]
    /\ path' = <<>> /\ back' = {}
    /\ phase' = "search"
    /\ UNCHANGED <<graph, tarjan, condensation, kahn, steps>>

Entered(n) == \E e \in Edges : e.to = n /\ e.from \notin comps[body]

(* Fault: condition nodes are not put last, nor entered nodes first.       *)
StartsBeforeAnyKind(a, b) == index[a] > index[b]

(* The search starts at a node that is entered from outside, or else at    *)
(* one that is no condition; a component lists its nodes as they left the  *)
(* stack.                                                                  *)
StartsBefore(a, b) ==
    LET outside(n) == IF Entered(n) THEN 0 ELSE 1
        condition(n) == IF n \in graph.brancher THEN 1 ELSE 0
    IN  \/ outside(a) < outside(b)
        \/ outside(a) = outside(b) /\ condition(a) < condition(b)
        \/ /\ outside(a) = outside(b) /\ condition(a) = condition(b)
           /\ index[a] > index[b]

White == {n \in comps[body] : color[n] = "white"}
Inner == path[Len(path)]

SearchStart ==
    /\ phase = "search" /\ path = <<>>
    /\ \E s \in White :
          /\ \A n \in White \ {s} : StartsBefore(s, n)
          /\ color' = [color EXCEPT ![s] = "gray"]
          /\ path' = <<s>>
    /\ UNCHANGED <<graph, tarjan, phase, condensation, body, open, back,
                   kahn, steps>>

(* Fault: an edge to any visited node is a back edge.                      *)
BackWithAny(e) == IF color[e.to] # "white" THEN back \cup {e} ELSE back

BackWith(e) == IF color[e.to] = "gray" THEN back \cup {e} ELSE back

SearchEdge ==
    /\ phase = "search" /\ path # <<>>
    /\ \E e \in open[Inner] :
          /\ IsFirst(graph.edges, open[Inner], e)
          /\ open' = [open EXCEPT ![Inner] = @ \ {e}]
          /\ back' = BackWith(e)
          /\ IF color[e.to] = "white"
               THEN /\ color' = [color EXCEPT ![e.to] = "gray"]
                    /\ path' = Append(path, e.to)
               ELSE UNCHANGED <<color, path>>
    /\ UNCHANGED <<graph, tarjan, phase, condensation, body, kahn, steps>>

SearchReturn ==
    /\ phase = "search" /\ path # <<>> /\ open[Inner] = {}
    /\ color' = [color EXCEPT ![Inner] = "black"]
    /\ path' = SubSeq(path, 1, Len(path) - 1)
    /\ UNCHANGED <<graph, tarjan, phase, condensation, body, open, back,
                   kahn, steps>>

(* _kahn_levels over the edges of the body that are no back edges.         *)
Forward == Inside \ back

SearchEnds ==
    /\ phase = "search" /\ path = <<>> /\ White = {}
    /\ phase' = "unfold"
    /\ indeg' = Indegrees(comps[body], Forward)
    /\ cur' = Sources(indeg')
    /\ levels' = <<>>
    /\ UNCHANGED <<graph, tarjan, condensation, search, steps>>

UnfoldLevel ==
    /\ phase = "unfold" /\ cur # {}
    /\ levels' = Append(levels, cur)
    /\ indeg' = Decremented(indeg, Forward, cur)
    /\ cur' = Ready(indeg, Forward, cur)
    /\ UNCHANGED <<graph, tarjan, phase, condensation, search, steps>>

EmitLoop ==
    /\ phase = "unfold" /\ cur = {}
    /\ steps' = Append(steps, LoopStep)
    /\ pending' = pending \ {body}
    /\ phase' = "loops"
    /\ UNCHANGED <<graph, tarjan, compIndeg, frontier, search, kahn>>

Next ==
    \/ FindComponents \/ Refuse \/ Acyclic \/ ScheduleLevel \/ ScheduleEnds
    \/ Condense \/ EmitSingles \/ NextRank \/ PlanEnds
    \/ BuildLoop \/ SearchStart \/ SearchEdge \/ SearchReturn
    \/ SearchEnds \/ UnfoldLevel \/ EmitLoop

Spec == Init /\ [][Next]_vars

-----------------------------------------------------------------------------
(* What a plan must be, stated with reachability.                          *)

LoopSteps == {i \in DOMAIN steps : steps[i].kind = "loop"}

(* No node is lost and none runs twice: every node of a planned workflow   *)
(* stands in exactly one level of one step (plan, _emit_steps).            *)
EachNodeOnce == phase = "done" =>
    /\ UNION {StepNodes(steps[i]) : i \in DOMAIN steps} = Nodes
    /\ \A i, j \in DOMAIN steps :
          \A k \in DOMAIN steps[i].levels, l \in DOMAIN steps[j].levels :
             <<i, k>> # <<j, l>> => steps[i].levels[k] \cap steps[j].levels[l] = {}

(* A node runs after all the nodes its data comes from: every edge but a   *)
(* back edge leads to a later step, or to a later level of the same loop.  *)
EdgesForward == phase = "done" =>
    \A e \in Edges \ UNION {steps[i].back : i \in DOMAIN steps} :
        \E i, j \in DOMAIN steps :
           \E k \in DOMAIN steps[i].levels, l \in DOMAIN steps[j].levels :
              /\ e.from \in steps[i].levels[k] /\ e.to \in steps[j].levels[l]
              /\ i < j \/ (i = j /\ k < l)

(* The loop steps are the strongly connected components with a cycle: two  *)
(* nodes share a loop exactly when each can reach the other.               *)
LoopsAreComponents == phase = "done" =>
    {StepNodes(steps[i]) : i \in LoopSteps}
        = {{m \in Nodes : SameLoop(n, m)} : n \in {k \in Nodes : OnCycle(k)}}

(* A workflow is refused exactly when some cycle has no condition node     *)
(* that could leave it (E_CYCLE_DETECTED).                                 *)
RejectedIffNoExit ==
    /\ phase = "done" => Breakable
    /\ phase = "refused" => ~Breakable

(* A loop body begins with one single node, and with one that is entered   *)
(* from outside the loop if there is any: the code asks only the first     *)
(* level whether the loop is reached at all (_execute_loop).               *)
OneEntry == phase = "done" =>
    \A i \in LoopSteps :
        LET inside == StepNodes(steps[i])
            entered == {e.to : e \in {d \in Edges :
                                 d.to \in inside /\ d.from \notin inside}}
        IN  \E n \in inside : /\ steps[i].levels[1] = {n}
                              /\ entered # {} => n \in entered

(* Only edges that return are cut: from the head of a back edge its tail   *)
(* is reached again by the edges that were kept.                           *)
BackEdgesClose == phase = "done" =>
    \A i \in LoopSteps :
        LET inside == StepNodes(steps[i])
            kept == {e \in Edges \ steps[i].back :
                         e.from \in inside /\ e.to \in inside}
        IN  \A e \in steps[i].back : Reaches(inside, kept, e.to, e.from)

(* What a run takes for granted of its plan (PlansAssumption of module     *)
(* WorkflowRun): no node is lost or runs twice, every step has a level, a  *)
(* loop begins with one node and cuts edges of its own nodes only, and     *)
(* every other edge leads forward (plan, _emit_steps, _build_loop).        *)
PlannedWorkflow == [nodes |-> Nodes, edges |-> Edges,
                    brancher |-> graph.brancher, steps |-> steps]

PlanFitsTheRun == phase = "done" =>
    WellPlanned(PlannedWorkflow) /\ PlannedForward(PlannedWorkflow)

(* _classify_back_edges: "even in a workflow that starts with the loop and *)
(* has no entry edge, condition -> target is chosen as the back edge", so  *)
(* that the condition decides between another round and the exit.  Read    *)
(* for the plainest loop: one cycle with one condition node.               *)
GateClosesLoop == phase = "done" =>
    \A i \in LoopSteps :
        LET inside == StepNodes(steps[i])
            within == {e \in Edges : e.from \in inside /\ e.to \in inside}
            plain == /\ Cardinality(within) = Cardinality(inside)
                     /\ Cardinality(inside \cap graph.brancher) = 1
                     /\ \A e \in Edges : e.to \in inside => e.from \in inside
        IN  plain => \A e \in steps[i].back : e.from \in graph.brancher
=============================================================================
