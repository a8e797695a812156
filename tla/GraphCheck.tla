------------------------------ MODULE GraphCheck ------------------------------
(***************************************************************************)
(* The cycle check of GraphValidator (modules/nodes_graph): a second       *)
(* implementation of the rule by which CyclicScheduler refuses a workflow, *)
(* because the dependency rules forbid sharing one.  Tarjan's algorithm is *)
(* a loop here, over a list of nodes, each with the number of its edges    *)
(* that are passed; a node is met when it is looked at with none passed.   *)
(*                                                                         *)
(* The other checks of the validator (catalog, parameters, isolated nodes) *)
(* have no counterpart in the planner.                                     *)
(***************************************************************************)
EXTENDS WorkflowGraph

VARIABLES
  index,       \* node -> when it was met, or Unseen
  low,         \* node -> the least index known to be reached (lowlink)
  counter,     \* the next index
  stack,       \* the nodes on the stack, which holds them by their index
  comps,       \* the components found so far (sccs), in order
  work,        \* the search: nodes, each with the edges it has passed
  at,          \* "head" of the while loop, or in the loop over the "edges"
  verdict      \* "open", then "passed" or "refused" (E_CYCLE_DETECTED)

found == <<index, low, counter, stack, comps>>
vars  == <<graph, found, work, at, verdict>>

Item(v)  == [node |-> v, passed |-> {}]
Last     == work[Len(work)]
Below    == SubSeq(work, 1, Len(work) - 1)
Searched == verdict = "open" /\ work # <<>>

-----------------------------------------------------------------------------
CheckInit ==
    /\ index = [n \in Nodes |-> Unseen]
    /\ low = [n \in Nodes |-> Unseen]
    /\ counter = 0
    /\ stack = {}
    /\ comps = <<>>
    /\ work = <<>>
    /\ at = "head"
    /\ verdict = "open"

Init == graph \in GraphsToPlan /\ CheckInit

(* The next node of the document that is not met yet.                      *)
Root ==
    /\ verdict = "open" /\ work = <<>>
    /\ \E v \in Nodes :
          /\ IsFirst(graph.nodes, {n \in Nodes : index[n] = Unseen}, v)
          /\ work' = <<Item(v)>>
    /\ at' = "head"
    /\ UNCHANGED <<graph, found, verdict>>

Meet(v) ==
    /\ index' = [index EXCEPT ![v] = counter]
    /\ low' = [low EXCEPT ![v] = counter]
    /\ counter' = counter + 1
    /\ stack' = stack \cup {v}
    /\ UNCHANGED comps

(* Fault: a node is met again each time the search returns to it.          *)
LookAgain ==
    /\ Searched /\ at = "head"
    /\ Meet(Last.node)
    /\ at' = "edges"
    /\ UNCHANGED <<graph, work, verdict>>

(* The node on top; child_idx = 0 stands for the first look at it.         *)
Look ==
    /\ Searched /\ at = "head"
    /\ IF Last.passed = {} THEN Meet(Last.node) ELSE UNCHANGED found
    /\ at' = "edges"
    /\ UNCHANGED <<graph, work, verdict>>

-----------------------------------------------------------------------------
(* Its next edge leads to a node not met yet, which goes on top; or to one *)
(* on the stack; or to one whose component is found.                       *)
Pass(e) == [work EXCEPT ![Len(work)].passed = @ \cup {e}]

Descend(e) ==
    /\ index[e.to] = Unseen
    /\ work' = Append(Pass(e), Item(e.to))
    /\ at' = "head"
    /\ UNCHANGED low

LowerLow(e) ==
    /\ e.to \in stack
    /\ low' = [low EXCEPT ![e.from] = Least(@, index[e.to])]
    /\ work' = Pass(e)
    /\ UNCHANGED at

PassBy(e) ==
    /\ index[e.to] # Unseen /\ e.to \notin stack
    /\ work' = Pass(e)
    /\ UNCHANGED <<low, at>>

Left == OutEdges(Last.node) \ Last.passed

NextEdge ==
    /\ Searched /\ at = "edges"
    /\ \E e \in Left :
          /\ IsFirst(graph.edges, Left, e)
          /\ Descend(e) \/ LowerLow(e) \/ PassBy(e)
    /\ UNCHANGED <<graph, index, counter, stack, comps, verdict>>

(* All edges are passed: the component of a root is taken off the stack,   *)
(* and the node below is lowered to what the top has reached.              *)
Above(v) == {w \in stack : index[w] >= index[v]}

Close(v) ==
    IF low[v] = index[v]
      THEN stack' = stack \ Above(v) /\ comps' = Append(comps, Above(v))
      ELSE UNCHANGED <<stack, comps>>

Return ==
    /\ Searched /\ at = "edges"
    /\ Left = {}
    /\ Close(Last.node)
    /\ work' = Below
    /\ low' = IF Below = <<>> THEN low
              ELSE [low EXCEPT ![work[Len(work) - 1].node] = Least(@, low[Last.node])]
    /\ at' = "head"
    /\ UNCHANGED <<graph, index, counter, verdict>>

-----------------------------------------------------------------------------
(* A component is a loop when it has two nodes or a self edge, and can be  *)
(* left when one of its nodes is a condition.                              *)
IsNontrivial(c) ==
    \/ Cardinality(comps[c]) > 1
    \/ \E e \in Edges : e.from \in comps[c] /\ e.to = e.from

HasCondition(c) == comps[c] \cap graph.brancher # {}

Judge ==
    /\ verdict = "open" /\ work = <<>>
    /\ \A n \in Nodes : index[n] # Unseen
    /\ verdict' = IF \A c \in DOMAIN comps : IsNontrivial(c) => HasCondition(c)
                    THEN "passed" ELSE "refused"
    /\ UNCHANGED <<graph, found, work, at>>

Next == Root \/ Look \/ NextEdge \/ Return \/ Judge

Spec == Init /\ [][Next]_vars

-----------------------------------------------------------------------------
(* The steps of the validator are those of the engine's search (module     *)
(* Components): a node that waits on top to be met counts as met, which it *)
(* is before anything else happens.                                        *)
Waits == at = "head" /\ work # <<>> /\ Last.passed = {}

MetBy(f) == IF Waits THEN [f EXCEPT ![Last.node] = counter] ELSE f

Indexes == MetBy(index)
Lows    == MetBy(low)
Count   == IF Waits THEN counter + 1 ELSE counter
Stacked == IF Waits THEN stack \cup {Last.node} ELSE stack
Calls   == [k \in DOMAIN work |-> work[k].node]

(* A node that is done has no edge left; any other has those it did not    *)
(* pass on the search.                                                     *)
OnWork(n) == {k \in DOMAIN work : work[k].node = n}

EdgesLeft(n) ==
    {e \in OutEdges(n) : /\ index[n] = Unseen \/ OnWork(n) # {}
                         /\ \A k \in OnWork(n) : e \notin work[k].passed}

ToFollow == [n \in Nodes |-> EdgesLeft(n)]

Engine == INSTANCE Components
              WITH index <- Indexes, low <- Lows, counter <- Count,
                   stack <- Stacked, calls <- Calls, todo <- ToFollow

SearchesAsTheEngine == Engine!TarjanInit /\ [][Engine!TarjanNext]_(Engine!tarjan)

(* A workflow passes exactly when every cycle has a condition node that    *)
(* could leave it.                                                         *)
VerdictIsRight ==
    /\ verdict = "passed" => Breakable
    /\ verdict = "refused" => ~Breakable
=============================================================================
