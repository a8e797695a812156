------------------------------ MODULE Components ------------------------------
(***************************************************************************)
(* Tarjan's algorithm as CyclicScheduler._tarjan_sccs runs it, one edge at *)
(* a time: the nodes whose calls of strongconnect are open, the edges each *)
(* node has not followed yet (strongconnect is called once for a node, so  *)
(* its loop is known by the node), the nodes on the stack, and the         *)
(* components found so far.  The GraphValidator of modules/nodes_graph     *)
(* runs the same steps with an explicit stack of calls (GraphCheck).       *)
(***************************************************************************)
EXTENDS WorkflowGraph

VARIABLES
  index,       \* node -> when it was met, or Unseen
  low,         \* node -> the least index known to be reached (lowlink)
  counter,     \* the next index
  stack,       \* the nodes on the stack, which holds them by their index
  calls,       \* the open calls of strongconnect, outermost first
  todo,        \* node -> its edges that are still to be followed
  comps        \* the components found so far (result), in order

tarjan == <<index, low, counter, stack, calls, todo, comps>>

-----------------------------------------------------------------------------
(* The innermost open call, and the calls once it is over.                 *)
Top == calls[Len(calls)]
Outer == SubSeq(calls, 1, Len(calls) - 1)

TarjanInit ==
    /\ index = [n \in Nodes |-> Unseen]
    /\ low = [n \in Nodes |-> Unseen]
    /\ counter = 0
    /\ stack = {}
    /\ calls = <<>>
    /\ todo = [n \in Nodes |-> OutEdges(n)]
    /\ comps = <<>>

Enter(v) ==
    /\ index' = [index EXCEPT ![v] = counter]
    /\ low' = [low EXCEPT ![v] = counter]
    /\ counter' = counter + 1
    /\ stack' = stack \cup {v}
    /\ calls' = Append(calls, v)
    /\ UNCHANGED comps

(* The outermost call, for the next node of the document not met yet.      *)
StartRoot ==
    /\ calls = <<>>
    /\ \E v \in Nodes :
          /\ IsFirst(graph.nodes, {n \in Nodes : index[n] = Unseen}, v)
          /\ Enter(v)
    /\ UNCHANGED todo

(* The next edge leads to a node not met yet: a call for that node opens.  *)
Descend(e) == index[e.to] = Unseen /\ Enter(e.to)

(* It leads to a node on the stack, or to one whose component is found.    *)
LowerLow(e) ==
    /\ e.to \in stack
    /\ low' = [low EXCEPT ![e.from] = Least(@, index[e.to])]
    /\ UNCHANGED <<index, counter, stack, calls, comps>>

PassBy(e) ==
    /\ index[e.to] # Unseen /\ e.to \notin stack
    /\ UNCHANGED <<index, low, counter, stack, calls, comps>>

FollowEdge ==
    /\ calls # <<>>
    /\ \E e \in todo[Top] :
          /\ IsFirst(graph.edges, todo[Top], e)
          /\ todo' = [todo EXCEPT ![Top] = @ \ {e}]
          /\ Descend(e) \/ LowerLow(e) \/ PassBy(e)

(* A root of a component takes the component off the stack: all that was   *)
(* pushed since.  The caller is lowered to what the call reached.          *)
Above(v) == {w \in stack : index[w] >= index[v]}

Close(v) ==
    IF low[v] = index[v]
      THEN stack' = stack \ Above(v) /\ comps' = Append(comps, Above(v))
      ELSE UNCHANGED <<stack, comps>>

Return ==
    /\ calls # <<>>
    /\ todo[Top] = {}
    /\ Close(Top)
    /\ low' = IF Outer = <<>> THEN low
              ELSE [low EXCEPT ![calls[Len(calls) - 1]] = Least(@, low[Top])]
    /\ calls' = Outer
    /\ UNCHANGED <<index, counter, todo>>

TarjanNext == StartRoot \/ FollowEdge \/ Return

Found == calls = <<>> /\ \A n \in Nodes : index[n] # Unseen
=============================================================================
