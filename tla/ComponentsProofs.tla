--------------------------- MODULE ComponentsProofs ---------------------------
(***************************************************************************)
(* Tarjan's algorithm is right for every graph: TarjanInv is kept by each  *)
(* step of _tarjan_sccs, and when no node is left to start from, the       *)
(* components found are the classes of nodes that reach each other, those  *)
(* that are reached first.                                                 *)
(*                                                                         *)
(* The heart of it: every node on the stack reaches an open call met       *)
(* before it (OpenReached), every open call reaches what is above it on    *)
(* the stack (OpenReach), and low covers the edges followed so far from    *)
(* the part of the stack the call owns (LowCovers).  When low is still the *)
(* own index, no edge leads below, and what is above is a component.       *)
(* Last, that the search comes to its end: SearchLeft descends.            *)
(***************************************************************************)
EXTENDS Components, FiniteSetTheorems, WellFoundedInduction, TLAPS

(* b is reached from a in the workflow.                                   *)
R(a, b) == Reaches(Nodes, Edges, a, b)

(* The open calls; the nodes met; the nodes of the components found.       *)
Open == {calls[k] : k \in DOMAIN calls}
Met(n) == index[n] # Unseen
InComp(n) == \E c \in DOMAIN comps : n \in comps[c]

TarjanTypeOK ==
    /\ index \in [Nodes -> Int] /\ low \in [Nodes -> Int]
    /\ counter \in Nat
    /\ stack \in SUBSET Nodes
    /\ calls \in Seq(Nodes)
    /\ todo \in [Nodes -> SUBSET Edges]
    /\ comps \in Seq(SUBSET Nodes)

(* A node's index is the moment it was met, and no other node's.           *)
Indexed ==
    /\ \A n \in Nodes : Met(n) => index[n] \in 0..(counter - 1)
    /\ \A m, n \in Nodes : Met(m) /\ index[m] = index[n] => m = n

(* Open calls are on the stack, in the order they were met.                *)
Sorted == /\ Open \subseteq stack
          /\ \A k, l \in DOMAIN calls : k < l => index[calls[k]] < index[calls[l]]

(* A node met is on the stack or in one component.                         *)
Parted ==
    /\ \A n \in Nodes : Met(n) <=> n \in stack \/ InComp(n)
    /\ \A n \in stack : ~InComp(n)
    /\ \A c, d \in DOMAIN comps : c # d => comps[c] \cap comps[d] = {}

(* A node not met has all its edges to follow, a finished call none.       *)
Remaining ==
    \A n \in Nodes : /\ todo[n] \subseteq OutEdges(n)
                     /\ ~Met(n) => todo[n] = OutEdges(n)
                     /\ Met(n) /\ n \notin Open => todo[n] = {}

(* An edge that was followed leads to a node met.                          *)
HeadsMet == \A e \in Edges : e \notin todo[e.from] => Met(e.to)

(* No edge leads from a component to one found later, or to the stack.     *)
Sealed == \A e \in Edges : \A c \in DOMAIN comps : e.from \in comps[c] =>
              \E d \in DOMAIN comps : d <= c /\ e.to \in comps[d]

(* An open call reaches all that was pushed since.                         *)
OpenReach == \A g \in Open, x \in stack : index[g] <= index[x] => R(g, x)

(* A node on the stack reaches an open call met no later.                  *)
OpenReached == \A x \in stack : \E g \in Open : index[g] <= index[x] /\ R(x, g)

(* low is the index of a node on the stack that the call reaches.          *)
LowReached == \A g \in Open : \E y \in stack :
                  index[y] = low[g] /\ index[y] <= index[g] /\ R(g, y)

(* The innermost open call that is met no later than u.                    *)
Owns(g, u) == /\ index[g] <= index[u]
              /\ \A h \in Open : index[g] < index[h] => index[u] < index[h]

(* low covers the edges followed from the nodes the call owns.             *)
LowCovers == \A g \in Open : \A e \in Edges :
    e \notin todo[e.from] /\ e.from \in stack /\ e.to \in stack /\ Owns(g, e.from)
        => low[g] <= index[e.to]

(* A component is a class of nodes that reach each other.                  *)
Strong == \A c \in DOMAIN comps :
    /\ comps[c] # {}
    /\ \A m \in comps[c], n \in Nodes : n \in comps[c] <=> R(m, n) /\ R(n, m)

(* The inductive invariant of _tarjan_sccs.                                *)
TarjanInv == /\ TarjanTypeOK /\ Indexed /\ Sorted /\ Parted /\ Remaining /\ HeadsMet
             /\ Sealed /\ OpenReach /\ OpenReached /\ LowReached /\ LowCovers
             /\ Strong

-----------------------------------------------------------------------------
(* Every edge joins two nodes of the workflow (validate_graph).            *)
LEMMA EdgesJoinNodes ==
  ASSUME IsGraph(graph)
  PROVE  \A e \in Edges : e.from \in Nodes /\ e.to \in Nodes
BY DEF IsGraph, Edges, Nodes

(* Reachability is reflexive and transitive, and follows the edges.        *)
LEMMA ReachBasics ==
  /\ \A a : R(a, a)
  /\ \A a, b, c : R(a, b) /\ R(b, c) => R(a, c)
  /\ \A e \in Edges : R(e.from, e.to)
BY DEF R, Reaches, IsClosed

(* A closed set holds all that is reached from it.                         *)
LEMMA ReachClosed ==
  ASSUME NEW S \in SUBSET Nodes, IsClosed(S, Edges), NEW a \in S, NEW b, R(a, b)
  PROVE  b \in S
BY DEF R, Reaches

(* Nodes, edges and reachability depend on the graph alone.                *)
LEMMA GraphStays ==
  ASSUME UNCHANGED graph
  PROVE  /\ Nodes' = Nodes /\ Edges' = Edges /\ \A a, b : R(a, b)' <=> R(a, b)
         /\ \A n : OutEdges(n)' = OutEdges(n)
BY DEF Nodes, Edges, R, Reaches, IsClosed, OutEdges

-----------------------------------------------------------------------------
(* The open calls as a set: a call is pushed, and popped.                  *)

(* The innermost open call is the one met last.                            *)
LEMMA TopIsOpen ==
  ASSUME TarjanTypeOK, Sorted, calls # <<>>
  PROVE  Top \in Open /\ \A g \in Open : index[g] <= index[Top]
<1>1. PICK L \in Nat \ {0} : L = Len(calls)
  BY DEF TarjanTypeOK
<1>2. DOMAIN calls = 1..L /\ \A k \in 1..L : index[calls[k]] \in Int
  BY <1>1 DEF TarjanTypeOK
<1>3. Top = calls[L] /\ L \in 1..L
  BY <1>1 DEF Top
<1>4. ASSUME NEW k \in 1..L  PROVE index[calls[k]] <= index[Top]
  BY <1>2, <1>3 DEF Sorted
<1> QED BY <1>2, <1>3, <1>4 DEF Open

(* A new call joins the open ones as the innermost.                        *)
LEMMA Pushed ==
  ASSUME TarjanTypeOK, NEW v \in Nodes, calls' = Append(calls, v)
  PROVE  /\ calls' \in Seq(Nodes) /\ Open' = Open \cup {v} /\ Len(calls) \in Nat
         /\ DOMAIN calls' = 1..(Len(calls) + 1) /\ DOMAIN calls = 1..Len(calls)
         /\ calls'[Len(calls) + 1] = v
         /\ \A k \in 1..Len(calls) : calls'[k] = calls[k]
<1>1. PICK L \in Nat : L = Len(calls)
  BY DEF TarjanTypeOK
<1>2. /\ calls' \in Seq(Nodes) /\ DOMAIN calls' = 1..(L + 1) /\ DOMAIN calls = 1..L
      /\ calls'[L + 1] = v /\ \A k \in 1..L : calls'[k] = calls[k]
  BY <1>1 DEF TarjanTypeOK
<1>3. Open' = Open \cup {v}
  BY <1>2 DEF Open
<1> QED BY <1>1, <1>2, <1>3

(* The innermost call is over; its caller is the innermost now.            *)
LEMMA Popped ==
  ASSUME TarjanTypeOK, Indexed, Sorted, Parted, calls # <<>>, calls' = Outer
  PROVE  /\ calls' \in Seq(Nodes) /\ Open' = Open \ {Top}
         /\ \A k, l \in DOMAIN calls' : k < l => index[calls'[k]] < index[calls'[l]]
         /\ Outer = <<>> => Open' = {}
         /\ Outer # <<>> =>
               /\ calls[Len(calls) - 1] \in Open'
               /\ \A g \in Open' : index[g] <= index[calls[Len(calls) - 1]]
<1>1. PICK L \in Nat \ {0} : L = Len(calls)
  BY DEF TarjanTypeOK
<1>2. /\ DOMAIN calls = 1..L /\ Top = calls[L] /\ L \in 1..L
      /\ \A k \in 1..L : calls[k] \in Nodes /\ index[calls[k]] \in Int
  BY <1>1 DEF TarjanTypeOK, Top
<1>3. /\ Outer \in Seq(Nodes) /\ Len(Outer) = L - 1 /\ DOMAIN Outer = 1..(L - 1)
      /\ \A k \in 1..(L - 1) : Outer[k] = calls[k]
  BY <1>1, <1>2 DEF Outer, TarjanTypeOK
<1>4. \A k \in 1..(L - 1) : k \in 1..L /\ k < L
  OBVIOUS
<1>5. \A k \in 1..(L - 1) : index[calls[k]] < index[Top] /\ calls[k] # Top
  BY <1>2, <1>4 DEF Sorted
<1>6. Open' = {calls[k] : k \in 1..(L - 1)}
  BY <1>3 DEF Open
<1>7. Open' = Open \ {Top}
  <2>1. \A k \in 1..L : k = L \/ k \in 1..(L - 1)
    OBVIOUS
  <2>2. Open = {calls[k] : k \in 1..L}
    BY <1>2 DEF Open
  <2>3. Open \ {Top} = {calls[k] : k \in 1..(L - 1)}
    BY <2>1, <2>2, <1>2, <1>4, <1>5
  <2> QED BY <2>3, <1>6
<1>8. \A k, l \in 1..(L - 1) : k < l => index[calls[k]] < index[calls[l]]
  BY <1>2, <1>4 DEF Sorted
<1>9. Outer = <<>> => Open' = {}
  BY <1>3, <1>6
<1>10. ASSUME Outer # <<>>
       PROVE  /\ calls[L - 1] \in Open'
              /\ \A g \in Open' : index[g] <= index[calls[L - 1]]
  <2>1. L - 1 \in 1..(L - 1)
    BY <1>10, <1>3
  <2>2. ASSUME NEW k \in 1..(L - 1)  PROVE index[calls[k]] <= index[calls[L - 1]]
    BY <2>1, <1>8, <1>2, <1>4
  <2> QED BY <2>1, <2>2, <1>6
<1> QED BY <1>1, <1>3, <1>7, <1>8, <1>9, <1>10

-----------------------------------------------------------------------------
(* Before the first call nothing is met.                                   *)
LEMMA TarjanStarts ==
  ASSUME IsGraph(graph), TarjanInit
  PROVE  TarjanInv
<1>1. /\ calls = <<>> /\ DOMAIN calls = {} /\ comps = <<>> /\ DOMAIN comps = {}
      /\ stack = {} /\ counter = 0 /\ \A n \in Nodes : index[n] = Unseen
      /\ todo = [n \in Nodes |-> OutEdges(n)]
  BY DEF TarjanInit
<1>2. TarjanTypeOK
  BY <1>1 DEF TarjanInit, TarjanTypeOK, Unseen, OutEdges
<1>3. HeadsMet
  BY <1>1, EdgesJoinNodes DEF HeadsMet, Met, OutEdges
<1>4. Indexed /\ Parted /\ Sorted /\ Sealed /\ Remaining
  BY <1>1 DEF Indexed, Parted, Sorted, Sealed, Met, InComp, Remaining, Open
<1>5. OpenReach /\ OpenReached /\ LowReached /\ LowCovers /\ Strong
  BY <1>1 DEF OpenReach, OpenReached, LowReached, LowCovers, Strong, Open
<1> QED BY <1>2, <1>3, <1>4, <1>5 DEF TarjanInv

(* A call opens for a node that is not met yet: the next of the document,  *)
(* or the head of the edge that the innermost call follows.                *)
LEMMA EnterKeeps ==
  ASSUME IsGraph(graph), TarjanInv, UNCHANGED graph,
         NEW v \in Nodes, ~Met(v), Enter(v),
         \/ calls = <<>> /\ UNCHANGED todo
         \/ /\ calls # <<>>
            /\ \E e \in todo[Top] :
                  e.to = v /\ todo' = [todo EXCEPT ![Top] = @ \ {e}]
  PROVE  TarjanInv'
<1>g. /\ Nodes' = Nodes /\ Edges' = Edges /\ \A a, b : R(a, b)' <=> R(a, b)
      /\ \A n : OutEdges(n)' = OutEdges(n)
  BY GraphStays
<1>1. /\ TarjanTypeOK /\ Indexed /\ Sorted /\ Parted /\ Remaining /\ HeadsMet /\ Sealed
      /\ OpenReach /\ OpenReached /\ LowReached /\ LowCovers /\ Strong
  BY DEF TarjanInv
<1>2. /\ index' = [index EXCEPT ![v] = counter]
      /\ low' = [low EXCEPT ![v] = counter]
      /\ counter' = counter + 1 /\ stack' = stack \cup {v} /\ comps' = comps
      /\ calls' = Append(calls, v)
  BY DEF Enter
<1>3. /\ v \notin stack /\ ~InComp(v) /\ Open \subseteq stack /\ v \notin Open
      /\ todo[v] = OutEdges(v)
  BY <1>1 DEF Parted, Sorted, Remaining
<1>4. /\ \A n \in stack : /\ n \in Nodes /\ Met(n) /\ n # v
                          /\ index'[n] = index[n] /\ low'[n] = low[n]
                          /\ index[n] < counter /\ index[n] \in Int /\ low[n] \in Int
      /\ index'[v] = counter /\ low'[v] = counter /\ counter \in Nat
  BY <1>1, <1>2, <1>3 DEF TarjanTypeOK, Parted, Indexed
<1>5. /\ calls' \in Seq(Nodes) /\ Open' = Open \cup {v} /\ Len(calls) \in Nat
      /\ DOMAIN calls' = 1..(Len(calls) + 1) /\ DOMAIN calls = 1..Len(calls)
      /\ calls'[Len(calls) + 1] = v
      /\ \A k \in 1..Len(calls) : calls'[k] = calls[k]
  BY <1>1, <1>2, Pushed
<1>6. /\ \A n \in Nodes : /\ todo'[n] \subseteq todo[n] /\ (n # Top => todo'[n] = todo[n])
                          /\ n \notin Open => todo'[n] = todo[n]
      /\ todo' \in [Nodes -> SUBSET Edges]
      /\ \A d \in Edges : d \notin todo'[d.from] =>
            d \notin todo[d.from] \/ (d.to = v /\ d.from = Top /\ calls # <<>>)
  BY <1>1, TopIsOpen, EdgesJoinNodes DEF TarjanTypeOK
<1>7. \A g \in Open : R(g, v)
  <2>1. SUFFICES ASSUME NEW g \in Open  PROVE R(g, v)
    OBVIOUS
  <2>2. calls # <<>>
    BY <1>5 DEF Open
  <2>3. PICK e \in todo[Top] : e.to = v
    BY <2>2
  <2>4. /\ Top \in Open /\ index[g] <= index[Top] /\ Top \in Nodes
    BY <2>2, <1>1, TopIsOpen, <1>3, <1>4
  <2>5. e \in Edges /\ e.from = Top
    BY <2>4, <1>1 DEF Remaining, OutEdges
  <2> QED BY <2>3, <2>4, <2>5, <1>1, <1>3, ReachBasics DEF OpenReach
<1>8. \A n \in Nodes : Met(n)' <=> Met(n) \/ n = v
  BY <1>1, <1>2, <1>4 DEF Met, TarjanTypeOK, Unseen
<1>t. TarjanTypeOK'
  <2>1. /\ index' \in [Nodes -> Int] /\ low' \in [Nodes -> Int]
        /\ counter' \in Nat /\ stack' \in SUBSET Nodes
    BY <1>1, <1>2 DEF TarjanTypeOK
  <2> QED BY <2>1, <1>1, <1>g, <1>2, <1>5, <1>6 DEF TarjanTypeOK
<1>i. Indexed'
  <2>1. \A n \in Nodes : n # v => index'[n] = index[n]
    BY <1>1, <1>2 DEF TarjanTypeOK
  <2>2. \A n \in Nodes : Met(n)' => index'[n] \in 0..(counter' - 1)
    BY <2>1, <1>1, <1>2, <1>4, <1>8 DEF Indexed
  <2>3. \A m, n \in Nodes : Met(m)' /\ index'[m] = index'[n] => m = n
    <3>1. ASSUME NEW m \in Nodes, NEW n \in Nodes, Met(m)', index'[m] = index'[n]
          PROVE  m = n
      <4>1. Met(n)'
        BY <3>1, <1>g DEF Met
      <4>2. \A x \in Nodes : Met(x) => index[x] # counter
        BY <1>1, <1>4 DEF Indexed
      <4> QED BY <3>1, <4>1, <4>2, <2>1, <1>4, <1>8, <1>1 DEF Indexed
    <3> QED BY <3>1
  <2> QED BY <2>2, <2>3, <1>g DEF Indexed
<1>s. Sorted'
  <2>0. PICK L \in Nat : L = Len(calls)
    BY <1>5
  <2>1. \A k \in 1..L : calls[k] \in stack
    BY <2>0, <1>3, <1>5 DEF Open
  <2>2. ASSUME NEW k \in 1..(L + 1), NEW l \in 1..(L + 1), k < l
        PROVE  index'[calls'[k]] < index'[calls'[l]]
    <3>1. k \in 1..L
      BY <2>2
    <3>2. CASE l = L + 1
      BY <3>1, <3>2, <2>0, <2>1, <1>5, <1>4
    <3>3. CASE l \in 1..L
      BY ZenonT(30), <3>1, <3>3, <2>2, <2>0, <2>1, <1>5, <1>4, <1>1 DEF Sorted
    <3> QED BY <3>2, <3>3, <2>2
  <2> QED BY <2>0, <2>2, <1>5, <1>2, <1>3 DEF Sorted
<1>p. Parted'
  <2>1. \A n \in Nodes : InComp(n)' <=> InComp(n)
    BY <1>2 DEF InComp
  <2> QED BY <2>1, <1>1, <1>g, <1>2, <1>3, <1>8, <1>4 DEF Parted
<1>l. Remaining'
  <2>1. ASSUME NEW n \in Nodes
        PROVE  /\ todo'[n] \subseteq OutEdges(n)
               /\ ~Met(n)' => todo'[n] = OutEdges(n)
               /\ Met(n)' /\ n \notin Open' => todo'[n] = {}
    <3>1. ~Met(n)' => ~Met(n) /\ n \notin Open
      BY <1>8, <1>3, <1>4
    <3>2. n \notin Open' => n \notin Open /\ n # v
      BY <1>5
    <3> QED BY <3>1, <3>2, <1>1, <1>6, <1>8 DEF Remaining
  <2> QED BY <2>1, <1>g DEF Remaining
<1>h. HeadsMet'
  BY <1>1, <1>g, <1>8, <1>6, EdgesJoinNodes DEF HeadsMet
<1>e. Sealed'
  BY <1>1, <1>g, <1>2 DEF Sealed
<1>c. OpenReach'
  <2>1. ASSUME NEW g \in Open', NEW x \in stack', index'[g] <= index'[x]
        PROVE  R(g, x)
    <3>1. CASE x = v
      BY <3>1, <1>5, <1>7, ReachBasics
    <3>2. CASE x # v
      BY <3>2, <2>1, <1>1, <1>2, <1>3, <1>4, <1>5 DEF OpenReach
    <3> QED BY <3>1, <3>2
  <2> QED BY <2>1, <1>g DEF OpenReach
<1>d. OpenReached'
  <2>1. ASSUME NEW x \in stack'
        PROVE  \E g \in Open' : index'[g] <= index'[x] /\ R(x, g)
    <3>1. CASE x = v
      BY <3>1, <1>5, <1>4, ReachBasics
    <3>2. CASE x # v
      BY <3>2, <2>1, <1>1, <1>2, <1>3, <1>4, <1>5 DEF OpenReached
    <3> QED BY <3>1, <3>2
  <2> QED BY <2>1, <1>g DEF OpenReached
<1>w. LowReached'
  <2>1. ASSUME NEW g \in Open'
        PROVE  \E y \in stack' : /\ index'[y] = low'[g] /\ index'[y] <= index'[g]
                                 /\ R(g, y)
    <3>1. CASE g = v
      BY <3>1, <1>2, <1>4, ReachBasics
    <3>2. CASE g # v
      BY <3>2, <2>1, <1>1, <1>2, <1>3, <1>4, <1>5 DEF LowReached
    <3> QED BY <3>1, <3>2
  <2> QED BY <2>1, <1>g DEF LowReached
<1>o. LowCovers'
  <2>1. ASSUME NEW g \in Open', NEW d \in Edges, d \notin todo'[d.from],
               d.from \in stack', d.to \in stack', Owns(g, d.from)'
        PROVE  low'[g] <= index'[d.to]
    <3>1. d.from # v
      BY <2>1, <1>6, <1>3, EdgesJoinNodes DEF OutEdges
    <3>2. g \in Open /\ d.from \in stack
      BY <2>1, <3>1, <1>2, <1>4, <1>5 DEF Owns
    <3>3. low[g] <= index[g]
      BY <3>2, <1>1 DEF LowReached
    <3>4. CASE d.to = v
      BY <3>4, <3>3, <3>2, <1>3, <1>4
    <3>5. CASE d.to # v
      <4>1. d \notin todo[d.from] /\ d.to \in stack
        BY <3>5, <2>1, <1>2, <1>6
      <4>2. Owns(g, d.from)
        BY <2>1, <3>2, <1>3, <1>4, <1>5 DEF Owns
      <4> QED BY <4>1, <4>2, <3>2, <1>1, <1>3, <1>4 DEF LowCovers
    <3> QED BY <3>4, <3>5
  <2> QED BY <2>1, <1>g DEF LowCovers
<1>r. Strong'
  BY <1>1, <1>g, <1>2 DEF Strong
<1> QED BY <1>t, <1>i, <1>s, <1>p, <1>l, <1>h, <1>e, <1>c, <1>d, <1>w, <1>o, <1>r DEF TarjanInv

(* An edge to a node that was met is followed: low covers it from then on. *)
LEMMA FollowedKeeps ==
  ASSUME IsGraph(graph), TarjanInv, UNCHANGED graph, calls # <<>>,
         NEW e \in todo[Top], todo' = [todo EXCEPT ![Top] = @ \ {e}],
         LowerLow(e) \/ PassBy(e)
  PROVE  TarjanInv'
<1>g. /\ Nodes' = Nodes /\ Edges' = Edges /\ \A a, b : R(a, b)' <=> R(a, b)
      /\ \A n : OutEdges(n)' = OutEdges(n)
  BY GraphStays
<1>1. /\ TarjanTypeOK /\ Indexed /\ Sorted /\ Parted /\ Remaining /\ HeadsMet /\ Sealed
      /\ OpenReach /\ OpenReached /\ LowReached /\ LowCovers /\ Strong
  BY DEF TarjanInv
<1>2. /\ index' = index /\ counter' = counter /\ stack' = stack
      /\ calls' = calls /\ comps' = comps /\ Open' = Open
  BY DEF LowerLow, PassBy, Open
<1>3. /\ Top \in Open /\ Top \in stack /\ Top \in Nodes
      /\ \A g \in Open : index[g] <= index[Top]
  BY <1>1, TopIsOpen DEF Sorted, TarjanTypeOK
<1>4. /\ e \in Edges /\ e.from = Top /\ e.to \in Nodes /\ Met(e.to)
  <2>1. e \in Edges /\ e.from = Top /\ e.to \in Nodes
    BY <1>1, <1>3, EdgesJoinNodes DEF Remaining, OutEdges
  <2> QED BY <2>1, <1>1 DEF LowerLow, PassBy, Parted, Met
<1>5. /\ \A n \in Nodes : todo'[n] \subseteq todo[n] /\ (n # Top => todo'[n] = todo[n])
      /\ todo' \in [Nodes -> SUBSET Edges]
      /\ \A d \in Edges : d \notin todo'[d.from] => d \notin todo[d.from] \/ d = e
  BY <1>1, <1>3, EdgesJoinNodes DEF TarjanTypeOK
<1>6. \A n \in Nodes : /\ index[n] \in Int /\ low[n] \in Int /\ low'[n] \in Int
                       /\ low'[n] <= low[n]
                       /\ n # Top => low'[n] = low[n]
                       /\ low'[n] # low[n] => /\ e.to \in stack /\ n = Top
                                              /\ low'[n] = index[e.to]
  <2>1. CASE LowerLow(e)
    BY <2>1, <1>1, <1>3, <1>4 DEF TarjanTypeOK, LowerLow, Least
  <2>2. CASE PassBy(e)
    BY <2>2, <1>1 DEF TarjanTypeOK, PassBy
  <2> QED BY <2>1, <2>2
<1>7. e.to \in stack => low'[Top] <= index[e.to]
  <2>1. CASE LowerLow(e)
    BY <2>1, <1>1, <1>3, <1>4 DEF TarjanTypeOK, LowerLow, Least
  <2> QED BY <2>1 DEF PassBy
<1>8. \A n : Met(n)' <=> Met(n)
  BY <1>2 DEF Met
<1>t. TarjanTypeOK'
  <2>1. low' \in [Nodes -> Int]
    BY <1>1, <1>6 DEF TarjanTypeOK, LowerLow, PassBy
  <2> QED BY <2>1, <1>1, <1>g, <1>2, <1>5 DEF TarjanTypeOK
<1>i. Indexed' /\ Sorted' /\ Sealed' /\ OpenReach' /\ OpenReached' /\ Strong'
  BY <1>1, <1>g, <1>2, <1>8 DEF Indexed, Sorted, Sealed, OpenReach, OpenReached, Strong
<1>p. Parted'
  BY <1>1, <1>g, <1>2, <1>8 DEF Parted, InComp
<1>l. Remaining'
  BY <1>1, <1>g, <1>2, <1>3, <1>5, <1>8 DEF Remaining, Parted
<1>h. HeadsMet'
  BY <1>1, <1>g, <1>4, <1>5, <1>8 DEF HeadsMet
<1>w. LowReached'
  <2>1. ASSUME NEW g \in Open
        PROVE  \E y \in stack : index[y] = low'[g] /\ index[y] <= index[g] /\ R(g, y)
    <3>0. g \in Nodes
      BY <1>1 DEF Sorted, TarjanTypeOK
    <3>1. CASE low'[g] = low[g]
      BY <3>1, <1>1 DEF LowReached
    <3>2. CASE low'[g] # low[g]
      <4>1. e.to \in stack /\ g = Top /\ low'[g] = index[e.to] /\ index[e.to] <= low[g]
        BY <3>0, <3>2, <1>6
      <4>2. low[g] <= index[g]
        BY <1>1 DEF LowReached
      <4>3. R(g, e.to)
        BY <4>1, <1>4, ReachBasics
      <4> QED BY <4>1, <4>2, <4>3, <1>6, <3>0, <1>4
    <3> QED BY <3>1, <3>2
  <2> QED BY <2>1, <1>2, <1>g DEF LowReached
<1>o. LowCovers'
  <2>1. ASSUME NEW g \in Open, NEW d \in Edges, d \notin todo'[d.from],
               d.from \in stack, d.to \in stack, Owns(g, d.from)
        PROVE  low'[g] <= index[d.to]
    <3>0. g \in Nodes /\ d.to \in Nodes
      BY <2>1, <1>1 DEF Sorted, TarjanTypeOK
    <3>1. CASE d = e
      <4>1. g = Top
        <5>1. index[g] = index[Top]
          BY <3>1, <2>1, <1>4, <1>3, <1>6, <3>0 DEF Owns
        <5> QED BY <5>1, <1>3, <1>1, <3>0 DEF Indexed, Parted
      <4> QED BY <4>1, <3>1, <2>1, <1>7
    <3>2. CASE d # e
      <4>1. low[g] <= index[d.to]
        BY <3>2, <2>1, <1>1, <1>5 DEF LowCovers
      <4> QED BY <4>1, <3>0, <1>6
    <3> QED BY <3>1, <3>2
  <2>2. \A g, u : Owns(g, u)' <=> Owns(g, u)
    BY <1>2 DEF Owns
  <2> QED BY <2>1, <2>2, <1>2, <1>g DEF LowCovers
<1> QED BY <1>t, <1>i, <1>p, <1>l, <1>h, <1>w, <1>o DEF TarjanInv

(* A call returns whose node is no root: what it reached is further down   *)
(* the stack, and its nodes are left to a call that is still open.         *)
LEMMA InnerReturnKeeps ==
  ASSUME IsGraph(graph), TarjanInv, UNCHANGED graph, Return, low[Top] # index[Top]
  PROVE  TarjanInv'
<1>g. /\ Nodes' = Nodes /\ Edges' = Edges /\ \A a, b : R(a, b)' <=> R(a, b)
      /\ \A n : OutEdges(n)' = OutEdges(n)
  BY GraphStays
<1>1. /\ TarjanTypeOK /\ Indexed /\ Sorted /\ Parted /\ Remaining /\ HeadsMet /\ Sealed
      /\ OpenReach /\ OpenReached /\ LowReached /\ LowCovers /\ Strong
  BY DEF TarjanInv
<1>2. /\ index' = index /\ counter' = counter /\ stack' = stack /\ comps' = comps
      /\ todo' = todo /\ calls # <<>> /\ todo[Top] = {} /\ calls' = Outer
  BY DEF Return, Close
<1>3. /\ Top \in Open /\ Top \in stack /\ Top \in Nodes
      /\ \A g \in Open : index[g] <= index[Top] /\ g \in stack /\ g \in Nodes
  BY <1>1, <1>2, TopIsOpen DEF Sorted, TarjanTypeOK
<1>4. /\ calls' \in Seq(Nodes) /\ Open' = Open \ {Top}
      /\ \A k, l \in DOMAIN calls' : k < l => index[calls'[k]] < index[calls'[l]]
      /\ Outer = <<>> => Open' = {}
      /\ Outer # <<>> =>
            /\ calls[Len(calls) - 1] \in Open'
            /\ \A g \in Open' : index[g] <= index[calls[Len(calls) - 1]]
  BY <1>1, <1>2, Popped
<1>5. \A n \in Nodes : index[n] \in Int /\ low[n] \in Int
  BY <1>1 DEF TarjanTypeOK
<1>6. \A n : Met(n)' <=> Met(n)
  BY <1>2 DEF Met
(* The node y that low stands for, and the call h that y is left to.       *)
<1>7. PICK y \in stack : index[y] = low[Top] /\ index[y] < index[Top] /\ R(Top, y)
  BY <1>1, <1>3, <1>5 DEF LowReached, Return, TarjanTypeOK
<1>8. PICK h \in Open : index[h] <= index[y] /\ R(y, h)
  BY <1>1 DEF OpenReached
<1>9. h \in Open' /\ h # Top /\ R(Top, h) /\ index[h] < index[Top] /\ Outer # <<>>
  BY <1>7, <1>8, <1>3, <1>4, <1>5, <1>1, ReachBasics DEF TarjanTypeOK
<1>10. PICK p \in Open' : /\ p = calls[Len(calls) - 1]
                          /\ \A g \in Open' : index[g] <= index[p]
                          /\ low' = [low EXCEPT ![p] = Least(@, low[Top])]
  BY <1>4, <1>9 DEF Return
<1>11. /\ p \in Nodes /\ p \in Open /\ p # Top /\ index[p] <= index[Top]
       /\ \A n \in Nodes : /\ low'[n] \in Int /\ low'[n] <= low[n]
                           /\ n # p => low'[n] = low[n]
                           /\ low'[n] # low[n] => n = p /\ low'[n] = low[Top]
       /\ low'[p] <= low[Top]
  BY SMTT(20), <1>10, <1>4, <1>3, <1>5, <1>1 DEF Least, TarjanTypeOK
<1>t. TarjanTypeOK'
  <2>1. low' \in [Nodes -> Int]
    BY <1>1, <1>10, <1>11 DEF TarjanTypeOK
  <2> QED BY <2>1, <1>1, <1>g, <1>2, <1>4 DEF TarjanTypeOK
<1>i. Indexed' /\ Sealed' /\ Strong' /\ HeadsMet'
  BY <1>1, <1>g, <1>2, <1>6 DEF Indexed, Sealed, Strong, HeadsMet
<1>s. Sorted'
  BY <1>1, <1>2, <1>4 DEF Sorted
<1>p. Parted'
  BY <1>1, <1>g, <1>2, <1>6 DEF Parted, InComp
<1>l. Remaining'
  BY <1>1, <1>g, <1>2, <1>4, <1>6 DEF Remaining
<1>c. OpenReach'
  BY <1>1, <1>g, <1>2, <1>4 DEF OpenReach
<1>d. OpenReached'
  <2>1. ASSUME NEW x \in stack  PROVE \E g \in Open' : index[g] <= index[x] /\ R(x, g)
    <3>1. PICK g \in Open : index[g] <= index[x] /\ R(x, g)
      BY <1>1 DEF OpenReached
    <3>2. CASE g # Top
      BY <3>1, <3>2, <1>4
    <3>3. CASE g = Top
      <4>1. R(x, h)
        BY <3>1, <3>3, <1>9, ReachBasics
      <4>2. x \in Nodes /\ h \in Nodes
        BY <1>1, <1>3 DEF TarjanTypeOK
      <4>3. index[h] <= index[x]
        BY <4>2, <3>1, <3>3, <1>9, <1>5, <1>3
      <4> QED BY <4>1, <4>3, <1>9
    <3> QED BY <3>2, <3>3
  <2> QED BY <2>1, <1>g, <1>2 DEF OpenReached
<1>w. LowReached'
  <2>1. ASSUME NEW g \in Open'
        PROVE  \E z \in stack : index[z] = low'[g] /\ index[z] <= index[g] /\ R(g, z)
    <3>0. g \in Open /\ g \in Nodes
      BY <1>4, <1>3
    <3>1. CASE low'[g] = low[g]
      BY <3>1, <3>0, <1>1 DEF LowReached
    <3>2. CASE low'[g] # low[g]
      <4>1. g = p /\ low'[g] = index[y] /\ index[y] <= low[g]
        BY <3>0, <3>2, <1>11, <1>7
      <4>2. low[g] <= index[g]
        BY <3>0, <1>1 DEF LowReached
      <4>3. R(p, Top)
        BY <1>11, <1>3, <1>1 DEF OpenReach
      <4>4. R(g, y)
        BY <4>1, <4>3, <1>7, ReachBasics
      <4>5. y \in Nodes
        BY <1>1 DEF TarjanTypeOK
      <4> QED BY <4>1, <4>2, <4>4, <4>5, <1>5, <3>0
    <3> QED BY <3>1, <3>2
  <2> QED BY <2>1, <1>2, <1>g DEF LowReached
<1>o. LowCovers'
  <2>1. ASSUME NEW g \in Open', NEW d \in Edges, d \notin todo[d.from],
               d.from \in stack, d.to \in stack, Owns(g, d.from)'
        PROVE  low'[g] <= index[d.to]
    <3>0. /\ g \in Open /\ g \in Nodes /\ d.to \in Nodes /\ d.from \in Nodes
          /\ index[g] <= index[d.from]
      BY <2>1, <1>1, <1>4, <1>3, <1>2 DEF TarjanTypeOK, Owns
    <3>1. CASE Owns(g, d.from)
      <4>1. low[g] <= index[d.to]
        BY <3>0, <3>1, <2>1, <1>1 DEF LowCovers
      <4> QED BY <4>1, <3>0, <1>11, <1>5
    <3>2. CASE ~Owns(g, d.from)
      <4>1. Owns(Top, d.from)
        <5>1. \A k \in Open \ {Top} : index[g] < index[k] => index[d.from] < index[k]
          BY <2>1, <1>2, <1>4 DEF Owns
        <5>2. index[Top] <= index[d.from]
          BY <5>1, <3>0, <3>2, <1>3, <1>5 DEF Owns
        <5> QED BY <5>2, <1>3, <1>5 DEF Owns
      <4>2. low[Top] <= index[d.to]
        BY <4>1, <1>3, <2>1, <1>1 DEF LowCovers
      <4>3. g = p
        <5>1. index[g] <= index[p]
          BY <1>10
        <5>2. ~(index[g] < index[p])
          BY <4>1, <2>1, <1>2, <1>10, <1>11, <1>5, <3>0, <1>3 DEF Owns
        <5>3. index[g] = index[p]
          BY <5>1, <5>2, <1>5, <3>0, <1>11
        <5> QED BY <5>3, <3>0, <1>1, <1>11, <1>3 DEF Indexed, Parted
      <4> QED BY <4>2, <4>3, <1>11, <1>5, <3>0, <1>3
    <3> QED BY <3>1, <3>2
  <2> QED BY <2>1, <1>2, <1>g DEF LowCovers
<1> QED BY <1>t, <1>i, <1>s, <1>p, <1>l, <1>c, <1>d, <1>w, <1>o DEF TarjanInv

(* The call of a root returns: no edge leaves its component but to one     *)
(* that was found before, and its nodes reach each other.                  *)
LEMMA RootReturnKeeps ==
  ASSUME IsGraph(graph), TarjanInv, UNCHANGED graph, Return, low[Top] = index[Top]
  PROVE  TarjanInv'
<1>g. /\ Nodes' = Nodes /\ Edges' = Edges /\ \A a, b : R(a, b)' <=> R(a, b)
      /\ \A n : OutEdges(n)' = OutEdges(n)
  BY GraphStays
<1>1. /\ TarjanTypeOK /\ Indexed /\ Sorted /\ Parted /\ Remaining /\ HeadsMet /\ Sealed
      /\ OpenReach /\ OpenReached /\ LowReached /\ LowCovers /\ Strong
  BY DEF TarjanInv
<1> DEFINE C == Above(Top)
<1>2. /\ index' = index /\ counter' = counter /\ stack' = stack \ C
      /\ comps' = Append(comps, C)
      /\ todo' = todo /\ calls # <<>> /\ todo[Top] = {} /\ calls' = Outer
  BY DEF Return, Close
<1>3. /\ Top \in Open /\ Top \in stack /\ Top \in Nodes
      /\ \A g \in Open : index[g] <= index[Top] /\ g \in stack /\ g \in Nodes
  BY <1>1, <1>2, TopIsOpen DEF Sorted, TarjanTypeOK
<1>4. /\ calls' \in Seq(Nodes) /\ Open' = Open \ {Top}
      /\ \A k, l \in DOMAIN calls' : k < l => index[calls'[k]] < index[calls'[l]]
      /\ Outer = <<>> => Open' = {}
      /\ Outer # <<>> =>
            /\ calls[Len(calls) - 1] \in Open'
            /\ \A g \in Open' : index[g] <= index[calls[Len(calls) - 1]]
  BY <1>1, <1>2, Popped
<1>5. \A n \in Nodes : index[n] \in Int /\ low[n] \in Int
  BY <1>1 DEF TarjanTypeOK
<1>6. \A n : Met(n)' <=> Met(n)
  BY <1>2 DEF Met
<1>7. /\ C \subseteq stack /\ C \subseteq Nodes /\ Top \in C
      /\ \A x \in stack : x \in C <=> index[Top] <= index[x]
      /\ \A x \in stack : x \notin C <=> index[x] < index[Top]
  BY <1>1, <1>3, <1>5 DEF Above, TarjanTypeOK
<1>8. \A g \in Open' : g \in Open /\ index[g] < index[Top] /\ g \in stack'
  <2>1. SUFFICES ASSUME NEW g \in Open'  PROVE g \in Open /\ index[g] < index[Top] /\ g \in stack'
    OBVIOUS
  <2>2. g \in Open /\ g # Top /\ index[g] <= index[Top] /\ g \in stack /\ g \in Nodes
    BY <1>3, <1>4
  <2>3. index[g] # index[Top]
    BY <2>2, <1>1, <1>3 DEF Indexed, Parted
  <2> QED BY <2>2, <2>3, <1>2, <1>3, <1>5, <1>7
(* The caller, if any, has a low below the component already.              *)
<1>9. \A n \in Nodes : n \in Open' => low'[n] = low[n]
  <2>1. CASE Outer = <<>>
    BY <2>1, <1>4
  <2>2. CASE Outer # <<>>
    <3>1. PICK p \in Open' : p = calls[Len(calls) - 1] /\ low' = [low EXCEPT ![p] = Least(@, low[Top])]
      BY <2>2, <1>4 DEF Return
    <3>2. p \in Nodes /\ p \in Open /\ index[p] < index[Top]
      BY <3>1, <1>8, <1>3
    <3>3. low[p] <= index[p]
      BY <3>2, <1>1 DEF LowReached
    <3>4. Least(low[p], low[Top]) = low[p]
      BY <3>2, <3>3, <1>5, <1>3 DEF Least
    <3> QED BY <3>1, <3>2, <3>4, <1>1 DEF TarjanTypeOK
  <2> QED BY <2>1, <2>2
<1>10. low' \in [Nodes -> Int]
  <2>1. CASE Outer = <<>>
    BY <2>1, <1>1 DEF Return, TarjanTypeOK
  <2>2. CASE Outer # <<>>
    <3>1. /\ low' = [low EXCEPT ![calls[Len(calls) - 1]] = Least(@, low[Top])]
          /\ calls[Len(calls) - 1] \in Nodes
      BY <2>2, <1>4, <1>8, <1>3 DEF Return
    <3>2. Least(low[calls[Len(calls) - 1]], low[Top]) \in Int
      BY <3>1, <1>5, <1>3 DEF Least
    <3> QED BY <3>1, <3>2, <1>1 DEF TarjanTypeOK
  <2> QED BY <2>1, <2>2
<1>11. PICK m \in Nat : /\ DOMAIN comps = 1..m /\ DOMAIN comps' = 1..(m + 1)
                        /\ comps'[m + 1] = C /\ \A c \in 1..m : comps'[c] = comps[c]
                        /\ comps' \in Seq(SUBSET Nodes)
  <2>1. comps \in Seq(SUBSET Nodes) /\ C \in SUBSET Nodes
    BY <1>1, <1>7 DEF TarjanTypeOK
  <2> HIDE DEF C
  <2>2. PICK m \in Nat : m = Len(comps)
    BY <2>1
  <2>3. /\ DOMAIN comps = 1..m /\ DOMAIN Append(comps, C) = 1..(m + 1)
        /\ Append(comps, C)[m + 1] = C
        /\ \A c \in 1..m : Append(comps, C)[c] = comps[c]
        /\ Append(comps, C) \in Seq(SUBSET Nodes)
    BY <2>1, <2>2
  <2> QED BY <2>2, <2>3, <1>2
<1>12. \A n : InComp(n)' <=> InComp(n) \/ n \in C
  <2>1. \A c \in 1..(m + 1) : c = m + 1 \/ c \in 1..m
    OBVIOUS
  <2>2. \A c \in 1..m : c \in 1..(m + 1)
    OBVIOUS
  <2> QED BY <2>1, <2>2, <1>11 DEF InComp
(* Every edge out of the component was followed, and low covers it.        *)
<1>13. \A e \in Edges : e.from \in C => e.to \in C \/ InComp(e.to)
  <2>1. SUFFICES ASSUME NEW e \in Edges, e.from \in C, e.to \in stack  PROVE e.to \in C
    <3>1. \A e \in Edges : e.from \in C => e.to \in Nodes /\ Met(e.to)
      <4>1. SUFFICES ASSUME NEW e \in Edges, e.from \in C  PROVE e.to \in Nodes /\ Met(e.to)
        OBVIOUS
      <4>2. e.from \in Nodes /\ e.to \in Nodes /\ e.from \in stack
        BY <4>1, <1>7, EdgesJoinNodes
      <4>3. e.from \notin Open \/ e.from = Top
        BY <4>1, <1>7, <1>8, <1>4, <4>2
      <4>4. todo[e.from] = {}
        BY <4>2, <4>3, <1>1, <1>2 DEF Remaining, Parted
      <4> QED BY <4>2, <4>4, <1>1 DEF HeadsMet
    <3> QED BY <3>1, <1>1 DEF Parted
  <2>2. e.from \in Nodes /\ e.to \in Nodes /\ e.from \in stack
    BY <2>1, <1>7, EdgesJoinNodes
  <2>3. e.from \notin Open \/ e.from = Top
    BY <2>1, <1>7, <1>8, <1>4, <2>2
  <2>4. todo[e.from] = {}
    BY <2>2, <2>3, <1>1, <1>2 DEF Remaining, Parted
  <2>5. Owns(Top, e.from)
    BY <2>1, <2>2, <1>7, <1>3, <1>5 DEF Owns
  <2>6. low[Top] <= index[e.to]
    BY <2>1, <2>2, <2>4, <2>5, <1>3, <1>1 DEF LowCovers
  <2> QED BY <2>1, <2>6, <1>7
<1>14. \A x \in C : R(x, Top) /\ R(Top, x)
  <2>1. SUFFICES ASSUME NEW x \in C  PROVE R(x, Top) /\ R(Top, x)
    OBVIOUS
  <2>2. R(Top, x)
    BY <1>1, <1>3, <1>7 DEF OpenReach
  <2>3. PICK g \in Open : index[g] <= index[x] /\ R(x, g)
    BY <1>1, <1>7 DEF OpenReached
  <2>4. R(g, Top)
    BY <1>1, <1>3 DEF OpenReach
  <2> QED BY <2>2, <2>3, <2>4, ReachBasics
<1>t. TarjanTypeOK'
  BY <1>1, <1>g, <1>2, <1>4, <1>10, <1>11, <1>7 DEF TarjanTypeOK
<1>i. Indexed' /\ HeadsMet'
  BY <1>1, <1>g, <1>2, <1>6 DEF Indexed, HeadsMet
<1>s. Sorted'
  BY <1>2, <1>4, <1>8 DEF Sorted
<1>p. Parted'
  <2>1. \A n \in Nodes : Met(n)' <=> n \in stack' \/ InComp(n)'
    BY <1>1, <1>6, <1>12, <1>2, <1>7 DEF Parted
  <2>2. \A n \in stack' : ~InComp(n)'
    BY <1>1, <1>12, <1>2 DEF Parted
  <2>3. ASSUME NEW c \in 1..(m + 1), NEW d \in 1..(m + 1), c # d
        PROVE  comps'[c] \cap comps'[d] = {}
    <3>1. \A k \in 1..m : comps[k] \cap C = {}
      BY <1>1, <1>7, <1>11 DEF Parted, InComp
    <3>2. \A k \in 1..(m + 1) : k = m + 1 \/ k \in 1..m
      OBVIOUS
    <3> QED BY <2>3, <3>1, <3>2, <1>1, <1>11 DEF Parted
  <2> QED BY <2>1, <2>2, <2>3, <1>g, <1>11 DEF Parted
<1>l. Remaining'
  BY <1>1, <1>g, <1>2, <1>4, <1>6 DEF Remaining
<1>e. Sealed'
  <2>1. ASSUME NEW e \in Edges, NEW c \in 1..(m + 1), e.from \in comps'[c]
        PROVE  \E d \in 1..(m + 1) : d <= c /\ e.to \in comps'[d]
    <3>1. CASE c \in 1..m
      BY <3>1, <2>1, <1>11, <1>1 DEF Sealed
    <3>2. CASE c = m + 1
      <4>1. CASE e.to \in C
        BY <4>1, <3>2, <1>11
      <4>2. CASE e.to \notin C
        <5>1. PICK d \in 1..m : e.to \in comps[d]
          BY <4>2, <3>2, <2>1, <1>11, <1>13 DEF InComp
        <5> QED BY <5>1, <3>2, <1>11
      <4> QED BY <4>1, <4>2
    <3> QED BY <3>1, <3>2
  <2> QED BY <2>1, <1>g, <1>11 DEF Sealed
<1>c. OpenReach'
  BY <1>1, <1>g, <1>2, <1>4 DEF OpenReach
<1>d. OpenReached'
  <2>1. ASSUME NEW x \in stack'  PROVE \E g \in Open' : index[g] <= index[x] /\ R(x, g)
    <3>1. x \in stack /\ index[x] < index[Top] /\ x \in Nodes
      BY <1>2, <1>7, <1>1 DEF TarjanTypeOK
    <3>2. PICK g \in Open : index[g] <= index[x] /\ R(x, g)
      BY <3>1, <1>1 DEF OpenReached
    <3>3. g # Top
      BY <3>1, <3>2, <1>5, <1>3
    <3> QED BY <3>2, <3>3, <1>4
  <2> QED BY <2>1, <1>g, <1>2 DEF OpenReached
<1>w. LowReached'
  <2>1. ASSUME NEW g \in Open'
        PROVE  \E z \in stack' : index[z] = low'[g] /\ index[z] <= index[g] /\ R(g, z)
    <3>1. g \in Open /\ g \in Nodes /\ index[g] < index[Top] /\ low'[g] = low[g]
      BY <1>8, <1>9, <1>3
    <3>2. PICK z \in stack : index[z] = low[g] /\ index[z] <= index[g] /\ R(g, z)
      BY <3>1, <1>1 DEF LowReached
    <3>3. z \in Nodes
      BY <1>1 DEF TarjanTypeOK
    <3>4. z \in stack'
      BY <3>1, <3>2, <3>3, <1>2, <1>7, <1>5, <1>3
    <3> QED BY <3>1, <3>2, <3>4
  <2> QED BY <2>1, <1>g, <1>2 DEF LowReached
<1>o. LowCovers'
  <2>1. ASSUME NEW g \in Open', NEW d \in Edges, d \notin todo[d.from],
               d.from \in stack', d.to \in stack', Owns(g, d.from)'
        PROVE  low'[g] <= index[d.to]
    <3>1. g \in Open /\ g \in Nodes /\ low'[g] = low[g]
      BY <1>8, <1>9, <1>3
    <3>2. /\ d.from \in stack /\ d.to \in stack /\ index[d.from] < index[Top]
          /\ d.from \in Nodes
      BY <2>1, <1>2, <1>7, <1>1 DEF TarjanTypeOK
    <3>3. Owns(g, d.from)
      BY <2>1, <3>2, <1>2, <1>4 DEF Owns
    <3> QED BY <2>1, <3>1, <3>2, <3>3, <1>1 DEF LowCovers
  <2> QED BY <2>1, <1>g, <1>2 DEF LowCovers
<1>r. Strong'
  <2>1. ASSUME NEW c \in 1..(m + 1)
        PROVE  /\ comps'[c] # {}
               /\ \A x \in comps'[c], n \in Nodes : n \in comps'[c] <=> R(x, n) /\ R(n, x)
    <3>1. CASE c \in 1..m
      BY <3>1, <1>11, <1>1 DEF Strong
    <3>2. CASE c = m + 1
      <4>1. ASSUME NEW x \in C, NEW n \in Nodes, R(x, n), R(n, x)  PROVE n \in C
        <5> DEFINE F == {k \in Nodes : InComp(k)}
        <5>1. IsClosed(F, Edges)
          <6>1. ASSUME NEW e \in Edges, e.from \in F  PROVE e.to \in F
            BY <6>1, <1>1, EdgesJoinNodes DEF Sealed, InComp
          <6> QED BY <6>1 DEF IsClosed
        <5>2. IsClosed(F \cup C, Edges)
          <6>1. ASSUME NEW e \in Edges, e.from \in F \cup C  PROVE e.to \in F \cup C
            BY <6>1, <5>1, <1>13, EdgesJoinNodes DEF IsClosed
          <6> QED BY <6>1 DEF IsClosed
        <5>3. n \in F \cup C
          BY <4>1, <5>2, <1>7, ReachClosed
        <5>4. n \in F => x \in F
          BY <4>1, <5>1, ReachClosed
        <5>5. x \notin F
          BY <1>7, <1>1 DEF Parted
        <5> QED BY <5>3, <5>4, <5>5
      <4>2. \A x \in C, n \in C : R(x, n) /\ R(n, x)
        BY <1>14, ReachBasics
      <4> QED BY <4>1, <4>2, <3>2, <1>7, <1>11
    <3> QED BY <3>1, <3>2
  <2> QED BY <2>1, <1>g, <1>11 DEF Strong
<1> QED BY <1>t, <1>i, <1>s, <1>p, <1>l, <1>e, <1>c, <1>d, <1>w, <1>o, <1>r DEF TarjanInv

(* Each step of _tarjan_sccs keeps the invariant.                          *)
LEMMA TarjanKeeps ==
  ASSUME IsGraph(graph), TarjanInv, UNCHANGED graph, TarjanNext
  PROVE  TarjanInv'
<1>1. CASE StartRoot
  <2>1. PICK v \in Nodes : ~Met(v) /\ Enter(v) /\ UNCHANGED todo /\ calls = <<>>
    BY <1>1 DEF StartRoot, IsFirst, Met
  <2> QED BY <2>1, EnterKeeps
<1>2. CASE FollowEdge
  <2>1. PICK e \in todo[Top] : /\ todo' = [todo EXCEPT ![Top] = @ \ {e}] /\ calls # <<>>
                               /\ Descend(e) \/ LowerLow(e) \/ PassBy(e)
    BY <1>2 DEF FollowEdge
  <2>2. CASE Descend(e)
    <3>1. e.to \in Nodes
      BY <2>1, TopIsOpen, EdgesJoinNodes DEF TarjanInv, TarjanTypeOK, Sorted
    <3> QED BY <2>1, <2>2, <3>1, EnterKeeps DEF Descend, Met
  <2>3. CASE LowerLow(e) \/ PassBy(e)
    BY <2>1, <2>3, FollowedKeeps
  <2> QED BY <2>1, <2>2, <2>3
<1>3. CASE Return
  BY <1>3, InnerReturnKeeps, RootReturnKeeps
<1> QED BY <1>1, <1>2, <1>3 DEF TarjanNext

(* The invariant, and that all is done, stay while nothing is touched.     *)
LEMMA TarjanStays ==
  ASSUME TarjanInv, UNCHANGED <<graph, tarjan>>
  PROVE  TarjanInv' /\ (Found' <=> Found) /\ (IsGraph(graph)' <=> IsGraph(graph))
<1>1. /\ graph' = graph /\ index' = index /\ low' = low /\ counter' = counter
      /\ stack' = stack /\ calls' = calls /\ todo' = todo /\ comps' = comps
  BY DEF tarjan
<1>2. Nodes' = Nodes /\ Edges' = Edges /\ Open' = Open /\ \A n : OutEdges(n)' = OutEdges(n)
  BY <1>1 DEF Nodes, Edges, Open, OutEdges
<1>3. (IsGraph(graph)' <=> IsGraph(graph)) /\ (Found' <=> Found)
  BY <1>1, <1>2 DEF Found
<1>4. (\A a, b : R(a, b)' <=> R(a, b)) /\ (\A n : Met(n)' <=> Met(n)) /\ (\A n : InComp(n)' <=> InComp(n))
  BY <1>1, <1>2 DEF R, Met, InComp
<1>5. TarjanTypeOK' /\ Indexed' /\ Sorted' /\ Parted' /\ Remaining' /\ HeadsMet'
  BY <1>1, <1>2, <1>4 DEF TarjanInv, TarjanTypeOK, Indexed, Sorted, Parted, Remaining, HeadsMet
<1>6. Sealed' /\ OpenReach' /\ OpenReached' /\ LowReached' /\ LowCovers' /\ Strong'
  BY <1>1, <1>2, <1>4 DEF TarjanInv, Sealed, OpenReach, OpenReached, LowReached, LowCovers,
                          Owns, Strong
<1> QED BY <1>3, <1>5, <1>6 DEF TarjanInv

(* When all is done, the components are the classes of nodes that reach    *)
(* each other, and no edge leads to a component found later.               *)
THEOREM TarjanEnds ==
  ASSUME IsGraph(graph), TarjanInv, Found
  PROVE  /\ \A n \in Nodes : InComp(n)
         /\ \A c, d \in DOMAIN comps : c # d => comps[c] \cap comps[d] = {}
         /\ Sealed /\ Strong
<1>1. Open = {}
  BY DEF Open, Found
<1>2. stack = {}
  BY <1>1 DEF TarjanInv, OpenReached
<1> QED BY <1>2 DEF TarjanInv, Parted, Found, Met

-----------------------------------------------------------------------------
(* Finite sets, and what makes a component a loop.                         *)

(* What a sequence lists is finite.                                        *)
LEMMA ListedIsFinite ==
  ASSUME NEW s, s \in Seq({s[i] : i \in DOMAIN s})
  PROVE  IsFiniteSet({s[i] : i \in DOMAIN s})
<1> DEFINE S == {s[i] : i \in DOMAIN s}
<1>1. PICK n \in Nat : DOMAIN s = 1..n /\ s \in [1..n -> S]
  <2> HIDE DEF S
  <2>1. s \in Seq(S)
    BY DEF S
  <2>2. PICK n \in Nat : n = Len(s)
    BY <2>1
  <2> QED BY <2>1, <2>2
<1>2. \A t \in S : \E i \in 1..n : s[i] = t
  BY <1>1
<1>3. s \in Surjection(1..n, S)
  BY <1>1, <1>2 DEF Surjection
<1>4. ExistsSurjection(1..n, S)
  BY <1>3 DEF ExistsSurjection
<1> QED BY <1>4, FS_NatSurjection

(* A workflow has finitely many nodes and edges.                           *)
LEMMA GraphIsFinite ==
  ASSUME IsGraph(graph)
  PROVE  IsFiniteSet(Nodes) /\ IsFiniteSet(Edges)
BY ListedIsFinite DEF IsGraph, Nodes, Edges, NodesOf, EdgesOf

(* A set without pairs of different elements has one element.              *)
LEMMA TwoOrOne ==
  ASSUME NEW S, IsFiniteSet(S), S # {}
  PROVE  Cardinality(S) > 1 <=> \E a, b \in S : a # b
<1>1. Cardinality(S) \in Nat /\ Cardinality(S) # 0
  BY FS_CardinalityType, FS_EmptySet
<1>2. Cardinality(S) = 1 <=> \E x : S = {x}
  BY FS_Singleton
<1>3. (\E x : S = {x}) <=> ~ \E a, b \in S : a # b
  OBVIOUS
<1> QED BY <1>1, <1>2, <1>3

(* A class of nodes that reach each other is a loop, by its size or by an  *)
(* edge that returns to its node (_is_nontrivial), exactly when its nodes  *)
(* are on a cycle.                                                         *)
LEMMA ClassOnCycle ==
  ASSUME IsGraph(graph), NEW S \in SUBSET Nodes, NEW n \in S,
         \A m \in Nodes : m \in S <=> SameLoop(n, m)
  PROVE  OnCycle(n) <=> \/ Cardinality(S) > 1
                        \/ \E e \in Edges : e.from \in S /\ e.to = e.from
<1>1. IsFiniteSet(S)
  BY GraphIsFinite, FS_Subset
<1>2. Cardinality(S) > 1 <=> \E a, b \in S : a # b
  BY <1>1, TwoOrOne
<1>3. (\E a, b \in S : a # b) <=> \E m \in Nodes \ {n} : SameLoop(n, m)
  OBVIOUS
<1>4. (~ \E a, b \in S : a # b) =>
        ((\E e \in Edges : e.from \in S /\ e.to = e.from)
           <=> \E e \in Edges : e.from = n /\ e.to = n)
  OBVIOUS
<1>5. (\E e \in Edges : e.from = n /\ e.to = n) =>
        \E e \in Edges : e.from \in S /\ e.to = e.from
  OBVIOUS
<1> QED BY <1>2, <1>3, <1>4, <1>5 DEF OnCycle

-----------------------------------------------------------------------------
(* The search comes to its end: there is always a next step, and each one  *)
(* leaves less to do.                                                      *)

(* A finite set of integers has a smallest one.                            *)
LEMMA SmallestExists ==
  ASSUME NEW S \in SUBSET Int, IsFiniteSet(S), S # {}
  PROVE  \E x \in S : \A y \in S : x <= y
<1> DEFINE upto(t) == {y \in S : y <= t}
           U == {upto(t) : t \in S}
           less == StrictSubsetOrdering(S)
<1>1. U \subseteq SUBSET S /\ U # {}
  OBVIOUS
<1>2. IsWellFoundedOn(less, SUBSET S)
  <2>1. FiniteSubsetsOf(S) = SUBSET S
    BY FS_FiniteSubsetsOfFinite
  <2> QED BY <2>1, FS_StrictSubsetOrderingWellFounded
<1>3. PICK u \in U : \A y \in U : <<y, u>> \notin less
  <2> HIDE DEF U, less
  <2> QED BY <1>1, <1>2, WFMin
<1>4. PICK x \in S : u = upto(x)
  OBVIOUS
<1>5. ASSUME NEW y \in S, y < x  PROVE FALSE
  <2>1. upto(y) \subseteq upto(x) /\ x \in upto(x) /\ x \notin upto(y)
    <3>1. x \in Int /\ y \in Int /\ \A z \in S : z \in Int
      OBVIOUS
    <3>2. x <= x /\ ~(x <= y)
      BY <3>1, <1>5
    <3>3. \A z \in S : z <= y => z <= x
      BY <3>1, <1>5
    <3> QED BY <3>2, <3>3
  <2>2. upto(y) \in SUBSET S /\ u \in SUBSET S /\ upto(y) # u
    BY <2>1, <1>4
  <2>3. <<upto(y), u>> \in less
    BY <2>1, <2>2, <1>4 DEF StrictSubsetOrdering
  <2> QED BY <2>3, <1>3
<1> QED BY <1>5

(* Of a finite set something comes first, by whatever number.              *)
LEMMA LeastExists ==
  ASSUME NEW S, IsFiniteSet(S), S # {}, NEW f \in [S -> Int]
  PROVE  \E x \in S : \A y \in S : f[x] <= f[y]
<1> DEFINE T == {f[x] : x \in S}
<1>1. T \in SUBSET Int /\ T # {} /\ f \in [S -> T] /\ \A t \in T : \E x \in S : f[x] = t
  OBVIOUS
<1> HIDE DEF T
<1>2. f \in Surjection(S, T)
  BY <1>1 DEF Surjection
<1>3. IsFiniteSet(T)
  BY <1>2, FS_Surjection
<1>4. PICK t \in T : \A u \in T : t <= u
  BY <1>1, <1>3, SmallestExists
<1>5. PICK x \in S : f[x] = t
  BY <1>1
<1> QED BY <1>1, <1>4, <1>5

(* Everything the document lists has a place, and of some of it something  *)
(* is listed first.                                                        *)
LEMMA FirstExists ==
  ASSUME NEW s, s \in Seq({s[i] : i \in DOMAIN s}),
         NEW S \in SUBSET {s[i] : i \in DOMAIN s}, S # {}
  PROVE  \E x \in S : IsFirst(s, S, x)
<1> DEFINE all == {s[i] : i \in DOMAIN s}
<1>1. PICK n \in Nat : DOMAIN s = 1..n
  <2> HIDE DEF all
  <2>1. s \in Seq(all)
    BY DEF all
  <2>2. PICK n \in Nat : n = Len(s)
    BY <2>1
  <2> QED BY <2>1, <2>2
<1>2. IsFiniteSet(S)
  BY ListedIsFinite, FS_Subset
<1>3. ASSUME NEW x \in S  PROVE Place(s, x) \in Int
  <2> DEFINE I == {i \in 1..n : s[i] = x}
  <2>1. I \in SUBSET (1..n) /\ I \in SUBSET Int /\ I # {}
    BY <1>1
  <2>2. IsFiniteSet(I)
    BY <2>1, FS_Interval, FS_Subset
  <2>3. PICK i \in I : \A j \in I : i <= j
    BY <2>1, <2>2, SmallestExists
  <2>4. i \in DOMAIN s /\ s[i] = x /\ \A j \in 1..(i - 1) : s[j] # x
    BY <2>3, <1>1
  <2>5. Place(s, x) \in DOMAIN s
    BY <2>4 DEF Place
  <2> QED BY <2>5, <1>1
<1>4. [x \in S |-> Place(s, x)] \in [S -> Int]
  BY <1>3
<1>5. PICK x \in S : \A y \in S : [z \in S |-> Place(s, z)][x] <= [z \in S |-> Place(s, z)][y]
  BY <1>2, <1>4, LeastExists
<1> QED BY <1>5 DEF IsFirst

(* What is left of the search: nodes to meet, edges to follow, calls to    *)
(* return from.                                                            *)
Unmet   == {n \in Nodes : ~Met(n)}
Unfollowed == {e \in Edges : e \in todo[e.from]}

SearchLeft == 2 * Cardinality(Unmet) + Cardinality(Unfollowed) + Len(calls)

(* There is a next step, unless all components are found.                  *)
CanSearch ==
    IF calls = <<>>
      THEN \E v \in Nodes : IsFirst(graph.nodes, {n \in Nodes : index[n] = Unseen}, v)
      ELSE \/ todo[Top] = {}
           \/ \E e \in todo[Top] : IsFirst(graph.edges, todo[Top], e)

(* What is left is a number.                                               *)
LEMMA LeftIsNat ==
  ASSUME IsGraph(graph), TarjanTypeOK
  PROVE  /\ IsFiniteSet(Unmet) /\ IsFiniteSet(Unfollowed)
         /\ Cardinality(Unmet) \in Nat /\ Cardinality(Unfollowed) \in Nat /\ Len(calls) \in Nat
         /\ SearchLeft \in Nat
<1>1. Unmet \in SUBSET Nodes /\ Unfollowed \in SUBSET Edges
  BY DEF Unmet, Unfollowed
<1>2. IsFiniteSet(Unmet) /\ IsFiniteSet(Unfollowed)
  BY <1>1, GraphIsFinite, FS_Subset
<1>3. Len(calls) \in Nat
  BY DEF TarjanTypeOK
<1> QED BY <1>2, <1>3, FS_CardinalityType DEF SearchLeft

(* A node that is met is one less to meet.                                 *)
LEMMA EnterMeets ==
  ASSUME IsGraph(graph), TarjanTypeOK, UNCHANGED graph, NEW v \in Nodes, ~Met(v), Enter(v)
  PROVE  /\ Cardinality(Unmet)' = Cardinality(Unmet) - 1
         /\ Len(calls') = Len(calls) + 1
<1>1. /\ index' = [index EXCEPT ![v] = counter] /\ calls' = Append(calls, v)
      /\ index \in [Nodes -> Int] /\ counter \in Nat /\ calls \in Seq(Nodes)
      /\ Nodes' = Nodes
  BY GraphStays DEF Enter, TarjanTypeOK
<1>2. counter # Unseen
  BY <1>1 DEF Unseen
<1>3. Unmet' = Unmet \ {v} /\ v \in Unmet
  BY <1>1, <1>2 DEF Unmet, Met
<1>4. Cardinality(Unmet \ {v}) = Cardinality(Unmet) - 1
  BY <1>3, LeftIsNat, FS_RemoveElement
<1> QED BY <1>1, <1>3, <1>4

(* Each step of _tarjan_sccs leaves less to do.                            *)
LEMMA SearchProceeds ==
  ASSUME IsGraph(graph), TarjanInv, UNCHANGED graph, TarjanNext
  PROVE  /\ SearchLeft \in Nat /\ SearchLeft' \in Nat
         /\ SearchLeft' < SearchLeft
<1>t. TarjanTypeOK /\ TarjanTypeOK' /\ IsGraph(graph)' /\ Nodes' = Nodes /\ Edges' = Edges
  BY TarjanKeeps, GraphStays DEF TarjanInv
<1>n. /\ SearchLeft \in Nat /\ Cardinality(Unmet) \in Nat /\ Cardinality(Unfollowed) \in Nat
      /\ Len(calls) \in Nat /\ IsFiniteSet(Unfollowed)
  BY <1>t, LeftIsNat
<1>m. /\ SearchLeft' \in Nat /\ Cardinality(Unmet)' \in Nat /\ Cardinality(Unfollowed)' \in Nat
      /\ Len(calls)' \in Nat
  <2>1. (IsGraph(graph) /\ TarjanTypeOK =>
           /\ SearchLeft \in Nat /\ Cardinality(Unmet) \in Nat /\ Cardinality(Unfollowed) \in Nat
           /\ Len(calls) \in Nat)'
    BY LeftIsNat, PTL
  <2> QED BY <2>1, <1>t
<1>1. CASE StartRoot
  <2>1. PICK v \in Nodes : ~Met(v) /\ Enter(v) /\ UNCHANGED todo
    BY <1>1 DEF StartRoot, IsFirst, Met
  <2>2. Unfollowed' = Unfollowed
    BY <2>1, <1>t DEF Unfollowed
  <2>3. Cardinality(Unmet)' = Cardinality(Unmet) - 1 /\ Len(calls') = Len(calls) + 1
    BY <2>1, <1>t, EnterMeets
  <2>4. SearchLeft' = 2 * (Cardinality(Unmet) - 1) + Cardinality(Unfollowed) + (Len(calls) + 1)
    BY <2>2, <2>3 DEF SearchLeft
  <2>5. SearchLeft = 2 * Cardinality(Unmet) + Cardinality(Unfollowed) + Len(calls)
    BY DEF SearchLeft
  <2>6. ASSUME NEW m \in Nat, NEW f \in Nat, NEW c \in Nat
        PROVE  2 * (m - 1) + f + (c + 1) < 2 * m + f + c
    OBVIOUS
  <2>7. SearchLeft' < SearchLeft
    BY <2>4, <2>5, <2>6, <1>n
  <2> QED BY <2>7, <1>n, <1>m
<1>2. CASE FollowEdge
  <2>1. PICK e \in todo[Top] : /\ todo' = [todo EXCEPT ![Top] = @ \ {e}] /\ calls # <<>>
                               /\ Descend(e) \/ LowerLow(e) \/ PassBy(e)
    BY <1>2 DEF FollowEdge
  <2>2. Top \in Nodes /\ e \in Edges /\ e.from = Top /\ e.to \in Nodes
    <3>1. Top \in Nodes
      BY <2>1, <1>t, TopIsOpen DEF TarjanInv, TarjanTypeOK, Sorted
    <3>2. e \in OutEdges(Top)
      BY <3>1, <2>1 DEF TarjanInv, Remaining
    <3> QED BY <3>1, <3>2, EdgesJoinNodes DEF OutEdges
  <2>3. Unfollowed' = Unfollowed \ {e} /\ e \in Unfollowed
    <3>1. todo \in [Nodes -> SUBSET Edges]
      BY <1>t DEF TarjanTypeOK
    <3>2. \A d \in Edges : d.from \in Nodes
      BY EdgesJoinNodes
    <3> QED BY <3>1, <3>2, <2>1, <2>2, <1>t DEF Unfollowed
  <2>4. Cardinality(Unfollowed)' = Cardinality(Unfollowed) - 1
    BY <2>3, <1>n, FS_RemoveElement
  <2>5. CASE Descend(e)
    <3>1. Cardinality(Unmet)' = Cardinality(Unmet) - 1 /\ Len(calls') = Len(calls) + 1
      BY <2>2, <2>5, <1>t, EnterMeets DEF Descend, Met
    <3>2. SearchLeft' = 2 * (Cardinality(Unmet) - 1) + (Cardinality(Unfollowed) - 1) + (Len(calls) + 1)
      BY <3>1, <2>4 DEF SearchLeft
    <3>3. SearchLeft = 2 * Cardinality(Unmet) + Cardinality(Unfollowed) + Len(calls)
      BY DEF SearchLeft
    <3>4. ASSUME NEW m \in Nat, NEW f \in Nat, NEW c \in Nat
          PROVE  2 * (m - 1) + (f - 1) + (c + 1) < 2 * m + f + c
      OBVIOUS
    <3>5. SearchLeft' < SearchLeft
      BY <3>2, <3>3, <3>4, <1>n
    <3> QED BY <3>5, <1>n, <1>m
  <2>6. CASE LowerLow(e) \/ PassBy(e)
    <3>1. index' = index /\ calls' = calls
      BY <2>6 DEF LowerLow, PassBy
    <3>2. Unmet' = Unmet
      BY <3>1, <1>t DEF Unmet, Met
    <3> QED BY <3>1, <3>2, <2>4, <1>n, <1>m DEF SearchLeft
  <2> QED BY <2>1, <2>5, <2>6
<1>3. CASE Return
  <2>1. /\ calls # <<>> /\ calls' = SubSeq(calls, 1, Len(calls) - 1)
        /\ index' = index /\ todo' = todo
    BY <1>3 DEF Return, Outer
  <2>2. Len(calls') = Len(calls) - 1
    <3>1. calls \in Seq(Nodes)
      BY <1>t DEF TarjanTypeOK
    <3>2. PICK n \in Nat : n = Len(calls) /\ n # 0
      BY <3>1, <2>1
    <3>3. Len(SubSeq(calls, 1, n - 1)) = n - 1
      BY <3>1, <3>2
    <3> QED BY <3>2, <3>3, <2>1
  <2>3. Unmet' = Unmet /\ Unfollowed' = Unfollowed
    BY <2>1, <1>t DEF Unmet, Met, Unfollowed
  <2> QED BY <2>2, <2>3, <1>n, <1>m DEF SearchLeft
<1> QED BY <1>1, <1>2, <1>3, <1>n, <1>m DEF TarjanNext

(* When the search stands still so does what is left of it.                *)
LEMMA SearchRests ==
  ASSUME UNCHANGED graph, UNCHANGED tarjan
  PROVE  SearchLeft' = SearchLeft
<1>1. index' = index /\ calls' = calls /\ todo' = todo
  BY DEF tarjan
<1>2. Unmet' = Unmet /\ Unfollowed' = Unfollowed
  BY <1>1, GraphStays DEF Unmet, Unfollowed, Met
<1> QED BY <1>1, <1>2 DEF SearchLeft

(* _tarjan_sccs has a next step until every node is met and every call has *)
(* returned.                                                               *)
LEMMA SearchGoesOn ==
  ASSUME IsGraph(graph), TarjanInv, ~Found
  PROVE  CanSearch
<1>1. /\ graph.nodes \in Seq(Nodes) /\ graph.edges \in Seq(Edges)
      /\ Nodes = {graph.nodes[i] : i \in DOMAIN graph.nodes}
      /\ Edges = {graph.edges[i] : i \in DOMAIN graph.edges}
  BY DEF IsGraph, Nodes, Edges, NodesOf, EdgesOf
<1>2. CASE calls = <<>>
  <2> DEFINE S == {n \in Nodes : index[n] = Unseen}
  <2>1. S \in SUBSET Nodes /\ S # {}
    BY <1>2 DEF Found
  <2>2. \E v \in S : IsFirst(graph.nodes, S, v)
    <3> HIDE DEF S
    <3> QED BY <2>1, <1>1, FirstExists
  <2> QED BY <1>2, <2>2 DEF CanSearch
<1>3. CASE calls # <<>>
  <2> DEFINE S == todo[Top]
  <2>1. S \in SUBSET Edges
    <3>1. Top \in Nodes
      BY <1>3, TopIsOpen DEF TarjanInv, TarjanTypeOK, Sorted
    <3> QED BY <3>1 DEF TarjanInv, TarjanTypeOK
  <2>2. S # {} => \E e \in S : IsFirst(graph.edges, S, e)
    <3> HIDE DEF S
    <3> QED BY <2>1, <1>1, FirstExists
  <2> QED BY <1>3, <2>2 DEF CanSearch
<1> QED BY <1>2, <1>3
=============================================================================
