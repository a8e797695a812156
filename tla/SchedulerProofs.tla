--------------------------- MODULE SchedulerProofs ---------------------------
(***************************************************************************)
(* The planner is right for every workflow graph: the six invariants of    *)
(* module Scheduler, and that a plan is what a run takes for granted.      *)
(*                                                                         *)
(* SchedInv says of each phase what the algorithm of that phase keeps:     *)
(*   TarjanInv    the components found so far (module ComponentsProofs)    *)
(*   KahnInv      a node's count is the number of its edges from nodes not *)
(*                taken out yet; it serves the three uses of Kahn's        *)
(*                algorithm, and with NoCycle it empties the graph         *)
(*   SearchInv    the gray nodes are the path of the search, the edges     *)
(*                kept among finished nodes have no cycle                  *)
(*   LevelsOK     the levels of a loop are apart and lead forward          *)
(*   StepsOK      the steps are apart and follow each other                *)
(* Last, that plan() comes to its end: PlanLeft descends with every step.  *)
(***************************************************************************)
EXTENDS Scheduler, ComponentsProofs, WellFoundedInduction

-----------------------------------------------------------------------------
(* Finite sets.                                                            *)

(* A set of numbers up to n has a largest one.                             *)
LEMMA LargestExists ==
  ASSUME NEW n \in Nat, NEW T \in SUBSET (1..n), T # {}
  PROVE  \E x \in T : \A y \in T : y <= x
<1> DEFINE U == {t..n : t \in T}
           less == StrictSubsetOrdering(1..n)
<1>1. U \subseteq SUBSET (1..n) /\ U # {}
  <2>1. \A t \in T : t \in 1..n
    OBVIOUS
  <2>2. \A t \in 1..n : t..n \subseteq 1..n
    OBVIOUS
  <2>3. \A t \in T : t..n \in SUBSET (1..n)
    BY <2>1, <2>2
  <2> QED BY <2>3
<1>2. IsWellFoundedOn(less, SUBSET (1..n))
  <2>1. IsFiniteSet(1..n)
    BY FS_Interval
  <2>2. FiniteSubsetsOf(1..n) = SUBSET (1..n)
    BY <2>1, FS_FiniteSubsetsOfFinite
  <2> QED BY <2>2, FS_StrictSubsetOrderingWellFounded
<1>3. PICK u \in U : \A y \in U : <<y, u>> \notin less
  <2> HIDE DEF U, less
  <2> QED BY <1>1, <1>2, WFMin
<1>4. PICK x \in T : u = x..n
  OBVIOUS
<1>5. ASSUME NEW y \in T, x < y  PROVE FALSE
  <2>1. y..n \subseteq x..n /\ x \in x..n /\ x \notin y..n
    BY <1>5
  <2>2. <<y..n, u>> \in less
    BY <2>1, <1>1, <1>4 DEF StrictSubsetOrdering
  <2> QED BY <2>2, <1>3
<1> QED BY <1>5

-----------------------------------------------------------------------------
(* Kahn's algorithm over nodes N and records A from, to: what is true while*)
(* the nodes of done are taken out and those of lvl come next.             *)

(* The edges to v that do not come from S.                                 *)
Into(A, v, S) == {a \in A : a.to = v /\ a.from \notin S}

KahnInv(N, A, deg, lvl, out) ==
    /\ deg \in [N -> Nat]
    /\ lvl \subseteq N /\ out \subseteq N /\ lvl \cap out = {}
    /\ \A v \in N : deg[v] = Cardinality(Into(A, v, out))
    /\ \A v \in N : deg[v] = 0 <=> v \in lvl \cup out

(* With the counts of the whole graph, and the nodes without an incoming   *)
(* edge as first level, nothing is taken out yet.                          *)
LEMMA KahnStarts ==
  ASSUME NEW N, NEW A, IsFiniteSet(A)
  PROVE  KahnInv(N, A, Indegrees(N, A), Sources(Indegrees(N, A)), {})
<1>1. \A v \in N : Into(A, v, {}) = {a \in A : a.to = v}
  BY DEF Into
<1>2. \A v \in N : Cardinality({a \in A : a.to = v}) \in Nat
  <2>1. SUFFICES ASSUME NEW v \in N  PROVE Cardinality({a \in A : a.to = v}) \in Nat
    OBVIOUS
  <2>2. {a \in A : a.to = v} \in SUBSET A
    OBVIOUS
  <2>3. IsFiniteSet({a \in A : a.to = v})
    BY <2>2, FS_Subset
  <2> QED BY <2>3, FS_CardinalityType
<1> QED BY <1>1, <1>2 DEF KahnInv, Indegrees, Sources

(* A node that is taken out has all its sources taken out before.          *)
LEMMA KahnOrder ==
  ASSUME NEW N, NEW A, IsFiniteSet(A), NEW deg, NEW lvl, NEW out,
         KahnInv(N, A, deg, lvl, out),
         NEW a \in A, a.to \in lvl \cup out
  PROVE  a.from \in out
<1>1. deg[a.to] = 0 /\ a.to \in N
  BY DEF KahnInv
<1>2. Into(A, a.to, out) \in SUBSET A /\ IsFiniteSet(Into(A, a.to, out))
  <2>1. Into(A, a.to, out) \in SUBSET A
    BY DEF Into
  <2> QED BY <2>1, FS_Subset
<1>3. Into(A, a.to, out) = {}
  BY <1>1, <1>2, FS_EmptySet DEF KahnInv
<1> QED BY <1>3 DEF Into

(* Taking out a level lowers each count by the edges that come from it;    *)
(* the nodes whose count becomes zero are the next level.                  *)
LEMMA KahnKeeps ==
  ASSUME NEW N, NEW A, IsFiniteSet(A), NEW deg, NEW lvl, NEW out,
         KahnInv(N, A, deg, lvl, out)
  PROVE  KahnInv(N, A, Decremented(deg, A, lvl), Ready(deg, A, lvl), out \cup lvl)
<1> DEFINE new == Decremented(deg, A, lvl)
           X(v) == Into(A, v, out)
           Y(v) == {a \in A : a.to = v /\ a.from \in lvl}
<1>1. /\ deg \in [N -> Nat] /\ DOMAIN deg = N /\ DOMAIN new = N
      /\ \A v \in N : deg[v] = Cardinality(X(v)) /\ new[v] = deg[v] - Cardinality(Y(v))
      /\ lvl \subseteq N /\ out \subseteq N /\ lvl \cap out = {}
      /\ \A v \in N : deg[v] = 0 <=> v \in lvl \cup out
  BY DEF KahnInv, Decremented
<1>2. ASSUME NEW v \in N
      PROVE  new[v] \in Nat /\ new[v] = Cardinality(Into(A, v, out \cup lvl))
  <2>1. /\ X(v) \in SUBSET A /\ Y(v) \in SUBSET X(v)
        /\ X(v) \ Y(v) = Into(A, v, out \cup lvl) /\ X(v) \cap Y(v) = Y(v)
    BY <1>1 DEF Into
  <2>2. IsFiniteSet(X(v))
    BY <2>1, FS_Subset
  <2>3. IsFiniteSet(Y(v)) /\ IsFiniteSet(X(v) \ Y(v))
    BY <2>1, <2>2, FS_Subset
  <2>4. Cardinality(X(v) \ Y(v)) = Cardinality(X(v)) - Cardinality(X(v) \cap Y(v))
    BY <2>2, FS_Difference
  <2>5. Cardinality(X(v) \ Y(v)) \in Nat
    BY <2>3, FS_CardinalityType
  <2> QED BY <2>1, <2>4, <2>5, <1>1
<1>3. \A v \in N : deg[v] = 0 => new[v] = 0
  <2>1. SUFFICES ASSUME NEW v \in N, deg[v] = 0  PROVE new[v] = 0
    OBVIOUS
  <2>2. /\ X(v) \in SUBSET A /\ Into(A, v, out \cup lvl) \in SUBSET X(v)
    BY DEF Into
  <2>3. IsFiniteSet(X(v))
    BY <2>2, FS_Subset
  <2>4. Cardinality(Into(A, v, out \cup lvl)) <= Cardinality(X(v))
    BY <2>2, <2>3, FS_Subset
  <2>5. Cardinality(X(v)) = 0
    BY <2>1, <1>1
  <2>6. new[v] \in Nat /\ new[v] <= 0
    BY <2>4, <2>5, <1>2
  <2> QED BY <2>6
<1>4. new \in [N -> Nat]
  BY <1>1, <1>2 DEF Decremented
<1>5. Ready(deg, A, lvl) = {v \in N : deg[v] > 0 /\ new[v] = 0}
  BY <1>1 DEF Ready
<1> HIDE DEF new
<1>6. \A v \in N : new[v] = 0 <=> v \in {w \in N : deg[w] > 0 /\ new[w] = 0} \cup (out \cup lvl)
  BY <1>1, <1>3
<1>7. {v \in N : deg[v] > 0 /\ new[v] = 0} \cap (out \cup lvl) = {}
  BY <1>1
<1>8. KahnInv(N, A, new, {v \in N : deg[v] > 0 /\ new[v] = 0}, out \cup lvl)
  BY <1>1, <1>2, <1>4, <1>6, <1>7 DEF KahnInv
<1> QED BY <1>5, <1>8 DEF new

(* If every set of nodes holds one that none of the set leads to, Kahn's   *)
(* algorithm stops only when all nodes are taken out.                      *)
NoCycle(N, A) ==
    \A T \in SUBSET N : T # {} =>
        \E t \in T : \A a \in A : a.to = t => a.from \notin T

(* When no level is left of a graph without a cycle, every node was taken  *)
(* out.                                                                    *)
LEMMA KahnEnds ==
  ASSUME NEW N, NEW A, IsFiniteSet(A), NEW deg, NEW out,
         KahnInv(N, A, deg, {}, out), NoCycle(N, A),
         \A a \in A : a.from \in N
  PROVE  out = N /\ \A v \in N : deg[v] = 0
<1>1. SUFFICES ASSUME N \ out # {}  PROVE FALSE
  BY <1>1 DEF KahnInv
<1>2. PICK t \in N \ out : \A a \in A : a.to = t => a.from \notin N \ out
  BY <1>1 DEF NoCycle
<1>3. Into(A, t, out) = {}
  BY <1>2 DEF Into
<1>4. deg[t] = 0
  BY <1>3, FS_EmptySet DEF KahnInv
<1> QED BY <1>4 DEF KahnInv

-----------------------------------------------------------------------------
(* A component is one piece: a part of it that no edge inside it leaves is *)
(* all of it.                                                              *)
LEMMA ComponentConnected ==
  ASSUME IsGraph(graph), Strong, NEW c \in DOMAIN comps, comps[c] \subseteq Nodes,
         NEW B \in SUBSET comps[c], B # {},
         \A e \in Edges : e.from \in B /\ e.to \in comps[c] => e.to \in B
  PROVE  B = comps[c]
<1> DEFINE C == comps[c]
<1>1. PICK b \in B : TRUE
  OBVIOUS
<1>2. \A m \in C, n \in Nodes : n \in C <=> R(m, n) /\ R(n, m)
  BY DEF Strong
<1> DEFINE S == B \cup {x \in Nodes : x \notin C /\ R(b, x)}
<1>3. S \in SUBSET Nodes
  OBVIOUS
<1>4. ASSUME NEW e \in Edges, e.from \in S  PROVE e.to \in S
  <2>1. e.from \in Nodes /\ e.to \in Nodes /\ R(e.from, e.to)
    BY EdgesJoinNodes, ReachBasics
  <2>2. CASE e.from \in B
    <3>1. R(b, e.from)
      BY <2>2, <1>1, <1>2, <2>1
    <3> QED BY <3>1, <2>1, <2>2, ReachBasics
  <2>3. CASE e.from \notin B
    <3>1. e.from \notin C /\ R(b, e.from) /\ R(b, e.to)
      BY <2>3, <1>4, <2>1, ReachBasics
    <3>2. e.to \notin C
      <4>1. SUFFICES ASSUME e.to \in C  PROVE FALSE
        OBVIOUS
      <4>2. R(e.from, b)
        BY <4>1, <1>1, <1>2, <2>1, ReachBasics
      <4> QED BY <4>2, <3>1, <1>1, <1>2, <2>1
    <3> QED BY <3>1, <3>2, <2>1
  <2> QED BY <2>2, <2>3
<1>5. IsClosed(S, Edges)
  BY <1>4 DEF IsClosed
<1>6. ASSUME NEW x \in C  PROVE x \in B
  <2>1. R(b, x)
    BY <1>1, <1>2
  <2>2. x \in S
    BY <2>1, <1>1, <1>3, <1>5, ReachClosed
  <2> QED BY <2>2
<1> QED BY <1>6

(* Reachability only grows with the edges.                                 *)
LEMMA ReachesMore ==
  ASSUME NEW N, NEW E, NEW F, E \subseteq F, NEW a, NEW b, Reaches(N, E, a, b)
  PROVE  Reaches(N, F, a, b)
BY DEF Reaches, IsClosed

(* What is reached goes on along an edge.                                  *)
LEMMA ReachesOn ==
  ASSUME NEW N, NEW E, NEW a, NEW e \in E, Reaches(N, E, a, e.from)
  PROVE  Reaches(N, E, a, e.to)
BY DEF Reaches, IsClosed

-----------------------------------------------------------------------------
(* The search for back edges: what is true of the edges followed so far.   *)

Body == comps[body]
(* The finished nodes, the open ones, and the edges followed and kept.     *)
Black == {n \in Body : color[n] = "black"}
OnPath == {path[k] : k \in DOMAIN path}
Kept == {e \in Inside : e \notin open[e.from] /\ e \notin back}

SearchTypeOK ==
    /\ body \in DOMAIN comps
    /\ color \in [Body -> {"white", "gray", "black"}]
    /\ path \in Seq(Body)
    /\ open \in [Body -> SUBSET Inside]
    /\ back \in SUBSET Inside

(* A white node has all its edges inside the body to follow, a black none. *)
EdgesOpen ==
    \A n \in Body :
        /\ open[n] \subseteq OutEdges(n)
        /\ color[n] = "white" => open[n] = {e \in OutEdges(n) : e.to \in Body}
        /\ color[n] = "black" => open[n] = {}

(* The gray nodes are the open calls of dfs, each once.                    *)
GrayIsPath ==
    /\ \A n \in Body : color[n] = "gray" <=> n \in OnPath
    /\ \A k, l \in DOMAIN path : k # l => path[k] # path[l]

(* An edge that was followed leads to a node that was seen.                *)
HeadsSeen == \A e \in Inside : e \notin open[e.from] => color[e.to] # "white"

(* Only edges that were followed are back edges.                           *)
BackSeen == \A e \in back : e \notin open[e.from]

NextOnPath(u, v) == \E k \in DOMAIN path : /\ k + 1 \in DOMAIN path
                                           /\ u = path[k] /\ v = path[k + 1]

(* An edge that was kept leads to a finished node, or down the path.       *)
KeptDown == \A e \in Kept : color[e.to] = "black" \/ NextOnPath(e.from, e.to)

(* The edges kept among finished nodes have no cycle.                      *)
BlackSorted == NoCycle(Black, Kept)

(* The node that the search takes first.                                   *)
StartsFirst(s) == \A n \in Body \ {s} : StartsBefore(s, n)

(* The search began there; every other node seen has a kept edge to it,    *)
(* the first one has none.                                                 *)
OneStart == path # <<>> \/ Black # {} =>
    \E s \in Body :
        /\ StartsFirst(s)
        /\ color[s] # "white"
        /\ path # <<>> => path[1] = s
        /\ \A n \in Body \ {s} : color[n] # "white" => \E e \in Kept : e.to = n
        /\ \A e \in Inside : e.to = s /\ e \notin open[e.from] => e \in back

(* A back edge is closed by kept edges, and so are the nodes of the path.  *)
BackCloses == \A e \in back : Reaches(Body, Kept, e.to, e.from)

PathReaches == \A k, l \in DOMAIN path :
                   k <= l => Reaches(Body, Kept, path[k], path[l])

SearchInv == /\ SearchTypeOK /\ EdgesOpen /\ GrayIsPath /\ HeadsSeen /\ BackSeen
             /\ KeptDown /\ BlackSorted /\ OneStart /\ BackCloses /\ PathReaches

(* The search of a component begins with all its nodes white.              *)
LEMMA SearchBegins ==
  ASSUME UNCHANGED <<graph, tarjan>>, body' \in DOMAIN comps, path' = <<>>, back' = {},
         color' = [n \in comps[body'] |-> "white"],
         open' = [n \in comps[body'] |-> {e \in OutEdges(n) : e.to \in comps[body']}]
  PROVE  SearchInv'
<1>1. /\ graph' = graph /\ comps' = comps /\ Edges' = Edges /\ Body' = comps[body']
      /\ \A n : OutEdges(n)' = OutEdges(n)
  BY DEF tarjan, Edges, Body, OutEdges
<1>2. \A n \in Body' : open'[n] = {e \in OutEdges(n) : e.to \in Body'} /\ color'[n] = "white"
  BY <1>1
<1>3. \A e \in Inside' : e \in Edges /\ e.from \in Body' /\ e.to \in Body'
  BY <1>1 DEF Inside, Body
<1>4. \A e \in Inside' : e \in open'[e.from]
  BY <1>2, <1>3 DEF OutEdges
<1>5. DOMAIN path' = {} /\ OnPath' = {} /\ Black' = {} /\ Kept' = {}
  BY <1>2, <1>4 DEF OnPath, Black, Kept
<1>6. SearchTypeOK'
  <2>1. \A n \in Body' : open'[n] \in SUBSET Inside'
    BY <1>1, <1>2 DEF Inside, Body, OutEdges
  <2>2. open' \in [Body' -> SUBSET Inside'] /\ color' \in [Body' -> {"white", "gray", "black"}]
    BY <1>1, <2>1
  <2> QED BY <2>2, <1>1 DEF SearchTypeOK
<1>7. EdgesOpen' /\ GrayIsPath' /\ HeadsSeen' /\ BackSeen'
  BY <1>1, <1>2, <1>4, <1>5 DEF EdgesOpen, GrayIsPath, HeadsSeen, BackSeen
<1>8. KeptDown' /\ BlackSorted' /\ OneStart' /\ BackCloses' /\ PathReaches'
  BY <1>5 DEF KeptDown, BlackSorted, NoCycle, OneStart, BackCloses, PathReaches
<1> QED BY <1>6, <1>7, <1>8 DEF SearchInv

(* Between two searches nothing is gray, and the black nodes are all.      *)
LEMMA NothingGray ==
  ASSUME IsGraph(graph), Strong, SearchInv, Body \subseteq Nodes, path = <<>>, Black # {}
  PROVE  Black = Body
<1>1. /\ SearchTypeOK /\ GrayIsPath /\ HeadsSeen /\ EdgesOpen
  BY DEF SearchInv
<1>2. OnPath = {}
  BY DEF OnPath
<1>3. \A e \in Edges : e.from \in Black /\ e.to \in Body => e.to \in Black
  BY <1>1, <1>2 DEF SearchTypeOK, GrayIsPath, HeadsSeen, EdgesOpen, Black, Inside, Body
<1>4. /\ body \in DOMAIN comps /\ comps[body] \subseteq Nodes /\ Black \in SUBSET comps[body]
      /\ \A e \in Edges : e.from \in Black /\ e.to \in comps[body] => e.to \in Black
  BY <1>1, <1>3 DEF Body, Black, SearchTypeOK
<1>5. Black = comps[body]
  BY <1>4, ComponentConnected
<1> QED BY <1>5 DEF Body

(* While a loop is searched the graph, the components and the order of its *)
(* nodes stay.                                                             *)
LEMMA BodyStays ==
  ASSUME UNCHANGED <<graph, tarjan, body>>
  PROVE  /\ Body' = Body /\ Inside' = Inside /\ \A n : OutEdges(n)' = OutEdges(n)
         /\ DOMAIN comps' = DOMAIN comps /\ body' = body
         /\ \A s : StartsFirst(s)' <=> StartsFirst(s)
<1>1. graph' = graph /\ comps' = comps /\ index' = index /\ body' = body
  BY DEF tarjan
<1>2. /\ Body' = Body /\ Inside' = Inside /\ \A n : OutEdges(n)' = OutEdges(n)
      /\ Edges' = Edges
  BY <1>1 DEF Body, Inside, OutEdges, Edges
<1>3. \A a, b : StartsBefore(a, b)' <=> StartsBefore(a, b)
  BY <1>1, <1>2 DEF StartsBefore, Entered
<1> QED BY <1>1, <1>2, <1>3 DEF StartsFirst

(* A search opened at a node of the body keeps the invariant of the        *)
(* search.                                                                 *)
LEMMA SearchStartKeeps ==
  ASSUME IsGraph(graph), Strong, SearchInv, Body \subseteq Nodes, SearchStart
  PROVE  SearchInv'
<1>1. /\ SearchTypeOK /\ EdgesOpen /\ GrayIsPath /\ HeadsSeen /\ BackSeen
      /\ KeptDown /\ BlackSorted /\ OneStart /\ BackCloses /\ PathReaches
  BY DEF SearchInv
<1>2. path = <<>> /\ OnPath = {} /\ back' = back /\ open' = open
  BY DEF SearchStart, OnPath
<1>b. /\ Body' = Body /\ Inside' = Inside /\ \A n : OutEdges(n)' = OutEdges(n)
      /\ DOMAIN comps' = DOMAIN comps /\ body' = body
      /\ \A s : StartsFirst(s)' <=> StartsFirst(s)
  BY BodyStays DEF SearchStart
<1>3. PICK s \in Body : /\ \A n \in White \ {s} : StartsBefore(s, n)
                        /\ color' = [color EXCEPT ![s] = "gray"] /\ path' = <<s>>
                        /\ color[s] = "white"
  BY DEF SearchStart, White, Body
<1>4. Black = {}
  BY <1>1, <1>2, <1>3, NothingGray DEF Black
<1>5. \A n \in Body : color[n] = "white" /\ open[n] = {e \in OutEdges(n) : e.to \in Body}
  BY <1>1, <1>2, <1>4 DEF SearchTypeOK, GrayIsPath, Black, EdgesOpen
<1>6. StartsFirst(s)
  BY <1>3, <1>5 DEF StartsFirst, White, Body
<1>7. \A e \in Inside : e.from \in Body /\ e.to \in Body /\ e \in open[e.from]
  BY <1>5 DEF Inside, OutEdges, Body
<1>8. Kept = {} /\ Kept' = {} /\ back = {}
  BY <1>7, <1>2, <1>b, <1>1 DEF Kept, BackSeen, SearchTypeOK
<1>9. /\ DOMAIN path' = {1} /\ path'[1] = s /\ OnPath' = {s} /\ path' \in Seq(Body)
      /\ path' # <<>>
  BY <1>3 DEF OnPath
<1>10. /\ color' \in [Body -> {"white", "gray", "black"}] /\ color'[s] = "gray"
       /\ \A n \in Body : n # s => color'[n] = "white"
  BY <1>1, <1>3, <1>5 DEF SearchTypeOK
<1>11. Black' = {}
  BY <1>10, <1>b DEF Black
<1>t. SearchTypeOK'
  BY <1>1, <1>2, <1>b, <1>9, <1>10 DEF SearchTypeOK
<1>e. EdgesOpen' /\ GrayIsPath' /\ HeadsSeen' /\ BackSeen'
  BY <1>1, <1>2, <1>b, <1>5, <1>7, <1>8, <1>9, <1>10
     DEF EdgesOpen, GrayIsPath, HeadsSeen, BackSeen
<1>k. KeptDown' /\ BlackSorted' /\ BackCloses'
  BY <1>2, <1>8, <1>11 DEF KeptDown, BlackSorted, NoCycle, BackCloses
<1>o. OneStart'
  BY <1>2, <1>b, <1>6, <1>7, <1>9, <1>10 DEF OneStart
<1>p. PathReaches'
  BY <1>9 DEF PathReaches, Reaches
<1> QED BY <1>t, <1>e, <1>k, <1>o, <1>p DEF SearchInv

(* An edge is followed; a new node is met, or a back edge, or neither.     *)
LEMMA SearchEdgeKeeps ==
  ASSUME SearchInv, SearchEdge
  PROVE  SearchInv'
<1>1. /\ SearchTypeOK /\ EdgesOpen /\ GrayIsPath /\ HeadsSeen /\ BackSeen
      /\ KeptDown /\ BlackSorted /\ OneStart /\ BackCloses /\ PathReaches
  BY DEF SearchInv
<1>b. /\ Body' = Body /\ Inside' = Inside /\ \A n : OutEdges(n)' = OutEdges(n)
      /\ DOMAIN comps' = DOMAIN comps /\ body' = body
      /\ \A s : StartsFirst(s)' <=> StartsFirst(s)
  BY BodyStays DEF SearchEdge
<1>2. PICK L \in Nat \ {0} : /\ DOMAIN path = 1..L /\ L = Len(path) /\ Inner = path[L]
                             /\ path # <<>> /\ L \in 1..L
  BY <1>1 DEF SearchTypeOK, SearchEdge, Inner
<1>3. /\ Inner \in Body /\ Inner \in OnPath /\ color[Inner] = "gray"
      /\ \A k \in 1..L : path[k] \in Body /\ color[path[k]] = "gray"
  BY <1>1, <1>2 DEF SearchTypeOK, OnPath, GrayIsPath
<1>4. PICK e \in open[Inner] :
         /\ open' = [open EXCEPT ![Inner] = @ \ {e}]
         /\ back' = BackWith(e)
         /\ IF color[e.to] = "white"
              THEN /\ color' = [color EXCEPT ![e.to] = "gray"]
                   /\ path' = Append(path, e.to)
              ELSE UNCHANGED <<color, path>>
  BY DEF SearchEdge
<1>5. /\ e \in Inside /\ e.from = Inner /\ e.to \in Body
      /\ color[e.to] \in {"white", "gray", "black"}
  BY <1>1, <1>3 DEF SearchTypeOK, EdgesOpen, OutEdges, Inside, Body
<1>6. /\ open' \in [Body -> SUBSET Inside]
      /\ \A n \in Body : open'[n] \subseteq open[n] /\ (n # Inner => open'[n] = open[n])
      /\ \A d \in Inside : d.from \in Body
      /\ \A d \in Inside : d \notin open'[d.from] <=> d \notin open[d.from] \/ d = e
  <2>1. /\ open' = [open EXCEPT ![Inner] = @ \ {e}] /\ open \in [Body -> SUBSET Inside]
        /\ Inner \in Body /\ open[Inner] \in SUBSET Inside
    BY <1>1, <1>3, <1>4 DEF SearchTypeOK
  <2>2. open[Inner] \ {e} \in SUBSET Inside
    BY <2>1
  <2>3. open' \in [Body -> SUBSET Inside]
    BY <2>1, <2>2
  <2>4. open'[Inner] = open[Inner] \ {e} /\ \A n \in Body \ {Inner} : open'[n] = open[n]
    BY <2>1
  <2>5. \A n \in Body : open'[n] \subseteq open[n] /\ (n # Inner => open'[n] = open[n])
    BY <2>4
  <2>6. \A d \in Inside : d.from \in Body
    BY DEF Inside, Body
  <2>7. ASSUME NEW d \in Inside
        PROVE  d \notin open'[d.from] <=> d \notin open[d.from] \/ d = e
    <3>1. CASE d.from = Inner
      BY <3>1, <2>4
    <3>2. CASE d.from # Inner
      BY <3>2, <2>4, <2>6, <1>5
    <3> QED BY <3>1, <3>2
  <2> QED BY <2>3, <2>5, <2>6, <2>7
<1>7. e \notin back
  BY <1>1, <1>4, <1>5 DEF BackSeen
<1>8. CASE color[e.to] # "white"
  <2>1. color' = color /\ path' = path /\ OnPath' = OnPath /\ Black' = Black
    BY <1>8, <1>4, <1>b DEF OnPath, Black
  <2>2. /\ back \subseteq back' /\ back' \subseteq back \cup {e}
        /\ (e \in back' <=> color[e.to] = "gray")
    BY <1>4, <1>7 DEF BackWith
  <2>3. Kept \subseteq Kept' /\ (color[e.to] = "gray" => Kept' = Kept) /\ Kept' \subseteq Kept \cup {e}
    BY <2>2, <1>6, <1>b, <1>5 DEF Kept
  <2>t. SearchTypeOK'
    BY <1>1, <1>b, <1>6, <2>1, <2>2, <1>5 DEF SearchTypeOK
  <2>e. EdgesOpen' /\ GrayIsPath'
    BY <1>1, <1>b, <1>3, <1>6, <2>1 DEF EdgesOpen, GrayIsPath
  <2>h. HeadsSeen' /\ BackSeen'
    BY <1>1, <1>b, <1>6, <1>8, <2>1, <2>2, <1>5 DEF HeadsSeen, BackSeen, SearchTypeOK
  <2>k. KeptDown'
    <3>1. \A u, v : NextOnPath(u, v)' <=> NextOnPath(u, v)
      BY <2>1 DEF NextOnPath
    <3>2. ASSUME NEW d \in Kept'  PROVE color[d.to] = "black" \/ NextOnPath(d.from, d.to)
      <4>1. CASE d \in Kept
        BY <4>1, <1>1 DEF KeptDown
      <4>2. CASE d \notin Kept
        BY <4>2, <3>2, <2>3, <1>5, <1>8
      <4> QED BY <4>1, <4>2
    <3> QED BY <3>1, <3>2, <2>1 DEF KeptDown
  <2>s. BlackSorted'
    <3>1. e.from \notin Black
      BY <1>3, <1>5 DEF Black
    <3> QED BY SMTT(20), <3>1, <2>1, <2>3, <1>1 DEF BlackSorted, NoCycle
  <2>o. OneStart'
    <3>1. PICK s \in Body :
             /\ StartsFirst(s) /\ color[s] # "white" /\ path[1] = s
             /\ \A n \in Body \ {s} : color[n] # "white" => \E d \in Kept : d.to = n
             /\ \A d \in Inside : d.to = s /\ d \notin open[d.from] => d \in back
      BY <1>1, <1>2 DEF OneStart
    <3>2. color[s] = "gray"
      BY <3>1, <1>2, <1>3
    <3>3. \A d \in Inside : d.to = s /\ d \notin open'[d.from] => d \in back'
      BY <3>1, <3>2, <1>6, <2>2
    <3> QED BY <3>1, <3>3, <2>1, <2>3, <1>b DEF OneStart
  <2>p. PathReaches'
    BY <1>1, <2>1, <2>3, <1>b, ReachesMore DEF PathReaches
  <2>c. BackCloses'
    <3>1. ASSUME NEW d \in back'  PROVE Reaches(Body, Kept', d.to, d.from)
      <4>1. CASE d \in back
        BY <4>1, <1>1, <2>3, ReachesMore DEF BackCloses
      <4>2. CASE d \notin back
        <5>1. d = e /\ e.to \in OnPath
          BY <4>2, <3>1, <2>2, <1>1, <1>5 DEF GrayIsPath
        <5>2. PICK k \in 1..L : path[k] = e.to
          BY <5>1, <1>2 DEF OnPath
        <5>3. Reaches(Body, Kept, path[k], path[L])
          BY <1>1, <1>2 DEF PathReaches
        <5> QED BY <5>1, <5>2, <5>3, <1>2, <1>5, <2>3, ReachesMore
      <4> QED BY <4>1, <4>2
    <3> QED BY <3>1, <1>b DEF BackCloses
  <2> QED BY <2>t, <2>e, <2>h, <2>k, <2>s, <2>o, <2>p, <2>c DEF SearchInv
<1>9. CASE color[e.to] = "white"
  <2> DEFINE w == e.to
  <2>1. /\ color' = [color EXCEPT ![w] = "gray"] /\ path' = Append(path, w)
        /\ back' = back
    BY <1>9, <1>4 DEF BackWith
  <2>2. /\ color' \in [Body -> {"white", "gray", "black"}] /\ color'[w] = "gray"
        /\ \A n \in Body : n # w => color'[n] = color[n]
    BY <2>1, <1>1, <1>5 DEF SearchTypeOK
  <2>3. /\ path' \in Seq(Body) /\ DOMAIN path' = 1..(L + 1) /\ path'[L + 1] = w
        /\ \A k \in 1..L : path'[k] = path[k]
    BY <2>1, <1>1, <1>2, <1>5 DEF SearchTypeOK
  <2>4. Black' = Black
    BY <2>2, <1>9, <1>b DEF Black
  <2>5. OnPath' = OnPath \cup {w} /\ w \notin OnPath
    BY <2>3, <1>2, <1>1, <1>5, <1>9 DEF OnPath, GrayIsPath
  <2>6. Kept' = Kept \cup {e} /\ Kept \subseteq Kept'
    BY <2>1, <1>6, <1>b, <1>5, <1>7 DEF Kept
  <2>t. SearchTypeOK'
    BY <1>1, <1>b, <1>6, <2>1, <2>2, <2>3 DEF SearchTypeOK
  <2>e. EdgesOpen'
    BY <1>1, <1>b, <1>3, <1>6, <2>2 DEF EdgesOpen
  <2>g. GrayIsPath'
    <3>1. \A n \in Body : color'[n] = "gray" <=> n \in OnPath'
      BY <2>2, <2>5, <1>1 DEF GrayIsPath
    <3>2. ASSUME NEW k \in 1..(L + 1), NEW l \in 1..(L + 1), k # l
          PROVE  path'[k] # path'[l]
      <4>1. \A i \in 1..(L + 1) : i = L + 1 \/ i \in 1..L
        OBVIOUS
      <4>2. \A i \in 1..L : path[i] # w
        BY <2>5, <1>2 DEF OnPath
      <4> QED BY <4>1, <4>2, <3>2, <2>3, <1>2, <1>1 DEF GrayIsPath
    <3> QED BY <3>1, <3>2, <2>3, <1>b DEF GrayIsPath
  <2>h. HeadsSeen' /\ BackSeen'
    <3>1. \A d \in Inside : d.to \in Body
      BY DEF Inside, Body
    <3> QED BY <3>1, <1>1, <1>b, <1>6, <2>1, <2>2 DEF HeadsSeen, BackSeen, SearchTypeOK
  <2>k. KeptDown'
    <3>1. ASSUME NEW d \in Kept'
          PROVE  \/ color'[d.to] = "black"
                 \/ \E k \in 1..(L + 1) : /\ k + 1 \in 1..(L + 1)
                                          /\ d.from = path'[k] /\ d.to = path'[k + 1]
      <4>1. CASE d = e
        BY <4>1, <1>2, <1>5, <2>3
      <4>2. CASE d \in Kept
        <5>1. d.to \in Body
          BY <4>2 DEF Kept, Inside, Body
        <5>2. CASE color[d.to] = "black"
          BY <5>1, <5>2, <2>2, <1>9
        <5>3. CASE NextOnPath(d.from, d.to)
          <6>1. PICK k \in 1..L : k + 1 \in 1..L /\ d.from = path[k] /\ d.to = path[k + 1]
            BY <5>3, <1>2 DEF NextOnPath
          <6>2. k \in 1..(L + 1) /\ k + 1 \in 1..(L + 1)
            BY <6>1
          <6> QED BY <6>1, <6>2, <2>3
        <5> QED BY <4>2, <5>2, <5>3, <1>1 DEF KeptDown
      <4> QED BY <3>1, <4>1, <4>2, <2>6
    <3> QED BY <3>1, <2>3 DEF KeptDown, NextOnPath
  <2>s. BlackSorted'
    <3>1. e.from \notin Black
      BY <1>3, <1>5 DEF Black
    <3> QED BY <3>1, <2>4, <2>6, <1>1 DEF BlackSorted, NoCycle
  <2>o. OneStart'
    <3>1. PICK s \in Body :
             /\ StartsFirst(s) /\ color[s] # "white" /\ path[1] = s
             /\ \A n \in Body \ {s} : color[n] # "white" => \E d \in Kept : d.to = n
             /\ \A d \in Inside : d.to = s /\ d \notin open[d.from] => d \in back
      BY <1>1, <1>2 DEF OneStart
    <3>2. s # w /\ path'[1] = s /\ color'[s] # "white"
      BY <3>1, <1>9, <2>2, <2>3, <1>2
    <3>3. \A d \in Inside : d.to = s /\ d \notin open'[d.from] => d \in back'
      BY <3>1, <3>2, <1>6, <2>1
    <3>4. \A n \in Body \ {s} : color'[n] # "white" => \E d \in Kept' : d.to = n
      BY <3>1, <2>2, <2>6
    <3> QED BY <3>1, <3>2, <3>3, <3>4, <1>b DEF OneStart
  <2>p. PathReaches'
    <3>1. ASSUME NEW k \in 1..(L + 1), NEW l \in 1..(L + 1), k <= l
          PROVE  Reaches(Body, Kept', path'[k], path'[l])
      <4>1. CASE l \in 1..L
        <5>1. k \in 1..L
          BY <3>1, <4>1
        <5>2. Reaches(Body, Kept, path[k], path[l])
          BY <5>1, <4>1, <3>1, <1>1, <1>2 DEF PathReaches
        <5> QED BY <5>1, <5>2, <4>1, <2>3, <2>6, ReachesMore
      <4>2. CASE l = L + 1 /\ k = L + 1
        BY <4>2 DEF Reaches
      <4>3. CASE l = L + 1 /\ k \in 1..L
        <5>1. Reaches(Body, Kept, path[k], path[L])
          BY <4>3, <1>1, <1>2 DEF PathReaches
        <5>2. Reaches(Body, Kept', path[k], e.from)
          BY <5>1, <2>6, <1>2, <1>5, ReachesMore
        <5>3. Reaches(Body, Kept', path[k], w)
          BY <5>2, <2>6, ReachesOn
        <5> QED BY <5>3, <4>3, <2>3
      <4> QED BY <3>1, <4>1, <4>2, <4>3
    <3> QED BY <3>1, <2>3, <1>b DEF PathReaches
  <2>c. BackCloses'
    BY <1>1, <2>1, <2>6, <1>b, ReachesMore DEF BackCloses
  <2> QED BY <2>t, <2>e, <2>g, <2>h, <2>k, <2>s, <2>o, <2>p, <2>c DEF SearchInv
<1> QED BY <1>8, <1>9

(* The innermost node is done: no kept edge comes from a finished node.    *)
LEMMA SearchReturnKeeps ==
  ASSUME SearchInv, SearchReturn
  PROVE  SearchInv'
<1>1. /\ SearchTypeOK /\ EdgesOpen /\ GrayIsPath /\ HeadsSeen /\ BackSeen
      /\ KeptDown /\ BlackSorted /\ OneStart /\ BackCloses /\ PathReaches
  BY DEF SearchInv
<1>b. /\ Body' = Body /\ Inside' = Inside /\ \A n : OutEdges(n)' = OutEdges(n)
      /\ DOMAIN comps' = DOMAIN comps /\ body' = body
      /\ \A s : StartsFirst(s)' <=> StartsFirst(s)
  BY BodyStays DEF SearchReturn
<1>2. PICK L \in Nat \ {0} : /\ DOMAIN path = 1..L /\ L = Len(path) /\ Inner = path[L]
                             /\ path # <<>> /\ L \in 1..L
  BY <1>1 DEF SearchTypeOK, SearchReturn, Inner
<1> DEFINE u == Inner
<1>3. /\ u \in Body /\ u \in OnPath /\ color[u] = "gray" /\ open[u] = {}
      /\ \A k \in 1..L : path[k] \in Body /\ color[path[k]] = "gray"
  <2>1. /\ u \in Body /\ u \in OnPath /\ color[u] = "gray"
        /\ \A k \in 1..L : path[k] \in Body /\ color[path[k]] = "gray"
    BY <1>1, <1>2 DEF SearchTypeOK, OnPath, GrayIsPath
  <2>2. open[u] = {}
    BY DEF SearchReturn
  <2> QED BY <2>1, <2>2
<1>4. /\ color' = [color EXCEPT ![u] = "black"] /\ open' = open /\ back' = back
      /\ path' = SubSeq(path, 1, L - 1)
  BY <1>2 DEF SearchReturn
<1>5. /\ color' \in [Body -> {"white", "gray", "black"}] /\ color'[u] = "black"
      /\ \A n \in Body : n # u => color'[n] = color[n]
  BY <1>4, <1>1, <1>3 DEF SearchTypeOK
<1>6. /\ path' \in Seq(Body) /\ DOMAIN path' = 1..(L - 1) /\ Len(path') = L - 1
      /\ \A k \in 1..(L - 1) : path'[k] = path[k]
  BY <1>4, <1>1, <1>2 DEF SearchTypeOK
<1>7. \A k \in 1..(L - 1) : k \in 1..L /\ k # L
  OBVIOUS
<1>8. /\ Kept' = Kept /\ Black' = Black \cup {u} /\ Black \subseteq Body
      /\ \A n \in Black : color[n] = "black"
  BY <1>4, <1>b, <1>5, <1>3 DEF Kept, Black
<1>9. \A k \in 1..(L - 1) : path[k] # u
  BY <1>1, <1>2, <1>7 DEF GrayIsPath
<1>t. SearchTypeOK'
  BY <1>1, <1>b, <1>4, <1>5, <1>6 DEF SearchTypeOK
<1>e. EdgesOpen'
  BY <1>1, <1>b, <1>3, <1>4, <1>5 DEF EdgesOpen
<1>g. GrayIsPath'
  <2>1. \A i \in 1..L : i = L \/ i \in 1..(L - 1)
    OBVIOUS
  <2>2. OnPath' = {path[k] : k \in 1..(L - 1)}
    BY <1>6 DEF OnPath
  <2>3. ASSUME NEW n \in Body  PROVE color'[n] = "gray" <=> n \in OnPath'
    <3>1. CASE n = u
      BY <3>1, <2>2, <1>9, <1>5
    <3>2. CASE n # u
      <4>1. n \in OnPath <=> n \in OnPath'
        BY <3>2, <2>1, <2>2, <1>2, <1>7 DEF OnPath
      <4> QED BY <4>1, <3>2, <1>5, <1>1 DEF GrayIsPath
    <3> QED BY <3>1, <3>2
  <2>4. \A k, l \in DOMAIN path' : k # l => path'[k] # path'[l]
    BY <1>1, <1>2, <1>6, <1>7 DEF GrayIsPath
  <2> QED BY <2>3, <2>4, <1>b DEF GrayIsPath
<1>h. HeadsSeen' /\ BackSeen'
  <2>1. \A d \in Inside : d.to \in Body
    BY DEF Inside, Body
  <2> QED BY <2>1, <1>1, <1>b, <1>4, <1>5 DEF HeadsSeen, BackSeen
<1>k. KeptDown'
  <2>1. ASSUME NEW d \in Kept
        PROVE  \/ color'[d.to] = "black"
               \/ \E k \in 1..(L - 1) : /\ k + 1 \in 1..(L - 1)
                                        /\ d.from = path'[k] /\ d.to = path'[k + 1]
    <3>1. d.to \in Body
      BY DEF Kept, Inside, Body
    <3>2. CASE color[d.to] = "black"
      BY <3>1, <3>2, <1>5
    <3>3. CASE NextOnPath(d.from, d.to)
      <4>1. PICK k \in 1..L : k + 1 \in 1..L /\ d.from = path[k] /\ d.to = path[k + 1]
        BY <3>3, <1>2 DEF NextOnPath
      <4>2. CASE k + 1 = L
        BY <4>1, <4>2, <1>2, <1>5
      <4>3. CASE k + 1 # L
        <5>1. k \in 1..(L - 1) /\ k + 1 \in 1..(L - 1)
          BY <4>1, <4>3
        <5> QED BY <4>1, <5>1, <1>6
      <4> QED BY <4>2, <4>3
    <3> QED BY <3>2, <3>3, <1>1 DEF KeptDown
  <2> QED BY <2>1, <1>6, <1>8 DEF KeptDown, NextOnPath
<1>s. BlackSorted'
  <2>1. \A d \in Kept : d.to = u => d.from \notin Black \cup {u}
    <3>1. SUFFICES ASSUME NEW d \in Kept, d.to = u  PROVE d.from \notin Black \cup {u}
      OBVIOUS
    <3>2. PICK k \in 1..L : k + 1 \in 1..L /\ d.from = path[k] /\ u = path[k + 1]
      BY <3>1, <1>1, <1>2, <1>3 DEF KeptDown, NextOnPath
    <3>3. k + 1 = L
      BY <3>2, <1>1, <1>2 DEF GrayIsPath
    <3>4. k \in 1..(L - 1)
      BY <3>3
    <3> QED BY <3>2, <3>4, <1>3, <1>8, <1>9
  <2>2. ASSUME NEW T \in SUBSET (Black \cup {u}), T # {}
        PROVE  \E t \in T : \A d \in Kept : d.to = t => d.from \notin T
    <3>1. CASE u \in T
      BY <3>1, <2>1, <2>2
    <3>2. CASE u \notin T
      BY <3>2, <2>2, <1>1 DEF BlackSorted, NoCycle
    <3> QED BY <3>1, <3>2
  <2> QED BY <2>2, <1>8 DEF BlackSorted, NoCycle
<1>o. OneStart'
  <2>1. PICK s \in Body :
           /\ StartsFirst(s) /\ color[s] # "white" /\ path[1] = s
           /\ \A n \in Body \ {s} : color[n] # "white" => \E d \in Kept : d.to = n
           /\ \A d \in Inside : d.to = s /\ d \notin open[d.from] => d \in back
    BY <1>1, <1>2 DEF OneStart
  <2>2. color'[s] # "white"
    BY <2>1, <1>5
  <2>3. path' # <<>> => path'[1] = s
    <3>1. SUFFICES ASSUME path' # <<>>  PROVE path'[1] = s
      OBVIOUS
    <3>2. L - 1 # 0
      BY <3>1, <1>6
    <3>3. 1 \in 1..(L - 1)
      BY <3>2
    <3> QED BY <3>3, <1>6, <2>1
  <2>4. \A n \in Body \ {s} : color'[n] # "white" => \E d \in Kept : d.to = n
    BY <2>1, <1>5, <1>3
  <2> QED BY <2>1, <2>2, <2>3, <2>4, <1>4, <1>8, <1>b DEF OneStart
<1>c. BackCloses'
  BY <1>1, <1>4, <1>8, <1>b DEF BackCloses
<1>p. PathReaches'
  BY <1>1, <1>2, <1>6, <1>7, <1>8, <1>b DEF PathReaches
<1> QED BY <1>t, <1>e, <1>g, <1>h, <1>k, <1>s, <1>o, <1>c, <1>p DEF SearchInv

-----------------------------------------------------------------------------
(* What the search leaves behind for the loop it cuts.                     *)

(* s is entered from outside, if any node is.                              *)
EnteredFirst(s) == (\E n \in Body : Entered(n)) => Entered(s)

(* What the search leaves behind for the unfolding.                        *)
IsCut == /\ back \in SUBSET Inside
         /\ NoCycle(Body, Forward)
         /\ \A e \in back : Reaches(Body, Forward, e.to, e.from)
         /\ \E s \in Body : /\ EnteredFirst(s)
                            /\ \A e \in Forward : e.to # s
                            /\ \A n \in Body \ {s} : \E e \in Forward : e.to = n

(* When the search is over, the edges it kept have no cycle, each back     *)
(* edge is closed by kept edges, and the kept edges enter every node but   *)
(* the first.                                                              *)
LEMMA SearchCuts ==
  ASSUME SearchInv, path = <<>>, White = {}, Body # {}
  PROVE  IsCut
<1>1. /\ SearchTypeOK /\ EdgesOpen /\ GrayIsPath /\ BackSeen
      /\ BlackSorted /\ OneStart /\ BackCloses
  BY DEF SearchInv
<1>2. \A n \in Body : color[n] = "black"
  <2>1. OnPath = {}
    BY DEF OnPath
  <2> QED BY <2>1, <1>1 DEF GrayIsPath, SearchTypeOK, White, Body
<1>3. Black = Body /\ Black # {}
  BY <1>2 DEF Black
<1>4. \A e \in Inside : e \notin open[e.from]
  BY <1>1, <1>2 DEF EdgesOpen, Inside, Body
<1>5. Kept = Forward
  BY <1>4 DEF Kept, Forward
<1>6. PICK s \in Body :
        /\ StartsFirst(s)
        /\ \A n \in Body \ {s} : color[n] # "white" => \E e \in Kept : e.to = n
        /\ \A e \in Inside : e.to = s /\ e \notin open[e.from] => e \in back
  BY <1>1, <1>3 DEF OneStart
<1>7. EnteredFirst(s)
  <2>1. SUFFICES ASSUME NEW n \in Body, Entered(n), n # s  PROVE Entered(s)
    BY DEF EnteredFirst
  <2>2. StartsBefore(s, n)
    BY <2>1, <1>6 DEF StartsFirst
  <2> QED BY <2>1, <2>2 DEF StartsBefore
<1>8. \A e \in Forward : e.to # s
  BY <1>4, <1>6 DEF Forward
<1>9. \A n \in Body \ {s} : \E e \in Forward : e.to = n
  BY <1>2, <1>5, <1>6
<1> QED BY <1>1, <1>3, <1>5, <1>7, <1>8, <1>9
        DEF IsCut, SearchTypeOK, BlackSorted, BackCloses

-----------------------------------------------------------------------------
(* Levels: what is true of the levels taken out so far, all their nodes    *)
(* being out of Kahn's algorithm.                                          *)

(* The nodes of levels.  Levels are apart, and an edge to a node in them   *)
(* comes from an earlier level.                                            *)
LevelNodes(ls) == UNION {ls[k] : k \in DOMAIN ls}

LevelsApart(ls) == \A k, l \in DOMAIN ls : k # l => ls[k] \cap ls[l] = {}

LevelsForward(A, ls) ==
    \A a \in A : \A l \in DOMAIN ls : a.to \in ls[l] =>
        \E k \in DOMAIN ls : k < l /\ a.from \in ls[k]

(* The levels made so far and the next one.                                *)
LevelsOK(N, A, ls, lvl) ==
    /\ ls \in Seq(SUBSET N)
    /\ LevelsApart(ls)
    /\ LevelsForward(A, ls)
    /\ LET first == {v \in N : \A a \in A : a.to # v}
       IN  IF ls = <<>> THEN lvl = first ELSE ls[1] = first

(* Before the first level is made there is nothing to keep apart.          *)
LEMMA LevelsStart ==
  ASSUME NEW N, NEW A, IsFiniteSet(A)
  PROVE  LevelsOK(N, A, <<>>, Sources(Indegrees(N, A))) /\ LevelNodes(<<>>) = {}
<1>1. ASSUME NEW v \in N
      PROVE  Indegrees(N, A)[v] = 0 <=> \A a \in A : a.to # v
  <2> DEFINE I == {a \in A : a.to = v}
  <2>1. I \in SUBSET A
    OBVIOUS
  <2>2. IsFiniteSet(I)
    BY <2>1, FS_Subset
  <2>3. Cardinality(I) = 0 <=> I = {}
    BY <2>2, FS_EmptySet
  <2>4. Indegrees(N, A)[v] = Cardinality(I)
    BY DEF Indegrees
  <2> QED BY <2>3, <2>4
<1>2. DOMAIN Indegrees(N, A) = N
  BY DEF Indegrees
<1>3. Sources(Indegrees(N, A)) = {v \in N : \A a \in A : a.to # v}
  BY <1>1, <1>2 DEF Sources
<1>4. DOMAIN <<>> = {} /\ <<>> \in Seq(SUBSET N)
  OBVIOUS
<1> QED BY <1>3, <1>4 DEF LevelsOK, LevelsApart, LevelsForward, LevelNodes

(* A level of nodes that wait for no other node extends the levels.        *)
LEMMA LevelAdded ==
  ASSUME NEW N, NEW A, IsFiniteSet(A), NEW deg, NEW lvl, NEW ls, NEW new,
         LevelsOK(N, A, ls, lvl), KahnInv(N, A, deg, lvl, LevelNodes(ls))
  PROVE  /\ LevelsOK(N, A, Append(ls, lvl), new)
         /\ LevelNodes(Append(ls, lvl)) = LevelNodes(ls) \cup lvl
<1>1. PICK L \in Nat : L = Len(ls)
  BY DEF LevelsOK
<1> DEFINE add == Append(ls, lvl)
<1>2. /\ ls \in Seq(SUBSET N) /\ DOMAIN ls = 1..L /\ lvl \in SUBSET N
      /\ lvl \cap LevelNodes(ls) = {}
  BY <1>1 DEF LevelsOK, KahnInv
<1>3. /\ add \in Seq(SUBSET N) /\ DOMAIN add = 1..(L + 1) /\ add[L + 1] = lvl
      /\ \A k \in 1..L : add[k] = ls[k]
  BY <1>1, <1>2
<1>4. /\ \A k \in 1..L : k \in 1..(L + 1) /\ k # L + 1 /\ k < L + 1
      /\ \A k \in 1..(L + 1) : k = L + 1 \/ k \in 1..L
      /\ L + 1 \in 1..(L + 1) /\ 1 \in 1..(L + 1)
  OBVIOUS
<1> HIDE DEF add
<1>5. LevelNodes(add) = LevelNodes(ls) \cup lvl
  BY <1>2, <1>3, <1>4 DEF LevelNodes
<1>6. LevelsApart(add)
  <2>1. \A k \in 1..L : lvl \cap ls[k] = {}
    BY <1>2 DEF LevelNodes
  <2>2. ASSUME NEW k \in 1..(L + 1), NEW l \in 1..(L + 1), k # l
        PROVE  add[k] \cap add[l] = {}
    <3>1. CASE k = L + 1 /\ l \in 1..L
      BY <3>1, <2>1, <1>3
    <3>2. CASE l = L + 1 /\ k \in 1..L
      BY <3>2, <2>1, <1>3
    <3>3. CASE k \in 1..L /\ l \in 1..L
      BY <3>3, <2>2, <1>2, <1>3 DEF LevelsOK, LevelsApart
    <3> QED BY <2>2, <3>1, <3>2, <3>3, <1>4
  <2> QED BY <2>2, <1>3 DEF LevelsApart
<1>7. LevelsForward(A, add)
  <2>1. ASSUME NEW a \in A, NEW l \in 1..(L + 1), a.to \in add[l]
        PROVE  \E k \in 1..(L + 1) : k < l /\ a.from \in add[k]
    <3>1. CASE l \in 1..L
      <4>1. PICK k \in 1..L : k < l /\ a.from \in ls[k]
        BY <3>1, <2>1, <1>2, <1>3 DEF LevelsOK, LevelsForward
      <4> QED BY <4>1, <1>3, <1>4
    <3>2. CASE l = L + 1
      <4>1. a.from \in LevelNodes(ls)
        BY <3>2, <2>1, <1>3, KahnOrder
      <4>2. PICK k \in 1..L : a.from \in ls[k]
        BY <4>1, <1>2 DEF LevelNodes
      <4> QED BY <4>2, <3>2, <1>3, <1>4
    <3> QED BY <3>1, <3>2, <1>4
  <2> QED BY <2>1, <1>3 DEF LevelsForward
<1>8. add # <<>> /\ add[1] = IF ls = <<>> THEN lvl ELSE ls[1]
  <2>1. add # <<>>
    BY <1>3
  <2>2. CASE ls = <<>>
    <3>1. L = 0
      BY <2>2, <1>1
    <3> QED BY <3>1, <2>1, <2>2, <1>3
  <2>3. CASE ls # <<>>
    <3>1. 1 \in 1..L
      BY <2>3, <1>1, <1>2
    <3> QED BY <3>1, <2>1, <2>3, <1>3
  <2> QED BY <2>2, <2>3
<1>9. LevelsOK(N, A, add, new)
  BY <1>3, <1>6, <1>7, <1>8 DEF LevelsOK
<1> QED BY <1>5, <1>9 DEF add

(* The edges inside a component, and its nodes entered from outside.       *)
InsideOf(C) == {e \in Edges : e.from \in C /\ e.to \in C}
EnteredIn(C, n) == \E e \in Edges : e.to = n /\ e.from \notin C

(* Step s is component c, unfolded.                                        *)
IsLoop(s, c) ==
    LET C == comps[c]
        forward == InsideOf(C) \ s.back
    IN  /\ s.kind = "loop"
        /\ StepNodes(s) = C /\ LevelsApart(s.levels)
        /\ s.back \in SUBSET InsideOf(C)
        /\ LevelsForward(forward, s.levels)
        /\ \A e \in s.back : Reaches(C, forward, e.to, e.from)
        /\ 1 \in DOMAIN s.levels
        /\ \E n \in C : /\ s.levels[1] = {n}
                        /\ (\E m \in C : EnteredIn(C, m)) => EnteredIn(C, n)

(* The invariant of _kahn_levels for one loop.                             *)
UnfoldInv == /\ IsCut
             /\ KahnInv(Body, Forward, indeg, cur, LevelNodes(levels))
             /\ LevelsOK(Body, Forward, levels, cur)

(* A loop has a number of rounds.                                          *)
LEMMA MaxIsInt ==
  ASSUME IsGraph(graph), IsFiniteSet(Nodes), Body \subseteq Nodes
  PROVE  MaxIterations \in Int
<1> DEFINE D == comps[body] \cap graph.brancher \cap DOMAIN graph.limit
           given == {graph.limit[n] : n \in D}
           f == [n \in D |-> graph.limit[n]]
<1>1. D \in SUBSET Nodes
  BY DEF Body
<1>2. IsFiniteSet(D)
  BY <1>1, FS_Subset
<1>3. given \in SUBSET Int
  BY DEF IsGraph
<1>4. f \in [D -> given] /\ \A t \in given : \E n \in D : f[n] = t
  OBVIOUS
<1> HIDE DEF D, given, f
<1>5. f \in Surjection(D, given)
  BY <1>4 DEF Surjection
<1>6. IsFiniteSet(given)
  BY <1>2, <1>5, FS_Surjection
<1>7. given # {} => \E m \in given : \A k \in given : m <= k
  BY <1>3, <1>6, SmallestExists
<1>8. given # {} => (CHOOSE m \in given : \A k \in given : m <= k) \in Int
  BY <1>3, <1>7
<1> USE DEF D, given
<1> QED BY <1>8 DEF MaxIterations, DefaultMaxIterations

(* When no level is left, the loop step is the component it was built      *)
(* from.                                                                   *)
LEMMA LoopUnfolded ==
  ASSUME UnfoldInv, cur = {}, IsFiniteSet(Edges), Body # {}
  PROVE  IsLoop(LoopStep, body)
<1>1. IsFiniteSet(Forward) /\ \A a \in Forward : a.from \in Body
  <2>1. Forward \in SUBSET Edges
    BY DEF Forward, Inside
  <2>2. \A a \in Forward : a.from \in Body
    BY DEF Forward, Inside, Body
  <2> QED BY <2>1, <2>2, FS_Subset
<1>2. LevelNodes(levels) = Body
  BY <1>1, KahnEnds DEF UnfoldInv, IsCut
<1>3. levels # <<>> /\ levels \in Seq(SUBSET Body)
  <2>1. DOMAIN <<>> = {}
    OBVIOUS
  <2> QED BY <2>1, <1>2 DEF LevelNodes, UnfoldInv, LevelsOK
<1>4. 1 \in DOMAIN levels
  BY <1>3
<1>5. PICK s \in Body : /\ EnteredFirst(s)
                        /\ \A e \in Forward : e.to # s
                        /\ \A n \in Body \ {s} : \E e \in Forward : e.to = n
  BY DEF UnfoldInv, IsCut
<1>6. levels[1] = {v \in Body : \A a \in Forward : a.to # v}
  BY <1>3 DEF UnfoldInv, LevelsOK
<1>7. levels[1] = {s}
  BY <1>5, <1>6
<1>8. InsideOf(Body) = Inside /\ Forward = InsideOf(Body) \ back
  BY DEF InsideOf, Inside, Forward, Body
<1>9. (\E m \in Body : EnteredIn(Body, m)) => EnteredIn(Body, s)
  BY <1>5 DEF EnteredFirst, Entered, EnteredIn, Body
<1>10. /\ LoopStep.kind = "loop" /\ LoopStep.levels = levels /\ LoopStep.back = back
       /\ StepNodes(LoopStep) = LevelNodes(levels)
  BY DEF LoopStep, StepNodes, LevelNodes
<1>11. /\ LevelsApart(levels) /\ LevelsForward(Forward, levels)
       /\ back \in SUBSET Inside
       /\ \A e \in back : Reaches(Body, Forward, e.to, e.from)
  BY DEF UnfoldInv, LevelsOK, IsCut
<1> HIDE DEF LoopStep
<1> QED BY <1>2, <1>4, <1>5, <1>7, <1>8, <1>9, <1>10, <1>11 DEF IsLoop, Body

-----------------------------------------------------------------------------
(* The components, once they are all found.                                *)

(* What is known of the components once they are all found.                *)
CompsOK == /\ comps \in Seq(SUBSET Nodes)
           /\ \A n \in Nodes : InComp(n)
           /\ \A c, d \in DOMAIN comps : c # d => comps[c] \cap comps[d] = {}
           /\ Sealed /\ Strong

(* At the end of _tarjan_sccs its result is the partition into strongly    *)
(* connected components.                                                   *)
LEMMA CompsFound ==
  ASSUME IsGraph(graph), TarjanInv, Found
  PROVE  CompsOK
BY TarjanEnds DEF CompsOK, TarjanInv, TarjanTypeOK

(* The condensation has no cycle: its edges lead from later to earlier     *)
(* components.                                                             *)
LEMMA CompsAcyclic ==
  ASSUME IsGraph(graph), CompsOK
  PROVE  /\ NoCycle(DOMAIN comps, CompEdges) /\ IsFiniteSet(CompEdges)
         /\ \A a \in CompEdges : a.from \in DOMAIN comps /\ a.to \in DOMAIN comps
<1>1. PICK n \in Nat : DOMAIN comps = 1..n
  <2>1. comps \in Seq(SUBSET Nodes)
    BY DEF CompsOK
  <2>2. PICK n \in Nat : n = Len(comps)
    BY <2>1
  <2> QED BY <2>1, <2>2
<1>2. \A a \in CompEdges : a.from \in 1..n /\ a.to \in 1..n /\ a.to < a.from
  <2>1. SUFFICES ASSUME NEW a \in CompEdges
                 PROVE  a.from \in 1..n /\ a.to \in 1..n /\ a.to < a.from
    OBVIOUS
  <2>2. /\ a.from \in 1..n /\ a.to \in 1..n /\ a.from # a.to
        /\ \E e \in Edges : e.from \in comps[a.from] /\ e.to \in comps[a.to]
    BY <1>1 DEF CompEdges
  <2>3. PICK e \in Edges : e.from \in comps[a.from] /\ e.to \in comps[a.to]
    BY <2>2
  <2>4. PICK d \in 1..n : d <= a.from /\ e.to \in comps[d]
    BY <2>2, <2>3, <1>1 DEF CompsOK, Sealed
  <2>5. d = a.to
    BY <2>2, <2>3, <2>4, <1>1 DEF CompsOK
  <2> QED BY <2>2, <2>4, <2>5
<1>3. ASSUME NEW T \in SUBSET (1..n), T # {}
      PROVE  \E t \in T : \A a \in CompEdges : a.to = t => a.from \notin T
  <2>1. PICK t \in T : \A y \in T : y <= t
    BY <1>3, LargestExists
  <2>2. \A a \in CompEdges : a.to = t => a.from \notin T
    BY <2>1, <1>2
  <2> QED BY <2>2
<1>4. IsFiniteSet(CompEdges)
  <2> DEFINE P == (1..n) \X (1..n)
             Q == [from : 1..n, to : 1..n]
             f == [p \in P |-> [from |-> p[1], to |-> p[2]]]
  <2>1. IsFiniteSet(P)
    <3>1. IsFiniteSet(1..n)
      BY FS_Interval
    <3> QED BY <3>1, FS_Product
  <2>2. f \in [P -> Q]
    OBVIOUS
  <2>3. ASSUME NEW q \in Q  PROVE \E p \in P : f[p] = q
    <3>1. <<q.from, q.to>> \in P /\ f[<<q.from, q.to>>] = q
      OBVIOUS
    <3> QED BY <3>1
  <2> HIDE DEF P, Q, f
  <2>4. f \in Surjection(P, Q)
    BY <2>2, <2>3 DEF Surjection
  <2>5. IsFiniteSet(Q)
    BY <2>1, <2>4, FS_Surjection
  <2>6. CompEdges \in SUBSET Q
    BY <1>1 DEF CompEdges, Q
  <2> QED BY <2>5, <2>6, FS_Subset
<1> QED BY <1>1, <1>2, <1>3, <1>4 DEF NoCycle

(* A component is a loop exactly when its nodes are on a cycle.            *)
LEMMA LoopNodes ==
  ASSUME IsGraph(graph), CompsOK, NEW c \in DOMAIN comps, NEW n \in comps[c]
  PROVE  /\ {m \in Nodes : SameLoop(n, m)} = comps[c]
         /\ OnCycle(n) <=> c \in Loops
<1>1. comps[c] \in SUBSET Nodes
  BY DEF CompsOK
<1>2. \A m \in Nodes : m \in comps[c] <=> SameLoop(n, m)
  BY <1>1 DEF CompsOK, Strong, R, SameLoop
<1>3. OnCycle(n) <=> \/ Cardinality(comps[c]) > 1
                     \/ \E e \in Edges : e.from \in comps[c] /\ e.to = e.from
  BY <1>1, <1>2, ClassOnCycle
<1> QED BY <1>1, <1>2, <1>3 DEF Loops, IsNontrivial

(* A workflow without a loop component has no cycle at all.                *)
LEMMA NodesAcyclic ==
  ASSUME IsGraph(graph), CompsOK, Loops = {}
  PROVE  NoCycle(Nodes, Edges)
<1>1. PICK n \in Nat : DOMAIN comps = 1..n
  <2>1. comps \in Seq(SUBSET Nodes)
    BY DEF CompsOK
  <2>2. PICK n \in Nat : n = Len(comps)
    BY <2>1
  <2> QED BY <2>1, <2>2
<1>2. ASSUME NEW T \in SUBSET Nodes, T # {}
      PROVE  \E t \in T : \A a \in Edges : a.to = t => a.from \notin T
  <2> DEFINE K == {c \in 1..n : comps[c] \cap T # {}}
  <2>1. K \in SUBSET (1..n) /\ K # {}
    BY <1>1, <1>2 DEF CompsOK, InComp
  <2>2. PICK c \in K : \A d \in K : d <= c
    BY <2>1, LargestExists
  <2>3. PICK t \in T : t \in comps[c]
    OBVIOUS
  <2>4. ASSUME NEW a \in Edges, a.to = t, a.from \in T  PROVE FALSE
    <3>1. PICK d \in 1..n : a.from \in comps[d]
      BY <2>4, <1>1 DEF CompsOK, InComp
    <3>2. d <= c
      BY <3>1, <2>2, <2>4
    <3>3. PICK b \in 1..n : b <= d /\ a.to \in comps[b]
      BY <3>1, <1>1 DEF CompsOK, Sealed
    <3>4. b = c
      BY <3>3, <2>3, <2>4, <1>1 DEF CompsOK
    <3>5. d = c
      BY <3>2, <3>3, <3>4
    <3>6. ~OnCycle(t)
      BY <2>3, <1>1, LoopNodes
    <3>7. SameLoop(t, a.from)
      BY <3>1, <3>5, <2>3, <1>1, <1>2, <2>4, LoopNodes
    <3>8. a.from = t
      BY <3>6, <3>7, <1>2, <2>4 DEF OnCycle
    <3> QED BY <3>6, <3>8, <2>4 DEF OnCycle
  <2> QED BY <2>4
<1> QED BY <1>2 DEF NoCycle

-----------------------------------------------------------------------------
(* The steps planned so far.                                               *)

(* The nodes of the steps emitted so far.                                  *)
Placed == UNION {StepNodes(steps[i]) : i \in DOMAIN steps}

(* Step s is a level of nodes of no loop.                                  *)
IsLevel(s) == \E ns \in SUBSET Nodes :
                  s = LevelStep(ns) /\ \A c \in Loops : ns \cap comps[c] = {}

(* A step of either kind.                                                  *)
IsStep(s) == /\ s \in StepRecords(PlannedWorkflow)
             /\ IsLevel(s) \/ \E c \in Loops : IsLoop(s, c)

(* What leads into step s comes from the nodes P, or from the loop itself. *)
Follows(s, P) == \A e \in Edges : e.to \in StepNodes(s) =>
    e.from \in P \/ (s.kind = "loop" /\ e.from \in StepNodes(s))

(* The nodes of the steps before step j.                                   *)
Before(j) == UNION {StepNodes(steps[i]) : i \in {k \in DOMAIN steps : k < j}}

(* The steps are steps, are apart, and follow each other.                  *)
StepsOK ==
    /\ steps \in Seq({steps[i] : i \in DOMAIN steps})
    /\ \A i \in DOMAIN steps : IsStep(steps[i])
    /\ \A i, j \in DOMAIN steps : i # j => StepNodes(steps[i]) \cap StepNodes(steps[j]) = {}
    /\ \A j \in DOMAIN steps : Follows(steps[j], Before(j))

(* What is said of a step depends on the graph and its components alone.   *)
LEMMA PlanStays ==
  ASSUME UNCHANGED <<graph, tarjan>>
  PROVE  /\ Nodes' = Nodes /\ Edges' = Edges /\ comps' = comps /\ graph' = graph
         /\ Loops' = Loops /\ CompEdges' = CompEdges
         /\ \A c : HasExit(c)' <=> HasExit(c)
         /\ \A s : IsStep(s)' <=> IsStep(s)
         /\ \A s, P : Follows(s, P)' <=> Follows(s, P)
<1>1. graph' = graph /\ comps' = comps
  BY DEF tarjan
<1>2. Nodes' = Nodes /\ Edges' = Edges
  BY <1>1 DEF Nodes, Edges
<1>3. Loops' = Loops /\ CompEdges' = CompEdges /\ \A c : HasExit(c)' <=> HasExit(c)
  BY <1>1, <1>2 DEF Loops, IsNontrivial, CompEdges, HasExit
<1>4. \A s : IsLevel(s)' <=> IsLevel(s)
  BY <1>1, <1>2, <1>3 DEF IsLevel
<1>5. \A s, c : IsLoop(s, c)' <=> IsLoop(s, c)
  BY <1>1, <1>2 DEF IsLoop, InsideOf, EnteredIn
<1>6. \A s : IsStep(s)' <=> IsStep(s)
  <2>1. StepRecords(PlannedWorkflow)' = StepRecords(PlannedWorkflow)
    BY <1>2 DEF StepRecords, PlannedWorkflow
  <2> QED BY <2>1, <1>3, <1>4, <1>5 DEF IsStep
<1>7. \A s, P : Follows(s, P)' <=> Follows(s, P)
  BY <1>2 DEF Follows
<1> QED BY <1>1, <1>2, <1>3, <1>6, <1>7

(* An action that appends no step keeps what is said of the steps.         *)
LEMMA StepsStay ==
  ASSUME UNCHANGED <<graph, tarjan, steps>>
  PROVE  (StepsOK' <=> StepsOK) /\ Placed' = Placed
<1>1. /\ \A s : IsStep(s)' <=> IsStep(s)
      /\ \A s, P : Follows(s, P)' <=> Follows(s, P)
  BY PlanStays
<1>2. \A j : Before(j)' = Before(j)
  BY DEF Before
<1> QED BY <1>1, <1>2 DEF StepsOK, Placed

(* A step of nodes not placed yet, whose incoming edges come from placed   *)
(* nodes, extends the plan.                                                *)
LEMMA StepAdded ==
  ASSUME StepsOK, NEW s, steps' = Append(steps, s), UNCHANGED <<graph, tarjan>>,
         IsStep(s), StepNodes(s) \cap Placed = {}, Follows(s, Placed)
  PROVE  StepsOK' /\ Placed' = Placed \cup StepNodes(s)
<1> DEFINE S == {steps[i] : i \in DOMAIN steps}
<1>1. PICK L \in Nat : L = Len(steps) /\ DOMAIN steps = 1..L /\ steps \in Seq(S)
  <2> HIDE DEF S
  <2>1. steps \in Seq(S)
    BY DEF StepsOK, S
  <2>2. PICK L \in Nat : L = Len(steps)
    BY <2>1
  <2> QED BY <2>1, <2>2
<1>2. /\ DOMAIN steps' = 1..(L + 1) /\ steps'[L + 1] = s
      /\ \A i \in 1..L : steps'[i] = steps[i]
      /\ steps' \in Seq(S \cup {s})
  <2> HIDE DEF S
  <2>1. steps \in Seq(S \cup {s})
    BY <1>1
  <2> QED BY <1>1, <2>1
<1>3. /\ \A i \in 1..L : i \in 1..(L + 1) /\ i # L + 1 /\ i < L + 1
      /\ \A i \in 1..(L + 1) : i = L + 1 \/ i \in 1..L
      /\ L + 1 \in 1..(L + 1) /\ ~ (L + 1 < L + 1)
      /\ \A i \in 1..L : ~ (L + 1 < i)
  OBVIOUS
<1>4. {steps'[i] : i \in DOMAIN steps'} = S \cup {s}
  BY <1>1, <1>2, <1>3
<1>5. steps' \in Seq({steps'[i] : i \in DOMAIN steps'})
  BY <1>2, <1>4
<1>6. Placed' = Placed \cup StepNodes(s)
  BY <1>1, <1>2, <1>3 DEF Placed
<1>7. /\ \A t : IsStep(t)' <=> IsStep(t)
      /\ \A t, P : Follows(t, P)' <=> Follows(t, P)
  BY PlanStays
<1>8. \A i \in 1..(L + 1) : IsStep(steps[i])'
  <2>1. \A i \in 1..(L + 1) : IsStep(steps'[i])
    BY <1>1, <1>2, <1>3 DEF StepsOK
  <2> QED BY <2>1, <1>7
<1>9. ASSUME NEW i \in 1..(L + 1), NEW j \in 1..(L + 1), i # j
      PROVE  StepNodes(steps'[i]) \cap StepNodes(steps'[j]) = {}
  <2>1. \A k \in 1..L : StepNodes(s) \cap StepNodes(steps[k]) = {}
    BY <1>1 DEF Placed
  <2>2. CASE i = L + 1 /\ j \in 1..L
    BY <2>1, <2>2, <1>2
  <2>3. CASE j = L + 1 /\ i \in 1..L
    BY <2>1, <2>3, <1>2
  <2>4. CASE i \in 1..L /\ j \in 1..L
    BY <2>4, <1>1, <1>2, <1>9 DEF StepsOK
  <2> QED BY <1>3, <1>9, <2>2, <2>3, <2>4
<1>10. ASSUME NEW j \in 1..(L + 1)  PROVE Follows(steps'[j], Before(j)')
  <2>1. CASE j = L + 1
    <3>1. Before(j)' = Placed
      BY <2>1, <1>1, <1>2, <1>3 DEF Before, Placed
    <3> QED BY <3>1, <2>1, <1>2
  <2>2. CASE j \in 1..L
    <3>1. {k \in 1..(L + 1) : k < j} = {k \in 1..L : k < j}
      BY <2>2
    <3>2. Before(j)' = Before(j)
      BY <3>1, <1>1, <1>2 DEF Before
    <3> QED BY <3>2, <2>2, <1>1, <1>2 DEF StepsOK
  <2> QED BY <1>3, <2>1, <2>2
<1>11. \A j \in 1..(L + 1) : Follows(steps[j], Before(j))'
  BY <1>7, <1>10
<1>12. StepsOK'
  BY <1>2, <1>5, <1>8, <1>9, <1>11 DEF StepsOK
<1> QED BY <1>6, <1>12

-----------------------------------------------------------------------------
(* The components planned so far: Kahn's algorithm of the condensation.    *)

(* The components whose nodes are placed; none is placed in part.          *)
Emitted == {c \in DOMAIN comps : comps[c] \subseteq Placed}
Whole == Placed = UNION {comps[c] : c \in Emitted}

(* A step that holds the components of X adds these and no others.         *)
LEMMA EmittedGrows ==
  ASSUME CompsOK, Whole, UNCHANGED <<graph, tarjan>>, NEW X \in SUBSET DOMAIN comps,
         Placed' = Placed \cup UNION {comps[c] : c \in X}
  PROVE  Whole' /\ Emitted' = Emitted \cup X
<1>1. comps' = comps /\ DOMAIN comps' = DOMAIN comps
  BY DEF tarjan
<1>2. \A c \in DOMAIN comps : comps[c] # {}
  BY DEF CompsOK, Strong
<1>3. Placed' = UNION {comps[c] : c \in Emitted \cup X}
  BY DEF Whole
<1>4. \A c \in Emitted \cup X : c \in DOMAIN comps
  BY DEF Emitted
<1>5. ASSUME NEW c \in DOMAIN comps, comps[c] \subseteq Placed'  PROVE c \in Emitted \cup X
  <2>1. PICK n \in comps[c] : TRUE
    BY <1>2
  <2>2. PICK d \in Emitted \cup X : n \in comps[d]
    BY <2>1, <1>3, <1>5
  <2>3. c = d
    BY <2>1, <2>2, <1>4 DEF CompsOK
  <2> QED BY <2>2, <2>3
<1>6. \A c \in Emitted \cup X : comps[c] \subseteq Placed'
  BY <1>3
<1>7. Emitted' = Emitted \cup X
  BY <1>1, <1>4, <1>5, <1>6 DEF Emitted
<1> QED BY <1>1, <1>3, <1>7 DEF Whole

-----------------------------------------------------------------------------
(* The invariant of each phase.                                            *)
Judged ==
    /\ phase \notin {"components", "refused"} => \A c \in Loops : HasExit(c)
    /\ phase = "refused" => \E c \in Loops : ~HasExit(c)

Scheduling == phase = "schedule" =>
    Loops = {} /\ KahnInv(Nodes, Edges, indeg, cur, Placed)

Ranking == phase = "rank" =>
    Whole /\ KahnInv(DOMAIN comps, CompEdges, compIndeg, frontier, Emitted)

Building == phase \in {"loops", "search", "unfold"} =>
    /\ Whole
    /\ KahnInv(DOMAIN comps, CompEdges, compIndeg, frontier, Emitted \ frontier)
    /\ pending \subseteq frontier \cap Loops
    /\ frontier \cap Emitted = frontier \ pending

Searching == phase = "search" => body \in pending /\ SearchInv

Unfolding == phase = "unfold" => body \in pending /\ UnfoldInv

Ended == phase = "done" => Placed = Nodes

(* The inductive invariant of plan().                                      *)
SchedInv ==
    /\ IsGraph(graph) /\ TarjanInv
    /\ phase = "components" => steps = <<>>
    /\ phase # "components" => Found /\ StepsOK
    /\ Judged /\ Scheduling /\ Ranking /\ Building /\ Searching /\ Unfolding /\ Ended

-----------------------------------------------------------------------------
(* After _tarjan_sccs the components found are there and are right.        *)
LEMMA Settled ==
  ASSUME SchedInv, phase # "components"
  PROVE  /\ IsGraph(graph) /\ TarjanInv /\ Found /\ StepsOK /\ CompsOK
         /\ Loops \subseteq DOMAIN comps
         /\ \A c \in DOMAIN comps : comps[c] # {} /\ comps[c] \in SUBSET Nodes
BY CompsFound DEF SchedInv, CompsOK, Strong, Loops

(* Once the components are found the graph and they stay.                  *)
LEMMA SettledStays ==
  ASSUME IsGraph(graph), TarjanInv, Found, UNCHANGED <<graph, tarjan>>
  PROVE  IsGraph(graph)' /\ TarjanInv' /\ Found'
BY TarjanStays

(* Before the first step nothing is placed.                                *)
LEMMA NothingPlaced ==
  ASSUME steps = <<>>
  PROVE  StepsOK /\ Placed = {}
<1>1. DOMAIN steps = {} /\ steps \in Seq({steps[i] : i \in DOMAIN steps})
  OBVIOUS
<1> QED BY <1>1 DEF StepsOK, Placed

(* A level step has the nodes it is made of.                               *)
LEMMA LevelStepNodes ==
  ASSUME NEW ns
  PROVE  StepNodes(LevelStep(ns)) = ns
BY DEF StepNodes, LevelStep

(* A level step is a step as a run reads it.                               *)
LEMMA LevelStepType ==
  ASSUME NEW ns \in SUBSET Nodes
  PROVE  LevelStep(ns) \in StepRecords(PlannedWorkflow)
<1>1. <<ns>> \in Seq(SUBSET Nodes)
  OBVIOUS
<1> QED BY <1>1 DEF LevelStep, StepRecords, PlannedWorkflow

(* A loop step is a step as a run reads it.                                *)
LEMMA LoopStepType ==
  ASSUME IsGraph(graph), Body \subseteq Nodes, UnfoldInv
  PROVE  LoopStep \in StepRecords(PlannedWorkflow)
<1>1. levels \in Seq(SUBSET Nodes)
  <2>1. levels \in Seq(SUBSET Body) /\ SUBSET Body \subseteq SUBSET Nodes
    BY DEF UnfoldInv, LevelsOK
  <2> QED BY <2>1
<1>2. MaxIterations \in Int
  BY GraphIsFinite, MaxIsInt
<1>3. back \in SUBSET Edges /\ Exits \in SUBSET Edges
  BY DEF UnfoldInv, IsCut, Inside, Exits
<1> QED BY <1>1, <1>2, <1>3 DEF LoopStep, StepRecords, PlannedWorkflow

(* What leads into a component whose turn it is was taken out before.      *)
LEMMA CompOrder ==
  ASSUME IsGraph(graph), CompsOK, NEW deg, NEW lvl, NEW out,
         KahnInv(DOMAIN comps, CompEdges, deg, lvl, out),
         NEW c \in lvl \cup out, NEW e \in Edges, e.to \in comps[c], e.from \notin comps[c]
  PROVE  \E d \in out : e.from \in comps[d]
<1>1. c \in DOMAIN comps
  BY DEF KahnInv
<1>2. e.from \in Nodes
  BY EdgesJoinNodes
<1>3. PICK d \in DOMAIN comps : e.from \in comps[d]
  BY <1>2 DEF CompsOK, InComp
<1> DEFINE a == [from |-> d, to |-> c]
<1>4. a \in CompEdges /\ a.to = c /\ a.from = d
  BY <1>1, <1>3 DEF CompEdges
<1>5. d \in out
  <2> HIDE DEF a
  <2>1. a.to \in lvl \cup out
    BY <1>4
  <2>2. a.from \in out
    BY <2>1, <1>4, CompsAcyclic, KahnOrder
  <2> QED BY <2>2, <1>4
<1> QED BY <1>3, <1>5

-----------------------------------------------------------------------------
(* The actions, one lemma each.                                            *)

(* A step of _tarjan_sccs keeps the invariant.                             *)
LEMMA FindComponentsKeeps ==
  ASSUME SchedInv, FindComponents
  PROVE  SchedInv'
<1>1. /\ phase = "components" /\ phase' = "components" /\ steps' = steps /\ graph' = graph
      /\ TarjanNext
  BY DEF FindComponents
<1>2. IsGraph(graph)' /\ TarjanInv'
  BY <1>1, TarjanKeeps DEF SchedInv
<1> QED BY <1>1, <1>2 DEF SchedInv, Judged, Scheduling, Ranking, Building, Searching,
                          Unfolding, Ended

(* E_CYCLE_DETECTED is raised only for a loop without a condition.         *)
LEMMA RefuseKeeps ==
  ASSUME SchedInv, Refuse
  PROVE  SchedInv'
<1>1. /\ phase = "components" /\ Found /\ phase' = "refused" /\ UNCHANGED <<graph, tarjan, steps>>
      /\ \E c \in Loops : ~HasExit(c)
  BY DEF Refuse
<1>2. IsGraph(graph)' /\ TarjanInv' /\ Found'
  BY <1>1, SettledStays DEF SchedInv
<1>3. StepsOK'
  BY <1>1, StepsStay, NothingPlaced DEF SchedInv
<1>4. \E c \in Loops' : ~HasExit(c)'
  BY <1>1, PlanStays
<1> QED BY <1>1, <1>2, <1>3, <1>4 DEF SchedInv, Judged, Scheduling, Ranking, Building,
                                      Searching, Unfolding, Ended

(* The hand-over to TopologicalScheduler keeps the invariant.              *)
LEMMA AcyclicKeeps ==
  ASSUME SchedInv, Acyclic
  PROVE  SchedInv'
<1>1. /\ phase = "components" /\ Found /\ phase' = "schedule" /\ UNCHANGED <<graph, tarjan, steps>>
      /\ Loops = {}
      /\ indeg' = Indegrees(Nodes, Edges) /\ cur' = Sources(Indegrees(Nodes, Edges))
  BY DEF Acyclic
<1>2. IsGraph(graph)' /\ TarjanInv' /\ Found' /\ IsFiniteSet(Edges)
  BY <1>1, SettledStays, GraphIsFinite DEF SchedInv
<1>3. StepsOK' /\ Placed' = {}
  BY <1>1, StepsStay, NothingPlaced DEF SchedInv
<1>4. Loops' = {} /\ Nodes' = Nodes /\ Edges' = Edges
  BY <1>1, PlanStays
<1>5. KahnInv(Nodes, Edges, indeg, cur, Placed)'
  BY <1>1, <1>2, <1>3, <1>4, KahnStarts
<1> QED BY <1>1, <1>2, <1>3, <1>4, <1>5 DEF SchedInv, Judged, Scheduling, Ranking,
                                  Building, Searching, Unfolding, Ended

(* A level of TopologicalScheduler keeps the invariant.                    *)
LEMMA ScheduleLevelKeeps ==
  ASSUME SchedInv, ScheduleLevel
  PROVE  SchedInv'
<1>1. /\ phase = "schedule" /\ phase' = "schedule" /\ UNCHANGED <<graph, tarjan>>
      /\ steps' = Append(steps, LevelStep(cur))
      /\ indeg' = Decremented(indeg, Edges, cur) /\ cur' = Ready(indeg, Edges, cur)
  BY DEF ScheduleLevel
<1>2. /\ IsGraph(graph) /\ TarjanInv /\ Found /\ StepsOK /\ CompsOK
      /\ Loops = {} /\ KahnInv(Nodes, Edges, indeg, cur, Placed)
  BY <1>1, Settled DEF SchedInv, Scheduling
<1>3. IsGraph(graph)' /\ TarjanInv' /\ Found' /\ IsFiniteSet(Edges)
  BY <1>1, <1>2, SettledStays, GraphIsFinite
<1>4. Loops' = {} /\ Nodes' = Nodes /\ Edges' = Edges
  BY <1>1, <1>2, PlanStays
<1>5. IsStep(LevelStep(cur)) /\ StepNodes(LevelStep(cur)) = cur
  BY <1>2, LevelStepNodes, LevelStepType DEF IsStep, IsLevel, KahnInv
<1>6. cur \cap Placed = {}
  BY <1>2 DEF KahnInv
<1>7. Follows(LevelStep(cur), Placed)
  BY <1>2, <1>3, <1>5, KahnOrder DEF Follows
<1>8. StepsOK' /\ Placed' = Placed \cup cur
  BY <1>1, <1>2, <1>5, <1>6, <1>7, StepAdded
<1>9. KahnInv(Nodes, Edges, indeg, cur, Placed)'
  BY <1>1, <1>2, <1>3, <1>4, <1>8, KahnKeeps
<1> QED BY <1>1, <1>3, <1>4, <1>8, <1>9 DEF SchedInv, Judged, Scheduling, Ranking,
                                  Building, Searching, Unfolding, Ended

(* TopologicalScheduler ends with every node placed: its own cycle check   *)
(* never fails.                                                            *)
LEMMA ScheduleEndsKeeps ==
  ASSUME SchedInv, ScheduleEnds
  PROVE  SchedInv'
<1>1. /\ phase = "schedule" /\ cur = {} /\ UNCHANGED <<graph, tarjan, steps>>
      /\ phase' = IF \A n \in Nodes : indeg[n] = 0 THEN "done" ELSE "refused"
  BY DEF ScheduleEnds
<1>2. /\ IsGraph(graph) /\ TarjanInv /\ Found /\ StepsOK /\ CompsOK
      /\ Loops = {} /\ KahnInv(Nodes, Edges, indeg, {}, Placed)
  BY <1>1, Settled DEF SchedInv, Scheduling
<1>3. IsGraph(graph)' /\ TarjanInv' /\ Found' /\ IsFiniteSet(Edges)
  BY <1>1, <1>2, SettledStays, GraphIsFinite
<1>4. Placed = Nodes /\ \A n \in Nodes : indeg[n] = 0
  BY <1>2, <1>3, NodesAcyclic, KahnEnds, EdgesJoinNodes
<1>5. phase' = "done"
  BY <1>1, <1>4
<1>6. StepsOK' /\ Placed' = Nodes' /\ Loops' = {}
  BY <1>1, <1>2, <1>4, StepsStay, PlanStays
<1> QED BY <1>3, <1>5, <1>6 DEF SchedInv, Judged, Scheduling, Ranking,
                                Building, Searching, Unfolding, Ended

(* The condensation is ready to be ranked.                                 *)
LEMMA CondenseKeeps ==
  ASSUME SchedInv, Condense
  PROVE  SchedInv'
<1>1. /\ phase = "components" /\ Found /\ phase' = "rank" /\ UNCHANGED <<graph, tarjan, steps>>
      /\ \A c \in Loops : HasExit(c)
      /\ compIndeg' = Indegrees(DOMAIN comps, CompEdges)
      /\ frontier' = Sources(Indegrees(DOMAIN comps, CompEdges))
  BY DEF Condense
<1>2. IsGraph(graph)' /\ TarjanInv' /\ Found' /\ CompsOK /\ IsGraph(graph)
  BY <1>1, SettledStays, CompsFound DEF SchedInv
<1>3. StepsOK' /\ Placed' = {}
  BY <1>1, StepsStay, NothingPlaced DEF SchedInv
<1>4. comps' = comps /\ Loops' = Loops /\ CompEdges' = CompEdges
      /\ \A c \in Loops' : HasExit(c)'
  BY <1>1, PlanStays
<1>5. Emitted' = {} /\ Whole'
  <2>1. \A c \in DOMAIN comps : comps[c] # {}
    BY <1>2 DEF CompsOK, Strong
  <2>2. Emitted' = {}
    BY <2>1, <1>3, <1>4 DEF Emitted
  <2> QED BY <2>2, <1>3 DEF Whole
<1>6. KahnInv(DOMAIN comps, CompEdges, compIndeg, frontier, Emitted)'
  BY <1>1, <1>2, <1>4, <1>5, CompsAcyclic, KahnStarts
<1> QED BY <1>1, <1>2, <1>3, <1>4, <1>5, <1>6
        DEF SchedInv, Judged, Scheduling, Ranking, Building, Searching, Unfolding, Ended

(* What is left as it was by the actions of _emit_steps.                   *)
LEMMA EmittingStays ==
  ASSUME SchedInv, phase \notin {"components", "refused"}, UNCHANGED <<graph, tarjan>>,
         phase' \notin {"components", "refused"}
  PROVE  /\ IsGraph(graph)' /\ TarjanInv' /\ Found' /\ Judged'
         /\ comps' = comps /\ Loops' = Loops /\ CompEdges' = CompEdges
         /\ Nodes' = Nodes /\ Edges' = Edges
<1>1. /\ comps' = comps /\ Loops' = Loops /\ CompEdges' = CompEdges
      /\ Nodes' = Nodes /\ Edges' = Edges /\ \A c : HasExit(c)' <=> HasExit(c)
  BY PlanStays
<1>2. IsGraph(graph)' /\ TarjanInv' /\ Found'
  BY Settled, SettledStays
<1>3. Judged'
  BY <1>1 DEF SchedInv, Judged
<1> QED BY <1>1, <1>2, <1>3

(* When the steps stay, so does what they hold.                            *)
LEMMA EmittedStays ==
  ASSUME UNCHANGED <<graph, tarjan, steps>>
  PROVE  Placed' = Placed /\ Emitted' = Emitted /\ (Whole' <=> Whole)
<1>1. Placed' = Placed /\ comps' = comps
  BY StepsStay DEF tarjan
<1> QED BY <1>1 DEF Emitted, Whole

(* The level of the single nodes of a rank keeps the invariant.            *)
LEMMA EmitSinglesKeeps ==
  ASSUME SchedInv, EmitSingles
  PROVE  SchedInv'
<1> DEFINE X == frontier \ Loops
           singles == UNION {comps[c] : c \in X}
<1>1. /\ phase = "rank" /\ phase' = "loops" /\ UNCHANGED <<graph, tarjan, compIndeg, frontier>>
      /\ steps' = WithSingles /\ pending' = frontier \cap Loops
  BY DEF EmitSingles
<1>2. /\ IsGraph(graph) /\ StepsOK /\ CompsOK
      /\ Loops \subseteq DOMAIN comps
      /\ \A c \in DOMAIN comps : comps[c] # {} /\ comps[c] \in SUBSET Nodes
  BY <1>1, Settled
<1>3. Whole /\ KahnInv(DOMAIN comps, CompEdges, compIndeg, frontier, Emitted)
  BY <1>1 DEF SchedInv, Ranking
<1>4. /\ IsGraph(graph)' /\ TarjanInv' /\ Found' /\ Judged'
      /\ comps' = comps /\ Loops' = Loops /\ CompEdges' = CompEdges
  BY <1>1, EmittingStays
<1>5. X \in SUBSET DOMAIN comps /\ frontier \cap Emitted = {} /\ X \subseteq frontier
  BY <1>3 DEF KahnInv
<1>6. StepsOK' /\ Placed' = Placed \cup singles
  <2>1. CASE singles = {}
    <3>1. steps' = steps
      BY <2>1, <1>1 DEF WithSingles
    <3> QED BY <3>1, <2>1, <1>1, <1>2, StepsStay
  <2>2. CASE singles # {}
    <3>1. steps' = Append(steps, LevelStep(singles))
      BY <2>2, <1>1 DEF WithSingles
    <3>2. singles \in SUBSET Nodes
      BY <1>2, <1>5
    <3>3. \A c \in Loops : singles \cap comps[c] = {}
      BY <1>2, <1>5 DEF CompsOK
    <3>4. StepNodes(LevelStep(singles)) = singles
      BY LevelStepNodes
    <3>5. IsStep(LevelStep(singles))
      BY <3>2, <3>3, LevelStepType DEF IsStep, IsLevel
    <3>6. singles \cap Placed = {}
      <4>1. \A c \in X, d \in Emitted : c # d /\ c \in DOMAIN comps /\ d \in DOMAIN comps
        BY <1>5 DEF Emitted
      <4>2. \A c \in X, d \in Emitted : comps[c] \cap comps[d] = {}
        BY <4>1, <1>2 DEF CompsOK
      <4> QED BY <4>2, <1>3 DEF Whole
    <3>7. ASSUME NEW e \in Edges, e.to \in singles  PROVE e.from \in Placed
      <4>1. PICK c \in X : e.to \in comps[c]
        BY <3>7
      <4>2. e.from \notin comps[c]
        <5>1. SUFFICES ASSUME e.from \in comps[c]  PROVE FALSE
          OBVIOUS
        <5>2. ~OnCycle(e.from)
          BY <4>1, <5>1, <1>2, <1>5, LoopNodes
        <5>3. SameLoop(e.from, e.to)
          <6>1. e.to \in {m \in Nodes : SameLoop(e.from, m)}
            BY <4>1, <5>1, <1>2, <1>5, LoopNodes
          <6> QED BY <6>1
        <5>4. e.to \in Nodes
          BY <1>2, EdgesJoinNodes
        <5>5. e.to = e.from
          BY <5>2, <5>3, <5>4 DEF OnCycle
        <5> QED BY <5>2, <5>5 DEF OnCycle
      <4>3. PICK d \in Emitted : e.from \in comps[d]
        BY <4>1, <4>2, <1>2, <1>3, <1>5, CompOrder
      <4> QED BY <4>3 DEF Emitted
    <3>8. Follows(LevelStep(singles), Placed)
      BY <3>4, <3>7 DEF Follows
    <3> HIDE DEF singles
    <3>9. StepsOK' /\ Placed' = Placed \cup StepNodes(LevelStep(singles))
      BY <3>1, <3>4, <3>5, <3>6, <3>8, <1>1, <1>2, StepAdded
    <3> QED BY <3>4, <3>9
  <2> QED BY <2>1, <2>2
<1> HIDE DEF X
<1>7. Whole' /\ Emitted' = Emitted \cup X
  BY <1>1, <1>2, <1>3, <1>5, <1>6, EmittedGrows
<1>8. Building'
  <2>1. Emitted' \ frontier = Emitted /\ frontier \cap Emitted' = frontier \ pending'
    BY <1>1, <1>5, <1>7 DEF X
  <2> QED BY <2>1, <1>1, <1>3, <1>4, <1>7 DEF Building
<1> QED BY <1>1, <1>4, <1>6, <1>8 DEF SchedInv, Scheduling, Ranking, Searching,
                                      Unfolding, Ended

(* A rank whose loops are built gives way to the next one.                 *)
LEMMA NextRankKeeps ==
  ASSUME SchedInv, NextRank
  PROVE  SchedInv'
<1>1. /\ phase = "loops" /\ pending = {} /\ phase' = "rank" /\ UNCHANGED <<graph, tarjan, steps>>
      /\ compIndeg' = Decremented(compIndeg, CompEdges, frontier)
      /\ frontier' = Ready(compIndeg, CompEdges, frontier)
  BY DEF NextRank
<1>2. /\ IsGraph(graph) /\ StepsOK /\ CompsOK
  BY <1>1, Settled
<1>3. /\ Whole /\ KahnInv(DOMAIN comps, CompEdges, compIndeg, frontier, Emitted \ frontier)
      /\ frontier \cap Emitted = frontier \ pending
  BY <1>1 DEF SchedInv, Building
<1>4. /\ IsGraph(graph)' /\ TarjanInv' /\ Found' /\ Judged'
      /\ comps' = comps /\ Loops' = Loops /\ CompEdges' = CompEdges
  BY <1>1, EmittingStays
<1>5. StepsOK' /\ Emitted' = Emitted /\ Whole'
  BY <1>1, <1>2, <1>3, StepsStay, EmittedStays
<1>6. (Emitted \ frontier) \cup frontier = Emitted
  BY <1>1, <1>3
<1>7. KahnInv(DOMAIN comps, CompEdges, compIndeg', frontier', Emitted)
  BY <1>1, <1>2, <1>3, <1>6, CompsAcyclic, KahnKeeps
<1>8. Ranking'
  BY <1>4, <1>5, <1>7 DEF Ranking
<1> QED BY <1>1, <1>4, <1>5, <1>8 DEF SchedInv, Scheduling, Building, Searching,
                                      Unfolding, Ended

(* When no rank is left every component is placed.                         *)
LEMMA PlanEndsKeeps ==
  ASSUME SchedInv, PlanEnds
  PROVE  SchedInv'
<1>1. /\ phase = "rank" /\ frontier = {} /\ phase' = "done" /\ UNCHANGED <<graph, tarjan, steps>>
  BY DEF PlanEnds
<1>2. /\ IsGraph(graph) /\ StepsOK /\ CompsOK
      /\ \A c \in DOMAIN comps : comps[c] # {} /\ comps[c] \in SUBSET Nodes
  BY <1>1, Settled
<1>3. Whole /\ KahnInv(DOMAIN comps, CompEdges, compIndeg, {}, Emitted)
  BY <1>1 DEF SchedInv, Ranking
<1>4. /\ IsGraph(graph)' /\ TarjanInv' /\ Found' /\ Judged' /\ Nodes' = Nodes
  BY <1>1, EmittingStays
<1>5. StepsOK' /\ Placed' = Placed
  BY <1>1, <1>2, StepsStay, EmittedStays
<1>6. Emitted = DOMAIN comps
  BY <1>2, <1>3, CompsAcyclic, KahnEnds
<1>7. Placed = Nodes
  BY <1>2, <1>3, <1>6 DEF Whole, CompsOK, InComp
<1> QED BY <1>1, <1>4, <1>5, <1>7 DEF SchedInv, Scheduling, Ranking, Building,
                                      Searching, Unfolding, Ended

(* Between the loops of a rank nothing of the condensation changes.        *)
LEMMA BuildingStays ==
  ASSUME SchedInv, phase \in {"loops", "search", "unfold"},
         phase' \in {"loops", "search", "unfold"},
         UNCHANGED <<graph, tarjan, compIndeg, frontier, pending, steps>>
  PROVE  /\ IsGraph(graph)' /\ TarjanInv' /\ Found' /\ Judged' /\ StepsOK' /\ Building'
         /\ Scheduling' /\ Ranking' /\ Ended'
<1>1. /\ IsGraph(graph)' /\ TarjanInv' /\ Found' /\ Judged'
      /\ comps' = comps /\ Loops' = Loops /\ CompEdges' = CompEdges
  BY EmittingStays
<1>2. StepsOK' /\ Emitted' = Emitted /\ (Whole' <=> Whole)
  BY Settled, StepsStay, EmittedStays
<1>3. Building'
  BY <1>1, <1>2 DEF SchedInv, Building
<1> QED BY <1>1, <1>2, <1>3 DEF Scheduling, Ranking, Ended

(* The search of a loop begins with a white body.                          *)
LEMMA BuildLoopKeeps ==
  ASSUME SchedInv, BuildLoop
  PROVE  SchedInv'
<1>1. PICK c \in pending :
        /\ body' = c /\ color' = [n \in comps[c] |-> "white"]
        /\ open' = [n \in comps[c] |-> {e \in OutEdges(n) : e.to \in comps[c]}]
  BY DEF BuildLoop
<1>2. /\ phase = "loops" /\ phase' = "search" /\ path' = <<>> /\ back' = {}
      /\ UNCHANGED <<graph, tarjan, compIndeg, frontier, pending, steps>>
  BY DEF BuildLoop, condensation
<1>3. c \in DOMAIN comps
  BY <1>2, Settled DEF SchedInv, Building
<1>4. SearchInv'
  BY <1>1, <1>2, <1>3, SearchBegins
<1>5. /\ IsGraph(graph)' /\ TarjanInv' /\ Found' /\ Judged' /\ StepsOK' /\ Building'
      /\ Scheduling' /\ Ranking' /\ Ended'
  BY <1>2, BuildingStays
<1> QED BY <1>1, <1>2, <1>4, <1>5 DEF SchedInv, Searching, Unfolding

(* A step of the search keeps the invariant.                               *)
LEMMA SearchStepKeeps ==
  ASSUME SchedInv, SearchStart \/ SearchEdge \/ SearchReturn
  PROVE  SchedInv'
<1>1. /\ phase = "search" /\ phase' = phase /\ body' = body
      /\ UNCHANGED <<graph, tarjan, compIndeg, frontier, pending, steps>>
  BY DEF SearchStart, SearchEdge, SearchReturn, condensation
<1>2. body \in pending /\ SearchInv
  BY <1>1 DEF SchedInv, Searching
<1>3. IsGraph(graph) /\ Strong /\ Body \subseteq Nodes
  BY <1>1, <1>2, Settled DEF CompsOK, SearchInv, SearchTypeOK, Body
<1>4. SearchInv'
  BY <1>2, <1>3, SearchStartKeeps, SearchEdgeKeeps, SearchReturnKeeps
<1>5. /\ IsGraph(graph)' /\ TarjanInv' /\ Found' /\ Judged' /\ StepsOK' /\ Building'
      /\ Scheduling' /\ Ranking' /\ Ended'
  BY <1>1, BuildingStays
<1> QED BY <1>1, <1>2, <1>4, <1>5 DEF SchedInv, Searching, Unfolding

(* The cut of a loop and the edges kept stay while it is unfolded.         *)
LEMMA CutStays ==
  ASSUME UNCHANGED <<graph, tarjan, body, back>>
  PROVE  (IsCut' <=> IsCut) /\ Body' = Body /\ Forward' = Forward
<1>1. graph' = graph /\ comps' = comps /\ Edges' = Edges /\ body' = body /\ back' = back
  BY DEF tarjan, Edges
<1>2. Body' = Body /\ Inside' = Inside
  BY <1>1 DEF Body, Inside
<1>3. Forward' = Forward
  BY <1>1, <1>2 DEF Forward
<1>4. \A n : Entered(n)' <=> Entered(n)
  BY <1>1 DEF Entered
<1>5. \A n : EnteredFirst(n)' <=> EnteredFirst(n)
  BY <1>2, <1>4 DEF EnteredFirst
<1> QED BY <1>1, <1>2, <1>3, <1>5 DEF IsCut

(* The body that is being built is a component that is still to be placed. *)
LEMMA BodyFacts ==
  ASSUME SchedInv, phase \in {"search", "unfold"}
  PROVE  /\ body \in pending /\ body \in DOMAIN comps /\ Body # {}
         /\ IsFiniteSet(Edges) /\ IsFiniteSet(Forward)
<1>1. body \in pending
  BY DEF SchedInv, Searching, Unfolding
<1>2. body \in DOMAIN comps /\ Body # {}
  BY <1>1, Settled DEF SchedInv, Building, Body
<1>3. IsFiniteSet(Edges)
  BY GraphIsFinite DEF SchedInv
<1>4. Forward \in SUBSET Edges
  BY DEF Forward, Inside
<1> QED BY <1>1, <1>2, <1>3, <1>4, FS_Subset

(* The unfolding of a loop begins with the edges the search kept.          *)
LEMMA SearchEndsKeeps ==
  ASSUME SchedInv, SearchEnds
  PROVE  SchedInv'
<1>1. /\ phase = "search" /\ phase' = "unfold" /\ path = <<>> /\ White = {}
      /\ UNCHANGED <<graph, tarjan, compIndeg, frontier, pending, steps, body, back>>
      /\ indeg' = Indegrees(Body, Forward) /\ cur' = Sources(Indegrees(Body, Forward))
      /\ levels' = <<>>
  BY DEF SearchEnds, condensation, search, Body
<1>2. body \in pending /\ Body # {} /\ IsFiniteSet(Forward)
  BY <1>1, BodyFacts
<1>3. IsCut
  BY <1>1, <1>2, SearchCuts DEF SchedInv, Searching
<1>4. IsCut' /\ Body' = Body /\ Forward' = Forward
  BY <1>1, <1>3, CutStays
<1>5. LevelsOK(Body, Forward, <<>>, Sources(Indegrees(Body, Forward))) /\ LevelNodes(<<>>) = {}
  BY <1>2, LevelsStart
<1>6. KahnInv(Body, Forward, Indegrees(Body, Forward), Sources(Indegrees(Body, Forward)), {})
  BY <1>2, KahnStarts
<1>7. UnfoldInv'
  BY <1>1, <1>4, <1>5, <1>6 DEF UnfoldInv
<1>8. /\ IsGraph(graph)' /\ TarjanInv' /\ Found' /\ Judged' /\ StepsOK' /\ Building'
      /\ Scheduling' /\ Ranking' /\ Ended'
  BY <1>1, BuildingStays
<1> QED BY <1>1, <1>2, <1>7, <1>8 DEF SchedInv, Searching, Unfolding

(* A level of a loop keeps the invariant.                                  *)
LEMMA UnfoldLevelKeeps ==
  ASSUME SchedInv, UnfoldLevel
  PROVE  SchedInv'
<1>1. /\ phase = "unfold" /\ phase' = "unfold"
      /\ UNCHANGED <<graph, tarjan, compIndeg, frontier, pending, steps, body, back>>
      /\ indeg' = Decremented(indeg, Forward, cur) /\ cur' = Ready(indeg, Forward, cur)
      /\ levels' = Append(levels, cur)
  BY DEF UnfoldLevel, condensation, search
<1>2. body \in pending /\ IsFiniteSet(Forward)
  BY <1>1, BodyFacts
<1>3. UnfoldInv
  BY <1>1 DEF SchedInv, Unfolding
<1>4. IsCut' /\ Body' = Body /\ Forward' = Forward
  BY <1>1, <1>3, CutStays DEF UnfoldInv
<1>5. /\ LevelsOK(Body, Forward, levels', cur')
      /\ LevelNodes(levels') = LevelNodes(levels) \cup cur
  BY <1>1, <1>2, <1>3, LevelAdded DEF UnfoldInv
<1>6. KahnInv(Body, Forward, indeg', cur', LevelNodes(levels'))
  BY <1>1, <1>2, <1>3, <1>5, KahnKeeps DEF UnfoldInv
<1>7. UnfoldInv'
  BY <1>4, <1>5, <1>6 DEF UnfoldInv
<1>8. /\ IsGraph(graph)' /\ TarjanInv' /\ Found' /\ Judged' /\ StepsOK' /\ Building'
      /\ Scheduling' /\ Ranking' /\ Ended'
  BY <1>1, BuildingStays
<1> QED BY <1>1, <1>2, <1>7, <1>8 DEF SchedInv, Searching, Unfolding

(* The finished loop step extends the plan.                                *)
LEMMA EmitLoopKeeps ==
  ASSUME SchedInv, EmitLoop
  PROVE  SchedInv'
<1>1. /\ phase = "unfold" /\ cur = {} /\ phase' = "loops"
      /\ UNCHANGED <<graph, tarjan, compIndeg, frontier>>
      /\ steps' = Append(steps, LoopStep) /\ pending' = pending \ {body}
  BY DEF EmitLoop
<1>2. /\ body \in pending /\ body \in DOMAIN comps /\ Body # {} /\ IsFiniteSet(Edges)
  BY <1>1, BodyFacts
<1>3. /\ IsGraph(graph) /\ StepsOK /\ CompsOK
      /\ Loops \subseteq DOMAIN comps
  BY <1>1, Settled
<1>4. /\ Whole /\ KahnInv(DOMAIN comps, CompEdges, compIndeg, frontier, Emitted \ frontier)
      /\ pending \subseteq frontier \cap Loops
      /\ frontier \cap Emitted = frontier \ pending
  BY <1>1 DEF SchedInv, Building
<1>5. /\ IsGraph(graph)' /\ TarjanInv' /\ Found' /\ Judged'
      /\ comps' = comps /\ Loops' = Loops /\ CompEdges' = CompEdges
  BY <1>1, EmittingStays
<1>6. IsLoop(LoopStep, body)
  BY <1>1, <1>2, LoopUnfolded DEF SchedInv, Unfolding
<1>7. /\ IsStep(LoopStep) /\ StepNodes(LoopStep) = comps[body] /\ LoopStep.kind = "loop"
  <2>1. Body \subseteq Nodes
    BY <1>2, <1>3 DEF CompsOK, Body
  <2>2. LoopStep \in StepRecords(PlannedWorkflow)
    BY <2>1, <1>1, <1>3, LoopStepType DEF SchedInv, Unfolding
  <2> QED BY <2>2, <1>2, <1>4, <1>6 DEF IsStep, IsLoop
<1>8. comps[body] \cap Placed = {}
  <2>1. \A d \in Emitted : d # body /\ d \in DOMAIN comps
    BY <1>2, <1>4 DEF Emitted
  <2>2. \A d \in Emitted : comps[body] \cap comps[d] = {}
    BY <2>1, <1>2, <1>3 DEF CompsOK
  <2> QED BY <2>2, <1>4 DEF Whole
<1>9. Follows(LoopStep, Placed)
  <2>1. SUFFICES ASSUME NEW e \in Edges, e.to \in comps[body], e.from \notin comps[body]
                 PROVE  e.from \in Placed
    BY <1>7 DEF Follows
  <2>2. PICK d \in Emitted \ frontier : e.from \in comps[d]
    BY <2>1, <1>2, <1>3, <1>4, CompOrder
  <2> QED BY <2>2 DEF Emitted
<1>10. StepsOK' /\ Placed' = Placed \cup comps[body]
  BY <1>1, <1>3, <1>7, <1>8, <1>9, StepAdded
<1>11. Whole' /\ Emitted' = Emitted \cup {body}
  <2>1. UNION {comps[c] : c \in {body}} = comps[body]
    OBVIOUS
  <2> QED BY <2>1, <1>1, <1>2, <1>3, <1>4, <1>10, EmittedGrows
<1>12. Building'
  <2>1. /\ Emitted' \ frontier = Emitted \ frontier
        /\ frontier \cap Emitted' = frontier \ pending'
        /\ pending' \subseteq frontier \cap Loops
    BY <1>1, <1>2, <1>4, <1>11
  <2> QED BY <2>1, <1>1, <1>4, <1>5, <1>11 DEF Building
<1> QED BY <1>1, <1>5, <1>10, <1>12 DEF SchedInv, Scheduling, Ranking, Searching,
                                        Unfolding, Ended

-----------------------------------------------------------------------------
(* A step that changes nothing keeps the invariant.                        *)
LEMMA StutterKeeps ==
  ASSUME SchedInv, UNCHANGED vars
  PROVE  SchedInv'
<1>1. /\ graph' = graph /\ index' = index /\ low' = low /\ counter' = counter
      /\ stack' = stack /\ calls' = calls /\ todo' = todo /\ comps' = comps
      /\ phase' = phase /\ compIndeg' = compIndeg /\ frontier' = frontier
      /\ pending' = pending /\ body' = body /\ color' = color /\ path' = path
      /\ open' = open /\ back' = back /\ indeg' = indeg /\ cur' = cur
      /\ levels' = levels /\ steps' = steps /\ UNCHANGED tarjan
  BY DEF vars, tarjan, condensation, search, kahn
<1>2. IsGraph(graph)' /\ TarjanInv'
  BY <1>1, TarjanStays DEF SchedInv
<1>3. CASE phase = "components"
  BY <1>1, <1>2, <1>3 DEF SchedInv, Judged, Scheduling, Ranking, Building, Searching,
                          Unfolding, Ended
<1>4. CASE phase # "components"
  <2>1. /\ comps' = comps /\ Loops' = Loops /\ CompEdges' = CompEdges
        /\ Nodes' = Nodes /\ Edges' = Edges /\ \A c : HasExit(c)' <=> HasExit(c)
    BY <1>1, PlanStays
  <2>2. StepsOK' /\ Found' /\ Placed' = Placed /\ Emitted' = Emitted /\ (Whole' <=> Whole)
    BY <1>1, <1>4, Settled, SettledStays, StepsStay, EmittedStays
  <2>3. Judged' /\ Scheduling' /\ Ranking' /\ Building' /\ Ended'
    BY <1>1, <2>1, <2>2 DEF SchedInv, Judged, Scheduling, Ranking, Building, Ended
  <2>4. Unfolding'
    <3>1. (IsCut' <=> IsCut) /\ Body' = Body /\ Forward' = Forward
      BY <1>1, CutStays
    <3> QED BY <1>1, <3>1 DEF SchedInv, Unfolding, UnfoldInv
  <2>5. Searching'
    <3>1. /\ Body' = Body /\ Inside' = Inside /\ \A n : OutEdges(n)' = OutEdges(n)
          /\ DOMAIN comps' = DOMAIN comps
          /\ \A s : StartsFirst(s)' <=> StartsFirst(s)
      BY <1>1, BodyStays
    <3>2. Black' = Black /\ OnPath' = OnPath /\ Kept' = Kept
      BY <1>1, <3>1 DEF Black, OnPath, Kept
    <3>3. SearchInv => SearchInv'
      BY <1>1, <3>1, <3>2
         DEF SearchInv, SearchTypeOK, EdgesOpen, GrayIsPath, HeadsSeen, BackSeen, KeptDown,
             NextOnPath, BlackSorted, OneStart, BackCloses, PathReaches
    <3> QED BY <1>1, <3>3 DEF SchedInv, Searching
  <2> QED BY <1>1, <1>2, <1>4, <2>2, <2>3, <2>4, <2>5 DEF SchedInv
<1> QED BY <1>3, <1>4

(* The invariant of the planner, for every workflow graph.                 *)
THEOREM PlannerInvariant == Spec => []SchedInv
<1>1. Init => SchedInv
  <2> SUFFICES ASSUME Init  PROVE SchedInv
    OBVIOUS
  <2>1. IsGraph(graph) /\ TarjanInv
    BY GraphsAssumption, TarjanStarts DEF Init
  <2> QED BY <2>1 DEF Init, SchedInv, Judged, Scheduling, Ranking, Building, Searching,
                      Unfolding, Ended
<1>2. SchedInv /\ [Next]_vars => SchedInv'
  <2> SUFFICES ASSUME SchedInv, [Next]_vars  PROVE SchedInv'
    OBVIOUS
  <2>1. CASE FindComponents
    BY <2>1, FindComponentsKeeps
  <2>2. CASE Refuse
    BY <2>2, RefuseKeeps
  <2>3. CASE Acyclic
    BY <2>3, AcyclicKeeps
  <2>4. CASE ScheduleLevel
    BY <2>4, ScheduleLevelKeeps
  <2>5. CASE ScheduleEnds
    BY <2>5, ScheduleEndsKeeps
  <2>6. CASE Condense
    BY <2>6, CondenseKeeps
  <2>7. CASE EmitSingles
    BY <2>7, EmitSinglesKeeps
  <2>8. CASE NextRank
    BY <2>8, NextRankKeeps
  <2>9. CASE PlanEnds
    BY <2>9, PlanEndsKeeps
  <2>10. CASE BuildLoop
    BY <2>10, BuildLoopKeeps
  <2>11. CASE SearchStart \/ SearchEdge \/ SearchReturn
    BY <2>11, SearchStepKeeps
  <2>12. CASE SearchEnds
    BY <2>12, SearchEndsKeeps
  <2>13. CASE UnfoldLevel
    BY <2>13, UnfoldLevelKeeps
  <2>14. CASE EmitLoop
    BY <2>14, EmitLoopKeeps
  <2>15. CASE UNCHANGED vars
    BY <2>15, StutterKeeps
  <2> QED BY <2>1, <2>2, <2>3, <2>4, <2>5, <2>6, <2>7, <2>8, <2>9, <2>10, <2>11, <2>12,
             <2>13, <2>14, <2>15 DEF Next
<1> QED BY <1>1, <1>2, PTL DEF Spec

-----------------------------------------------------------------------------
(* What the invariant says of a plan that is done.                         *)

(* The levels of a step hold its nodes; a level step has one.              *)
LEMMA StepLevels ==
  ASSUME NEW s, IsStep(s)
  PROVE  /\ LevelsApart(s.levels)
         /\ s.kind = "loop" <=> \E c \in Loops : IsLoop(s, c)
         /\ s.kind # "loop" <=> IsLevel(s)
<1>1. ASSUME IsLevel(s)
      PROVE  LevelsApart(s.levels) /\ s.kind = "level"
  BY <1>1 DEF IsLevel, LevelStep, LevelsApart
<1>2. ASSUME NEW c \in Loops, IsLoop(s, c)
      PROVE  LevelsApart(s.levels) /\ s.kind = "loop"
  BY <1>2 DEF IsLoop
<1> QED BY <1>1, <1>2 DEF IsStep

(* The steps are apart and hold every node.                                *)
LEMMA OnceWhenDone == SchedInv => EachNodeOnce
<1> SUFFICES ASSUME SchedInv, phase = "done"
             PROVE  /\ UNION {StepNodes(steps[i]) : i \in DOMAIN steps} = Nodes
                    /\ \A i, j \in DOMAIN steps :
                          \A k \in DOMAIN steps[i].levels, l \in DOMAIN steps[j].levels :
                             <<i, k>> # <<j, l>> =>
                                steps[i].levels[k] \cap steps[j].levels[l] = {}
  BY DEF EachNodeOnce
<1>1. UNION {StepNodes(steps[i]) : i \in DOMAIN steps} = Nodes
  BY DEF SchedInv, Ended, Placed
<1>2. ASSUME NEW i \in DOMAIN steps, NEW j \in DOMAIN steps,
             NEW k \in DOMAIN steps[i].levels, NEW l \in DOMAIN steps[j].levels,
             <<i, k>> # <<j, l>>
      PROVE  steps[i].levels[k] \cap steps[j].levels[l] = {}
  <2>1. CASE i = j
    <3>1. k # l /\ LevelsApart(steps[i].levels)
      BY <1>2, <2>1, StepLevels DEF SchedInv, StepsOK
    <3> QED BY <3>1, <2>1 DEF LevelsApart
  <2>2. CASE i # j
    <3>1. StepNodes(steps[i]) \cap StepNodes(steps[j]) = {}
      BY <2>2 DEF SchedInv, StepsOK
    <3>2. /\ steps[i].levels[k] \subseteq StepNodes(steps[i])
          /\ steps[j].levels[l] \subseteq StepNodes(steps[j])
      BY DEF StepNodes
    <3> QED BY <3>1, <3>2
  <2> QED BY <2>1, <2>2
<1> QED BY <1>1, <1>2

(* Steps and levels follow the edges that are no back edges.               *)
LEMMA ForwardWhenDone == SchedInv => EdgesForward
<1> SUFFICES ASSUME SchedInv, phase = "done",
                    NEW e \in Edges, e \notin UNION {steps[i].back : i \in DOMAIN steps}
             PROVE  \E i, j \in DOMAIN steps :
                       \E k \in DOMAIN steps[i].levels, l \in DOMAIN steps[j].levels :
                          /\ e.from \in steps[i].levels[k] /\ e.to \in steps[j].levels[l]
                          /\ i < j \/ (i = j /\ k < l)
  BY DEF EdgesForward
<1>1. e.to \in Placed
  BY EdgesJoinNodes DEF SchedInv, Ended
<1>2. PICK j \in DOMAIN steps : e.to \in StepNodes(steps[j])
  BY <1>1 DEF Placed
<1>3. PICK l \in DOMAIN steps[j].levels : e.to \in steps[j].levels[l]
  BY <1>2 DEF StepNodes
<1>4. IsStep(steps[j]) /\ Follows(steps[j], Before(j))
  BY DEF SchedInv, StepsOK
<1>5. CASE e.from \in Before(j)
  <2>1. PICK i \in DOMAIN steps : i < j /\ e.from \in StepNodes(steps[i])
    BY <1>5 DEF Before
  <2>2. PICK k \in DOMAIN steps[i].levels : e.from \in steps[i].levels[k]
    BY <2>1 DEF StepNodes
  <2> QED BY <2>1, <2>2, <1>3
<1>6. CASE steps[j].kind = "loop" /\ e.from \in StepNodes(steps[j])
  <2>1. PICK c \in Loops : IsLoop(steps[j], c)
    BY <1>4, <1>6, StepLevels
  <2>2. e \in InsideOf(comps[c]) \ steps[j].back
    BY <2>1, <1>2, <1>6 DEF IsLoop, InsideOf
  <2>3. PICK k \in DOMAIN steps[j].levels : k < l /\ e.from \in steps[j].levels[k]
    BY <2>1, <2>2, <1>3 DEF IsLoop, LevelsForward
  <2> QED BY <2>3, <1>3
<1> QED BY <1>2, <1>4, <1>5, <1>6 DEF Follows

(* Loop steps are the components with a cycle.                             *)
LEMMA LoopsWhenDone == SchedInv => LoopsAreComponents
<1> SUFFICES ASSUME SchedInv, phase = "done"
             PROVE  {StepNodes(steps[i]) : i \in LoopSteps}
                      = {{m \in Nodes : SameLoop(n, m)} : n \in {k \in Nodes : OnCycle(k)}}
  BY DEF LoopsAreComponents
<1>1. /\ IsGraph(graph) /\ CompsOK /\ StepsOK /\ Loops \subseteq DOMAIN comps
      /\ \A c \in DOMAIN comps : comps[c] # {} /\ comps[c] \in SUBSET Nodes
  BY Settled
<1>2. ASSUME NEW i \in LoopSteps
      PROVE  \E c \in Loops : StepNodes(steps[i]) = comps[c]
  <2>1. i \in DOMAIN steps /\ steps[i].kind = "loop" /\ IsStep(steps[i])
    BY <1>1, <1>2 DEF LoopSteps, StepsOK
  <2> QED BY <2>1, StepLevels DEF IsLoop
<1>3. ASSUME NEW c \in Loops
      PROVE  \E i \in LoopSteps : StepNodes(steps[i]) = comps[c]
  <2>1. PICK n \in comps[c] : n \in Nodes
    BY <1>1
  <2>2. PICK i \in DOMAIN steps : n \in StepNodes(steps[i])
    BY <2>1 DEF SchedInv, Ended, Placed
  <2>3. ~IsLevel(steps[i])
    <3>1. SUFFICES ASSUME IsLevel(steps[i])  PROVE FALSE
      OBVIOUS
    <3>2. PICK ns \in SUBSET Nodes : steps[i] = LevelStep(ns) /\ ns \cap comps[c] = {}
      BY <3>1 DEF IsLevel
    <3> QED BY <3>2, <2>1, <2>2, LevelStepNodes
  <2>4. PICK d \in Loops : IsLoop(steps[i], d)
    BY <2>3, <1>1 DEF StepsOK, IsStep
  <2>5. StepNodes(steps[i]) = comps[d] /\ steps[i].kind = "loop"
    BY <2>4 DEF IsLoop
  <2>6. c = d
    BY <2>1, <2>2, <2>5, <1>1 DEF CompsOK
  <2> QED BY <2>5, <2>6 DEF LoopSteps
<1>4. ASSUME NEW c \in Loops
      PROVE  \E n \in {k \in Nodes : OnCycle(k)} : {m \in Nodes : SameLoop(n, m)} = comps[c]
  <2>1. PICK n \in comps[c] : n \in Nodes
    BY <1>1
  <2> QED BY <2>1, <1>1, LoopNodes
<1>5. ASSUME NEW n \in Nodes, OnCycle(n)
      PROVE  \E c \in Loops : {m \in Nodes : SameLoop(n, m)} = comps[c]
  <2>1. PICK c \in DOMAIN comps : n \in comps[c]
    BY <1>1 DEF CompsOK, InComp
  <2> QED BY <2>1, <1>1, <1>5, LoopNodes
<1>6. {StepNodes(steps[i]) : i \in LoopSteps} = {comps[c] : c \in Loops}
  BY <1>2, <1>3
<1>7. {{m \in Nodes : SameLoop(n, m)} : n \in {k \in Nodes : OnCycle(k)}} = {comps[c] : c \in Loops}
  BY <1>4, <1>5
<1> QED BY <1>6, <1>7

(* A loop component without a condition is a cycle that cannot be left.    *)
LEMMA RejectionIsRight == SchedInv => RejectedIffNoExit
<1> SUFFICES ASSUME SchedInv, phase \in {"done", "refused"}
             PROVE  (phase = "done" => Breakable) /\ (phase = "refused" => ~Breakable)
  BY DEF RejectedIffNoExit
<1>1. /\ IsGraph(graph) /\ CompsOK /\ Loops \subseteq DOMAIN comps
      /\ \A c \in DOMAIN comps : comps[c] # {} /\ comps[c] \in SUBSET Nodes
  BY Settled
<1>2. CASE phase = "done"
  <2>1. SUFFICES ASSUME NEW n \in Nodes, OnCycle(n)
                 PROVE  \E m \in Nodes \cap graph.brancher : SameLoop(n, m)
    BY <1>2 DEF Breakable
  <2>2. PICK c \in DOMAIN comps : n \in comps[c]
    BY <1>1 DEF CompsOK, InComp
  <2>3. c \in Loops /\ {m \in Nodes : SameLoop(n, m)} = comps[c]
    BY <2>1, <2>2, <1>1, LoopNodes
  <2>4. comps[c] \cap graph.brancher # {}
    BY <2>3, <1>2 DEF SchedInv, Judged, HasExit
  <2> QED BY <2>3, <2>4
<1>3. CASE phase = "refused"
  <2>1. PICK c \in Loops : ~HasExit(c)
    BY <1>3 DEF SchedInv, Judged
  <2>2. PICK n \in comps[c] : n \in Nodes
    BY <1>1
  <2>3. OnCycle(n) /\ {m \in Nodes : SameLoop(n, m)} = comps[c]
    BY <2>2, <1>1, LoopNodes
  <2>4. \A m \in Nodes \cap graph.brancher : ~SameLoop(n, m)
    BY <2>1, <2>3 DEF HasExit
  <2> QED BY <2>2, <2>3, <2>4, <1>3 DEF Breakable
<1> QED BY <1>2, <1>3

(* The first level of a loop is where its search began.                    *)
LEMMA EntryWhenDone == SchedInv => OneEntry
<1> SUFFICES ASSUME SchedInv, phase = "done", NEW i \in LoopSteps
             PROVE  LET inside == StepNodes(steps[i])
                        entered == {e.to : e \in {d \in Edges :
                                             d.to \in inside /\ d.from \notin inside}}
                    IN  \E n \in inside : /\ steps[i].levels[1] = {n}
                                          /\ entered # {} => n \in entered
  BY DEF OneEntry
<1>1. i \in DOMAIN steps /\ steps[i].kind = "loop" /\ IsStep(steps[i])
  BY DEF LoopSteps, SchedInv, StepsOK
<1>2. PICK c \in Loops : IsLoop(steps[i], c)
  BY <1>1, StepLevels
<1> DEFINE inside == StepNodes(steps[i])
<1>3. inside = comps[c]
  BY <1>2 DEF IsLoop
<1>4. PICK n \in inside : /\ steps[i].levels[1] = {n}
                          /\ (\E m \in inside : EnteredIn(inside, m)) => EnteredIn(inside, n)
  BY <1>2, <1>3 DEF IsLoop
<1> HIDE DEF inside
<1>5. {e.to : e \in {d \in Edges : d.to \in inside /\ d.from \notin inside}}
        = {m \in inside : EnteredIn(inside, m)}
  BY DEF EnteredIn
<1> QED BY <1>4, <1>5 DEF inside

(* The kept edges of a loop close each of its back edges.                  *)
LEMMA BackWhenDone == SchedInv => BackEdgesClose
<1> SUFFICES ASSUME SchedInv, phase = "done", NEW i \in LoopSteps, NEW e \in steps[i].back
             PROVE  Reaches(StepNodes(steps[i]),
                            {d \in Edges \ steps[i].back :
                                 d.from \in StepNodes(steps[i]) /\ d.to \in StepNodes(steps[i])},
                            e.to, e.from)
  BY DEF BackEdgesClose
<1>1. i \in DOMAIN steps /\ steps[i].kind = "loop" /\ IsStep(steps[i])
  BY DEF LoopSteps, SchedInv, StepsOK
<1>2. PICK c \in Loops : IsLoop(steps[i], c)
  BY <1>1, StepLevels
<1>3. StepNodes(steps[i]) = comps[c]
  BY <1>2 DEF IsLoop
<1>4. {d \in Edges \ steps[i].back : d.from \in comps[c] /\ d.to \in comps[c]}
        = InsideOf(comps[c]) \ steps[i].back
  BY DEF InsideOf
<1>5. Reaches(comps[c], InsideOf(comps[c]) \ steps[i].back, e.to, e.from)
  BY <1>2 DEF IsLoop
<1> QED BY <1>3, <1>4, <1>5

(* The levels of a step, as a run reads them.                              *)
LEMMA StepShape ==
  ASSUME NEW s, IsStep(s)
  PROVE  /\ s.levels # <<>>
         /\ IF s.kind = "loop"
              THEN /\ \E n \in Nodes : s.levels[1] = {n}
                   /\ \A e \in s.back : e.from \in StepNodes(s)
              ELSE Len(s.levels) = 1 /\ s.back = {}
<1>1. CASE IsLevel(s)
  BY <1>1 DEF IsLevel, LevelStep
<1>2. ASSUME NEW c \in Loops, IsLoop(s, c)
      PROVE  /\ s.kind = "loop" /\ s.levels # <<>>
             /\ \E n \in Nodes : s.levels[1] = {n}
             /\ \A e \in s.back : e.from \in StepNodes(s)
  <2>1. /\ s.kind = "loop" /\ StepNodes(s) = comps[c] /\ 1 \in DOMAIN s.levels
        /\ \E n \in comps[c] : s.levels[1] = {n}
        /\ s.back \in SUBSET InsideOf(comps[c])
    BY <1>2 DEF IsLoop
  <2>2. s.levels \in Seq(SUBSET Nodes)
    BY DEF IsStep, StepRecords, PlannedWorkflow
  <2>3. s.levels # <<>>
    BY <2>1, <2>2
  <2>4. s.levels[1] \in SUBSET Nodes
    BY <2>1, <2>2
  <2> QED BY <2>1, <2>3, <2>4 DEF InsideOf
<1> QED BY <1>1, <1>2 DEF IsStep

(* A finished plan is what a run takes for granted.                        *)
LEMMA PlanFitsWhenDone == SchedInv => PlanFitsTheRun
<1> SUFFICES ASSUME SchedInv, phase = "done"
             PROVE  WellPlanned(PlannedWorkflow) /\ PlannedForward(PlannedWorkflow)
  BY DEF PlanFitsTheRun
<1> DEFINE w == PlannedWorkflow
<1>1. /\ w.nodes = Nodes /\ w.edges = Edges /\ w.steps = steps
  BY DEF PlannedWorkflow
<1>2. /\ StepsOK /\ Placed = Nodes /\ EdgesForward
  BY ForwardWhenDone DEF SchedInv, Ended
<1>3. steps \in Seq(StepRecords(w))
  <2>1. {steps[i] : i \in DOMAIN steps} \subseteq StepRecords(w)
    BY <1>2 DEF StepsOK, IsStep
  <2>2. steps \in Seq({steps[i] : i \in DOMAIN steps})
    BY <1>2 DEF StepsOK
  <2> QED BY <2>1, <2>2
<1>4. \A i \in DOMAIN steps : LevelsApart(steps[i].levels)
  BY <1>2, StepLevels DEF StepsOK
<1>5. \A i \in DOMAIN steps :
         /\ steps[i].levels # <<>>
         /\ IF steps[i].kind = "loop"
              THEN /\ \E n \in Nodes : steps[i].levels[1] = {n}
                   /\ \A e \in steps[i].back : e.from \in StepNodes(steps[i])
              ELSE Len(steps[i].levels) = 1 /\ steps[i].back = {}
  BY <1>2, StepShape DEF StepsOK
<1> HIDE DEF w
<1>6. WellPlanned(w)
  BY <1>1, <1>2, <1>3, <1>4, <1>5 DEF WellPlanned, StepsOK, Placed, LevelsApart
<1>7. PlannedForward(w)
  <2>1. \A e \in Edges \ UNION {steps[i].back : i \in DOMAIN steps} :
          \E i, j \in DOMAIN steps :
             \E k \in DOMAIN steps[i].levels, l \in DOMAIN steps[j].levels :
                /\ e.from \in steps[i].levels[k]
                /\ e.to \in steps[j].levels[l]
                /\ i < j \/ (i = j /\ k < l)
    BY <1>2 DEF EdgesForward
  <2> QED BY <2>1, <1>1, <1>5 DEF PlannedForward
<1> QED BY <1>6, <1>7 DEF w

-----------------------------------------------------------------------------
(* The theorems.                                                           *)

(* Every node of a planned workflow stands in exactly one level of one     *)
(* step (plan, _emit_steps).                                               *)
THEOREM EachNodeOnceHolds == Spec => []EachNodeOnce
BY PlannerInvariant, OnceWhenDone, PTL

(* Every edge but a back edge leads to a later step or a later level: a    *)
(* node never runs before its inputs.                                      *)
THEOREM EdgesForwardHolds == Spec => []EdgesForward
BY PlannerInvariant, ForwardWhenDone, PTL

(* The loop steps are exactly the strongly connected components with a     *)
(* cycle (_tarjan_sccs, _is_nontrivial).                                   *)
THEOREM LoopsAreComponentsHolds == Spec => []LoopsAreComponents
BY PlannerInvariant, LoopsWhenDone, PTL

(* plan() raises E_CYCLE_DETECTED exactly when some cycle has no condition *)
(* node.                                                                   *)
THEOREM RejectedIffNoExitHolds == Spec => []RejectedIffNoExit
BY PlannerInvariant, RejectionIsRight, PTL

(* A loop body begins with one node, one that is entered from outside if   *)
(* there is any (_classify_back_edges).                                    *)
THEOREM OneEntryHolds == Spec => []OneEntry
BY PlannerInvariant, EntryWhenDone, PTL

(* Only edges that return are cut: the kept edges lead from the head of a  *)
(* back edge to its tail.                                                  *)
THEOREM BackEdgesCloseHolds == Spec => []BackEdgesClose
BY PlannerInvariant, BackWhenDone, PTL

(* Every plan is well formed and runs forward: what module WorkflowRun     *)
(* assumes of its plans (PlansAssumption) is true of all that the planner  *)
(* makes.                                                                  *)
THEOREM PlansFitTheRun == Spec => []PlanFitsTheRun
BY PlannerInvariant, PlanFitsWhenDone, PTL

-----------------------------------------------------------------------------
(* plan() comes to its end: every step leaves less to do, in an order in   *)
(* which nothing descends for ever, and before the end there is a step to  *)
(* take.                                                                   *)

(* What is left of Kahn's algorithm: the nodes that still have a count,    *)
(* and the level to be taken out.                                          *)
Counting(deg) == {v \in DOMAIN deg : deg[v] > 0}

KahnLeft == Cardinality(Counting(indeg)) + IF cur = {} THEN 0 ELSE 1

(* Of plan() as a whole the components, then the plan, are still to come.  *)
StagesLeft == CASE phase = "components" -> 2
                [] phase \in {"done", "refused"} -> 0
                [] OTHER -> 1

(* Of the plan, the components: a component waits for its rank, comes into *)
(* the frontier, is pending when it is a loop, and is built.               *)
WaitingLeft == 4 * Cardinality(Counting(compIndeg))

RanksLeft == CASE phase = "components" -> SearchLeft
               [] phase = "schedule" -> KahnLeft
               [] phase = "rank" -> WaitingLeft + 3 * Cardinality(frontier)
               [] phase \in {"loops", "search", "unfold"} -> WaitingLeft + Cardinality(pending) + 1
               [] OTHER -> 0

(* Of a loop, the search and the unfolding; of these, nodes and edges.     *)
LoopLeft == CASE phase = "loops" -> 2
              [] phase = "search" -> 1
              [] OTHER -> 0

InsideLeft == {e \in Inside : e \in open[e.from]}

BodyLeft == CASE phase = "search" -> 2 * Cardinality(White) + Cardinality(InsideLeft) + Len(path)
              [] phase = "unfold" -> KahnLeft
              [] OTHER -> 0

PlanLeft == <<StagesLeft, RanksLeft, LoopLeft, BodyLeft>>

(* Less of the first of them that differs is less.                         *)
Fewer == {p \in Nat \X Nat : p[1] < p[2]}
Less  == LexProductOrdering(Fewer, Nat, 4)

PlanDescends == <<PlanLeft', PlanLeft>> \in Less

(* Before the end, one of the actions has something to act on: a first     *)
(* node or edge, the first loop of the rank, the node to start from.       *)
CanStart == \E s \in White : \A n \in White \ {s} : StartsBefore(s, n)

CanPlan ==
    CASE phase = "components" -> Found \/ CanSearch
      [] phase \in {"schedule", "rank", "unfold"} -> TRUE
      [] phase = "loops" -> pending = {} \/ \E c \in pending : ComesFirst(c)
      [] phase = "search" ->
           IF path = <<>> THEN White = {} \/ CanStart
           ELSE open[Inner] = {} \/ \E e \in open[Inner] : IsFirst(graph.edges, open[Inner], e)
      [] OTHER -> FALSE

(* Nothing descends for ever in this order.                                *)
LEMMA LessIsWellFounded == IsWellFoundedOn(Less, [1..4 -> Nat])
<1>1. IsWellFoundedOn(Fewer, Nat)
  BY NatLessThanWellFounded DEF Fewer, OpToRel
<1> QED BY <1>1, WFLexProductOrdering DEF Less

(* A smaller number at the first place that differs is less.               *)
LEMMA LessByPlace ==
  ASSUME NEW a \in [1..4 -> Nat], NEW b \in [1..4 -> Nat],
         \/ a[1] < b[1]
         \/ a[1] = b[1] /\ a[2] < b[2]
         \/ a[1] = b[1] /\ a[2] = b[2] /\ a[3] < b[3]
         \/ a[1] = b[1] /\ a[2] = b[2] /\ a[3] = b[3] /\ a[4] < b[4]
  PROVE  <<a, b>> \in Less
<1>1. ASSUME NEW j \in 1..4, a[j] < b[j], \A i \in 1..(j - 1) : a[i] = b[i]
      PROVE  <<a, b>> \in Less
  BY <1>1 DEF Less, LexProductOrdering, Fewer
<1>2. 1..(1 - 1) = {} /\ 1..(2 - 1) = {1} /\ 1..(3 - 1) = {1, 2} /\ 1..(4 - 1) = {1, 2, 3}
  OBVIOUS
<1> QED BY <1>1, <1>2

(* Of the nodes that have a count, a round of Kahn's algorithm moves those *)
(* of the next level out.                                                  *)
LEMMA KahnMoves ==
  ASSUME NEW N, IsFiniteSet(N), NEW A, IsFiniteSet(A), NEW deg, NEW lvl, NEW out,
         KahnInv(N, A, deg, lvl, out),
         NEW new, new = Decremented(deg, A, lvl), NEW next, next = Ready(deg, A, lvl)
  PROVE  /\ Cardinality(Counting(deg)) \in Nat /\ Cardinality(Counting(new)) \in Nat
         /\ IsFiniteSet(next) /\ Cardinality(next) \in Nat
         /\ Cardinality(Counting(deg)) = Cardinality(Counting(new)) + Cardinality(next)
<1>1. KahnInv(N, A, new, next, out \cup lvl)
  BY KahnKeeps
<1>2. /\ Counting(deg) = N \ (lvl \cup out)
      /\ Counting(new) = N \ (next \cup (out \cup lvl))
      /\ next \subseteq N /\ next \cap (out \cup lvl) = {}
  BY <1>1 DEF KahnInv, Counting
<1>3. Counting(new) = Counting(deg) \ next /\ Counting(deg) \cap next = next
  BY <1>2
<1>4. Counting(deg) \in SUBSET N /\ Counting(new) \in SUBSET N /\ next \in SUBSET N
  BY <1>2
<1>5. IsFiniteSet(Counting(deg)) /\ IsFiniteSet(Counting(new)) /\ IsFiniteSet(next)
  BY <1>4, FS_Subset
<1>6. Cardinality(Counting(new)) = Cardinality(Counting(deg)) - Cardinality(next)
  BY <1>3, <1>5, FS_Difference
<1>7. /\ Cardinality(Counting(deg)) \in Nat /\ Cardinality(Counting(new)) \in Nat
      /\ Cardinality(next) \in Nat
  BY <1>5, FS_CardinalityType
<1> QED BY <1>5, <1>6, <1>7

(* So a round that takes out a level leaves less to do.                    *)
LEMMA KahnProceeds ==
  ASSUME NEW N, IsFiniteSet(N), NEW A, IsFiniteSet(A), NEW out,
         KahnInv(N, A, indeg, cur, out), cur # {},
         indeg' = Decremented(indeg, A, cur), cur' = Ready(indeg, A, cur)
  PROVE  KahnLeft \in Nat /\ KahnLeft' \in Nat /\ KahnLeft' < KahnLeft
<1>1. /\ Cardinality(Counting(indeg)) \in Nat /\ Cardinality(Counting(indeg')) \in Nat
      /\ IsFiniteSet(cur') /\ Cardinality(cur') \in Nat
      /\ Cardinality(Counting(indeg)) = Cardinality(Counting(indeg')) + Cardinality(cur')
  BY KahnMoves
<1>2. cur' # {} => Cardinality(cur') # 0
  BY <1>1, FS_EmptySet
<1>3. KahnLeft' = Cardinality(Counting(indeg')) + IF cur' = {} THEN 0 ELSE 1
  BY DEF KahnLeft, Counting
<1>4. KahnLeft = Cardinality(Counting(indeg)) + 1
  BY DEF KahnLeft
<1> QED BY <1>1, <1>2, <1>3, <1>4

(* The components are finitely many.                                       *)
LEMMA CompsFinite ==
  ASSUME SchedInv
  PROVE  IsFiniteSet(DOMAIN comps)
<1>1. PICK n \in Nat : DOMAIN comps = 1..n
  <2>1. comps \in Seq(SUBSET Nodes)
    BY DEF SchedInv, TarjanInv, TarjanTypeOK
  <2>2. PICK n \in Nat : n = Len(comps)
    BY <2>1
  <2> QED BY <2>1, <2>2
<1> QED BY <1>1, FS_Interval

(* What is left of Kahn's algorithm is a number.                           *)
LEMMA KahnLeftIsNat ==
  ASSUME NEW N, IsFiniteSet(N), NEW A, NEW out, KahnInv(N, A, indeg, cur, out)
  PROVE  KahnLeft \in Nat
<1>1. Counting(indeg) \in SUBSET N
  BY DEF KahnInv, Counting
<1>2. Cardinality(Counting(indeg)) \in Nat
  BY <1>1, FS_Subset, FS_CardinalityType
<1> QED BY <1>2 DEF KahnLeft

(* What is left of the ranks is a number.                                  *)
LEMMA RanksAreNat ==
  ASSUME SchedInv, phase \in {"rank", "loops", "search", "unfold"}
  PROVE  /\ WaitingLeft \in Nat
         /\ IsFiniteSet(frontier) /\ Cardinality(frontier) \in Nat
         /\ phase # "rank" => IsFiniteSet(pending) /\ Cardinality(pending) \in Nat
<1>1. PICK out : KahnInv(DOMAIN comps, CompEdges, compIndeg, frontier, out)
  BY DEF SchedInv, Ranking, Building
<1>2. Counting(compIndeg) \in SUBSET DOMAIN comps /\ frontier \in SUBSET DOMAIN comps
  BY <1>1 DEF KahnInv, Counting
<1>3. IsFiniteSet(Counting(compIndeg)) /\ IsFiniteSet(frontier)
  BY <1>2, CompsFinite, FS_Subset
<1>4. phase # "rank" => pending \in SUBSET frontier
  BY DEF SchedInv, Building
<1>5. phase # "rank" => IsFiniteSet(pending)
  BY <1>3, <1>4, FS_Subset
<1> QED BY <1>3, <1>5, FS_CardinalityType DEF WaitingLeft

(* What is left of a search is a number.                                   *)
LEMMA SearchIsNat ==
  ASSUME SchedInv, phase = "search"
  PROVE  /\ IsFiniteSet(White) /\ Cardinality(White) \in Nat
         /\ IsFiniteSet(InsideLeft) /\ Cardinality(InsideLeft) \in Nat
         /\ Len(path) \in Nat /\ path \in Seq(Body)
<1>1. IsFiniteSet(Nodes) /\ IsFiniteSet(Edges)
  BY GraphIsFinite DEF SchedInv
<1>2. Body \in SUBSET Nodes
  BY Settled, BodyFacts DEF Body
<1>3. White \in SUBSET Nodes /\ InsideLeft \in SUBSET Edges
  BY <1>2 DEF White, Body, InsideLeft, Inside
<1>4. IsFiniteSet(White) /\ IsFiniteSet(InsideLeft)
  BY <1>1, <1>3, FS_Subset
<1>5. path \in Seq(Body)
  BY DEF SchedInv, Searching, SearchInv, SearchTypeOK
<1> QED BY <1>4, <1>5, FS_CardinalityType

(* What is left of plan() are four numbers.                                *)
LEMMA PlanLeftIsNat == SchedInv => PlanLeft \in [1..4 -> Nat]
<1> SUFFICES ASSUME SchedInv  PROVE PlanLeft \in [1..4 -> Nat]
  OBVIOUS
<1>1. StagesLeft \in Nat /\ LoopLeft \in Nat
  BY DEF StagesLeft, LoopLeft
<1>2. phase = "components" => SearchLeft \in Nat
  BY LeftIsNat DEF SchedInv, TarjanInv
<1>3. phase = "schedule" => KahnLeft \in Nat
  BY GraphIsFinite, KahnLeftIsNat DEF SchedInv, Scheduling
<1>4. phase = "rank" => WaitingLeft + 3 * Cardinality(frontier) \in Nat
  BY RanksAreNat
<1>5. phase \in {"loops", "search", "unfold"} => WaitingLeft + Cardinality(pending) + 1 \in Nat
  BY RanksAreNat
<1>6. RanksLeft \in Nat
  BY <1>2, <1>3, <1>4, <1>5 DEF RanksLeft
<1>7. phase = "search" => 2 * Cardinality(White) + Cardinality(InsideLeft) + Len(path) \in Nat
  BY SearchIsNat
<1>8. phase = "unfold" => KahnLeft \in Nat
  <2> SUFFICES ASSUME phase = "unfold"  PROVE KahnLeft \in Nat
    OBVIOUS
  <2>1. Body \in SUBSET Nodes
    BY Settled, BodyFacts DEF Body
  <2>2. IsFiniteSet(Body)
    BY <2>1, GraphIsFinite, FS_Subset DEF SchedInv
  <2> QED BY <2>2, KahnLeftIsNat DEF SchedInv, Unfolding, UnfoldInv
<1>9. BodyLeft \in Nat
  BY <1>7, <1>8 DEF BodyLeft
<1> QED BY <1>1, <1>6, <1>9 DEF PlanLeft

(* Less of the first part that changes is less of plan().                  *)
LEMMA LessOfPlan ==
  ASSUME SchedInv, SchedInv',
         \/ StagesLeft' < StagesLeft
         \/ StagesLeft' = StagesLeft /\ RanksLeft' < RanksLeft
         \/ StagesLeft' = StagesLeft /\ RanksLeft' = RanksLeft /\ LoopLeft' < LoopLeft
         \/ /\ StagesLeft' = StagesLeft /\ RanksLeft' = RanksLeft /\ LoopLeft' = LoopLeft
            /\ BodyLeft' < BodyLeft
  PROVE  <<PlanLeft', PlanLeft>> \in Less
<1>1. PlanLeft \in [1..4 -> Nat] /\ PlanLeft' \in [1..4 -> Nat]
  <2>1. (SchedInv => PlanLeft \in [1..4 -> Nat])'
    BY PlanLeftIsNat, PTL
  <2> QED BY <2>1, PlanLeftIsNat
<1>2. /\ PlanLeft[1] = StagesLeft /\ PlanLeft[2] = RanksLeft
      /\ PlanLeft[3] = LoopLeft /\ PlanLeft[4] = BodyLeft
  BY DEF PlanLeft
<1>3. /\ PlanLeft'[1] = StagesLeft' /\ PlanLeft'[2] = RanksLeft'
      /\ PlanLeft'[3] = LoopLeft' /\ PlanLeft'[4] = BodyLeft'
  BY DEF PlanLeft
<1> QED BY <1>1, <1>2, <1>3, LessByPlace

(* The order of the components is settled in time: a step of _tarjan_sccs  *)
(* leaves less to search.                                                  *)
LEMMA FindComponentsProceeds ==
  ASSUME SchedInv, FindComponents
  PROVE  StagesLeft' = StagesLeft /\ RanksLeft' < RanksLeft
<1>1. phase = "components" /\ phase' = "components" /\ graph' = graph /\ TarjanNext
  BY DEF FindComponents
<1>2. SearchLeft' < SearchLeft
  BY <1>1, SearchProceeds DEF SchedInv
<1> QED BY <1>1, <1>2 DEF StagesLeft, RanksLeft

(* A verdict, and the end of the plan, are a stage nearer to the end.      *)
LEMMA StageProceeds ==
  ASSUME SchedInv, Refuse \/ Acyclic \/ Condense \/ ScheduleEnds \/ PlanEnds
  PROVE  StagesLeft' < StagesLeft
<1>1. \/ phase = "components" /\ phase' \in {"refused", "schedule", "rank"}
      \/ phase \in {"schedule", "rank"} /\ phase' \in {"done", "refused"}
  BY DEF Refuse, Acyclic, Condense, ScheduleEnds, PlanEnds
<1> QED BY <1>1 DEF StagesLeft

(* A level of TopologicalScheduler leaves fewer nodes.                     *)
LEMMA ScheduleLevelProceeds ==
  ASSUME SchedInv, ScheduleLevel
  PROVE  StagesLeft' = StagesLeft /\ RanksLeft' < RanksLeft
<1>1. /\ phase = "schedule" /\ phase' = "schedule" /\ cur # {}
      /\ indeg' = Decremented(indeg, Edges, cur) /\ cur' = Ready(indeg, Edges, cur)
  BY DEF ScheduleLevel
<1>2. KahnLeft' < KahnLeft
  BY <1>1, GraphIsFinite, KahnProceeds DEF SchedInv, Scheduling
<1> QED BY <1>1, <1>2 DEF StagesLeft, RanksLeft

(* The frontier becomes what is pending of it.                             *)
LEMMA EmitSinglesProceeds ==
  ASSUME SchedInv, EmitSingles
  PROVE  StagesLeft' = StagesLeft /\ RanksLeft' < RanksLeft
<1>1. /\ phase = "rank" /\ phase' = "loops" /\ frontier # {} /\ compIndeg' = compIndeg
      /\ pending' = frontier \cap Loops
  BY DEF EmitSingles
<1>2. WaitingLeft \in Nat /\ IsFiniteSet(frontier) /\ Cardinality(frontier) \in Nat
  BY <1>1, RanksAreNat
<1>3. /\ Cardinality(frontier \cap Loops) <= Cardinality(frontier)
      /\ Cardinality(frontier \cap Loops) \in Nat
  BY <1>2, FS_Subset, FS_CardinalityType
<1>4. Cardinality(frontier) # 0
  BY <1>1, <1>2, FS_EmptySet
<1>5. WaitingLeft' = WaitingLeft
  BY <1>1 DEF WaitingLeft, Counting
<1>6. RanksLeft' = WaitingLeft + Cardinality(frontier \cap Loops) + 1
  BY <1>1, <1>5 DEF RanksLeft
<1>7. RanksLeft = WaitingLeft + 3 * Cardinality(frontier)
  BY <1>1 DEF RanksLeft
<1> QED BY <1>1, <1>2, <1>3, <1>4, <1>6, <1>7 DEF StagesLeft

(* The components of the next rank wait no longer.                         *)
LEMMA NextRankProceeds ==
  ASSUME SchedInv, NextRank
  PROVE  StagesLeft' = StagesLeft /\ RanksLeft' < RanksLeft
<1>1. /\ phase = "loops" /\ phase' = "rank" /\ pending = {}
      /\ compIndeg' = Decremented(compIndeg, CompEdges, frontier)
      /\ frontier' = Ready(compIndeg, CompEdges, frontier)
  BY DEF NextRank
<1>2. PICK out : KahnInv(DOMAIN comps, CompEdges, compIndeg, frontier, out)
  BY <1>1 DEF SchedInv, Building
<1>3. IsFiniteSet(DOMAIN comps) /\ IsFiniteSet(CompEdges)
  BY <1>1, Settled, CompsFinite, CompsAcyclic
<1>4. /\ Cardinality(Counting(compIndeg)) \in Nat /\ Cardinality(Counting(compIndeg')) \in Nat
      /\ Cardinality(frontier') \in Nat
      /\ Cardinality(Counting(compIndeg))
            = Cardinality(Counting(compIndeg')) + Cardinality(frontier')
  BY <1>1, <1>2, <1>3, KahnMoves
<1>5. RanksLeft = 4 * Cardinality(Counting(compIndeg)) + 0 + 1
  BY <1>1, FS_EmptySet DEF RanksLeft, WaitingLeft
<1>6. RanksLeft' = 4 * Cardinality(Counting(compIndeg')) + 3 * Cardinality(frontier')
  BY <1>1 DEF RanksLeft, WaitingLeft, Counting
<1>7. RanksLeft' < RanksLeft
  BY <1>4, <1>5, <1>6
<1> QED BY <1>1, <1>7 DEF StagesLeft

(* A loop that is built is not pending any more.                           *)
LEMMA EmitLoopProceeds ==
  ASSUME SchedInv, EmitLoop
  PROVE  StagesLeft' = StagesLeft /\ RanksLeft' < RanksLeft
<1>1. /\ phase = "unfold" /\ phase' = "loops" /\ compIndeg' = compIndeg
      /\ pending' = pending \ {body}
  BY DEF EmitLoop
<1>2. WaitingLeft \in Nat /\ IsFiniteSet(pending) /\ Cardinality(pending) \in Nat
  BY <1>1, RanksAreNat
<1>3. Cardinality(pending \ {body}) = Cardinality(pending) - 1
  BY <1>1, <1>2, BodyFacts, FS_RemoveElement
<1>4. WaitingLeft' = WaitingLeft
  BY <1>1 DEF WaitingLeft, Counting
<1>5. RanksLeft' = WaitingLeft + (Cardinality(pending) - 1) + 1
  BY <1>1, <1>3, <1>4 DEF RanksLeft
<1>6. RanksLeft = WaitingLeft + Cardinality(pending) + 1
  BY <1>1 DEF RanksLeft
<1> QED BY <1>1, <1>2, <1>5, <1>6 DEF StagesLeft

(* Between the loops of a rank the ranks stay.                             *)
LEMMA RanksStay ==
  ASSUME phase \in {"loops", "search", "unfold"}, phase' \in {"loops", "search", "unfold"},
         UNCHANGED condensation
  PROVE  StagesLeft' = StagesLeft /\ RanksLeft' = RanksLeft
<1>1. compIndeg' = compIndeg /\ pending' = pending
  BY DEF condensation
<1>2. WaitingLeft' = WaitingLeft
  BY <1>1 DEF WaitingLeft, Counting
<1> QED BY <1>1, <1>2 DEF StagesLeft, RanksLeft

(* A loop is searched, and then unfolded.                                  *)
LEMMA LoopProceeds ==
  ASSUME SchedInv, BuildLoop \/ SearchEnds
  PROVE  StagesLeft' = StagesLeft /\ RanksLeft' = RanksLeft /\ LoopLeft' < LoopLeft
<1>1. /\ \/ phase = "loops" /\ phase' = "search"
         \/ phase = "search" /\ phase' = "unfold"
      /\ UNCHANGED condensation
  BY DEF BuildLoop, SearchEnds
<1> QED BY <1>1, RanksStay DEF LoopLeft

(* A level of a loop leaves fewer nodes to unfold.                         *)
LEMMA UnfoldProceeds ==
  ASSUME SchedInv, UnfoldLevel
  PROVE  /\ StagesLeft' = StagesLeft /\ RanksLeft' = RanksLeft /\ LoopLeft' = LoopLeft
         /\ BodyLeft' < BodyLeft
<1>1. /\ phase = "unfold" /\ phase' = "unfold" /\ UNCHANGED condensation /\ cur # {}
      /\ indeg' = Decremented(indeg, Forward, cur) /\ cur' = Ready(indeg, Forward, cur)
  BY DEF UnfoldLevel
<1>2. Body \in SUBSET Nodes /\ IsFiniteSet(Forward)
  BY <1>1, Settled, BodyFacts DEF Body
<1>3. IsFiniteSet(Body)
  BY <1>2, GraphIsFinite, FS_Subset DEF SchedInv
<1>4. KahnLeft' < KahnLeft
  BY <1>1, <1>2, <1>3, KahnProceeds DEF SchedInv, Unfolding, UnfoldInv
<1> QED BY <1>1, <1>4, RanksStay DEF LoopLeft, BodyLeft

(* A step of the search leaves fewer nodes to see, edges to follow or      *)
(* calls to return from.                                                   *)
LEMMA SearchStepProceeds ==
  ASSUME SchedInv, SearchStart \/ SearchEdge \/ SearchReturn
  PROVE  /\ StagesLeft' = StagesLeft /\ RanksLeft' = RanksLeft /\ LoopLeft' = LoopLeft
         /\ BodyLeft' < BodyLeft
<1>1. /\ phase = "search" /\ phase' = "search"
      /\ UNCHANGED <<graph, tarjan, body>> /\ UNCHANGED condensation
  BY DEF SearchStart, SearchEdge, SearchReturn
<1>2. SearchTypeOK /\ EdgesOpen
  BY <1>1 DEF SchedInv, Searching, SearchInv
<1>3. /\ IsFiniteSet(White) /\ Cardinality(White) \in Nat
      /\ IsFiniteSet(InsideLeft) /\ Cardinality(InsideLeft) \in Nat
      /\ Len(path) \in Nat /\ path \in Seq(Body)
  BY <1>1, SearchIsNat
<1>4. Body' = Body /\ Inside' = Inside /\ comps' = comps /\ body' = body
  BY <1>1, BodyStays DEF tarjan
<1>5. /\ BodyLeft = 2 * Cardinality(White) + Cardinality(InsideLeft) + Len(path)
      /\ BodyLeft' = 2 * Cardinality(White') + Cardinality(InsideLeft') + Len(path')
  BY <1>1 DEF BodyLeft
<1>6. ASSUME NEW v \in White, color' = [color EXCEPT ![v] = "gray"]
      PROVE  Cardinality(White') = Cardinality(White) - 1
  <2>1. White' = White \ {v}
    BY <1>2, <1>4, <1>6 DEF White, Body, SearchTypeOK
  <2> QED BY <2>1, <1>3, FS_RemoveElement
<1>7. CASE SearchStart
  <2>1. PICK v \in White : /\ color' = [color EXCEPT ![v] = "gray"] /\ path = <<>>
                           /\ path' = <<v>> /\ open' = open
    BY <1>7 DEF SearchStart
  <2>2. InsideLeft' = InsideLeft
    BY <2>1, <1>4 DEF InsideLeft
  <2>3. Len(path) = 0 /\ Len(path') = 1
    BY <2>1
  <2>4. Cardinality(White') = Cardinality(White) - 1
    BY <2>1, <1>6
  <2>5. BodyLeft' < BodyLeft
    BY <2>2, <2>3, <2>4, <1>3, <1>5
  <2> QED BY <2>5, <1>1, RanksStay DEF LoopLeft
<1>8. ASSUME path # <<>>  PROVE Inner \in Body
  BY <1>3, <1>8 DEF Inner
<1>9. CASE SearchEdge
  <2>1. PICK e \in open[Inner] :
          /\ path # <<>> /\ open' = [open EXCEPT ![Inner] = @ \ {e}]
          /\ IF color[e.to] = "white"
               THEN /\ color' = [color EXCEPT ![e.to] = "gray"]
                    /\ path' = Append(path, e.to)
               ELSE UNCHANGED <<color, path>>
    BY <1>9 DEF SearchEdge
  <2>2. Inner \in Body /\ e \in Inside /\ e.from = Inner /\ e.to \in Body
    BY <2>1, <1>2, <1>8 DEF SearchTypeOK, EdgesOpen, OutEdges, Inside, Body
  <2>3. InsideLeft' = InsideLeft \ {e} /\ e \in InsideLeft
    <3>1. \A d \in Inside : d.from \in Body
      BY DEF Inside, Body
    <3> QED BY <3>1, <2>1, <2>2, <1>2, <1>4 DEF InsideLeft, SearchTypeOK
  <2>4. Cardinality(InsideLeft') = Cardinality(InsideLeft) - 1
    BY <2>3, <1>3, FS_RemoveElement
  <2>5. CASE color[e.to] = "white"
    <3>1. e.to \in White
      BY <2>2, <2>5 DEF White, Body
    <3>2. Cardinality(White') = Cardinality(White) - 1
      BY <3>1, <2>1, <2>5, <1>6
    <3>3. Len(path') = Len(path) + 1
      BY <2>1, <2>2, <2>5, <1>3
    <3>4. BodyLeft' < BodyLeft
      BY SMTT(20), <3>2, <3>3, <2>4, <1>3, <1>5
    <3> QED BY <3>4, <1>1, RanksStay DEF LoopLeft
  <2>6. CASE color[e.to] # "white"
    <3>1. color' = color /\ path' = path
      BY <2>1, <2>6
    <3>2. White' = White
      BY <3>1, <1>4 DEF White
    <3>3. BodyLeft' < BodyLeft
      BY <3>1, <3>2, <2>4, <1>3, <1>5
    <3> QED BY <3>3, <1>1, RanksStay DEF LoopLeft
  <2> QED BY <2>5, <2>6
<1>10. CASE SearchReturn
  <2>1. /\ path # <<>> /\ color' = [color EXCEPT ![Inner] = "black"] /\ open' = open
        /\ path' = SubSeq(path, 1, Len(path) - 1)
    BY <1>10 DEF SearchReturn
  <2>2. White' \in SUBSET White
    BY <2>1, <1>2, <1>4 DEF White, Body, SearchTypeOK
  <2>3. Cardinality(White') \in Nat /\ Cardinality(White') <= Cardinality(White)
    BY <2>2, <1>3, FS_Subset, FS_CardinalityType
  <2>4. InsideLeft' = InsideLeft
    BY <2>1, <1>4 DEF InsideLeft
  <2>5. Len(path') = Len(path) - 1
    <3>1. PICK n \in Nat : n = Len(path) /\ n # 0
      BY <1>3, <2>1
    <3>2. Len(SubSeq(path, 1, n - 1)) = n - 1
      BY <1>3, <3>1
    <3> QED BY <3>1, <3>2, <2>1
  <2>6. BodyLeft' < BodyLeft
    BY <2>3, <2>4, <2>5, <1>3, <1>5
  <2> QED BY <2>6, <1>1, RanksStay DEF LoopLeft
<1> QED BY <1>7, <1>9, <1>10

(* Every step of plan() leaves less to do.                                 *)
LEMMA PlanProceeds ==
  ASSUME SchedInv, SchedInv', Next
  PROVE  <<PlanLeft', PlanLeft>> \in Less
<1>1. CASE FindComponents
  BY <1>1, FindComponentsProceeds, LessOfPlan
<1>2. CASE Refuse \/ Acyclic \/ Condense \/ ScheduleEnds \/ PlanEnds
  BY <1>2, StageProceeds, LessOfPlan
<1>3. CASE ScheduleLevel
  BY <1>3, ScheduleLevelProceeds, LessOfPlan
<1>4. CASE EmitSingles
  BY <1>4, EmitSinglesProceeds, LessOfPlan
<1>5. CASE NextRank
  BY <1>5, NextRankProceeds, LessOfPlan
<1>6. CASE BuildLoop \/ SearchEnds
  BY <1>6, LoopProceeds, LessOfPlan
<1>7. CASE SearchStart \/ SearchEdge \/ SearchReturn
  BY <1>7, SearchStepProceeds, LessOfPlan
<1>8. CASE UnfoldLevel
  BY <1>8, UnfoldProceeds, LessOfPlan
<1>9. CASE EmitLoop
  BY <1>9, EmitLoopProceeds, LessOfPlan
<1> QED BY <1>1, <1>2, <1>3, <1>4, <1>5, <1>6, <1>7, <1>8, <1>9 DEF Next

(* The loop that comes first in the document can be built.                 *)
LEMMA FirstLoopExists ==
  ASSUME SchedInv, phase = "loops", pending # {}
  PROVE  \E c \in pending : ComesFirst(c)
<1>1. IsFiniteSet(pending) /\ pending \in SUBSET DOMAIN comps
  BY RanksAreNat, Settled DEF SchedInv, Building
<1>2. PICK L \in Nat : DOMAIN graph.nodes = 1..L /\ Nodes = {graph.nodes[i] : i \in 1..L}
  <2>1. graph.nodes \in Seq(Nodes) /\ Nodes = {graph.nodes[i] : i \in DOMAIN graph.nodes}
    BY DEF SchedInv, IsGraph, Nodes, NodesOf
  <2>2. PICK L \in Nat : L = Len(graph.nodes)
    BY <2>1
  <2> QED BY <2>1, <2>2
<1>3. ASSUME NEW c \in pending  PROVE CompKey(c) \in Int
  <2> DEFINE I == {i \in 1..L : graph.nodes[i] \in comps[c]}
  <2>1. comps[c] # {} /\ comps[c] \in SUBSET Nodes
    BY <1>1, Settled
  <2>2. I \in SUBSET (1..L) /\ I \in SUBSET Int /\ I # {}
    BY <2>1, <1>2
  <2>3. IsFiniteSet(I)
    BY <2>2, FS_Interval, FS_Subset
  <2>4. PICK i \in I : \A j \in I : i <= j
    BY <2>2, <2>3, SmallestExists
  <2>5. /\ i \in DOMAIN graph.nodes /\ graph.nodes[i] \in comps[c]
        /\ \A j \in 1..(i - 1) : graph.nodes[j] \notin comps[c]
    BY <2>4, <1>2
  <2>6. CompKey(c) \in DOMAIN graph.nodes
    BY <2>5 DEF CompKey
  <2> QED BY <2>6, <1>2
<1> DEFINE key == [c \in pending |-> CompKey(c)]
<1>4. key \in [pending -> Int]
  BY <1>3
<1>5. PICK c \in pending : \A d \in pending : key[c] <= key[d]
  <2> HIDE DEF key
  <2> QED BY <1>1, <1>4, LeastExists
<1> QED BY <1>5 DEF ComesFirst

(* The search has a node to start from: of the nodes entered from outside, *)
(* or else of all, of those that are no condition, or else of all, the one *)
(* that left the stack first.                                              *)
LEMMA StartExists ==
  ASSUME SchedInv, phase = "search", White # {}
  PROVE  CanStart
<1> DEFINE outside == [n \in White |-> IF Entered(n) THEN 0 ELSE 1]
           condition == [n \in White |-> IF n \in graph.brancher THEN 1 ELSE 0]
           late == [n \in White |-> 0 - index[n]]
<1>1. /\ IsFiniteSet(White) /\ White \in SUBSET Nodes
      /\ index \in [Nodes -> Int] /\ \A m, n \in Nodes : index[m] = index[n] => m = n
  <2>1. IsFiniteSet(White)
    BY SearchIsNat
  <2>2. White \in SUBSET Nodes
    BY Settled, BodyFacts DEF White, Body
  <2>3. Found /\ TarjanTypeOK /\ Indexed
    BY DEF SchedInv, TarjanInv
  <2> QED BY <2>1, <2>2, <2>3 DEF Found, TarjanTypeOK, Indexed, Met
<1>2. outside \in [White -> Int] /\ condition \in [White -> Int] /\ late \in [White -> Int]
  BY <1>1
<1>3. \A a, b \in White :
        (\/ outside[a] < outside[b]
         \/ outside[a] = outside[b] /\ condition[a] < condition[b]
         \/ /\ outside[a] = outside[b] /\ condition[a] = condition[b]
            /\ late[a] < late[b])
        => StartsBefore(a, b)
  BY <1>1 DEF StartsBefore
<1>4. \A a, b \in White : late[a] = late[b] => a = b
  BY <1>1
<1> HIDE DEF outside, condition, late
<1>5. ASSUME NEW S \in SUBSET White, S # {}, NEW f \in [White -> Int]
      PROVE  \E x \in S : \A y \in S : f[x] <= f[y]
  <2> DEFINE g == [n \in S |-> f[n]]
  <2>1. g \in [S -> Int] /\ \A n \in S : g[n] = f[n]
    OBVIOUS
  <2>2. IsFiniteSet(S)
    BY <1>1, FS_Subset
  <2> HIDE DEF g
  <2>3. \E x \in S : \A y \in S : g[x] <= g[y]
    BY <2>1, <2>2, <1>5, LeastExists
  <2> QED BY <2>1, <2>3
<1>6. PICK a \in White : \A n \in White : outside[a] <= outside[n]
  BY <1>2, <1>5
<1> DEFINE A == {n \in White : outside[n] = outside[a]}
<1>7. PICK b \in A : \A n \in A : condition[b] <= condition[n]
  BY <1>2, <1>5
<1> DEFINE B == {n \in A : condition[n] = condition[b]}
<1>8. PICK s \in B : \A n \in B : late[s] <= late[n]
  BY <1>2, <1>5
<1>9. ASSUME NEW n \in White \ {s}  PROVE StartsBefore(s, n)
  <2>1. /\ outside[s] \in Int /\ outside[n] \in Int /\ condition[s] \in Int
        /\ condition[n] \in Int /\ late[s] \in Int /\ late[n] \in Int
    BY <1>2
  <2>2. outside[s] = outside[a] /\ condition[s] = condition[b] /\ late[s] # late[n]
    BY <1>4
  <2>3. CASE n \notin A
    BY <2>1, <2>2, <2>3, <1>3, <1>6
  <2>4. CASE n \in A \ B
    BY <2>1, <2>2, <2>4, <1>3, <1>7
  <2>5. CASE n \in B
    BY <2>1, <2>2, <2>5, <1>3, <1>8
  <2> QED BY <2>3, <2>4, <2>5
<1> QED BY <1>9 DEF CanStart

(* plan() is always in one of its phases.                                  *)
Phases == {"components", "schedule", "rank", "loops", "search", "unfold", "done", "refused"}

LEMMA PhaseStays ==
  ASSUME phase \in Phases, [Next]_vars
  PROVE  phase' \in Phases
<1>1. CASE UNCHANGED vars
  BY <1>1 DEF vars
<1>2. CASE Next
  BY <1>2 DEF Next, FindComponents, Refuse, Acyclic, ScheduleLevel, ScheduleEnds, Condense,
       EmitSingles, NextRank, PlanEnds, BuildLoop, SearchStart, SearchEdge, SearchReturn,
       SearchEnds, UnfoldLevel, EmitLoop, Phases
<1> QED BY <1>1, <1>2

(* Before the end there is a step to take.                                 *)
LEMMA PlanGoesOn ==
  ASSUME SchedInv, phase \in Phases, phase \notin {"done", "refused"}
  PROVE  CanPlan
<1>1. CASE phase = "components"
  BY <1>1, SearchGoesOn DEF SchedInv, CanPlan
<1>2. CASE phase \in {"schedule", "rank", "unfold"}
  BY <1>2 DEF CanPlan
<1>3. CASE phase = "loops"
  BY <1>3, FirstLoopExists DEF CanPlan
<1>4. CASE phase = "search"
  <2>1. path = <<>> => White = {} \/ CanStart
    BY <1>4, StartExists
  <2>2. ASSUME path # <<>>, open[Inner] # {}
        PROVE  \E e \in open[Inner] : IsFirst(graph.edges, open[Inner], e)
    <3> DEFINE S == open[Inner]
    <3>1. Inner \in Body
      BY <1>4, <2>2, SearchIsNat DEF Inner
    <3>2. S \in SUBSET Edges
      BY <3>1, <1>4 DEF SchedInv, Searching, SearchInv, SearchTypeOK, Inside
    <3>3. /\ graph.edges \in Seq(Edges)
          /\ Edges = {graph.edges[i] : i \in DOMAIN graph.edges}
      BY DEF SchedInv, IsGraph, Edges, EdgesOf
    <3>4. S # {}
      BY <2>2
    <3> HIDE DEF S
    <3>5. \E e \in S : IsFirst(graph.edges, S, e)
      BY <3>2, <3>3, <3>4, FirstExists
    <3> QED BY <3>5 DEF S
  <2> QED BY <1>4, <2>1, <2>2 DEF CanPlan
<1> QED BY <1>1, <1>2, <1>3, <1>4 DEF Phases

(* plan() always comes to its end, with a plan or with E_CYCLE_DETECTED,   *)
(* for every workflow graph: before the end there is a step to take, and   *)
(* each step leaves less, in an order in which nothing descends for ever.  *)
THEOREM PlanningEnds ==
  /\ IsWellFoundedOn(Less, [1..4 -> Nat])
  /\ Spec => [](PlanLeft \in [1..4 -> Nat])
  /\ Spec => [][PlanDescends]_vars
  /\ Spec => [](phase \notin {"done", "refused"} => CanPlan)
<1>1. Spec => [](PlanLeft \in [1..4 -> Nat])
  BY PlannerInvariant, PlanLeftIsNat, PTL
<1>2. SchedInv /\ SchedInv' /\ [Next]_vars => [PlanDescends]_vars
  BY PlanProceeds DEF PlanDescends
<1>3. Spec => [][PlanDescends]_vars
  BY <1>2, PlannerInvariant, PTL DEF Spec
<1>4. Spec => [](phase \in Phases)
  <2>1. Init => phase \in Phases
    BY DEF Init, Phases
  <2>2. phase \in Phases /\ [Next]_vars => (phase \in Phases)'
    BY PhaseStays DEF Phases
  <2> QED BY <2>1, <2>2, PTL DEF Spec
<1>5. SchedInv /\ phase \in Phases => (phase \notin {"done", "refused"} => CanPlan)
  BY PlanGoesOn
<1>6. Spec => [](phase \notin {"done", "refused"} => CanPlan)
  BY <1>4, <1>5, PlannerInvariant, PTL
<1> QED BY <1>1, <1>3, <1>6, LessIsWellFounded
=============================================================================
