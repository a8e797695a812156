--------------------------- MODULE GraphCheckProofs ---------------------------
(***************************************************************************)
(* The validator's verdict is right for every workflow graph: its loop     *)
(* over a list of nodes takes the steps of the engine's recursive search,  *)
(* so that what module ComponentsProofs proves of that search holds here.  *)
(* Last, that it comes to a verdict: CheckLeft descends with every step.   *)
(***************************************************************************)
EXTENDS GraphCheck, TLAPS

(* The engine's search, as the validator's state shows it, with its proofs.*)
C == INSTANCE ComponentsProofs
         WITH index <- Indexes, low <- Lows, counter <- Count,
              stack <- Stacked, calls <- Calls, todo <- ToFollow

Items == [node : Nodes, passed : SUBSET Edges]

CheckTypeOK ==
    /\ index \in [Nodes -> Int] /\ low \in [Nodes -> Int]
    /\ counter \in Nat
    /\ stack \in SUBSET Nodes
    /\ comps \in Seq(SUBSET Nodes)
    /\ work \in Seq(Items)
    /\ at \in {"head", "edges"}
    /\ verdict \in {"open", "passed", "refused"}

(* A node that waits on top was not met, and only the node on top waits:   *)
(* those below have passed the edge to the next one.                       *)
WaitsUnmet == Waits => index[Last.node] = Unseen /\ Last.node \notin stack
BelowPassed == \A k \in DOMAIN work : k < Len(work) => work[k].passed # {}

Judged ==
    verdict # "open" =>
        /\ work = <<>> /\ \A n \in Nodes : index[n] # Unseen
        /\ verdict = "passed" <=>
              \A c \in DOMAIN comps : IsNontrivial(c) => HasCondition(c)

(* The inductive invariant of _detect_cycles.                              *)
CheckInv == /\ IsGraph(graph)
            /\ CheckTypeOK /\ WaitsUnmet /\ BelowPassed /\ Judged
            /\ C!TarjanInv

-----------------------------------------------------------------------------

(* Both searches look at the same graph.                                   *)
LEMMA SameGraph ==
  /\ C!Nodes = Nodes /\ C!Edges = Edges /\ C!Unseen = Unseen
  /\ \A g : C!IsGraph(g) <=> IsGraph(g)
  /\ \A g \in GraphsToPlan : C!IsGraph(g)
  /\ \A s, S, x : C!IsFirst(s, S, x) <=> IsFirst(s, S, x)
  /\ \A u : C!OutEdges(u) = OutEdges(u)
  /\ \A a, b : C!Least(a, b) = Least(a, b)
  /\ \A n, m : C!SameLoop(n, m) <=> SameLoop(n, m)
  /\ \A n : C!OnCycle(n) <=> OnCycle(n)
<1>1. C!Nodes = Nodes /\ C!Edges = Edges /\ C!Unseen = Unseen
  BY DEF C!Nodes, C!Edges, C!NodesOf, C!EdgesOf, C!Unseen, Nodes, Edges, NodesOf, EdgesOf, Unseen
<1>2. ASSUME NEW g  PROVE C!IsGraph(g) <=> IsGraph(g)
  BY DEF C!IsGraph, C!NodesOf, C!EdgesOf, IsGraph, NodesOf, EdgesOf
<1>3. ASSUME NEW s, NEW S, NEW x  PROVE C!IsFirst(s, S, x) <=> IsFirst(s, S, x)
  BY DEF C!IsFirst, C!Place, IsFirst, Place
<1>4. ASSUME NEW u  PROVE C!OutEdges(u) = OutEdges(u)
  BY <1>1 DEF C!OutEdges, OutEdges
<1>5. ASSUME NEW a, NEW b  PROVE C!Least(a, b) = Least(a, b)
  BY DEF C!Least, Least
<1>6. ASSUME NEW n, NEW m  PROVE C!SameLoop(n, m) <=> SameLoop(n, m)
  BY <1>1 DEF C!SameLoop, C!Reaches, C!IsClosed, SameLoop, Reaches, IsClosed
<1>7. ASSUME NEW n  PROVE C!OnCycle(n) <=> OnCycle(n)
  BY <1>1, <1>6 DEF C!OnCycle, OnCycle
<1> QED BY <1>1, <1>2, <1>3, <1>4, <1>5, <1>6, <1>7, GraphsAssumption

(* A sequence by its places.                                               *)
LEMMA Listed ==
  ASSUME NEW S, NEW s \in Seq(S)
  PROVE  /\ Len(s) \in Nat /\ DOMAIN s = 1..Len(s)
         /\ \A k \in DOMAIN s : s[k] \in S
         /\ s = <<>> <=> Len(s) = 0
OBVIOUS

(* The open calls are the nodes of the search.                             *)
LEMMA CallsAreWork ==
  ASSUME CheckTypeOK
  PROVE  /\ Calls \in Seq(Nodes) /\ Len(Calls) = Len(work)
         /\ Len(work) \in Nat /\ DOMAIN work = 1..Len(work)
         /\ \A k \in DOMAIN work :
               /\ work[k] = [node |-> work[k].node, passed |-> work[k].passed]
               /\ Calls[k] = work[k].node
               /\ work[k].node \in Nodes /\ work[k].passed \in SUBSET Edges
         /\ work = <<>> <=> Calls = <<>>
         /\ work # <<>> => Len(work) \in DOMAIN work /\ Last \in Items
<1>1. PICK L \in Nat : /\ L = Len(work) /\ DOMAIN work = 1..L
                       /\ \A k \in DOMAIN work : work[k] \in Items
                       /\ work = <<>> <=> L = 0
  <2>1. work \in Seq(Items)
    BY DEF CheckTypeOK
  <2> QED BY <2>1, Listed
<1>2. \A k \in DOMAIN work :
        /\ work[k] = [node |-> work[k].node, passed |-> work[k].passed]
        /\ work[k].node \in Nodes /\ work[k].passed \in SUBSET Edges
  BY <1>1 DEF Items
<1>3. Calls \in [1..L -> Nodes]
  BY <1>1, <1>2 DEF Calls
<1>4. Calls \in Seq(Nodes) /\ Len(Calls) = L /\ (Calls = <<>> <=> L = 0)
  BY <1>3
<1> QED BY <1>1, <1>2, <1>4 DEF Calls, Last

(* What does not wait on top is met: the search is as the state shows it.  *)
LEMMA NoneWaits ==
  ~Waits => Indexes = index /\ Lows = low /\ Count = counter /\ Stacked = stack
BY DEF Indexes, Lows, Count, Stacked, MetBy

(* The node on top waits: the search has met it.                           *)
LEMMA OneWaits ==
  Waits => /\ Indexes = [index EXCEPT ![Last.node] = counter]
           /\ Lows = [low EXCEPT ![Last.node] = counter]
           /\ Count = counter + 1
           /\ Stacked = stack \cup {Last.node}
BY DEF Indexes, Lows, Count, Stacked, MetBy

(* Nothing waits at first, and nothing is met.                             *)
LEMMA CheckStarts ==
  ASSUME IsGraph(graph), CheckInit
  PROVE  CheckInv /\ C!TarjanInit
<1>1. ~Waits
  BY DEF CheckInit, Waits
<1>2. CheckTypeOK
  BY DEF CheckInit, CheckTypeOK, Unseen
<1>3. WaitsUnmet /\ BelowPassed /\ Judged
  BY <1>1 DEF CheckInit, WaitsUnmet, BelowPassed, Judged
<1>4. C!TarjanInit
  <2>1. Calls = <<>>
    BY <1>2, CallsAreWork DEF CheckInit
  <2>2. \A n \in Nodes : EdgesLeft(n) = OutEdges(n)
    BY DEF CheckInit, EdgesLeft, OnWork, OutEdges
  <2> QED BY <1>1, <2>1, <2>2, NoneWaits, SameGraph DEF CheckInit, C!TarjanInit, ToFollow
<1> QED BY <1>2, <1>3, <1>4, SameGraph, C!TarjanStarts DEF CheckInv

(* Nodes and edges are those of the graph, which stays.                    *)
LEMMA GraphStays ==
  ASSUME UNCHANGED graph
  PROVE  /\ Nodes' = Nodes /\ Edges' = Edges /\ (IsGraph(graph)' <=> IsGraph(graph))
         /\ Items' = Items /\ \A n : OutEdges(n)' = OutEdges(n)
BY DEF Nodes, Edges, Items, OutEdges

(* No node is on the search twice.                                         *)
LEMMA OnceOnWork ==
  ASSUME CheckInv, NEW k \in DOMAIN work, NEW l \in DOMAIN work,
         work[k].node = work[l].node
  PROVE  k = l
<1>1. C!Sorted /\ C!TarjanTypeOK
  BY DEF CheckInv, C!TarjanInv
<1>2. /\ DOMAIN Calls = DOMAIN work /\ Calls[k] = Calls[l] /\ k \in Nat /\ l \in Nat
  BY CallsAreWork DEF CheckInv, Calls
<1>3. Calls[k] \in Nodes /\ Indexes[Calls[k]] \in Int
  BY <1>1, CallsAreWork, SameGraph DEF CheckInv, C!TarjanTypeOK
<1>4. ~(k < l) /\ ~(l < k)
  BY <1>1, <1>2, <1>3 DEF C!Sorted
<1> QED BY <1>2, <1>4

(* The search opens for the next node of the document.                     *)
LEMMA RootKeeps ==
  ASSUME CheckInv, Root
  PROVE  CheckInv' /\ C!TarjanNext
<1>1. PICK v \in Nodes :
        /\ IsFirst(graph.nodes, {n \in Nodes : index[n] = Unseen}, v)
        /\ work' = <<Item(v)>>
  BY DEF Root
<1>2. /\ work = <<>> /\ at' = "head" /\ graph' = graph /\ verdict = "open"
      /\ index' = index /\ low' = low /\ counter' = counter /\ stack' = stack
      /\ comps' = comps /\ verdict' = verdict
  BY DEF Root, found
<1>3. /\ CheckTypeOK /\ Calls = <<>> /\ ~Waits /\ index[v] = Unseen
  BY <1>1, <1>2, CallsAreWork DEF CheckInv, Waits, IsFirst
<1>4. /\ Len(work') = 1 /\ DOMAIN work' = {1} /\ work'[1] = Item(v)
      /\ Last' = Item(v) /\ Waits'
  BY <1>1, <1>2 DEF Last, Waits, Item
<1>5. CheckTypeOK'
  <2>1. Item(v) \in Items
    BY DEF Item, Items
  <2>2. work' \in Seq(Items)
    BY <1>1, <2>1
  <2> QED BY <1>2, <1>3, <2>2, GraphStays DEF CheckTypeOK
<1>6. v \notin stack
  <2>1. ~C!Met(v) /\ C!Parted
    BY <1>3, NoneWaits, SameGraph DEF CheckInv, C!TarjanInv, C!Met
  <2> QED BY <2>1, <1>3, NoneWaits, SameGraph DEF C!Parted
<1>7. WaitsUnmet' /\ BelowPassed' /\ Judged'
  BY <1>2, <1>3, <1>4, <1>6 DEF WaitsUnmet, BelowPassed, Judged, Item
<1>8. ToFollow' = ToFollow
  <2>1. ASSUME NEW n \in Nodes  PROVE EdgesLeft(n)' = EdgesLeft(n)
    <3>1. OnWork(n) = {} /\ OnWork(n)' = IF n = v THEN {1} ELSE {}
      BY <1>2, <1>4 DEF OnWork, Item
    <3>2. CASE n = v
      <4>1. work'[1].passed = {}
        BY <1>4 DEF Item
      <4> QED BY <4>1, <3>1, <3>2, <1>2, <1>3, GraphStays DEF EdgesLeft
    <3>3. CASE n # v
      BY <3>1, <3>3, <1>2, GraphStays DEF EdgesLeft
    <3> QED BY <3>2, <3>3
  <2> QED BY <2>1, <1>2, GraphStays DEF ToFollow
<1>9. C!StartRoot
  <2>1. Calls' = Append(Calls, v)
    <3>1. Calls' = [k \in {1} |-> v]
      BY <1>4 DEF Calls, Item
    <3> QED BY <3>1, <1>3
  <2>2. C!Enter(v)
    BY <2>1, <1>2, <1>3, <1>4, NoneWaits, OneWaits DEF C!Enter, Indexes, Lows, Count, Stacked, MetBy, Item
  <2> QED BY <2>2, <1>1, <1>3, <1>8, NoneWaits, SameGraph DEF C!StartRoot
<1>10. C!TarjanNext
  BY <1>9 DEF C!TarjanNext
<1>11. C!TarjanInv'
  BY <1>2, <1>10, C!TarjanKeeps, SameGraph DEF CheckInv
<1> QED BY <1>2, <1>5, <1>7, <1>10, <1>11, GraphStays DEF CheckInv

(* When the engine's search stands still its invariant stays.              *)
LEMMA SearchStays ==
  ASSUME CheckInv, UNCHANGED <<graph, comps, Indexes, Lows, Count, Stacked, Calls, ToFollow>>
  PROVE  C!TarjanInv' /\ UNCHANGED C!tarjan
BY C!TarjanStays, SameGraph DEF CheckInv, C!tarjan

(* A look at the node on top: one that waits is met now.                   *)
LEMMA LookKeeps ==
  ASSUME CheckInv, Look
  PROVE  CheckInv' /\ UNCHANGED C!tarjan
<1>1. /\ verdict = "open" /\ work # <<>> /\ at = "head" /\ at' = "edges"
      /\ graph' = graph /\ work' = work /\ verdict' = verdict /\ comps' = comps
      /\ CheckTypeOK /\ ~Waits' /\ (Waits <=> Last.passed = {})
  BY DEF Look, Searched, Meet, found, CheckInv, Waits
<1>2. /\ Len(work) \in DOMAIN work /\ Last \in Items /\ Last = work[Len(work)]
      /\ Last.node \in Nodes /\ Calls' = Calls
  BY <1>1, CallsAreWork DEF Items, Last, Calls
<1>3. CASE Waits
  <2>1. /\ index' = [index EXCEPT ![Last.node] = counter]
        /\ low' = [low EXCEPT ![Last.node] = counter]
        /\ counter' = counter + 1 /\ stack' = stack \cup {Last.node}
    BY <1>1, <1>3 DEF Look, Meet
  <2>2. CheckTypeOK'
    <3>1. index' \in [Nodes -> Int] /\ low' \in [Nodes -> Int] /\ counter' \in Nat
      <4>1. index \in [Nodes -> Int] /\ low \in [Nodes -> Int] /\ counter \in Nat
        BY <1>1 DEF CheckTypeOK
      <4>2. counter \in Int /\ counter + 1 \in Nat
        BY <4>1
      <4> QED BY <4>1, <4>2, <2>1
    <3>2. stack' \in SUBSET Nodes
      BY <1>1, <1>2, <2>1 DEF CheckTypeOK
    <3> QED BY <3>1, <3>2, <1>1, GraphStays DEF CheckTypeOK
  <2>3. WaitsUnmet' /\ BelowPassed' /\ Judged'
    BY <1>1 DEF CheckInv, WaitsUnmet, BelowPassed, Judged
  <2>4. Indexes' = Indexes /\ Lows' = Lows /\ Count' = Count /\ Stacked' = Stacked
    BY <1>1, <1>3, <2>1 DEF Indexes, Lows, Count, Stacked, MetBy
  <2>5. ToFollow' = ToFollow
    <3>1. ASSUME NEW n \in Nodes  PROVE EdgesLeft(n)' = EdgesLeft(n)
      <4>1. CASE n = Last.node
        <5>1. OnWork(n) # {} /\ OnWork(n)' = OnWork(n)
          BY <4>1, <1>2, <1>1 DEF OnWork
        <5> QED BY <5>1, <1>1, GraphStays DEF EdgesLeft
      <4>2. CASE n # Last.node
        <5>1. index'[n] = index[n] /\ OnWork(n)' = OnWork(n)
          BY <4>2, <2>1, <1>1 DEF CheckTypeOK, OnWork
        <5> QED BY <5>1, <1>1, GraphStays DEF EdgesLeft
      <4> QED BY <4>1, <4>2
    <3> QED BY <3>1, <1>1, GraphStays DEF ToFollow
  <2> QED BY <1>1, <1>2, <2>2, <2>3, <2>4, <2>5, SearchStays, GraphStays DEF CheckInv
<1>4. CASE ~Waits
  <2>1. /\ index' = index /\ low' = low /\ counter' = counter /\ stack' = stack
    BY <1>1, <1>4 DEF Look, found
  <2>2. CheckTypeOK'
    BY <1>1, <2>1, GraphStays DEF CheckTypeOK
  <2>3. WaitsUnmet' /\ BelowPassed' /\ Judged'
    BY <1>1 DEF CheckInv, WaitsUnmet, BelowPassed, Judged
  <2>4. Indexes' = Indexes /\ Lows' = Lows /\ Count' = Count /\ Stacked' = Stacked
    BY <1>1, <1>4, <2>1 DEF Indexes, Lows, Count, Stacked, MetBy
  <2>5. ToFollow' = ToFollow
    <3>1. \A n : EdgesLeft(n)' = EdgesLeft(n)
      BY <1>1, <2>1, GraphStays DEF EdgesLeft, OnWork
    <3> QED BY <3>1, <1>1, GraphStays DEF ToFollow
  <2> QED BY <1>1, <1>2, <2>2, <2>3, <2>4, <2>5, SearchStays, GraphStays DEF CheckInv
<1> QED BY <1>3, <1>4

(* In the loop over its edges the node on top is the innermost open call,  *)
(* and what is left of its edges is what that call has to follow.          *)
LEMMA TopIsLast ==
  ASSUME CheckInv, Searched, at = "edges"
  PROVE  /\ ~Waits /\ Calls # <<>> /\ Len(work) \in DOMAIN work
         /\ Last \in Items /\ Last.node \in Nodes /\ Last.passed \subseteq Edges
         /\ C!Top = Last.node
         /\ \A k \in DOMAIN work : work[k].node = Last.node <=> k = Len(work)
         /\ ToFollow[Last.node] = Left
         /\ \A k \in DOMAIN work : index[work[k].node] # Unseen
<1>1. /\ ~Waits /\ Calls # <<>> /\ Len(work) \in DOMAIN work /\ Len(Calls) = Len(work)
      /\ Last \in Items /\ Last.node \in Nodes /\ Last.passed \subseteq Edges
      /\ Last = work[Len(work)]
  BY CallsAreWork DEF CheckInv, Searched, Waits, Items, Last
<1>2. C!Top = Last.node
  BY <1>1, CallsAreWork DEF CheckInv, C!Top
<1>3. \A k \in DOMAIN work : work[k].node = Last.node <=> k = Len(work)
  BY <1>1, OnceOnWork
<1>4. \A k \in DOMAIN work : index[work[k].node] # Unseen
  <2>1. SUFFICES ASSUME NEW k \in DOMAIN work  PROVE index[work[k].node] # Unseen
    OBVIOUS
  <2>2. Calls[k] \in C!Open /\ Calls[k] = work[k].node /\ Calls[k] \in Nodes
    BY CallsAreWork DEF CheckInv, C!Open, Calls
  <2>3. C!Open \subseteq Stacked /\ C!Parted
    BY DEF CheckInv, C!TarjanInv, C!Sorted
  <2>4. C!Met(Calls[k])
    BY <2>2, <2>3, SameGraph DEF C!Parted
  <2> QED BY <2>2, <2>4, <1>1, NoneWaits, SameGraph DEF C!Met
<1>5. EdgesLeft(Last.node) = Left
  <2>1. OnWork(Last.node) = {Len(work)}
    BY <1>1, <1>3 DEF OnWork
  <2> QED BY <2>1, <1>1 DEF EdgesLeft, Left
<1> QED BY <1>1, <1>2, <1>3, <1>4, <1>5 DEF ToFollow

(* An edge e of the node on top is passed, and the node that it leads to   *)
(* may be put on top.                                                      *)
LEMMA EdgePassed ==
  ASSUME CheckInv, Searched, at = "edges", NEW e \in Left,
         UNCHANGED <<graph, index>>,
         \/ work' = Pass(e)
         \/ index[e.to] = Unseen /\ work' = Append(Pass(e), Item(e.to))
  PROVE  /\ ToFollow' = [ToFollow EXCEPT ![Last.node] = @ \ {e}]
         /\ work' \in Seq(Items)
         /\ Pass(e) \in Seq(Items) /\ Len(Pass(e)) = Len(work)
         /\ \A k \in DOMAIN work : Pass(e)[k].node = work[k].node
         /\ \A k \in DOMAIN work : k # Len(work) => Pass(e)[k] = work[k]
         /\ Pass(e)[Len(work)].passed = Last.passed \cup {e}
         /\ e \in Edges /\ e.from = Last.node /\ e.to \in Nodes
<1> DEFINE L == Len(work)  w == Pass(e)
<1>1. /\ ~Waits /\ L \in DOMAIN work /\ Last \in Items /\ Last.node \in Nodes
      /\ Last.passed \subseteq Edges /\ Last = work[L] /\ work \in Seq(Items)
      /\ L \in Nat /\ DOMAIN work = 1..L
      /\ \A k \in DOMAIN work : work[k].node = Last.node <=> k = L
      /\ \A k \in DOMAIN work : index[work[k].node] # Unseen
      /\ \A k \in DOMAIN work : work[k] \in Items
  BY TopIsLast, CallsAreWork, Listed DEF CheckInv, CheckTypeOK, Last
<1>2. e \in Edges /\ e.from = Last.node /\ e.to \in Nodes
  BY <1>1 DEF Left, OutEdges, CheckInv, IsGraph, Nodes, Edges
<1>3. /\ DOMAIN w = 1..L
      /\ w[L] = [node |-> Last.node, passed |-> Last.passed \cup {e}]
      /\ \A k \in 1..L : k # L => w[k] = work[k]
  BY <1>1 DEF Pass, Items
<1>4. w[L] \in Items
  <2>1. Last.passed \cup {e} \in SUBSET Edges
    BY <1>1, <1>2
  <2>2. [node |-> Last.node, passed |-> Last.passed \cup {e}] \in Items
    BY <1>1, <2>1 DEF Items
  <2> QED BY <1>3, <2>2
<1>5. w \in Seq(Items) /\ Len(w) = L
  <2>1. w \in [1..L -> Items]
    BY <1>1, <1>3, <1>4 DEF Pass
  <2> QED BY <2>1, <1>1
<1>6. /\ \A k \in 1..L : w[k].node = work[k].node
      /\ w[L].passed = Last.passed \cup {e}
  <2>1. w[L].node = Last.node /\ w[L].passed = Last.passed \cup {e}
    BY <1>3
  <2>2. ASSUME NEW k \in 1..L  PROVE w[k].node = work[k].node
    <3>1. CASE k = L
      BY <3>1, <2>1, <1>1
    <3>2. CASE k # L
      BY <3>2, <1>3
    <3> QED BY <3>1, <3>2
  <2> QED BY <2>1, <2>2
<1>7. CASE work' = w
  <2>1. ASSUME NEW n \in Nodes  PROVE EdgesLeft(n)' = IF n = Last.node THEN Left \ {e} ELSE EdgesLeft(n)
    <3>1. OnWork(n)' = OnWork(n)
      BY ZenonT(30), <1>1, <1>3, <1>6, <1>7 DEF OnWork
    <3>2. CASE n = Last.node
      <4>1. OnWork(n) = {L}
        BY <1>1, <3>2 DEF OnWork
      <4>2. work'[L].passed = Last.passed \cup {e}
        BY <1>6, <1>7
      <4> QED BY <4>1, <4>2, <3>1, <3>2, GraphStays DEF EdgesLeft, Left
    <3>3. CASE n # Last.node
      <4>1. \A k \in OnWork(n) : work'[k].passed = work[k].passed
        BY <1>1, <1>3, <1>7, <3>3 DEF OnWork
      <4> QED BY <4>1, <3>1, <3>3, GraphStays DEF EdgesLeft
    <3> QED BY <3>2, <3>3
  <2>2. ToFollow' = [ToFollow EXCEPT ![Last.node] = @ \ {e}]
    BY <2>1, <1>1, TopIsLast, GraphStays DEF ToFollow
  <2>3. work' \in Seq(Items)
    BY <1>5, <1>7
  <2> HIDE DEF w
  <2> QED BY <2>2, <2>3, <1>2, <1>3, <1>5, <1>6, <1>1 DEF w
<1>8. CASE index[e.to] = Unseen /\ work' = Append(w, Item(e.to))
  <2>1. /\ DOMAIN work' = 1..(L + 1) /\ work'[L + 1] = Item(e.to)
        /\ \A k \in 1..L : work'[k] = w[k]
    BY <1>5, <1>8, <1>1
  <2>2. work' \in Seq(Items)
    <3>1. Item(e.to) \in Items
      BY <1>2 DEF Item, Items
    <3> QED BY <3>1, <1>5, <1>8
  <2>3. e.to # Last.node /\ OnWork(e.to) = {}
    BY <1>1, <1>8 DEF OnWork
  <2>4. ASSUME NEW n \in Nodes  PROVE EdgesLeft(n)' = IF n = Last.node THEN Left \ {e} ELSE EdgesLeft(n)
    <3>1. OnWork(n)' = IF n = e.to THEN {L + 1} ELSE OnWork(n)
      BY <1>1, <1>6, <2>1, <2>3 DEF OnWork, Item
    <3>2. CASE n = Last.node
      <4>1. OnWork(n) = {L} /\ OnWork(n)' = {L} /\ work'[L].passed = Last.passed \cup {e}
        BY <1>1, <1>3, <2>1, <2>3, <3>1, <3>2 DEF OnWork
      <4> QED BY <4>1, <3>2, <1>1, GraphStays DEF EdgesLeft, Left
    <3>3. CASE n = e.to
      <4>1. OnWork(n)' = {L + 1} /\ work'[L + 1].passed = {} /\ OnWork(n) = {} /\ index[n] = Unseen
        BY <3>1, <3>3, <2>1, <2>3, <1>8 DEF Item
      <4> QED BY <4>1, <2>3, <3>3, GraphStays DEF EdgesLeft
    <3>4. CASE n # Last.node /\ n # e.to
      <4>1. OnWork(n)' = OnWork(n) /\ \A k \in OnWork(n) : work'[k].passed = work[k].passed
        BY <1>1, <1>3, <2>1, <3>1, <3>4 DEF OnWork
      <4> QED BY <4>1, <3>4, GraphStays DEF EdgesLeft
    <3> QED BY <3>2, <3>3, <3>4
  <2>5. ToFollow' = [ToFollow EXCEPT ![Last.node] = @ \ {e}]
    BY <2>4, <1>1, TopIsLast, GraphStays DEF ToFollow
  <2> QED BY <2>2, <2>5, <1>2, <1>3, <1>5, <1>6, <1>1
<1> QED BY <1>7, <1>8

(* Passing an edge is what the engine's search does when it follows one.   *)
LEMMA NextEdgeKeeps ==
  ASSUME CheckInv, NextEdge
  PROVE  CheckInv' /\ C!TarjanNext
<1>1. PICK e \in Left : /\ IsFirst(graph.edges, Left, e)
                        /\ Descend(e) \/ LowerLow(e) \/ PassBy(e)
  BY DEF NextEdge
<1>2. /\ Searched /\ at = "edges" /\ verdict = "open" /\ work # <<>>
      /\ graph' = graph /\ index' = index /\ counter' = counter /\ stack' = stack
      /\ comps' = comps /\ verdict' = verdict
  BY DEF NextEdge, Searched
<1>3. /\ ~Waits /\ Calls # <<>> /\ Len(work) \in DOMAIN work /\ Last.node \in Nodes
      /\ C!Top = Last.node /\ ToFollow[Last.node] = Left
      /\ \A k \in DOMAIN work : index[work[k].node] # Unseen
      /\ DOMAIN work = 1..Len(work) /\ Len(work) \in Nat
      /\ Indexes = index /\ Lows = low /\ Count = counter /\ Stacked = stack
      /\ CheckTypeOK
  BY <1>2, TopIsLast, CallsAreWork, NoneWaits DEF CheckInv
<1>4. /\ ToFollow' = [ToFollow EXCEPT ![Last.node] = @ \ {e}]
      /\ work' \in Seq(Items)
      /\ Pass(e) \in Seq(Items) /\ Len(Pass(e)) = Len(work)
      /\ \A k \in DOMAIN work : Pass(e)[k].node = work[k].node
      /\ \A k \in DOMAIN work : k # Len(work) => Pass(e)[k] = work[k]
      /\ Pass(e)[Len(work)].passed = Last.passed \cup {e}
      /\ e \in Edges /\ e.from = Last.node /\ e.to \in Nodes
  BY <1>1, <1>2, EdgePassed DEF Descend, LowerLow, PassBy
<1>5. Judged'
  BY <1>2 DEF Judged
<1>6. SUFFICES CheckTypeOK' /\ WaitsUnmet' /\ BelowPassed'
               /\ (C!Descend(e) \/ C!LowerLow(e) \/ C!PassBy(e))
  <2>1. C!IsFirst(graph.edges, ToFollow[C!Top], e) /\ e \in ToFollow[C!Top]
    BY <1>1, <1>3, SameGraph
  <2>2. ToFollow' = [ToFollow EXCEPT ![C!Top] = @ \ {e}]
    BY <1>3, <1>4
  <2>3. (C!Descend(e) \/ C!LowerLow(e) \/ C!PassBy(e)) => C!FollowEdge
    BY <1>3, <2>1, <2>2 DEF C!FollowEdge
  <2>4. C!FollowEdge => C!TarjanNext
    BY DEF C!TarjanNext
  <2>5. C!TarjanNext => C!TarjanInv'
    BY <1>2, C!TarjanKeeps, SameGraph DEF CheckInv
  <2> QED BY <1>2, <1>5, <2>3, <2>4, <2>5, GraphStays DEF CheckInv
<1>7. CASE Descend(e)
  <2>1. /\ index[e.to] = Unseen /\ work' = Append(Pass(e), Item(e.to)) /\ at' = "head"
        /\ low' = low
    BY <1>7 DEF Descend
  <2>2. /\ Len(work') = Len(work) + 1 /\ DOMAIN work' = 1..(Len(work) + 1)
        /\ work'[Len(work) + 1] = Item(e.to)
        /\ \A k \in 1..Len(work) : work'[k] = Pass(e)[k]
    BY <2>1, <1>3, <1>4
  <2>3. Waits' /\ Last' = Item(e.to) /\ work' # <<>>
    BY <2>1, <2>2, <1>3 DEF Waits, Last, Item
  <2>4. e.to \notin stack
    <3>1. C!Parted /\ ~C!Met(e.to)
      BY <2>1, <1>3, SameGraph DEF CheckInv, C!TarjanInv, C!Met
    <3> QED BY <3>1, <1>3, <1>4, SameGraph DEF C!Parted
  <2>5. CheckTypeOK'
    BY <1>2, <1>3, <1>4, <2>1, GraphStays DEF CheckTypeOK
  <2>6. WaitsUnmet'
    BY <1>2, <2>1, <2>3, <2>4 DEF WaitsUnmet, Item
  <2>7. BelowPassed'
    <3>1. SUFFICES ASSUME NEW k \in 1..Len(work)  PROVE work'[k].passed # {}
      BY <2>2, <1>3 DEF BelowPassed
    <3>2. CASE k = Len(work)
      BY <3>2, <2>2, <1>4
    <3>3. CASE k # Len(work)
      <4>1. work'[k] = work[k] /\ k < Len(work) /\ k \in DOMAIN work
        <5>1. k \in DOMAIN work /\ k # Len(work) /\ k < Len(work)
          <6>1. PICK L \in Nat : L = Len(work) /\ DOMAIN work = 1..L
            BY <1>3
          <6> QED BY <6>1, <3>3
        <5> QED BY <5>1, <2>2, <1>4
      <4> QED BY <4>1 DEF CheckInv, BelowPassed
    <3> QED BY <3>2, <3>3
  <2>8. Calls' = Append(Calls, e.to)
    <3>1. /\ Calls \in Seq(Nodes) /\ Len(Calls) = Len(work)
          /\ \A k \in DOMAIN work : Calls[k] = work[k].node
      BY <1>3, CallsAreWork
    <3>2. Calls' = [k \in 1..(Len(work) + 1) |-> IF k = Len(work) + 1 THEN e.to ELSE work[k].node]
      BY <2>2, <1>3, <1>4 DEF Calls, Item
    <3>3. Append(Calls, e.to) = [k \in 1..(Len(work) + 1) |-> IF k = Len(work) + 1 THEN e.to ELSE work[k].node]
      BY <3>1, <1>3
    <3> QED BY <3>2, <3>3
  <2>9. C!Descend(e)
    <3>1. /\ Indexes' = [index EXCEPT ![e.to] = counter]
          /\ Lows' = [low EXCEPT ![e.to] = counter]
          /\ Count' = counter + 1 /\ Stacked' = stack \cup {e.to}
      BY <1>2, <2>1, <2>3 DEF Indexes, Lows, Count, Stacked, MetBy, Item
    <3> QED BY <3>1, <2>1, <2>8, <1>2, <1>3, SameGraph DEF C!Descend, C!Enter
  <2> QED BY <2>5, <2>6, <2>7, <2>9
<1>8. CASE LowerLow(e) \/ PassBy(e)
  <2>1. work' = Pass(e) /\ at' = "edges"
    BY <1>2, <1>8 DEF LowerLow, PassBy
  <2>2. low' \in [Nodes -> Int]
    BY <1>8, <1>3, <1>4 DEF LowerLow, PassBy, CheckTypeOK, Least
  <2>3. CheckTypeOK'
    BY <1>2, <1>3, <1>4, <2>1, <2>2, GraphStays DEF CheckTypeOK
  <2>4. ~Waits'
    BY <2>1 DEF Waits
  <2>5. WaitsUnmet'
    BY <2>4 DEF WaitsUnmet
  <2>6. DOMAIN work' = DOMAIN work /\ Len(work') = Len(work)
    BY <2>1, <1>3, <1>4
  <2>7. BelowPassed'
    BY <2>1, <2>6, <1>3, <1>4 DEF CheckInv, BelowPassed
  <2>8. Calls' = Calls
    BY <2>1, <2>6, <1>4 DEF Calls
  <2>9. Indexes' = index /\ Lows' = low' /\ Count' = counter /\ Stacked' = stack
    BY <2>4, <1>2 DEF Indexes, Lows, Count, Stacked, MetBy
  <2>u. /\ Indexes' = Indexes /\ Count' = Count /\ Stacked' = Stacked
        /\ Calls' = Calls /\ comps' = comps
    BY <2>8, <2>9, <1>2, <1>3
  <2>10. CASE LowerLow(e)
    <3>1. e.to \in Stacked
      BY <2>10, <1>3 DEF LowerLow
    <3>2. Lows' = [Lows EXCEPT ![e.from] = C!Least(@, Indexes[e.to])]
      BY <2>9, <2>10, <1>3, SameGraph DEF LowerLow
    <3> QED BY <3>1, <3>2, <2>u, <2>3, <2>5, <2>7 DEF C!LowerLow
  <2>11. CASE PassBy(e)
    <3>1. Lows' = Lows
      BY <2>9, <2>11, <1>3 DEF PassBy
    <3>2. Indexes[e.to] # C!Unseen /\ e.to \notin Stacked
      BY <2>11, <1>3, SameGraph DEF PassBy
    <3> QED BY <3>1, <3>2, <2>u, <2>3, <2>5, <2>7 DEF C!PassBy
  <2> QED BY <1>8, <2>10, <2>11
<1> QED BY <1>1, <1>7, <1>8

(* A node whose edges are passed returns as a call of the engine does.     *)
LEMMA ReturnKeeps ==
  ASSUME CheckInv, Return
  PROVE  CheckInv' /\ C!TarjanNext
<1>1. /\ Searched /\ at = "edges" /\ verdict = "open" /\ work # <<>> /\ Left = {}
      /\ Close(Last.node) /\ work' = Below /\ at' = "head"
      /\ low' = (IF Below = <<>> THEN low
                 ELSE [low EXCEPT ![work[Len(work) - 1].node] = Least(@, low[Last.node])])
      /\ graph' = graph /\ index' = index /\ counter' = counter /\ verdict' = verdict
  BY DEF Return, Searched
<1>2. /\ ~Waits /\ Calls # <<>> /\ Len(work) \in DOMAIN work /\ Last.node \in Nodes
      /\ C!Top = Last.node /\ ToFollow[Last.node] = Left
      /\ \A k \in DOMAIN work : index[work[k].node] # Unseen
      /\ \A k \in DOMAIN work : work[k].node = Last.node <=> k = Len(work)
      /\ DOMAIN work = 1..Len(work) /\ Len(work) \in Nat /\ Len(Calls) = Len(work)
      /\ Calls \in Seq(Nodes) /\ work \in Seq(Items)
      /\ Indexes = index /\ Lows = low /\ Count = counter /\ Stacked = stack
      /\ CheckTypeOK
  BY <1>1, TopIsLast, CallsAreWork, NoneWaits DEF CheckInv, CheckTypeOK
<1>3. PICK L \in Nat : L = Len(work) /\ L >= 1 /\ DOMAIN work = 1..L
  <2>1. PICK L \in Nat : L = Len(work) /\ DOMAIN work = 1..L
    BY <1>2
  <2>2. L \in 1..L
    BY <2>1, <1>2
  <2> QED BY <2>1, <2>2
<1>4. /\ Below \in Seq(Items) /\ Len(Below) = L - 1 /\ DOMAIN Below = 1..(L - 1)
      /\ \A k \in 1..(L - 1) : Below[k] = work[k]
      /\ Below = <<>> <=> L = 1
  BY <1>2, <1>3 DEF Below
<1>5. /\ C!Outer \in Seq(Nodes) /\ Len(C!Outer) = L - 1 /\ DOMAIN C!Outer = 1..(L - 1)
      /\ \A k \in 1..(L - 1) : C!Outer[k] = Calls[k]
      /\ C!Outer = <<>> <=> L = 1
  BY <1>2, <1>3 DEF C!Outer
<1>6. Calls' = C!Outer
  <2>1. Calls' = [k \in 1..(L - 1) |-> work[k].node]
    BY <1>1, <1>4 DEF Calls
  <2>2. \A k \in 1..(L - 1) : Calls[k] = work[k].node
    BY <1>3, <1>2 DEF Calls
  <2> QED BY <2>1, <2>2, <1>5
<1>7. ~Waits'
  <2>1. CASE L = 1
    BY <2>1, <1>1, <1>4 DEF Waits
  <2>2. CASE L > 1
    <3>1. Last' = work[L - 1] /\ L - 1 \in 1..L /\ L - 1 < L
      BY <2>2, <1>1, <1>3, <1>4 DEF Last
    <3>2. Last'.passed # {}
      BY <3>1, <1>3 DEF CheckInv, BelowPassed
    <3> QED BY <3>2 DEF Waits
  <2> QED BY <2>1, <2>2, <1>3
<1>8. WaitsUnmet' /\ BelowPassed' /\ Judged'
  <2>1. BelowPassed'
    <3>1. SUFFICES ASSUME NEW k \in 1..(L - 1), k < L - 1  PROVE work'[k].passed # {}
      BY <1>1, <1>4 DEF BelowPassed
    <3>2. work'[k] = work[k] /\ k \in 1..L /\ k < L
      BY <3>1, <1>1, <1>3, <1>4
    <3> QED BY <3>2, <1>3 DEF CheckInv, BelowPassed
  <2> QED BY <2>1, <1>1, <1>7 DEF WaitsUnmet, Judged
<1>9. Indexes' = index /\ Lows' = low' /\ Count' = counter /\ Stacked' = stack'
  BY <1>1, <1>7 DEF Indexes, Lows, Count, Stacked, MetBy
<1>10. Above(Last.node) \in SUBSET Nodes /\ C!Above(Last.node) = Above(Last.node)
  BY <1>2 DEF CheckTypeOK, Above, C!Above
<1>11. C!Close(C!Top)
  BY <1>1, <1>2, <1>9, <1>10 DEF Close, C!Close
<1>12. ToFollow' = ToFollow
  <2>1. ASSUME NEW n \in Nodes  PROVE EdgesLeft(n)' = EdgesLeft(n)
    <3>1. OnWork(n)' = OnWork(n) \ {L}
      BY <1>1, <1>3, <1>4 DEF OnWork
    <3>2. CASE n = Last.node
      <4>1. OnWork(n)' = {} /\ index[n] # Unseen /\ EdgesLeft(n) = {}
        BY <3>1, <3>2, <1>1, <1>2, <1>3 DEF OnWork, ToFollow
      <4> QED BY <4>1, <1>1, GraphStays DEF EdgesLeft
    <3>3. CASE n # Last.node
      <4>1. L \notin OnWork(n) /\ \A k \in OnWork(n) : work'[k] = work[k]
        BY <3>3, <1>1, <1>2, <1>3, <1>4 DEF OnWork
      <4> QED BY <4>1, <3>1, <1>1, GraphStays DEF EdgesLeft
    <3> QED BY <3>2, <3>3
  <2> QED BY <2>1, <1>1, GraphStays DEF ToFollow
<1>13. C!Return
  <2>1. Lows' = IF C!Outer = <<>> THEN Lows
                ELSE [Lows EXCEPT ![Calls[Len(Calls) - 1]] = C!Least(@, Lows[C!Top])]
    <3>1. CASE L = 1
      BY <3>1, <1>1, <1>2, <1>4, <1>5, <1>9
    <3>2. CASE L > 1
      <4>1. L - 1 \in DOMAIN work /\ Calls[Len(Calls) - 1] = work[Len(work) - 1].node
        BY <3>2, <1>2, <1>3 DEF Calls
      <4> QED BY <4>1, <3>2, <1>1, <1>2, <1>4, <1>5, <1>9, SameGraph
    <3> QED BY <3>1, <3>2, <1>3
  <2>2. Indexes' = Indexes /\ Count' = Count
    BY <1>2, <1>9
  <2> QED BY <2>1, <2>2, <1>1, <1>2, <1>6, <1>11, <1>12 DEF C!Return
<1>14. CheckTypeOK'
  <2>1. low' \in [Nodes -> Int]
    <3>1. CASE L = 1
      BY <3>1, <1>1, <1>2, <1>4 DEF CheckTypeOK
    <3>2. CASE L > 1
      <4>1. low \in [Nodes -> Int] /\ Last.node \in Nodes
        BY <1>2 DEF CheckTypeOK
      <4>2. ASSUME NEW x  PROVE [low EXCEPT ![x] = Least(@, low[Last.node])] \in [Nodes -> Int]
        BY <4>1 DEF Least
      <4> QED BY <4>1, <4>2, <1>1
    <3> QED BY <3>1, <3>2, <1>3
  <2>2. stack' \in SUBSET Nodes /\ comps' \in Seq(SUBSET Nodes)
    <3>1. stack \in SUBSET Nodes /\ comps \in Seq(SUBSET Nodes)
      BY <1>2 DEF CheckTypeOK
    <3>2. CASE low[Last.node] = index[Last.node]
      <4>1. /\ stack' = stack \ Above(Last.node)
            /\ comps' = Append(comps, Above(Last.node))
        BY <3>2, <1>1 DEF Close
      <4> QED BY <4>1, <3>1, <1>10
    <3>3. CASE low[Last.node] # index[Last.node]
      BY <3>1, <3>3, <1>1 DEF Close
    <3> QED BY <3>2, <3>3
  <2>3. work' \in Seq(Items)
    BY <1>1, <1>4
  <2> QED BY <2>1, <2>2, <2>3, <1>1, <1>2, GraphStays DEF CheckTypeOK
<1>15. C!TarjanNext
  BY <1>13 DEF C!TarjanNext
<1>16. C!TarjanInv'
  BY <1>1, <1>15, C!TarjanKeeps, SameGraph DEF CheckInv
<1> QED BY <1>1, <1>8, <1>14, <1>15, <1>16, GraphStays DEF CheckInv

(* The verdict is given once, and changes nothing of the search.           *)
LEMMA JudgeKeeps ==
  ASSUME CheckInv, Judge
  PROVE  CheckInv' /\ UNCHANGED C!tarjan
<1>1. /\ verdict = "open" /\ work = <<>> /\ \A n \in Nodes : index[n] # Unseen
      /\ verdict' = (IF \A c \in DOMAIN comps : IsNontrivial(c) => HasCondition(c)
                       THEN "passed" ELSE "refused")
      /\ graph' = graph /\ index' = index /\ low' = low /\ counter' = counter
      /\ stack' = stack /\ comps' = comps /\ work' = work /\ at' = at
  BY DEF Judge, found
<1>2. Waits' <=> Waits
  BY <1>1 DEF Waits, Last
<1>3. CheckTypeOK'
  BY <1>1, GraphStays DEF CheckInv, CheckTypeOK
<1>4. WaitsUnmet' /\ BelowPassed'
  BY <1>1, <1>2 DEF CheckInv, WaitsUnmet, BelowPassed, Last
<1>5. Judged'
  <2>1. \A c : /\ IsNontrivial(c)' <=> IsNontrivial(c)
               /\ HasCondition(c)' <=> HasCondition(c)
    BY <1>1, GraphStays DEF IsNontrivial, HasCondition
  <2>2. /\ work' = <<>> /\ \A n \in Nodes' : index'[n] # Unseen
        /\ DOMAIN comps' = DOMAIN comps
    BY <1>1, GraphStays
  <2> HIDE DEF IsNontrivial, HasCondition
  <2>3. verdict' = "passed" <=>
          \A c \in DOMAIN comps : IsNontrivial(c) => HasCondition(c)
    BY <1>1
  <2> QED BY <2>1, <2>2, <2>3, <1>1, GraphStays DEF Judged
<1>6. C!TarjanInv' /\ UNCHANGED C!tarjan
  <2>1. /\ Indexes' = Indexes /\ Lows' = Lows /\ Count' = Count /\ Stacked' = Stacked
        /\ Calls' = Calls
    BY <1>1, <1>2 DEF Indexes, Lows, Count, Stacked, MetBy, Last, Calls
  <2>2. \A n : EdgesLeft(n)' = EdgesLeft(n)
    BY <1>1, GraphStays DEF EdgesLeft, OnWork
  <2>3. ToFollow' = ToFollow
    BY <2>2, <1>1, GraphStays DEF ToFollow
  <2> QED BY <2>1, <2>3, <1>1, SearchStays
<1> QED BY <1>1, <1>3, <1>4, <1>5, <1>6, GraphStays DEF CheckInv

(* Nor does a step of others.                                              *)
LEMMA CheckRests ==
  ASSUME CheckInv, UNCHANGED vars
  PROVE  CheckInv' /\ UNCHANGED C!tarjan
<1>1. /\ graph' = graph /\ index' = index /\ low' = low /\ counter' = counter
      /\ stack' = stack /\ comps' = comps /\ work' = work /\ at' = at
      /\ verdict' = verdict
  BY DEF vars, found
<1>2. Waits' <=> Waits
  BY <1>1 DEF Waits, Last
<1>3. CheckTypeOK' /\ WaitsUnmet' /\ BelowPassed'
  BY <1>1, <1>2, GraphStays DEF CheckInv, CheckTypeOK, WaitsUnmet, BelowPassed, Last
<1>4. Judged'
  <2>1. \A c : /\ IsNontrivial(c)' <=> IsNontrivial(c)
               /\ HasCondition(c)' <=> HasCondition(c)
    BY <1>1, GraphStays DEF IsNontrivial, HasCondition
  <2> HIDE DEF IsNontrivial, HasCondition
  <2> QED BY <2>1, <1>1, GraphStays DEF CheckInv, Judged
<1>5. C!TarjanInv' /\ UNCHANGED C!tarjan
  <2>1. /\ Indexes' = Indexes /\ Lows' = Lows /\ Count' = Count /\ Stacked' = Stacked
        /\ Calls' = Calls
    BY <1>1, <1>2 DEF Indexes, Lows, Count, Stacked, MetBy, Last, Calls
  <2>2. \A n : EdgesLeft(n)' = EdgesLeft(n)
    BY <1>1, GraphStays DEF EdgesLeft, OnWork
  <2>3. ToFollow' = ToFollow
    BY <2>2, <1>1, GraphStays DEF ToFollow
  <2> QED BY <2>1, <2>3, <1>1, SearchStays
<1> QED BY <1>1, <1>3, <1>4, <1>5, GraphStays DEF CheckInv

(* Each step of _detect_cycles keeps its invariant, and is a step of the   *)
(* engine's search or changes nothing that the engine keeps.               *)
LEMMA CheckKeeps ==
  ASSUME CheckInv, [Next]_vars
  PROVE  CheckInv' /\ (C!TarjanNext \/ UNCHANGED C!tarjan)
BY RootKeeps, LookKeeps, NextEdgeKeeps, ReturnKeeps, JudgeKeeps, CheckRests DEF Next

(* Once all nodes are met, the components found are the classes of nodes   *)
(* that reach each other, so that the verdict is about the cycles.         *)
LEMMA JudgedRight == CheckInv => VerdictIsRight
<1> SUFFICES ASSUME CheckInv, verdict # "open"
             PROVE  /\ verdict = "passed" => Breakable
                    /\ verdict = "refused" => ~Breakable
  BY DEF VerdictIsRight
<1>1. /\ work = <<>> /\ \A n \in Nodes : index[n] # Unseen
      /\ verdict = "passed" <=>
            \A c \in DOMAIN comps : IsNontrivial(c) => HasCondition(c)
      /\ verdict \in {"passed", "refused"}
  BY DEF CheckInv, Judged, CheckTypeOK
<1>2. C!Found
  BY <1>1, CallsAreWork, NoneWaits, SameGraph DEF CheckInv, C!Found, Waits
<1>3. /\ \A n \in Nodes : C!InComp(n)
      /\ C!Strong
  BY <1>2, C!TarjanEnds, SameGraph DEF CheckInv
<1>4. \A c \in DOMAIN comps : comps[c] \in SUBSET Nodes /\ comps[c] # {}
  BY <1>3, Listed DEF CheckInv, CheckTypeOK, C!Strong
<1>5. ASSUME NEW c \in DOMAIN comps, NEW n \in comps[c]
      PROVE  /\ n \in Nodes
             /\ \A m \in Nodes : m \in comps[c] <=> SameLoop(n, m)
             /\ OnCycle(n) <=> IsNontrivial(c)
  <2>1. n \in Nodes
    BY <1>4
  <2>2. \A m \in Nodes : m \in comps[c] <=> SameLoop(n, m)
    BY <1>3, SameGraph DEF C!Strong, C!R, C!SameLoop
  <2>3. OnCycle(n) <=> IsNontrivial(c)
    <3> DEFINE S == comps[c]
    <3>1. /\ S \in SUBSET C!Nodes /\ n \in S /\ C!IsGraph(graph)
          /\ \A m \in C!Nodes : m \in S <=> C!SameLoop(n, m)
          /\ \A g \in GraphsToPlan : C!IsGraph(g)
      BY <1>4, <2>2, SameGraph DEF CheckInv
    <3>2. IsNontrivial(c) <=> \/ Cardinality(S) > 1
                              \/ \E e \in C!Edges : e.from \in S /\ e.to = e.from
      BY SameGraph DEF IsNontrivial
    <3> HIDE DEF S
    <3>3. C!OnCycle(n) <=> \/ C!Cardinality(S) > 1
                           \/ \E e \in C!Edges : e.from \in S /\ e.to = e.from
      BY <3>1, C!ClassOnCycle
    <3>4. C!Cardinality(S) = Cardinality(S)
      BY DEF C!Cardinality, Cardinality
    <3> QED BY <3>2, <3>3, <3>4, SameGraph
  <2> QED BY <2>1, <2>2, <2>3
<1>6. ASSUME verdict = "passed"  PROVE Breakable
  <2>1. SUFFICES ASSUME NEW n \in Nodes, OnCycle(n)
                 PROVE  \E m \in Nodes \cap graph.brancher : SameLoop(n, m)
    BY DEF Breakable
  <2>2. PICK c \in DOMAIN comps : n \in comps[c]
    BY <1>3 DEF C!InComp
  <2>3. comps[c] \cap graph.brancher # {}
    BY <2>1, <2>2, <1>1, <1>5, <1>6 DEF HasCondition
  <2> QED BY <2>2, <2>3, <1>4, <1>5
<1>7. ASSUME verdict = "refused"  PROVE ~Breakable
  <2>1. PICK c \in DOMAIN comps : IsNontrivial(c) /\ ~HasCondition(c)
    BY <1>1, <1>7
  <2>2. PICK n \in comps[c] : n \in Nodes /\ OnCycle(n)
    BY <2>1, <1>4, <1>5
  <2>3. \A m \in Nodes \cap graph.brancher : ~SameLoop(n, m)
    BY <2>1, <1>5 DEF HasCondition
  <2> QED BY <2>2, <2>3 DEF Breakable
<1> QED BY <1>6, <1>7

(* The engine of module GraphCheck is the one of module ComponentsProofs.  *)
LEMMA SameEngine ==
  /\ C!TarjanInit <=> Engine!TarjanInit
  /\ C!TarjanNext <=> Engine!TarjanNext
  /\ C!tarjan = Engine!tarjan
  /\ (UNCHANGED C!tarjan) <=> (UNCHANGED Engine!tarjan)
<1>1. /\ C!Nodes = Engine!Nodes /\ C!Edges = Engine!Edges /\ C!Unseen = Engine!Unseen
      /\ \A u : C!OutEdges(u) = Engine!OutEdges(u)
      /\ \A a, b : C!Least(a, b) = Engine!Least(a, b)
      /\ \A s, S, x : C!IsFirst(s, S, x) <=> Engine!IsFirst(s, S, x)
  BY DEF C!Nodes, C!Edges, C!NodesOf, C!EdgesOf, C!Unseen, C!OutEdges, C!Least, C!IsFirst,
         C!Place, Engine!Nodes, Engine!Edges, Engine!NodesOf, Engine!EdgesOf, Engine!Unseen,
         Engine!OutEdges, Engine!Least, Engine!IsFirst, Engine!Place
<1>2. C!TarjanInit <=> Engine!TarjanInit
  BY <1>1 DEF C!TarjanInit, Engine!TarjanInit
<1>3. C!StartRoot <=> Engine!StartRoot
  BY <1>1 DEF C!StartRoot, C!Enter, Engine!StartRoot, Engine!Enter
<1>4. C!Top = Engine!Top /\ C!Outer = Engine!Outer
  BY DEF C!Top, C!Outer, Engine!Top, Engine!Outer
<1>5. \A e : (C!Descend(e) <=> Engine!Descend(e))
  BY <1>1 DEF C!Descend, C!Enter, Engine!Descend, Engine!Enter
<1>6. \A e : (C!LowerLow(e) <=> Engine!LowerLow(e)) /\ (C!PassBy(e) <=> Engine!PassBy(e))
  BY <1>1 DEF C!LowerLow, Engine!LowerLow, C!PassBy, Engine!PassBy
<1>7. C!FollowEdge <=> Engine!FollowEdge
  BY <1>1, <1>4, <1>5, <1>6 DEF C!FollowEdge, Engine!FollowEdge
<1>8. \A v : C!Close(v) <=> Engine!Close(v)
  BY DEF C!Close, Engine!Close, C!Above, Engine!Above
<1>9. C!Return <=> Engine!Return
  BY <1>1, <1>4, <1>8 DEF C!Return, Engine!Return
<1> QED BY <1>2, <1>3, <1>7, <1>9 DEF C!TarjanNext, Engine!TarjanNext, C!tarjan, Engine!tarjan

-----------------------------------------------------------------------------
(* CheckInv is an invariant of the validator's check of cycles.            *)
THEOREM CheckInvHolds == Spec => []CheckInv
<1>1. Init => CheckInv
  BY CheckStarts, GraphsAssumption DEF Init
<1>2. CheckInv /\ [Next]_vars => CheckInv'
  BY CheckKeeps
<1> QED BY <1>1, <1>2, PTL DEF Spec

(* The validator passes a workflow when every cycle of it has a condition  *)
(* node that could leave it, and refuses it when some cycle has none.      *)
THEOREM VerdictIsRightHolds == Spec => []VerdictIsRight
BY CheckInvHolds, JudgedRight, PTL

(* The validator's loop over a list of nodes implements the recursive      *)
(* search of the engine, step by step.                                     *)
THEOREM ValidatorImplementsTheSearch == Spec => SearchesAsTheEngine
<1>1. Init => Engine!TarjanInit
  BY CheckStarts, SameEngine, GraphsAssumption DEF Init
<1>2. CheckInv /\ [Next]_vars => [Engine!TarjanNext]_(Engine!tarjan)
  BY CheckKeeps, SameEngine
<1> QED BY <1>1, <1>2, CheckInvHolds, PTL DEF Spec, SearchesAsTheEngine

-----------------------------------------------------------------------------
(* _detect_cycles comes to its end.                                        *)

(* What is left: what the engine's search has left, a look at the node on  *)
(* top after each step of it, and the verdict.                             *)
LooksLeft == IF at = "head" THEN 1 ELSE 0
VerdictLeft == IF verdict = "open" THEN 1 ELSE 0

CheckLeft == 2 * C!SearchLeft + LooksLeft + VerdictLeft

(* There is a first node to begin with, or a first edge to pass.           *)
CanCheck ==
    IF work = <<>>
      THEN \/ \A n \in Nodes : index[n] # Unseen
           \/ \E v \in Nodes : IsFirst(graph.nodes, {n \in Nodes : index[n] = Unseen}, v)
      ELSE at = "head" \/ Left = {} \/ \E e \in Left : IsFirst(graph.edges, Left, e)

(* What is left is a number.                                               *)
LEMMA CheckLeftIsNat ==
  ASSUME CheckInv
  PROVE  C!SearchLeft \in Nat /\ CheckLeft \in Nat
<1>1. C!SearchLeft \in Nat
  BY C!LeftIsNat, SameGraph DEF CheckInv, C!TarjanInv
<1> QED BY <1>1 DEF CheckLeft, LooksLeft, VerdictLeft

(* A step of the engine's search leaves less of it, and a look or the      *)
(* verdict leaves as much of the search, and itself no more.               *)
LEMMA CheckProceeds ==
  ASSUME CheckInv, CheckInv', Next
  PROVE  CheckLeft' < CheckLeft
<1>1. C!SearchLeft \in Nat
  BY CheckLeftIsNat
<1>2. CASE Root \/ NextEdge \/ Return
  <2>1. C!TarjanNext /\ graph' = graph /\ verdict' = verdict
    BY <1>2, RootKeeps, NextEdgeKeeps, ReturnKeeps DEF Root, NextEdge, Return
  <2>2. C!SearchLeft' \in Nat /\ C!SearchLeft' < C!SearchLeft
    BY <2>1, C!SearchProceeds, SameGraph DEF CheckInv
  <2>3. CheckLeft' = 2 * C!SearchLeft' + LooksLeft' + VerdictLeft /\ VerdictLeft \in {0, 1}
    BY <2>1 DEF CheckLeft, VerdictLeft
  <2>4. LooksLeft' <= LooksLeft + 1 /\ LooksLeft' \in {0, 1} /\ LooksLeft \in {0, 1}
    BY DEF LooksLeft
  <2> QED BY <1>1, <2>2, <2>3, <2>4 DEF CheckLeft
<1>3. CASE Look \/ Judge
  <2>1. (UNCHANGED C!tarjan) /\ graph' = graph
    BY <1>3, LookKeeps, JudgeKeeps DEF Look, Judge
  <2>2. C!SearchLeft' = C!SearchLeft
    BY <2>1, C!SearchRests, SameGraph
  <2>3. CASE Look
    <3>1. at = "head" /\ at' = "edges" /\ verdict' = verdict
      BY <2>3 DEF Look
    <3> QED BY <3>1, <2>2, <1>1 DEF CheckLeft, LooksLeft, VerdictLeft
  <2>4. CASE Judge
    <3>1. verdict = "open" /\ verdict' # "open" /\ at' = at
      BY <2>4 DEF Judge
    <3> QED BY <3>1, <2>2, <1>1 DEF CheckLeft, LooksLeft, VerdictLeft
  <2> QED BY <1>3, <2>3, <2>4
<1> QED BY <1>2, <1>3 DEF Next

(* The node or the edge that comes first exists.                           *)
LEMMA CheckGoesOn == CheckInv => CanCheck
<1> SUFFICES ASSUME CheckInv  PROVE CanCheck
  OBVIOUS
<1>1. /\ graph.nodes \in Seq(Nodes) /\ graph.edges \in Seq(Edges)
      /\ Nodes = {graph.nodes[i] : i \in DOMAIN graph.nodes}
      /\ Edges = {graph.edges[i] : i \in DOMAIN graph.edges}
  BY DEF CheckInv, IsGraph, Nodes, Edges, NodesOf, EdgesOf
<1>2. CASE work = <<>>
  <2> DEFINE S == {n \in Nodes : index[n] = Unseen}
  <2>1. S \in SUBSET Nodes
    OBVIOUS
  <2>2. S # {} => \E v \in S : IsFirst(graph.nodes, S, v)
    <3> HIDE DEF S
    <3> QED BY <2>1, <1>1, C!FirstExists, SameGraph
  <2> QED BY <1>2, <2>2 DEF CanCheck
<1>3. CASE work # <<>>
  <2>1. Left \in SUBSET Edges
    BY DEF Left, OutEdges
  <2>2. Left # {} => \E e \in Left : IsFirst(graph.edges, Left, e)
    BY <2>1, <1>1, C!FirstExists, SameGraph
  <2> QED BY <1>3, <2>2 DEF CanCheck
<1> QED BY <1>2, <1>3

(* The validator comes to a verdict on every workflow graph: each step     *)
(* leaves less to do, and until the verdict there is a step to take.       *)
THEOREM CheckingEnds ==
  /\ Spec => [](CheckLeft \in Nat)
  /\ Spec => [][CheckLeft' < CheckLeft]_vars
  /\ Spec => [](verdict = "open" => CanCheck)
<1>1. CheckInv => CheckLeft \in Nat
  BY CheckLeftIsNat
<1>2. CheckInv /\ CheckInv' /\ [Next]_vars => [CheckLeft' < CheckLeft]_vars
  BY CheckProceeds
<1>3. CheckInv => (verdict = "open" => CanCheck)
  BY CheckGoesOn
<1> QED BY <1>1, <1>2, <1>3, CheckInvHolds, PTL DEF Spec
=============================================================================
