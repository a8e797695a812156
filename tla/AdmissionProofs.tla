---------------------------- MODULE AdmissionProofs ----------------------------
(***************************************************************************)
(* The validator and the planner give one verdict: what one of them passes *)
(* the other does not refuse, for every workflow graph.  Either runs as it *)
(* does alone, each verdict is right of the cycles of the graph, and the   *)
(* graph is the same.                                                      *)
(***************************************************************************)
EXTENDS Admission, SchedulerProofs

VP == INSTANCE GraphCheckProofs
          WITH index <- vIndex, low <- vLow, counter <- vCounter,
               stack <- vStack, comps <- vComps, work <- vWork, at <- vAt

-----------------------------------------------------------------------------
(* The validator, with its proofs, is the validator of module Admission,   *)
(* and looks at the graph of the planner.                                  *)
LEMMA SameValidator ==
  /\ Validator!CheckInit /\ graph \in GraphsToPlan => VP!Init
  /\ Validator!Next => VP!Next
  /\ VP!Breakable <=> Breakable
  /\ VP!VerdictIsRight <=> Validator!VerdictIsRight
  /\ \A g \in GraphsToPlan : VP!IsGraph(g)
<1>1. /\ VP!Nodes = Nodes /\ VP!Edges = Edges /\ VP!Unseen = Unseen
      /\ \A u : VP!OutEdges(u) = OutEdges(u)
      /\ \A a, b : VP!Least(a, b) = Least(a, b)
      /\ \A s, S, x : VP!IsFirst(s, S, x) <=> IsFirst(s, S, x)
  BY DEF VP!Nodes, VP!Edges, VP!NodesOf, VP!EdgesOf, VP!Unseen, VP!OutEdges, VP!Least,
         VP!IsFirst, VP!Place, Nodes, Edges, NodesOf, EdgesOf, Unseen, OutEdges, Least,
         IsFirst, Place
<1>2. /\ Validator!Nodes = Nodes /\ Validator!Edges = Edges /\ Validator!Unseen = Unseen
      /\ \A u : Validator!OutEdges(u) = OutEdges(u)
      /\ \A a, b : Validator!Least(a, b) = Least(a, b)
      /\ \A s, S, x : Validator!IsFirst(s, S, x) <=> IsFirst(s, S, x)
  BY DEF Validator!Nodes, Validator!Edges, Validator!NodesOf, Validator!EdgesOf,
         Validator!Unseen, Validator!OutEdges, Validator!Least, Validator!IsFirst,
         Validator!Place, Nodes, Edges, NodesOf, EdgesOf, Unseen, OutEdges, Least, IsFirst,
         Place
<1>3. VP!Breakable <=> Breakable
  <2>1. \A a, b : VP!SameLoop(a, b) <=> SameLoop(a, b)
    BY <1>1 DEF VP!SameLoop, VP!Reaches, VP!IsClosed, SameLoop, Reaches, IsClosed
  <2>2. \A n : VP!OnCycle(n) <=> OnCycle(n)
    BY <1>1, <2>1 DEF VP!OnCycle, OnCycle
  <2> QED BY <1>1, <2>1, <2>2 DEF VP!Breakable, Breakable
<1>4. \A g : VP!IsGraph(g) <=> IsGraph(g)
  BY DEF VP!IsGraph, VP!NodesOf, VP!EdgesOf, IsGraph, NodesOf, EdgesOf
<1>5. Validator!CheckInit /\ graph \in GraphsToPlan => VP!Init
  BY <1>1, <1>2 DEF Validator!CheckInit, VP!Init, VP!CheckInit
<1>6. /\ Validator!Last = VP!Last /\ (Validator!Searched <=> VP!Searched)
      /\ Validator!found = VP!found /\ ((UNCHANGED Validator!found) <=> UNCHANGED VP!found)
      /\ Validator!Below = VP!Below /\ Validator!Left = VP!Left
      /\ \A v : Validator!Item(v) = VP!Item(v)
      /\ \A e : Validator!Pass(e) = VP!Pass(e)
  BY <1>1, <1>2
     DEF Validator!Last, VP!Last, Validator!Searched, VP!Searched, Validator!found, VP!found,
         Validator!Below, VP!Below, Validator!Left, VP!Left, Validator!Item, VP!Item,
         Validator!Pass, VP!Pass
<1>7. Validator!Root => VP!Root
  BY <1>1, <1>2, <1>6 DEF Validator!Root, VP!Root
<1>8. Validator!Look => VP!Look
  BY <1>6 DEF Validator!Look, VP!Look, Validator!Meet, VP!Meet
<1>9. Validator!NextEdge => VP!NextEdge
  <2>1. \A e : /\ Validator!Descend(e) => VP!Descend(e)
               /\ Validator!LowerLow(e) => VP!LowerLow(e)
               /\ Validator!PassBy(e) => VP!PassBy(e)
    BY <1>1, <1>2, <1>6 DEF Validator!Descend, VP!Descend, Validator!LowerLow, VP!LowerLow,
                            Validator!PassBy, VP!PassBy
  <2> QED BY <1>1, <1>2, <1>6, <2>1 DEF Validator!NextEdge, VP!NextEdge
<1>10. Validator!Return => VP!Return
  <2>1. \A v : Validator!Close(v) <=> VP!Close(v)
    BY DEF Validator!Close, VP!Close, Validator!Above, VP!Above
  <2> QED BY <1>1, <1>2, <1>6, <2>1 DEF Validator!Return, VP!Return
<1>11. Validator!Judge => VP!Judge
  <2>1. \A c : /\ Validator!IsNontrivial(c) <=> VP!IsNontrivial(c)
               /\ Validator!HasCondition(c) <=> VP!HasCondition(c)
    <3>1. \A S : Validator!Cardinality(S) = VP!Cardinality(S)
      BY DEF Validator!Cardinality, VP!Cardinality
    <3> QED BY <3>1, <1>1, <1>2 DEF Validator!IsNontrivial, VP!IsNontrivial,
                                    Validator!HasCondition, VP!HasCondition
  <2> QED BY <1>1, <1>2, <1>6, <2>1 DEF Validator!Judge, VP!Judge
<1>12. Validator!Next => VP!Next
  BY <1>7, <1>8, <1>9, <1>10, <1>11 DEF Validator!Next, VP!Next
<1>13. VP!VerdictIsRight <=> Validator!VerdictIsRight
  <2>1. \A a, b : Validator!SameLoop(a, b) <=> VP!SameLoop(a, b)
    BY <1>1, <1>2 DEF Validator!SameLoop, Validator!Reaches, Validator!IsClosed,
                      VP!SameLoop, VP!Reaches, VP!IsClosed
  <2>2. \A n : Validator!OnCycle(n) <=> VP!OnCycle(n)
    BY <1>1, <1>2, <2>1 DEF Validator!OnCycle, VP!OnCycle
  <2>3. Validator!Breakable <=> VP!Breakable
    BY <1>1, <1>2, <2>1, <2>2 DEF Validator!Breakable, VP!Breakable
  <2> QED BY <2>3 DEF VP!VerdictIsRight, Validator!VerdictIsRight
<1> QED BY <1>3, <1>4, <1>5, <1>12, <1>13, GraphsAssumption

(* The planner leaves the graph alone.                                     *)
LEMMA PlanningKeepsTheGraph == Next => UNCHANGED graph
BY DEF Next, FindComponents, Refuse, Acyclic, ScheduleLevel, ScheduleEnds, Condense,
       EmitSingles, NextRank, PlanEnds, BuildLoop, SearchStart, SearchEdge, SearchReturn,
       SearchEnds, UnfoldLevel, EmitLoop

(* Next to the validator the planner plans as it does alone: what holds of *)
(* every plan holds of the plan of a validated draft.                      *)
THEOREM PlansAsAlone == AdmissionSpec => Spec
<1>1. AdmissionInit => Init
  BY DEF AdmissionInit
<1>2. [Validate \/ Execute]_<<vars, validator>> => [Next]_vars
  <2>1. Validator!Next => UNCHANGED graph
    BY DEF Validator!Next, Validator!Root, Validator!Look, Validator!NextEdge,
           Validator!Return, Validator!Judge
  <2>2. Validate => UNCHANGED vars
    BY <2>1 DEF Validate, planner, vars
  <2> QED BY <2>2 DEF Execute
<1> QED BY <1>1, <1>2, PTL DEF AdmissionSpec, Spec

(* And the validator checks as it does alone.                              *)
THEOREM ValidatesAsAlone == AdmissionSpec => VP!Spec
<1>1. AdmissionInit => VP!Init
  BY SameValidator DEF AdmissionInit, Init
<1>2. [Validate \/ Execute]_<<vars, validator>> => [VP!Next]_(VP!vars)
  <2>1. Execute => UNCHANGED VP!vars
    BY PlanningKeepsTheGraph DEF Execute, validator, VP!vars, VP!found
  <2>2. UNCHANGED <<vars, validator>> => UNCHANGED VP!vars
    BY DEF vars, validator, VP!vars, VP!found
  <2> QED BY <2>1, <2>2, SameValidator DEF Validate
<1> QED BY <1>1, <1>2, PTL DEF AdmissionSpec, VP!Spec

(* No plan is made before the validator has spoken.                        *)
LEMMA ValidatorGoesFirst == AdmissionSpec => [](verdict = "open" => phase = "components")
<1> DEFINE First == verdict = "open" => phase = "components"
<1>1. AdmissionInit => First
  BY DEF AdmissionInit, Init
<1>2. First /\ [Validate \/ Execute]_<<vars, validator>> => First'
  <2>1. Validator!Next => verdict = "open"
    BY DEF Validator!Next, Validator!Root, Validator!Look, Validator!NextEdge,
           Validator!Return, Validator!Judge, Validator!Searched
  <2>2. First /\ Validate => First'
    BY <2>1 DEF Validate, planner
  <2>3. First /\ Execute => First'
    BY DEF Execute, validator
  <2>4. First /\ UNCHANGED <<vars, validator>> => First'
    BY DEF vars, validator
  <2> QED BY <2>2, <2>3, <2>4
<1> QED BY <1>1, <1>2, PTL DEF AdmissionSpec

(* A draft that the validator passed is never refused by plan(), and plan()*)
(* makes no plan of one that the validator refused; both are right of the  *)
(* cycles of every workflow graph (_detect_cycles).                        *)
THEOREM VerdictsAgreeHolds == AdmissionSpec => []VerdictsAgree
<1>1. AdmissionSpec => []RejectedIffNoExit
  BY PlansAsAlone, RejectedIffNoExitHolds, PTL
<1>2. AdmissionSpec => []VP!VerdictIsRight
  <2>1. VP!Spec => []VP!VerdictIsRight
    BY VP!VerdictIsRightHolds, SameValidator
  <2> QED BY <2>1, ValidatesAsAlone, PTL
<1>3. AdmissionSpec => []VP!CheckInv
  <2>1. VP!Spec => []VP!CheckInv
    BY VP!CheckInvHolds, SameValidator
  <2> QED BY <2>1, ValidatesAsAlone, PTL
<1>4. /\ RejectedIffNoExit /\ VP!VerdictIsRight /\ VP!CheckInv
      /\ verdict = "open" => phase = "components"
      => VerdictsAgree
  <2>1. VP!CheckInv => verdict \in {"open", "passed", "refused"}
    BY DEF VP!CheckInv, VP!CheckTypeOK
  <2> QED BY <2>1, SameValidator DEF RejectedIffNoExit, VP!VerdictIsRight, VerdictsAgree
<1> QED BY <1>1, <1>2, <1>3, <1>4, ValidatorGoesFirst, PTL
=============================================================================
