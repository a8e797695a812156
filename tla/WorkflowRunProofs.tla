-------------------------- MODULE WorkflowRunProofs --------------------------
(***************************************************************************)
(* Proofs about WorkflowRun, for every set of workflows whose plans have   *)
(* the shape PlansAssumption asks for, every set of selectors and every    *)
(* bound.                                                                  *)
(*                                                                         *)
(* What a resume finds, what a failure leaves and how often a loop goes    *)
(* round are sides of one fact: outside the body of the loop that is       *)
(* running the row and the memory agree, and of that body the row holds    *)
(* what it held before the loop, which is not all of it.  The invariant    *)
(* says this, and how far the current round is.                            *)
(***************************************************************************)
EXTENDS WorkflowRun, TLAPS

(* The most results that one attempt gives a node of step s.               *)
Bound(s) == IF s.kind = "loop" THEN AtLeastOne(s.max) ELSE 1

Finished(r) == r.status \in {"succeeded", "skipped"}

(* In R all nodes of step s have a result.  Attempts that failed may have  *)
(* left results of some nodes of a step that is not done.                  *)
DoneIn(R, s) == \A n \in StepNodes(s) : Finished(R[n])

(* In R no node of step s has a result.                                    *)
FreshIn(R, s) == \A n \in StepNodes(s) : R[n] = NoResult

(* The nodes of the loop that is running.                                  *)
Body == IF level = 0 THEN {} ELSE StepNodes(Steps[step])

(* A node without a result has no output and was counted never.            *)
Known == \A n \in Nodes : /\ results[n].status = "none" => results[n] = NoResult
                          /\ saved[n].status = "none" => saved[n] = NoResult

(* The row is what the worker has in memory, but for the running loop;     *)
(* what is still to run and was not restored has no result.                *)
Agreement ==
    status = "running" =>
        /\ \A n \in Nodes \ Body : saved[n] = results[n]
        /\ \A n \in done : Finished(saved[n])
        /\ \A i \in DOMAIN Steps : i >= step =>
              \A n \in StepNodes(Steps[i]) : n \in done \/ saved[n] = NoResult

(* How many results level k of the running loop has more than the row.     *)
Ahead(k) == IF k < level THEN iteration + 1 ELSE iteration

(* The row does not have all of the running loop.  Its nodes have          *)
(* succeeded in every round so far.                                        *)
RoundSoFar ==
    status = "running" /\ level > 0 =>
        /\ Steps[step].kind = "loop"
        /\ iteration + 1 <= Bound(Steps[step])
        /\ ~DoneIn(saved, Steps[step])
        /\ \A k \in DOMAIN Steps[step].levels : \A n \in Steps[step].levels[k] :
              /\ results[n].count = saved[n].count + Ahead(k)
              /\ IF Ahead(k) = 0 THEN results[n] = saved[n]
                                 ELSE results[n].status = "succeeded"

(* Reachability and outputs follow from the results.                       *)
Context ==
    status = "running" =>
        \A n \in Nodes : /\ reachable[n] = (results[n].status = "succeeded")
                         /\ output[n] = results[n].output

(* A step that is done in the row is in memory, or was when the worker     *)
(* died.                                                                   *)
SavedIsKept ==
    \A i \in DOMAIN Steps : DoneIn(saved, Steps[i]) =>
        \A n \in StepNodes(Steps[i]) : results[n] = saved[n]

(* Every attempt but the last that gave a step results was ended by a      *)
(* failure; a step that is not done had all of its results from those.     *)
Bounded ==
    \A i \in DOMAIN Steps : \A n \in StepNodes(Steps[i]) :
        /\ results[n].count <= (1 + failures) * Bound(Steps[i])
        /\ saved[n].count <= (1 + failures) * Bound(Steps[i])
        /\ ~DoneIn(saved, Steps[i]) => saved[n].count <= failures * Bound(Steps[i])

(* What SkipsExactlyDeadBranches says of a completed run, for the results  *)
(* that R holds of one step: the nodes of s that ran have no predecessor   *)
(* or a live edge leads to them, and nothing leads to those skipped.  F    *)
(* holds the exit edges that guards have forced.                           *)
LiveIn(R, e) == R[e.from].status = "succeeded" /\ IsEdgeLive(e, R[e.from].output)

Reached(R, n) == Incoming(n) = {} \/ \E e \in Incoming(n) : LiveIn(R, e)

Enabled(R, n, F) == Reached(R, n) \/ Incoming(n) \cap F # {}

DecidingOf(s) == IF s.kind = "loop" THEN s.levels[1] ELSE StepNodes(s)

DecidedIn(R, s, F) ==
    /\ \A n \in DecidingOf(s) :
          /\ R[n].status = "succeeded" => Enabled(R, n, F)
          /\ R[n].status = "skipped" => ~Reached(R, n)
    /\ s.kind = "loop" =>
          \/ \A n \in StepNodes(s) : R[n].status # "skipped"
          \/ \A n \in StepNodes(s) : R[n].status = "skipped"

(* The row holds steps from the start of the plan, all done but the last   *)
(* of them, each rightly decided.                                          *)
RowInOrder ==
    \A i \in DOMAIN Steps : ~FreshIn(saved, Steps[i]) =>
        /\ DecidedIn(saved, Steps[i], stopped)
        /\ \A j \in DOMAIN Steps : j < i => DoneIn(saved, Steps[j])

(* The steps before this one are in the row, all of them in the end.       *)
EarlierSaved ==
    /\ status = "running" =>
          \A i \in DOMAIN Steps : i < step => DoneIn(saved, Steps[i])
    /\ status = "completed" =>
          saved = results /\ \A i \in DOMAIN Steps : DoneIn(saved, Steps[i])

(* A loop that is running was reached.                                     *)
LoopReached ==
    status = "running" /\ level > 0 =>
        \A n \in Steps[step].levels[1] : Enabled(results, n, stopped)

(* A node that succeeded has an output.                                    *)
OutputsKnown == \A n \in Nodes :
    /\ results[n].status = "succeeded" => results[n].output # Nothing
    /\ saved[n].status = "succeeded" => saved[n].output # Nothing

Order == RowInOrder /\ EarlierSaved /\ LoopReached /\ OutputsKnown

TypeInv == wf \in Workflows /\ TypeOK
IInv == /\ TypeInv /\ Known /\ Agreement /\ RoundSoFar /\ Context
        /\ SavedIsKept /\ Bounded

-----------------------------------------------------------------------------
(* The plan.                                                               *)

LEMMA StepFacts ==
    ASSUME wf \in Workflows, NEW i \in DOMAIN Steps
    PROVE  /\ Steps[i].kind \in {"level", "loop"}
           /\ Steps[i].levels \in Seq(SUBSET Nodes)
           /\ Steps[i].levels # <<>>
           /\ Steps[i].exit \subseteq wf.edges
           /\ Steps[i].max \in Int
           /\ StepNodes(Steps[i]) \subseteq Nodes
<1>1. WellPlanned(wf)
    BY PlansAssumption
<1>2. Steps[i] \in StepRecords(wf)
    BY <1>1 DEF WellPlanned, Steps
<1>3. StepNodes(Steps[i]) \subseteq Nodes
    BY <1>1 DEF WellPlanned, Steps, Nodes
<1> QED
    BY <1>1, <1>2, <1>3 DEF WellPlanned, StepRecords, Steps, Nodes

LEMMA StepsAreSeq ==
    ASSUME wf \in Workflows
    PROVE  /\ Len(Steps) \in Nat
           /\ DOMAIN Steps = 1..Len(Steps)
<1>1. Steps \in Seq(StepRecords(wf))
    BY PlansAssumption DEF WellPlanned, Steps
<1> QED
    BY <1>1

LEMMA StepsDisjoint ==
    ASSUME wf \in Workflows, NEW i \in DOMAIN Steps, NEW j \in DOMAIN Steps,
           i # j, NEW n \in StepNodes(Steps[i])
    PROVE  n \notin StepNodes(Steps[j])
BY PlansAssumption DEF WellPlanned, Steps

LEMMA LevelsDisjoint ==
    ASSUME wf \in Workflows, NEW i \in DOMAIN Steps,
           NEW k \in DOMAIN Steps[i].levels, NEW l \in DOMAIN Steps[i].levels,
           k # l, NEW n \in Steps[i].levels[k]
    PROVE  n \notin Steps[i].levels[l]
BY PlansAssumption DEF WellPlanned, Steps

LEMMA LevelFacts ==
    ASSUME wf \in Workflows, NEW i \in DOMAIN Steps
    PROVE  /\ Len(Steps[i].levels) \in Nat \ {0}
           /\ DOMAIN Steps[i].levels = 1..Len(Steps[i].levels)
           /\ \A k \in DOMAIN Steps[i].levels :
                 /\ Steps[i].levels[k] \subseteq StepNodes(Steps[i])
                 /\ Steps[i].levels[k] \subseteq Nodes
<1>1. Steps[i].levels \in Seq(SUBSET Nodes) /\ Steps[i].levels # <<>>
    BY StepFacts
<1>2. \A k \in DOMAIN Steps[i].levels :
          Steps[i].levels[k] \subseteq StepNodes(Steps[i])
    BY DEF StepNodes
<1> QED
    BY <1>1, <1>2

LEMMA EveryNodePlanned ==
    ASSUME wf \in Workflows, NEW n \in Nodes
    PROVE  \E i \in DOMAIN Steps : n \in StepNodes(Steps[i])
BY PlansAssumption DEF WellPlanned, Steps, Nodes

LEMMA BoundFacts ==
    ASSUME wf \in Workflows, NEW i \in DOMAIN Steps
    PROVE  /\ Bound(Steps[i]) \in Nat \ {0}
           /\ Steps[i].kind = "loop" => Steps[i].max <= Bound(Steps[i])
BY StepFacts DEF Bound, AtLeastOne

(* How many results a step may have grows by its bound with a failure.     *)
LEMMA BoundGrows ==
    ASSUME NEW a \in Nat, NEW b \in Nat
    PROVE  /\ a * b \in Nat
           /\ (1 + a) * b = a * b + b
           /\ (1 + (a + 1)) * b = (1 + a) * b + b
OBVIOUS

-----------------------------------------------------------------------------
(* The results of a level.                                                 *)

LEMMA OutcomeFacts ==
    ASSUME NEW n, NEW r \in Outcomes(n)
    PROVE  /\ r.status = "succeeded"
           /\ r.count = results[n].count + 1
           /\ r.output \in Selectors \cup {Plain}
           /\ r.output # Nothing
           /\ \E o, c : r = [status |-> "succeeded", output |-> o, count |-> c]
<1>1. OutputsOf(n) \subseteq Selectors \cup {Plain}
    BY DEF OutputsOf
<1>2. Nothing \notin Selectors \cup {Plain}
    BY SelectorsAssumption DEF Plain, Nothing
<1>3. PICK o \in OutputsOf(n) :
            r = [status |-> "succeeded", output |-> o,
                 count |-> results[n].count + 1]
    BY DEF Outcomes
<1> QED
    BY <1>1, <1>2, <1>3

LEMMA LevelResultsAre ==
    ASSUME NEW run, NEW skip, NEW f \in LevelResults(run, skip)
    PROVE  /\ DOMAIN f = run \cup skip
           /\ \A n \in run : f[n] \in Outcomes(n)
<1> DEFINE S == UNION {Outcomes(n) : n \in run}
                \cup {Skipped(results[n]) : n \in skip}
<1>1. /\ f \in [run \cup skip -> S]
      /\ \A n \in run : f[n] \in Outcomes(n)
    BY Zenon DEF LevelResults
<1> HIDE DEF S
<1> QED
    BY <1>1

LEMMA RanResult ==
    ASSUME NEW run, NEW skip, NEW f \in LevelResults(run, skip), NEW n \in run
    PROVE  /\ f[n].status = "succeeded"
           /\ f[n].count = results[n].count + 1
           /\ f[n].output # Nothing
BY LevelResultsAre, OutcomeFacts

LEMMA SkippedResult ==
    ASSUME NEW run, NEW skip, NEW f \in LevelResults(run, skip), NEW n \in skip,
           results[n] \in Results
    PROVE  /\ f[n].status = "skipped"
           /\ f[n].output = results[n].output
           /\ f[n].count = results[n].count + 1
<1>1. f[n] = Skipped(results[n])
    BY Zenon DEF LevelResults
<1> QED
    BY <1>1 DEF Skipped, Results

LEMMA ResultsTyped ==
    ASSUME NEW run, NEW skip, NEW f \in LevelResults(run, skip),
           results \in [Nodes -> Results], run \cup skip \subseteq Nodes
    PROVE  \A n \in DOMAIN f : f[n] \in Results
<1>1. \A n \in run \cup skip : results[n].count + 1 \in Nat
    BY DEF Results
<1>2. ASSUME NEW n \in skip PROVE f[n] \in Results
  <2>1. f[n] = Skipped(results[n])
    BY Zenon DEF LevelResults
  <2>2. results[n] \in Results /\ results[n].count + 1 \in Nat
    BY <1>1
  <2> QED
    BY <2>1, <2>2 DEF Skipped, Results
<1>3. ASSUME NEW n \in run PROVE f[n] \in Results
  <2>1. f[n] \in Outcomes(n)
    BY LevelResultsAre
  <2>2. PICK o, c : f[n] = [status |-> "succeeded", output |-> o, count |-> c]
    BY <2>1, OutcomeFacts
  <2>3. /\ f[n].count = results[n].count + 1
        /\ f[n].output \in Selectors \cup {Plain, Nothing}
    BY <2>1, OutcomeFacts
  <2> QED
    BY <1>1, <2>2, <2>3 DEF Results
<1>4. DOMAIN f = run \cup skip
    BY LevelResultsAre
<1> QED
    BY <1>2, <1>3, <1>4

LEMMA RecordAt ==
    ASSUME NEW f, NEW run, Record(f, run), NEW n \in Nodes
    PROVE  /\ results'[n] = IF n \in DOMAIN f THEN f[n] ELSE results[n]
           /\ reachable'[n] = IF n \in DOMAIN f THEN n \in run ELSE reachable[n]
           /\ output'[n] = IF n \in DOMAIN f THEN f[n].output ELSE output[n]
BY DEF Record

LEMMA RecordTyped ==
    ASSUME TypeInv, NEW run, NEW good, NEW skip, good \cup skip \subseteq Nodes,
           NEW f \in LevelResults(good, skip), Record(f, run)
    PROVE  /\ results' \in [Nodes -> Results]
           /\ reachable' \in [Nodes -> BOOLEAN]
           /\ output' \in [Nodes -> Selectors \cup {Plain, Nothing}]
<1>1. \A n \in DOMAIN f : f[n] \in Results
    BY ResultsTyped DEF TypeInv, TypeOK
<1>2. \A n \in DOMAIN f : f[n].output \in Selectors \cup {Plain, Nothing}
    BY <1>1 DEF Results
<1>3. results' \in [Nodes -> Results]
    BY <1>1 DEF TypeInv, TypeOK, Record
<1>4. output' \in [Nodes -> Selectors \cup {Plain, Nothing}]
    BY <1>2 DEF TypeInv, TypeOK, Record
<1>5. reachable' \in [Nodes -> BOOLEAN]
  <2>1. \A n \in Nodes : reachable[n] \in BOOLEAN
    BY DEF TypeInv, TypeOK
  <2>2. ASSUME NEW n \in Nodes
        PROVE (IF n \in DOMAIN f THEN n \in run ELSE reachable[n]) \in BOOLEAN
    <3>1. CASE n \in DOMAIN f
      <4>1. (n \in run) \in BOOLEAN
        OBVIOUS
      <4> QED
        BY <3>1, <4>1
    <3>2. CASE n \notin DOMAIN f
      BY <2>1, <3>2
    <3> QED
      BY <3>1, <3>2
  <2> QED
    BY <2>2, Zenon DEF Record
<1> QED
    BY <1>3, <1>4, <1>5

(* What a level leaves of each node: the nodes of good succeeded, those of *)
(* skip were skipped, the others have what they had.                       *)
LEMMA RecordFacts ==
    ASSUME TypeInv, NEW run, NEW good, NEW skip, good \cup skip \subseteq Nodes,
           NEW f \in LevelResults(good, skip), Record(f, run), NEW n \in Nodes
    PROVE  /\ n \in good => /\ results'[n].status = "succeeded"
                            /\ results'[n].count = results[n].count + 1
                            /\ results'[n].output # Nothing
           /\ n \in skip => /\ results'[n].status = "skipped"
                            /\ results'[n].count = results[n].count + 1
                            /\ results'[n].output = results[n].output
           /\ n \in good \cup skip => /\ reachable'[n] = (n \in run)
                                      /\ output'[n] = results'[n].output
           /\ n \notin good \cup skip => /\ results'[n] = results[n]
                                         /\ reachable'[n] = reachable[n]
                                         /\ output'[n] = output[n]
<1>1. DOMAIN f = good \cup skip
    BY LevelResultsAre
<1>2. results[n] \in Results
    BY DEF TypeInv, TypeOK
<1>3. CASE n \in good
  <2>1. results'[n] = f[n] /\ reachable'[n] = (n \in run) /\ output'[n] = f[n].output
    BY <1>1, <1>3, RecordAt
  <2>2. /\ f[n].status = "succeeded"
        /\ f[n].count = results[n].count + 1
        /\ f[n].output # Nothing
    BY <1>3, RanResult
  <2>3. n \in skip => f[n].status = "skipped"
    BY <1>2, SkippedResult
  <2> QED
    BY <1>3, <2>1, <2>2, <2>3
<1>4. CASE n \in skip
  <2>1. results'[n] = f[n] /\ reachable'[n] = (n \in run) /\ output'[n] = f[n].output
    BY <1>1, <1>4, RecordAt
  <2>2. /\ f[n].status = "skipped"
        /\ f[n].count = results[n].count + 1
        /\ f[n].output = results[n].output
    BY <1>2, <1>4, SkippedResult
  <2>3. n \in good => f[n].status = "succeeded"
    BY RanResult
  <2> QED
    BY <1>4, <2>1, <2>2, <2>3
<1>5. CASE n \notin good \cup skip
    BY <1>1, <1>5, RecordAt
<1> QED
    BY <1>3, <1>4, <1>5

-----------------------------------------------------------------------------
(* Type correctness.                                                       *)

LEMMA InitTypeInv == Init => TypeInv
<1> SUFFICES ASSUME Init PROVE TypeInv
    OBVIOUS
<1>1. wf \in Workflows
    BY DEF Init
<1>2. Len(Steps) \in Nat
    BY <1>1, StepsAreSeq
<1>3. NoResult \in Results
    BY DEF NoResult, Results
<1> QED
    BY <1>1, <1>2, <1>3, MaxMishapsIsNat DEF Init, TypeInv, TypeOK

(* What a step that ends changes: the next one is due.                     *)
LEMMA TypeInvOfWork ==
    ASSUME TypeInv, UNCHANGED <<wf, done, mishaps>>, failures' \in Nat,
           status' \in {"running", "failed"},
           step' \in 1..(Len(Steps) + 1), level' \in Nat, iteration' \in Nat,
           level' > 0 => step' <= Len(Steps) /\ level' \in DOMAIN Steps[step'].levels,
           results' \in [Nodes -> Results], saved' \in [Nodes -> Results],
           reachable' \in [Nodes -> BOOLEAN],
           output' \in [Nodes -> Selectors \cup {Plain, Nothing}],
           forced' \subseteq stopped', stopped' \subseteq wf.edges
    PROVE  TypeInv'
BY DEF TypeInv, TypeOK, Nodes, Steps

LEMMA NextTypeInv == TypeInv /\ [Next]_vars => TypeInv'
<1> SUFFICES ASSUME TypeInv, [Next]_vars PROVE TypeInv'
    OBVIOUS
<1>0. /\ Len(Steps) \in Nat /\ DOMAIN Steps = 1..Len(Steps)
      /\ step \in 1..(Len(Steps) + 1)
    BY StepsAreSeq DEF TypeInv, TypeOK
<1>1. CASE SeePause
    BY <1>0, <1>1, MaxMishapsIsNat
       DEF TypeInv, TypeOK, SeePause, AtBoundary, Mishap, work, history, Nodes, Steps
<1>2. CASE SkipStep
    BY <1>0, <1>2 DEF TypeInv, TypeOK, SkipStep, AtBoundary, NextStep, history,
                      Nodes, Steps
<1>3. CASE RunLevel
  <2> DEFINE nodes == StepNodes(Steps[step])
             run == {n \in nodes : IsReachable(n)}
             skip == nodes \ run
  <2>1. PICK fail \in SUBSET run : \E f \in LevelResults(run \ fail, skip) :
          /\ Record(f, run)
          /\ \/ fail # {} /\ MarkFailed
             \/ /\ NextStep
                /\ saved' = results'
                /\ UNCHANGED <<status, forced, history>>
    BY <1>3 DEF RunLevel
  <2>2. PICK f \in LevelResults(run \ fail, skip) :
          /\ Record(f, run)
          /\ \/ MarkFailed
             \/ /\ NextStep
                /\ saved' = results'
                /\ UNCHANGED <<status, forced, history>>
    BY <2>1
  <2>3. step \in DOMAIN Steps
    BY <1>0, <1>3 DEF RunLevel, AtStep
  <2>4. (run \ fail) \cup skip \subseteq Nodes
    BY <2>3, StepFacts DEF TypeInv
  <2>5. /\ results' \in [Nodes -> Results]
        /\ reachable' \in [Nodes -> BOOLEAN]
        /\ output' \in [Nodes -> Selectors \cup {Plain, Nothing}]
    <3> DEFINE good == run \ fail
    <3>1. good \cup skip \subseteq Nodes /\ f \in LevelResults(good, skip)
      BY <2>4
    <3> HIDE DEF run, nodes, good, skip
    <3> QED
      BY <2>2, <3>1, RecordTyped
  <2>6. UNCHANGED <<wf, done, mishaps>> /\ status = "running" /\ level = 0
    BY <1>3 DEF RunLevel, AtStep, AtBoundary
  <2>7. /\ forced \subseteq stopped /\ stopped \subseteq wf.edges
        /\ iteration \in Nat /\ failures \in Nat
    BY DEF TypeInv, TypeOK
  <2>8. CASE MarkFailed
    BY <1>0, <2>5, <2>6, <2>7, <2>8, TypeInvOfWork DEF MarkFailed
  <2>9. CASE NextStep /\ saved' = results' /\ UNCHANGED <<status, forced, history>>
    BY <1>0, <2>3, <2>5, <2>6, <2>7, <2>9, TypeInvOfWork DEF NextStep, history
  <2> QED
    BY <2>2, <2>8, <2>9
<1>4. CASE SkipLoop
  <2> DEFINE nodes == StepNodes(Steps[step])
  <2>1. PICK f \in LevelResults({}, nodes) : Record(f, {})
    BY <1>4 DEF SkipLoop
  <2>2. step \in DOMAIN Steps
    BY <1>0, <1>4 DEF SkipLoop, AtStep
  <2>3. {} \cup nodes \subseteq Nodes
    BY <2>2, StepFacts DEF TypeInv
  <2> HIDE DEF nodes
  <2>4. /\ results' \in [Nodes -> Results]
        /\ reachable' \in [Nodes -> BOOLEAN]
        /\ output' \in [Nodes -> Selectors \cup {Plain, Nothing}]
    BY <2>1, <2>3, RecordTyped
  <2>5. /\ UNCHANGED <<wf, done, mishaps, status, forced, stopped, failures>>
        /\ status = "running" /\ NextStep /\ saved' = results'
    BY <1>4 DEF SkipLoop, AtStep, AtBoundary, history
  <2>6. forced \subseteq stopped /\ stopped \subseteq wf.edges /\ failures \in Nat
    BY DEF TypeInv, TypeOK
  <2> QED
    BY <1>0, <2>2, <2>4, <2>5, <2>6, TypeInvOfWork DEF NextStep
<1>5. CASE EnterLoop
  <2>1. step \in DOMAIN Steps /\ 1 \in DOMAIN Steps[step].levels
    BY <1>0, <1>5, LevelFacts DEF EnterLoop, AtStep, TypeInv
  <2> QED
    BY <1>0, <1>5, <2>1 DEF TypeInv, TypeOK, EnterLoop, AtStep, AtBoundary,
                            history, Nodes, Steps
<1>6. CASE RunBodyLevel
  <2> DEFINE loop == Steps[step]
             nodes == loop.levels[level]
  <2>1. PICK fail \in SUBSET nodes : \E f \in LevelResults(nodes \ fail, {}) :
          /\ Record(f, nodes)
          /\ \/ MarkFailed
             \/ /\ level < Len(loop.levels)
                /\ level' = level + 1
                /\ UNCHANGED <<status, step, iteration, saved, forced, stopped, failures>>
             \/ /\ NextRound
                /\ UNCHANGED <<status, saved, forced, stopped, failures>>
             \/ /\ forced' = forced \cup loop.exit
                /\ stopped' = stopped \cup loop.exit
                /\ NextStep
                /\ saved' = results'
                /\ UNCHANGED <<status, failures>>
             \/ /\ NextStep
                /\ saved' = results'
                /\ UNCHANGED <<status, forced, stopped, failures>>
    BY <1>6 DEF RunBodyLevel, history
  <2>2. /\ UNCHANGED <<wf, done, mishaps>>
        /\ status = "running" /\ level \in Nat /\ level > 0
    BY <1>6 DEF RunBodyLevel, TypeInv, TypeOK
  <2>3. step \in DOMAIN Steps /\ level \in DOMAIN loop.levels
    BY <1>0, <2>2 DEF TypeInv, TypeOK
  <2>4. /\ DOMAIN loop.levels = 1..Len(loop.levels)
        /\ Len(loop.levels) \in Nat \ {0}
        /\ nodes \subseteq Nodes
        /\ loop.exit \subseteq wf.edges
    BY <2>3, LevelFacts, StepFacts DEF TypeInv
  <2>5. /\ results' \in [Nodes -> Results]
        /\ reachable' \in [Nodes -> BOOLEAN]
        /\ output' \in [Nodes -> Selectors \cup {Plain, Nothing}]
    <3> DEFINE good == nodes \ fail
    <3>1. PICK f \in LevelResults(good, {}) : Record(f, nodes)
      BY <2>1
    <3>2. good \cup {} \subseteq Nodes
      BY <2>4
    <3> HIDE DEF nodes, good
    <3> QED
      BY <3>1, <3>2, RecordTyped
  <2>6. /\ forced \subseteq stopped /\ stopped \subseteq wf.edges
        /\ iteration \in Nat /\ failures \in Nat
        /\ saved \in [Nodes -> Results]
    BY DEF TypeInv, TypeOK
  <2>7. CASE MarkFailed
    BY <1>0, <2>2, <2>3, <2>5, <2>6, <2>7, TypeInvOfWork DEF MarkFailed
  <2>8. CASE /\ level < Len(loop.levels)
             /\ level' = level + 1
             /\ UNCHANGED <<status, step, iteration, saved, forced, stopped, failures>>
    BY <1>0, <2>2, <2>3, <2>4, <2>5, <2>6, <2>8, TypeInvOfWork
  <2>9. CASE NextRound /\ UNCHANGED <<status, saved, forced, stopped, failures>>
    BY <1>0, <2>2, <2>3, <2>4, <2>5, <2>6, <2>9, TypeInvOfWork DEF NextRound
  <2>10. CASE /\ forced' = forced \cup loop.exit
              /\ stopped' = stopped \cup loop.exit
              /\ NextStep
              /\ saved' = results'
              /\ UNCHANGED <<status, failures>>
    <3>1. forced' \subseteq stopped' /\ stopped' \subseteq wf.edges
      BY <2>4, <2>6, <2>10
    <3> QED
      BY <1>0, <2>2, <2>3, <2>5, <2>6, <2>10, <3>1, TypeInvOfWork DEF NextStep
  <2>11. CASE /\ NextStep
              /\ saved' = results'
              /\ UNCHANGED <<status, forced, stopped, failures>>
    BY <1>0, <2>2, <2>3, <2>5, <2>6, <2>11, TypeInvOfWork DEF NextStep
  <2> QED
    BY <2>1, <2>7, <2>8, <2>9, <2>10, <2>11
<1>7. CASE Complete
    BY <1>7 DEF TypeInv, TypeOK, Complete, work, history, Nodes, Steps
<1>8. CASE Raise
    BY <1>8 DEF TypeInv, TypeOK, Raise, work, history, Nodes, Steps
<1>9. CASE Crash
    BY <1>9, MaxMishapsIsNat DEF TypeInv, TypeOK, Crash, Mishap, work, history,
                                 Nodes, Steps
<1>10. ASSUME UNCHANGED mishaps \/ Mishap
       PROVE  mishaps' \in 0..MaxMishaps
    BY <1>10, MaxMishapsIsNat DEF TypeInv, TypeOK, Mishap
<1>11. NoResult \in Results
    BY DEF NoResult, Results
<1>12. CASE Resume
  <2>1. Restored \subseteq Nodes
    BY DEF Restored
  <2>2. results' \in [Nodes -> Results]
    BY <1>11, <1>12 DEF Resume, TypeInv, TypeOK
  <2>3. reachable' \in [Nodes -> BOOLEAN]
    <3>1. \A n \in Nodes : (n \in Restored /\ saved[n].status = "succeeded") \in BOOLEAN
      OBVIOUS
    <3> QED
      BY <1>12, <3>1, Zenon DEF Resume
  <2>4. output' \in [Nodes -> Selectors \cup {Plain, Nothing}]
    BY <1>12 DEF Resume, TypeInv, TypeOK, Results
  <2>5. mishaps' \in 0..MaxMishaps
    BY <1>10, <1>12 DEF Resume
  <2> QED
    BY <1>0, <1>12, <2>1, <2>2, <2>3, <2>4, <2>5
       DEF TypeInv, TypeOK, Resume, history, Nodes, Steps
<1>13. ASSUME Blank, UNCHANGED wf, UNCHANGED mishaps \/ Mishap,
              status' \in {"running", "failed"}
       PROVE  TypeInv'
  <2>1. mishaps' \in 0..MaxMishaps
    BY <1>10, <1>13
  <2> QED
    BY <1>0, <1>11, <1>13, <2>1 DEF TypeInv, TypeOK, Blank, Nodes, Steps
<1>14. CASE Restart
    BY <1>13, <1>14 DEF Restart
<1>15. CASE BeginFails
    BY <1>13, <1>15 DEF BeginFails
<1>16. CASE UNCHANGED vars
    BY <1>16 DEF TypeInv, TypeOK, vars, Nodes, Steps
<1> QED
    BY <1>1, <1>2, <1>3, <1>4, <1>5, <1>6, <1>7, <1>8, <1>9, <1>12, <1>14, <1>15,
       <1>16 DEF Next
-----------------------------------------------------------------------------
(* The checkpoint and the memory.                                          *)

Memory == Known /\ Agreement /\ RoundSoFar /\ Context /\ SavedIsKept /\ Bounded

(* The row does not have all of a step that is due, unless the step is     *)
(* empty: a resume would have restored it.                                 *)
LEMMA DueIsOpen ==
    ASSUME IInv, status = "running", level = 0, step \in DOMAIN Steps, ~AlreadyDone,
           DoneIn(saved, Steps[step])
    PROVE  StepNodes(Steps[step]) = {}
<1>1. step >= step
    BY DEF IInv, TypeInv, TypeOK
<1>2. ASSUME NEW n \in StepNodes(Steps[step]) PROVE n \in done
  <2>1. saved[n] # NoResult
    BY <1>2 DEF DoneIn, Finished, NoResult
  <2> QED
    BY <1>1, <1>2, <2>1 DEF IInv, Agreement
<1> QED
    BY <1>2 DEF AlreadyDone

(* What all results of the steps other than this one have in common.       *)
LEMMA OtherSteps ==
    ASSUME IInv, status = "running", step \in DOMAIN Steps,
           NEW S, S = StepNodes(Steps[step]), Body \subseteq S,
           \A n \in Nodes \ S : results'[n] = results[n],
           NEW i \in DOMAIN Steps, i # step, NEW n \in StepNodes(Steps[i])
    PROVE  n \in Nodes \ S /\ results'[n] = results[n] /\ saved[n] = results[n]
<1>1. wf \in Workflows
    BY DEF IInv, TypeInv
<1>2. n \in Nodes \ S
    BY <1>1, StepFacts, StepsDisjoint
<1> QED
    BY <1>2 DEF IInv, Agreement

(* A step that ends with all its nodes finished equally often is saved     *)
(* whole, and the worker's memory follows from the row again.              *)
LEMMA StepEnds ==
    ASSUME IInv, status = "running", step \in DOMAIN Steps, wf' = wf, done' = done,
           status' = status, failures' = failures, NextStep, saved' = results',
           NEW S, S = StepNodes(Steps[step]), Body \subseteq S,
           DoneIn(saved, Steps[step]) => S = {},
           \A n \in Nodes \ S : /\ results'[n] = results[n]
                                /\ reachable'[n] = reachable[n]
                                /\ output'[n] = output[n],
           \A n \in S : /\ Finished(results'[n])
                        /\ reachable'[n] = (results'[n].status = "succeeded")
                        /\ output'[n] = results'[n].output,
           NEW c \in 1..Bound(Steps[step]),
           \A n \in S : results'[n].count = saved[n].count + c
    PROVE  Memory'
<1>0. /\ wf \in Workflows /\ Steps' = Steps /\ Nodes' = Nodes
      /\ DOMAIN Steps = 1..Len(Steps) /\ Len(Steps) \in Nat
      /\ step' = step + 1 /\ level' = 0 /\ failures \in Nat
      /\ \A i \in DOMAIN Steps : StepNodes(Steps[i]) \subseteq Nodes
      /\ \A n \in Nodes : saved[n].count \in Nat
    BY StepsAreSeq, StepFacts DEF IInv, TypeInv, TypeOK, Results, Steps, Nodes,
                                  NextStep
<1>1. \A n \in Nodes \ S : saved'[n] = saved[n] /\ saved[n] = results[n]
    BY DEF IInv, Agreement
<1>2. \A i \in DOMAIN Steps : i # step =>
          \A n \in StepNodes(Steps[i]) : n \in Nodes \ S
    BY <1>0, StepsDisjoint
<1>3. Known'
    BY <1>0 DEF Known, IInv, Finished
<1>4. Agreement'
  <2>1. \A n \in Nodes : saved'[n] = results'[n]
    OBVIOUS
  <2>2. \A n \in done : Finished(saved'[n])
    BY <1>1 DEF IInv, TypeInv, TypeOK, Agreement
  <2>3. ASSUME NEW i \in DOMAIN Steps, i >= step', NEW n \in StepNodes(Steps[i])
        PROVE  n \in done \/ saved'[n] = NoResult
    <3>1. i # step /\ i >= step
      BY <1>0, <2>3
    <3>2. n \in Nodes \ S
      BY <1>2, <3>1
    <3> QED
      BY <1>1, <3>1, <3>2 DEF IInv, Agreement
  <2> QED
    BY <1>0, <2>1, <2>2, <2>3 DEF Agreement
<1>5. RoundSoFar'
    BY <1>0 DEF RoundSoFar
<1>6. Context'
    BY <1>0 DEF IInv, Context
<1>7. SavedIsKept'
    BY DEF SavedIsKept
<1>8. Bounded'
  <2>1. ASSUME NEW i \in DOMAIN Steps, NEW n \in StepNodes(Steps[i])
        PROVE  /\ results'[n].count <= (1 + failures) * Bound(Steps[i])
               /\ ~DoneIn(results', Steps[i]) =>
                     results'[n].count <= failures * Bound(Steps[i])
    <3>1. CASE i = step
      <4> DEFINE b == Bound(Steps[i])
                 most == failures * b
      <4>1. b \in Nat
        BY <1>0, BoundFacts
      <4>2. saved[n].count <= most
        BY <2>1, <3>1 DEF IInv, Bounded
      <4>3. most \in Nat /\ (1 + failures) * b = most + b
        BY <1>0, <4>1, BoundGrows
      <4>4. results'[n].count = saved[n].count + c /\ saved[n].count \in Nat
            /\ c \in 1..b
        BY <1>0, <2>1, <3>1
      <4>5. DoneIn(results', Steps[i])
        BY <3>1 DEF DoneIn
      <4> HIDE DEF b, most
      <4>6. results'[n].count <= most + b
        BY <4>1, <4>2, <4>3, <4>4
      <4> QED
        BY <4>3, <4>5, <4>6 DEF b
    <3>2. CASE i # step
      <4>1. \A m \in StepNodes(Steps[i]) : results'[m] = results[m]
                                           /\ results'[m] = saved[m]
        BY <1>1, <1>2, <3>2
      <4>2. DoneIn(results', Steps[i]) <=> DoneIn(saved, Steps[i])
        BY <4>1 DEF DoneIn
      <4> QED
        BY <2>1, <4>1, <4>2 DEF IInv, Bounded
    <3> QED
      BY <3>1, <3>2
  <2> QED
    BY <1>0, <2>1 DEF Bounded, DoneIn
<1> QED
    BY <1>3, <1>4, <1>5, <1>6, <1>7, <1>8 DEF Memory

(* A failed level: what counts is that the attempt gave no node of the     *)
(* step more results than it may.                                          *)
LEMMA StepFails ==
    ASSUME IInv, status = "running", step \in DOMAIN Steps, wf' = wf, MarkFailed,
           NEW S, S = StepNodes(Steps[step]), Body \subseteq S,
           ~DoneIn(saved, Steps[step]),
           results' \in [Nodes -> Results],
           \A n \in Nodes \ S : results'[n] = results[n],
           \A n \in S : results'[n].status = "none" => results'[n] = NoResult,
           \A n \in S : results'[n].count <= saved[n].count + Bound(Steps[step])
    PROVE  Memory'
<1>0. /\ wf \in Workflows /\ Steps' = Steps /\ Nodes' = Nodes
      /\ saved' = results' /\ failures' = failures + 1 /\ status' = "failed"
      /\ failures \in Nat
      /\ \A i \in DOMAIN Steps : StepNodes(Steps[i]) \subseteq Nodes
      /\ \A n \in Nodes : saved[n].count \in Nat /\ results'[n].count \in Nat
    BY StepFacts DEF IInv, TypeInv, TypeOK, Results, Steps, Nodes, MarkFailed
<1>1. Known'
    BY <1>0 DEF Known, IInv
<1>2. Bounded'
  <2>1. ASSUME NEW i \in DOMAIN Steps, NEW n \in StepNodes(Steps[i])
        PROVE  /\ results'[n].count <= (1 + (failures + 1)) * Bound(Steps[i])
               /\ ~DoneIn(results', Steps[i]) =>
                     results'[n].count <= (failures + 1) * Bound(Steps[i])
    <3> DEFINE b == Bound(Steps[i])
               most == failures * b
    <3>1. b \in Nat
      BY <1>0, BoundFacts
    <3>2. /\ most \in Nat
          /\ (failures + 1) * b = most + b
          /\ (1 + failures) * b = most + b
          /\ (1 + (failures + 1)) * b = most + b + b
      BY <1>0, <3>1, BoundGrows
    <3>3. results'[n].count \in Nat /\ saved[n].count \in Nat
      BY <1>0, <2>1
    <3>4. CASE i = step
      <4>1. saved[n].count <= most
        BY <2>1, <3>4 DEF IInv, Bounded
      <4>2. results'[n].count <= saved[n].count + b
        BY <2>1, <3>4
      <4> HIDE DEF b, most
      <4>3. results'[n].count <= most + b
        BY <3>1, <3>2, <3>3, <4>1, <4>2
      <4>4. results'[n].count <= most + b + b
        BY <3>1, <3>2, <3>3, <4>3
      <4> QED
        BY <3>2, <4>3, <4>4 DEF b
    <3>5. CASE i # step
      <4>1. results'[n].count <= (1 + failures) * b
        BY <2>1, <3>5, OtherSteps DEF IInv, Bounded
      <4> HIDE DEF b, most
      <4>2. results'[n].count <= most + b
        BY <3>2, <4>1
      <4>3. results'[n].count <= most + b + b
        BY <3>1, <3>2, <3>3, <4>2
      <4> QED
        BY <3>2, <4>2, <4>3 DEF b
    <3> QED
      BY <3>4, <3>5
  <2> QED
    BY <1>0, <2>1 DEF Bounded, DoneIn
<1>3. Agreement' /\ RoundSoFar' /\ Context' /\ SavedIsKept'
    BY <1>0 DEF Agreement, RoundSoFar, Context, SavedIsKept
<1> QED
    BY <1>1, <1>2, <1>3 DEF Memory

(* A level of its own, or a loop that is not reached: the nodes of run     *)
(* were dispatched, those of good succeeded.                               *)
LEMMA WholeStep ==
    ASSUME IInv, status = "running", level = 0, step \in DOMAIN Steps,
           ~AlreadyDone, wf' = wf, done' = done,
           NEW run, NEW good, NEW skip, good \subseteq run, run \cap skip = {},
           run \cup skip = StepNodes(Steps[step]),
           NEW f \in LevelResults(good, skip), Record(f, run),
           \/ good # run /\ MarkFailed
           \/ /\ good = run /\ NextStep /\ saved' = results' /\ status' = status
              /\ failures' = failures
    PROVE  Memory'
<1> DEFINE S == StepNodes(Steps[step])
<1>1. /\ wf \in Workflows /\ S \subseteq Nodes /\ Body = {} /\ TypeInv
      /\ Bound(Steps[step]) \in Nat \ {0} /\ good \cup skip \subseteq S
    BY StepFacts, BoundFacts DEF IInv, TypeInv, Body
<1>2. \A n \in Nodes : saved[n] = results[n] /\ saved[n].count \in Nat
    BY <1>1 DEF IInv, Agreement, TypeOK, TypeInv, Results
<1>3. DoneIn(saved, Steps[step]) => S = {}
    BY DueIsOpen
<1>4. \A n \in Nodes \ S : /\ results'[n] = results[n]
                           /\ reachable'[n] = reachable[n]
                           /\ output'[n] = output[n]
    BY <1>1, RecordFacts
<1>5. ASSUME NEW n \in S
      PROVE  /\ n \in good => /\ results'[n].status = "succeeded"
                              /\ results'[n].count = saved[n].count + 1
             /\ n \in skip => /\ results'[n].status = "skipped"
                              /\ results'[n].count = saved[n].count + 1
             /\ n \in good \cup skip => /\ reachable'[n] = (n \in run)
                                        /\ output'[n] = results'[n].output
             /\ n \notin good \cup skip => results'[n] = saved[n]
  <2>1. n \in Nodes /\ saved[n] = results[n]
    BY <1>1, <1>2
  <2> QED
    BY <1>1, <2>1, RecordFacts
<1>6. CASE good # run /\ MarkFailed
  <2>1. S # {}
    BY <1>6
  <2>2. \A n \in S : results'[n].status = "none" => results'[n] = NoResult
    BY <1>1, <1>5 DEF IInv, Known
  <2>3. \A n \in S : results'[n].count <= saved[n].count + Bound(Steps[step])
    BY <1>1, <1>2, <1>5
  <2>4. results' \in [Nodes -> Results]
    BY <1>1, RecordTyped
  <2> HIDE DEF S
  <2> QED
    BY <1>1, <1>3, <1>4, <1>6, <2>1, <2>2, <2>3, <2>4, StepFails DEF S
<1>7. CASE /\ good = run /\ NextStep /\ saved' = results' /\ status' = status
           /\ failures' = failures
  <2>1. \A n \in S : /\ Finished(results'[n])
                     /\ reachable'[n] = (results'[n].status = "succeeded")
                     /\ output'[n] = results'[n].output
    BY <1>5, <1>7 DEF Finished
  <2>2. 1 \in 1..Bound(Steps[step]) /\ \A n \in S : results'[n].count = saved[n].count + 1
    BY <1>1, <1>5, <1>7
  <2> HIDE DEF S
  <2> QED
    BY <1>1, <1>3, <1>4, <1>7, <2>1, <2>2, StepEnds DEF S
<1> QED
    BY <1>6, <1>7

(* What a body level leaves: its nodes that did not fail have one result   *)
(* more, the rest of the loop has what it had.                             *)
LEMMA BodyRecord ==
    ASSUME IInv, status = "running", level > 0,
           NEW fail, fail \subseteq Steps[step].levels[level],
           NEW f \in LevelResults(Steps[step].levels[level] \ fail, {}),
           Record(f, Steps[step].levels[level])
    PROVE  /\ results' \in [Nodes -> Results]
           /\ \A n \in Nodes \ (Steps[step].levels[level] \ fail) :
                 /\ results'[n] = results[n]
                 /\ reachable'[n] = reachable[n]
                 /\ output'[n] = output[n]
           /\ \A k \in DOMAIN Steps[step].levels : \A n \in Steps[step].levels[k] :
                 LET more == IF k < level \/ (k = level /\ n \notin fail)
                               THEN iteration + 1 ELSE iteration
                 IN  /\ results'[n].count = saved[n].count + more
                     /\ IF more = 0 THEN results'[n] = saved[n]
                                    ELSE /\ results'[n].status = "succeeded"
                                         /\ reachable'[n] = TRUE
                                         /\ output'[n] = results'[n].output
                     /\ k = level <=> n \in Steps[step].levels[level]
<1> DEFINE loop == Steps[step]
           L == loop.levels[level]
           good == L \ fail
<1>1. /\ wf \in Workflows /\ TypeInv /\ level \in Nat /\ iteration \in Nat
      /\ step \in DOMAIN Steps /\ level \in DOMAIN loop.levels
    BY StepsAreSeq DEF IInv, TypeInv, TypeOK
<1>2. /\ DOMAIN loop.levels = 1..Len(loop.levels) /\ Len(loop.levels) \in Nat
      /\ \A k \in DOMAIN loop.levels : loop.levels[k] \subseteq Nodes
      /\ good \cup {} \subseteq Nodes
    BY <1>1, LevelFacts
<1>3. f \in LevelResults(good, {}) /\ Record(f, L)
    OBVIOUS
<1>4. results' \in [Nodes -> Results]
  <2> HIDE DEF L, good
  <2> QED
    BY <1>1, <1>2, <1>3, RecordTyped
<1>5. ASSUME NEW n \in Nodes
      PROVE  /\ n \in good => /\ results'[n].status = "succeeded"
                              /\ results'[n].count = results[n].count + 1
                              /\ reachable'[n] = (n \in L)
                              /\ output'[n] = results'[n].output
             /\ n \notin good => /\ results'[n] = results[n]
                                 /\ reachable'[n] = reachable[n]
                                 /\ output'[n] = output[n]
  <2> HIDE DEF L, good
  <2> QED
    BY <1>1, <1>2, <1>3, RecordFacts
<1>6. ASSUME NEW k \in DOMAIN loop.levels, NEW n \in loop.levels[k]
      PROVE  LET more == IF k < level \/ (k = level /\ n \notin fail)
                           THEN iteration + 1 ELSE iteration
             IN  /\ results'[n].count = saved[n].count + more
                 /\ IF more = 0 THEN results'[n] = saved[n]
                                ELSE /\ results'[n].status = "succeeded"
                                     /\ reachable'[n] = TRUE
                                     /\ output'[n] = results'[n].output
                 /\ k = level <=> n \in L
  <2>1. /\ results[n].count = saved[n].count + Ahead(k)
        /\ IF Ahead(k) = 0 THEN results[n] = saved[n]
                           ELSE results[n].status = "succeeded"
    BY DEF IInv, RoundSoFar
  <2>2. n \in Nodes /\ k \in Nat /\ saved[n].count \in Nat
    BY <1>1, <1>2 DEF TypeInv, TypeOK, Results
  <2>3. k = level <=> n \in L
    BY <1>1, LevelsDisjoint
  <2>4. reachable[n] = (results[n].status = "succeeded") /\ output[n] = results[n].output
    BY <2>2 DEF IInv, Context
  <2>5. CASE n \in good
    <3>1. k = level /\ n \notin fail /\ n \in L
      BY <2>3, <2>5
    <3>2. Ahead(k) = iteration
      BY <1>1, <3>1 DEF Ahead
    <3>3. /\ results'[n].status = "succeeded"
          /\ results'[n].count = results[n].count + 1
          /\ reachable'[n] = TRUE
          /\ output'[n] = results'[n].output
      BY <1>5, <2>2, <2>5, <3>1
    <3>4. results'[n].count = saved[n].count + (iteration + 1)
      BY <1>1, <2>1, <2>2, <3>2, <3>3
    <3>5. iteration + 1 # 0
      BY <1>1
    <3> QED
      BY <2>3, <3>1, <3>3, <3>4, <3>5
  <2>6. CASE n \notin good
    <3>1. ~(k = level /\ n \notin fail)
      BY <2>3, <2>6
    <3>2. /\ results'[n] = results[n] /\ reachable'[n] = reachable[n]
          /\ output'[n] = output[n]
      BY <1>5, <2>2, <2>6
    <3> QED
      BY <2>1, <2>3, <2>4, <3>1, <3>2 DEF Ahead
  <2> QED
    BY <2>5, <2>6
<1> QED
    BY <1>4, <1>5, <1>6

(* One level of the body of a loop.                                        *)
LEMMA BodyLevel == ASSUME IInv, RunBodyLevel PROVE Memory'
<1> DEFINE loop == Steps[step]
           L == loop.levels[level]
           B == StepNodes(loop)
<1>1. PICK fail \in SUBSET L : \E f \in LevelResults(L \ fail, {}) :
        /\ Record(f, L)
        /\ \/ fail # {} /\ MarkFailed
           \/ /\ fail = {}
              /\ failures' = failures
              /\ \/ /\ level < Len(loop.levels)
                    /\ level' = level + 1
                    /\ UNCHANGED <<status, step, iteration, saved>>
                 \/ /\ level = Len(loop.levels)
                    /\ ~GuardReached(loop)
                    /\ NextRound
                    /\ UNCHANGED <<status, saved>>
                 \/ /\ level = Len(loop.levels)
                    /\ NextStep
                    /\ saved' = results'
                    /\ UNCHANGED status
    BY DEF RunBodyLevel, history
<1>2. PICK f \in LevelResults(L \ fail, {}) : Record(f, L)
    BY <1>1
<1>3. /\ wf' = wf /\ done' = done /\ Steps' = Steps /\ Nodes' = Nodes
      /\ wf \in Workflows /\ status = "running" /\ level \in Nat /\ level > 0
      /\ iteration \in Nat
    BY DEF RunBodyLevel, IInv, TypeInv, TypeOK, Steps, Nodes
<1>4. step \in DOMAIN Steps /\ level \in DOMAIN loop.levels
    BY <1>3, StepsAreSeq DEF IInv, TypeInv, TypeOK
<1>5. /\ DOMAIN loop.levels = 1..Len(loop.levels) /\ Len(loop.levels) \in Nat
      /\ L \subseteq B /\ B \subseteq Nodes /\ Body = B
      /\ loop.max \in Int /\ Bound(loop) \in Nat
    BY <1>3, <1>4, LevelFacts, StepFacts, BoundFacts DEF Body
<1>6. /\ loop.kind = "loop" /\ iteration + 1 <= Bound(loop)
      /\ loop.max <= Bound(loop) /\ ~DoneIn(saved, loop)
    BY <1>3, <1>4, BoundFacts DEF IInv, RoundSoFar
<1>7. \A n \in B : \E k \in DOMAIN loop.levels : n \in loop.levels[k]
    BY DEF StepNodes
<1>8. /\ results' \in [Nodes -> Results]
      /\ \A n \in Nodes \ (L \ fail) : /\ results'[n] = results[n]
                                       /\ reachable'[n] = reachable[n]
                                       /\ output'[n] = output[n]
    BY <1>2, <1>3, BodyRecord
<1>9. \A k \in DOMAIN loop.levels : \A n \in loop.levels[k] :
          LET more == IF k < level \/ (k = level /\ n \notin fail)
                        THEN iteration + 1 ELSE iteration
          IN  /\ results'[n].count = saved[n].count + more
              /\ IF more = 0 THEN results'[n] = saved[n]
                             ELSE /\ results'[n].status = "succeeded"
                                  /\ reachable'[n] = TRUE
                                  /\ output'[n] = results'[n].output
              /\ k = level <=> n \in L
    BY <1>2, <1>3, BodyRecord
<1>10. \A n \in Nodes \ B : /\ results'[n] = results[n]
                            /\ reachable'[n] = reachable[n]
                            /\ output'[n] = output[n]
                            /\ saved[n] = results[n]
    BY <1>3, <1>5, <1>8 DEF IInv, Agreement
<1>11. \A n \in Nodes : saved[n].count \in Nat
    BY DEF IInv, TypeInv, TypeOK, Results
<1>12. \A n \in B : /\ results'[n].status = "none" => results'[n] = NoResult
                    /\ results'[n].count <= saved[n].count + Bound(loop)
  <2>1. SUFFICES ASSUME NEW k \in DOMAIN loop.levels, NEW n \in loop.levels[k],
                        n \in B
                 PROVE  /\ results'[n].status = "none" => results'[n] = NoResult
                        /\ results'[n].count <= saved[n].count + Bound(loop)
    BY <1>7
  <2>2. \E more \in {iteration, iteration + 1} :
             /\ results'[n].count = saved[n].count + more
             /\ IF more = 0 THEN results'[n] = saved[n]
                            ELSE results'[n].status = "succeeded"
    BY <1>9
  <2>3. n \in Nodes /\ saved[n].count \in Nat
    BY <1>5, <1>11, <2>1
  <2>4. saved[n].status = "none" => saved[n] = NoResult
    BY <2>3 DEF IInv, Known
  <2> QED
    BY <1>3, <1>5, <1>6, <2>2, <2>3, <2>4
<1>13. CASE fail # {} /\ MarkFailed
  <2> HIDE DEF L
  <2> QED
    BY <1>3, <1>4, <1>5, <1>6, <1>8, <1>10, <1>12, <1>13, StepFails
<1>14. ASSUME level' > 0, status' = status, step' = step, saved' = saved,
              failures' = failures, fail = {}, iteration' \in Nat, level' \in Nat,
              iteration' + 1 <= Bound(loop),
              \A k \in DOMAIN loop.levels :
                 (IF k <= level THEN iteration + 1 ELSE iteration) =
                     (IF k < level' THEN iteration' + 1 ELSE iteration')
       PROVE  Memory'
  <2>1. Body' = B
    BY <1>3, <1>14 DEF Body
  <2>2. \A k \in DOMAIN loop.levels : \A n \in loop.levels[k] :
            LET more == IF k < level' THEN iteration' + 1 ELSE iteration'
            IN  /\ results'[n].count = saved[n].count + more
                /\ IF more = 0 THEN results'[n] = saved[n]
                               ELSE /\ results'[n].status = "succeeded"
                                    /\ reachable'[n] = TRUE
                                    /\ output'[n] = results'[n].output
    <3>1. SUFFICES ASSUME NEW k \in DOMAIN loop.levels, NEW n \in loop.levels[k]
                   PROVE  LET more == IF k < level' THEN iteration' + 1
                                                    ELSE iteration'
                          IN  /\ results'[n].count = saved[n].count + more
                              /\ IF more = 0
                                   THEN results'[n] = saved[n]
                                   ELSE /\ results'[n].status = "succeeded"
                                        /\ reachable'[n] = TRUE
                                        /\ output'[n] = results'[n].output
      OBVIOUS
    <3>2. k < level \/ (k = level /\ n \notin fail) <=> k <= level
      BY <1>3, <1>5, <1>14
    <3> DEFINE more == IF k < level' THEN iteration' + 1 ELSE iteration'
    <3>3. more = IF k < level \/ (k = level /\ n \notin fail)
                   THEN iteration + 1 ELSE iteration
      BY <1>14, <3>2
    <3> HIDE DEF more
    <3>4. /\ results'[n].count = saved[n].count + more
          /\ IF more = 0 THEN results'[n] = saved[n]
                         ELSE /\ results'[n].status = "succeeded"
                              /\ reachable'[n] = TRUE
                              /\ output'[n] = results'[n].output
      BY <1>9, <3>3
    <3> QED
      BY <3>4 DEF more
  <2>3. Known'
    BY <1>3, <1>10, <1>12, <1>14 DEF IInv, Known
  <2>4. Agreement'
    BY <1>3, <1>10, <1>14, <2>1 DEF IInv, Agreement
  <2>5. RoundSoFar'
    <3>1. ~DoneIn(saved, loop)'
      BY <1>3, <1>6, <1>14 DEF DoneIn
    <3>2. \A k : Ahead(k)' = IF k < level' THEN iteration' + 1 ELSE iteration'
      BY DEF Ahead
    <3>3. \A k \in DOMAIN loop.levels : \A n \in loop.levels[k] :
              /\ results'[n].count = saved'[n].count + Ahead(k)'
              /\ IF Ahead(k)' = 0 THEN results'[n] = saved'[n]
                                  ELSE results'[n].status = "succeeded"
      BY <1>14, <2>2, <3>2
    <3> QED
      BY <1>3, <1>6, <1>14, <3>1, <3>3 DEF RoundSoFar, Bound
  <2>6. Context'
    <3>1. ASSUME NEW n \in Nodes
          PROVE  /\ reachable'[n] = (results'[n].status = "succeeded")
                 /\ output'[n] = results'[n].output
      <4>1. CASE n \in L
        <5>1. /\ results'[n].status = "succeeded" /\ reachable'[n] = TRUE
              /\ output'[n] = results'[n].output
          BY <1>3, <1>4, <1>9, <1>14, <4>1
        <5> QED
          BY <5>1
      <4>2. CASE n \notin L
        BY <1>3, <1>8, <4>2 DEF IInv, Context
      <4> QED
        BY <4>1, <4>2
    <3> QED
      BY <1>3, <1>14, <3>1 DEF Context
  <2>7. SavedIsKept'
    <3>1. ASSUME NEW i \in DOMAIN Steps, DoneIn(saved, Steps[i]),
                 NEW n \in StepNodes(Steps[i])
          PROVE  results'[n] = saved[n]
      <4>1. i # step
        BY <1>6, <3>1
      <4>2. n \in Nodes \ B
        BY <1>3, <1>4, <3>1, <4>1, StepFacts, StepsDisjoint
      <4> QED
        BY <1>10, <4>2
    <3> QED
      BY <1>3, <1>14, <3>1 DEF SavedIsKept, DoneIn
  <2>8. Bounded'
    <3>1. ASSUME NEW i \in DOMAIN Steps, NEW n \in StepNodes(Steps[i])
          PROVE  results'[n].count <= (1 + failures) * Bound(Steps[i])
      <4>1. CASE i = step
        <5> DEFINE b == Bound(Steps[i])
                   most == failures * b
        <5>1. failures \in Nat /\ b \in Nat
          BY <1>5, <4>1 DEF IInv, TypeInv, TypeOK
        <5>2. saved[n].count <= most
          BY <1>6, <3>1, <4>1 DEF IInv, Bounded
        <5>3. most \in Nat /\ (1 + failures) * b = most + b
          BY <5>1, BoundGrows
        <5>4. results'[n].count <= saved[n].count + b
          BY <1>12, <3>1, <4>1
        <5>5. saved[n].count \in Nat /\ results'[n].count \in Nat
          BY <1>5, <1>8, <1>11, <3>1, <4>1 DEF Results
        <5> HIDE DEF b, most
        <5>6. results'[n].count <= most + b
          BY <5>1, <5>2, <5>3, <5>4, <5>5
        <5> QED
          BY <5>3, <5>6 DEF b
      <4>2. CASE i # step
        <5>1. n \in Nodes \ B
          BY <1>3, <1>4, <3>1, <4>2, StepFacts, StepsDisjoint
        <5> QED
          BY <1>10, <3>1, <5>1 DEF IInv, Bounded
      <4> QED
        BY <4>1, <4>2
    <3> QED
      BY <1>3, <1>14, <3>1 DEF IInv, Bounded, DoneIn
  <2> QED
    BY <2>3, <2>4, <2>5, <2>6, <2>7, <2>8 DEF Memory
<1>15. CASE /\ fail = {}
            /\ failures' = failures
            /\ level < Len(loop.levels)
            /\ level' = level + 1
            /\ UNCHANGED <<status, step, iteration, saved>>
  <2>1. \A k \in DOMAIN loop.levels : k <= level <=> k < level'
    BY <1>3, <1>5, <1>15
  <2> HIDE DEF L, B, loop
  <2> QED
    BY <1>3, <1>6, <1>14, <1>15, <2>1
<1>16. CASE /\ fail = {}
            /\ failures' = failures
            /\ level = Len(loop.levels)
            /\ ~GuardReached(loop)
            /\ NextRound
            /\ UNCHANGED <<status, saved>>
  <2>1. iteration' = iteration + 1 /\ level' = 1 /\ step' = step
    BY <1>16 DEF NextRound
  <2>2. iteration' + 1 <= Bound(loop)
    BY <1>3, <1>5, <1>6, <1>16, <2>1 DEF GuardReached
  <2>3. \A k \in DOMAIN loop.levels : k <= level /\ ~(k < level')
    BY <1>5, <1>16, <2>1
  <2> HIDE DEF L, B, loop
  <2> QED
    BY <1>3, <1>14, <1>16, <2>1, <2>2, <2>3
<1>17. CASE /\ fail = {}
            /\ failures' = failures
            /\ level = Len(loop.levels)
            /\ NextStep
            /\ saved' = results'
            /\ UNCHANGED status
  <2>1. ASSUME NEW n \in B
        PROVE  /\ results'[n].count = saved[n].count + (iteration + 1)
               /\ results'[n].status = "succeeded"
               /\ reachable'[n] = TRUE
               /\ output'[n] = results'[n].output
    <3>1. PICK k \in DOMAIN loop.levels : n \in loop.levels[k]
      BY <1>7
    <3>2. k < level \/ (k = level /\ n \notin fail)
      BY <1>5, <1>17
    <3>3. iteration + 1 # 0
      BY <1>3
    <3> QED
      BY <1>9, <3>1, <3>2, <3>3
  <2>2. \A n \in B : /\ Finished(results'[n])
                     /\ reachable'[n] = (results'[n].status = "succeeded")
                     /\ output'[n] = results'[n].output
    BY <2>1 DEF Finished
  <2> DEFINE c == iteration + 1
  <2>3. c \in 1..Bound(loop)
    BY <1>3, <1>5, <1>6
  <2>4. \A n \in B : results'[n].count = saved[n].count + c
    BY <2>1
  <2> HIDE DEF L, c
  <2> QED
    BY <1>3, <1>4, <1>5, <1>6, <1>10, <1>17, <2>2, <2>3, <2>4, StepEnds
<1> QED
    BY <1>1, <1>13, <1>15, <1>16, <1>17
-----------------------------------------------------------------------------
(* The inductive invariant is kept by every action.                        *)

(* At a step boundary the row is the memory.                               *)
LEMMA BoundaryAgrees ==
    ASSUME IInv, AtBoundary
    PROVE  saved = results
<1>1. \A n \in Nodes : saved[n] = results[n]
    BY DEF AtBoundary, Body, IInv, Agreement
<1> QED
    BY <1>1 DEF IInv, TypeInv, TypeOK

(* A resume finds in the row all that it restores, and nothing else.       *)
LEMMA ResumeRestoresRow ==
    ASSUME IInv, Resume
    PROVE  results' = saved
<1>1. ASSUME NEW n \in Nodes PROVE n \in Restored \/ saved[n] = NoResult
  <2>1. saved[n].status \in {"none", "succeeded", "skipped"}
    BY DEF IInv, TypeInv, TypeOK, Results
  <2> QED
    BY <2>1 DEF IInv, Known, Restored
<1>2. results' = [n \in Nodes |-> saved[n]]
    BY <1>1 DEF Resume
<1> QED
    BY <1>2 DEF IInv, TypeInv, TypeOK

(* Nothing is in memory or in the row of an attempt from nothing.          *)
LEMMA BlankMemory ==
    ASSUME TypeInv, wf' = wf, Blank
    PROVE  Memory'
<1>1. /\ wf \in Workflows /\ Steps' = Steps /\ Nodes' = Nodes
      /\ level' = 0 /\ done' = {} /\ failures' = 0
      /\ \A n \in Nodes : /\ results'[n] = NoResult /\ saved'[n] = NoResult
                          /\ reachable'[n] = FALSE /\ output'[n] = Nothing
    BY DEF TypeInv, Blank, Steps, Nodes
<1>2. \A i \in DOMAIN Steps : /\ StepNodes(Steps[i]) \subseteq Nodes
                              /\ Bound(Steps[i]) \in Nat \ {0}
    BY <1>1, StepFacts, BoundFacts
<1>3. Known' /\ RoundSoFar'
    BY <1>1 DEF Known, RoundSoFar
<1>4. Context'
  <2>1. NoResult.status # "succeeded" /\ NoResult.output = Nothing
    BY DEF NoResult
  <2> QED
    BY <1>1, <2>1 DEF Context
<1>5. Agreement'
    BY <1>1, <1>2 DEF Agreement, Body
<1>6. SavedIsKept'
    BY <1>1, <1>2 DEF SavedIsKept
<1>7. Bounded'
  <2>1. ASSUME NEW i \in DOMAIN Steps, NEW n \in StepNodes(Steps[i])
        PROVE  /\ results'[n].count <= (1 + 0) * Bound(Steps[i])
               /\ saved'[n].count <= (1 + 0) * Bound(Steps[i])
               /\ saved'[n].count <= 0 * Bound(Steps[i])
    BY <1>1, <1>2, <2>1 DEF NoResult
  <2> QED
    BY <1>1, <2>1 DEF Bounded
<1> QED
    BY <1>3, <1>4, <1>5, <1>6, <1>7 DEF Memory

LEMMA NextMemory == IInv /\ [Next]_vars => Memory'
<1> SUFFICES ASSUME IInv, [Next]_vars PROVE Memory'
    OBVIOUS
<1>0. /\ wf \in Workflows /\ TypeOK /\ Len(Steps) \in Nat /\ TypeInv
      /\ DOMAIN Steps = 1..Len(Steps)
    BY StepsAreSeq DEF IInv, TypeInv
<1>1. CASE SeePause \/ Complete
  <2>1. /\ AtBoundary /\ saved' = results /\ UNCHANGED <<wf, work, history>>
        /\ status' # "running"
    BY <1>1 DEF SeePause, Complete
  <2>2. saved' = saved
    BY <2>1, BoundaryAgrees
  <2> QED
    BY <2>1, <2>2
       DEF work, history, IInv, Memory, Known, Agreement, RoundSoFar, Context,
           SavedIsKept, Bounded, DoneIn, Steps, Nodes
<1>2. CASE SkipStep
  <2>1. /\ level = 0 /\ level' = 0 /\ step' = step + 1 /\ status = "running"
        /\ step \in Nat /\ Steps' = Steps /\ Nodes' = Nodes
        /\ UNCHANGED <<wf, status, results, reachable, output, done, saved, failures>>
    BY <1>0, <1>2 DEF SkipStep, AtBoundary, NextStep, TypeOK, Steps, Nodes, history
  <2>2. Body = {} /\ Body' = {}
    BY <2>1 DEF Body
  <2>3. Agreement'
    <3>1. \A i \in DOMAIN Steps : i >= step + 1 => i >= step
      BY <1>0, <2>1
    <3> QED
      BY <2>1, <2>2, <3>1 DEF IInv, Agreement
  <2> QED
    BY <2>1, <2>3
       DEF IInv, Memory, Known, RoundSoFar, Context, SavedIsKept, Bounded, DoneIn
<1>3. CASE RunLevel
  <2> DEFINE nodes == StepNodes(Steps[step])
             run == {n \in nodes : IsReachable(n)}
             skip == nodes \ run
  <2>1. PICK fail \in SUBSET run : \E f \in LevelResults(run \ fail, skip) :
          /\ Record(f, run)
          /\ \/ fail # {} /\ MarkFailed
             \/ /\ fail = {} /\ NextStep /\ saved' = results'
                /\ UNCHANGED <<status, forced, history>>
    BY <1>3 DEF RunLevel
  <2> DEFINE good == run \ fail
  <2>2. PICK f \in LevelResults(good, skip) : Record(f, run)
    BY <2>1
  <2>3. /\ run \cap skip = {} /\ run \cup skip = StepNodes(Steps[step])
        /\ good \subseteq run
    OBVIOUS
  <2>4. /\ status = "running" /\ level = 0 /\ step \in DOMAIN Steps
        /\ ~AlreadyDone /\ wf' = wf /\ done' = done
    BY <1>0, <1>3 DEF RunLevel, AtStep, AtBoundary, TypeOK
  <2>5. \/ good # run /\ MarkFailed
        \/ /\ good = run /\ NextStep /\ saved' = results' /\ status' = status
           /\ failures' = failures
    BY <2>1 DEF history
  <2> HIDE DEF run, skip, good
  <2> QED
    BY <2>2, <2>3, <2>4, <2>5, WholeStep
<1>4. CASE SkipLoop
  <2> DEFINE nodes == StepNodes(Steps[step])
  <2>1. PICK f \in LevelResults({}, nodes) : Record(f, {})
    BY <1>4 DEF SkipLoop
  <2>2. {} \cap nodes = {} /\ {} \cup nodes = StepNodes(Steps[step])
    OBVIOUS
  <2>3. /\ status = "running" /\ level = 0 /\ step \in DOMAIN Steps
        /\ ~AlreadyDone /\ wf' = wf /\ done' = done
        /\ NextStep /\ saved' = results' /\ status' = status /\ failures' = failures
    BY <1>0, <1>4 DEF SkipLoop, AtStep, AtBoundary, TypeOK, history
  <2> HIDE DEF nodes
  <2> QED
    BY <2>1, <2>2, <2>3, WholeStep
<1>5. CASE EnterLoop
  <2>1. /\ status = "running" /\ level = 0 /\ step \in DOMAIN Steps
        /\ ~AlreadyDone /\ Steps[step].kind = "loop"
        /\ level' = 1 /\ iteration' = 0 /\ step' = step /\ status' = status
        /\ Steps' = Steps /\ Nodes' = Nodes /\ saved' = saved /\ results' = results
        /\ done' = done /\ reachable' = reachable /\ output' = output
        /\ failures' = failures
        /\ \E n \in Steps[step].levels[1] : IsReachable(n)
    BY <1>0, <1>5 DEF EnterLoop, AtStep, AtBoundary, TypeOK, Steps, Nodes, history
  <2>2. /\ StepNodes(Steps[step]) \subseteq Nodes
        /\ Bound(Steps[step]) \in Nat \ {0}
        /\ 1 \in DOMAIN Steps[step].levels
        /\ \A k \in DOMAIN Steps[step].levels :
              /\ k \in Nat \ {0}
              /\ Steps[step].levels[k] \subseteq StepNodes(Steps[step])
    BY <1>0, <2>1, StepFacts, BoundFacts, LevelFacts
  <2>3. ~DoneIn(saved, Steps[step])
    BY <2>1, <2>2, DueIsOpen
  <2>4. Body = {} /\ Body' = StepNodes(Steps[step])
    BY <2>1 DEF Body
  <2>5. \A n \in Nodes : saved[n] = results[n] /\ saved[n].count \in Nat
    BY <1>0, <2>1, <2>4 DEF IInv, Agreement, TypeOK, Results
  <2>6. Agreement'
    BY <2>1, <2>4, <2>5 DEF IInv, Agreement
  <2>7. RoundSoFar'
    <3>1. \A k \in DOMAIN Steps[step].levels : Ahead(k)' = 0
      BY <2>1, <2>2 DEF Ahead
    <3>2. ~DoneIn(saved, Steps[step])'
      BY <2>1, <2>3 DEF DoneIn
    <3> QED
      BY <2>1, <2>2, <2>5, <3>1, <3>2 DEF RoundSoFar
  <2> QED
    BY <2>1, <2>6, <2>7
       DEF IInv, Memory, Known, Context, SavedIsKept, Bounded, DoneIn
<1>6. CASE RunBodyLevel
    BY <1>6, BodyLevel
<1>7. CASE Raise \/ Crash
  <2>1. UNCHANGED <<wf, work, saved, history>> /\ status' # "running"
    BY <1>7 DEF Raise, Crash
  <2> QED
    BY <2>1 DEF work, history, IInv, Memory, Known, Agreement, RoundSoFar, Context,
                SavedIsKept, Bounded, DoneIn, Steps, Nodes
<1>8. CASE Resume
  <2>1. /\ status' = "running" /\ step' = 1 /\ level' = 0
        /\ done' = Restored /\ saved' = results'
        /\ Steps' = Steps /\ Nodes' = Nodes /\ failures' = failures
    BY <1>8 DEF Resume, Steps, Nodes, history
  <2>2. results' = saved /\ saved' = saved
    BY <1>8, <2>1, ResumeRestoresRow
  <2>3. \A n \in Nodes : n \in Restored <=> Finished(saved[n])
    BY DEF Restored, Finished
  <2>4. \A n \in Nodes : n \in Restored \/ saved[n] = NoResult
    <3>1. \A n \in Nodes : saved[n].status \in {"none", "succeeded", "skipped"}
      BY <1>0 DEF TypeOK, Results
    <3> QED
      BY <3>1 DEF IInv, Known, Restored
  <2>5. \A i \in DOMAIN Steps : \A n \in StepNodes(Steps[i]) : n \in Nodes
    BY <1>0, StepFacts
  <2>6. Known'
    BY <2>1, <2>2 DEF IInv, Known
  <2>7. Agreement'
    BY <2>1, <2>2, <2>3, <2>4, <2>5 DEF Agreement, Restored
  <2>8. RoundSoFar'
    BY <2>1 DEF RoundSoFar
  <2>9. Context'
    <3>1. ASSUME NEW n \in Nodes
          PROVE  /\ reachable'[n] = (results'[n].status = "succeeded")
                 /\ output'[n] = results'[n].output
      <4>1. CASE n \in Restored
        BY <1>8, <2>2, <4>1 DEF Resume
      <4>2. CASE n \notin Restored
        <5>1. saved[n] = NoResult
          BY <2>4, <4>2
        <5> QED
          BY <1>8, <2>2, <4>2, <5>1 DEF Resume, NoResult
      <4> QED
        BY <4>1, <4>2
    <3> QED
      BY <2>1, <3>1 DEF Context
  <2>10. SavedIsKept'
    BY <2>1 DEF SavedIsKept
  <2>11. Bounded'
    BY <2>1, <2>2 DEF IInv, Bounded, DoneIn
  <2> QED
    BY <2>6, <2>7, <2>8, <2>9, <2>10, <2>11 DEF Memory
<1>9. CASE Restart \/ BeginFails
    BY <1>0, <1>9, BlankMemory DEF Restart, BeginFails
<1>10. CASE UNCHANGED vars
    BY <1>10 DEF vars, IInv, Memory, Known, Agreement, RoundSoFar, Ahead, Context,
                 SavedIsKept, Bounded, DoneIn, Body, Steps, Nodes
<1> QED
    BY <1>1, <1>2, <1>3, <1>4, <1>5, <1>6, <1>7, <1>8, <1>9, <1>10 DEF Next
-----------------------------------------------------------------------------
(* The invariant holds of the first attempt before it starts.              *)
LEMMA InitIInv == Init => IInv
<1> SUFFICES ASSUME Init PROVE IInv
    OBVIOUS
<1>1. TypeInv
    BY InitTypeInv
<1>2. /\ \A i \in DOMAIN Steps : StepNodes(Steps[i]) \subseteq Nodes
      /\ \A i \in DOMAIN Steps : Bound(Steps[i]) \in Nat \ {0}
    BY <1>1, StepFacts, BoundFacts DEF TypeInv
<1>3. Known /\ SavedIsKept
    BY <1>2 DEF Init, Known, SavedIsKept
<1>4. Agreement
    BY <1>2 DEF Init, Agreement, Body
<1>5. RoundSoFar
    BY DEF Init, RoundSoFar
<1>6. Context
    BY DEF Init, Context, NoResult
<1>7. Bounded
    BY <1>2 DEF Init, Bounded, NoResult
<1> QED
    BY <1>1, <1>3, <1>4, <1>5, <1>6, <1>7 DEF IInv

(* Every state of an execution satisfies the invariant, over all its       *)
(* pauses, crashes, failures and attempts: those that go on from the row   *)
(* as those that begin from nothing.                                       *)
THEOREM RunInvariance == Spec => []IInv
<1>1. IInv /\ [Next]_vars => IInv'
    BY NextTypeInv, NextMemory DEF IInv, Memory
<1> QED
    BY <1>1, InitIInv, PTL DEF Spec

(* The variables of a run keep their types: above all the step, the level  *)
(* and the round stay within the plan, and only exit edges of the plan are *)
(* ever forced.                                                            *)
THEOREM RunTypeCorrect == Spec => []TypeOK
<1>1. IInv => TypeOK
    BY DEF IInv, TypeInv
<1> QED
    BY <1>1, RunInvariance, PTL

(* At every step boundary of every attempt the row holds all that the      *)
(* worker knows, so that _load_checkpoint rebuilds the reachability and    *)
(* the outputs the worker had.                                             *)
THEOREM ResumeCorrect == Spec => []ResumeRestoresContext
<1>1. IInv => ResumeRestoresContext
  <2> SUFFICES ASSUME IInv, AtBoundary PROVE
               /\ saved = results
               /\ \A n \in Nodes : /\ reachable[n] <=> saved[n].status = "succeeded"
                                   /\ output[n] = saved[n].output
      BY DEF ResumeRestoresContext
  <2>1. saved = results
      BY BoundaryAgrees
  <2>2. ASSUME NEW n \in Nodes
        PROVE  /\ reachable[n] <=> saved[n].status = "succeeded"
               /\ output[n] = saved[n].output
      BY <2>1 DEF AtBoundary, IInv, Context
  <2> QED
      BY <2>1, <2>2
<1> QED
    BY <1>1, RunInvariance, PTL

(* max_iterations bounds the results of a body's nodes over all attempts:  *)
(* an attempt begins a loop anew only when the row does not have all of    *)
(* it, and what the row has of it then comes from attempts that a failure  *)
(* ended.                                                                  *)
THEOREM RoundsBounded == Spec => []RoundsAreBounded
<1>1. IInv => RoundsAreBounded
    BY DEF IInv, Bounded, Bound, RoundsAreBounded, LoopSteps
<1> QED
    BY <1>1, RunInvariance, PTL

(* A level that ends or fails leaves the steps alone that are done in the  *)
(* row: it is of a step that is not.                                       *)
LEMMA LevelKeepsSaved ==
    ASSUME IInv, NEW good, NEW skip, NEW run, NEW f \in LevelResults(good, skip),
           Record(f, run), saved' = saved \/ saved' = results',
           step \in DOMAIN Steps, good \cup skip \subseteq StepNodes(Steps[step]),
           DoneIn(saved, Steps[step]) => StepNodes(Steps[step]) = {},
           NEW i \in DOMAIN Steps, DoneIn(saved, Steps[i]),
           NEW n \in StepNodes(Steps[i])
    PROVE  saved'[n] = saved[n]
<1>1. wf \in Workflows /\ TypeInv
    BY DEF IInv, TypeInv
<1>2. n \in Nodes /\ StepNodes(Steps[step]) \subseteq Nodes
    BY <1>1, StepFacts
<1>3. n \notin StepNodes(Steps[step])
    BY <1>1, StepsDisjoint
<1>4. results'[n] = results[n]
    BY <1>1, <1>2, <1>3, RecordFacts
<1> QED
    BY <1>4 DEF IInv, SavedIsKept

(* Only an attempt from nothing takes a step out of the row that is done,  *)
(* and no step changes it.                                                 *)
LEMMA SavedStays ==
    ASSUME IInv, [Next]_vars, ~(Restart \/ BeginFails),
           NEW i \in DOMAIN Steps, DoneIn(saved, Steps[i]),
           NEW n \in StepNodes(Steps[i])
    PROVE  saved'[n] = saved[n]
<1>0. wf \in Workflows /\ DOMAIN Steps = 1..Len(Steps) /\ step \in 1..(Len(Steps) + 1)
    BY StepsAreSeq DEF IInv, TypeInv, TypeOK
<1>1. CASE SeePause \/ Complete
    BY <1>1, BoundaryAgrees DEF SeePause, Complete
<1>2. CASE SkipStep \/ EnterLoop \/ Raise \/ Crash \/ UNCHANGED vars
    BY <1>2 DEF SkipStep, EnterLoop, Raise, Crash, vars
<1>3. CASE RunLevel
  <2> DEFINE nodes == StepNodes(Steps[step])
             run == {m \in nodes : IsReachable(m)}
             skip == nodes \ run
  <2>1. PICK fail \in SUBSET run : \E f \in LevelResults(run \ fail, skip) :
          Record(f, run) /\ (saved' = saved \/ saved' = results')
    BY <1>3 DEF RunLevel, MarkFailed
  <2> DEFINE good == run \ fail
  <2>2. PICK f \in LevelResults(good, skip) : Record(f, run)
    BY <2>1
  <2>3. status = "running" /\ level = 0 /\ step \in DOMAIN Steps /\ ~AlreadyDone
    BY <1>0, <1>3 DEF RunLevel, AtStep, AtBoundary
  <2>4. DoneIn(saved, Steps[step]) => StepNodes(Steps[step]) = {}
    BY <2>3, DueIsOpen
  <2>5. good \cup skip \subseteq StepNodes(Steps[step])
    OBVIOUS
  <2> HIDE DEF run, skip, good
  <2> QED
    BY <2>1, <2>2, <2>3, <2>4, <2>5, LevelKeepsSaved
<1>4. CASE SkipLoop
  <2> DEFINE nodes == StepNodes(Steps[step])
  <2>1. PICK f \in LevelResults({}, nodes) : Record(f, {})
    BY <1>4 DEF SkipLoop
  <2>2. /\ status = "running" /\ level = 0 /\ step \in DOMAIN Steps /\ ~AlreadyDone
        /\ saved' = results'
    BY <1>0, <1>4 DEF SkipLoop, AtStep, AtBoundary
  <2>3. DoneIn(saved, Steps[step]) => StepNodes(Steps[step]) = {}
    BY <2>2, DueIsOpen
  <2>4. {} \cup nodes \subseteq StepNodes(Steps[step])
    OBVIOUS
  <2> HIDE DEF nodes
  <2> QED
    BY <2>1, <2>2, <2>3, <2>4, LevelKeepsSaved
<1>5. CASE RunBodyLevel
  <2> DEFINE nodes == Steps[step].levels[level]
  <2>1. PICK fail \in SUBSET nodes : \E f \in LevelResults(nodes \ fail, {}) :
          Record(f, nodes) /\ (saved' = saved \/ saved' = results')
    BY <1>5 DEF RunBodyLevel, MarkFailed
  <2> DEFINE good == nodes \ fail
  <2>2. PICK f \in LevelResults(good, {}) : Record(f, nodes)
    BY <2>1
  <2>3. /\ status = "running" /\ level > 0 /\ step \in DOMAIN Steps
        /\ level \in DOMAIN Steps[step].levels
    BY <1>0, <1>5 DEF RunBodyLevel, IInv, TypeInv, TypeOK
  <2>4. good \cup {} \subseteq StepNodes(Steps[step])
    BY <2>3 DEF StepNodes
  <2>5. ~DoneIn(saved, Steps[step])
    BY <2>3 DEF IInv, RoundSoFar
  <2> HIDE DEF nodes, good
  <2> QED
    BY <2>1, <2>2, <2>3, <2>4, <2>5, LevelKeepsSaved
<1>6. CASE Resume
    BY <1>6, ResumeRestoresRow DEF Resume
<1> QED
    BY <1>1, <1>2, <1>3, <1>4, <1>5, <1>6 DEF Next

(* ADR-0025: a step of which the checkpoint has every node is final.  No   *)
(* attempt computes it again: it is not due, and the worker's memory has   *)
(* it whatever the next step does.  Only an attempt from nothing takes it  *)
(* away, and then everything else too.                                     *)
THEOREM CheckpointFinal == Spec => CheckpointIsFinal
<1> DEFINE Emptied == status # "running" /\ \A n \in Nodes : saved'[n] = NoResult
           Final == \A i \in DOMAIN Steps :
                       (\A n \in StepNodes(Steps[i]) : saved[n] # NoResult) =>
                           \A n \in StepNodes(Steps[i]) : /\ saved'[n] = saved[n]
                                                          /\ results'[n] = saved[n]
<1>1. IInv /\ [Next]_vars => Emptied \/ Final
  <2> SUFFICES ASSUME IInv, [Next]_vars, ~Emptied, NEW i \in DOMAIN Steps,
                      \A n \in StepNodes(Steps[i]) : saved[n] # NoResult,
                      NEW n \in StepNodes(Steps[i])
               PROVE  saved'[n] = saved[n] /\ results'[n] = saved[n]
      OBVIOUS
  <2>1. ~(Restart \/ BeginFails)
      BY DEF Restart, BeginFails, Blank
  <2>2. DoneIn(saved, Steps[i])
    <3>1. \A m \in StepNodes(Steps[i]) :
              saved[m].status \in {"none", "succeeded", "skipped"}
      BY StepFacts DEF IInv, TypeInv, TypeOK, Results
    <3>2. \A m \in StepNodes(Steps[i]) : m \in Nodes
      BY StepFacts DEF IInv, TypeInv
    <3> QED
      BY <3>1, <3>2 DEF DoneIn, Finished, IInv, Known
  <2>3. \A m \in StepNodes(Steps[i]) : saved'[m] = saved[m]
      BY <2>1, <2>2, SavedStays
  <2>4. Memory' /\ wf' = wf
      BY NextMemory DEF Next, vars, SeePause, SkipStep, RunLevel, SkipLoop,
         EnterLoop, RunBodyLevel, Complete, Raise, Crash, Resume, Restart, BeginFails
  <2>5. DoneIn(saved, Steps[i])'
      BY <2>2, <2>3, <2>4 DEF DoneIn, Steps
  <2>6. SavedIsKept' /\ Steps' = Steps
      BY <2>4 DEF Memory, Steps
  <2>7. results'[n] = saved'[n]
      BY <2>5, <2>6 DEF SavedIsKept
  <2> QED
      BY <2>3, <2>7
<1> QED
    BY <1>1, RunInvariance, PTL DEF Spec, CheckpointIsFinal
-----------------------------------------------------------------------------
(* What leads to a node.                                                   *)

LEMMA DecidingFacts ==
    ASSUME wf \in Workflows, NEW i \in DOMAIN Steps
    PROVE  /\ DecidingOf(Steps[i]) \subseteq StepNodes(Steps[i])
           /\ DecidingOf(Steps[i]) \subseteq Nodes
           /\ Steps[i].kind = "loop" =>
                 \E n \in Nodes : Steps[i].levels[1] = {n}
<1>1. 1 \in DOMAIN Steps[i].levels
    BY LevelFacts
<1>2. Steps[i].levels[1] \subseteq StepNodes(Steps[i])
    BY <1>1, LevelFacts
<1>3. Steps[i].kind = "loop" => \E n \in Nodes : Steps[i].levels[1] = {n}
    BY PlansAssumption DEF PlannedForward, Steps, Nodes
<1> QED
    BY <1>2, <1>3, StepFacts DEF DecidingOf

(* Whether a deciding node runs depends on earlier steps alone.            *)
LEMMA Predecessors ==
    ASSUME wf \in Workflows, NEW i \in DOMAIN Steps,
           NEW n \in DecidingOf(Steps[i]), NEW e \in Incoming(n)
    PROVE  \E j \in DOMAIN Steps : /\ j < i
                                   /\ e.from \in StepNodes(Steps[j])
                                   /\ e.from \in Nodes
<1>1. e \in wf.edges \ UNION {Steps[h].back : h \in DOMAIN Steps} /\ e.to = n
    BY DEF Incoming, BackSet
<1>2. PICK h \in DOMAIN Steps, j \in DOMAIN Steps :
         \E k \in DOMAIN Steps[h].levels, l \in DOMAIN Steps[j].levels :
            /\ e.from \in Steps[h].levels[k]
            /\ e.to \in Steps[j].levels[l]
            /\ h < j \/ (h = j /\ k < l)
    BY <1>1, PlansAssumption DEF PlannedForward, Steps
<1>3. PICK k \in DOMAIN Steps[h].levels, l \in DOMAIN Steps[j].levels :
            /\ e.from \in Steps[h].levels[k]
            /\ e.to \in Steps[j].levels[l]
            /\ h < j \/ (h = j /\ k < l)
    BY <1>2
<1>4. e.from \in StepNodes(Steps[h]) /\ e.from \in Nodes /\ n \in StepNodes(Steps[j])
    BY <1>1, <1>3, LevelFacts
<1>5. j = i
    BY <1>4, DecidingFacts, StepsDisjoint
<1>6. ~(h = j /\ k < l)
  <2>1. SUFFICES ASSUME h = j, k < l PROVE FALSE
    OBVIOUS
  <2>2. k \in 1..Len(Steps[i].levels) /\ l \in 1..Len(Steps[i].levels)
    BY <1>5, <2>1, LevelFacts
  <2>3. CASE Steps[i].kind = "loop"
    <3>1. n \in Steps[i].levels[1]
      BY <2>3 DEF DecidingOf
    <3>2. l = 1
      BY <1>1, <1>3, <1>5, <3>1, LevelFacts, LevelsDisjoint
    <3> QED
      BY <2>1, <2>2, <3>2
  <2>4. CASE Steps[i].kind # "loop"
    <3>1. Len(Steps[i].levels) = 1
      BY <2>4, PlansAssumption DEF PlannedForward, Steps
    <3> QED
      BY <2>1, <2>2, <3>1
  <2> QED
    BY <2>3, <2>4
<1> QED
    BY <1>3, <1>4, <1>5, <1>6

(* The workflow is all that Incoming and IsEdgeLive depend on.             *)
LEMMA SameEdges ==
    ASSUME wf' = wf
    PROVE  /\ \A n : Incoming(n)' = Incoming(n)
           /\ \A e, o : IsEdgeLive(e, o)' <=> IsEdgeLive(e, o)
<1>1. BackSet' = BackSet
    BY DEF BackSet, Steps
<1> QED
    BY <1>1 DEF Incoming, IsEdgeLive

(* A step stays rightly decided while its results and those of the steps   *)
(* before it stay, and exit edges are only added.                          *)
LEMMA DecidedKept ==
    ASSUME wf \in Workflows, NEW i \in DOMAIN Steps, NEW R, NEW Q, NEW F, NEW G,
           DecidedIn(R, Steps[i], F), F \subseteq G,
           \A j \in DOMAIN Steps : j <= i =>
               \A n \in StepNodes(Steps[j]) : Q[n] = R[n]
    PROVE  DecidedIn(Q, Steps[i], G)
<1>1. i \in Int /\ i <= i
    BY StepsAreSeq
<1>2. \A n \in StepNodes(Steps[i]) : Q[n] = R[n]
    BY <1>1
<1>3. ASSUME NEW n \in DecidingOf(Steps[i])
      PROVE  Reached(Q, n) <=> Reached(R, n)
  <2>1. ASSUME NEW e \in Incoming(n) PROVE Q[e.from] = R[e.from]
    <3>1. PICK j \in DOMAIN Steps : j < i /\ e.from \in StepNodes(Steps[j])
      BY Predecessors
    <3>2. j <= i
      BY <1>1, <3>1, StepsAreSeq
    <3> QED
      BY <3>1, <3>2
  <2> QED
    BY <2>1 DEF Reached, LiveIn
<1>4. ASSUME NEW n \in DecidingOf(Steps[i])
      PROVE  /\ Q[n].status = "succeeded" => Enabled(Q, n, G)
             /\ Q[n].status = "skipped" => ~Reached(Q, n)
  <2>1. Q[n] = R[n]
    BY <1>2, DecidingFacts
  <2>2. Enabled(R, n, F) => Enabled(Q, n, G)
    BY <1>3 DEF Enabled
  <2> QED
    BY <1>3, <2>1, <2>2 DEF DecidedIn
<1>5. Steps[i].kind = "loop" =>
          \/ \A n \in StepNodes(Steps[i]) : Q[n].status # "skipped"
          \/ \A n \in StepNodes(Steps[i]) : Q[n].status = "skipped"
    BY <1>2 DEF DecidedIn
<1> QED
    BY <1>4, <1>5 DEF DecidedIn

LEMMA DecidedNext ==
    ASSUME wf' = wf, NEW i \in DOMAIN Steps
    PROVE  DecidedIn(saved, Steps[i], stopped)'
               <=> DecidedIn(saved', Steps[i], stopped')
<1>1. /\ \A n : Incoming(n)' = Incoming(n)
      /\ \A e, o : IsEdgeLive(e, o)' <=> IsEdgeLive(e, o)
    BY SameEdges
<1>2. Steps' = Steps
    BY DEF Steps
<1>3. \A n : Reached(saved, n)' <=> Reached(saved', n)
    BY <1>1 DEF Reached, LiveIn
<1>4. \A n : Enabled(saved, n, stopped)' <=> Enabled(saved', n, stopped')
    BY <1>1, <1>3 DEF Enabled
<1>5. DecidingOf(Steps[i])' = DecidingOf(Steps[i])
    BY <1>2 DEF DecidingOf, StepNodes
<1> QED
    BY <1>2, <1>3, <1>4, <1>5 DEF DecidedIn, StepNodes

(* At a step boundary the worker's reachability is that of the results,    *)
(* but for the exit edges that this attempt has forced.                    *)
LEMMA ReachableIs ==
    ASSUME IInv, Order, status = "running", NEW i \in DOMAIN Steps,
           NEW n \in DecidingOf(Steps[i])
    PROVE  /\ Reached(results, n) => IsReachable(n)
           /\ IsReachable(n) => Enabled(results, n, stopped)
<1>1. wf \in Workflows /\ forced \subseteq stopped
    BY DEF IInv, TypeInv, TypeOK
<1>2. ASSUME NEW e \in Incoming(n)
      PROVE  (reachable[e.from] /\ output[e.from] # Nothing
                  /\ IsEdgeLive(e, output[e.from]))
                 <=> LiveIn(results, e)
  <2>1. e.from \in Nodes
    BY <1>1, Predecessors
  <2>2. /\ reachable[e.from] = (results[e.from].status = "succeeded")
        /\ output[e.from] = results[e.from].output
        /\ results[e.from].status = "succeeded" => results[e.from].output # Nothing
    BY <2>1 DEF IInv, Context, Order, OutputsKnown
  <2> QED
    BY <2>2 DEF LiveIn
<1> QED
    BY <1>1, <1>2 DEF Reached, Enabled, IsReachable

(* Whether a step is reached can be read from the row as from memory: what *)
(* leads to it is in earlier steps.                                        *)
LEMMA RowDecides ==
    ASSUME IInv, Order, status = "running", step \in DOMAIN Steps,
           NEW n \in DecidingOf(Steps[step])
    PROVE  /\ Reached(saved, n) <=> Reached(results, n)
           /\ Enabled(saved, n, stopped) <=> Enabled(results, n, stopped)
<1>1. ASSUME NEW e \in Incoming(n) PROVE saved[e.from] = results[e.from]
  <2>1. wf \in Workflows /\ step \in Int
    BY StepsAreSeq DEF IInv, TypeInv
  <2>2. PICK j \in DOMAIN Steps : /\ j < step
                                  /\ e.from \in StepNodes(Steps[j])
                                  /\ e.from \in Nodes
    BY <2>1, Predecessors
  <2>3. e.from \notin Body
    BY <2>1, <2>2, StepsAreSeq, StepsDisjoint DEF Body
  <2> QED
    BY <2>2, <2>3 DEF IInv, Agreement
<1>2. Reached(saved, n) <=> Reached(results, n)
    BY <1>1 DEF Reached, LiveIn
<1> QED
    BY <1>2 DEF Enabled

-----------------------------------------------------------------------------
(* The order of the steps.                                                 *)

(* What the row has of the step the worker is at joins it in its order.    *)
LEMMA RowGrows ==
    ASSUME IInv, Order, status = "running", step \in DOMAIN Steps, wf' = wf,
           saved' = results', stopped \subseteq stopped',
           NEW S, S = StepNodes(Steps[step]), Body \subseteq S,
           DoneIn(saved, Steps[step]) => S = {},
           \A n \in Nodes \ S : results'[n] = results[n],
           DecidedIn(results', Steps[step], stopped')
    PROVE  /\ RowInOrder'
           /\ \A i \in DOMAIN Steps : i < step => DoneIn(saved', Steps[i])
<1>1. /\ wf \in Workflows /\ Steps' = Steps /\ step \in Int
      /\ Len(Steps) \in Nat /\ DOMAIN Steps = 1..Len(Steps)
    BY StepsAreSeq DEF IInv, TypeInv, Steps
<1>2. \A i \in DOMAIN Steps : i # step =>
          \A n \in StepNodes(Steps[i]) : saved'[n] = saved[n]
  <2>1. ASSUME NEW i \in DOMAIN Steps, i # step, NEW n \in StepNodes(Steps[i])
        PROVE  saved'[n] = saved[n]
    BY <2>1, OtherSteps
  <2> QED
    BY <2>1
<1>3. ASSUME NEW i \in DOMAIN Steps, i # step, DoneIn(saved, Steps[i])
      PROVE  DoneIn(saved', Steps[i])
    BY <1>2, <1>3 DEF DoneIn
<1>4. \A i \in DOMAIN Steps : i < step => DoneIn(saved', Steps[i])
    BY <1>1, <1>3 DEF Order, EarlierSaved
<1>5. ASSUME NEW i \in DOMAIN Steps, ~FreshIn(saved', Steps[i])
      PROVE  /\ DecidedIn(saved', Steps[i], stopped')
             /\ \A j \in DOMAIN Steps : j < i => DoneIn(saved', Steps[j])
  <2>1. CASE i = step
    BY <1>4, <2>1
  <2>2. CASE i # step
    <3>1. ~FreshIn(saved, Steps[i])
      BY <1>2, <1>5, <2>2 DEF FreshIn
    <3>2. /\ DecidedIn(saved, Steps[i], stopped)
          /\ \A j \in DOMAIN Steps : j < i => DoneIn(saved, Steps[j])
      BY <3>1 DEF Order, RowInOrder
    <3>3. step < i => S = {}
      BY <3>2
    <3>4. ASSUME NEW j \in DOMAIN Steps, j <= i, NEW n \in StepNodes(Steps[j])
          PROVE  saved'[n] = saved[n]
      <4>1. CASE j # step
        BY <1>2, <3>4, <4>1
      <4>2. CASE j = step
        <5>1. step < i
          BY <1>1, <2>2, <3>4, <4>2
        <5> QED
          BY <3>3, <3>4, <4>2, <5>1
      <4> QED
        BY <4>1, <4>2
    <3>5. DecidedIn(saved', Steps[i], stopped')
      BY <1>1, <3>2, <3>4, DecidedKept
    <3>6. ASSUME NEW j \in DOMAIN Steps, j < i PROVE DoneIn(saved', Steps[j])
      <4>1. j <= i
        BY <1>1, <3>6
      <4>2. \A n \in StepNodes(Steps[j]) : saved'[n] = saved[n]
        BY <3>4, <4>1
      <4> QED
        BY <3>2, <3>6, <4>2 DEF DoneIn
    <3> QED
      BY <3>5, <3>6
  <2> QED
    BY <2>1, <2>2
<1>6. \A i \in DOMAIN Steps : DecidedIn(saved, Steps[i], stopped)'
                                  <=> DecidedIn(saved', Steps[i], stopped')
    BY DecidedNext
<1>7. RowInOrder'
    BY <1>1, <1>5, <1>6 DEF RowInOrder, DoneIn, FreshIn
<1> QED
    BY <1>4, <1>7

(* A step that ends, decided by what is in memory.                         *)
LEMMA StepEndsInOrder ==
    ASSUME IInv, Order, status = "running", step \in DOMAIN Steps, wf' = wf,
           status' = status, NextStep, saved' = results', stopped \subseteq stopped',
           NEW S, S = StepNodes(Steps[step]), Body \subseteq S,
           DoneIn(saved, Steps[step]) => S = {},
           \A n \in Nodes \ S : results'[n] = results[n],
           \A n \in Nodes : results'[n].status = "succeeded"
                                => results'[n].output # Nothing,
           DoneIn(results', Steps[step]),
           DecidedIn(results', Steps[step], stopped')
    PROVE  Order'
<1>1. /\ wf \in Workflows /\ Steps' = Steps /\ Nodes' = Nodes
      /\ Len(Steps) \in Nat /\ DOMAIN Steps = 1..Len(Steps)
      /\ step' = step + 1 /\ level' = 0 /\ step \in Int
      /\ status' = "running"
    BY StepsAreSeq DEF IInv, TypeInv, Steps, Nodes, NextStep
<1>2. /\ RowInOrder'
      /\ \A i \in DOMAIN Steps : i < step => DoneIn(saved', Steps[i])
    BY RowGrows
<1>3. EarlierSaved'
  <2>1. ASSUME NEW i \in DOMAIN Steps, i < step + 1 PROVE DoneIn(saved', Steps[i])
    <3>1. CASE i = step
      BY <3>1
    <3>2. CASE i # step
      <4>1. i < step
        BY <1>1, <2>1, <3>2
      <4> QED
        BY <1>2, <4>1
    <3> QED
      BY <3>1, <3>2
  <2> QED
    BY <1>1, <2>1 DEF EarlierSaved, DoneIn
<1>4. LoopReached'
    BY <1>1 DEF LoopReached
<1>5. OutputsKnown'
    BY <1>1 DEF OutputsKnown
<1> QED
    BY <1>2, <1>3, <1>4, <1>5 DEF Order

(* A step that fails.                                                      *)
LEMMA StepFailsInOrder ==
    ASSUME IInv, Order, status = "running", step \in DOMAIN Steps, wf' = wf,
           MarkFailed,
           NEW S, S = StepNodes(Steps[step]), Body \subseteq S,
           DoneIn(saved, Steps[step]) => S = {},
           \A n \in Nodes \ S : results'[n] = results[n],
           \A n \in Nodes : results'[n].status = "succeeded"
                                => results'[n].output # Nothing,
           DecidedIn(results', Steps[step], stopped')
    PROVE  Order'
<1>1. saved' = results' /\ stopped' = stopped /\ status' = "failed" /\ Nodes' = Nodes
    BY DEF MarkFailed, Nodes
<1>2. RowInOrder'
    BY <1>1, RowGrows
<1> QED
    BY <1>1, <1>2 DEF Order, EarlierSaved, LoopReached, OutputsKnown

(* A level leaves an output of every node that succeeded.                  *)
LEMMA RecordOutputs ==
    ASSUME IInv, Order, NEW run, NEW good, NEW skip, good \cup skip \subseteq Nodes,
           NEW f \in LevelResults(good, skip), Record(f, run),
           NEW n \in Nodes, results'[n].status = "succeeded"
    PROVE  results'[n].output # Nothing
<1>1. CASE n \in good
    BY <1>1, RecordFacts DEF IInv
<1>2. CASE n \in skip
    BY <1>2, RecordFacts DEF IInv
<1>3. CASE n \notin good \cup skip
  <2>1. results'[n] = results[n]
    BY <1>3, RecordFacts DEF IInv
  <2> QED
    BY <2>1 DEF Order, OutputsKnown
<1> QED
    BY <1>1, <1>2, <1>3

(* What leads to a step is not changed by it.                              *)
LEMMA ReachedKept ==
    ASSUME wf \in Workflows, step \in DOMAIN Steps,
           \A n \in Nodes \ StepNodes(Steps[step]) : results'[n] = results[n],
           NEW n \in DecidingOf(Steps[step])
    PROVE  Reached(results', n) <=> Reached(results, n)
<1>1. ASSUME NEW e \in Incoming(n) PROVE results'[e.from] = results[e.from]
  <2>1. PICK j \in DOMAIN Steps : /\ j < step
                                  /\ e.from \in StepNodes(Steps[j])
                                  /\ e.from \in Nodes
    BY Predecessors
  <2>2. e.from \notin StepNodes(Steps[step])
    BY <2>1, StepsAreSeq, StepsDisjoint
  <2> QED
    BY <2>1, <2>2
<1> QED
    BY <1>1 DEF Reached, LiveIn

(* A level, or a loop that is skipped: what it leaves is rightly decided,  *)
(* also of the nodes that failed and have a result from another attempt.   *)
LEMMA WholeStepDecided ==
    ASSUME IInv, Order, status = "running", level = 0, step \in DOMAIN Steps,
           ~AlreadyDone, NEW run, NEW good, NEW skip, good \subseteq run,
           run \cap skip = {}, run \cup skip = StepNodes(Steps[step]),
           \A n \in DecidingOf(Steps[step]) : n \in run <=> IsReachable(n),
           Steps[step].kind = "loop" => run = {},
           NEW f \in LevelResults(good, skip), Record(f, run)
    PROVE  /\ \A n \in Nodes \ StepNodes(Steps[step]) : results'[n] = results[n]
           /\ \A n \in good : /\ results'[n].status = "succeeded"
                              /\ results'[n].count = saved[n].count + 1
           /\ \A n \in skip : /\ results'[n].status = "skipped"
                              /\ results'[n].count = saved[n].count + 1
           /\ \A n \in run \ good : results'[n] = saved[n]
           /\ DecidedIn(results', Steps[step], stopped)
<1> DEFINE S == StepNodes(Steps[step])
<1>1. /\ wf \in Workflows /\ S \subseteq Nodes /\ Body = {} /\ TypeInv
      /\ good \cup skip \subseteq S /\ good \cup skip \subseteq Nodes
    BY StepFacts DEF IInv, TypeInv, Body
<1>2. \A n \in Nodes : saved[n] = results[n]
    BY <1>1 DEF IInv, Agreement
<1>3. \A n \in Nodes \ S : results'[n] = results[n]
    BY <1>1, RecordFacts
<1>4. ASSUME NEW n \in S
      PROVE  /\ n \in good => /\ results'[n].status = "succeeded"
                              /\ results'[n].count = saved[n].count + 1
             /\ n \in skip => /\ results'[n].status = "skipped"
                              /\ results'[n].count = saved[n].count + 1
             /\ n \notin good \cup skip => results'[n] = saved[n]
  <2>1. n \in Nodes /\ saved[n] = results[n]
    BY <1>1, <1>2
  <2> QED
    BY <1>1, <2>1, RecordFacts
<1>5. ASSUME NEW n \in DecidingOf(Steps[step])
      PROVE  /\ results'[n].status = "succeeded" => Enabled(results', n, stopped)
             /\ results'[n].status = "skipped" => ~Reached(results', n)
  <2>1. n \in S
    BY <1>1, DecidingFacts
  <2>2. Reached(results', n) <=> Reached(results, n)
    BY <1>1, <1>3, ReachedKept
  <2>3. /\ Reached(results, n) => IsReachable(n)
        /\ IsReachable(n) => Enabled(results, n, stopped)
    BY ReachableIs
  <2>4. Enabled(results', n, stopped) <=> Enabled(results, n, stopped)
    BY <2>2 DEF Enabled
  <2>5. CASE n \in good
    BY <1>4, <2>1, <2>3, <2>4, <2>5
  <2>6. CASE n \in skip
    BY <1>4, <2>1, <2>2, <2>3, <2>6
  <2>7. CASE n \notin good \cup skip
    <3>1. results'[n] = saved[n]
      BY <1>4, <2>1, <2>7
    <3>2. CASE saved[n] = NoResult
      BY <3>1, <3>2 DEF NoResult
    <3>3. CASE saved[n] # NoResult
      <4>1. DecidedIn(saved, Steps[step], stopped)
        BY <2>1, <3>3 DEF Order, RowInOrder, FreshIn
      <4>2. /\ Reached(saved, n) <=> Reached(results, n)
            /\ Enabled(saved, n, stopped) <=> Enabled(results, n, stopped)
        BY RowDecides
      <4> QED
        BY <2>2, <2>4, <3>1, <4>1, <4>2 DEF DecidedIn
    <3> QED
      BY <3>2, <3>3
  <2> QED
    BY <2>5, <2>6, <2>7
<1>6. Steps[step].kind = "loop" => \A n \in S : results'[n].status = "skipped"
    BY <1>4
<1>7. DecidedIn(results', Steps[step], stopped)
    BY <1>5, <1>6 DEF DecidedIn
<1> QED
    BY <1>1, <1>3, <1>4, <1>7

(* A level of its own, or a loop that is not reached.                      *)
LEMMA WholeStepInOrder ==
    ASSUME IInv, Order, status = "running", level = 0, step \in DOMAIN Steps,
           ~AlreadyDone, wf' = wf, stopped' = stopped,
           NEW run, NEW good, NEW skip, good \subseteq run, run \cap skip = {},
           run \cup skip = StepNodes(Steps[step]),
           \A n \in DecidingOf(Steps[step]) : n \in run <=> IsReachable(n),
           Steps[step].kind = "loop" => run = {},
           NEW f \in LevelResults(good, skip), Record(f, run),
           \/ MarkFailed
           \/ good = run /\ NextStep /\ saved' = results' /\ status' = status
    PROVE  Order'
<1> DEFINE S == StepNodes(Steps[step])
<1>1. Body \subseteq S /\ good \cup skip \subseteq Nodes
    BY StepFacts DEF IInv, TypeInv, Body
<1>2. DoneIn(saved, Steps[step]) => S = {}
    BY DueIsOpen
<1>3. \A n \in Nodes : results'[n].status = "succeeded" => results'[n].output # Nothing
    BY <1>1, RecordOutputs
<1>4. /\ \A n \in Nodes \ S : results'[n] = results[n]
      /\ \A n \in good : results'[n].status = "succeeded"
      /\ \A n \in skip : results'[n].status = "skipped"
      /\ DecidedIn(results', Steps[step], stopped')
    BY WholeStepDecided
<1>5. CASE MarkFailed
  <2> HIDE DEF S
  <2> QED
    BY <1>1, <1>2, <1>3, <1>4, <1>5, StepFailsInOrder DEF S
<1>6. CASE good = run /\ NextStep /\ saved' = results' /\ status' = status
  <2>1. DoneIn(results', Steps[step])
    BY <1>4, <1>6 DEF DoneIn, Finished
  <2>2. stopped \subseteq stopped'
    OBVIOUS
  <2> HIDE DEF S
  <2> QED
    BY <1>1, <1>2, <1>3, <1>4, <1>6, <2>1, <2>2, StepEndsInOrder DEF S
<1> QED
    BY <1>5, <1>6

(* What the running loop leaves when it ends or fails: it was reached, and *)
(* nothing of it was skipped.                                              *)
LEMMA BodyDecided ==
    ASSUME IInv, Order, status = "running", level > 0,
           NEW exits, stopped \subseteq exits, NEW fail,
           fail \subseteq Steps[step].levels[level],
           NEW f \in LevelResults(Steps[step].levels[level] \ fail, {}),
           Record(f, Steps[step].levels[level])
    PROVE  /\ \A n \in Steps[step].levels[1] : Enabled(results', n, exits)
           /\ DecidedIn(results', Steps[step], exits)
<1> DEFINE loop == Steps[step]
           B == StepNodes(loop)
<1>1. /\ wf \in Workflows /\ step \in DOMAIN Steps /\ level \in DOMAIN loop.levels
      /\ loop.kind = "loop" /\ ~DoneIn(saved, loop)
    BY StepsAreSeq DEF IInv, TypeInv, TypeOK, RoundSoFar
<1>2. loop.levels[level] \subseteq B /\ DecidingOf(loop) = loop.levels[1]
    BY <1>1, LevelFacts DEF DecidingOf
<1>3. \A n \in Nodes \ B : results'[n] = results[n]
    BY <1>2, BodyRecord
<1>4. ASSUME NEW n \in loop.levels[1] PROVE Enabled(results', n, exits)
  <2>1. Reached(results', n) <=> Reached(results, n)
    BY <1>1, <1>2, <1>3, ReachedKept
  <2>2. Enabled(results, n, stopped)
    BY DEF Order, LoopReached
  <2> QED
    BY <2>1, <2>2 DEF Enabled
<1>5. \A n \in B : saved[n].status # "skipped"
  <2>1. CASE FreshIn(saved, loop)
    <3>1. NoResult.status # "skipped"
      BY DEF NoResult
    <3> QED
      BY <2>1, <3>1 DEF FreshIn
  <2>2. CASE ~FreshIn(saved, loop)
    <3>1. DecidedIn(saved, loop, stopped)
      BY <1>1, <2>2 DEF Order, RowInOrder
    <3>2. ~ \A n \in B : saved[n].status = "skipped"
      BY <1>1 DEF DoneIn, Finished
    <3> QED
      BY <1>1, <3>1, <3>2 DEF DecidedIn
  <2> QED
    BY <2>1, <2>2
<1>6. ASSUME NEW n \in B PROVE results'[n].status # "skipped"
  <2>1. PICK k \in DOMAIN loop.levels : n \in loop.levels[k]
    BY <1>6 DEF StepNodes
  <2>2. \E more \in {iteration, iteration + 1} :
             IF more = 0 THEN results'[n] = saved[n]
                         ELSE results'[n].status = "succeeded"
    BY <2>1, BodyRecord
  <2> QED
    BY <1>5, <2>2
<1>7. DecidedIn(results', loop, exits)
    BY <1>2, <1>4, <1>6, DecidingFacts, <1>1 DEF DecidedIn
<1> QED
    BY <1>4, <1>7

(* After the last level of a round every node of the loop has succeeded in *)
(* all rounds so far.                                                      *)
LEMMA RoundEnds ==
    ASSUME IInv, status = "running", level > 0, level = Len(Steps[step].levels),
           NEW f \in LevelResults(Steps[step].levels[level] \ {}, {}),
           Record(f, Steps[step].levels[level]),
           NEW n \in StepNodes(Steps[step])
    PROVE  /\ results'[n].count = saved[n].count + (iteration + 1)
           /\ results'[n].status = "succeeded"
           /\ output'[n] = results'[n].output
<1> DEFINE loop == Steps[step]
<1>1. wf \in Workflows /\ step \in DOMAIN Steps /\ iteration \in Nat
    BY StepsAreSeq DEF IInv, TypeInv, TypeOK
<1>2. DOMAIN loop.levels = 1..Len(loop.levels) /\ Len(loop.levels) \in Nat
    BY <1>1, LevelFacts
<1>3. PICK k \in DOMAIN loop.levels : n \in loop.levels[k]
    BY DEF StepNodes
<1>4. k < level \/ (k = level /\ n \notin {})
    BY <1>2
<1>5. iteration + 1 # 0
    BY <1>1
<1>6. {} \subseteq loop.levels[level]
    OBVIOUS
<1>7. LET more == IF k < level \/ (k = level /\ n \notin {})
                    THEN iteration + 1 ELSE iteration
      IN  /\ results'[n].count = saved[n].count + more
          /\ IF more = 0 THEN results'[n] = saved[n]
                         ELSE /\ results'[n].status = "succeeded"
                              /\ reachable'[n] = TRUE
                              /\ output'[n] = results'[n].output
          /\ k = level <=> n \in loop.levels[level]
    BY <1>3, <1>6, BodyRecord
<1> QED
    BY <1>4, <1>5, <1>7

(* One level of the body of a loop.                                        *)
LEMMA BodyLevelInOrder == ASSUME IInv, Order, RunBodyLevel PROVE Order'
<1> DEFINE loop == Steps[step]
           L == loop.levels[level]
           B == StepNodes(loop)
<1>1. PICK fail \in SUBSET L : \E f \in LevelResults(L \ fail, {}) :
        /\ Record(f, L)
        /\ \/ fail # {} /\ MarkFailed
           \/ /\ fail = {}
              /\ \/ /\ level' = level + 1
                    /\ UNCHANGED <<status, step, saved, stopped>>
                 \/ /\ NextRound
                    /\ UNCHANGED <<status, saved, stopped>>
                 \/ /\ level = Len(loop.levels)
                    /\ NextStep
                    /\ saved' = results'
                    /\ UNCHANGED status
                    /\ \/ stopped' = stopped \cup loop.exit
                       \/ UNCHANGED stopped
    BY DEF RunBodyLevel, history
<1>2. PICK f \in LevelResults(L \ fail, {}) : Record(f, L)
    BY <1>1
<1>3. /\ wf' = wf /\ Steps' = Steps /\ Nodes' = Nodes
      /\ wf \in Workflows /\ status = "running" /\ level \in Nat /\ level > 0
    BY DEF RunBodyLevel, IInv, TypeInv, TypeOK, Steps, Nodes
<1>4. step \in DOMAIN Steps /\ level \in DOMAIN loop.levels
    BY <1>3, StepsAreSeq DEF IInv, TypeInv, TypeOK
<1>5. L \subseteq B /\ B \subseteq Nodes /\ Body \subseteq B
    BY <1>3, <1>4, LevelFacts, StepFacts DEF Body
<1>6. ~DoneIn(saved, loop)
    BY <1>3 DEF IInv, RoundSoFar
<1>7. \A n \in Nodes \ B : results'[n] = results[n]
  <2>1. \A n \in Nodes \ (L \ fail) : results'[n] = results[n]
    BY <1>2, <1>3, BodyRecord
  <2> QED
    BY <1>5, <2>1
<1>8. \A n \in Nodes : results'[n].status = "succeeded" => results'[n].output # Nothing
  <2> DEFINE good == L \ fail
  <2>1. good \cup {} \subseteq Nodes /\ f \in LevelResults(good, {}) /\ Record(f, L)
    BY <1>2, <1>5
  <2> HIDE DEF good, L
  <2> QED
    BY <2>1, RecordOutputs
<1>9. /\ stopped \subseteq stopped'
      /\ \/ MarkFailed
         \/ level' > 0 /\ UNCHANGED <<status, step, saved, stopped>>
         \/ /\ fail = {} /\ level = Len(loop.levels)
            /\ NextStep /\ saved' = results' /\ status' = status
  <2>1. CASE MarkFailed
    BY <2>1 DEF MarkFailed
  <2>2. CASE level' = level + 1 /\ UNCHANGED <<status, step, saved, stopped>>
    BY <1>3, <2>2
  <2>3. CASE NextRound /\ UNCHANGED <<status, saved, stopped>>
    BY <2>3 DEF NextRound
  <2> HIDE DEF L
  <2> QED
    BY <1>1, <2>1, <2>2, <2>3
<1>10. /\ \A n \in loop.levels[1] : Enabled(results', n, stopped')
       /\ DecidedIn(results', loop, stopped')
    BY <1>2, <1>3, <1>9, BodyDecided
<1>11. CASE MarkFailed
  <2> HIDE DEF L
  <2> QED
    BY <1>3, <1>4, <1>5, <1>6, <1>7, <1>8, <1>10, <1>11, StepFailsInOrder
<1>12. CASE level' > 0 /\ UNCHANGED <<status, step, saved, stopped>>
  <2>1. RowInOrder'
    <3>1. \A i \in DOMAIN Steps : DecidedIn(saved, Steps[i], stopped)'
                                    <=> DecidedIn(saved', Steps[i], stopped')
      BY <1>3, DecidedNext
    <3> QED
      BY <1>3, <1>12, <3>1 DEF Order, RowInOrder, DoneIn, FreshIn
  <2>2. EarlierSaved'
    BY <1>3, <1>12 DEF Order, EarlierSaved, DoneIn
  <2>3. LoopReached'
    <3>1. \A n : Enabled(results, n, stopped)' <=> Enabled(results', n, stopped')
      <4>1. /\ \A n : Incoming(n)' = Incoming(n)
            /\ \A e, o : IsEdgeLive(e, o)' <=> IsEdgeLive(e, o)
        BY <1>3, SameEdges
      <4> QED
        BY <4>1 DEF Enabled, Reached, LiveIn
    <3> QED
      BY <1>3, <1>10, <1>12, <3>1 DEF LoopReached
  <2>4. OutputsKnown'
    BY <1>3, <1>8, <1>12 DEF Order, OutputsKnown
  <2> QED
    BY <2>1, <2>2, <2>3, <2>4 DEF Order
<1>13. CASE /\ fail = {}
            /\ level = Len(loop.levels)
            /\ NextStep
            /\ saved' = results'
            /\ status' = status
  <2>1. \A n \in B : results'[n].status = "succeeded"
    BY <1>2, <1>3, <1>13, RoundEnds
  <2>2. DoneIn(results', loop)
    BY <2>1 DEF DoneIn, Finished
  <2> HIDE DEF L
  <2> QED
    BY <1>1, <1>3, <1>4, <1>5, <1>6, <1>7, <1>8, <1>9, <1>10, <1>13, <2>2, StepEndsInOrder
<1> QED
    BY <1>9, <1>11, <1>12, <1>13

(* What does not touch the row leaves its order as it is.                  *)
LEMMA RowStays ==
    ASSUME RowInOrder, wf' = wf, saved' = saved, stopped' = stopped
    PROVE  RowInOrder'
<1>1. Steps' = Steps
    BY DEF Steps
<1>2. \A i \in DOMAIN Steps : DecidedIn(saved, Steps[i], stopped)'
                                  <=> DecidedIn(saved', Steps[i], stopped')
    BY DecidedNext
<1> QED
    BY <1>1, <1>2 DEF RowInOrder, DoneIn, FreshIn

(* An empty row is in order.                                               *)
LEMMA BlankOrder ==
    ASSUME TypeInv, wf' = wf, Blank, status' # "completed"
    PROVE  Order'
<1>1. /\ wf \in Workflows /\ Steps' = Steps /\ Nodes' = Nodes
      /\ step' = 1 /\ level' = 0
      /\ \A n \in Nodes : results'[n] = NoResult /\ saved'[n] = NoResult
    BY DEF TypeInv, Blank, Steps, Nodes
<1>2. /\ DOMAIN Steps = 1..Len(Steps) /\ Len(Steps) \in Nat
      /\ \A i \in DOMAIN Steps : StepNodes(Steps[i]) \subseteq Nodes
    BY <1>1, StepsAreSeq, StepFacts
<1>3. RowInOrder'
    BY <1>1, <1>2 DEF RowInOrder, FreshIn
<1>4. EarlierSaved'
    BY <1>1, <1>2 DEF EarlierSaved
<1>5. LoopReached' /\ OutputsKnown'
    BY <1>1 DEF LoopReached, OutputsKnown, NoResult
<1> QED
    BY <1>3, <1>4, <1>5 DEF Order

LEMMA NextOrder == IInv /\ Order /\ [Next]_vars => Order'
<1> SUFFICES ASSUME IInv, Order, [Next]_vars PROVE Order'
    OBVIOUS
<1>0. /\ wf \in Workflows /\ TypeOK /\ Len(Steps) \in Nat
      /\ DOMAIN Steps = 1..Len(Steps) /\ step \in 1..(Len(Steps) + 1)
    BY StepsAreSeq DEF IInv, TypeInv, TypeOK
<1>1. CASE SeePause
  <2>1. /\ wf' = wf /\ saved' = results /\ results' = results /\ stopped' = stopped
        /\ status' = "paused" /\ AtBoundary
        /\ Steps' = Steps /\ Nodes' = Nodes
    BY <1>1 DEF SeePause, AtBoundary, work, history, Steps, Nodes
  <2>2. saved' = saved
    BY <2>1, BoundaryAgrees
  <2>3. RowInOrder'
    BY <2>1, <2>2, RowStays DEF Order
  <2> QED
    BY <2>1, <2>3 DEF Order, EarlierSaved, LoopReached, OutputsKnown
<1>2. CASE SkipStep
  <2>1. /\ wf' = wf /\ saved' = saved /\ results' = results /\ stopped' = stopped
        /\ status = "running" /\ status' = "running" /\ AlreadyDone
        /\ step' = step + 1 /\ level' = 0 /\ step \in DOMAIN Steps
        /\ Steps' = Steps /\ Nodes' = Nodes
    BY <1>0, <1>2 DEF SkipStep, AtBoundary, NextStep, history, Steps, Nodes
  <2>2. RowInOrder'
    BY <2>1, RowStays DEF Order
  <2>3. DoneIn(saved, Steps[step])
    BY <2>1 DEF AlreadyDone, IInv, Agreement, DoneIn
  <2>4. EarlierSaved'
    <3>1. ASSUME NEW i \in DOMAIN Steps, i < step + 1 PROVE DoneIn(saved, Steps[i])
      <4>1. CASE i = step
        BY <2>3, <4>1
      <4>2. CASE i # step
        <5>1. i < step
          BY <1>0, <3>1, <4>2
        <5> QED
          BY <2>1, <5>1 DEF Order, EarlierSaved
      <4> QED
        BY <4>1, <4>2
    <3> QED
      BY <2>1, <3>1 DEF EarlierSaved, DoneIn
  <2> QED
    BY <2>1, <2>2, <2>4 DEF Order, LoopReached, OutputsKnown
<1>3. CASE RunLevel
  <2> DEFINE nodes == StepNodes(Steps[step])
             run == {n \in nodes : IsReachable(n)}
             skip == nodes \ run
  <2>1. PICK fail \in SUBSET run : \E f \in LevelResults(run \ fail, skip) :
          /\ Record(f, run)
          /\ \/ fail # {} /\ MarkFailed
             \/ /\ fail = {} /\ NextStep /\ saved' = results'
                /\ UNCHANGED <<status, forced, history>>
    BY <1>3 DEF RunLevel
  <2> DEFINE good == run \ fail
  <2>2. PICK f \in LevelResults(good, skip) : Record(f, run)
    BY <2>1
  <2>3. /\ run \cap skip = {} /\ run \cup skip = StepNodes(Steps[step])
        /\ good \subseteq run
    OBVIOUS
  <2>4. /\ status = "running" /\ level = 0 /\ step \in DOMAIN Steps
        /\ ~AlreadyDone /\ wf' = wf /\ Steps[step].kind = "level"
    BY <1>0, <1>3 DEF RunLevel, AtStep, AtBoundary
  <2>5. \/ MarkFailed
        \/ good = run /\ NextStep /\ saved' = results' /\ status' = status
    BY <2>1
  <2>6. stopped' = stopped
    BY <2>1 DEF MarkFailed, history
  <2>7. \A n \in DecidingOf(Steps[step]) : n \in run <=> IsReachable(n)
    BY <2>4 DEF DecidingOf
  <2> HIDE DEF run, skip, good
  <2> QED
    BY <2>2, <2>3, <2>4, <2>5, <2>6, <2>7, WholeStepInOrder
<1>4. CASE SkipLoop
  <2> DEFINE nodes == StepNodes(Steps[step])
  <2>1. PICK f \in LevelResults({}, nodes) : Record(f, {})
    BY <1>4 DEF SkipLoop
  <2>2. {} \cap nodes = {} /\ {} \cup nodes = StepNodes(Steps[step])
    OBVIOUS
  <2>3. /\ status = "running" /\ level = 0 /\ step \in DOMAIN Steps
        /\ ~AlreadyDone /\ wf' = wf /\ stopped' = stopped
        /\ NextStep /\ saved' = results' /\ status' = status
        /\ Steps[step].kind = "loop"
        /\ ~ \E n \in Steps[step].levels[1] : IsReachable(n)
    BY <1>0, <1>4 DEF SkipLoop, AtStep, AtBoundary, history
  <2>4. \A n \in DecidingOf(Steps[step]) : n \in {} <=> IsReachable(n)
    BY <2>3 DEF DecidingOf
  <2> HIDE DEF nodes
  <2> QED
    BY <2>1, <2>2, <2>3, <2>4, WholeStepInOrder
<1>5. CASE EnterLoop
  <2>1. /\ wf' = wf /\ saved' = saved /\ results' = results /\ stopped' = stopped
        /\ status = "running" /\ status' = "running" /\ step' = step
        /\ step \in DOMAIN Steps /\ Steps[step].kind = "loop"
        /\ \E n \in Steps[step].levels[1] : IsReachable(n)
        /\ Steps' = Steps /\ Nodes' = Nodes
    BY <1>0, <1>5 DEF EnterLoop, AtStep, AtBoundary, history, Steps, Nodes
  <2>2. RowInOrder'
    BY <2>1, RowStays DEF Order
  <2>3. ASSUME NEW n \in Steps[step].levels[1]
        PROVE  Enabled(results, n, stopped)
    <3>1. PICK m \in Steps[step].levels[1] : IsReachable(m)
      BY <2>1
    <3>2. m = n
      BY <1>0, <2>1, DecidingFacts
    <3>3. n \in DecidingOf(Steps[step])
      BY <2>1 DEF DecidingOf
    <3> QED
      BY <2>1, <3>1, <3>2, <3>3, ReachableIs
  <2>4. LoopReached'
    <3>1. /\ \A n : Incoming(n)' = Incoming(n)
          /\ \A e, o : IsEdgeLive(e, o)' <=> IsEdgeLive(e, o)
      BY <2>1, SameEdges
    <3>2. \A n : Enabled(results, n, stopped)' <=> Enabled(results, n, stopped)
      BY <2>1, <3>1 DEF Enabled, Reached, LiveIn
    <3> QED
      BY <2>1, <2>3, <3>2 DEF LoopReached
  <2> QED
    BY <2>1, <2>2, <2>4 DEF Order, EarlierSaved, OutputsKnown, DoneIn
<1>6. CASE RunBodyLevel
    BY <1>6, BodyLevelInOrder
<1>7. CASE Complete
  <2>1. /\ wf' = wf /\ saved' = results /\ results' = results /\ stopped' = stopped
        /\ status = "running" /\ status' = "completed" /\ AtBoundary
        /\ step = Len(Steps) + 1 /\ Steps' = Steps /\ Nodes' = Nodes
    BY <1>7 DEF Complete, AtBoundary, work, history, Steps, Nodes
  <2>2. saved' = saved
    BY <2>1, BoundaryAgrees
  <2>3. RowInOrder'
    BY <2>1, <2>2, RowStays DEF Order
  <2>4. \A i \in DOMAIN Steps : DoneIn(saved, Steps[i])
    <3>1. \A i \in DOMAIN Steps : i < step
      BY <1>0, <2>1
    <3> QED
      BY <2>1, <3>1 DEF Order, EarlierSaved
  <2>5. EarlierSaved'
    BY <2>1, <2>2, <2>4 DEF EarlierSaved, DoneIn
  <2> QED
    BY <2>1, <2>3, <2>5 DEF Order, LoopReached, OutputsKnown
<1>8. CASE Raise \/ Crash
  <2>1. /\ wf' = wf /\ saved' = saved /\ results' = results /\ stopped' = stopped
        /\ status' \in {"failed", "lost"} /\ Nodes' = Nodes
    BY <1>8 DEF Raise, Crash, work, history, Nodes
  <2>2. RowInOrder'
    BY <2>1, RowStays DEF Order
  <2> QED
    BY <2>1, <2>2 DEF Order, EarlierSaved, LoopReached, OutputsKnown
<1>9. CASE Resume
  <2>1. /\ wf' = wf /\ saved' = results' /\ stopped' = stopped
        /\ status' = "running" /\ step' = 1 /\ level' = 0
        /\ Steps' = Steps /\ Nodes' = Nodes
    BY <1>9 DEF Resume, Steps, Nodes, history
  <2>2. results' = saved /\ saved' = saved
    BY <1>9, <2>1, ResumeRestoresRow
  <2>3. RowInOrder'
    BY <2>1, <2>2, RowStays DEF Order
  <2>4. EarlierSaved'
    <3>1. \A i \in DOMAIN Steps : ~(i < 1)
      BY <1>0
    <3> QED
      BY <2>1, <3>1 DEF EarlierSaved
  <2> QED
    BY <2>1, <2>2, <2>3, <2>4 DEF Order, LoopReached, OutputsKnown
<1>10. CASE Restart \/ BeginFails
  <2>1. Blank /\ wf' = wf /\ status' # "completed"
    BY <1>10 DEF Restart, BeginFails
  <2> QED
    BY <2>1, BlankOrder DEF IInv
<1>11. CASE UNCHANGED vars
  <2>1. /\ wf' = wf /\ saved' = saved /\ results' = results /\ stopped' = stopped
        /\ status' = status /\ step' = step /\ level' = level
        /\ Steps' = Steps /\ Nodes' = Nodes
    BY <1>11 DEF vars, Steps, Nodes
  <2>2. RowInOrder'
    BY <2>1, RowStays DEF Order
  <2>3. LoopReached'
    <3>1. /\ \A n : Incoming(n)' = Incoming(n)
          /\ \A e, o : IsEdgeLive(e, o)' <=> IsEdgeLive(e, o)
      BY <2>1, SameEdges
    <3>2. \A n : Enabled(results, n, stopped)' <=> Enabled(results, n, stopped)
      BY <2>1, <3>1 DEF Enabled, Reached, LiveIn
    <3> QED
      BY <2>1, <3>2 DEF Order, LoopReached
  <2> QED
    BY <2>1, <2>2, <2>3 DEF Order, EarlierSaved, OutputsKnown, DoneIn
<1> QED
    BY <1>1, <1>2, <1>3, <1>4, <1>5, <1>6, <1>7, <1>8, <1>9, <1>10, <1>11 DEF Next

LEMMA InitOrder == Init => Order
<1> SUFFICES ASSUME Init PROVE Order
    OBVIOUS
<1>1. wf \in Workflows /\ status = "running" /\ step = 1 /\ level = 0
    BY DEF Init
<1>2. /\ DOMAIN Steps = 1..Len(Steps) /\ Len(Steps) \in Nat
      /\ \A i \in DOMAIN Steps : StepNodes(Steps[i]) \subseteq Nodes
    BY <1>1, StepsAreSeq, StepFacts
<1>3. \A i \in DOMAIN Steps : FreshIn(saved, Steps[i])
    BY <1>2 DEF Init, FreshIn
<1>4. EarlierSaved
    BY <1>1, <1>2 DEF EarlierSaved
<1>5. OutputsKnown
    BY DEF Init, OutputsKnown, NoResult
<1> QED
    BY <1>1, <1>3, <1>4, <1>5 DEF Order, RowInOrder, LoopReached

(* Besides, the row always holds whole steps from the start of the plan,   *)
(* of one step more at most a part that a failure left, and every result   *)
(* in it is one that the results before it call for.                       *)
THEOREM OrderInvariance == Spec => [](IInv /\ Order)
<1>1. Init => IInv /\ Order
    BY InitIInv, InitOrder
<1>2. IInv /\ Order /\ [Next]_vars => (IInv /\ Order)'
    BY NextTypeInv, NextMemory, NextOrder DEF IInv, Memory
<1> QED
    BY <1>1, <1>2, PTL DEF Spec

(* Whatever pauses, crashes, failures and attempts a completed run went    *)
(* through, it ran exactly what its branches led to.  A resume forgets     *)
(* which exit edges were forced, but the steps after the loop that are not *)
(* done in the row are decided again from it, so a node they skip had no   *)
(* live edge.                                                              *)
THEOREM SkipsExact == Spec => []SkipsExactlyDeadBranches
<1>1. IInv /\ Order => SkipsExactlyDeadBranches
  <2> SUFFICES ASSUME IInv, Order, status = "completed"
               PROVE  SkipsExactlyDeadBranches
    BY DEF SkipsExactlyDeadBranches
  <2>1. /\ saved = results /\ wf \in Workflows
        /\ \A i \in DOMAIN Steps : DoneIn(results, Steps[i])
    BY DEF Order, EarlierSaved, IInv, TypeInv
  <2>2. ASSUME NEW n \in Nodes PROVE results[n].status \in {"succeeded", "skipped"}
    <3>1. PICK i \in DOMAIN Steps : n \in StepNodes(Steps[i])
      BY <2>1, EveryNodePlanned
    <3> QED
      BY <2>1, <3>1 DEF DoneIn, Finished
  <2>3. ASSUME NEW i \in DOMAIN Steps, NEW n \in StepNodes(Steps[i])
        PROVE  DecidedIn(results, Steps[i], stopped)
    <3>1. ~FreshIn(results, Steps[i])
      BY <2>1, <2>3 DEF DoneIn, FreshIn, Finished, NoResult
    <3> QED
      BY <2>1, <3>1 DEF Order, RowInOrder
  <2>4. ASSUME NEW n \in Deciding
        PROVE  /\ Reached(results, n) => results[n].status = "succeeded"
               /\ results[n].status = "succeeded" => Enabled(results, n, stopped)
    <3>1. PICK i \in DOMAIN Steps : n \in DecidingOf(Steps[i])
      BY DEF Deciding, DecidingOf, LoopSteps
    <3>2. n \in StepNodes(Steps[i]) /\ n \in Nodes
      BY <2>1, <3>1, DecidingFacts
    <3>3. results[n].status \in {"succeeded", "skipped"}
      BY <2>2, <3>2
    <3> QED
      BY <2>3, <3>1, <3>2, <3>3 DEF DecidedIn
  <2>5. ASSUME NEW n \in Deciding
        PROVE  LET edges == {e \in wf.edges : e.to = n} \ BackSet
                   live == {e \in edges : LiveByResults(e)}
               IN  /\ edges = {} \/ live # {} => results[n].status = "succeeded"
                   /\ results[n].status = "succeeded" =>
                         edges = {} \/ live \cup (edges \cap stopped) # {}
    <3>1. {e \in wf.edges : e.to = n} \ BackSet = Incoming(n)
      BY DEF Incoming
    <3>2. Reached(results, n) <=>
             \/ Incoming(n) = {}
             \/ {e \in Incoming(n) : LiveByResults(e)} # {}
      BY DEF Reached, LiveIn, LiveByResults
    <3>3. Enabled(results, n, stopped) <=>
             \/ Incoming(n) = {}
             \/ {e \in Incoming(n) : LiveByResults(e)} \cup (Incoming(n) \cap stopped) # {}
      BY <3>2 DEF Enabled
    <3> QED
      BY <2>4, <3>1, <3>2, <3>3
  <2>6. ASSUME NEW i \in LoopSteps, NEW m \in StepNodes(Steps[i]),
               NEW n \in StepNodes(Steps[i])
        PROVE  results[m].status = results[n].status
    <3>1. DecidedIn(results, Steps[i], stopped) /\ DoneIn(results, Steps[i])
          /\ Steps[i].kind = "loop"
      BY <2>1, <2>3, <2>6 DEF LoopSteps
    <3> QED
      BY <2>6, <3>1 DEF DecidedIn, DoneIn, Finished
  <2> QED
    BY <2>2, <2>5, <2>6, Zenon DEF SkipsExactlyDeadBranches
<1> QED
    BY <1>1, OrderInvariance, PTL

-----------------------------------------------------------------------------
-----------------------------------------------------------------------------
(* The run keeps the promise of module RunPromise.  What RunPromise says   *)
(* of a step is what the invariants say of it.                             *)

LEMMA PromiseSteps ==
    ASSUME wf \in Workflows, NEW i \in DOMAIN Steps
    PROVE  /\ Promise!NodesOf(i) = StepNodes(Steps[i])
           /\ Promise!IsLoop(i) <=> Steps[i].kind = "loop"
           /\ Promise!Asked(i) = DecidingOf(Steps[i])
           /\ Promise!Rounds(i) = Bound(Steps[i])
<1>1. Promise!NodesOf(i) = StepNodes(Steps[i])
    BY DEF Promise!NodesOf, StepNodes, Steps
<1>2. Promise!IsLoop(i) <=> Steps[i].kind = "loop"
    BY DEF Promise!IsLoop, Steps
<1>3. Promise!Rounds(i) = Bound(Steps[i])
    BY <1>2, StepFacts DEF Promise!Rounds, Bound, AtLeastOne, Steps
<1> QED
    BY <1>1, <1>2, <1>3 DEF Promise!Asked, DecidingOf, Steps

LEMMA PromiseEdges ==
    /\ \A R, e : Promise!Live(R, e) <=> LiveIn(R, e)
    /\ \A n : Promise!Into(n) = Incoming(n)
    /\ \A n : Promise!MustRun(n) <=> Reached(saved, n)
    /\ \A n : Promise!MayRun(n) <=> Enabled(saved, n, stopped)
<1>1. \A R, e : Promise!Live(R, e) <=> LiveIn(R, e)
    BY DEF Promise!Live, LiveIn, IsEdgeLive
<1>2. \A n : Promise!Into(n) = Incoming(n)
    BY DEF Promise!Into, Promise!Forward, Incoming, BackSet, Steps
<1>3. \A n : Promise!MustRun(n) <=> Reached(saved, n)
    BY <1>1, <1>2 DEF Promise!MustRun, Reached
<1> QED
    BY <1>1, <1>2, <1>3 DEF Promise!MayRun, Enabled

(* Back edges come from the loop they close.                               *)
LEMMA BackEdgesInside ==
    ASSUME wf \in Workflows, NEW i \in DOMAIN Steps, NEW e \in Steps[i].back
    PROVE  /\ Steps[i].kind = "loop"
           /\ e.from \in StepNodes(Steps[i])
           /\ e.from \in Nodes
<1>1. PlannedForward(wf)
    BY PlansAssumption
<1>2. Steps[i].kind = "loop" /\ e.from \in StepNodes(Steps[i])
    BY <1>1 DEF PlannedForward, Steps
<1> QED
    BY <1>2, StepFacts

(* A node has a result or it does not.                                     *)
LEMMA FinishedOrNone ==
    ASSUME IInv, NEW n \in Nodes
    PROVE  saved[n] # NoResult <=> Finished(saved[n])
<1>1. saved[n].status \in {"none", "succeeded", "skipped"}
    BY DEF IInv, TypeInv, TypeOK, Results
<1> QED
    BY <1>1 DEF IInv, Known, Finished, NoResult

LEMMA PromiseSettled ==
    ASSUME IInv, NEW i \in DOMAIN Steps
    PROVE  Promise!Settled(i) <=> DoneIn(saved, Steps[i])
<1>1. /\ wf \in Workflows /\ NoResult = Promise!Blank
    BY DEF IInv, TypeInv, NoResult, Nothing, Promise!Blank
<1>2. Promise!NodesOf(i) = StepNodes(Steps[i]) /\ StepNodes(Steps[i]) \subseteq Nodes
    BY <1>1, PromiseSteps, StepFacts
<1> QED
    BY <1>1, <1>2, FinishedOrNone DEF Promise!Settled, DoneIn

(* A step of the plan is due in the promise when the worker is at it.      *)
LEMMA StepIsDue ==
    ASSUME IInv, Order, status = "running", step \in DOMAIN Steps,
           ~DoneIn(saved, Steps[step])
    PROVE  Promise!Due(step)
<1>1. DOMAIN wf.steps = DOMAIN Steps
    BY DEF Steps
<1>2. ~Promise!Settled(step)
    BY PromiseSettled
<1>3. ASSUME NEW j \in DOMAIN Steps, j < step PROVE Promise!Settled(j)
    BY <1>3, PromiseSettled DEF Order, EarlierSaved
<1> QED
    BY <1>1, <1>2, <1>3 DEF Promise!Due

(* What the row gains from the step the worker is at: a node gets a result *)
(* in the end or keeps what it had, and the results are those that what    *)
(* leads to the step calls for.                                            *)
LEMMA StepGains ==
    ASSUME IInv, Order, status = "running", step \in DOMAIN Steps, wf' = wf,
           saved' = results', results' \in [Nodes -> Results],
           \A n \in Nodes \ StepNodes(Steps[step]) : results'[n] = saved[n],
           \A n \in StepNodes(Steps[step]) :
               \/ results'[n] = saved[n]
               \/ Finished(results'[n]) /\ results'[n].count # saved[n].count,
           DecidedIn(results', Steps[step], stopped)
    PROVE  Promise!Gains(step)
<1>1. wf \in Workflows
    BY DEF IInv, TypeInv
<1>2. /\ Promise!NodesOf(step) = StepNodes(Steps[step])
      /\ Promise!Asked(step) = DecidingOf(Steps[step])
      /\ StepNodes(Steps[step]) \subseteq Nodes
      /\ DecidingOf(Steps[step]) \subseteq StepNodes(Steps[step])
    BY <1>1, PromiseSteps, StepFacts, DecidingFacts
<1>3. ASSUME NEW n \in StepNodes(Steps[step])
      PROVE  /\ Promise!More(n) = 0 => saved'[n] = saved[n]
             /\ Promise!More(n) # 0 => saved'[n].status \in {"succeeded", "skipped"}
  <2>1. saved[n].count \in Nat /\ results'[n].count \in Nat
    BY <1>2 DEF IInv, TypeInv, TypeOK, Results
  <2>2. CASE results'[n] = saved[n]
    BY <2>1, <2>2 DEF Promise!More
  <2>3. CASE Finished(results'[n]) /\ results'[n].count # saved[n].count
    BY <2>1, <2>3 DEF Promise!More, Finished
  <2> QED
    BY <2>2, <2>3
<1>4. ASSUME NEW n \in DecidingOf(Steps[step]), Promise!More(n) > 0
      PROVE  IF saved'[n].status = "succeeded" THEN Promise!MayRun(n)
                                               ELSE ~Promise!MustRun(n)
  <2>1. saved'[n].status \in {"succeeded", "skipped"}
    BY <1>2, <1>3, <1>4
  <2>2. /\ results'[n].status = "succeeded" => Enabled(results', n, stopped)
        /\ results'[n].status = "skipped" => ~Reached(results', n)
    BY DEF DecidedIn
  <2>3. Reached(results', n) <=> Reached(saved, n)
    <3>1. ASSUME NEW e \in Incoming(n) PROVE results'[e.from] = saved[e.from]
      <4>1. PICK j \in DOMAIN Steps : /\ j < step
                                      /\ e.from \in StepNodes(Steps[j])
                                      /\ e.from \in Nodes
        BY <1>1, Predecessors
      <4>2. e.from \notin StepNodes(Steps[step])
        BY <1>1, <4>1, StepsAreSeq, StepsDisjoint
      <4> QED
        BY <4>1, <4>2
    <3> QED
      BY <3>1 DEF Reached, LiveIn
  <2>4. Enabled(results', n, stopped) <=> Enabled(saved, n, stopped)
    BY <2>3 DEF Enabled
  <2> QED
    BY <2>1, <2>2, <2>3, <2>4, PromiseEdges
<1>5. /\ DOMAIN saved' = wf.nodes
      /\ \A n \in wf.nodes \ Promise!NodesOf(step) : saved'[n] = saved[n]
    BY <1>2 DEF Nodes
<1>6. \A n \in Promise!NodesOf(step) :
          IF Promise!More(n) = 0 THEN saved'[n] = saved[n]
                                 ELSE saved'[n].status \in {"succeeded", "skipped"}
    BY <1>2, <1>3
<1>7. \A n \in Promise!Asked(step) : Promise!More(n) > 0 =>
          IF saved'[n].status = "succeeded" THEN Promise!MayRun(n)
                                            ELSE ~Promise!MustRun(n)
    BY <1>2, <1>4
<1> QED
    BY <1>5, <1>6, <1>7 DEF Promise!Gains

(* R asks for another round of s.                                          *)
AsksAgain(R, s) == \E e \in s.back : LiveIn(R, e)

(* A step that ends settles it in the promise.                             *)
LEMMA StepSettles ==
    ASSUME IInv, Order, status = "running", step \in DOMAIN Steps, wf' = wf,
           status' = status, saved' = results', results' \in [Nodes -> Results],
           ~DoneIn(saved, Steps[step]),
           \A n \in Nodes \ StepNodes(Steps[step]) : results'[n] = saved[n],
           DecidedIn(results', Steps[step], stopped),
           Steps[step].kind = "loop" =>
               \A m, n \in StepNodes(Steps[step]) : results'[m].status = results'[n].status,
           NEW c \in 1..Bound(Steps[step]),
           \A n \in StepNodes(Steps[step]) :
               results'[n].count = saved[n].count + c /\ Finished(results'[n]),
           \/ ~AsksAgain(results', Steps[step]) /\ stopped' = stopped
           \/ /\ AsksAgain(results', Steps[step])
              /\ c = Bound(Steps[step])
              /\ stopped' = stopped \cup Steps[step].exit
    PROVE  Promise!Settle(step)
<1>1. /\ wf \in Workflows /\ Bound(Steps[step]) \in Nat
      /\ \A n \in StepNodes(Steps[step]) : saved[n].count \in Nat
    BY StepFacts, BoundFacts DEF IInv, TypeInv, TypeOK, Results
<1>2. Promise!Due(step)
    BY StepIsDue
<1>3. Promise!Gains(step)
  <2>1. \A n \in StepNodes(Steps[step]) :
            Finished(results'[n]) /\ results'[n].count # saved[n].count
    BY <1>1
  <2> QED
    BY <2>1, StepGains
<1>4. /\ Promise!NodesOf(step) = StepNodes(Steps[step])
      /\ Promise!IsLoop(step) <=> Steps[step].kind = "loop"
      /\ Promise!Rounds(step) = Bound(Steps[step])
    BY <1>1, PromiseSteps
<1>5. Promise!GoesOn(step) <=> AsksAgain(results', Steps[step])
  <2>1. \A e : Promise!Live(saved', e) <=> LiveIn(saved', e)
    BY PromiseEdges
  <2> QED
    BY <2>1 DEF Promise!GoesOn, AsksAgain, Steps
<1>6. \A n \in Promise!NodesOf(step) : Promise!More(n) = c
  <2>1. ASSUME NEW n \in StepNodes(Steps[step]) PROVE Promise!More(n) = c
    <3>1. saved'[n].count = saved[n].count + c /\ c \in Nat /\ saved[n].count \in Nat
      BY <1>1
    <3> QED
      BY <3>1 DEF Promise!More
  <2> QED
    BY <1>4, <2>1
<1>7. \/ ~Promise!GoesOn(step) /\ UNCHANGED stopped
      \/ /\ Promise!GoesOn(step)
         /\ c = Promise!Rounds(step)
         /\ stopped' = stopped \cup wf.steps[step].exit
    BY <1>4, <1>5 DEF Steps
<1>8. Promise!IsLoop(step) => \A m, n \in Promise!NodesOf(step) :
                                  saved'[m].status = saved'[n].status
    BY <1>4
<1>9. c \in 1..Promise!Rounds(step)
    BY <1>4
<1> QED
    BY <1>2, <1>3, <1>6, <1>7, <1>8, <1>9 DEF Promise!Settle

(* A step with a failed node is one of the promise that failed in round c. *)
LEMMA StepFailsOpenly ==
    ASSUME IInv, Order, status = "running", step \in DOMAIN Steps, wf' = wf,
           MarkFailed, results' \in [Nodes -> Results],
           ~DoneIn(saved, Steps[step]),
           \A n \in Nodes \ StepNodes(Steps[step]) : results'[n] = saved[n],
           DecidedIn(results', Steps[step], stopped),
           NEW c \in 1..Bound(Steps[step]),
           \A n \in StepNodes(Steps[step]) :
               \E more \in {c - 1, c} :
                  /\ results'[n].count = saved[n].count + more
                  /\ IF more = 0 THEN results'[n] = saved[n] ELSE Finished(results'[n]),
           NEW m \in StepNodes(Steps[step]), results'[m].count = saved[m].count + (c - 1)
    PROVE  Promise!Fail(step)
<1>1. /\ wf \in Workflows /\ Bound(Steps[step]) \in Nat
      /\ \A n \in StepNodes(Steps[step]) : saved[n].count \in Nat
      /\ saved' = results' /\ status' = "failed" /\ stopped' = stopped
    BY StepFacts, BoundFacts DEF IInv, TypeInv, TypeOK, Results, MarkFailed
<1>2. Promise!Due(step)
    BY StepIsDue
<1>3. Promise!Gains(step)
  <2>1. ASSUME NEW n \in StepNodes(Steps[step])
        PROVE  \/ results'[n] = saved[n]
               \/ Finished(results'[n]) /\ results'[n].count # saved[n].count
    <3>1. PICK more \in {c - 1, c} :
             /\ results'[n].count = saved[n].count + more
             /\ IF more = 0 THEN results'[n] = saved[n] ELSE Finished(results'[n])
      OBVIOUS
    <3>2. more \in Int /\ saved[n].count \in Int
      BY <1>1
    <3> QED
      BY <3>1, <3>2
  <2> QED
    BY <1>1, <2>1, StepGains
<1>4. /\ Promise!NodesOf(step) = StepNodes(Steps[step])
      /\ Promise!Rounds(step) = Bound(Steps[step])
    BY <1>1, PromiseSteps
<1>5. \A n \in Promise!NodesOf(step) : Promise!More(n) \in {c - 1, c}
  <2>1. ASSUME NEW n \in StepNodes(Steps[step]) PROVE Promise!More(n) \in {c - 1, c}
    <3>1. PICK more \in {c - 1, c} : saved'[n].count = saved[n].count + more
      BY <1>1
    <3>2. more \in Int /\ saved[n].count \in Int
      BY <1>1
    <3> QED
      BY <3>1, <3>2 DEF Promise!More
  <2> QED
    BY <1>4, <2>1
<1>6. Promise!More(m) = c - 1
    BY <1>1 DEF Promise!More
<1>7. c \in 1..Promise!Rounds(step) /\ m \in Promise!NodesOf(step)
    BY <1>4
<1> QED
    BY <1>1, <1>2, <1>3, <1>5, <1>6, <1>7 DEF Promise!Fail

(* A level of its own, or a loop that is not reached.                      *)
LEMMA WholeStepKeepsPromise ==
    ASSUME IInv, Order, status = "running", level = 0,
           step \in DOMAIN Steps, ~AlreadyDone, wf' = wf, stopped' = stopped,
           NEW run, NEW good, NEW skip, good \subseteq run, run \cap skip = {},
           run \cup skip = StepNodes(Steps[step]),
           \A n \in DecidingOf(Steps[step]) : n \in run <=> IsReachable(n),
           Steps[step].kind = "loop" => run = {},
           NEW f \in LevelResults(good, skip), Record(f, run),
           \/ good # run /\ MarkFailed
           \/ good = run /\ NextStep /\ saved' = results' /\ status' = status
    PROVE  Promise!Next \/ (saved' = saved /\ status' = status)
<1> DEFINE S == StepNodes(Steps[step])
<1>1. /\ wf \in Workflows /\ S \subseteq Nodes /\ TypeInv /\ Body = {}
      /\ Bound(Steps[step]) \in Nat \ {0} /\ DOMAIN wf.steps = DOMAIN Steps
      /\ good \cup skip \subseteq Nodes
    BY StepFacts, BoundFacts DEF IInv, TypeInv, Body, Steps
<1>2. /\ results' \in [Nodes -> Results] /\ saved \in [Nodes -> Results]
      /\ \A n \in Nodes : saved[n] = results[n] /\ saved[n].count \in Nat
  <2>1. results' \in [Nodes -> Results]
    BY <1>1, RecordTyped
  <2> QED
    BY <1>1, <2>1 DEF IInv, Agreement, TypeInv, TypeOK, Results
<1>3. /\ \A n \in Nodes \ S : results'[n] = results[n]
      /\ \A n \in good : /\ results'[n].status = "succeeded"
                         /\ results'[n].count = saved[n].count + 1
      /\ \A n \in skip : /\ results'[n].status = "skipped"
                         /\ results'[n].count = saved[n].count + 1
      /\ \A n \in run \ good : results'[n] = saved[n]
      /\ DecidedIn(results', Steps[step], stopped)
    BY WholeStepDecided
<1>4. \A n \in Nodes \ S : results'[n] = saved[n]
    BY <1>2, <1>3
<1>5. CASE S = {}
  <2>1. good = run
    BY <1>5
  <2>2. saved' = saved
    BY <1>2, <1>4, <1>5, <2>1
  <2> QED
    BY <2>1, <2>2
<1>6. CASE S # {} /\ good # run /\ MarkFailed
  <2>1. ~DoneIn(saved, Steps[step])
    BY <1>6, DueIsOpen
  <2>2. PICK m \in run : m \notin good
    BY <1>6
  <2>3. m \in S /\ results'[m].count = saved[m].count + (1 - 1)
    BY <1>1, <1>2, <1>3, <2>2
  <2>4. ASSUME NEW n \in S
        PROVE  \E more \in {1 - 1, 1} :
                  /\ results'[n].count = saved[n].count + more
                  /\ IF more = 0 THEN results'[n] = saved[n] ELSE Finished(results'[n])
    <3>1. CASE n \in good \cup skip
      <4>1. results'[n].count = saved[n].count + 1 /\ Finished(results'[n])
        BY <1>3, <3>1 DEF Finished
      <4> QED
        BY <4>1
    <3>2. CASE n \notin good \cup skip
      <4>1. results'[n] = saved[n] /\ saved[n].count \in Nat
        BY <1>1, <1>2, <1>3, <3>2
      <4>2. results'[n].count = saved[n].count + (1 - 1)
        BY <4>1
      <4> QED
        BY <4>1, <4>2
    <3> QED
      BY <3>1, <3>2
  <2>5. 1 \in 1..Bound(Steps[step])
    BY <1>1
  <2>6. Promise!Fail(step)
    BY <1>2, <1>3, <1>4, <1>6, <2>1, <2>3, <2>4, <2>5, StepFailsOpenly
  <2> QED
    BY <1>1, <2>6 DEF Promise!Next
<1>7. CASE S # {} /\ good = run /\ NextStep /\ saved' = results' /\ status' = status
  <2>1. ~DoneIn(saved, Steps[step])
    BY <1>7, DueIsOpen
  <2>2. \A n \in S : results'[n].count = saved[n].count + 1 /\ Finished(results'[n])
    BY <1>3, <1>7 DEF Finished
  <2>3. ~AsksAgain(results', Steps[step])
    <3> SUFFICES ASSUME NEW e \in Steps[step].back, LiveIn(results', e) PROVE FALSE
      BY DEF AsksAgain
    <3>1. Steps[step].kind = "loop" /\ e.from \in S
      BY <1>1, BackEdgesInside
    <3>2. results'[e.from].status = "skipped"
      BY <1>3, <3>1
    <3> QED
      BY <3>2 DEF LiveIn
  <2>4. Steps[step].kind = "loop" =>
            \A m, n \in S : results'[m].status = results'[n].status
    BY <1>3
  <2>5. 1 \in 1..Bound(Steps[step])
    BY <1>1
  <2>6. Promise!Settle(step)
    BY <1>2, <1>3, <1>4, <1>7, <2>1, <2>2, <2>3, <2>4, <2>5, StepSettles
  <2> QED
    BY <1>1, <2>6 DEF Promise!Next
<1> QED
    BY <1>5, <1>6, <1>7

(* One level of the body of a loop: the row changes only when the loop     *)
(* ends or fails.                                                          *)
LEMMA BodyLevelKeepsPromise ==
    ASSUME IInv, Order, RunBodyLevel
    PROVE  Promise!Next \/ (saved' = saved /\ stopped' = stopped /\ status' = status)
<1> DEFINE loop == Steps[step]
           L == loop.levels[level]
           B == StepNodes(loop)
<1>1. /\ wf' = wf /\ wf \in Workflows /\ status = "running" /\ level > 0
      /\ level \in Nat /\ iteration \in Nat /\ TypeInv
      /\ step \in DOMAIN Steps /\ level \in DOMAIN loop.levels
      /\ DOMAIN wf.steps = DOMAIN Steps /\ Nodes' = Nodes
    BY StepsAreSeq DEF RunBodyLevel, IInv, TypeInv, TypeOK, Steps, Nodes
<1>2. PICK fail \in SUBSET L : \E f \in LevelResults(L \ fail, {}) :
        /\ Record(f, L)
        /\ \/ fail # {} /\ MarkFailed
           \/ UNCHANGED <<saved, stopped, status>>
           \/ /\ fail = {}
              /\ level = Len(loop.levels)
              /\ saved' = results'
              /\ UNCHANGED status
              /\ \/ /\ LoopContinues(loop, output')
                    /\ GuardReached(loop)
                    /\ stopped' = stopped \cup loop.exit
                 \/ ~LoopContinues(loop, output') /\ UNCHANGED stopped
    BY DEF RunBodyLevel, history
<1>3. PICK f \in LevelResults(L \ fail, {}) : Record(f, L)
    BY <1>2
<1>4. /\ L \subseteq B /\ B \subseteq Nodes /\ Body = B
      /\ Bound(loop) \in Nat /\ loop.max \in Int
    BY <1>1, LevelFacts, StepFacts, BoundFacts DEF Body
<1>5. /\ loop.kind = "loop" /\ iteration + 1 <= Bound(loop)
      /\ ~DoneIn(saved, loop)
    BY <1>1 DEF IInv, RoundSoFar
<1> DEFINE c == iteration + 1
<1>6. c \in 1..Bound(loop)
    BY <1>1, <1>4, <1>5
<1>7. results' \in [Nodes -> Results] /\ \A n \in Nodes \ B : results'[n] = saved[n]
  <2>1. /\ results' \in [Nodes -> Results]
        /\ \A n \in Nodes \ (L \ fail) : results'[n] = results[n]
    BY <1>1, <1>3, BodyRecord
  <2>2. \A n \in Nodes \ B : saved[n] = results[n]
    BY <1>1, <1>4 DEF IInv, Agreement
  <2> QED
    BY <1>4, <2>1, <2>2
<1>8. DecidedIn(results', loop, stopped)
  <2>1. stopped \subseteq stopped
    OBVIOUS
  <2> QED
    BY <1>1, <1>3, <2>1, BodyDecided
<1>9. ASSUME NEW k \in DOMAIN loop.levels, NEW n \in loop.levels[k]
      PROVE  LET more == IF k < level \/ (k = level /\ n \notin fail)
                           THEN iteration + 1 ELSE iteration
             IN  /\ results'[n].count = saved[n].count + more
                 /\ IF more = 0 THEN results'[n] = saved[n]
                                ELSE results'[n].status = "succeeded"
  <2> DEFINE more == IF k < level \/ (k = level /\ n \notin fail)
                       THEN iteration + 1 ELSE iteration
  <2>1. /\ results'[n].count = saved[n].count + more
        /\ IF more = 0 THEN results'[n] = saved[n]
                       ELSE /\ results'[n].status = "succeeded"
                            /\ reachable'[n] = TRUE
                            /\ output'[n] = results'[n].output
        /\ k = level <=> n \in L
    BY <1>1, <1>3, BodyRecord
  <2> HIDE DEF more
  <2>2. /\ results'[n].count = saved[n].count + more
        /\ IF more = 0 THEN results'[n] = saved[n]
                       ELSE results'[n].status = "succeeded"
    BY <2>1
  <2> QED
    BY <2>2 DEF more
<1>10. CASE fail # {} /\ MarkFailed
  <2>1. PICK m \in fail : m \in L
    BY <1>10
  <2>2. m \in B /\ results'[m].count = saved[m].count + (c - 1)
    BY <1>1, <1>4, <1>9, <2>1
  <2>3. ASSUME NEW n \in B
        PROVE  \E more \in {c - 1, c} :
                  /\ results'[n].count = saved[n].count + more
                  /\ IF more = 0 THEN results'[n] = saved[n] ELSE Finished(results'[n])
    <3>1. PICK k \in DOMAIN loop.levels : n \in loop.levels[k]
      BY DEF StepNodes
    <3>2. \E more \in {iteration, iteration + 1} :
             /\ results'[n].count = saved[n].count + more
             /\ IF more = 0 THEN results'[n] = saved[n]
                            ELSE results'[n].status = "succeeded"
      BY <1>9, <3>1
    <3>3. c - 1 = iteration
      BY <1>1
    <3> QED
      BY <3>2, <3>3 DEF Finished
  <2>4. Promise!Fail(step)
    <3> HIDE DEF c
    <3> QED
      BY <1>1, <1>5, <1>6, <1>7, <1>10, <1>8, <2>2, <2>3, StepFailsOpenly
  <2> QED
    BY <1>1, <2>4 DEF Promise!Next
<1>11. CASE /\ fail = {}
            /\ level = Len(loop.levels)
            /\ saved' = results'
            /\ UNCHANGED status
            /\ \/ /\ LoopContinues(loop, output')
                  /\ GuardReached(loop)
                  /\ stopped' = stopped \cup loop.exit
               \/ ~LoopContinues(loop, output') /\ UNCHANGED stopped
  <2>1. \A n \in B : /\ results'[n].count = saved[n].count + c
                     /\ results'[n].status = "succeeded"
                     /\ output'[n] = results'[n].output
    BY <1>1, <1>3, <1>11, RoundEnds
  <2>2. AsksAgain(results', loop) <=> LoopContinues(loop, output')
    <3>1. ASSUME NEW e \in loop.back
          PROVE  LiveIn(results', e)
                     <=> output'[e.from] # Nothing /\ IsEdgeLive(e, output'[e.from])
      <4>1. e.from \in B /\ e.from \in Nodes
        BY <1>1, BackEdgesInside
      <4>2. results'[e.from].output # Nothing
        <5> DEFINE good == L \ fail
        <5>1. good \cup {} \subseteq Nodes /\ f \in LevelResults(good, {}) /\ Record(f, L)
          BY <1>3, <1>4
        <5> HIDE DEF good, L
        <5> QED
          BY <2>1, <4>1, <5>1, RecordOutputs
      <4> QED
        BY <2>1, <4>1, <4>2 DEF LiveIn
    <3> QED
      BY <3>1 DEF AsksAgain, LoopContinues
  <2>3. GuardReached(loop) => c = Bound(loop)
    BY <1>1, <1>4, <1>5 DEF GuardReached, Bound, AtLeastOne
  <2>4. \A n \in B : results'[n].count = saved[n].count + c /\ Finished(results'[n])
    BY <2>1 DEF Finished
  <2>5. \A m, n \in B : results'[m].status = results'[n].status
    BY <2>1
  <2>6. \/ ~AsksAgain(results', loop) /\ stopped' = stopped
        \/ /\ AsksAgain(results', loop)
           /\ c = Bound(loop)
           /\ stopped' = stopped \cup loop.exit
    BY <1>11, <2>2, <2>3
  <2>7. Promise!Settle(step)
    <3> HIDE DEF c
    <3> QED
      BY <1>1, <1>5, <1>6, <1>7, <1>11, <1>8, <2>4, <2>5, <2>6, StepSettles
  <2> QED
    BY <1>1, <2>7 DEF Promise!Next
<1> QED
    BY <1>2, <1>10, <1>11

(* Every step of a run is a step of the promise, or the row does not show  *)
(* it.                                                                     *)
LEMMA NextKeepsPromise ==
    IInv /\ Order /\ [Next]_vars => [Promise!Next]_(Promise!vars)
<1> SUFFICES ASSUME IInv, Order, [Next]_vars
             PROVE  [Promise!Next]_(Promise!vars)
    OBVIOUS
<1>0. /\ DOMAIN Steps = 1..Len(Steps) /\ Len(Steps) \in Nat
      /\ step \in 1..(Len(Steps) + 1) /\ wf \in Workflows
    BY StepsAreSeq DEF IInv, TypeInv, TypeOK
<1>1. ASSUME wf' = wf, saved' = saved, stopped' = stopped,
             \/ status' = status
             \/ {status, status'} \cap {"completed", "failed"} = {}
      PROVE  UNCHANGED Promise!vars
    BY <1>1 DEF Promise!vars
<1>2. CASE SeePause
  <2>1. AtBoundary /\ saved' = results /\ wf' = wf /\ stopped' = stopped
        /\ status = "running" /\ status' = "paused"
    BY <1>2 DEF SeePause, AtBoundary, history
  <2>2. saved' = saved
    BY <2>1, BoundaryAgrees
  <2> QED
    BY <1>1, <2>1, <2>2
<1>3. CASE SkipStep \/ EnterLoop \/ UNCHANGED vars
    BY <1>1, <1>3 DEF SkipStep, EnterLoop, history, vars
<1>4. CASE RunLevel
  <2> DEFINE nodes == StepNodes(Steps[step])
             run == {n \in nodes : IsReachable(n)}
             skip == nodes \ run
  <2>1. PICK fail \in SUBSET run : \E f \in LevelResults(run \ fail, skip) :
          /\ Record(f, run)
          /\ \/ fail # {} /\ MarkFailed
             \/ /\ fail = {} /\ NextStep /\ saved' = results'
                /\ UNCHANGED <<status, forced, history>>
    BY <1>4 DEF RunLevel
  <2> DEFINE good == run \ fail
  <2>2. PICK f \in LevelResults(good, skip) : Record(f, run)
    BY <2>1
  <2>3. /\ run \cap skip = {} /\ run \cup skip = StepNodes(Steps[step])
        /\ good \subseteq run
    OBVIOUS
  <2>4. /\ status = "running" /\ level = 0 /\ step \in DOMAIN Steps
        /\ ~AlreadyDone /\ wf' = wf /\ Steps[step].kind = "level"
    BY <1>0, <1>4 DEF RunLevel, AtStep, AtBoundary
  <2>5. \/ good # run /\ MarkFailed
        \/ good = run /\ NextStep /\ saved' = results' /\ status' = status
    BY <2>1
  <2>6. stopped' = stopped
    BY <2>1 DEF MarkFailed, history
  <2>7. \A n \in DecidingOf(Steps[step]) : n \in run <=> IsReachable(n)
    BY <2>4 DEF DecidingOf
  <2>8. Promise!Next \/ (saved' = saved /\ status' = status)
    <3> HIDE DEF run, skip, good
    <3> QED
      BY <2>2, <2>3, <2>4, <2>5, <2>6, <2>7, WholeStepKeepsPromise
  <2> QED
    BY <1>1, <2>4, <2>6, <2>8
<1>5. CASE SkipLoop
  <2> DEFINE nodes == StepNodes(Steps[step])
  <2>1. PICK f \in LevelResults({}, nodes) : Record(f, {})
    BY <1>5 DEF SkipLoop
  <2>2. {} \cap nodes = {} /\ {} \cup nodes = StepNodes(Steps[step])
    OBVIOUS
  <2>3. /\ status = "running" /\ level = 0 /\ step \in DOMAIN Steps
        /\ ~AlreadyDone /\ wf' = wf /\ stopped' = stopped
        /\ NextStep /\ saved' = results' /\ status' = status
        /\ Steps[step].kind = "loop"
        /\ ~ \E n \in Steps[step].levels[1] : IsReachable(n)
    BY <1>0, <1>5 DEF SkipLoop, AtStep, AtBoundary, history
  <2>4. \A n \in DecidingOf(Steps[step]) : n \in {} <=> IsReachable(n)
    BY <2>3 DEF DecidingOf
  <2>5. Promise!Next \/ (saved' = saved /\ status' = status)
    <3> HIDE DEF nodes
    <3> QED
      BY <2>1, <2>2, <2>3, <2>4, WholeStepKeepsPromise
  <2> QED
    BY <1>1, <2>3, <2>5
<1>6. CASE RunBodyLevel
  <2>1. wf' = wf
    BY <1>6 DEF RunBodyLevel
  <2> QED
    BY <1>1, <1>6, <2>1, BodyLevelKeepsPromise
<1>7. CASE Complete
  <2>1. AtBoundary /\ saved' = results /\ wf' = wf /\ stopped' = stopped
        /\ status = "running" /\ status' = "completed" /\ step = Len(Steps) + 1
    BY <1>7 DEF Complete, AtBoundary, history
  <2>2. saved' = saved
    BY <2>1, BoundaryAgrees
  <2>3. ASSUME NEW i \in DOMAIN Steps PROVE Promise!Settled(i)
    <3>1. i < step
      BY <1>0, <2>1
    <3>2. DoneIn(saved, Steps[i])
      BY <2>1, <3>1 DEF Order, EarlierSaved
    <3> QED
      BY <3>2, PromiseSettled
  <2>4. Promise!Complete
    BY <2>1, <2>2, <2>3 DEF Promise!Complete, Steps
  <2> QED
    BY <2>4 DEF Promise!Next
<1>8. CASE Raise
  <2>1. Promise!Stop
    BY <1>8 DEF Raise, history, Promise!Stop
  <2> QED
    BY <2>1 DEF Promise!Next
<1>9. CASE Crash
    BY <1>1, <1>9 DEF Crash, history
<1>10. CASE Resume
  <2>1. /\ wf' = wf /\ saved' = results' /\ stopped' = stopped
        /\ status' = "running" /\ status # "running"
    BY <1>10 DEF Resume, history
  <2>2. saved' = saved
    BY <1>10, <2>1, ResumeRestoresRow
  <2>3. CASE status \in {"completed", "failed"}
    <3>1. Promise!GoOn
      BY <2>1, <2>2, <2>3 DEF Promise!GoOn
    <3> QED
      BY <3>1 DEF Promise!Next
  <2>4. CASE status \notin {"completed", "failed"}
    BY <1>1, <2>1, <2>2, <2>4
  <2> QED
    BY <2>3, <2>4
<1>11. CASE Restart \/ BeginFails
  <2>1. /\ wf' = wf /\ stopped' = {} /\ status' \in {"running", "failed"}
        /\ saved' = [n \in wf.nodes |-> NoResult]
    BY <1>11 DEF Restart, BeginFails, Blank, Nodes
  <2>2. Promise!StartOver
    BY <2>1 DEF Promise!StartOver, Promise!Blank, NoResult, Nothing
  <2> QED
    BY <2>2 DEF Promise!Next
<1> QED
    BY <1>2, <1>3, <1>4, <1>5, <1>6, <1>7, <1>8, <1>9, <1>10, <1>11 DEF Next

(* The execution implements RunPromise.  Whatever interrupts it, its row   *)
(* is filled in the order of the plan and each step is decided by what the *)
(* row already shows: a pause or a crash leaves no trace, a failure leaves *)
(* part of one step, an attempt from nothing begins anew.                  *)
THEOREM PromiseOfRunKept == Spec => RunKeepsPromise
<1>1. Init => Promise!Init
    BY DEF Init, NoResult, Nothing, Nodes, Promise!Init, Promise!Blank
<1>2. IInv /\ Order /\ [Next]_vars => [Promise!Next]_(Promise!vars)
    BY NextKeepsPromise
<1> QED
    BY <1>1, <1>2, OrderInvariance, PTL DEF Spec, RunKeepsPromise, Promise!Spec
=============================================================================
