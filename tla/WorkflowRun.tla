----------------------------- MODULE WorkflowRun -----------------------------
(***************************************************************************)
(* One execution of one workflow as the worker computes it                 *)
(* (ExecuteWorkflowUseCase): which nodes run, which are skipped, how often *)
(* a loop goes round, and what a resume restores.  Module Execution treats *)
(* the steps as opaque and models the tasks, the messages and the database *)
(* row around them; here the row is only the checkpoint.                   *)
(*                                                                         *)
(* A workflow is a record                                                  *)
(*   nodes     the node instances                                          *)
(*   edges     records from, to, handle                                    *)
(*   brancher  the condition nodes                                         *)
(*   steps     its plan, a sequence of the records of module Planner     *)
(***************************************************************************)
EXTENDS Plan, Integers, Sequences, FiniteSets

CONSTANTS Workflows,       \* the workflows that may be executed
          Selectors,       \* what a condition node may put in its output
          MaxMishaps       \* bound on pauses, crashes and redelivered messages

ASSUME MaxMishapsIsNat == MaxMishaps \in Nat

(* Module SchedulerProofs proves this of every plan the planner makes.     *)
ASSUME PlansAssumption == \A w \in Workflows : WellPlanned(w) /\ PlannedForward(w)

VARIABLES
  wf,          \* the workflow
  status,      \* "running", "paused", "completed", "failed"; "lost" when the
               \* worker died and its row still says RUNNING
  step,        \* index of the next step of the plan
  level,       \* level of the loop body to run next; 0 between steps
  iteration,   \* rounds of the loop that are finished
  results,     \* node -> what its results that are no failures say
  reachable,   \* node -> whether it was reached (missing is FALSE)
  output,      \* node -> its latest output, or Nothing (node_outputs)
  forced,      \* exit edges of loops stopped by their guard (forced_live)
  done,        \* nodes restored from the checkpoint (completed_ids)
  saved,       \* node_results of the row
  stopped,     \* history: every exit edge a guard forced since the last
               \* start from nothing, over all attempts
  failures,    \* history: attempts since then in which a node failed
  mishaps      \* pauses, crashes and redeliveries so far

vars == <<wf, status, step, level, iteration, results, reachable, output,
          forced, done, saved, stopped, failures, mishaps>>
work    == <<step, level, iteration, results, reachable, output, forced, done>>
history == <<stopped, failures>>

Mishap == mishaps < MaxMishaps /\ mishaps' = mishaps + 1

Nodes == wf.nodes
Steps == wf.steps

Nothing == "nothing"       \* no output of the node is known
Plain   == "plain"         \* the output of a node that is no condition

ASSUME SelectorsAssumption == Nothing \notin Selectors

OutputsOf(n) == IF n \in wf.brancher THEN Selectors ELSE {Plain}

(* A list of results is kept here by what an attempt that starts from it   *)
(* makes of it: the status of the node's latest result and its latest      *)
(* output, failures left aside, and the number of these results.           *)
NoResult == [status |-> "none", output |-> Nothing, count |-> 0]

-----------------------------------------------------------------------------
(* BranchEvaluator and reachability.                                       *)

(* live_handles: a condition selects the handles that match its output; if *)
(* none of its edges does, all of them are live.                           *)
IsEdgeLive(e, out) ==
    \/ e.from \notin wf.brancher
    \/ e.handle = out
    \/ ~ \E d \in wf.edges : d.from = e.from /\ d.handle = out

BackSet == UNION {Steps[i].back : i \in DOMAIN Steps}

(* Fault: back edges take part in the reachability of a loop's entry.      *)
IncomingAll(n) == {e \in wf.edges : e.to = n}

Incoming(n) == {e \in wf.edges \ BackSet : e.to = n}

IsReachable(n) ==
    \/ Incoming(n) = {}
    \/ \E e \in Incoming(n) :
          \/ e \in forced
          \/ /\ reachable[e.from]
             /\ output[e.from] # Nothing
             /\ IsEdgeLive(e, output[e.from])

-----------------------------------------------------------------------------
(* The results of a level: some nodes are skipped, the others are          *)
(* dispatched, each to succeed with an output or to fail after its         *)
(* retries.  A failure leaves nothing that a later attempt reads; the rest *)
(* of the level still runs.                                                *)

Skipped(r) == [r EXCEPT !.status = "skipped", !.count = @ + 1]

Outcomes(n) ==
    {[status |-> "succeeded", output |-> o, count |-> results[n].count + 1] :
         o \in OutputsOf(n)}

(* All the ways the nodes of run may succeed when those of skip are        *)
(* skipped.                                                                *)
LevelResults(run, skip) ==
    {f \in [run \cup skip -> UNION {Outcomes(n) : n \in run}
                             \cup {Skipped(results[n]) : n \in skip}] :
        /\ \A n \in run : f[n] \in Outcomes(n)
        /\ \A n \in skip : f[n] = Skipped(results[n])}

Record(f, run) ==
    /\ results' = [n \in Nodes |-> IF n \in DOMAIN f THEN f[n] ELSE results[n]]
    /\ reachable' = [n \in Nodes |-> IF n \in DOMAIN f THEN n \in run
                                                        ELSE reachable[n]]
    /\ output' = [n \in Nodes |-> IF n \in DOMAIN f THEN f[n].output
                                                     ELSE output[n]]

NextStep == step' = step + 1 /\ level' = 0 /\ iteration' = 0

(* A failed level ends the attempt, with the results so far in the row,    *)
(* those of a loop's earlier rounds included.                              *)
MarkFailed == /\ status' = "failed"
              /\ saved' = results'
              /\ failures' = failures + 1
              /\ UNCHANGED <<step, level, iteration, forced, stopped>>

-----------------------------------------------------------------------------
AtBoundary == status = "running" /\ level = 0
AtStep(kind) == /\ AtBoundary
                /\ step <= Len(Steps)
                /\ Steps[step].kind = kind

(* Whether a resumed run has this step already.                            *)
AlreadyDone == done # {} /\ StepNodes(Steps[step]) \subseteq done

(* The row says PAUSED at a step boundary, or after the last step.         *)
SeePause ==
    /\ AtBoundary
    /\ Mishap
    /\ status' = "paused"
    /\ saved' = results
    /\ UNCHANGED <<wf, work, history>>

SkipStep ==
    /\ AtBoundary
    /\ step <= Len(Steps)
    /\ AlreadyDone
    /\ NextStep
    /\ UNCHANGED <<wf, status, results, reachable, output, forced, done, saved,
                   history, mishaps>>

(* Fault: the checkpoint is written before the results of the level are in *)
(* the list.                                                               *)
RunLevelSavesEarly ==
    /\ AtStep("level")
    /\ ~AlreadyDone
    /\ LET nodes == StepNodes(Steps[step])
           run == {n \in nodes : IsReachable(n)}
       IN  \E fail \in SUBSET run :
           \E f \in LevelResults(run \ fail, nodes \ run) :
             /\ Record(f, run)
             /\ \/ fail # {} /\ MarkFailed
                \/ /\ fail = {}
                   /\ NextStep
                   /\ saved' = results
                   /\ UNCHANGED <<status, forced, history>>
    /\ UNCHANGED <<wf, done, mishaps>>

(* A step that is one level: reachable nodes run, the others are skipped.  *)
RunLevel ==
    /\ AtStep("level")
    /\ ~AlreadyDone
    /\ LET nodes == StepNodes(Steps[step])
           run == {n \in nodes : IsReachable(n)}
       IN  \E fail \in SUBSET run :
           \E f \in LevelResults(run \ fail, nodes \ run) :
             /\ Record(f, run)
             /\ \/ fail # {} /\ MarkFailed
                \/ /\ fail = {}
                   /\ NextStep
                   /\ saved' = results'
                   /\ UNCHANGED <<status, forced, history>>
    /\ UNCHANGED <<wf, done, mishaps>>

(* A loop whose entry is not reached is skipped as a whole.                *)
SkipLoop ==
    /\ AtStep("loop")
    /\ ~AlreadyDone
    /\ ~ \E n \in Steps[step].levels[1] : IsReachable(n)
    /\ \E f \in LevelResults({}, StepNodes(Steps[step])) : Record(f, {})
    /\ NextStep
    /\ saved' = results'
    /\ UNCHANGED <<wf, status, forced, done, history, mishaps>>

EnterLoop ==
    /\ AtStep("loop")
    /\ ~AlreadyDone
    /\ \E n \in Steps[step].levels[1] : IsReachable(n)
    /\ level' = 1
    /\ iteration' = 0
    /\ UNCHANGED <<wf, status, step, results, reachable, output, forced, done,
                   saved, history, mishaps>>

(* _loop_continues, on the outputs out.                                    *)
LoopContinues(loop, out) ==
    \E e \in loop.back : out[e.from] # Nothing /\ IsEdgeLive(e, out[e.from])

(* Fault: one round too many.                                              *)
GuardReachedLate(loop) == iteration + 1 > loop.max

GuardReached(loop) == iteration + 1 >= loop.max

(* Fault: levels are counted from 0 in one place and from 1 in another.     *)
NextRoundOffByOne == level' = 2 /\ iteration' = iteration + 1 /\ UNCHANGED step

NextRound == level' = 1 /\ iteration' = iteration + 1 /\ UNCHANGED step

(* Fault: every round is saved as if it were a step.                       *)
RunBodyLevelSavesLevels ==
    /\ status = "running"
    /\ level > 0
    /\ LET loop == Steps[step]
           nodes == loop.levels[level]
       IN  \E fail \in SUBSET nodes :
           \E f \in LevelResults(nodes \ fail, {}) :
             /\ Record(f, nodes)
             /\ \/ /\ fail # {}
                   /\ MarkFailed
                \/ /\ fail = {}
                   /\ level < Len(loop.levels)
                   /\ level' = level + 1
                   /\ saved' = results'
                   /\ UNCHANGED <<status, step, iteration, forced, history>>
                \/ /\ fail = {}
                   /\ level = Len(loop.levels)
                   /\ NextStep
                   /\ saved' = results'
                   /\ UNCHANGED <<status, forced, history>>
    /\ UNCHANGED <<wf, done, mishaps>>

(* One level of a loop body.  Its nodes always run.  After the last level  *)
(* a live back edge starts another round, up to the guard; then the exit   *)
(* edges are forced live.                                                  *)
RunBodyLevel ==
    /\ status = "running"
    /\ level > 0
    /\ LET loop == Steps[step]
           nodes == loop.levels[level]
       IN  \E fail \in SUBSET nodes :
           \E f \in LevelResults(nodes \ fail, {}) :
             /\ Record(f, nodes)
             /\ \/ /\ fail # {}
                   /\ MarkFailed
                \/ /\ fail = {}
                   /\ level < Len(loop.levels)
                   /\ level' = level + 1
                   /\ UNCHANGED <<status, step, iteration, saved, forced, history>>
                \/ /\ fail = {}
                   /\ level = Len(loop.levels)
                   /\ LoopContinues(loop, output')
                   /\ ~GuardReached(loop)
                   /\ NextRound
                   /\ UNCHANGED <<status, saved, forced, history>>
                \/ /\ fail = {}
                   /\ level = Len(loop.levels)
                   /\ LoopContinues(loop, output')
                   /\ GuardReached(loop)
                   /\ forced' = forced \cup loop.exit
                   /\ stopped' = stopped \cup loop.exit
                   /\ NextStep
                   /\ saved' = results'
                   /\ UNCHANGED <<status, failures>>
                \/ /\ fail = {}
                   /\ level = Len(loop.levels)
                   /\ ~LoopContinues(loop, output')
                   /\ NextStep
                   /\ saved' = results'
                   /\ UNCHANGED <<status, forced, history>>
    /\ UNCHANGED <<wf, done, mishaps>>

Complete ==
    /\ AtBoundary
    /\ step = Len(Steps) + 1
    /\ status' = "completed"
    /\ saved' = results
    /\ UNCHANGED <<wf, work, history, mishaps>>

(* Something raises: the last save is of the results of the steps that     *)
(* have ended; those of the running step were its own.                     *)
Raise ==
    /\ status = "running"
    /\ status' = "failed"
    /\ UNCHANGED <<wf, work, saved, history, mishaps>>

(* The worker dies: all but the row is gone.                               *)
Crash ==
    /\ status = "running"
    /\ Mishap
    /\ status' = "lost"
    /\ UNCHANGED <<wf, work, saved, history>>

-----------------------------------------------------------------------------
(* Attempts.  A paused execution, and one whose row still says RUNNING     *)
(* after a crash, can be resumed by the user (the latter after a pause).   *)
(* Besides, late acknowledgement delivers a message again: that of the     *)
(* start or that of a resume, and whatever the row says by then.           *)

(* Fault: only successes are restored.                                     *)
RestoredSucceeded == {n \in Nodes : saved[n].status = "succeeded"}

(* _load_checkpoint: the nodes with a result that is not a failure,        *)
(* whether or not the step it belongs to has ended.                        *)
Restored == {n \in Nodes : saved[n].status \in {"succeeded", "skipped"}}

(* A worker starts from the row.  forced_live starts empty.                *)
Resume ==
    /\ \/ status \in {"paused", "lost"} /\ UNCHANGED mishaps
       \/ status # "running" /\ Mishap
    /\ status' = "running"
    /\ step' = 1 /\ level' = 0 /\ iteration' = 0
    /\ done' = Restored
    /\ results' = [n \in Nodes |-> IF n \in Restored THEN saved[n] ELSE NoResult]
    /\ reachable' = [n \in Nodes |-> n \in Restored /\ saved[n].status = "succeeded"]
    /\ output' = [n \in Nodes |-> IF n \in Restored THEN saved[n].output ELSE Nothing]
    /\ forced' = {}
    /\ saved' = results'
    /\ UNCHANGED <<wf, history>>

(* An attempt that knows nothing of the ones before it.                    *)
Blank ==
    /\ step' = 1 /\ level' = 0 /\ iteration' = 0
    /\ results' = [n \in Nodes |-> NoResult]
    /\ saved' = [n \in Nodes |-> NoResult]
    /\ reachable' = [n \in Nodes |-> FALSE]
    /\ output' = [n \in Nodes |-> Nothing]
    /\ forced' = {} /\ stopped' = {} /\ done' = {}
    /\ failures' = 0

(* The message of the start is delivered again: trigger_type is "manual",  *)
(* no checkpoint is read and the start save empties the row.               *)
Restart ==
    /\ status # "running"
    /\ Mishap
    /\ status' = "running"
    /\ Blank
    /\ UNCHANGED wf

(* An attempt of either kind that cannot load or plan the workflow raises  *)
(* before the checkpoint is copied: it saves FAILED with no result.        *)
BeginFails ==
    /\ \/ status \in {"paused", "lost"} /\ UNCHANGED mishaps
       \/ status # "running" /\ Mishap
    /\ status' = "failed"
    /\ Blank
    /\ UNCHANGED wf

-----------------------------------------------------------------------------
Init ==
    /\ wf \in Workflows
    /\ status = "running"
    /\ step = 1 /\ level = 0 /\ iteration = 0
    /\ results = [n \in Nodes |-> NoResult]
    /\ saved = [n \in Nodes |-> NoResult]
    /\ reachable = [n \in Nodes |-> FALSE]
    /\ output = [n \in Nodes |-> Nothing]
    /\ forced = {} /\ stopped = {} /\ done = {}
    /\ failures = 0
    /\ mishaps = 0

Next == \/ SeePause \/ SkipStep \/ RunLevel \/ SkipLoop \/ EnterLoop
        \/ RunBodyLevel \/ Complete \/ Raise \/ Crash
        \/ Resume \/ Restart \/ BeginFails

Spec == Init /\ [][Next]_vars

-----------------------------------------------------------------------------
Results == [status : {"none", "succeeded", "skipped"},
            output : Selectors \cup {Plain, Nothing},
            count : Nat]

TypeOK ==
    /\ status \in {"running", "paused", "completed", "failed", "lost"}
    /\ step \in 1..(Len(Steps) + 1)
    /\ level \in Nat
    /\ level > 0 => step <= Len(Steps) /\ level \in DOMAIN Steps[step].levels
    /\ iteration \in Nat
    /\ results \in [Nodes -> Results]
    /\ saved \in [Nodes -> Results]
    /\ reachable \in [Nodes -> BOOLEAN]
    /\ output \in [Nodes -> Selectors \cup {Plain, Nothing}]
    /\ forced \subseteq stopped
    /\ stopped \subseteq wf.edges
    /\ done \subseteq Nodes
    /\ failures \in Nat
    /\ mishaps \in 0..MaxMishaps

LoopSteps == {i \in DOMAIN Steps : Steps[i].kind = "loop"}
AtLeastOne(k) == IF k < 1 THEN 1 ELSE k

(* At a step boundary a resume would rebuild what the worker has in        *)
(* memory: the row holds every result, and reachability and outputs follow *)
(* from the row (execute(): "the downstream context is already restored").  *)
ResumeRestoresContext ==
    AtBoundary =>
        /\ saved = results
        /\ \A n \in Nodes : /\ reachable[n] <=> saved[n].status = "succeeded"
                            /\ output[n] = saved[n].output

(* The guard bounds a loop over all pauses, crashes and attempts: between  *)
(* two starts from nothing a node of a body gets at most max_iterations    *)
(* results (at least one: the guard is asked after the first round) and    *)
(* any other node one, and as many again for each attempt that a failing   *)
(* node ended.  A pause, a crash and a resume after them add nothing.      *)
RoundsAreBounded ==
    \A i \in DOMAIN Steps : \A n \in StepNodes(Steps[i]) :
        results[n].count <= (1 + failures) *
            (IF i \in LoopSteps THEN AtLeastOne(Steps[i].max) ELSE 1)

(* Whether the results themselves make e live.                             *)
LiveByResults(e) == /\ results[e.from].status = "succeeded"
                    /\ IsEdgeLive(e, results[e.from].output)

(* Nodes whose reachability decides whether they run: those outside loops, *)
(* and the first node of every loop.                                       *)
Deciding == UNION {IF i \in LoopSteps THEN Steps[i].levels[1]
                                      ELSE StepNodes(Steps[i]) : i \in DOMAIN Steps}

(* In a completed run, whatever pauses, crashes and resumes it went        *)
(* through, a node ran if it has no predecessor or a live edge leads to    *)
(* it, and it was skipped if nothing leads to it: no live edge and no exit *)
(* edge that a guard ever forced.  A loop ran as a whole or not at all.    *)
SkipsExactlyDeadBranches ==
    status = "completed" =>
        /\ \A n \in Nodes : results[n].status \in {"succeeded", "skipped"}
        /\ \A n \in Deciding :
              LET edges == {e \in wf.edges : e.to = n} \ BackSet
                  live == {e \in edges : LiveByResults(e)}
              IN  /\ edges = {} \/ live # {} => results[n].status = "succeeded"
                  /\ results[n].status = "succeeded" =>
                        edges = {} \/ live \cup (edges \cap stopped) # {}
        /\ \A i \in LoopSteps : \A m, n \in StepNodes(Steps[i]) :
              results[m].status = results[n].status

(* A step all of whose nodes have a result in the row is final: none of    *)
(* them is computed again, nor lost, by whatever attempt comes next        *)
(* (ADR-0025).  The exception is an attempt that begins from nothing: it   *)
(* takes all results away at once.                                         *)
CheckpointIsFinal ==
    [][\/ status # "running" /\ \A n \in Nodes : saved'[n] = NoResult
       \/ \A i \in DOMAIN Steps :
             (\A n \in StepNodes(Steps[i]) : saved[n] # NoResult) =>
                 \A n \in StepNodes(Steps[i]) : /\ saved'[n] = saved[n]
                                                /\ results'[n] = saved[n]]_vars

(* ADR-0023: a loop stopped by its guard forces its exit edges live, so    *)
(* that the nodes after it run, with results that did not pass.            *)
ForcedExitRunsDownstream ==
    status = "completed" =>
        \A e \in stopped : e.to \in Deciding => results[e.to].status = "succeeded"

(* Whatever pauses, crashes, failures and attempts an execution goes       *)
(* through, its row is filled as module RunPromise says: in the order of   *)
(* the plan and by whole steps, but for the failures (ADR-0025: a resume   *)
(* goes on from the finished steps).                                       *)
Promise == INSTANCE RunPromise
               WITH row <- saved, forced <- stopped,
                    state <- IF status \in {"completed", "failed"} THEN status
                                                                  ELSE "open"

RunKeepsPromise == Promise!Spec
=============================================================================
