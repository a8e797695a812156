------------------------------ MODULE Execution ------------------------------
(***************************************************************************)
(* The life of one workflow execution in services/execution_engine: the    *)
(* executions row in Postgres, the Celery messages that start or resume    *)
(* it, the workers that run ExecuteWorkflowUseCase.execute, and the        *)
(* pause/resume/cancel tasks that run PauseResumeUseCase.execute.          *)
(*                                                                         *)
(* Every database round trip and every broker call of the code is one      *)
(* action, because each is a transaction of its own: between any two of    *)
(* them another worker or control task may run, or the worker may die.     *)
(* A step of the plan (a level or a loop body) is one action: the code     *)
(* looks at the row only between steps.  WorkflowRun looks inside a step.  *)
(* A step is made of nodes, because a step that fails leaves the results   *)
(* of some of its nodes in the row, and a resume goes by nodes.            *)
(***************************************************************************)
EXTENDS Naturals, FiniteSets

CONSTANTS NumSteps,       \* steps of the plan
          Nodes,          \* nodes of a step
          Loops,          \* the steps that are loop bodies
          Tasks,          \* deliveries of execute_workflow messages
          NoTask,         \* "no task id"
          Controls,       \* control requests a user sends
          Actions,        \* what the user may ask for
          Mishaps,        \* what may happen to a message that was taken
          MaxMishaps,     \* bound on mishaps
          MaxDbErrors     \* bound on failing database calls

ASSUME NumStepsAssumption == NumSteps \in Nat
ASSUME NodesAssumption == Nodes # {}
ASSUME TasksAssumption == NoTask \notin Tasks
ASSUME ActionsAssumption == Actions \subseteq {"pause", "resume", "cancel"}
ASSUME MishapsAssumption == Mishaps \subseteq {"redeliver", "lose", "duplicate"}
ASSUME BoundsAssumption == MaxMishaps \in Nat /\ MaxDbErrors \in Nat

VARIABLES
  row,         \* the executions row: status, node_results, task_queue_id
  pc,          \* where each execute_workflow task stands
  id,          \* the id of its message: a message can be delivered twice
  trig,        \* trigger_type of its message
  results,     \* result.node_results in the worker's memory, failed ones aside
  next,        \* the step the worker's loop is at
  outcome,     \* the status the worker will save at the end
  cpc,         \* where each control task stands
  act,         \* what each control task was asked to do
  snap,        \* the ExecutionResult each control task read, later saves
  revoked,     \* task ids revoked at the broker
  mishaps, dbErrors,   \* budgets used
  ran,         \* history: nodes that have once succeeded or been skipped
  runs,        \* history: how often each step has run to success
  sincePause   \* history: steps each task ran since the row became PAUSED

message     == <<id, trig>>
workerVars  == <<pc, id, trig, results, next, outcome>>
controlVars == <<cpc, act, snap>>
budgets     == <<mishaps, dbErrors>>
history     == <<ran, runs>>
vars == <<row, pc, id, trig, results, next, outcome, cpc, act, snap, revoked,
          mishaps, dbErrors, ran, runs, sincePause>>

Steps == 1..NumSteps
PlanNodes == Steps \X Nodes
NodesOf(s) == {s} \X Nodes
RowStatuses == {"RUNNING", "PAUSED", "COMPLETED", "FAILED", "CANCELLED"}
Status == RowStatuses \cup {"none"}
Rows == [status : Status, results : SUBSET PlanNodes,
         task : Tasks \cup {NoTask}]
NoRow == [status |-> "none", results |-> {}, task |-> NoTask]

(* "aborted" is a task that failed while loading its checkpoint.           *)
Active == {"load", "start", "boundary", "step", "checkpoint", "finish", "ack"}
TaskStates == {"unsent", "queued", "done", "aborted"} \cup Active
ControlStates == {"unsent", "queued", "got", "save", "done"}

(* Steps that some worker has run to success.                              *)
Finished == {s \in Steps : runs[s] > 0}

(* A failed or successful try of a step leaves results of it only behind   *)
(* those of every node of every earlier step.                              *)
InPlanOrder(R) ==
    \A n \in R : \A s \in Steps : s < n[1] => NodesOf(s) \subseteq R

-----------------------------------------------------------------------------
Init == /\ row = NoRow
        /\ pc = [t \in Tasks |-> "unsent"]
        /\ id = [t \in Tasks |-> t]
        /\ trig = [t \in Tasks |-> "manual"]
        /\ results = [t \in Tasks |-> {}]
        /\ next = [t \in Tasks |-> 1]
        /\ outcome = [t \in Tasks |-> "RUNNING"]
        /\ cpc = [c \in Controls |-> "unsent"]
        /\ act = [c \in Controls |-> "pause"]
        /\ snap = [c \in Controls |-> NoRow]
        /\ revoked = {}
        /\ mishaps = 0
        /\ dbErrors = 0
        /\ ran = {}
        /\ runs = [s \in Steps |-> 0]
        /\ sincePause = [t \in Tasks |-> 0]

-----------------------------------------------------------------------------
(* The repository.  save() inserts or overwrites the whole row whatever    *)
(* its status is now; save_checkpoint() writes node_results only.          *)

Save(st, res, task) ==
    /\ row' = [status |-> st, results |-> res, task |-> task]
    /\ sincePause' = IF st = "PAUSED" /\ row.status # "PAUSED"
                       THEN [u \in Tasks |-> 0] ELSE sincePause

SaveCheckpoint(res) ==
    /\ row' = [row EXCEPT !.results = IF row.status = "none" THEN @ ELSE res]
    /\ UNCHANGED sincePause

DbError == /\ dbErrors < MaxDbErrors
           /\ dbErrors' = dbErrors + 1
           /\ UNCHANGED mishaps

Goto(t, state) == pc' = [pc EXCEPT ![t] = state]

-----------------------------------------------------------------------------
(* POST /workflows/{id}/execute: one message, and no row yet.              *)
Submit(t) ==
    /\ \A u \in Tasks : pc[u] = "unsent"
    /\ Goto(t, "queued")
    /\ UNCHANGED <<row, message, results, next, outcome, controlVars,
                   revoked, budgets, history, sincePause>>

(* A worker takes the message and enters execute() with an empty result.   *)
Deliver(t) ==
    /\ pc[t] = "queued"
    /\ id[t] \notin revoked
    /\ Goto(t, IF trig[t] = "resume" THEN "load" ELSE "start")
    /\ results' = [results EXCEPT ![t] = {}]
    /\ next' = [next EXCEPT ![t] = 1]
    /\ outcome' = [outcome EXCEPT ![t] = "RUNNING"]
    /\ UNCHANGED <<row, message, controlVars, revoked, budgets, history,
                   sincePause>>

(* A revoked message is discarded when it is taken; a revoked task that is *)
(* running gets SIGTERM, some time after the revoke call returned.         *)
Kill(t) ==
    /\ id[t] \in revoked
    /\ pc[t] \in Active \cup {"queued"}
    /\ Goto(t, "done")
    /\ UNCHANGED <<row, message, results, next, outcome, controlVars,
                   revoked, budgets, history, sincePause>>

(* _load_checkpoint: what the row shows as done is not run again.          *)
LoadCheckpoint(t) ==
    /\ pc[t] = "load"
    /\ results' = [results EXCEPT ![t] = row.results]
    /\ Goto(t, "start")
    /\ UNCHANGED <<row, message, next, outcome, controlVars, revoked,
                   budgets, history, sincePause>>

(* The read fails: the exception leaves execute() before its try block.    *)
LoadCheckpointFails(t) ==
    /\ pc[t] = "load"
    /\ DbError
    /\ Goto(t, "aborted")
    /\ UNCHANGED <<row, message, results, next, outcome, controlVars,
                   revoked, history, sincePause>>

(* The RUNNING row is saved before the first step.                         *)
StartSave(t) ==
    /\ pc[t] = "start"
    /\ Save("RUNNING", results[t], id[t])
    /\ Goto(t, "boundary")
    /\ UNCHANGED <<message, results, next, outcome, controlVars, revoked,
                   budgets, history>>

(* Loading or planning the workflow fails before the checkpoint is copied  *)
(* into the result, or the start save itself fails after that.             *)
BeginFails(t) ==
    /\ pc[t] = "start"
    /\ \/ results' = [results EXCEPT ![t] = {}] /\ UNCHANGED budgets
       \/ DbError /\ UNCHANGED results
    /\ outcome' = [outcome EXCEPT ![t] = "FAILED"]
    /\ Goto(t, "finish")
    /\ UNCHANGED <<row, message, next, controlVars, revoked, history,
                   sincePause>>

-----------------------------------------------------------------------------
(* Step boundaries.  _is_pause_requested reads the row; a failing read     *)
(* counts as "not paused".                                                 *)
PauseSeen == row.status = "PAUSED"

(* Fault: the loop does not read the row at step boundaries.               *)
NotPausedUnread == UNCHANGED budgets

NotPaused == \/ ~PauseSeen /\ UNCHANGED budgets
             \/ DbError

(* Fault: a paused worker waits at the boundary instead of ending its task.*)
StopPausedWaits(t) == pc[t] = "boundary" /\ PauseSeen /\ UNCHANGED vars

(* PAUSED in the row: stop before the next step, or, after the last one,   *)
(* do not mark the execution completed.                                    *)
StopPaused(t) ==
    /\ pc[t] = "boundary"
    /\ PauseSeen
    /\ outcome' = [outcome EXCEPT ![t] = "PAUSED"]
    /\ Goto(t, "finish")
    /\ UNCHANGED <<row, message, results, next, controlVars, revoked,
                   budgets, history, sincePause>>

(* Fault: any() for all(): one restored step makes the loop pass over all. *)
SkipStepAny(t) ==
    /\ pc[t] = "boundary"
    /\ NotPaused
    /\ next[t] \in Steps
    /\ results[t] # {}
    /\ next' = [next EXCEPT ![t] = @ + 1]
    /\ UNCHANGED <<row, pc, message, results, outcome, controlVars, revoked,
                   history, sincePause>>

(* A step restored from the checkpoint is passed over.                     *)
SkipStep(t) ==
    /\ pc[t] = "boundary"
    /\ NotPaused
    /\ next[t] \in Steps
    /\ NodesOf(next[t]) \subseteq results[t]
    /\ next' = [next EXCEPT ![t] = @ + 1]
    /\ UNCHANGED <<row, pc, message, results, outcome, controlVars, revoked,
                   history, sincePause>>

(* Fault: the step is recorded as done when it is dispatched.              *)
EnterStepRecordsEarly(t) ==
    /\ pc[t] = "boundary"
    /\ NotPaused
    /\ next[t] \in Steps
    /\ ~(NodesOf(next[t]) \subseteq results[t])
    /\ results' = [results EXCEPT ![t] = @ \cup NodesOf(next[t])]
    /\ Goto(t, "step")
    /\ UNCHANGED <<row, message, next, outcome, controlVars, revoked, history,
                   sincePause>>

EnterStep(t) ==
    /\ pc[t] = "boundary"
    /\ NotPaused
    /\ next[t] \in Steps
    /\ ~(NodesOf(next[t]) \subseteq results[t])
    /\ Goto(t, "step")
    /\ UNCHANGED <<row, message, results, next, outcome, controlVars,
                   revoked, history, sincePause>>

(* After the last step, not paused: mark_completed.                        *)
Complete(t) ==
    /\ pc[t] = "boundary"
    /\ NotPaused
    /\ next[t] \notin Steps
    /\ outcome' = [outcome EXCEPT ![t] = "COMPLETED"]
    /\ Goto(t, "finish")
    /\ UNCHANGED <<row, message, results, next, controlVars, revoked, history,
                   sincePause>>

(* Fault: the loop index advances when the step ran and at the checkpoint. *)
RunStepAdvances(t) ==
    /\ pc[t] = "step"
    /\ ran' = ran \cup NodesOf(next[t])
    /\ runs' = [runs EXCEPT ![next[t]] = @ + 1]
    /\ sincePause' = [sincePause EXCEPT ![t] = @ + 1]
    /\ results' = [results EXCEPT ![t] = @ \cup NodesOf(next[t])]
    /\ next' = [next EXCEPT ![t] = @ + 1]
    /\ Goto(t, "checkpoint")
    /\ UNCHANGED <<row, message, outcome, controlVars, revoked, budgets>>

(* The nodes of the step run: every one succeeds or is skipped.            *)
RunStep(t) ==
    /\ pc[t] = "step"
    /\ ran' = ran \cup NodesOf(next[t])
    /\ runs' = [runs EXCEPT ![next[t]] = @ + 1]
    /\ sincePause' = [sincePause EXCEPT ![t] = @ + 1]
    /\ results' = [results EXCEPT ![t] = @ \cup NodesOf(next[t])]
    /\ Goto(t, "checkpoint")
    /\ UNCHANGED <<row, message, next, outcome, controlVars, revoked,
                   budgets>>

(* Fault: the missing break: the loop goes on to the next step.            *)
FailStepGoesOn(t) ==
    /\ pc[t] = "step"
    /\ next' = [next EXCEPT ![t] = @ + 1]
    /\ Goto(t, "boundary")
    /\ UNCHANGED <<row, message, results, outcome, controlVars, revoked,
                   budgets, history, sincePause>>

(* A node of the step fails, or the step raises: no further step.  What    *)
(* the other nodes did stays among the results: all but the failed nodes   *)
(* of a level, any nodes of a loop, whose earlier rounds are kept.  A step *)
(* that raises leaves nothing (good = {}).                                 *)
FailStep(t) ==
    /\ pc[t] = "step"
    /\ \E good \in SUBSET Nodes :
         /\ next[t] \in Loops \/ good # Nodes
         /\ results' = [results EXCEPT ![t] = @ \cup ({next[t]} \X good)]
         /\ ran' = ran \cup ({next[t]} \X good)
    /\ outcome' = [outcome EXCEPT ![t] = "FAILED"]
    /\ Goto(t, "finish")
    /\ UNCHANGED <<row, message, next, controlVars, revoked, budgets, runs,
                   sincePause>>

Checkpoint(t) ==
    /\ pc[t] = "checkpoint"
    /\ SaveCheckpoint(results[t])
    /\ next' = [next EXCEPT ![t] = @ + 1]
    /\ Goto(t, "boundary")
    /\ UNCHANGED <<message, results, outcome, controlVars, revoked, budgets,
                   history>>

CheckpointFails(t) ==
    /\ pc[t] = "checkpoint"
    /\ DbError
    /\ outcome' = [outcome EXCEPT ![t] = "FAILED"]
    /\ Goto(t, "finish")
    /\ UNCHANGED <<row, message, results, next, controlVars, revoked, history,
                   sincePause>>

(* Fault: the last save is a checkpoint, which leaves the status alone.    *)
FinalSaveKeepsStatus(t) ==
    /\ pc[t] = "finish"
    /\ SaveCheckpoint(results[t])
    /\ Goto(t, "ack")
    /\ UNCHANGED <<message, results, next, outcome, controlVars, revoked,
                   budgets, history>>

(* The last save overwrites the row with whatever the run ended in.        *)
FinalSave(t) ==
    /\ pc[t] = "finish"
    /\ Save(outcome[t], results[t], id[t])
    /\ Goto(t, "ack")
    /\ UNCHANGED <<message, results, next, outcome, controlVars, revoked,
                   budgets, history>>

(* The last save is outside the try block: the task fails, the row stays.  *)
FinalSaveFails(t) ==
    /\ pc[t] = "finish"
    /\ DbError
    /\ Goto(t, "ack")
    /\ UNCHANGED <<row, message, results, next, outcome, controlVars,
                   revoked, history, sincePause>>

(* acks_late: the message is acknowledged when the task has ended.         *)
Ack(t) ==
    /\ pc[t] = "ack"
    /\ Goto(t, "done")
    /\ UNCHANGED <<row, message, results, next, outcome, controlVars, revoked,
                   budgets, history, sincePause>>

(* Redis gives a message that nobody acknowledged within its visibility    *)
(* timeout to another worker, while the first is still at work.            *)
Redeliver(t) ==
    /\ pc[t] \in Active
    /\ "duplicate" \in Mishaps
    /\ mishaps < MaxMishaps
    /\ mishaps' = mishaps + 1
    /\ \E u \in Tasks :
         /\ pc[u] = "unsent"
         /\ Goto(u, "queued")
         /\ id' = [id EXCEPT ![u] = id[t]]
         /\ trig' = [trig EXCEPT ![u] = trig[t]]
    /\ UNCHANGED <<row, results, next, outcome, controlVars, revoked, dbErrors,
                   history, sincePause>>

(* A worker dies.  acks_late: the message of a lost container comes back   *)
(* with its first trigger_type; that of a lost child process is acked.     *)
Crash(t) ==
    /\ pc[t] \in Active
    /\ mishaps < MaxMishaps
    /\ mishaps' = mishaps + 1
    /\ \/ "redeliver" \in Mishaps /\ Goto(t, "queued")
       \/ "lose" \in Mishaps /\ Goto(t, "done")
    /\ UNCHANGED <<row, message, results, next, outcome, controlVars,
                   revoked, dbErrors, history,
                   sincePause>>

-----------------------------------------------------------------------------
(* Control tasks.                                                          *)

Target(a) == CASE a = "pause"  -> "PAUSED"
               [] a = "resume" -> "RUNNING"
               [] a = "cancel" -> "CANCELLED"

(* VALID_TRANSITIONS; no row is ever saved as PENDING.                     *)
ValidTransition(from, to) ==
    \/ from = "RUNNING" /\ to \in {"PAUSED", "COMPLETED", "FAILED", "CANCELLED"}
    \/ from = "PAUSED" /\ to \in {"RUNNING", "CANCELLED"}

(* The API checks the owner, so the row exists, then sends the task.       *)
Request(c) ==
    /\ cpc[c] = "unsent"
    /\ row.status # "none"
    /\ \E a \in Actions : act' = [act EXCEPT ![c] = a]
    /\ cpc' = [cpc EXCEPT ![c] = "queued"]
    /\ UNCHANGED <<row, workerVars, snap, revoked, budgets, history,
                   sincePause>>

(* get, then validate_state_transition: a refused request is skipped.      *)
GetRow(c) ==
    /\ cpc[c] = "queued"
    /\ IF ValidTransition(row.status, Target(act[c]))
         THEN /\ snap' = [snap EXCEPT ![c] = row]
              /\ cpc' = [cpc EXCEPT ![c] = "got"]
         ELSE /\ cpc' = [cpc EXCEPT ![c] = "done"]
              /\ UNCHANGED snap
    /\ UNCHANGED <<row, workerVars, act, revoked, budgets, history, sincePause>>

(* cancel: revoke the task the row names, before the row is saved.         *)
CancelRevoke(c) ==
    /\ cpc[c] = "got"
    /\ act[c] = "cancel"
    /\ revoked' = revoked \cup ({snap[c].task} \ {NoTask})
    /\ cpc' = [cpc EXCEPT ![c] = "save"]
    /\ UNCHANGED <<row, workerVars, act, snap, budgets, history, sincePause>>

(* resume: send the new message, before the row is saved.                  *)
ResumeDispatch(c) ==
    /\ cpc[c] = "got"
    /\ act[c] = "resume"
    /\ \E t \in Tasks :
         /\ pc[t] = "unsent"
         /\ Goto(t, "queued")
         /\ trig' = [trig EXCEPT ![t] = "resume"]
         /\ snap' = [snap EXCEPT ![c].task = id[t]]
    /\ cpc' = [cpc EXCEPT ![c] = "save"]
    /\ UNCHANGED <<row, id, results, next, outcome, act, revoked, budgets,
                   history, sincePause>>

(* The snapshot is saved whole, with the target status.                    *)
ControlSave(c) ==
    /\ \/ cpc[c] = "got" /\ act[c] = "pause"
       \/ cpc[c] = "save"
    /\ Save(Target(act[c]), snap[c].results, snap[c].task)
    /\ cpc' = [cpc EXCEPT ![c] = "done"]
    /\ UNCHANGED <<workerVars, act, snap, revoked, budgets, history>>

(* The control task dies, or a call of it raises.                          *)
ControlCrash(c) ==
    /\ cpc[c] \in {"got", "save"}
    /\ mishaps < MaxMishaps
    /\ mishaps' = mishaps + 1
    /\ \/ "redeliver" \in Mishaps /\ cpc' = [cpc EXCEPT ![c] = "queued"]
       \/ "lose" \in Mishaps /\ cpc' = [cpc EXCEPT ![c] = "done"]
    /\ UNCHANGED <<row, workerVars, act, snap, revoked, dbErrors, history,
                   sincePause>>

-----------------------------------------------------------------------------
WorkerStep(t) ==
    \/ Deliver(t) \/ Kill(t)
    \/ LoadCheckpoint(t) \/ LoadCheckpointFails(t)
    \/ StartSave(t) \/ BeginFails(t)
    \/ StopPaused(t) \/ SkipStep(t) \/ EnterStep(t) \/ Complete(t)
    \/ RunStep(t) \/ FailStep(t)
    \/ Checkpoint(t) \/ CheckpointFails(t)
    \/ FinalSave(t) \/ FinalSaveFails(t) \/ Ack(t)

ControlStep(c) == \/ GetRow(c) \/ CancelRevoke(c) \/ ResumeDispatch(c)
                  \/ ControlSave(c)

Next == \/ \E t \in Tasks : Submit(t) \/ WorkerStep(t)
                            \/ Redeliver(t) \/ Crash(t)
        \/ \E c \in Controls : Request(c) \/ ControlStep(c) \/ ControlCrash(c)

Spec == Init /\ [][Next]_vars

(* Celery keeps running the tasks it was given; nobody owes a request, a   *)
(* crash or a failure.                                                     *)
Fairness == /\ \A t \in Tasks : WF_vars(WorkerStep(t))
            /\ \A c \in Controls : WF_vars(ControlStep(c))

FairSpec == Spec /\ Fairness

-----------------------------------------------------------------------------
(* Properties.                                                             *)

(* Every variable holds what the code can store in it; a worker's loop     *)
(* never runs past the end of the plan.                                    *)
TypeOK ==
    /\ row \in Rows
    /\ pc \in [Tasks -> TaskStates]
    /\ id \in [Tasks -> Tasks]
    /\ trig \in [Tasks -> {"manual", "resume"}]
    /\ results \in [Tasks -> SUBSET PlanNodes]
    /\ next \in [Tasks -> 1..NumSteps + 1]
    /\ outcome \in [Tasks -> RowStatuses]
    /\ cpc \in [Controls -> ControlStates]
    /\ act \in [Controls -> {"pause", "resume", "cancel"}]
    /\ snap \in [Controls -> Rows]
    /\ revoked \subseteq Tasks
    /\ mishaps \in 0..MaxMishaps
    /\ dbErrors \in 0..MaxDbErrors
    /\ ran \subseteq PlanNodes
    /\ runs \in [Steps -> Nat]
    /\ sincePause \in [Tasks -> Nat]

(* A row says COMPLETED only when every node of the plan has succeeded or  *)
(* been skipped in some try of its step, whichever workers made those      *)
(* tries and whatever a resumed worker passed over (execute: skip by       *)
(* completed_ids, then mark_completed).                                    *)
CompletedMeansAllRan == row.status = "COMPLETED" => ran = PlanNodes

(* A node the row shows as done, which a resume goes by, has really run    *)
(* without failing, and so have all nodes of all the steps before it,      *)
(* although control tasks write back snapshots, several workers write      *)
(* their own lists and a failed try leaves part of its step there.         *)
CheckpointIsHonest == row.results \subseteq ran /\ InPlanOrder(row.results)

(* Cooperative pause: from the moment the row says PAUSED, and for as long *)
(* as it does, a worker runs to its end at most the step it was in, plus   *)
(* one for each status read that failed (_is_pause_requested: False).      *)
PauseStopsWithinOneStep ==
    row.status = "PAUSED" =>
        \A t \in Tasks : sincePause[t] <= 1 + dbErrors

(* The execution keeps the promise of module ExecutionPromise: nodes run   *)
(* in plan order, and the row shows only what is true of them.             *)
Promise == INSTANCE ExecutionPromise
             WITH status <- row.status, saved <- row.results, ran <- ran
PromiseKept == Promise!Spec

(* Every message given to the broker is dealt with: its task ends, whatever*)
(* pauses, cancels, mishaps and failures happen on the way.                *)
TasksEnd == \A t \in Tasks : pc[t] = "queued" ~> pc[t] \in {"done", "aborted"}

(* A pause is honoured: once the row says PAUSED every worker stops,       *)
(* unless someone writes another status.                                   *)
PauseHonoured == row.status = "PAUSED" ~>
                    \/ row.status # "PAUSED"
                    \/ \A t \in Tasks : pc[t] \notin Active

(* The row does not say RUNNING for ever: it settles in a status that tells*)
(* the user what happened, as long as no message is lost.  Two things may  *)
(* keep it RUNNING: a resume (it saves RUNNING after its task was sent and *)
(* may have finished), and a cancel that meets a redelivered message (the  *)
(* start save can come after the cancel's save and before the SIGTERM).    *)
Settles == <>[](row.status = "RUNNING" =>
                   \/ \E c \in Controls : act[c] = "resume"
                   \/ revoked # {} /\ mishaps > 0)

(* ADR-0025: a resumed execution does not run completed steps again, so    *)
(* no step takes effect twice.                                             *)
ResumeNeverRepeats == \A s \in Steps : runs[s] <= 1

(* _Checkpoint: "the stored node_results hold only the results of steps    *)
(* that ran completely", so an execution whose steps were passed over by   *)
(* them is COMPLETED only when every step has run to its end.              *)
CompletedMeansStepsFinished == row.status = "COMPLETED" => Finished = Steps

(* _load_checkpoint: a resume that could not read its checkpoint leaves    *)
(* the execution PAUSED, so that the user can resume again.                *)
FailedResumeStaysPaused ==
    (/\ \E t \in Tasks : pc[t] = "aborted"
     /\ \A t \in Tasks : pc[t] \in {"unsent", "done", "aborted"}
     /\ \A c \in Controls : cpc[c] \in {"unsent", "done"})
        => row.status = "PAUSED"
=============================================================================
