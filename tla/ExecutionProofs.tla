--------------------------- MODULE ExecutionProofs ---------------------------
(***************************************************************************)
(* Proofs about Execution, for every number of steps and nodes, every      *)
(* choice of the loops, every set of tasks, control requests and crash     *)
(* outcomes and every bound.                                               *)
(*                                                                         *)
(* The row is written from three places: a worker's own list, a control    *)
(* task's snapshot, and the row itself after a restart.  So the fact "what *)
(* is recorded as done has run, in plan order" must hold of all of them at *)
(* once to be kept by every step: that is Honest.                          *)
(***************************************************************************)
EXTENDS Execution, TLAPS

(* A set of recorded steps that may be trusted.                            *)
Recorded(S) == S \subseteq ran /\ InPlanOrder(S)

Honest == /\ Recorded(row.results)
          /\ \A t \in Tasks : Recorded(results[t])
          /\ \A c \in Controls : Recorded(snap[c].results)

(* A worker at step n holds the results of every step before n.            *)
LoopOrder == \A t \in Tasks :
    /\ pc[t] \in {"load", "start"} => next[t] = 1
    /\ pc[t] \in {"boundary", "step", "checkpoint"} =>
          \A r \in Steps : r < next[t] => NodesOf(r) \subseteq results[t]
    /\ pc[t] = "step" => next[t] \in Steps
    /\ pc[t] = "checkpoint" => /\ next[t] \in Steps
                               /\ NodesOf(next[t]) \subseteq results[t]

(* COMPLETED, decided or saved, means that every node of the plan has run. *)
CompletedHonest == /\ row.status = "COMPLETED" => ran = PlanNodes
                   /\ \A t \in Tasks : outcome[t] = "COMPLETED" => ran = PlanNodes

IInv == TypeOK /\ Honest /\ LoopOrder /\ CompletedHonest

-----------------------------------------------------------------------------
LEMMA StepsAreNat == Steps \subseteq Nat /\ NumSteps + 1 \in Nat
BY NumStepsAssumption DEF Steps

(* Every row the code saves is a row.                                      *)
LEMMA SaveTypeOK ==
    ASSUME TypeOK, NEW st \in RowStatuses, NEW res \in SUBSET PlanNodes,
           NEW t \in Tasks \cup {NoTask}, Save(st, res, t)
    PROVE  row' \in Rows /\ sincePause' \in [Tasks -> Nat]
BY DEF TypeOK, Save, Rows, Status

LEMMA InitTypeOK == Init => TypeOK
BY NumStepsAssumption, BoundsAssumption
   DEF Init, TypeOK, NoRow, Rows, Status, RowStatuses, TaskStates,
       ControlStates, Active, Steps

(* Type correctness is kept by every action.                               *)
LEMMA NextTypeOK == TypeOK /\ LoopOrder /\ [Next]_vars => TypeOK'
<1> SUFFICES ASSUME TypeOK, LoopOrder, [Next]_vars PROVE TypeOK'
    OBVIOUS
<1> USE DEF history
<1> USE StepsAreNat, BoundsAssumption DEF message, budgets
<1>1. ASSUME NEW t \in Tasks, Submit(t) PROVE TypeOK'
    BY <1>1 DEF TypeOK, Submit, Goto, workerVars, controlVars, TaskStates
<1>2. ASSUME NEW t \in Tasks, Deliver(t) PROVE TypeOK'
    BY <1>2, NumStepsAssumption
       DEF TypeOK, Deliver, Goto, controlVars, TaskStates, Active,
           RowStatuses
<1>3. ASSUME NEW t \in Tasks, Kill(t) PROVE TypeOK'
    BY <1>3 DEF TypeOK, Kill, Goto, controlVars, TaskStates
<1>4. ASSUME NEW t \in Tasks, LoadCheckpoint(t) PROVE TypeOK'
    BY <1>4 DEF TypeOK, LoadCheckpoint, Goto, controlVars, TaskStates,
                Active, Rows
<1>5. ASSUME NEW t \in Tasks, LoadCheckpointFails(t) PROVE TypeOK'
    BY <1>5 DEF TypeOK, LoadCheckpointFails, DbError, Goto, controlVars,
                TaskStates
<1>6. ASSUME NEW t \in Tasks, StartSave(t) PROVE TypeOK'
  <2>1. row' \in Rows /\ sincePause' \in [Tasks -> Nat]
    BY <1>6, SaveTypeOK DEF TypeOK, StartSave, RowStatuses
  <2> QED
    BY <1>6, <2>1 DEF TypeOK, StartSave, Goto, controlVars, TaskStates,
                      Active
<1>7. ASSUME NEW t \in Tasks, BeginFails(t) PROVE TypeOK'
    BY <1>7 DEF TypeOK, BeginFails, DbError, Goto, controlVars, TaskStates,
                Active, RowStatuses
<1>8. ASSUME NEW t \in Tasks, StopPaused(t) PROVE TypeOK'
    BY <1>8 DEF TypeOK, StopPaused, Goto, controlVars, TaskStates,
                Active, RowStatuses
<1>9. ASSUME NEW t \in Tasks, SkipStep(t) PROVE TypeOK'
  <2>1. next[t] + 1 \in 1..NumSteps + 1
    BY <1>9, NumStepsAssumption DEF SkipStep, Steps
  <2> QED
    BY <1>9, <2>1 DEF TypeOK, SkipStep, NotPaused, DbError, controlVars
<1>10. ASSUME NEW t \in Tasks, EnterStep(t) PROVE TypeOK'
    BY <1>10 DEF TypeOK, EnterStep, NotPaused, DbError, Goto, controlVars,
                 TaskStates, Active
<1>11. ASSUME NEW t \in Tasks, Complete(t) PROVE TypeOK'
    BY <1>11 DEF TypeOK, Complete, NotPaused, DbError, Goto, controlVars,
                 TaskStates, Active, RowStatuses
<1>12. ASSUME NEW t \in Tasks, RunStep(t) PROVE TypeOK'
  <2>1. next[t] \in Steps
    BY <1>12 DEF LoopOrder, RunStep
  <2>2. /\ results' \in [Tasks -> SUBSET PlanNodes]
        /\ ran' \subseteq PlanNodes
    BY <1>12, <2>1 DEF TypeOK, RunStep, NodesOf, PlanNodes
  <2>3. runs' \in [Steps -> Nat]
    BY <1>12, <2>1 DEF TypeOK, RunStep
  <2> QED
    BY <1>12, <2>2, <2>3 DEF TypeOK, RunStep, Goto, controlVars, TaskStates,
                             Active
<1>13. ASSUME NEW t \in Tasks, FailStep(t) PROVE TypeOK'
  <2>1. next[t] \in Steps
    BY <1>13 DEF LoopOrder, FailStep
  <2>2. /\ results' \in [Tasks -> SUBSET PlanNodes]
        /\ ran' \subseteq PlanNodes
    BY <1>13, <2>1 DEF TypeOK, FailStep, PlanNodes
  <2> QED
    BY <1>13, <2>2 DEF TypeOK, FailStep, Goto, controlVars, TaskStates,
                       Active, RowStatuses
<1>14. ASSUME NEW t \in Tasks, Checkpoint(t) PROVE TypeOK'
  <2>1. next[t] + 1 \in 1..NumSteps + 1
    BY <1>14, NumStepsAssumption DEF LoopOrder, Checkpoint, Steps
  <2>2. row' \in Rows
    BY <1>14 DEF TypeOK, Checkpoint, SaveCheckpoint, Rows
  <2> QED
    BY <1>14, <2>1, <2>2 DEF TypeOK, Checkpoint, SaveCheckpoint, Goto,
                             controlVars, TaskStates, Active
<1>15. ASSUME NEW t \in Tasks, CheckpointFails(t) PROVE TypeOK'
    BY <1>15 DEF TypeOK, CheckpointFails, DbError, Goto, controlVars,
                 TaskStates, Active, RowStatuses
<1>16. ASSUME NEW t \in Tasks, FinalSave(t) PROVE TypeOK'
  <2>1. row' \in Rows /\ sincePause' \in [Tasks -> Nat]
    BY <1>16, SaveTypeOK DEF TypeOK, FinalSave
  <2> QED
    BY <1>16, <2>1 DEF TypeOK, FinalSave, Goto, controlVars, TaskStates, Active
<1>17. ASSUME NEW t \in Tasks, FinalSaveFails(t) PROVE TypeOK'
    BY <1>17 DEF TypeOK, FinalSaveFails, DbError, Goto, controlVars, TaskStates,
                 Active
<1>18. ASSUME NEW t \in Tasks, Crash(t) PROVE TypeOK'
    BY <1>18 DEF TypeOK, Crash, Goto, controlVars, TaskStates
<1>19. ASSUME NEW c \in Controls, Request(c) PROVE TypeOK'
    BY <1>19, ActionsAssumption
       DEF TypeOK, Request, workerVars, ControlStates
<1>20. ASSUME NEW c \in Controls, GetRow(c) PROVE TypeOK'
    BY <1>20 DEF TypeOK, GetRow, workerVars, ControlStates
<1>21. ASSUME NEW c \in Controls, CancelRevoke(c) PROVE TypeOK'
    BY <1>21 DEF TypeOK, CancelRevoke, workerVars, ControlStates, Rows
<1>22. ASSUME NEW c \in Controls, ResumeDispatch(c) PROVE TypeOK'
  <2>1. PICK t \in Tasks : /\ Goto(t, "queued")
                           /\ trig' = [trig EXCEPT ![t] = "resume"]
                           /\ snap' = [snap EXCEPT ![c].task = id[t]]
    BY <1>22 DEF ResumeDispatch
  <2>2. snap' \in [Controls -> Rows]
    BY <2>1 DEF TypeOK, Rows
  <2> QED
    BY <1>22, <2>1, <2>2 DEF TypeOK, ResumeDispatch, Goto,
                             ControlStates, TaskStates
<1>23. ASSUME NEW c \in Controls, ControlSave(c) PROVE TypeOK'
  <2>1. Target(act[c]) \in RowStatuses
    BY DEF TypeOK, Target, RowStatuses
  <2>2. snap[c] \in Rows
    BY DEF TypeOK
  <2>3. row' \in Rows /\ sincePause' \in [Tasks -> Nat]
    BY <1>23, <2>1, <2>2, SaveTypeOK DEF ControlSave, Rows
  <2> QED
    BY <1>23, <2>3 DEF TypeOK, ControlSave, workerVars, ControlStates
<1>24. ASSUME NEW c \in Controls, ControlCrash(c) PROVE TypeOK'
    BY <1>24 DEF TypeOK, ControlCrash, workerVars, ControlStates
<1>25. CASE UNCHANGED vars
    BY <1>25 DEF TypeOK, vars
<1>26. ASSUME NEW t \in Tasks, Ack(t) PROVE TypeOK'
    BY <1>26 DEF TypeOK, Ack, Goto, controlVars, TaskStates
<1>27. ASSUME NEW t \in Tasks, Redeliver(t) PROVE TypeOK'
    BY <1>27 DEF TypeOK, Redeliver, Goto, controlVars, TaskStates
<1> QED
    BY <1>1, <1>2, <1>3, <1>4, <1>5, <1>6, <1>7, <1>8, <1>9, <1>10, <1>11,
       <1>12, <1>13, <1>14, <1>15, <1>16, <1>17, <1>18, <1>19, <1>20, <1>21,
       <1>22, <1>23, <1>24, <1>25, <1>26, <1>27
       DEF Next, WorkerStep, ControlStep

(* A try of step n adds nodes of step n behind every node of the earlier   *)
(* steps, so what it leaves may be trusted as what was there before.       *)
LEMMA TryKeepsOrder ==
    ASSUME NEW R \in SUBSET PlanNodes, InPlanOrder(R), NEW n \in Steps,
           NEW good \in SUBSET Nodes,
           \A r \in Steps : r < n => NodesOf(r) \subseteq R
    PROVE  /\ R \cup ({n} \X good) \in SUBSET PlanNodes
           /\ InPlanOrder(R \cup ({n} \X good))
BY DEF InPlanOrder, PlanNodes

(* Nothing recorded as done becomes untrue, and what is copied from one    *)
(* place to another was recorded before.                                   *)
LEMMA NextHonest == TypeOK /\ LoopOrder /\ Honest /\ [Next]_vars => Honest'
<1> SUFFICES ASSUME TypeOK, LoopOrder, Honest, [Next]_vars PROVE Honest'
    OBVIOUS
<1> USE DEF history
<1>1. ASSUME row' = row, results' = results, snap' = snap, ran' = ran
      PROVE  Honest'
    BY <1>1 DEF Honest, Recorded, InPlanOrder
<1>2. ASSUME NEW t \in Tasks, Deliver(t) PROVE Honest'
    BY <1>2 DEF TypeOK, Deliver, controlVars, Honest, Recorded, InPlanOrder
<1>3. ASSUME NEW t \in Tasks, LoadCheckpoint(t) PROVE Honest'
    BY <1>3
       DEF TypeOK, LoadCheckpoint, controlVars, Honest, Recorded, InPlanOrder
<1>4. ASSUME NEW t \in Tasks, StartSave(t) PROVE Honest'
    BY <1>4
       DEF TypeOK, StartSave, Save, controlVars, Honest, Recorded, InPlanOrder
<1>5. ASSUME NEW t \in Tasks, BeginFails(t) PROVE Honest'
    BY <1>5
       DEF TypeOK, BeginFails, controlVars, Honest, Recorded, InPlanOrder
<1>6. ASSUME NEW t \in Tasks, RunStep(t) \/ FailStep(t) PROVE Honest'
  <2>1. PICK good \in SUBSET Nodes :
          /\ results' = [results EXCEPT ![t] = @ \cup ({next[t]} \X good)]
          /\ ran' = ran \cup ({next[t]} \X good)
    BY <1>6 DEF RunStep, FailStep, NodesOf
  <2>2. /\ next[t] \in Steps /\ results[t] \in SUBSET PlanNodes
        /\ \A r \in Steps : r < next[t] => NodesOf(r) \subseteq results[t]
    BY <1>6 DEF TypeOK, LoopOrder, RunStep, FailStep
  <2> DEFINE Done == results[t] \cup ({next[t]} \X good)
  <2>3. InPlanOrder(Done)
    BY <2>2, TryKeepsOrder DEF Honest, Recorded
  <2>4. Done \subseteq ran' /\ ran \subseteq ran'
    BY <2>1 DEF Honest, Recorded
  <2>5. \A u \in Tasks : results'[u] = IF u = t THEN Done ELSE results[u]
    BY <2>1 DEF TypeOK
  <2> HIDE DEF Done
  <2>6. \A u \in Tasks : results'[u] \subseteq ran' /\ InPlanOrder(results'[u])
    BY <2>3, <2>4, <2>5 DEF Honest, Recorded
  <2>7. row' = row /\ snap' = snap
    BY <1>6 DEF RunStep, FailStep, controlVars
  <2> QED
    BY <2>4, <2>6, <2>7 DEF Honest, Recorded
<1>7. ASSUME NEW t \in Tasks, Checkpoint(t) PROVE Honest'
    BY <1>7
       DEF TypeOK, Rows, Checkpoint, SaveCheckpoint, controlVars, Honest,
           Recorded, InPlanOrder
<1>8. ASSUME NEW t \in Tasks, FinalSave(t) PROVE Honest'
    BY <1>8
       DEF TypeOK, FinalSave, Save, controlVars, Honest, Recorded, InPlanOrder
<1>9. ASSUME NEW c \in Controls, GetRow(c) PROVE Honest'
    BY <1>9
       DEF TypeOK, GetRow, workerVars, Honest, Recorded, InPlanOrder
<1>10. ASSUME NEW c \in Controls, ResumeDispatch(c) PROVE Honest'
  <2>1. PICK t \in Tasks : snap' = [snap EXCEPT ![c].task = id[t]]
    BY <1>10 DEF ResumeDispatch
  <2>2. \A d \in Controls : snap'[d].results = snap[d].results
    BY <2>1 DEF TypeOK, Rows
  <2> QED
    BY <1>10, <2>2 DEF ResumeDispatch, Honest, Recorded, InPlanOrder
<1>11. ASSUME NEW c \in Controls, ControlSave(c) PROVE Honest'
    BY <1>11
       DEF TypeOK, ControlSave, Save, workerVars, Honest, Recorded, InPlanOrder
<1>12. ASSUME NEW t \in Tasks,
              \/ Submit(t) \/ Kill(t) \/ LoadCheckpointFails(t) \/ StopPaused(t)
              \/ SkipStep(t) \/ EnterStep(t) \/ Complete(t)
              \/ CheckpointFails(t) \/ FinalSaveFails(t) \/ Ack(t)
              \/ Redeliver(t) \/ Crash(t)
       PROVE Honest'
    BY <1>1, <1>12
       DEF Submit, Kill, LoadCheckpointFails, StopPaused, SkipStep, EnterStep,
           Complete, CheckpointFails, FinalSaveFails, Ack, Redeliver, Crash,
           controlVars
<1>13. ASSUME NEW c \in Controls,
              Request(c) \/ CancelRevoke(c) \/ ControlCrash(c)
       PROVE Honest'
    BY <1>1, <1>13 DEF Request, CancelRevoke, ControlCrash, workerVars
<1>14. CASE UNCHANGED vars
    BY <1>1, <1>14 DEF vars
<1> QED
    BY <1>2, <1>3, <1>4, <1>5, <1>6, <1>7, <1>8, <1>9, <1>10, <1>11, <1>12,
       <1>13, <1>14 DEF Next, WorkerStep, ControlStep

(* A worker's loop takes the steps in order and passes over a step only if *)
(* its result is already there.                                            *)
LEMMA NextLoopOrder == TypeOK /\ LoopOrder /\ [Next]_vars => LoopOrder'
<1> SUFFICES ASSUME TypeOK, LoopOrder, [Next]_vars PROVE LoopOrder'
    OBVIOUS
<1> USE DEF history
<1> USE StepsAreNat
<1>1. ASSUME pc' = pc, results' = results, next' = next PROVE LoopOrder'
    BY <1>1 DEF LoopOrder
<1>2. ASSUME NEW t \in Tasks, Submit(t) PROVE LoopOrder'
    BY <1>2 DEF TypeOK, Submit, Goto, LoopOrder
<1>3. ASSUME NEW t \in Tasks, Deliver(t) PROVE LoopOrder'
    BY <1>3 DEF TypeOK, Deliver, Goto, LoopOrder
<1>4. ASSUME NEW t \in Tasks, LoadCheckpoint(t) PROVE LoopOrder'
    BY <1>4 DEF TypeOK, LoadCheckpoint, Goto, LoopOrder
<1>5. ASSUME NEW t \in Tasks, StartSave(t) PROVE LoopOrder'
    BY <1>5, NumStepsAssumption DEF TypeOK, StartSave, Goto, LoopOrder, Steps
<1>6. ASSUME NEW t \in Tasks, SkipStep(t) PROVE LoopOrder'
    BY <1>6, NumStepsAssumption DEF TypeOK, SkipStep, LoopOrder, Steps
<1>7. ASSUME NEW t \in Tasks, EnterStep(t) PROVE LoopOrder'
    BY <1>7 DEF TypeOK, EnterStep, Goto, LoopOrder
<1>8. ASSUME NEW t \in Tasks, RunStep(t) PROVE LoopOrder'
    BY <1>8 DEF TypeOK, RunStep, Goto, LoopOrder
<1>9. ASSUME NEW t \in Tasks, Checkpoint(t) PROVE LoopOrder'
  <2>1. next[t] \in 1..NumSteps + 1 /\ pc[t] = "checkpoint"
    BY <1>9 DEF TypeOK, Checkpoint
  <2>2. \A r \in Steps : r < next[t] + 1 => r < next[t] \/ r = next[t]
    BY <2>1, NumStepsAssumption DEF Steps
  <2>3. \A r \in Steps : r < next[t] + 1 => NodesOf(r) \subseteq results[t]
    BY <2>1, <2>2 DEF LoopOrder
  <2> QED
    BY <1>9, <2>3 DEF TypeOK, Checkpoint, Goto, LoopOrder
<1>10. ASSUME NEW t \in Tasks,
              \/ Kill(t) \/ LoadCheckpointFails(t) \/ BeginFails(t)
              \/ StopPaused(t) \/ Complete(t) \/ FailStep(t)
              \/ CheckpointFails(t) \/ FinalSave(t) \/ FinalSaveFails(t)
              \/ Ack(t) \/ Redeliver(t) \/ Crash(t)
       PROVE LoopOrder'
  <2>1. /\ next' = next
        /\ \A u \in Tasks : \/ pc'[u] = pc[u] /\ results'[u] = results[u]
                            \/ pc'[u] \in {"done", "aborted", "finish", "ack",
                                          "queued"}
    BY <1>10
       DEF TypeOK, Kill, LoadCheckpointFails, BeginFails, StopPaused, Complete,
           FailStep, CheckpointFails, FinalSave, FinalSaveFails, Ack, Redeliver,
           Crash, Goto
  <2> QED
    BY <2>1 DEF LoopOrder
<1>11. ASSUME NEW c \in Controls, ResumeDispatch(c) PROVE LoopOrder'
    BY <1>11 DEF TypeOK, ResumeDispatch, Goto, LoopOrder
<1>12. ASSUME NEW c \in Controls,
              \/ Request(c) \/ GetRow(c) \/ CancelRevoke(c)
              \/ ControlSave(c) \/ ControlCrash(c)
       PROVE LoopOrder'
    BY <1>1, <1>12 DEF Request, GetRow, CancelRevoke, ControlSave,
                       ControlCrash, workerVars
<1>13. CASE UNCHANGED vars
    BY <1>1, <1>13 DEF vars
<1> QED
    BY <1>2, <1>3, <1>4, <1>5, <1>6, <1>7, <1>8, <1>9, <1>10, <1>11, <1>12,
       <1>13 DEF Next, WorkerStep, ControlStep

(* COMPLETED is decided only by a worker that holds every step's result;   *)
(* no control task can write it.                                           *)
LEMMA NextCompletedHonest == IInv /\ [Next]_vars => CompletedHonest'
<1> SUFFICES ASSUME IInv, [Next]_vars PROVE CompletedHonest'
    OBVIOUS
<1> USE DEF history
<1> USE DEF IInv
<1>1. ASSUME outcome' = outcome, ran' = ran,
             row'.status # "COMPLETED" \/ row'.status = row.status
      PROVE  CompletedHonest'
    BY <1>1 DEF CompletedHonest
<1>0. ran' \subseteq PlanNodes
    BY NextTypeOK DEF TypeOK
<1>2. ASSUME NEW t \in Tasks,
             \/ Deliver(t) \/ BeginFails(t) \/ StopPaused(t) \/ FailStep(t)
             \/ CheckpointFails(t)
      PROVE CompletedHonest'
  <2>1. /\ row' = row /\ ran \subseteq ran'
        /\ \A u \in Tasks : outcome'[u] = outcome[u] \/ outcome'[u] # "COMPLETED"
    BY <1>2 DEF TypeOK, Deliver, BeginFails, StopPaused, FailStep,
                CheckpointFails
  <2> QED
    BY <2>1, <1>0 DEF CompletedHonest
<1>3. ASSUME NEW t \in Tasks, Complete(t) PROVE CompletedHonest'
  <2>0. next[t] \in 1..NumSteps + 1 /\ next[t] \notin 1..NumSteps
    BY <1>3 DEF TypeOK, Complete, Steps
  <2>1. next[t] = NumSteps + 1
    BY <2>0, NumStepsAssumption
  <2>2. \A r \in Steps : NodesOf(r) \subseteq results[t]
    BY <1>3, <2>1, NumStepsAssumption DEF Complete, LoopOrder, Steps
  <2>3. PlanNodes \subseteq results[t]
    BY <2>2 DEF PlanNodes, NodesOf
  <2>4. ran = PlanNodes
    BY <2>3 DEF Honest, Recorded, TypeOK
  <2> QED
    BY <1>3, <2>4 DEF Complete, CompletedHonest
<1>4. ASSUME NEW t \in Tasks, RunStep(t) PROVE CompletedHonest'
    BY <1>0, <1>4 DEF RunStep, CompletedHonest
<1>5. ASSUME NEW t \in Tasks, FinalSave(t) PROVE CompletedHonest'
    BY <1>5 DEF FinalSave, Save, CompletedHonest
<1>6. ASSUME NEW t \in Tasks, StartSave(t) PROVE CompletedHonest'
    BY <1>1, <1>6 DEF StartSave, Save
<1>7. ASSUME NEW t \in Tasks, Checkpoint(t) PROVE CompletedHonest'
    BY <1>1, <1>7 DEF TypeOK, Rows, Checkpoint, SaveCheckpoint
<1>8. ASSUME NEW c \in Controls, ControlSave(c) PROVE CompletedHonest'
  <2>1. Target(act[c]) # "COMPLETED"
    BY DEF TypeOK, Target
  <2> QED
    BY <1>1, <1>8, <2>1 DEF ControlSave, Save, workerVars
<1>9. ASSUME NEW t \in Tasks,
             \/ Submit(t) \/ Kill(t) \/ LoadCheckpoint(t)
             \/ LoadCheckpointFails(t) \/ SkipStep(t) \/ EnterStep(t)
             \/ FinalSaveFails(t) \/ Ack(t) \/ Redeliver(t) \/ Crash(t)
      PROVE CompletedHonest'
    BY <1>1, <1>9 DEF Submit, Kill, LoadCheckpoint, LoadCheckpointFails,
                      SkipStep, EnterStep, FinalSaveFails, Ack, Redeliver,
                      Crash
<1>10. ASSUME NEW c \in Controls,
              \/ Request(c) \/ GetRow(c) \/ CancelRevoke(c)
              \/ ResumeDispatch(c) \/ ControlCrash(c)
       PROVE CompletedHonest'
    BY <1>1, <1>10 DEF Request, GetRow, CancelRevoke, ResumeDispatch,
                       ControlCrash, workerVars
<1>11. CASE UNCHANGED vars
    BY <1>1, <1>11 DEF vars
<1> QED
    BY <1>2, <1>3, <1>4, <1>5, <1>6, <1>7, <1>8, <1>9, <1>10, <1>11
       DEF Next, WorkerStep, ControlStep

-----------------------------------------------------------------------------
LEMMA InitIInv == Init => IInv
<1> SUFFICES ASSUME Init PROVE IInv
    OBVIOUS
<1>1. TypeOK
    BY InitTypeOK
<1>2. Honest
    BY DEF Init, NoRow, Honest, Recorded, InPlanOrder
<1>3. LoopOrder /\ CompletedHonest
    BY DEF Init, NoRow, LoopOrder, CompletedHonest
<1> QED
    BY <1>1, <1>2, <1>3 DEF IInv

(* The inductive invariant holds in every reachable state.                 *)
THEOREM Invariance == Spec => []IInv
<1>1. Init => IInv
    BY InitIInv
<1>2. IInv /\ [Next]_vars => IInv'
    BY NextTypeOK, NextHonest, NextLoopOrder, NextCompletedHonest DEF IInv
<1> QED
    BY <1>1, <1>2, PTL DEF Spec

(* Type correctness of rows, snapshots and worker state.                   *)
THEOREM TypeCorrect == Spec => []TypeOK
BY Invariance, PTL DEF IInv

(* A row says COMPLETED only when every node of the plan has succeeded or  *)
(* been skipped in some try of its step.                                   *)
THEOREM CompletedCorrect == Spec => []CompletedMeansAllRan
<1>1. IInv => CompletedMeansAllRan
    BY DEF IInv, CompletedHonest, CompletedMeansAllRan
<1> QED
    BY <1>1, Invariance, PTL

(* What the row shows as done, and a resume passes over, has really run.   *)
THEOREM CheckpointCorrect == Spec => []CheckpointIsHonest
<1>1. IInv => CheckpointIsHonest
    BY DEF IInv, Honest, Recorded, CheckpointIsHonest
<1> QED
    BY <1>1, Invariance, PTL

-----------------------------------------------------------------------------
(* While the row says PAUSED a worker inside a step has not yet used up    *)
(* the one step it may finish; entering a step costs a failed status read. *)
PauseInv == row.status = "PAUSED" =>
    \A t \in Tasks : /\ sincePause[t] <= 1 + dbErrors
                     /\ pc[t] = "step" => sincePause[t] <= dbErrors

LEMMA NextPauseInv == TypeOK /\ PauseInv /\ [Next]_vars => PauseInv'
<1> SUFFICES ASSUME TypeOK, PauseInv, [Next]_vars PROVE PauseInv'
    OBVIOUS
<1> USE DEF history
<1>0. dbErrors \in Nat /\ \A t \in Tasks : sincePause[t] \in Nat
    BY BoundsAssumption DEF TypeOK
<1>1. ASSUME row'.status = row.status, sincePause' = sincePause,
             dbErrors' \in Nat, dbErrors' >= dbErrors,
             \A t \in Tasks : pc'[t] = "step" => pc[t] = "step"
      PROVE  PauseInv'
  <2> SUFFICES ASSUME row'.status = "PAUSED", NEW t \in Tasks
               PROVE  /\ sincePause'[t] <= 1 + dbErrors'
                      /\ pc'[t] = "step" => sincePause'[t] <= dbErrors'
    BY DEF PauseInv
  <2>1. /\ sincePause[t] <= 1 + dbErrors
        /\ pc[t] = "step" => sincePause[t] <= dbErrors
    BY <1>1 DEF PauseInv
  <2>2. sincePause'[t] = sincePause[t] /\ sincePause[t] \in Nat
    BY <1>0, <1>1
  <2> QED
    BY <1>0, <1>1, <2>1, <2>2
<1>2. ASSUME NEW st, NEW res, NEW u, Save(st, res, u), dbErrors' = dbErrors,
             \A t \in Tasks : pc'[t] = "step" => pc[t] = "step"
      PROVE  PauseInv'
  <2>1. CASE st = "PAUSED" /\ row.status # "PAUSED"
    BY <1>0, <1>2, <2>1 DEF Save, PauseInv
  <2>2. CASE st # "PAUSED"
    BY <1>0, <1>2, <2>2 DEF Save, PauseInv
  <2>3. CASE st = "PAUSED" /\ row.status = "PAUSED"
    BY <1>0, <1>2, <2>3 DEF Save, PauseInv
  <2> QED
    BY <2>1, <2>2, <2>3
<1>3. ASSUME NEW t \in Tasks, EnterStep(t) PROVE PauseInv'
  <2>1. \/ dbErrors' = dbErrors + 1 /\ sincePause' = sincePause
        \/ row'.status # "PAUSED"
    BY <1>3 DEF EnterStep, NotPaused, PauseSeen, DbError
  <2>2. row' = row
    BY <1>3 DEF EnterStep
  <2>3. CASE row'.status = "PAUSED"
    <3> SUFFICES ASSUME NEW u \in Tasks PROVE sincePause'[u] <= dbErrors'
      BY <1>0, <2>1, <2>3 DEF PauseInv
    <3>1. sincePause[u] <= 1 + dbErrors
      BY <2>2, <2>3 DEF PauseInv
    <3> QED
      BY <1>0, <2>1, <2>3, <3>1
  <2> QED
    BY <2>3 DEF PauseInv
<1>4. ASSUME NEW t \in Tasks, RunStep(t) PROVE PauseInv'
    BY <1>0, <1>4 DEF TypeOK, RunStep, Goto, budgets, PauseInv
<1>5. ASSUME NEW t \in Tasks, StartSave(t) PROVE PauseInv'
  <2>1. \A u \in Tasks : pc'[u] = "step" => pc[u] = "step"
    BY <1>5 DEF TypeOK, StartSave, Goto
  <2> QED
    BY <1>2, <1>5, <2>1 DEF StartSave, budgets
<1>6. ASSUME NEW t \in Tasks, FinalSave(t) PROVE PauseInv'
  <2>1. \A u \in Tasks : pc'[u] = "step" => pc[u] = "step"
    BY <1>6 DEF TypeOK, FinalSave, Goto
  <2> QED
    BY <1>2, <1>6, <2>1 DEF FinalSave, budgets
<1>7. ASSUME NEW t \in Tasks, Checkpoint(t) PROVE PauseInv'
  <2>1. row'.status = row.status
    BY <1>7 DEF TypeOK, Rows, Checkpoint, SaveCheckpoint
  <2>2. \A u \in Tasks : pc'[u] = "step" => pc[u] = "step"
    BY <1>7 DEF TypeOK, Checkpoint, Goto
  <2> QED
    BY <1>0, <1>1, <1>7, <2>1, <2>2 DEF Checkpoint, SaveCheckpoint, budgets
<1>8. ASSUME NEW t \in Tasks,
             \/ Submit(t) \/ Deliver(t) \/ Kill(t) \/ LoadCheckpoint(t)
             \/ LoadCheckpointFails(t) \/ BeginFails(t) \/ StopPaused(t)
             \/ SkipStep(t) \/ Complete(t) \/ FailStep(t)
             \/ CheckpointFails(t) \/ FinalSaveFails(t) \/ Ack(t)
             \/ Redeliver(t) \/ Crash(t)
      PROVE PauseInv'
  <2>1. row' = row /\ sincePause' = sincePause
    BY <1>8 DEF Submit, Deliver, Kill, LoadCheckpoint, LoadCheckpointFails,
                BeginFails, StopPaused, SkipStep, Complete, FailStep,
                CheckpointFails, FinalSaveFails, Ack, Redeliver, Crash
  <2>2. dbErrors' \in Nat /\ dbErrors' >= dbErrors
    BY <1>0, <1>8
       DEF Submit, Deliver, Kill, LoadCheckpoint, LoadCheckpointFails,
                BeginFails, StopPaused, SkipStep, Complete, FailStep, NotPaused,
                CheckpointFails, FinalSaveFails, Ack, Redeliver, Crash, DbError,
                budgets
  <2>3. \A u \in Tasks : pc'[u] = "step" => pc[u] = "step"
    BY <1>8 DEF TypeOK, Submit, Deliver, Kill, LoadCheckpoint,
                LoadCheckpointFails, BeginFails, StopPaused, SkipStep, Complete,
                FailStep, CheckpointFails, FinalSaveFails, Ack, Redeliver,
                Crash, Goto
  <2> QED
    BY <1>1, <2>1, <2>2, <2>3
<1>9. ASSUME NEW c \in Controls, ControlSave(c) PROVE PauseInv'
    BY <1>2, <1>9 DEF ControlSave, workerVars, budgets
<1>10. ASSUME NEW c \in Controls, ResumeDispatch(c) PROVE PauseInv'
  <2>1. \A u \in Tasks : pc'[u] = "step" => pc[u] = "step"
    BY <1>10 DEF TypeOK, ResumeDispatch, Goto
  <2> QED
    BY <1>0, <1>1, <1>10, <2>1 DEF ResumeDispatch, budgets
<1>11. ASSUME NEW c \in Controls,
              Request(c) \/ GetRow(c) \/ CancelRevoke(c) \/ ControlCrash(c)
       PROVE PauseInv'
    BY <1>0, <1>1, <1>11 DEF Request, GetRow, CancelRevoke, ControlCrash,
                             workerVars, budgets
<1>12. CASE UNCHANGED vars
    BY <1>0, <1>1, <1>12 DEF vars
<1> QED
    BY <1>3, <1>4, <1>5, <1>6, <1>7, <1>8, <1>9, <1>10, <1>11, <1>12
       DEF Next, WorkerStep, ControlStep

(* Cooperative pause stops every worker within one step, whatever the      *)
(* other workers and control tasks do, but for failed status reads.        *)
THEOREM PauseCorrect == Spec => []PauseStopsWithinOneStep
<1>1. Init => PauseInv
    BY DEF Init, NoRow, PauseInv
<1>2. PauseInv => PauseStopsWithinOneStep
  <2> SUFFICES ASSUME PauseInv, row.status = "PAUSED", NEW t \in Tasks
               PROVE  sincePause[t] <= 1 + dbErrors
    BY DEF PauseStopsWithinOneStep
  <2> QED
    BY DEF PauseInv
<1> QED
    BY <1>1, <1>2, NextPauseInv, TypeCorrect, PTL DEF Spec

-----------------------------------------------------------------------------
(* Every step of the engine is a step of ExecutionPromise or a stutter.    *)
LEMMA NextPromise ==
    IInv /\ IInv' /\ [Next]_vars => [Promise!Next]_(Promise!vars)
<1> SUFFICES ASSUME IInv, IInv', [Next]_vars
             PROVE  [Promise!Next]_(Promise!vars)
    OBVIOUS
<1> USE DEF history
<1> DEFINE Shown == row'.results \in SUBSET ran'
                    /\ InPlanOrder(row'.results)
                    /\ (row'.status = "COMPLETED" => ran' = PlanNodes)
<1>1. Shown
    BY DEF IInv, Honest, Recorded, CompletedHonest, InPlanOrder
<1>2. ASSUME row' = row, ran' = ran PROVE UNCHANGED Promise!vars
    BY <1>2 DEF Promise!vars
<1>3. ASSUME row'.status \in RowStatuses, ran' = ran PROVE Promise!Commit
    BY <1>1, <1>3
       DEF Promise!Commit, Promise!RowStatuses, Promise!Steps, Promise!PlanNodes,
           Promise!NodesOf, RowStatuses, Steps, PlanNodes, NodesOf, InPlanOrder
<1>4. ASSUME NEW t \in Tasks, RunStep(t) \/ FailStep(t) PROVE Promise!Run
  <2>1. PICK good \in SUBSET Nodes : ran' = ran \cup ({next[t]} \X good)
    BY <1>4 DEF RunStep, FailStep, NodesOf
  <2>2. next[t] \in Steps /\ row' = row
    BY <1>4 DEF IInv, LoopOrder, RunStep, FailStep
  <2>3. \A r \in Steps : r < next[t] => NodesOf(r) \subseteq ran
    BY <1>4 DEF IInv, LoopOrder, Honest, Recorded, RunStep, FailStep
  <2> QED
    BY <2>1, <2>2, <2>3
       DEF Promise!Run, Promise!Steps, Promise!NodesOf, Steps, NodesOf
<1>5. ASSUME NEW t \in Tasks, StartSave(t) \/ FinalSave(t)
      PROVE Promise!Commit
    BY <1>3, <1>5 DEF IInv, TypeOK, StartSave, FinalSave, Save, RowStatuses
<1>6. ASSUME NEW t \in Tasks, Checkpoint(t)
      PROVE Promise!Commit \/ UNCHANGED Promise!vars
  <2>1. CASE row.status = "none"
    <3>1. row' = row
      BY <1>6, <2>1 DEF IInv, TypeOK, Rows, Checkpoint, SaveCheckpoint
    <3> QED
      BY <1>2, <1>6, <3>1 DEF Checkpoint
  <2>2. CASE row.status # "none"
    <3>1. row'.status \in RowStatuses
      BY <1>6, <2>2 DEF IInv, TypeOK, Rows, Status, Checkpoint, SaveCheckpoint
    <3> QED
      BY <1>3, <1>6, <3>1 DEF Checkpoint
  <2> QED
    BY <2>1, <2>2
<1>7. ASSUME NEW c \in Controls, ControlSave(c) PROVE Promise!Commit
  <2>1. Target(act[c]) \in RowStatuses
    BY DEF IInv, TypeOK, Target, RowStatuses
  <2> QED
    BY <1>3, <1>7, <2>1 DEF ControlSave, Save
<1>8. ASSUME NEW t \in Tasks,
             \/ Submit(t) \/ Deliver(t) \/ Kill(t) \/ LoadCheckpoint(t)
             \/ LoadCheckpointFails(t) \/ BeginFails(t) \/ StopPaused(t)
             \/ SkipStep(t) \/ EnterStep(t) \/ Complete(t)
             \/ CheckpointFails(t) \/ FinalSaveFails(t) \/ Ack(t)
             \/ Redeliver(t) \/ Crash(t)
      PROVE UNCHANGED Promise!vars
    BY <1>2, <1>8
       DEF Submit, Deliver, Kill, LoadCheckpoint, LoadCheckpointFails,
           BeginFails, StopPaused, SkipStep, EnterStep, Complete,
           CheckpointFails, FinalSaveFails, Ack, Redeliver, Crash
<1>9. ASSUME NEW c \in Controls,
             \/ Request(c) \/ GetRow(c) \/ CancelRevoke(c)
             \/ ResumeDispatch(c) \/ ControlCrash(c)
      PROVE UNCHANGED Promise!vars
    BY <1>2, <1>9 DEF Request, GetRow, CancelRevoke, ResumeDispatch,
                      ControlCrash
<1>10. CASE UNCHANGED vars
    BY <1>2, <1>10 DEF vars
<1> QED
    BY <1>4, <1>5, <1>6, <1>7, <1>8, <1>9, <1>10
       DEF Next, WorkerStep, ControlStep, Promise!Next

(* The engine implements the promise: nodes run in plan order, and the row *)
(* shows only nodes that ran.                                              *)
THEOREM PromiseImplemented == Spec => PromiseKept
<1>1. Init => Promise!Init
    BY DEF Init, NoRow, Promise!Init
<1> QED
    BY <1>1, NextPromise, Invariance, PTL
       DEF Spec, PromiseKept, Promise!Spec
=============================================================================
