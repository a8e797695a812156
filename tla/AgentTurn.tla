------------------------------ MODULE AgentTurn ------------------------------
(***************************************************************************)
(* The chat turns of one session: the supervisor (orchestrator service)    *)
(* relaying the streams of the composer and the skills builder.            *)
(*                                                                         *)
(* A stream delivers the frames of a node together with the node's step.   *)
(* A connection may break, before or after the sub-agent took the step     *)
(* whose frames are lost; the run that answered it then has nobody to      *)
(* answer: it goes on until it ends or is cancelled, next to the runs of   *)
(* the retry and of later turns.  The client may leave at any moment.      *)
(*                                                                         *)
(* Bounds: one live turn at a time, the turns in order; the recipes (Keys) *)
(* and the answers (Slots) of a turn; MaxBreaks broken connections and     *)
(* departures, a refused retry not counted; a run that outlives its        *)
(* connection, and any run after it, retries at most MaxSharedRetries      *)
(* times (before that, as often as the code allows).                       *)
(***************************************************************************)
EXTENDS Composer, Sequences

CONSTANTS Turns, MaxHops, MaxRetries, MaxRelayFrames,
          NoRun, SkillsBuilder,      \* not runs: no stream, the other service
          Owner,                     \* the user whose session this is
          Keys,                      \* Turns -> the recipes its message may have
          Slots,                     \* <<user, skill>> answers of round 2
          MaxBreaks, MaxSharedRetries

ASSUME AgentAssumption ==
  /\ Owner \in Users /\ Slots \subseteq Users \X Skills
  /\ NoRun \notin Runs /\ SkillsBuilder \notin Runs /\ NoRun # SkillsBuilder
  /\ MaxBreaks \in Nat

VARIABLES turn,     \* the supervisor's turns
          stream,   \* Turns -> the run (or service) whose stream is relayed
          caller,   \* Turns -> the user the turn serves
          breaks    \* connections broken so far

INSTANCE Supervisor WITH SkillIds <- Skills, NoSkillId <- NoSkill

agentVars == <<composerVars, turn, stream, caller, breaks>>

AgentInit ==
  /\ ComposerInit /\ SupervisorInit
  /\ stream = [t \in Turns |-> NoRun]
  /\ caller = [t \in Turns |-> Owner]
  /\ breaks = 0

Detached(r) == \A t \in Turns : stream[t] # r

NextRun(r) == run[r].pc = "idle" /\ \A q \in Runs : q < r => run[q].pc # "idle"

(* Between two nodes that touch a store, nothing a detached run does is    *)
(* seen by anybody and it sees nothing: everybody else waits until it has  *)
(* come to such a node or to its end, which loses no behaviour that the    *)
(* stores, the turns and the workflows could show.                         *)
StoreNodes == {"intent", "suggest_skill_select", "resume", "promote",
               "save_workflow", "confirm_result", "save_memory"}

Quiet == \A r \in Runs : Live(r) /\ Detached(r) => run[r].pc \in StoreNodes

-----------------------------------------------------------------------------
(* POST /sessions of the owner, or POST /sessions/{id}/slot of any user.   *)
Begin(t) ==
  /\ \A u \in Turns : u < t => turn[u].pc \in {"done", "gone"}
  /\ \/ BeginTurn(t, 1, NoSkill) /\ UNCHANGED caller
     \/ \E slot \in Slots : /\ BeginTurn(t, 2, slot[2])
                           /\ caller' = [caller EXCEPT ![t] = slot[1]]
  /\ UNCHANGED <<composerVars, stream, breaks>>

Supervise(t) ==
  /\ TurnStep(t) /\ turn'[t].recipe \in Keys[t] \cup {"none", "resume"}
  /\ caller' = IF turn'[t].pc = "done" THEN [caller EXCEPT ![t] = Owner] ELSE caller
  /\ UNCHANGED <<composerVars, stream, breaks>>

HopToComposer(t) ==
  /\ RelayHop(t) /\ Target(turn[t]) = "composer"
  /\ \E r \in Runs :
       /\ NextRun(r) /\ Start(r, caller[t], turn[t].round, turn[t].skillId)
       /\ stream' = [stream EXCEPT ![t] = r]
  /\ UNCHANGED <<caller, breaks>>

HopToSkills(t) ==
  /\ RelayHop(t) /\ Target(turn[t]) = "skills"
  /\ stream' = [stream EXCEPT ![t] = SkillsBuilder]
  /\ UNCHANGED <<composerVars, caller, breaks>>

-----------------------------------------------------------------------------
(* The stream is relayed until an error frame, or its end, detaches it.    *)
Detach(t) ==
  stream' = IF turn'[t].pc = "relay" THEN stream ELSE [stream EXCEPT ![t] = NoRun]

MayRetry(r) ==
  run'[r].pc = "retry_draft" => breaks = 0 \/ run[r].retry < MaxSharedRetries

MaySurvive(t) ==
  \A r \in Runs : stream[t] = r => run'[r].retry <= MaxSharedRetries

Deliver(t, r) ==
  /\ stream[t] = r
  /\ NodeStep(r) /\ MayRetry(r)
  /\ RelayFrames(t, run'[r].sent, run'[r].said)
  /\ Detach(t) /\ UNCHANGED <<caller, breaks>>

DeliverEnd(t, r) ==
  /\ stream[t] = r /\ Finish(r)
  /\ IF OutOfSteps(r) THEN RelayFrames(t, 1, "error")
                     ELSE RelaySucceeds(t, NoSkill)
  /\ Detach(t) /\ UNCHANGED <<caller, breaks>>

(* The chat payload carries no source_type, so the skills builder answers  *)
(* E_SOURCE_TYPE_UNSUPPORTED: no frame, and a state_delta without a skill. *)
SkillsAnswer(t) ==
  /\ stream[t] = SkillsBuilder /\ RelaySucceeds(t, NoSkill)
  /\ Detach(t) /\ UNCHANGED <<composerVars, caller, breaks>>

(* A connection breaks: the run loses the frames of a step it just took,   *)
(* or dies with its container, or notices nothing.                         *)
Break(t) ==
  /\ breaks < MaxBreaks /\ breaks' = breaks + 1
  /\ RelayBreaks(t) /\ Detach(t)
  /\ \/ UNCHANGED composerVars
     \/ \E r \in Runs : stream[t] = r /\ (Die(r) \/ (NodeStep(r) /\ MayRetry(r)))
  /\ MaySurvive(t) /\ UNCHANGED caller

(* The retry of a broken relay finds no service either.                    *)
Refused(t) ==
  /\ turn[t].retry > 0 /\ turn[t].count = 0
  /\ RelayBreaks(t) /\ Detach(t)
  /\ \E r \in Runs : stream[t] = r /\ run[r].steps = 0 /\ Die(r)
  /\ UNCHANGED <<caller, breaks>>

Disconnect(t) ==
  /\ breaks < MaxBreaks /\ breaks' = breaks + 1
  /\ CancelTurn(t) /\ Detach(t)
  /\ UNCHANGED <<composerVars, caller>> /\ MaySurvive(t)

(* A run without a reader.                                                 *)
Orphan(r) ==
  /\ Detached(r)
  /\ (NodeStep(r) /\ MayRetry(r)) \/ Finish(r) \/ Die(r)
  /\ UNCHANGED <<turn, stream, caller, breaks>>

Progress(t) ==
  /\ Quiet
  /\ \/ Supervise(t) \/ HopToComposer(t) \/ HopToSkills(t) \/ SkillsAnswer(t)
     \/ \E r \in Runs : Deliver(t, r) \/ DeliverEnd(t, r)

AgentNext ==
  \/ \E t \in Turns : \/ Progress(t)
                      \/ Quiet /\ (Begin(t) \/ Break(t) \/ Refused(t) \/ Disconnect(t))
  \/ \E r \in Runs : Orphan(r)

(* The services work on: the turn that is alive goes on if it can (model   *)
(* calls and connections end by their timeouts, as an answer or a break),  *)
(* and a detached run, which there is at most one of, comes to its end.    *)
AgentFairness == /\ WF_agentVars(\E t \in Turns : Progress(t))
                 /\ WF_agentVars(\E r \in Runs : Orphan(r))

AgentSpec == AgentInit /\ [][AgentNext]_agentVars /\ AgentFairness

-----------------------------------------------------------------------------
AgentTypeOK ==
  /\ ComposerTypeOK /\ SupervisorTypeOK
  /\ stream \in [Turns -> Runs \cup {NoRun, SkillsBuilder}]
  /\ caller \in [Turns -> Users]
  /\ breaks \in 0 .. MaxBreaks

(* A result frame that reached the user speaks of a workflow that is in    *)
(* the database for good, whatever dies or disconnects after it.           *)
ResultMeansCommitted ==
  \A t \in Turns : "result" \in turn[t].shown => Committed # {}

(* Every turn comes to an end, through all retries, reviews and breaks.    *)
Busy(t) == turn[t].pc \notin {"idle", "done", "gone"}

TurnEnds == (\E t \in Turns : Busy(t)) ~> (\A t \in Turns : ~Busy(t))
=============================================================================
