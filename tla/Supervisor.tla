------------------------------ MODULE Supervisor ------------------------------
(***************************************************************************)
(* The supervisor of the agent services: LangGraphSupervisor               *)
(* (ai_agent/adapters/supervisor.py) with the pure routing functions of    *)
(* domain/services/supervisor_router.py and RoutePlan.                     *)
(*                                                                         *)
(* A turn classifies one message, takes the recipe of its class and        *)
(* dispatches the recipe's targets hop by hop.  Hops to COMPOSER and       *)
(* SKILLS relay the stream of a sub-agent; what such a stream does is left *)
(* to the module that composes this one with the sub-agents.               *)
(***************************************************************************)
EXTENDS Naturals, Sequences

CONSTANTS Turns,
          NoSkillId,
          SkillIds,
          MaxHops,          \* MAX_HOPS
          MaxRetries,       \* MAX_RETRIES
          MaxRelayFrames    \* _MAX_RELAY_FRAMES

VARIABLE turn               \* Turns -> the locals of _run

RouteTarget == {"general_chat", "fast_response", "finalize", "composer", "skills"}

RECIPES == [chitchat           |-> <<"fast_response">>,
            propose            |-> <<"finalize">>,
            draft              |-> <<"composer">>,
            build_skill        |-> <<"skills">>,
            skill_then_compose |-> <<"skills", "composer">>,
            unclassified       |-> <<"general_chat">>]

(* Errors as the loop tells them apart: E_RELAY, E_RELAY_LIMIT, and any    *)
(* ErrorFrame of the sub-agent itself.                                     *)
Codes == {"none", "E_RELAY", "E_RELAY_LIMIT", "own"}

Turn == [pc : {"idle", "intent", "route", "relay", "recover", "after", "done", "gone"},
         round : {1, 2}, recipe : DOMAIN RECIPES \cup {"none", "resume"},
         steps : Seq(RouteTarget), skillId : SkillIds \cup {NoSkillId},
         hops : Nat, retry : Nat, reviewed : BOOLEAN, count : Nat,
         code : Codes, held : BOOLEAN, relayed : BOOLEAN,
         shown : SUBSET {"reply", "error", "options", "result"}]

FreshTurn(round, skillId) ==
  [pc |-> "idle", round |-> round, recipe |-> "none", steps |-> <<>>,
   skillId |-> skillId, hops |-> 0, retry |-> 0, reviewed |-> FALSE,
   count |-> 0, code |-> "none", held |-> FALSE, relayed |-> FALSE,
   shown |-> {}]

SupervisorInit == turn = [t \in Turns |-> FreshTurn(1, NoSkillId)]

Target(x) == Head(x.steps)
Become(t, x) == turn' = [turn EXCEPT ![t] = x]

-----------------------------------------------------------------------------
(* Round 2 resumes the composer without classifying anything.              *)
BeginTurn(t, round, skillId) ==
  /\ turn[t].pc = "idle"
  /\ LET x == FreshTurn(round, skillId) IN
     Become(t, IF round = 2
               THEN [x EXCEPT !.pc = "route", !.recipe = "resume", !.steps = <<"composer">>]
               ELSE [x EXCEPT !.pc = "intent"])

(* load_memory cannot fail the turn; then intent, recipe key and plan.     *)
IntentNode(t) ==
  /\ turn[t].pc = "intent"
  /\ \E key \in DOMAIN RECIPES :
       Become(t, [turn[t] EXCEPT !.pc = "route", !.recipe = key, !.steps = RECIPES[key]])

Routable(x) == x.steps # <<>> /\ x.hops < MaxHops

RemainingHas(x, target) == \E i \in DOMAIN x.steps : x.steps[i] = target

(* SKILLS is relayed only if a COMPOSER step remains; alone, it opens the  *)
(* wizard in the browser and succeeds at once.                             *)
IsRelay(x) == \/ Target(x) = "composer"
              \/ Target(x) = "skills" /\ RemainingHas(x, "composer")

Advanced(x) ==
  [x EXCEPT !.pc = "route", !.steps = Tail(@), !.retry = 0, !.count = 0]

LocalHop(t) ==
  /\ turn[t].pc = "route" /\ Routable(turn[t]) /\ ~IsRelay(turn[t])
  /\ Become(t, [Advanced(turn[t]) EXCEPT
                  !.hops = @ + 1, !.shown = @ \cup {"reply"},
                  !.relayed = @ \/ Target(turn[t]) = "skills"])

RelayHop(t) ==
  /\ turn[t].pc = "route" /\ Routable(turn[t]) /\ IsRelay(turn[t])
  /\ Become(t, [turn[t] EXCEPT !.pc = "relay", !.count = 0, !.code = "none",
                               !.held = FALSE, !.relayed = TRUE, !.hops = @ + 1])

RouteDone(t) ==
  /\ turn[t].pc = "route" /\ ~Routable(turn[t])
  /\ Become(t, [turn[t] EXCEPT !.pc = "after"])

-----------------------------------------------------------------------------
(* What a relayed stream does to the hop.  An ErrorFrame ends the hop; an  *)
(* E_RELAY before any frame is held back instead of shown.                 *)
Failed(x, code) ==
  LET held == code = "E_RELAY" /\ x.count = 0 IN
  [x EXCEPT !.pc = "recover", !.count = 0, !.code = code, !.held = held,
            !.shown = IF held THEN @ ELSE @ \cup {"error"}]

(* sent frames arrive, the last one saying what the turn tells apart.      *)
RelayFrames(t, sent, said) ==
  /\ turn[t].pc = "relay"
  /\ LET x == [turn[t] EXCEPT !.count = @ + sent] IN
     Become(t, CASE x.count > MaxRelayFrames -> Failed(x, "E_RELAY_LIMIT")
                 [] x.count <= MaxRelayFrames /\ said = "error" -> Failed(x, "own")
                 [] OTHER -> [x EXCEPT !.shown = @ \cup ({said} \cap {"options", "result"})])

RelayBreaks(t) == turn[t].pc = "relay" /\ Become(t, Failed(turn[t], "E_RELAY"))

(* The stream ended without an ErrorFrame; delta is the selected_skill_id  *)
(* of its state_delta.                                                     *)
RelaySucceeds(t, delta) ==
  /\ turn[t].pc = "relay"
  /\ Become(t, [Advanced(turn[t]) EXCEPT
                  !.skillId = IF delta = NoSkillId THEN @ ELSE delta])

(* Fault: when the retries are used up the held error is forgotten.        *)
RecoverHeldSilently(t) ==
  /\ turn[t].pc = "recover" /\ turn[t].held
  /\ Become(t, IF turn[t].retry >= MaxRetries
               THEN [turn[t] EXCEPT !.pc = "after"]
               ELSE [turn[t] EXCEPT !.pc = "route", !.retry = @ + 1])

(* recovery_target for a held error: the same target again, MaxRetries     *)
(* times; then the held error is shown.                                    *)
RecoverHeld(t) ==
  /\ turn[t].pc = "recover" /\ turn[t].held
  /\ Become(t, IF turn[t].retry >= MaxRetries
               THEN [turn[t] EXCEPT !.pc = "after", !.shown = @ \cup {"error"}]
               ELSE [turn[t] EXCEPT !.pc = "route", !.retry = @ + 1])

(* Fault: every failed composer run is reviewed, not one of a turn.        *)
ReviewableAlways(x) == x.code = "own" /\ Target(x) # "skills"

(* An error of the sub-agent itself: the composer reviews the result, once *)
(* a turn; a failed skill build ends the turn.                             *)
Reviewable(x) == x.code = "own" /\ Target(x) # "skills" /\ ~x.reviewed

(* Fault: with nowhere to recover to, the loop is not left.                *)
RecoverShownSpins(t) ==
  /\ turn[t].pc = "recover" /\ ~turn[t].held
  /\ Become(t, IF Reviewable(turn[t])
               THEN [turn[t] EXCEPT !.pc = "route", !.reviewed = TRUE, !.retry = 0,
                                    !.steps = <<"composer">> \o Tail(@)]
               ELSE turn[t])

RecoverShown(t) ==
  /\ turn[t].pc = "recover" /\ ~turn[t].held
  /\ Become(t, IF Reviewable(turn[t])
               THEN [turn[t] EXCEPT !.pc = "route", !.reviewed = TRUE, !.retry = 0,
                                    !.steps = <<"composer">> \o Tail(@)]
               ELSE [turn[t] EXCEPT !.pc = "after"])

(* What stays of a turn that is over: whether it showed a result.          *)
TurnOver(pc, x) ==
  [FreshTurn(1, NoSkillId) EXCEPT !.pc = pc, !.shown = x.shown \cap {"result"}]

(* update_memory (it cannot fail the turn) and the session frames.         *)
EndTurn(t) == turn[t].pc = "after" /\ Become(t, TurnOver("done", turn[t]))

(* The client went away: the orchestrator cancels the supervisor's task.   *)
CancelTurn(t) ==
  /\ turn[t].pc \notin {"idle", "done", "gone"}
  /\ Become(t, TurnOver("gone", turn[t]))

TurnStep(t) == \/ IntentNode(t) \/ LocalHop(t) \/ RouteDone(t)
               \/ RecoverHeld(t) \/ RecoverShown(t) \/ EndTurn(t)

-----------------------------------------------------------------------------
SupervisorTypeOK == turn \in [Turns -> Turn]

(* The retry and review guards end the loop on their own: no turn is ever  *)
(* cut off by MAX_HOPS with steps of its plan left.                        *)
HopLimitNeverReached ==
  \A t \in Turns : turn[t].pc = "route" => turn[t].hops < MaxHops \/ turn[t].steps = <<>>

(* No silent failure: when a turn ends although its last hop failed, the   *)
(* user was shown an error, a held-back one included.                      *)
FailureIsShown ==
  \A t \in Turns : turn[t].pc = "after" /\ turn[t].steps # <<>> =>
    "error" \in turn[t].shown
=============================================================================
