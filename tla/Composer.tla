------------------------------- MODULE Composer -------------------------------
(***************************************************************************)
(* The workflow composer: LangGraphWorkflowComposer                        *)
(* (ai_agent/adapters/langgraph/composer_graph.py) behind the route of     *)
(* agent-composer/main.py, for the runs of ONE chat session.               *)
(*                                                                         *)
(* A run is one request; its graph nodes are the actions, named after the  *)
(* nodes, and a node together with the router that follows it is one       *)
(* action.  Runs of one session share three stores: the draft store and    *)
(* the resume state (two objects in a bucket, keyed by the session) and    *)
(* the workflows table.  A run may die between any two nodes: its          *)
(* container is killed or its request is cancelled.                        *)
(*                                                                         *)
(* Language models, searches and the validator answer anything; the        *)
(* bound Answers fixes what the validator says of the drafts' structure,   *)
(* which no step of the composer looks at.                                 *)
(***************************************************************************)
EXTENDS Naturals, FiniteSets

CONSTANTS Runs,              \* slots for requests that are served or left a workflow
          Users, Skills,
          OptionSets,        \* what a skill search may find
          NoSkill, NoDraft, NoState,
          Answers,           \* what the graph validator may report of a draft
          QaMaxRetry,        \* _QA_MAX_RETRY
          PlanMaxAttempts,   \* _REFINE_PLAN_MAX_ATTEMPTS
          RecursionLimit     \* recursion_limit of astream

ASSUME ComposerAssumption ==
  /\ Users # {}
  /\ OptionSets \subseteq (SUBSET Skills) \ {{}}
  /\ NoSkill \notin Skills
  /\ Answers \subseteq {"clean", "issues"}
  /\ NoDraft \notin Skills \cup {NoSkill}
  /\ NoState \notin [user : Users, offered : SUBSET Skills]
  /\ QaMaxRetry \in Nat /\ PlanMaxAttempts \in Nat /\ RecursionLimit \in Nat

VARIABLES run,          \* Runs -> the graph state of the request
          draftStore,   \* drafts/{session_id}.json: the last promoted draft
          resumeState,  \* composer_state/{session_id}.json
          offers        \* history: the <<user, skill>> pairs persisted as offers

composerVars == <<run, draftStore, resumeState, offers>>

Sel == Skills \cup {NoSkill}

(* A draft as far as the properties tell drafts apart: how it came about,  *)
(* the skill bound to its first LLM node, what the graph validator         *)
(* reported of exactly this object, and whether the quality judge passed   *)
(* it.                                                                     *)
Draft == [base : {"fresh", "edit"}, skill : Sel,
          report : {"none", "clean", "issues"}, judged : BOOLEAN]

ASSUME DraftAssumption == NoDraft \notin Draft

NewDraft(base, skill) ==
  [base |-> base, skill |-> skill, report |-> "none", judged |-> FALSE]

NodeNames ==
  {"compress", "security", "intent", "search_nodes", "suggest_skill_select",
   "resume", "draft_workflow", "bind_skill", "refine_plan", "refine_apply",
   "validate_workflow", "retry_draft", "qa_evaluator", "validation_failed",
   "qa_failed", "promote", "save_workflow", "explain", "confirm_result",
   "save_memory"}

(* What the last frames of a node tell the caller.                         *)
Said == {"nothing", "content", "error", "options", "result"}

RunState ==
  [pc : NodeNames \cup {"idle", "end", "closed"}, user : Users, round : {1, 2},
   sel : Sel, intent : {"none", "draft", "refine", "other"},
   prior : Sel \cup {NoDraft}, offered : SUBSET Skills,
   draft : Draft \cup {NoDraft}, repeated : BOOLEAN,
   retry : Nat, qa : Nat, attempts : Nat,
   tx : {"none", "pending", "committed"}, steps : Nat,
   sent : Nat, said : Said]

(* The initial state of _run.                                              *)
Request(user, round, sel) ==
  [pc |-> IF round = 2 THEN "resume" ELSE "compress", user |-> user,
   round |-> round, sel |-> sel, intent |-> "none", prior |-> NoDraft,
   offered |-> {}, draft |-> NoDraft, repeated |-> FALSE, retry |-> 0,
   qa |-> 0, attempts |-> 0,
   tx |-> "none", steps |-> 0, sent |-> 0, said |-> "nothing"]

(* A slot that serves nobody.                                              *)
Over(pc) == [Request(CHOOSE u \in Users : TRUE, 1, NoSkill) EXCEPT !.pc = pc]

ComposerInit ==
  /\ run = [r \in Runs |-> Over("idle")]
  /\ draftStore = NoDraft /\ resumeState = NoState /\ offers = {}

Start(r, user, round, sel) ==
  /\ run[r].pc = "idle"
  /\ run' = [run EXCEPT ![r] = Request(user, round, sel)]
  /\ UNCHANGED <<draftStore, resumeState, offers>>

Live(r) == run[r].pc \notin {"idle", "closed"}

-----------------------------------------------------------------------------
(* The run is at node n, and the graph grants it one more superstep.       *)
At(r, n) == run[r].pc = n /\ run[r].steps < RecursionLimit

(* The node returns: x is the updated state, n frames follow the node's    *)
(* own AgentNodeFrame.                                                     *)
Goto(r, x, next, n, said) ==
  run' = [run EXCEPT ![r] = [x EXCEPT !.pc = next, !.steps = @ + 1,
                                      !.sent = 1 + n, !.said = said]]

(* A node that returns "error": the E_COMPOSER frame ends the run.         *)
Fail(r) == Goto(r, run[r], "end", 1, "error")

StoresUnchanged == UNCHANGED <<draftStore, resumeState, offers>>

Compress(r) ==
  At(r, "compress") /\ Goto(r, run[r], "security", 0, "content") /\ StoresUnchanged

Security(r) ==
  /\ At(r, "security")
  /\ Goto(r, run[r], "intent", 1, "content") \/ Fail(r)
  /\ StoresUnchanged

(* Fault: a request for details sends the run to a node the graph lacks.   *)
ClassifyClarify(message, prior) ==
  IF message = "compose" /\ prior # NoDraft THEN "clarify" ELSE "draft"

(* load_draft answers None also when the read fails.  A pending draft      *)
(* makes every composing message an edit, and no draft makes it new.       *)
Classify(message, prior) ==
  CASE message = "other" -> "other"
    [] message = "compose" /\ prior # NoDraft -> "refine"
    [] OTHER -> "draft"

Loaded == {NoDraft} \cup {draftStore.skill : x \in {draftStore} \ {NoDraft}}

Intent(r) ==
  /\ At(r, "intent")
  /\ \/ \E message \in {"compose", "other"}, prior \in Loaded :
          LET kind == Classify(message, prior) IN
          Goto(r, [run[r] EXCEPT !.intent = kind, !.prior = prior],
               IF kind = "other" THEN "end" ELSE "search_nodes", 2, "content")
     \/ Fail(r)
  /\ StoresUnchanged

SearchNodes(r) ==
  /\ At(r, "search_nodes")
  /\ Goto(r, run[r], "suggest_skill_select", 3, "content") \/ Fail(r)
  /\ StoresUnchanged

(* Round 1 of the two-shot dialogue ends here when options were found and  *)
(* the resume state could be stored; else the draft follows at once.       *)
SuggestSkillSelect(r) ==
  /\ At(r, "suggest_skill_select")
  /\ \/ /\ Goto(r, run[r], IF run[r].intent = "refine" THEN "refine_plan"
                                                     ELSE "draft_workflow", 0, "content")
        /\ StoresUnchanged
     \/ \E options \in OptionSets :
          /\ run[r].intent # "refine"
          /\ resumeState' = [user |-> run[r].user, offered |-> options]
          /\ offers' = offers \cup {<<run[r].user, s>> : s \in options}
          /\ Goto(r, run[r], "end", 2, "options")
          /\ UNCHANGED draftStore

(* Fault: the stored state is resumed without looking at whose it is.      *)
ResumableByAnyone(user) == resumeState # NoState

(* Round 2: the stored state, of the same user, or an error frame.         *)
Resumable(user) == resumeState # NoState /\ resumeState.user = user

(* Fault: the stored state is taken out when the second round reads it.    *)
ResumeTakes(r) ==
  /\ At(r, "resume")
  /\ \/ /\ Resumable(run[r].user)
        /\ Goto(r, [run[r] EXCEPT !.intent = "draft", !.offered = resumeState.offered],
                "draft_workflow", 1, "content")
        /\ resumeState' = NoState
     \/ Goto(r, run[r], "end", 1, "error") /\ UNCHANGED resumeState
  /\ UNCHANGED <<draftStore, offers>>

Resume(r) ==
  /\ At(r, "resume")
  /\ \/ /\ Resumable(run[r].user)
        /\ Goto(r, [run[r] EXCEPT !.intent = "draft", !.offered = resumeState.offered],
                "draft_workflow", 1, "content")
     \/ Goto(r, run[r], "end", 1, "error")
  /\ StoresUnchanged

-----------------------------------------------------------------------------
(* The fresh path.  A draft whose signature equals the previous one is     *)
(* marked as repeated.                                                     *)
DraftWorkflow(r) ==
  /\ At(r, "draft_workflow")
  /\ \/ \E same \in IF run[r].draft = NoDraft THEN {FALSE} ELSE BOOLEAN :
          Goto(r, [run[r] EXCEPT !.draft = NewDraft("fresh", NoSkill),
                                 !.repeated = same], "bind_skill", 5, "content")
     \/ Fail(r)
  /\ StoresUnchanged

(* The selected skill is bound only if this run's resume state offered it, *)
(* and only if the draft has an LLM node.                                  *)
Bindable(x) == x.sel # NoSkill /\ x.sel \in x.offered

BindSkill(r) ==
  /\ At(r, "bind_skill")
  /\ \E skill \in {NoSkill} \cup {s \in {run[r].sel} : Bindable(run[r])} :
       Goto(r, [run[r] EXCEPT !.draft.skill = skill], "validate_workflow", 1, "content")
  /\ StoresUnchanged

(* The edit path.  A plan that names unknown node types is made once more; *)
(* a plan that cannot be made or used leaves the edit to the drafter.      *)
RefinePlan(r) ==
  /\ At(r, "refine_plan")
  /\ LET x == [run[r] EXCEPT !.attempts = @ + 1] IN
     \/ Goto(r, x, "refine_apply", 2, "content")
     \/ x.attempts < PlanMaxAttempts /\ Goto(r, x, "refine_plan", 0, "content")
  /\ StoresUnchanged

(* By the planned operations, or by the drafter, the prior draft is edited:*)
(* its binding survives the edit or goes with its node.                    *)
RefineApply(r) ==
  /\ At(r, "refine_apply")
  /\ \/ \E skill \in {run[r].prior, NoSkill} :
          Goto(r, [run[r] EXCEPT !.draft = NewDraft("edit", skill)],
               "validate_workflow", 4, "content")
     \/ Fail(r)
  /\ StoresUnchanged

-----------------------------------------------------------------------------
AfterRejected(x) ==
  IF x.intent = "refine"
  THEN IF x.attempts < PlanMaxAttempts THEN "refine_plan" ELSE "validation_failed"
  ELSE IF ~x.repeated /\ x.retry < QaMaxRetry THEN "retry_draft" ELSE "validation_failed"

(* Whatever GraphValidator.validate reports, the run goes on: the node     *)
(* drops its answer.  The draft is rejected only when validate raises,     *)
(* which it does when a repository it reads does.                          *)
ValidateWorkflow(r) ==
  /\ At(r, "validate_workflow")
  /\ \/ \E answer \in Answers :
          Goto(r, [run[r] EXCEPT !.draft.report = answer],
               IF run[r].intent = "refine" THEN "promote" ELSE "qa_evaluator",
               2, "content")
     \/ Goto(r, run[r], AfterRejected(run[r]), 0, "content")
  /\ StoresUnchanged

(* Fault: a repeated draft is good enough after all.                       *)
AfterJudgedLenient(x, pass) ==
  CASE pass \/ x.repeated -> "promote"
    [] ~pass /\ ~x.repeated /\ x.qa < QaMaxRetry -> "retry_draft"
    [] OTHER -> "qa_failed"

AfterJudged(x, pass) ==
  CASE pass -> "promote"
    [] ~pass /\ ~x.repeated /\ x.qa < QaMaxRetry -> "retry_draft"
    [] OTHER -> "qa_failed"

QaEvaluator(r) ==
  /\ At(r, "qa_evaluator")
  /\ LET x == [run[r] EXCEPT !.qa = @ + 1] IN
     \/ \E pass \in BOOLEAN :
          Goto(r, [x EXCEPT !.draft.judged = pass], AfterJudged(x, pass), 3, "content")
     \/ Fail(r)
  /\ StoresUnchanged

(* Fault: the retry is not counted.                                        *)
RetryDraftUncounted(r) ==
  /\ At(r, "retry_draft")
  /\ Goto(r, run[r], "draft_workflow", 1, "content")
  /\ StoresUnchanged

RetryDraft(r) ==
  /\ At(r, "retry_draft")
  /\ Goto(r, [run[r] EXCEPT !.retry = @ + 1], "draft_workflow", 1, "content")
  /\ StoresUnchanged

GiveUp(r) ==
  /\ At(r, "validation_failed") \/ At(r, "qa_failed")
  /\ Goto(r, run[r], "end", 1, "error")
  /\ StoresUnchanged

-----------------------------------------------------------------------------
(* The draft store keeps the draft for later edits; failing to write it is *)
(* not fatal.                                                              *)
Promote(r) ==
  /\ At(r, "promote")
  /\ draftStore' \in {draftStore, run[r].draft}
  /\ Goto(r, run[r], "save_workflow", 1, "content")
  /\ UNCHANGED <<resumeState, offers>>

(* save() flushes into the open transaction of the request.                *)
SaveWorkflow(r) ==
  /\ At(r, "save_workflow")
  /\ Goto(r, [run[r] EXCEPT !.tx = "pending"], "explain", 1, "content") \/ Fail(r)
  /\ StoresUnchanged

Explain(r) ==
  At(r, "explain") /\ Goto(r, run[r], "confirm_result", 1, "content") /\ StoresUnchanged

(* Fault: the ResultFrame is yielded before the transaction is committed.  *)
ConfirmResultEarly(r) ==
  /\ At(r, "confirm_result")
  /\ Goto(r, run[r], "save_memory", 2, "result")
  /\ StoresUnchanged

(* The route commits right before it yields the ResultFrame; a commit that *)
(* fails rolls back and yields E_COMPOSER instead.                         *)
ConfirmResult(r) ==
  /\ At(r, "confirm_result")
  /\ \/ Goto(r, [run[r] EXCEPT !.tx = "committed"], "save_memory", 2, "result")
     \/ Goto(r, [run[r] EXCEPT !.tx = "none"], "end", 2, "error")
  /\ StoresUnchanged

(* Round 2 clears the resume state; failing to clear it is not fatal.      *)
SaveMemory(r) ==
  /\ At(r, "save_memory")
  /\ resumeState' \in {resumeState} \cup (IF run[r].round = 2 THEN {NoState} ELSE {})
  /\ Goto(r, run[r], "end", 0, "content")
  /\ UNCHANGED <<draftStore, offers>>

(* What stays of a run that is over: the workflow it committed, or nothing *)
(* (the slot is free again).                                               *)
Closed(x, tx) ==
  IF tx = "committed"
  THEN [Over("closed") EXCEPT !.tx = tx, !.user = x.user, !.round = x.round,
                              !.draft = x.draft]
  ELSE Over("idle")

(* The stream ends, after an E_RECURSION frame if the graph ran out of     *)
(* supersteps; whatever the transaction still holds is committed.          *)
OutOfSteps(r) == run[r].pc \in NodeNames /\ run[r].steps >= RecursionLimit

Finish(r) ==
  /\ run[r].pc = "end" \/ OutOfSteps(r)
  /\ run' = [run EXCEPT ![r] =
               Closed(@, IF @.tx = "pending" THEN "committed" ELSE @.tx)]
  /\ StoresUnchanged

(* The container is killed or the request cancelled: rollback.             *)
Die(r) ==
  /\ Live(r)
  /\ run' = [run EXCEPT ![r] =
               Closed(@, IF @.tx = "pending" THEN "none" ELSE @.tx)]
  /\ StoresUnchanged

-----------------------------------------------------------------------------
PreStep(r) == \/ Compress(r) \/ Security(r) \/ Intent(r) \/ SearchNodes(r)
              \/ SuggestSkillSelect(r) \/ Resume(r)
DraftStep(r) == \/ DraftWorkflow(r) \/ BindSkill(r) \/ RefinePlan(r)
                \/ RefineApply(r) \/ ValidateWorkflow(r) \/ QaEvaluator(r)
                \/ RetryDraft(r) \/ GiveUp(r)
SaveStep(r) == \/ Promote(r) \/ SaveWorkflow(r) \/ Explain(r)
               \/ ConfirmResult(r) \/ SaveMemory(r)

NodeStep(r) == PreStep(r) \/ DraftStep(r) \/ SaveStep(r)

ComposerNext ==
  \E r \in Runs :
    \/ \E u \in Users, n \in {1, 2}, s \in Sel : Start(r, u, n, s)
    \/ NodeStep(r) \/ Finish(r) \/ Die(r)

ComposerSpec == ComposerInit /\ [][ComposerNext]_composerVars

-----------------------------------------------------------------------------
ComposerTypeOK ==
  /\ run \in [Runs -> RunState]
  /\ draftStore \in Draft \cup {NoDraft}
  /\ resumeState \in [user : Users, offered : SUBSET Skills] \cup {NoState}
  /\ offers \subseteq Users \X Skills

(* The workflows table, as seen by everyone else.                          *)
Committed == {r \in Runs : run[r].tx = "committed"}

(* Every committed workflow, and every draft later edits start from, is    *)
(* the very draft the validator has read, and a newly drafted one was      *)
(* passed by the quality judge as well: no retry, binding, edit or         *)
(* fallback slips between the checks and the save.                         *)
Checked(d) == d.report # "none" /\ (d.base = "fresh" => d.judged)

OnlyCheckedSaved ==
  /\ \A r \in Committed : Checked(run[r].draft)
  /\ draftStore # NoDraft => Checked(draftStore)

(* A committed workflow is one the graph validator had nothing against.    *)
OnlyCleanSaved == \A r \in Committed : run[r].draft.report = "clean"

(* A skill bound to a committed workflow, or to the draft later edits      *)
(* start from, was once offered in this session; one bound by a second     *)
(* round was offered to the very user that round served.                   *)
Offered(skill) == skill = NoSkill \/ \E u \in Users : <<u, skill>> \in offers

BoundSkillWasOffered ==
  /\ draftStore # NoDraft => Offered(draftStore.skill)
  /\ \A r \in Committed :
       /\ Offered(run[r].draft.skill)
       /\ run[r].round = 2 /\ run[r].draft.skill # NoSkill =>
            <<run[r].user, run[r].draft.skill>> \in offers

(* No run is cut off by LangGraph's superstep limit, however validator and *)
(* judge alternate in rejecting drafts: the two retry counters keep the    *)
(* longest run below it.                                                   *)
NeverHitsRecursionLimit == \A r \in Runs : ~OutOfSteps(r)

(* The choice the user was offered can be taken until a round-2 run has    *)
(* committed a workflow: no failed, cancelled or rejected second round     *)
(* throws the stored state away.                                           *)
ResumableUntilCommitted ==
  [][resumeState # NoState /\ resumeState' = NoState =>
       \E r \in Committed : run[r].round = 2]_composerVars
=============================================================================
