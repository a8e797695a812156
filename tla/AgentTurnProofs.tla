---------------------------- MODULE AgentTurnProofs ----------------------------
(***************************************************************************)
(* The composer for any number of runs, users and skills and any retry     *)
(* limits: only checked drafts are saved, a bound skill was offered, the   *)
(* offer stays until a second round has used it, and LangGraph's superstep *)
(* limit is never met.                                                     *)
(*                                                                         *)
(* The chat turns for any number of turns, runs and users: the composer    *)
(* behaves inside them as its own specification says, a turn is never cut  *)
(* off by its hop limit, shows its failures, and shows a result only of a  *)
(* committed workflow.                                                     *)
(***************************************************************************)
EXTENDS AgentTurn, TLAPS

-----------------------------------------------------------------------------
(* The runs of the composer.                                               *)

Places == NodeNames \cup {"idle", "end", "closed"}

(* Round 1 only; behind the checks; where the transaction may hold a row.  *)
RoundOne == {"compress", "security", "intent", "search_nodes",
             "suggest_skill_select", "refine_plan", "refine_apply"}
Behind == {"promote", "save_workflow", "explain", "confirm_result", "save_memory"}
Saved == {"explain", "confirm_result", "save_memory", "end", "closed"}

DraftNodes == {"bind_skill", "validate_workflow", "qa_evaluator"} \cup Behind

PathOK(x) ==
  /\ x.round = 2 => x.pc \notin RoundOne /\ x.intent # "refine"
  /\ x.pc \in {"refine_plan", "refine_apply"} => x.intent = "refine"
  /\ x.pc \in {"draft_workflow", "bind_skill", "qa_evaluator", "retry_draft"}
       => x.intent # "refine"
  /\ x.intent = "refine" => x.prior \in Sel
  /\ x.pc \notin Saved => x.tx = "none"
  /\ x.pc \in {"explain", "confirm_result"} => x.tx = "pending"
  /\ x.pc = "save_memory" => x.tx = "committed"

(* What the draft of a run has been through.                               *)
DraftOK(x) ==
  /\ x.pc \in DraftNodes => x.draft \in Draft
  /\ x.pc = "validate_workflow" /\ x.intent = "refine" => x.draft.base = "edit"
  /\ x.pc = "qa_evaluator" => x.draft.report # "none"
  /\ x.pc \in Behind => Checked(x.draft)
  /\ x.tx # "none" => x.draft \in Draft /\ Checked(x.draft)

(* The skills a run knows, given the offers made so far.                   *)
Was(skill, made) == skill = NoSkill \/ \E u \in Users : <<u, skill>> \in made

SkillOK(x, made) ==
  /\ x.prior \in Sel => Was(x.prior, made)
  /\ \A s \in x.offered : <<x.user, s>> \in made
  /\ x.draft \in Draft =>
       /\ Was(x.draft.skill, made)
       /\ x.round = 2 /\ x.draft.skill # NoSkill => <<x.user, x.draft.skill>> \in made

(* How far the run is, by its counters.  The judge sends a run back fewer  *)
(* than QaMaxRetry times, the validator only the first QaMaxRetry times; a *)
(* round of drafting is five supersteps, an edit three.                    *)
RoomForRetries ==
  /\ QaMaxRetry >= 1 /\ RecursionLimit > 10 * QaMaxRetry + 8
  /\ PlanMaxAttempts >= 1 /\ RecursionLimit > 3 * PlanMaxAttempts + 9

Rounds(x, n) ==
  /\ x.qa < QaMaxRetry /\ x.retry <= QaMaxRetry + x.qa
  /\ x.steps <= 5 + 5 * x.retry + n

Budget(x) ==
  /\ x.pc \in {"compress", "security", "intent", "search_nodes",
               "suggest_skill_select", "resume"} =>
       x.steps <= 4 /\ x.retry = 0 /\ x.qa = 0 /\ x.attempts = 0
  /\ x.pc \in {"compress", "resume"} => x.steps = 0
  /\ x.pc = "security" => x.steps <= 1
  /\ x.pc = "intent" => x.steps <= 2
  /\ x.pc = "search_nodes" => x.steps <= 3
  /\ x.pc = "draft_workflow" => Rounds(x, 0)
  /\ x.pc = "bind_skill" => Rounds(x, 1)
  /\ x.pc = "validate_workflow" /\ x.intent # "refine" => Rounds(x, 2)
  /\ x.pc = "qa_evaluator" => Rounds(x, 3)
  /\ x.pc = "retry_draft" => Rounds(x, 4) /\ x.retry < QaMaxRetry + x.qa
  /\ x.pc = "refine_plan" =>
       x.attempts < PlanMaxAttempts /\ x.steps <= 5 + 3 * x.attempts
  /\ x.pc = "refine_apply" =>
       x.attempts <= PlanMaxAttempts /\ x.steps <= 3 + 3 * x.attempts
  /\ x.pc = "validate_workflow" /\ x.intent = "refine" =>
       x.attempts <= PlanMaxAttempts /\ x.steps <= 4 + 3 * x.attempts
  /\ x.pc \in {"validation_failed", "qa_failed", "save_memory"} => x.steps + 1 <= RecursionLimit
  /\ x.pc = "promote" => x.steps + 5 <= RecursionLimit
  /\ x.pc = "save_workflow" => x.steps + 4 <= RecursionLimit
  /\ x.pc = "explain" => x.steps + 3 <= RecursionLimit
  /\ x.pc = "confirm_result" => x.steps + 2 <= RecursionLimit

RunOK(x, made) ==
  PathOK(x) /\ DraftOK(x) /\ SkillOK(x, made) /\ (RoomForRetries => Budget(x))

StoresOK(stored, resumable, made) ==
  /\ made \subseteq Users \X Skills
  /\ stored \in Draft \cup {NoDraft}
  /\ stored # NoDraft => Checked(stored) /\ Was(stored.skill, made)
  /\ resumable \in [user : Users, offered : SUBSET Skills] \cup {NoState}
  /\ resumable # NoState => \A s \in resumable.offered : <<resumable.user, s>> \in made

ComposerInv ==
  /\ run \in [Runs -> RunState]
  /\ StoresOK(draftStore, resumeState, offers)
  /\ \A r \in Runs : RunOK(run[r], offers)

-----------------------------------------------------------------------------
(* A request as it arrives, and a slot that serves nobody.                 *)
LEMMA RequestFits ==
  ASSUME NEW user \in Users, NEW round \in {1, 2}, NEW sel \in Sel, NEW made
  PROVE  Request(user, round, sel) \in RunState /\ RunOK(Request(user, round, sel), made)
<1> DEFINE x == Request(user, round, sel)
<1>1. x \in RunState
  BY DEF Request, RunState, NodeNames, Said
<1>2. /\ x.pc = (IF round = 2 THEN "resume" ELSE "compress") /\ x.round = round
      /\ x.intent = "none" /\ x.prior = NoDraft /\ x.offered = {} /\ x.draft = NoDraft
      /\ x.retry = 0 /\ x.qa = 0 /\ x.attempts = 0 /\ x.tx = "none" /\ x.steps = 0
  BY DEF Request
<1>3. NoDraft \notin Sel
  BY ComposerAssumption DEF Sel
<1> HIDE DEF x
<1>4. PathOK(x) /\ SkillOK(x, made) /\ DraftOK(x)
  <2>1. PathOK(x)
    BY <1>2, <1>3 DEF PathOK, RoundOne, Saved
  <2>2. DraftOK(x)
    BY <1>2 DEF DraftOK, DraftNodes, Behind
  <2>3. SkillOK(x, made)
    BY <1>2, <1>3, DraftAssumption DEF SkillOK, Was
  <2> QED BY <2>1, <2>2, <2>3
<1>5. RoomForRetries => Budget(x)
  BY <1>2 DEF Budget
<1> QED BY <1>1, <1>4, <1>5 DEF RunOK, x
(* The node's step, in fields.                                             *)
Same(y, x) ==
  /\ y.user = x.user /\ y.round = x.round /\ y.sel = x.sel /\ y.intent = x.intent
  /\ y.prior = x.prior /\ y.offered = x.offered /\ y.draft = x.draft
  /\ y.repeated = x.repeated /\ y.retry = x.retry /\ y.qa = x.qa
  /\ y.attempts = x.attempts /\ y.tx = x.tx

Fits(x, next, made) ==
  \A y \in RunState : y.pc = next /\ y.steps = x.steps + 1 /\ Same(y, x) => RunOK(y, made)

LEMMA OffersGrow ==
  ASSUME NEW made, NEW more, made \subseteq more, NEW x, SkillOK(x, made)
  PROVE  SkillOK(x, more)
BY DEF SkillOK, Was

LEMMA RunReplaced ==
  ASSUME ComposerInv, NEW r \in Runs, NEW y \in RunState, run' = [run EXCEPT ![r] = y],
         offers \subseteq offers', RunOK(y, offers'),
         StoresOK(draftStore', resumeState', offers')
  PROVE  ComposerInv'
<1>1. run' \in [Runs -> RunState] /\ \A q \in Runs : run'[q] = IF q = r THEN y ELSE run[q]
  BY DEF ComposerInv
<1>2. \A q \in Runs : RunOK(run[q], offers')
  BY OffersGrow DEF ComposerInv, RunOK
<1>3. \A q \in Runs : RunOK(run'[q], offers')
  BY <1>1, <1>2
<1> QED BY <1>1, <1>3 DEF ComposerInv

LEMMA NodeMoves ==
  ASSUME ComposerInv, NEW r \in Runs, NEW x \in RunState, NEW next \in Places,
         NEW n \in Nat, NEW said \in Said, Goto(r, x, next, n, said),
         offers \subseteq offers', Fits(x, next, offers'),
         StoresOK(draftStore', resumeState', offers')
  PROVE  ComposerInv'
<1> DEFINE y == [x EXCEPT !.pc = next, !.steps = @ + 1, !.sent = 1 + n, !.said = said]
<1>1. run' = [run EXCEPT ![r] = y]
  BY DEF Goto
<1>2. y \in RunState /\ y.pc = next /\ y.steps = x.steps + 1
  <2>1. x.steps \in Nat
    BY DEF RunState
  <2>2. x.steps + 1 \in Nat /\ 1 + n \in Nat
    BY <2>1
  <2>3. \A later, frames \in Nat :
          LET z == [x EXCEPT !.pc = next, !.steps = later, !.sent = frames, !.said = said] IN
          z \in RunState /\ z.pc = next /\ z.steps = later
    BY DEF RunState, Places
  <2> QED BY <2>2, <2>3
<1>3. Same(y, x)
  BY DEF RunState, Same
<1>4. RunOK(y, offers')
  <2> HIDE DEF y
  <2> QED BY <1>2, <1>3 DEF Fits
<1> HIDE DEF y
<1> QED BY <1>1, <1>2, <1>4, RunReplaced

LEMMA StoresStay ==
  ASSUME ComposerInv, StoresUnchanged
  PROVE  offers' = offers /\ StoresOK(draftStore', resumeState', offers')
BY DEF ComposerInv, StoresUnchanged

(* What is known of the run at a node.                                     *)
LEMMA AtNode ==
  ASSUME ComposerInv, NEW r \in Runs
  PROVE  /\ run[r] \in RunState /\ run[r].steps \in Nat /\ run[r].retry \in Nat
         /\ run[r].qa \in Nat /\ run[r].attempts \in Nat
         /\ PathOK(run[r]) /\ DraftOK(run[r]) /\ SkillOK(run[r], offers)
         /\ RoomForRetries => Budget(run[r])
BY DEF ComposerInv, RunOK, RunState

(* A node that only hands the run on, whatever it stores.                  *)
LEMMA HandsOn ==
  ASSUME ComposerInv, NEW r \in Runs, NEW n \in Nat, NEW said \in Said,
         NEW next \in Places, Goto(r, run[r], next, n, said),
         offers \subseteq offers', StoresOK(draftStore', resumeState', offers'),
         <<run[r].pc, next>> \in
           {<<"compress", "security">>, <<"security", "intent">>,
            <<"search_nodes", "suggest_skill_select">>, <<"promote", "save_workflow">>,
            <<"explain", "confirm_result">>}
         \/ next = "end"
  PROVE  ComposerInv'
<1> DEFINE x == run[r]
<1>1. /\ x \in RunState /\ x.steps \in Nat /\ PathOK(x) /\ DraftOK(x)
      /\ SkillOK(x, offers') /\ (RoomForRetries => Budget(x))
  BY AtNode, OffersGrow
<1>2. ASSUME NEW y \in RunState, y.pc = next, y.steps = x.steps + 1, Same(y, x)
      PROVE  RunOK(y, offers')
  <2> HIDE DEF x
  <2>1. PathOK(y)
    BY <1>1, <1>2 DEF PathOK, RoundOne, Saved, Same, x
  <2>2. DraftOK(y)
    BY <1>1, <1>2 DEF DraftOK, DraftNodes, Behind, Same, x
  <2>3. SkillOK(y, offers')
    BY <1>1, <1>2 DEF SkillOK, Same
  <2>4. RoomForRetries => Budget(y)
    BY <1>1, <1>2 DEF Budget, Same, x
  <2> QED BY <2>1, <2>2, <2>3, <2>4 DEF RunOK
<1>3. Fits(run[r], next, offers')
  BY <1>2 DEF Fits
<1> QED BY <1>1, <1>3, NodeMoves
(* A message is an edit only of a draft there is.                          *)
LEMMA IntentClassifies ==
  ASSUME ComposerInv, NEW r \in Runs, NEW kind \in {"other", "refine", "draft"},
         NEW prior \in Loaded, NEW next \in {"end", "search_nodes"}, At(r, "intent"),
         Goto(r, [run[r] EXCEPT !.intent = kind, !.prior = prior],
              next, 2, "content"), StoresUnchanged,
         kind = "refine" => prior # NoDraft
  PROVE  ComposerInv'
<1> DEFINE w == run[r]
           x == [w EXCEPT !.intent = kind, !.prior = prior]
<1>1. /\ w \in RunState /\ w.steps \in Nat /\ w.retry \in Nat /\ w.qa \in Nat
      /\ w.attempts \in Nat /\ PathOK(w) /\ DraftOK(w) /\ SkillOK(w, offers)
      /\ RoomForRetries => Budget(w)
      /\ w.pc = "intent"
  BY AtNode DEF At
<1>2. offers' = offers /\ StoresOK(draftStore', resumeState', offers')
  BY StoresStay
<1>a. /\ prior \in Sel \cup {NoDraft} /\ (prior \in Sel => Was(prior, offers))
      /\ kind = "refine" => prior \in Sel
      /\ w.round # 2
  <2>1. prior \in Sel \cup {NoDraft} /\ (prior # NoDraft => Was(prior, offers))
    BY DEF Loaded, ComposerInv, StoresOK, Draft
  <2>2. NoDraft \notin Sel
    BY ComposerAssumption DEF Sel
  <2>3. w.round # 2
    BY <1>1 DEF PathOK, RoundOne
  <2> QED BY <2>1, <2>2, <2>3
<1>3. /\ x \in RunState
      /\ x.user = w.user /\ x.round = w.round /\ x.sel = w.sel
      /\ x.intent = kind /\ x.prior = prior /\ x.offered = w.offered
      /\ x.draft = w.draft /\ x.repeated = w.repeated /\ x.retry = w.retry
      /\ x.qa = w.qa /\ x.attempts = w.attempts /\ x.tx = w.tx
      /\ x.steps = w.steps
  BY <1>1, <1>a DEF RunState
<1>4. next \in Places /\ 2 \in Nat
      /\ "content" \in Said
  BY <1>1, <1>a DEF Places, NodeNames, Said
<1>5. ASSUME NEW y \in RunState, y.pc = next, y.steps = x.steps + 1, Same(y, x)
      PROVE  RunOK(y, offers)
  <2> HIDE DEF x, w
  <2>1. PathOK(y)
    BY <1>1, <1>3, <1>5, <1>a DEF PathOK, RoundOne, Saved, Same
  <2>2. DraftOK(y)
    BY <1>1, <1>3, <1>5, <1>a DEF DraftOK, DraftNodes, Behind, PathOK, Saved, Same
  <2>3. SkillOK(y, offers)
    BY <1>1, <1>3, <1>5, <1>a DEF SkillOK, Was, Same
  <2>4. RoomForRetries => Budget(y)
    BY <1>1, <1>3, <1>5, <1>a, ComposerAssumption DEF Budget, Rounds, RoomForRetries, PathOK, Same
  <2> QED BY <2>1, <2>2, <2>3, <2>4 DEF RunOK
<1>6. Fits(x, next, offers')
  BY <1>2, <1>5 DEF Fits
<1>7. Goto(r, x, next, 2, "content") /\ offers \subseteq offers'
  BY <1>2
<1> HIDE DEF x
<1> QED BY <1>2, <1>3, <1>4, <1>6, <1>7, NodeMoves

LEMMA SuggestGoesOn ==
  ASSUME ComposerInv, NEW r \in Runs, NEW next \in {"refine_plan", "draft_workflow"}, At(r, "suggest_skill_select"),
         Goto(r, run[r],
              next, 0, "content"), StoresUnchanged,
         next = "refine_plan" <=> run[r].intent = "refine"
  PROVE  ComposerInv'
<1> DEFINE w == run[r]
           x == w
<1>1. /\ w \in RunState /\ w.steps \in Nat /\ w.retry \in Nat /\ w.qa \in Nat
      /\ w.attempts \in Nat /\ PathOK(w) /\ DraftOK(w) /\ SkillOK(w, offers)
      /\ RoomForRetries => Budget(w)
      /\ w.pc = "suggest_skill_select"
  BY AtNode DEF At
<1>2. offers' = offers /\ StoresOK(draftStore', resumeState', offers')
  BY StoresStay
<1>3. /\ x \in RunState
      /\ x.user = w.user /\ x.round = w.round /\ x.sel = w.sel
      /\ x.intent = w.intent /\ x.prior = w.prior /\ x.offered = w.offered
      /\ x.draft = w.draft /\ x.repeated = w.repeated /\ x.retry = w.retry
      /\ x.qa = w.qa /\ x.attempts = w.attempts /\ x.tx = w.tx
      /\ x.steps = w.steps
  BY <1>1 DEF RunState
<1>4. next \in Places /\ 0 \in Nat
      /\ "content" \in Said
  BY <1>1 DEF Places, NodeNames, Said
<1>5. ASSUME NEW y \in RunState, y.pc = next, y.steps = x.steps + 1, Same(y, x)
      PROVE  RunOK(y, offers)
  <2> HIDE DEF x, w
  <2>1. PathOK(y)
    BY <1>1, <1>3, <1>5 DEF PathOK, RoundOne, Saved, Same, w
  <2>2. DraftOK(y)
    BY <1>1, <1>3, <1>5 DEF DraftOK, DraftNodes, Behind, PathOK, Saved, Same, w
  <2>3. SkillOK(y, offers)
    BY <1>1, <1>3, <1>5 DEF SkillOK, Was, Same
  <2>4. ASSUME RoomForRetries PROVE Budget(y)
    <3>1. w.steps <= 4 /\ w.retry = 0 /\ w.qa = 0 /\ w.attempts = 0
      BY <1>1, <2>4 DEF Budget
    <3>2. y.steps \in Nat /\ y.steps <= 5 /\ y.retry = 0 /\ y.qa = 0 /\ y.attempts = 0
      BY <1>1, <1>3, <1>5, <3>1 DEF Same
    <3>3. Rounds(y, 0) /\ 0 < PlanMaxAttempts
      BY <2>4, <3>2, ComposerAssumption DEF Rounds, RoomForRetries
    <3> QED BY <1>1, <1>3, <1>5, <3>2, <3>3 DEF Budget, w
  <2> QED BY <2>1, <2>2, <2>3, <2>4 DEF RunOK
<1>6. Fits(x, next, offers')
  BY <1>2, <1>5 DEF Fits
<1>7. Goto(r, x, next, 0, "content") /\ offers \subseteq offers'
  BY <1>2
<1> HIDE DEF x
<1> QED BY <1>2, <1>3, <1>4, <1>6, <1>7, NodeMoves

(* What is resumed was offered to this user.                               *)
LEMMA ResumeFound ==
  ASSUME ComposerInv, NEW r \in Runs, At(r, "resume"),
         Goto(r, [run[r] EXCEPT !.intent = "draft", !.offered = resumeState.offered],
              "draft_workflow", 1, "content"), StoresUnchanged,
         Resumable(run[r].user)
  PROVE  ComposerInv'
<1> DEFINE w == run[r]
           x == [w EXCEPT !.intent = "draft", !.offered = resumeState.offered]
<1>1. /\ w \in RunState /\ w.steps \in Nat /\ w.retry \in Nat /\ w.qa \in Nat
      /\ w.attempts \in Nat /\ PathOK(w) /\ DraftOK(w) /\ SkillOK(w, offers)
      /\ RoomForRetries => Budget(w)
      /\ w.pc = "resume"
  BY AtNode DEF At
<1>2. offers' = offers /\ StoresOK(draftStore', resumeState', offers')
  BY StoresStay
<1>a. /\ resumeState.offered \in SUBSET Skills
      /\ \A s \in resumeState.offered : <<w.user, s>> \in offers
  BY DEF ComposerInv, StoresOK, Resumable
<1>3. /\ x \in RunState
      /\ x.user = w.user /\ x.round = w.round /\ x.sel = w.sel
      /\ x.intent = "draft" /\ x.prior = w.prior
      /\ x.offered = resumeState.offered /\ x.draft = w.draft
      /\ x.repeated = w.repeated /\ x.retry = w.retry /\ x.qa = w.qa
      /\ x.attempts = w.attempts /\ x.tx = w.tx /\ x.steps = w.steps
  BY <1>1, <1>a DEF RunState
<1>4. "draft_workflow" \in Places /\ 1 \in Nat
      /\ "content" \in Said
  BY <1>1, <1>a DEF Places, NodeNames, Said
<1>5. ASSUME NEW y \in RunState, y.pc = "draft_workflow", y.steps = x.steps + 1, Same(y, x)
      PROVE  RunOK(y, offers)
  <2> HIDE DEF x, w
  <2>1. PathOK(y)
    BY <1>1, <1>3, <1>5, <1>a DEF PathOK, RoundOne, Saved, Same
  <2>2. DraftOK(y)
    BY <1>1, <1>3, <1>5, <1>a DEF DraftOK, DraftNodes, Behind, PathOK, Saved, Same
  <2>3. SkillOK(y, offers)
    BY <1>1, <1>3, <1>5, <1>a DEF SkillOK, Was, Same
  <2>4. ASSUME RoomForRetries PROVE Budget(y)
    <3>1. w.steps <= 4 /\ w.retry = 0 /\ w.qa = 0 /\ w.attempts = 0
      BY <1>1, <2>4 DEF Budget
    <3>2. y.steps \in Nat /\ y.steps <= 5 /\ y.retry = 0 /\ y.qa = 0 /\ y.attempts = 0
      BY <1>1, <1>3, <1>5, <3>1 DEF Same
    <3>3. Rounds(y, 0) /\ 0 < PlanMaxAttempts
      BY <2>4, <3>2, ComposerAssumption DEF Rounds, RoomForRetries
    <3> QED BY <1>1, <1>3, <1>5, <1>a, <3>2, <3>3 DEF Budget
  <2> QED BY <2>1, <2>2, <2>3, <2>4 DEF RunOK
<1>6. Fits(x, "draft_workflow", offers')
  BY <1>2, <1>5 DEF Fits
<1>7. Goto(r, x, "draft_workflow", 1, "content") /\ offers \subseteq offers'
  BY <1>2
<1> HIDE DEF x
<1> QED BY <1>2, <1>3, <1>4, <1>6, <1>7, NodeMoves

LEMMA Drafted ==
  ASSUME ComposerInv, NEW r \in Runs, NEW same \in BOOLEAN, At(r, "draft_workflow"),
         Goto(r, [run[r] EXCEPT !.draft = NewDraft("fresh", NoSkill), !.repeated = same],
              "bind_skill", 5, "content"), StoresUnchanged
  PROVE  ComposerInv'
<1> DEFINE w == run[r]
           x == [w EXCEPT !.draft = NewDraft("fresh", NoSkill), !.repeated = same]
<1>1. /\ w \in RunState /\ w.steps \in Nat /\ w.retry \in Nat /\ w.qa \in Nat
      /\ w.attempts \in Nat /\ PathOK(w) /\ DraftOK(w) /\ SkillOK(w, offers)
      /\ RoomForRetries => Budget(w)
      /\ w.pc = "draft_workflow"
  BY AtNode DEF At
<1>2. offers' = offers /\ StoresOK(draftStore', resumeState', offers')
  BY StoresStay
<1>a. NewDraft("fresh", NoSkill) \in Draft /\ NewDraft("fresh", NoSkill).skill = NoSkill
  BY DEF NewDraft, Draft, Sel
<1>3. /\ x \in RunState
      /\ x.user = w.user /\ x.round = w.round /\ x.sel = w.sel
      /\ x.intent = w.intent /\ x.prior = w.prior /\ x.offered = w.offered
      /\ x.draft = NewDraft("fresh", NoSkill) /\ x.repeated = same
      /\ x.retry = w.retry /\ x.qa = w.qa /\ x.attempts = w.attempts
      /\ x.tx = w.tx /\ x.steps = w.steps
  BY <1>1, <1>a DEF RunState
<1>4. "bind_skill" \in Places /\ 5 \in Nat
      /\ "content" \in Said
  BY <1>1, <1>a DEF Places, NodeNames, Said
<1>5. ASSUME NEW y \in RunState, y.pc = "bind_skill", y.steps = x.steps + 1, Same(y, x)
      PROVE  RunOK(y, offers)
  <2> HIDE DEF x, w
  <2>1. PathOK(y)
    BY <1>1, <1>3, <1>5, <1>a DEF PathOK, RoundOne, Saved, Same
  <2>2. DraftOK(y)
    BY <1>1, <1>3, <1>5, <1>a DEF DraftOK, DraftNodes, Behind, PathOK, Saved, Same
  <2>3. SkillOK(y, offers)
    BY <1>1, <1>3, <1>5, <1>a DEF SkillOK, Was, Same
  <2>4. RoomForRetries => Budget(y)
    BY <1>1, <1>3, <1>5, <1>a, ComposerAssumption DEF Budget, Rounds, RoomForRetries, PathOK, Same
  <2> QED BY <2>1, <2>2, <2>3, <2>4 DEF RunOK
<1>6. Fits(x, "bind_skill", offers')
  BY <1>2, <1>5 DEF Fits
<1>7. Goto(r, x, "bind_skill", 5, "content") /\ offers \subseteq offers'
  BY <1>2
<1> HIDE DEF x
<1> QED BY <1>2, <1>3, <1>4, <1>6, <1>7, NodeMoves

(* The skill that is bound was offered to the user of the run.             *)
LEMMA Bound ==
  ASSUME ComposerInv, NEW r \in Runs, NEW skill \in Sel, At(r, "bind_skill"),
         Goto(r, [run[r] EXCEPT !.draft.skill = skill],
              "validate_workflow", 1, "content"), StoresUnchanged,
         skill # NoSkill => skill \in run[r].offered
  PROVE  ComposerInv'
<1> DEFINE w == run[r]
           x == [w EXCEPT !.draft.skill = skill]
<1>1. /\ w \in RunState /\ w.steps \in Nat /\ w.retry \in Nat /\ w.qa \in Nat
      /\ w.attempts \in Nat /\ PathOK(w) /\ DraftOK(w) /\ SkillOK(w, offers)
      /\ RoomForRetries => Budget(w)
      /\ w.pc = "bind_skill"
  BY AtNode DEF At
<1>2. offers' = offers /\ StoresOK(draftStore', resumeState', offers')
  BY StoresStay
<1>a. /\ w.draft \in Draft /\ w.user \in Users
      /\ [w.draft EXCEPT !.skill = skill] \in Draft
      /\ [w.draft EXCEPT !.skill = skill].skill = skill
      /\ skill # NoSkill => <<w.user, skill>> \in offers
  BY <1>1 DEF DraftOK, DraftNodes, Draft, SkillOK, RunState
<1>3. /\ x \in RunState
      /\ x.user = w.user /\ x.round = w.round /\ x.sel = w.sel
      /\ x.intent = w.intent /\ x.prior = w.prior /\ x.offered = w.offered
      /\ x.draft = [w.draft EXCEPT !.skill = skill]
      /\ x.repeated = w.repeated /\ x.retry = w.retry /\ x.qa = w.qa
      /\ x.attempts = w.attempts /\ x.tx = w.tx /\ x.steps = w.steps
  BY <1>1, <1>a DEF RunState
<1>4. "validate_workflow" \in Places /\ 1 \in Nat
      /\ "content" \in Said
  BY <1>1, <1>a DEF Places, NodeNames, Said
<1>5. ASSUME NEW y \in RunState, y.pc = "validate_workflow", y.steps = x.steps + 1, Same(y, x)
      PROVE  RunOK(y, offers)
  <2> HIDE DEF x, w
  <2>1. PathOK(y)
    BY <1>1, <1>3, <1>5, <1>a DEF PathOK, RoundOne, Saved, Same
  <2>2. DraftOK(y)
    BY <1>1, <1>3, <1>5, <1>a DEF DraftOK, DraftNodes, Behind, PathOK, Saved, Same
  <2>3. SkillOK(y, offers)
    BY ZenonT(30), <1>1, <1>3, <1>5, <1>a DEF SkillOK, Was, Same
  <2>4. RoomForRetries => Budget(y)
    BY <1>1, <1>3, <1>5, <1>a, ComposerAssumption DEF Budget, Rounds, RoomForRetries, PathOK, Same
  <2> QED BY <2>1, <2>2, <2>3, <2>4 DEF RunOK
<1>6. Fits(x, "validate_workflow", offers')
  BY <1>2, <1>5 DEF Fits
<1>7. Goto(r, x, "validate_workflow", 1, "content") /\ offers \subseteq offers'
  BY <1>2
<1> HIDE DEF x
<1> QED BY <1>2, <1>3, <1>4, <1>6, <1>7, NodeMoves

LEMMA Planned ==
  ASSUME ComposerInv, NEW r \in Runs, NEW next \in {"refine_apply", "refine_plan"}, NEW n \in Nat, At(r, "refine_plan"),
         Goto(r, [run[r] EXCEPT !.attempts = @ + 1],
              next, n, "content"), StoresUnchanged,
         next = "refine_plan" => run[r].attempts + 1 < PlanMaxAttempts
  PROVE  ComposerInv'
<1> DEFINE w == run[r]
           x == [w EXCEPT !.attempts = @ + 1]
<1>1. /\ w \in RunState /\ w.steps \in Nat /\ w.retry \in Nat /\ w.qa \in Nat
      /\ w.attempts \in Nat /\ PathOK(w) /\ DraftOK(w) /\ SkillOK(w, offers)
      /\ RoomForRetries => Budget(w)
      /\ w.pc = "refine_plan"
  BY AtNode DEF At
<1>2. offers' = offers /\ StoresOK(draftStore', resumeState', offers')
  BY StoresStay
<1>3. /\ x \in RunState
      /\ x.user = w.user /\ x.round = w.round /\ x.sel = w.sel
      /\ x.intent = w.intent /\ x.prior = w.prior /\ x.offered = w.offered
      /\ x.draft = w.draft /\ x.repeated = w.repeated /\ x.retry = w.retry
      /\ x.qa = w.qa /\ x.attempts = w.attempts + 1 /\ x.tx = w.tx
      /\ x.steps = w.steps
  BY <1>1 DEF RunState
<1>4. next \in Places /\ n \in Nat
      /\ "content" \in Said
  BY <1>1 DEF Places, NodeNames, Said
<1>5. ASSUME NEW y \in RunState, y.pc = next, y.steps = x.steps + 1, Same(y, x)
      PROVE  RunOK(y, offers)
  <2> HIDE DEF x, w
  <2>1. PathOK(y)
    BY <1>1, <1>3, <1>5 DEF PathOK, RoundOne, Saved, Same
  <2>2. DraftOK(y)
    BY <1>1, <1>3, <1>5 DEF DraftOK, DraftNodes, Behind, PathOK, Saved, Same
  <2>3. SkillOK(y, offers)
    BY <1>1, <1>3, <1>5 DEF SkillOK, Was, Same
  <2>4. RoomForRetries => Budget(y)
    BY <1>1, <1>3, <1>5, ComposerAssumption DEF Budget, Rounds, RoomForRetries, PathOK, Same, w
  <2> QED BY <2>1, <2>2, <2>3, <2>4 DEF RunOK
<1>6. Fits(x, next, offers')
  BY <1>2, <1>5 DEF Fits
<1>7. Goto(r, x, next, n, "content") /\ offers \subseteq offers'
  BY <1>2
<1> HIDE DEF x
<1> QED BY <1>2, <1>3, <1>4, <1>6, <1>7, NodeMoves

(* An edit keeps the prior draft's skill or none; it is no second round.   *)
LEMMA Applied ==
  ASSUME ComposerInv, NEW r \in Runs, NEW skill \in {run[r].prior, NoSkill}, At(r, "refine_apply"),
         Goto(r, [run[r] EXCEPT !.draft = NewDraft("edit", skill)],
              "validate_workflow", 4, "content"), StoresUnchanged
  PROVE  ComposerInv'
<1> DEFINE w == run[r]
           x == [w EXCEPT !.draft = NewDraft("edit", skill)]
<1>1. /\ w \in RunState /\ w.steps \in Nat /\ w.retry \in Nat /\ w.qa \in Nat
      /\ w.attempts \in Nat /\ PathOK(w) /\ DraftOK(w) /\ SkillOK(w, offers)
      /\ RoomForRetries => Budget(w)
      /\ w.pc = "refine_apply"
  BY AtNode DEF At
<1>2. offers' = offers /\ StoresOK(draftStore', resumeState', offers')
  BY StoresStay
<1>a. /\ NewDraft("edit", skill) \in Draft /\ NewDraft("edit", skill).skill = skill
      /\ NewDraft("edit", skill).base = "edit" /\ Was(skill, offers) /\ w.round # 2
  <2>1. skill \in Sel /\ Was(skill, offers) /\ w.round # 2
    BY <1>1 DEF PathOK, SkillOK, RoundOne, Sel, Was
  <2> QED BY <2>1 DEF NewDraft, Draft
<1>3. /\ x \in RunState
      /\ x.user = w.user /\ x.round = w.round /\ x.sel = w.sel
      /\ x.intent = w.intent /\ x.prior = w.prior /\ x.offered = w.offered
      /\ x.draft = NewDraft("edit", skill) /\ x.repeated = w.repeated
      /\ x.retry = w.retry /\ x.qa = w.qa /\ x.attempts = w.attempts
      /\ x.tx = w.tx /\ x.steps = w.steps
  BY <1>1, <1>a DEF RunState
<1>4. "validate_workflow" \in Places /\ 4 \in Nat
      /\ "content" \in Said
  BY <1>1, <1>a DEF Places, NodeNames, Said
<1>5. ASSUME NEW y \in RunState, y.pc = "validate_workflow", y.steps = x.steps + 1, Same(y, x)
      PROVE  RunOK(y, offers)
  <2> HIDE DEF x, w
  <2>1. PathOK(y)
    BY <1>1, <1>3, <1>5, <1>a DEF PathOK, RoundOne, Saved, Same
  <2>2. DraftOK(y)
    BY <1>1, <1>3, <1>5, <1>a DEF DraftOK, DraftNodes, Behind, PathOK, Saved, Same
  <2>3. SkillOK(y, offers)
    BY <1>1, <1>3, <1>5, <1>a DEF SkillOK, Was, Same
  <2>4. RoomForRetries => Budget(y)
    BY <1>1, <1>3, <1>5, <1>a, ComposerAssumption DEF Budget, Rounds, RoomForRetries, PathOK, Same
  <2> QED BY <2>1, <2>2, <2>3, <2>4 DEF RunOK
<1>6. Fits(x, "validate_workflow", offers')
  BY <1>2, <1>5 DEF Fits
<1>7. Goto(r, x, "validate_workflow", 4, "content") /\ offers \subseteq offers'
  BY <1>2
<1> HIDE DEF x
<1> QED BY <1>2, <1>3, <1>4, <1>6, <1>7, NodeMoves

(* The draft that goes on is the one whose report was read.                *)
LEMMA Validated ==
  ASSUME ComposerInv, NEW r \in Runs, NEW answer \in Answers,
         NEW next \in {"promote", "qa_evaluator"}, At(r, "validate_workflow"),
         Goto(r, [run[r] EXCEPT !.draft.report = answer],
              next, 2, "content"), StoresUnchanged,
         next = "promote" <=> run[r].intent = "refine"
  PROVE  ComposerInv'
<1> DEFINE w == run[r]
           x == [w EXCEPT !.draft.report = answer]
<1>1. /\ w \in RunState /\ w.steps \in Nat /\ w.retry \in Nat /\ w.qa \in Nat
      /\ w.attempts \in Nat /\ PathOK(w) /\ DraftOK(w) /\ SkillOK(w, offers)
      /\ RoomForRetries => Budget(w)
      /\ w.pc = "validate_workflow"
  BY AtNode DEF At
<1>2. offers' = offers /\ StoresOK(draftStore', resumeState', offers')
  BY StoresStay
<1>a. /\ w.draft \in Draft /\ [w.draft EXCEPT !.report = answer] \in Draft
      /\ [w.draft EXCEPT !.report = answer].report # "none"
      /\ [w.draft EXCEPT !.report = answer].base = w.draft.base
      /\ [w.draft EXCEPT !.report = answer].skill = w.draft.skill
  BY <1>1, ComposerAssumption DEF DraftOK, DraftNodes, Draft
<1>3. /\ x \in RunState
      /\ x.user = w.user /\ x.round = w.round /\ x.sel = w.sel
      /\ x.intent = w.intent /\ x.prior = w.prior /\ x.offered = w.offered
      /\ x.draft = [w.draft EXCEPT !.report = answer]
      /\ x.repeated = w.repeated /\ x.retry = w.retry /\ x.qa = w.qa
      /\ x.attempts = w.attempts /\ x.tx = w.tx /\ x.steps = w.steps
  BY <1>1, <1>a DEF RunState
<1>4. next \in Places /\ 2 \in Nat
      /\ "content" \in Said
  BY <1>1, <1>a DEF Places, NodeNames, Said
<1>5. ASSUME NEW y \in RunState, y.pc = next, y.steps = x.steps + 1, Same(y, x)
      PROVE  RunOK(y, offers)
  <2> HIDE DEF x, w
  <2>1. PathOK(y)
    BY <1>1, <1>3, <1>5, <1>a DEF PathOK, RoundOne, Saved, Same, w
  <2>2. DraftOK(y)
    BY <1>1, <1>3, <1>5, <1>a DEF DraftOK, DraftNodes, Behind, PathOK, Saved, Same, w, Checked
  <2>3. SkillOK(y, offers)
    BY ZenonT(30), <1>1, <1>3, <1>5, <1>a DEF SkillOK, Was, Same
  <2>4. RoomForRetries => Budget(y)
    BY <1>1, <1>3, <1>5, <1>a, ComposerAssumption DEF Budget, Rounds, RoomForRetries, PathOK, Same, w
  <2> QED BY <2>1, <2>2, <2>3, <2>4 DEF RunOK
<1>6. Fits(x, next, offers')
  BY <1>2, <1>5 DEF Fits
<1>7. Goto(r, x, next, 2, "content") /\ offers \subseteq offers'
  BY <1>2
<1> HIDE DEF x
<1> QED BY <1>2, <1>3, <1>4, <1>6, <1>7, NodeMoves

LEMMA Rejected ==
  ASSUME ComposerInv, NEW r \in Runs, At(r, "validate_workflow"),
         Goto(r, run[r],
              AfterRejected(run[r]), 0, "content"), StoresUnchanged
  PROVE  ComposerInv'
<1> DEFINE w == run[r]
           x == w
<1>1. /\ w \in RunState /\ w.steps \in Nat /\ w.retry \in Nat /\ w.qa \in Nat
      /\ w.attempts \in Nat /\ PathOK(w) /\ DraftOK(w) /\ SkillOK(w, offers)
      /\ RoomForRetries => Budget(w)
      /\ w.pc = "validate_workflow"
  BY AtNode DEF At
<1>2. offers' = offers /\ StoresOK(draftStore', resumeState', offers')
  BY StoresStay
<1>a. AfterRejected(w) \in {"refine_plan", "validation_failed", "retry_draft"}
  BY DEF AfterRejected
<1>3. /\ x \in RunState
      /\ x.user = w.user /\ x.round = w.round /\ x.sel = w.sel
      /\ x.intent = w.intent /\ x.prior = w.prior /\ x.offered = w.offered
      /\ x.draft = w.draft /\ x.repeated = w.repeated /\ x.retry = w.retry
      /\ x.qa = w.qa /\ x.attempts = w.attempts /\ x.tx = w.tx
      /\ x.steps = w.steps
  BY <1>1, <1>a DEF RunState
<1>4. AfterRejected(run[r]) \in Places /\ 0 \in Nat
      /\ "content" \in Said
  BY <1>1, <1>a DEF Places, NodeNames, Said
<1>5. ASSUME NEW y \in RunState, y.pc = AfterRejected(run[r]), y.steps = x.steps + 1, Same(y, x)
      PROVE  RunOK(y, offers)
  <2> HIDE DEF x, w
  <2>1. PathOK(y)
    BY <1>1, <1>3, <1>5, <1>a DEF PathOK, RoundOne, Saved, Same, w, AfterRejected
  <2>2. DraftOK(y)
    BY <1>1, <1>3, <1>5, <1>a DEF DraftOK, DraftNodes, Behind, PathOK, Saved, Same, w
  <2>3. SkillOK(y, offers)
    BY <1>1, <1>3, <1>5, <1>a DEF SkillOK, Was, Same
  <2>4. RoomForRetries => Budget(y)
    BY <1>1, <1>3, <1>5, <1>a, ComposerAssumption DEF Budget, Rounds, RoomForRetries, PathOK, Same, w, AfterRejected
  <2> QED BY <2>1, <2>2, <2>3, <2>4 DEF RunOK
<1>6. Fits(x, AfterRejected(run[r]), offers')
  BY <1>2, <1>5 DEF Fits
<1>7. Goto(r, x, AfterRejected(run[r]), 0, "content") /\ offers \subseteq offers'
  BY <1>2
<1> HIDE DEF x
<1> QED BY <1>2, <1>3, <1>4, <1>6, <1>7, NodeMoves

(* The draft that is promoted is the one the judge passed.                 *)
LEMMA Judged ==
  ASSUME ComposerInv, NEW r \in Runs, NEW pass \in BOOLEAN,
         NEW next \in {"promote", "retry_draft", "qa_failed"}, At(r, "qa_evaluator"),
         Goto(r, [run[r] EXCEPT !.qa = run[r].qa + 1, !.draft = [run[r].draft EXCEPT !.judged = pass]],
              next, 3, "content"), StoresUnchanged,
         next = "promote" => pass, next = "retry_draft" => run[r].qa + 1 < QaMaxRetry
  PROVE  ComposerInv'
<1> DEFINE w == run[r]
           x == [w EXCEPT !.qa = w.qa + 1, !.draft = [w.draft EXCEPT !.judged = pass]]
<1>1. /\ w \in RunState /\ w.steps \in Nat /\ w.retry \in Nat /\ w.qa \in Nat
      /\ w.attempts \in Nat /\ PathOK(w) /\ DraftOK(w) /\ SkillOK(w, offers)
      /\ RoomForRetries => Budget(w)
      /\ w.pc = "qa_evaluator"
  BY AtNode DEF At
<1>2. offers' = offers /\ StoresOK(draftStore', resumeState', offers')
  BY StoresStay
<1>a. /\ w.draft \in Draft /\ [w.draft EXCEPT !.judged = pass] \in Draft
      /\ [w.draft EXCEPT !.judged = pass].report # "none"
      /\ [w.draft EXCEPT !.judged = pass].judged = pass
      /\ [w.draft EXCEPT !.judged = pass].skill = w.draft.skill
  BY <1>1 DEF DraftOK, DraftNodes, Draft
<1>3. /\ x \in RunState
      /\ x.user = w.user /\ x.round = w.round /\ x.sel = w.sel
      /\ x.intent = w.intent /\ x.prior = w.prior /\ x.offered = w.offered
      /\ x.draft = [w.draft EXCEPT !.judged = pass]
      /\ x.repeated = w.repeated /\ x.retry = w.retry /\ x.qa = w.qa + 1
      /\ x.attempts = w.attempts /\ x.tx = w.tx /\ x.steps = w.steps
  <2>1. \A m \in Nat, d \in Draft : LET z == [w EXCEPT !.qa = m, !.draft = d] IN
          /\ z \in RunState
          /\ z.user = w.user /\ z.round = w.round /\ z.sel = w.sel
          /\ z.intent = w.intent /\ z.prior = w.prior /\ z.offered = w.offered
          /\ z.draft = d /\ z.repeated = w.repeated /\ z.retry = w.retry
          /\ z.qa = m /\ z.attempts = w.attempts /\ z.tx = w.tx
          /\ z.steps = w.steps
    BY ZenonT(30), <1>1 DEF RunState
  <2>2. w.qa + 1 \in Nat
    BY <1>1
  <2> DEFINE m == w.qa + 1
             d == [w.draft EXCEPT !.judged = pass]
  <2>3. m \in Nat /\ d \in Draft
    BY <1>a, <2>2
  <2> HIDE DEF m, d
  <2>4. LET z == [w EXCEPT !.qa = m, !.draft = d] IN
          /\ z \in RunState
          /\ z.user = w.user /\ z.round = w.round /\ z.sel = w.sel
          /\ z.intent = w.intent /\ z.prior = w.prior /\ z.offered = w.offered
          /\ z.draft = d /\ z.repeated = w.repeated /\ z.retry = w.retry
          /\ z.qa = m /\ z.attempts = w.attempts /\ z.tx = w.tx
          /\ z.steps = w.steps
    BY ZenonT(30), <2>1, <2>3
  <2> QED BY <2>4 DEF m, d
<1>4. next \in Places /\ 3 \in Nat
      /\ "content" \in Said
  BY <1>1, <1>a DEF Places, NodeNames, Said
<1>5. ASSUME NEW y \in RunState, y.pc = next, y.steps = x.steps + 1, Same(y, x)
      PROVE  RunOK(y, offers)
  <2> HIDE DEF x, w
  <2>1. PathOK(y)
    BY <1>1, <1>3, <1>5, <1>a DEF PathOK, RoundOne, Saved, Same, w
  <2>2. DraftOK(y)
    BY <1>1, <1>3, <1>5, <1>a DEF DraftOK, DraftNodes, Behind, PathOK, Saved, Same, w, Checked
  <2>3. SkillOK(y, offers)
    BY <1>1, <1>3, <1>5, <1>a DEF SkillOK, Was, Same
  <2>4. RoomForRetries => Budget(y)
    BY <1>1, <1>3, <1>5, <1>a, ComposerAssumption DEF Budget, Rounds, RoomForRetries, PathOK, Same, w
  <2> QED BY <2>1, <2>2, <2>3, <2>4 DEF RunOK
<1>6. Fits(x, next, offers')
  BY <1>2, <1>5 DEF Fits
<1>7. Goto(r, x, next, 3, "content") /\ offers \subseteq offers'
  BY <1>2
<1> HIDE DEF x
<1> QED BY <1>2, <1>3, <1>4, <1>6, <1>7, NodeMoves

LEMMA Retried ==
  ASSUME ComposerInv, NEW r \in Runs, At(r, "retry_draft"),
         Goto(r, [run[r] EXCEPT !.retry = @ + 1],
              "draft_workflow", 1, "content"), StoresUnchanged
  PROVE  ComposerInv'
<1> DEFINE w == run[r]
           x == [w EXCEPT !.retry = @ + 1]
<1>1. /\ w \in RunState /\ w.steps \in Nat /\ w.retry \in Nat /\ w.qa \in Nat
      /\ w.attempts \in Nat /\ PathOK(w) /\ DraftOK(w) /\ SkillOK(w, offers)
      /\ RoomForRetries => Budget(w)
      /\ w.pc = "retry_draft"
  BY AtNode DEF At
<1>2. offers' = offers /\ StoresOK(draftStore', resumeState', offers')
  BY StoresStay
<1>3. /\ x \in RunState
      /\ x.user = w.user /\ x.round = w.round /\ x.sel = w.sel
      /\ x.intent = w.intent /\ x.prior = w.prior /\ x.offered = w.offered
      /\ x.draft = w.draft /\ x.repeated = w.repeated
      /\ x.retry = w.retry + 1 /\ x.qa = w.qa /\ x.attempts = w.attempts
      /\ x.tx = w.tx /\ x.steps = w.steps
  BY <1>1 DEF RunState
<1>4. "draft_workflow" \in Places /\ 1 \in Nat
      /\ "content" \in Said
  BY <1>1 DEF Places, NodeNames, Said
<1>5. ASSUME NEW y \in RunState, y.pc = "draft_workflow", y.steps = x.steps + 1, Same(y, x)
      PROVE  RunOK(y, offers)
  <2> HIDE DEF x, w
  <2>1. PathOK(y)
    BY <1>1, <1>3, <1>5 DEF PathOK, RoundOne, Saved, Same
  <2>2. DraftOK(y)
    BY <1>1, <1>3, <1>5 DEF DraftOK, DraftNodes, Behind, PathOK, Saved, Same
  <2>3. SkillOK(y, offers)
    BY <1>1, <1>3, <1>5 DEF SkillOK, Was, Same
  <2>4. RoomForRetries => Budget(y)
    BY <1>1, <1>3, <1>5, ComposerAssumption DEF Budget, Rounds, RoomForRetries, PathOK, Same
  <2> QED BY <2>1, <2>2, <2>3, <2>4 DEF RunOK
<1>6. Fits(x, "draft_workflow", offers')
  BY <1>2, <1>5 DEF Fits
<1>7. Goto(r, x, "draft_workflow", 1, "content") /\ offers \subseteq offers'
  BY <1>2
<1> HIDE DEF x
<1> QED BY <1>2, <1>3, <1>4, <1>6, <1>7, NodeMoves

LEMMA SavedPending ==
  ASSUME ComposerInv, NEW r \in Runs, At(r, "save_workflow"),
         Goto(r, [run[r] EXCEPT !.tx = "pending"],
              "explain", 1, "content"), StoresUnchanged
  PROVE  ComposerInv'
<1> DEFINE w == run[r]
           x == [w EXCEPT !.tx = "pending"]
<1>1. /\ w \in RunState /\ w.steps \in Nat /\ w.retry \in Nat /\ w.qa \in Nat
      /\ w.attempts \in Nat /\ PathOK(w) /\ DraftOK(w) /\ SkillOK(w, offers)
      /\ RoomForRetries => Budget(w)
      /\ w.pc = "save_workflow"
  BY AtNode DEF At
<1>2. offers' = offers /\ StoresOK(draftStore', resumeState', offers')
  BY StoresStay
<1>3. /\ x \in RunState
      /\ x.user = w.user /\ x.round = w.round /\ x.sel = w.sel
      /\ x.intent = w.intent /\ x.prior = w.prior /\ x.offered = w.offered
      /\ x.draft = w.draft /\ x.repeated = w.repeated /\ x.retry = w.retry
      /\ x.qa = w.qa /\ x.attempts = w.attempts /\ x.tx = "pending"
      /\ x.steps = w.steps
  BY <1>1 DEF RunState
<1>4. "explain" \in Places /\ 1 \in Nat
      /\ "content" \in Said
  BY <1>1 DEF Places, NodeNames, Said
<1>5. ASSUME NEW y \in RunState, y.pc = "explain", y.steps = x.steps + 1, Same(y, x)
      PROVE  RunOK(y, offers)
  <2> HIDE DEF x, w
  <2>1. PathOK(y)
    BY <1>1, <1>3, <1>5 DEF PathOK, RoundOne, Saved, Same
  <2>2. DraftOK(y)
    BY <1>1, <1>3, <1>5 DEF DraftOK, DraftNodes, Behind, PathOK, Saved, Same
  <2>3. SkillOK(y, offers)
    BY <1>1, <1>3, <1>5 DEF SkillOK, Was, Same
  <2>4. RoomForRetries => Budget(y)
    BY <1>1, <1>3, <1>5, ComposerAssumption DEF Budget, Rounds, RoomForRetries, PathOK, Same
  <2> QED BY <2>1, <2>2, <2>3, <2>4 DEF RunOK
<1>6. Fits(x, "explain", offers')
  BY <1>2, <1>5 DEF Fits
<1>7. Goto(r, x, "explain", 1, "content") /\ offers \subseteq offers'
  BY <1>2
<1> HIDE DEF x
<1> QED BY <1>2, <1>3, <1>4, <1>6, <1>7, NodeMoves

LEMMA Confirmed ==
  ASSUME ComposerInv, NEW r \in Runs, NEW tx \in {"committed", "none"}, NEW said \in Said,
         NEW next \in {"save_memory", "end"}, At(r, "confirm_result"),
         Goto(r, [run[r] EXCEPT !.tx = tx],
              next, 2, said), StoresUnchanged,
         next = "save_memory" => tx = "committed"
  PROVE  ComposerInv'
<1> DEFINE w == run[r]
           x == [w EXCEPT !.tx = tx]
<1>1. /\ w \in RunState /\ w.steps \in Nat /\ w.retry \in Nat /\ w.qa \in Nat
      /\ w.attempts \in Nat /\ PathOK(w) /\ DraftOK(w) /\ SkillOK(w, offers)
      /\ RoomForRetries => Budget(w)
      /\ w.pc = "confirm_result"
  BY AtNode DEF At
<1>2. offers' = offers /\ StoresOK(draftStore', resumeState', offers')
  BY StoresStay
<1>3. /\ x \in RunState
      /\ x.user = w.user /\ x.round = w.round /\ x.sel = w.sel
      /\ x.intent = w.intent /\ x.prior = w.prior /\ x.offered = w.offered
      /\ x.draft = w.draft /\ x.repeated = w.repeated /\ x.retry = w.retry
      /\ x.qa = w.qa /\ x.attempts = w.attempts /\ x.tx = tx
      /\ x.steps = w.steps
  BY <1>1 DEF RunState
<1>4. next \in Places /\ 2 \in Nat
      /\ said \in Said
  BY <1>1 DEF Places, NodeNames, Said
<1>5. ASSUME NEW y \in RunState, y.pc = next, y.steps = x.steps + 1, Same(y, x)
      PROVE  RunOK(y, offers)
  <2> HIDE DEF x, w
  <2>1. PathOK(y)
    BY <1>1, <1>3, <1>5 DEF PathOK, RoundOne, Saved, Same
  <2>2. DraftOK(y)
    BY <1>1, <1>3, <1>5 DEF DraftOK, DraftNodes, Behind, PathOK, Saved, Same
  <2>3. SkillOK(y, offers)
    BY <1>1, <1>3, <1>5 DEF SkillOK, Was, Same
  <2>4. RoomForRetries => Budget(y)
    BY <1>1, <1>3, <1>5, ComposerAssumption DEF Budget, Rounds, RoomForRetries, PathOK, Same
  <2> QED BY <2>1, <2>2, <2>3, <2>4 DEF RunOK
<1>6. Fits(x, next, offers')
  BY <1>2, <1>5 DEF Fits
<1>7. Goto(r, x, next, 2, said) /\ offers \subseteq offers'
  BY <1>2
<1> HIDE DEF x
<1> QED BY <1>2, <1>3, <1>4, <1>6, <1>7, NodeMoves

-----------------------------------------------------------------------------
LEMMA PreStepKeeps ==
  ASSUME ComposerInv, NEW r \in Runs, PreStep(r)
  PROVE  ComposerInv'
<1>1. CASE Compress(r)
  <2>1. run[r].pc = "compress" /\ StoresUnchanged /\ Goto(r, run[r], "security", 0, "content")
    BY <1>1 DEF Compress, At
  <2>2. "security" \in Places /\ "content" \in Said
    BY DEF Places, NodeNames, Said
  <2> QED BY <2>1, <2>2, StoresStay, HandsOn
<1>2. CASE StoresUnchanged /\ Fail(r)
  <2>1. Goto(r, run[r], "end", 1, "error") /\ "end" \in Places /\ "error" \in Said
    BY <1>2 DEF Fail, Places, Said
  <2> QED BY <1>2, <2>1, StoresStay, HandsOn
<1>3. CASE Security(r) /\ ~Fail(r)
  <2>1. run[r].pc = "security" /\ StoresUnchanged /\ Goto(r, run[r], "intent", 1, "content")
    BY <1>3 DEF Security, At
  <2>2. "intent" \in Places /\ "content" \in Said
    BY DEF Places, NodeNames, Said
  <2> QED BY <2>1, <2>2, StoresStay, HandsOn
<1>4. CASE Intent(r) /\ ~Fail(r)
  <2>1. PICK message \in {"compose", "other"}, prior \in Loaded :
          LET kind == Classify(message, prior) IN
          Goto(r, [run[r] EXCEPT !.intent = kind, !.prior = prior],
               IF kind = "other" THEN "end" ELSE "search_nodes", 2, "content")
    BY <1>4 DEF Intent
  <2> DEFINE kind == Classify(message, prior)
             next == IF kind = "other" THEN "end" ELSE "search_nodes"
  <2>2. /\ kind \in {"other", "refine", "draft"} /\ (kind = "refine" => prior # NoDraft)
        /\ next \in {"end", "search_nodes"}
    BY DEF Classify
  <2>3. /\ Goto(r, [run[r] EXCEPT !.intent = kind, !.prior = prior], next, 2, "content")
        /\ At(r, "intent") /\ StoresUnchanged
    BY <1>4, <2>1 DEF Intent
  <2> HIDE DEF kind, next
  <2> QED BY <2>2, <2>3, IntentClassifies
<1>5. CASE SearchNodes(r) /\ ~Fail(r)
  <2>1. /\ run[r].pc = "search_nodes" /\ StoresUnchanged
        /\ Goto(r, run[r], "suggest_skill_select", 3, "content")
    BY <1>5 DEF SearchNodes, At
  <2>2. "suggest_skill_select" \in Places /\ "content" \in Said
    BY DEF Places, NodeNames, Said
  <2> QED BY <2>1, <2>2, StoresStay, HandsOn
<1>6. CASE /\ At(r, "suggest_skill_select") /\ StoresUnchanged
           /\ Goto(r, run[r], IF run[r].intent = "refine" THEN "refine_plan"
                                                        ELSE "draft_workflow", 0, "content")
  <2> DEFINE next == IF run[r].intent = "refine" THEN "refine_plan" ELSE "draft_workflow"
  <2>1. /\ next \in {"refine_plan", "draft_workflow"}
        /\ next = "refine_plan" <=> run[r].intent = "refine"
    OBVIOUS
  <2>2. Goto(r, run[r], next, 0, "content")
    BY <1>6
  <2> HIDE DEF next
  <2> QED BY <1>6, <2>1, <2>2, SuggestGoesOn
<1>7. ASSUME NEW options \in OptionSets,
             resumeState' = [user |-> run[r].user, offered |-> options],
             offers' = offers \cup {<<run[r].user, s>> : s \in options},
             Goto(r, run[r], "end", 2, "options"), UNCHANGED draftStore
      PROVE  ComposerInv'
  <2>1. run[r].user \in Users /\ options \subseteq Skills
    BY ComposerAssumption DEF ComposerInv, RunState
  <2>2. offers \subseteq offers' /\ offers' \subseteq Users \X Skills
    BY <1>7, <2>1 DEF ComposerInv, StoresOK
  <2>3. draftStore' # NoDraft => Was(draftStore'.skill, offers')
    BY <1>7, <2>2 DEF ComposerInv, StoresOK, Was
  <2>4. /\ resumeState' \in [user : Users, offered : SUBSET Skills]
        /\ \A s \in resumeState'.offered : <<resumeState'.user, s>> \in offers'
    BY <1>7, <2>1
  <2>5. StoresOK(draftStore', resumeState', offers')
    BY <1>7, <2>2, <2>3, <2>4 DEF ComposerInv, StoresOK
  <2>6. "end" \in Places /\ "options" \in Said
    BY DEF Places, Said
  <2> QED BY <1>7, <2>2, <2>5, <2>6, HandsOn
<1>8. CASE Resume(r)
  <2>1. At(r, "resume") /\ StoresUnchanged
    BY <1>8 DEF Resume
  <2>2. CASE Goto(r, run[r], "end", 1, "error")
    BY <1>2, <2>1, <2>2 DEF Fail
  <2>3. CASE /\ Resumable(run[r].user)
             /\ Goto(r, [run[r] EXCEPT !.intent = "draft", !.offered = resumeState.offered],
                     "draft_workflow", 1, "content")
    BY <2>1, <2>3, ResumeFound
  <2> QED BY <1>8, <2>2, <2>3 DEF Resume
<1> QED BY <1>1, <1>2, <1>3, <1>4, <1>5, <1>6, <1>7, <1>8
        DEF PreStep, Security, Intent, SearchNodes, SuggestSkillSelect

LEMMA DraftStepKeeps ==
  ASSUME ComposerInv, NEW r \in Runs, DraftStep(r)
  PROVE  ComposerInv'
<1>1. CASE StoresUnchanged /\ Fail(r)
  <2>1. Goto(r, run[r], "end", 1, "error") /\ "end" \in Places /\ "error" \in Said
    BY <1>1 DEF Fail, Places, Said
  <2> QED BY <1>1, <2>1, StoresStay, HandsOn
<1>2. CASE DraftWorkflow(r) /\ ~Fail(r)
  <2>1. PICK same \in BOOLEAN :
          Goto(r, [run[r] EXCEPT !.draft = NewDraft("fresh", NoSkill), !.repeated = same],
               "bind_skill", 5, "content")
    BY <1>2 DEF DraftWorkflow
  <2> QED BY <1>2, <2>1, Drafted DEF DraftWorkflow
<1>3. CASE BindSkill(r)
  <2>1. PICK skill \in {NoSkill} \cup {s \in {run[r].sel} : Bindable(run[r])} :
          Goto(r, [run[r] EXCEPT !.draft.skill = skill], "validate_workflow", 1, "content")
    BY <1>3 DEF BindSkill
  <2>2. skill \in Sel /\ (skill # NoSkill => skill \in run[r].offered)
    BY AtNode DEF Bindable, Sel, RunState
  <2> QED BY <1>3, <2>1, <2>2, Bound DEF BindSkill
<1>4. CASE RefinePlan(r)
  <2> DEFINE x == [run[r] EXCEPT !.attempts = @ + 1]
  <2>1. x.attempts = run[r].attempts + 1
    BY AtNode DEF RunState
  <2>2. /\ At(r, "refine_plan") /\ StoresUnchanged
        /\ \/ Goto(r, x, "refine_apply", 2, "content")
           \/ run[r].attempts + 1 < PlanMaxAttempts /\ Goto(r, x, "refine_plan", 0, "content")
    BY <1>4, <2>1 DEF RefinePlan
  <2> QED BY <2>2, Planned
<1>5. CASE RefineApply(r) /\ ~Fail(r)
  <2>1. PICK skill \in {run[r].prior, NoSkill} :
          Goto(r, [run[r] EXCEPT !.draft = NewDraft("edit", skill)],
               "validate_workflow", 4, "content")
    BY <1>5 DEF RefineApply
  <2> QED BY <1>5, <2>1, Applied DEF RefineApply
<1>6. CASE ValidateWorkflow(r)
  <2>1. At(r, "validate_workflow") /\ StoresUnchanged
    BY <1>6 DEF ValidateWorkflow
  <2>2. CASE Goto(r, run[r], AfterRejected(run[r]), 0, "content")
    BY <2>1, <2>2, Rejected
  <2>3. ASSUME NEW answer \in Answers,
               Goto(r, [run[r] EXCEPT !.draft.report = answer],
                    IF run[r].intent = "refine" THEN "promote" ELSE "qa_evaluator",
                    2, "content")
        PROVE  ComposerInv'
    <3> DEFINE next == IF run[r].intent = "refine" THEN "promote" ELSE "qa_evaluator"
    <3>1. /\ next \in {"promote", "qa_evaluator"}
          /\ next = "promote" <=> run[r].intent = "refine"
      OBVIOUS
    <3>2. Goto(r, [run[r] EXCEPT !.draft.report = answer], next, 2, "content")
      BY <2>3
    <3> HIDE DEF next
    <3> QED BY <2>1, <3>1, <3>2, Validated
  <2> QED BY <1>6, <2>2, <2>3 DEF ValidateWorkflow
<1>7. CASE QaEvaluator(r) /\ ~Fail(r)
  <2> DEFINE x == [run[r] EXCEPT !.qa = @ + 1]
  <2>1. PICK pass \in BOOLEAN :
          Goto(r, [x EXCEPT !.draft.judged = pass], AfterJudged(x, pass), 3, "content")
    BY <1>7 DEF QaEvaluator
  <2> DEFINE next == AfterJudged(x, pass)
  <2>2. /\ x.qa = run[r].qa + 1
        /\ [x EXCEPT !.draft.judged = pass] =
             [run[r] EXCEPT !.qa = run[r].qa + 1,
                            !.draft = [run[r].draft EXCEPT !.judged = pass]]
    BY AtNode DEF RunState
  <2>3. /\ next \in {"promote", "retry_draft", "qa_failed"} /\ (next = "promote" => pass)
        /\ next = "retry_draft" => run[r].qa + 1 < QaMaxRetry
    BY <2>2 DEF AfterJudged
  <2>4. /\ Goto(r, [run[r] EXCEPT !.qa = run[r].qa + 1,
                        !.draft = [run[r].draft EXCEPT !.judged = pass]], next, 3, "content")
        /\ At(r, "qa_evaluator") /\ StoresUnchanged
    BY <1>7, <2>1, <2>2 DEF QaEvaluator
  <2> HIDE DEF next
  <2> QED BY <2>3, <2>4, Judged
<1>8. CASE RetryDraft(r)
  BY <1>8, Retried DEF RetryDraft
<1>9. CASE GiveUp(r)
  BY <1>1, <1>9 DEF GiveUp, Fail
<1> QED BY <1>1, <1>2, <1>3, <1>4, <1>5, <1>6, <1>7, <1>8, <1>9
        DEF DraftStep, DraftWorkflow, RefineApply, QaEvaluator

LEMMA SaveStepKeeps ==
  ASSUME ComposerInv, NEW r \in Runs, SaveStep(r)
  PROVE  ComposerInv'
<1> USE DEF Said
<1>0. /\ "end" \in Places /\ "save_workflow" \in Places /\ "confirm_result" \in Places
      /\ "content" \in Said /\ "error" \in Said /\ "result" \in Said
  BY DEF Places, NodeNames
<1>1. CASE StoresUnchanged /\ Fail(r)
  BY <1>0, <1>1, StoresStay, HandsOn DEF Fail
<1>2. CASE Promote(r)
  <2>1. /\ run[r].pc = "promote" /\ draftStore' \in {draftStore, run[r].draft}
        /\ resumeState' = resumeState /\ offers' = offers
        /\ Goto(r, run[r], "save_workflow", 1, "content")
    BY <1>2 DEF Promote, At
  <2>2. /\ run[r].draft \in Draft /\ Checked(run[r].draft)
        /\ Was(run[r].draft.skill, offers)
    BY <2>1, AtNode DEF DraftOK, DraftNodes, Behind, SkillOK
  <2>3. StoresOK(draftStore', resumeState', offers')
    BY <2>1, <2>2 DEF ComposerInv, StoresOK
  <2> QED BY <1>0, <2>1, <2>3, HandsOn
<1>3. CASE SaveWorkflow(r) /\ ~Fail(r)
  BY <1>3, SavedPending DEF SaveWorkflow
<1>4. CASE Explain(r)
  <2>1. /\ run[r].pc = "explain" /\ StoresUnchanged
        /\ Goto(r, run[r], "confirm_result", 1, "content")
    BY <1>4 DEF Explain, At
  <2> QED BY <1>0, <2>1, StoresStay, HandsOn
<1>5. CASE ConfirmResult(r)
  <2>1. At(r, "confirm_result") /\ StoresUnchanged
    BY <1>5 DEF ConfirmResult
  <2>2. CASE Goto(r, [run[r] EXCEPT !.tx = "committed"], "save_memory", 2, "result")
    BY <2>1, <2>2, Confirmed
  <2>3. CASE Goto(r, [run[r] EXCEPT !.tx = "none"], "end", 2, "error")
    BY <2>1, <2>3, Confirmed
  <2> QED BY <1>5, <2>2, <2>3 DEF ConfirmResult
<1>6. CASE SaveMemory(r)
  <2>1. /\ resumeState' \in {resumeState, NoState} /\ draftStore' = draftStore
        /\ offers' = offers /\ Goto(r, run[r], "end", 0, "content")
    BY <1>6 DEF SaveMemory
  <2>2. StoresOK(draftStore', resumeState', offers')
    BY <2>1 DEF ComposerInv, StoresOK
  <2> QED BY <1>0, <2>1, <2>2, HandsOn
<1> QED BY <1>1, <1>2, <1>3, <1>4, <1>5, <1>6 DEF SaveStep, SaveWorkflow

(* The end of a run keeps of it what it has committed.                     *)
LEMMA ClosedFits ==
  ASSUME ComposerInv, NEW r \in Runs, NEW tx \in {"none", "pending", "committed"},
         tx = "committed" => run[r].tx # "none"
  PROVE  Closed(run[r], tx) \in RunState /\ RunOK(Closed(run[r], tx), offers)
<1> DEFINE u == CHOOSE u \in Users : TRUE
           nobody == Request(u, 1, NoSkill)
           w == run[r]
<1>1. u \in Users /\ NoSkill \in Sel
  BY ComposerAssumption DEF Sel
<1>2. nobody \in RunState /\ RunOK(nobody, offers)
  BY <1>1, RequestFits
<1>3. /\ nobody.round = 1 /\ nobody.intent = "none" /\ nobody.prior = NoDraft
      /\ nobody.offered = {} /\ nobody.draft = NoDraft /\ nobody.tx = "none"
  BY DEF Request
<1>4. /\ w \in RunState /\ PathOK(w) /\ DraftOK(w) /\ SkillOK(w, offers)
  BY AtNode
<1> HIDE DEF nobody, u
<1>5. NoDraft \notin Sel
  BY ComposerAssumption DEF Sel
<1>6. CASE tx # "committed"
  <2> DEFINE y == [nobody EXCEPT !.pc = "idle"]
  <2>1. Closed(w, tx) = y
    BY <1>6 DEF Closed, Over, nobody, u
  <2>2. /\ y \in RunState /\ y.pc = "idle" /\ y.round = 1 /\ y.intent = "none"
        /\ y.prior = NoDraft /\ y.offered = {} /\ y.draft = NoDraft /\ y.tx = "none"
    BY <1>2, <1>3 DEF RunState
  <2> HIDE DEF y
  <2>3. RunOK(y, offers)
    BY <2>2, <1>5, DraftAssumption
       DEF RunOK, PathOK, DraftOK, SkillOK, Budget, RoundOne, Saved, DraftNodes, Behind
  <2> QED BY <2>1, <2>2, <2>3
<1>7. CASE tx = "committed"
  <2> DEFINE a == [nobody EXCEPT !.pc = "closed"]
             y == [a EXCEPT !.tx = tx, !.user = w.user, !.round = w.round, !.draft = w.draft]
  <2>1. Closed(w, tx) = y
    BY <1>7 DEF Closed, Over, nobody, u
  <2>2. /\ a \in RunState /\ a.pc = "closed" /\ a.intent = "none"
        /\ a.prior = NoDraft /\ a.offered = {}
    BY <1>2, <1>3 DEF RunState
  <2>3. /\ w.user \in Users /\ w.round \in {1, 2} /\ w.draft \in Draft /\ Checked(w.draft)
    BY <1>4, <1>7 DEF DraftOK, RunState
  <2> HIDE DEF a
  <2>4. /\ y \in RunState /\ y.pc = "closed" /\ y.round = w.round /\ y.user = w.user
        /\ y.intent = "none" /\ y.prior = NoDraft /\ y.offered = {}
        /\ y.draft = w.draft /\ y.tx = "committed"
    BY <1>7, <2>2, <2>3 DEF RunState
  <2> HIDE DEF y
  <2>5. SkillOK(y, offers)
    BY <1>4, <1>5, <2>3, <2>4 DEF SkillOK
  <2>6. PathOK(y) /\ DraftOK(y) /\ Budget(y)
    BY <2>3, <2>4 DEF PathOK, DraftOK, Budget, RoundOne, Saved, DraftNodes, Behind
  <2> QED BY <2>1, <2>4, <2>5, <2>6 DEF RunOK
<1> QED BY <1>6, <1>7

LEMMA RunEnds ==
  ASSUME ComposerInv, NEW r \in Runs, Finish(r) \/ Die(r)
  PROVE  ComposerInv'
<1>1. PICK tx \in {"none", "pending", "committed"} :
        /\ run' = [run EXCEPT ![r] = Closed(run[r], tx)]
        /\ tx = "committed" => run[r].tx # "none"
  <2>1. run[r].tx \in {"none", "pending", "committed"}
    BY AtNode DEF RunState
  <2>2. run' = [run EXCEPT ![r] = Closed(@, IF @.tx = "pending" THEN "committed" ELSE @.tx)]
        \/ run' = [run EXCEPT ![r] = Closed(@, IF @.tx = "pending" THEN "none" ELSE @.tx)]
    BY DEF Finish, Die
  <2> QED BY <2>1, <2>2
<1>2. StoresUnchanged
  BY DEF Finish, Die
<1> QED BY <1>1, <1>2, ClosedFits, StoresStay, RunReplaced

LEMMA StartKeeps ==
  ASSUME ComposerInv, NEW r \in Runs, NEW user \in Users, NEW round \in {1, 2},
         NEW sel \in Sel, Start(r, user, round, sel)
  PROVE  ComposerInv'
<1>1. StoresUnchanged /\ run' = [run EXCEPT ![r] = Request(user, round, sel)]
  BY DEF Start, StoresUnchanged
<1>2. offers' = offers
  BY <1>1, StoresStay
<1> QED BY <1>1, <1>2, RequestFits, StoresStay, RunReplaced

LEMMA ComposerInitially == ComposerInit => ComposerInv
<1> SUFFICES ASSUME ComposerInit PROVE ComposerInv
  OBVIOUS
<1> DEFINE u == CHOOSE u \in Users : TRUE
           nobody == Request(u, 1, NoSkill)
           y == [nobody EXCEPT !.pc = "idle"]
<1>1. u \in Users /\ NoSkill \in Sel /\ NoDraft \notin Sel
  BY ComposerAssumption DEF Sel
<1>2. nobody \in RunState
  BY <1>1, RequestFits
<1>3. /\ nobody.round = 1 /\ nobody.intent = "none" /\ nobody.prior = NoDraft
      /\ nobody.offered = {} /\ nobody.draft = NoDraft /\ nobody.tx = "none"
  BY DEF Request
<1>4. Over("idle") = y
  BY DEF Over
<1> HIDE DEF nobody
<1>5. /\ y \in RunState /\ y.pc = "idle" /\ y.round = 1 /\ y.intent = "none"
      /\ y.prior = NoDraft /\ y.offered = {} /\ y.draft = NoDraft /\ y.tx = "none"
  BY <1>2, <1>3 DEF RunState
<1> HIDE DEF y
<1>6. RunOK(y, {})
  BY <1>1, <1>5, DraftAssumption
     DEF RunOK, PathOK, DraftOK, SkillOK, Budget, RoundOne, Saved, DraftNodes, Behind
<1>7. run = [r \in Runs |-> y] /\ draftStore = NoDraft /\ resumeState = NoState /\ offers = {}
  BY <1>4 DEF ComposerInit
<1>8. StoresOK(draftStore, resumeState, offers)
  BY <1>7 DEF StoresOK
<1>9. run \in [Runs -> RunState] /\ \A r \in Runs : RunOK(run[r], offers)
  BY <1>5, <1>6, <1>7
<1> QED BY <1>8, <1>9 DEF ComposerInv

-----------------------------------------------------------------------------
(* The inductive invariant holds in every reachable state.                 *)
LEMMA ComposerInductive ==
  ComposerInv /\ [ComposerNext]_composerVars => ComposerInv'
<1>1. ASSUME ComposerInv, ComposerNext PROVE ComposerInv'
  <2>1. PICK r \in Runs :
          \/ \E u \in Users, n \in {1, 2}, s \in Sel : Start(r, u, n, s)
          \/ NodeStep(r) \/ Finish(r) \/ Die(r)
    BY <1>1 DEF ComposerNext
  <2> QED BY <1>1, <2>1, StartKeeps, PreStepKeeps, DraftStepKeeps, SaveStepKeeps, RunEnds
          DEF NodeStep
<1>2. ComposerInv /\ UNCHANGED composerVars => ComposerInv'
  BY DEF ComposerInv, composerVars
<1> QED BY <1>1, <1>2

THEOREM ComposerInvariant == ComposerSpec => []ComposerInv
BY ComposerInitially, ComposerInductive, PTL DEF ComposerSpec

(* Whatever the runs of a session do to each other's draft and resume      *)
(* state, only a draft that was validated, and judged if new, is kept.     *)
THEOREM OnlyCheckedEverSaved == ComposerSpec => []OnlyCheckedSaved
<1>1. ComposerInv => OnlyCheckedSaved
  BY DEF ComposerInv, RunOK, DraftOK, StoresOK, OnlyCheckedSaved, Committed
<1> QED BY <1>1, ComposerInvariant, PTL

(* A bound skill was offered in this session, in round 2 to this user.     *)
THEOREM BoundSkillAlwaysOffered == ComposerSpec => []BoundSkillWasOffered
<1>1. ComposerInv => BoundSkillWasOffered
  <2> SUFFICES ASSUME ComposerInv PROVE BoundSkillWasOffered
    OBVIOUS
  <2>1. \A skill : Was(skill, offers) => Offered(skill)
    BY DEF Was, Offered
  <2>2. draftStore # NoDraft => Offered(draftStore.skill)
    BY <2>1 DEF ComposerInv, StoresOK
  <2>3. ASSUME NEW r \in Committed
        PROVE  /\ Offered(run[r].draft.skill)
               /\ run[r].round = 2 /\ run[r].draft.skill # NoSkill =>
                    <<run[r].user, run[r].draft.skill>> \in offers
    BY <2>1 DEF ComposerInv, RunOK, DraftOK, SkillOK, Committed
  <2> QED BY <2>2, <2>3 DEF BoundSkillWasOffered
<1> QED BY <1>1, ComposerInvariant, PTL

(* If the superstep limit leaves room for the retries (with QaMaxRetry = 3 *)
(* and PlanMaxAttempts = 2, 39 would do, the code has 40), no run meets it.*)
THEOREM RecursionLimitNeverHit ==
  ASSUME RoomForRetries PROVE ComposerSpec => []NeverHitsRecursionLimit
<1>1. ComposerInv => NeverHitsRecursionLimit
  <2> SUFFICES ASSUME ComposerInv PROVE NeverHitsRecursionLimit
    OBVIOUS
  <2>1. ASSUME NEW r \in Runs, run[r].pc \in NodeNames
        PROVE  run[r].steps < RecursionLimit
    <3> DEFINE x == run[r]
    <3>1. /\ x.steps \in Nat /\ x.retry \in Nat /\ x.qa \in Nat /\ x.attempts \in Nat
          /\ Budget(x) /\ x.pc \in NodeNames
      BY <2>1, AtNode
    <3>2. /\ QaMaxRetry \in Nat /\ PlanMaxAttempts \in Nat /\ RecursionLimit \in Nat
      BY ComposerAssumption
    <3> SUFFICES x.steps < RecursionLimit
      OBVIOUS
    <3> HIDE DEF x
    <3>3. \A n \in 0 .. 4 : Rounds(x, n) => x.steps < RecursionLimit
      BY <3>1, <3>2 DEF Rounds, RoomForRetries
    <3>4. x.attempts <= PlanMaxAttempts /\ x.steps <= 5 + 3 * x.attempts
            => x.steps < RecursionLimit
      BY <3>1, <3>2 DEF RoomForRetries
    <3>5. CASE x.pc \in {"draft_workflow", "bind_skill", "qa_evaluator", "retry_draft"}
      BY <3>1, <3>3, <3>5 DEF Budget
    <3>6. CASE x.pc = "validate_workflow" /\ x.intent # "refine"
      BY <3>1, <3>3, <3>6 DEF Budget
    <3>7. CASE x.pc \in {"refine_plan", "refine_apply"}
                 \/ (x.pc = "validate_workflow" /\ x.intent = "refine")
      BY <3>1, <3>2, <3>4, <3>7 DEF Budget
    <3>8. CASE x.pc \in {"compress", "security", "intent", "search_nodes",
                         "suggest_skill_select", "resume"}
      BY <3>1, <3>2, <3>8 DEF Budget, RoomForRetries
    <3>9. CASE x.pc \in {"validation_failed", "qa_failed"} \cup Behind
      BY <3>1, <3>2, <3>9 DEF Budget, Behind
    <3> QED BY <3>1, <3>5, <3>6, <3>7, <3>8, <3>9 DEF NodeNames, Behind
  <2>2. ASSUME NEW r \in Runs PROVE ~OutOfSteps(r)
    <3>1. run[r].steps \in Nat
      BY AtNode
    <3> QED BY <2>1, <3>1, ComposerAssumption DEF OutOfSteps
  <2> QED BY <2>2 DEF NeverHitsRecursionLimit
<1> QED BY <1>1, ComposerInvariant, PTL

(* Only a second round that has committed its workflow clears the offer.   *)
THEOREM AlwaysResumableUntilCommitted == ComposerSpec => ResumableUntilCommitted
<1>1. ComposerInv /\ [ComposerNext]_composerVars =>
        [resumeState # NoState /\ resumeState' = NoState =>
           \E r \in Committed : run[r].round = 2]_composerVars
  <2> SUFFICES ASSUME ComposerInv, ComposerNext, resumeState # NoState,
                      resumeState' = NoState
               PROVE  \E r \in Committed : run[r].round = 2
    OBVIOUS
  <2>1. PICK r \in Runs :
          \/ \E u \in Users, n \in {1, 2}, s \in Sel : Start(r, u, n, s)
          \/ NodeStep(r) \/ Finish(r) \/ Die(r)
    BY DEF ComposerNext
  <2>2. ~\E options \in OptionSets : resumeState' = [user |-> run[r].user, offered |-> options]
    BY ComposerAssumption, AtNode DEF RunState
  <2>3. SaveMemory(r)
    BY <2>1, <2>2 DEF Start, NodeStep, PreStep, DraftStep, SaveStep, Finish, Die,
       StoresUnchanged, Compress, Security, Intent, SearchNodes, SuggestSkillSelect, Resume,
       DraftWorkflow, BindSkill, RefinePlan, RefineApply, ValidateWorkflow, QaEvaluator,
       RetryDraft, GiveUp, Promote, SaveWorkflow, Explain, ConfirmResult
  <2>4. run[r].round = 2 /\ run[r].pc = "save_memory"
    BY <2>3 DEF SaveMemory, At
  <2>5. run[r].tx = "committed"
    BY <2>4, AtNode DEF PathOK
  <2> QED BY <2>4, <2>5 DEF Committed
<1> QED BY <1>1, ComposerInvariant, PTL DEF ComposerSpec, ResumableUntilCommitted

-----------------------------------------------------------------------------
(* The chat turns, with the composer inside them.                          *)

(* What a plan may still hold: the end of a recipe.                        *)
Plans == {<<>>, <<"skills", "composer">>} \cup {<<target>> : target \in RouteTarget}

TurnStates ==
  [pc : {"idle", "intent", "route", "relay", "recover", "after", "done", "gone"},
   round : {1, 2}, recipe : DOMAIN RECIPES \cup {"none", "resume"},
   steps : Plans, skillId : Skills \cup {NoSkill},
   hops : Nat, retry : Nat, reviewed : BOOLEAN, count : Nat,
   code : Codes, held : BOOLEAN, relayed : BOOLEAN,
   shown : SUBSET {"reply", "error", "options", "result"}]

(* Two hops to relay, each with its retries, and one review: MAX_HOPS = 8  *)
(* leaves room for MAX_RETRIES = 1.                                        *)
RoomForHops == MaxHops >= 3 * (MaxRetries + 1) /\ MaxRetries \in Nat /\ MaxHops \in Nat

(* Hops taken, n of them since the last retry was granted.                 *)
HopsBound(x, n) ==
  /\ x.steps = <<"skills", "composer">> => ~x.reviewed /\ x.hops <= x.retry + n
  /\ x.steps # <<>> /\ x.steps # <<"skills", "composer">> =>
       x.hops <= (IF x.reviewed THEN 2 ELSE 1) * (MaxRetries + 1) + x.retry + n

HopsOK(x) ==
  /\ x.pc = "intent" => x.hops = 0 /\ x.retry = 0 /\ ~x.reviewed
  /\ x.pc \in {"route", "relay", "recover"} => x.retry <= MaxRetries
  /\ x.pc = "route" => HopsBound(x, 0)
  /\ x.pc \in {"relay", "recover"} => HopsBound(x, 1)

(* An error that is not held back has been shown.                          *)
ErrorsOK(x) ==
  /\ x.pc = "recover" /\ ~x.held => "error" \in x.shown
  /\ x.pc = "after" /\ x.steps # <<>> => "error" \in x.shown

(* A hop under way has its step still in the plan.                         *)
OnItsWay(x) == x.pc \in {"relay", "recover"} => x.steps # <<>>

TurnOK(x) == OnItsWay(x) /\ (RoomForHops => HopsOK(x) /\ ErrorsOK(x))

TurnsInv == turn \in [Turns -> TurnStates] /\ \A t \in Turns : TurnOK(turn[t])

LEMMA PlanFacts ==
  /\ <<>> \in Plans /\ \A a \in RouteTarget : <<a>> \in Plans /\ <<a>> # <<>>
  /\ <<"skills", "composer">> \in Plans /\ <<"skills", "composer">> # <<>>
  /\ \A p \in Plans : p # <<>> =>
       /\ Head(p) \in RouteTarget /\ Tail(p) \in Plans
       /\ p = <<"skills", "composer">> => Head(p) = "skills" /\ Tail(p) = <<"composer">>
       /\ p # <<"skills", "composer">> => p = <<Head(p)>> /\ Tail(p) = <<>>
  /\ \A a \in RouteTarget : <<a>> # <<"skills", "composer">>
<1>1. \A a : Head(<<a>>) = a /\ Tail(<<a>>) = <<>> /\ <<a>> # <<>>
  OBVIOUS
<1>2. \A a, b : Head(<<a, b>>) = a /\ Tail(<<a, b>>) = <<b>> /\ <<a, b>> # <<>>
  OBVIOUS
<1>3. \A a, b, c : <<a>> # <<b, c>>
  OBVIOUS
<1>4. "composer" \in RouteTarget /\ "skills" \in RouteTarget
  BY DEF RouteTarget
<1> QED BY <1>1, <1>2, <1>3, <1>4 DEF Plans

LEMMA RecipePlans == \A key \in DOMAIN RECIPES : RECIPES[key] \in Plans \ {<<>>}
BY DEF RECIPES, Plans, RouteTarget

LEMMA FreshFits ==
  ASSUME NEW round \in {1, 2}, NEW skillId \in Skills \cup {NoSkill}
  PROVE  /\ FreshTurn(round, skillId) \in TurnStates
         /\ TurnOK(FreshTurn(round, skillId))
BY PlanFacts DEF FreshTurn, TurnStates, Codes, TurnOK, OnItsWay, HopsOK, ErrorsOK

LEMMA TurnMoves ==
  ASSUME TurnsInv, NEW t \in Turns, NEW x \in TurnStates, TurnOK(x), Become(t, x)
  PROVE  TurnsInv'
<1>1. turn' \in [Turns -> TurnStates]
        /\ \A u \in Turns : turn'[u] = IF u = t THEN x ELSE turn[u]
  BY DEF TurnsInv, Become
<1> QED BY <1>1 DEF TurnsInv
(* What is known of a turn.                                                *)
LEMMA AtTurn ==
  ASSUME TurnsInv, NEW t \in Turns
  PROVE  /\ turn[t] \in TurnStates /\ TurnOK(turn[t])
         /\ turn[t].hops \in Nat /\ turn[t].retry \in Nat /\ turn[t].count \in Nat
         /\ turn[t].steps \in Plans
BY DEF TurnsInv, TurnStates

LEMMA BeginTurnKeeps ==
  ASSUME TurnsInv, NEW t \in Turns, NEW round \in {1, 2}, NEW skillId \in Skills \cup {NoSkill},
         BeginTurn(t, round, skillId)
  PROVE  TurnsInv'
<1> DEFINE f == FreshTurn(round, skillId)
           resumed == [f EXCEPT !.pc = "route", !.recipe = "resume", !.steps = <<"composer">>]
           asked == [f EXCEPT !.pc = "intent"]
<1>1. /\ f \in TurnStates /\ f.hops = 0 /\ f.retry = 0 /\ ~f.reviewed /\ f.steps = <<>>
  BY FreshFits DEF FreshTurn
<1>2. <<"composer">> \in Plans /\ <<"composer">> # <<"skills", "composer">>
  BY PlanFacts DEF RouteTarget
<1> HIDE DEF f
<1>3. /\ resumed \in TurnStates /\ resumed.pc = "route" /\ resumed.steps = <<"composer">>
      /\ resumed.hops = 0 /\ resumed.retry = 0 /\ ~resumed.reviewed
  BY <1>1, <1>2 DEF TurnStates
<1>4. /\ asked \in TurnStates /\ asked.pc = "intent" /\ asked.steps = <<>>
      /\ asked.hops = 0 /\ asked.retry = 0 /\ ~asked.reviewed
  BY <1>1 DEF TurnStates
<1>5. Become(t, resumed) \/ Become(t, asked)
  BY DEF BeginTurn, f
<1> HIDE DEF resumed, asked
<1>6. TurnOK(resumed)
  BY <1>2, <1>3 DEF TurnOK, OnItsWay, RoomForHops, HopsOK, HopsBound, ErrorsOK
<1>7. TurnOK(asked)
  BY <1>4 DEF TurnOK, OnItsWay, HopsOK, ErrorsOK
<1> QED BY <1>3, <1>4, <1>5, <1>6, <1>7, TurnMoves

LEMMA IntentNodeKeeps ==
  ASSUME TurnsInv, NEW t \in Turns, IntentNode(t)
  PROVE  TurnsInv'
<1> DEFINE w == turn[t]
<1>1. PICK key \in DOMAIN RECIPES :
        Become(t, [w EXCEPT !.pc = "route", !.recipe = key, !.steps = RECIPES[key]])
  BY DEF IntentNode
<1> DEFINE x == [w EXCEPT !.pc = "route", !.recipe = key, !.steps = RECIPES[key]]
<1>2. w \in TurnStates /\ TurnOK(w) /\ w.pc = "intent" /\ RECIPES[key] \in Plans
  BY AtTurn, RecipePlans DEF IntentNode
<1>3. /\ x \in TurnStates /\ x.pc = "route" /\ x.hops = w.hops /\ x.retry = w.retry
      /\ x.reviewed = w.reviewed
  BY <1>2 DEF TurnStates
<1> HIDE DEF x, w
<1>4. TurnOK(x)
  BY <1>2, <1>3 DEF TurnOK, OnItsWay, RoomForHops, HopsOK, HopsBound, ErrorsOK
<1>5. Become(t, x)
  BY <1>1 DEF x
<1> QED BY <1>3, <1>4, <1>5, TurnMoves

(* A hop that takes its step from the plan.                                *)
LEMMA AdvancedFits ==
  ASSUME NEW w \in TurnStates, w.pc \in {"route", "relay"}, w.steps # <<>>, TurnOK(w),
         w.steps = <<"skills", "composer">> => w.pc = "relay",
         NEW x \in TurnStates, x.pc = "route", x.steps = Tail(w.steps),
         x.retry = 0, x.reviewed = w.reviewed,
         w.pc = "relay" => x.hops = w.hops
  PROVE  TurnOK(x)
<1>1. CASE x.steps = <<>>
  BY <1>1, PlanFacts DEF TurnOK, OnItsWay, RoomForHops, HopsOK, HopsBound, ErrorsOK, TurnStates
<1>2. CASE x.steps # <<>>
  <2>1. w.steps = <<"skills", "composer">> /\ x.steps = <<"composer">> /\ w.steps # x.steps
    BY <1>2, PlanFacts DEF TurnStates, RouteTarget
  <2>2. w.hops \in Nat /\ w.retry \in Nat
    BY DEF TurnStates
  <2> QED BY <2>1, <2>2 DEF TurnOK, OnItsWay, RoomForHops, HopsOK, HopsBound, ErrorsOK
<1> QED BY <1>1, <1>2

LEMMA LocalHopKeeps ==
  ASSUME TurnsInv, NEW t \in Turns, LocalHop(t)
  PROVE  TurnsInv'
<1> DEFINE w == turn[t]
           a == Advanced(w)
           x == [a EXCEPT !.hops = @ + 1, !.shown = @ \cup {"reply"},
                          !.relayed = @ \/ Target(w) = "skills"]
<1>1. /\ w \in TurnStates /\ TurnOK(w) /\ w.pc = "route" /\ w.steps # <<>> /\ ~IsRelay(w)
      /\ w.hops \in Nat /\ w.steps \in Plans /\ Become(t, x)
  BY AtTurn DEF LocalHop, Routable
<1>2. Tail(w.steps) \in Plans
  BY <1>1, PlanFacts
<1>3. w.steps # <<"skills", "composer">>
  <2> SUFFICES ASSUME w.steps = <<"skills", "composer">> PROVE IsRelay(w)
    BY <1>1
  <2>1. Target(w) = "skills"
    BY PlanFacts DEF Target
  <2>2. 2 \in DOMAIN w.steps /\ w.steps[2] = "composer"
    OBVIOUS
  <2> HIDE DEF w
  <2> QED BY <2>1, <2>2 DEF IsRelay, RemainingHas
<1>4. /\ a \in TurnStates /\ a.pc = "route" /\ a.steps = Tail(w.steps) /\ a.retry = 0
      /\ a.reviewed = w.reviewed /\ a.hops = w.hops
  BY <1>1, <1>2 DEF Advanced, TurnStates
<1> DEFINE h == a.hops + 1
           l == a.relayed \/ Target(w) = "skills"
<1>5. h \in Nat /\ l \in BOOLEAN /\ x = [a EXCEPT !.hops = h, !.shown = @ \cup {"reply"},
                                                  !.relayed = l]
  BY <1>1, <1>4 DEF TurnStates
<1> HIDE DEF a, h, l
<1>6. /\ [a EXCEPT !.hops = h, !.shown = @ \cup {"reply"}, !.relayed = l] \in TurnStates
  BY <1>4, <1>5 DEF TurnStates
<1>7. x \in TurnStates /\ x.pc = "route" /\ x.steps = Tail(w.steps) /\ x.retry = 0
        /\ x.reviewed = w.reviewed
  BY <1>4, <1>5, <1>6 DEF TurnStates
<1> HIDE DEF x, w
<1> QED BY <1>1, <1>3, <1>7, AdvancedFits, TurnMoves

LEMMA RelayHopKeeps ==
  ASSUME TurnsInv, NEW t \in Turns, RelayHop(t)
  PROVE  TurnsInv'
<1> DEFINE w == turn[t]
           x == [w EXCEPT !.pc = "relay", !.count = 0, !.code = "none",
                          !.held = FALSE, !.relayed = TRUE, !.hops = @ + 1]
<1>1. /\ w \in TurnStates /\ TurnOK(w) /\ w.pc = "route" /\ w.steps # <<>>
      /\ w.hops \in Nat /\ w.retry \in Nat /\ Become(t, x)
  BY AtTurn DEF RelayHop, Routable
<1>2. w.hops + 1 \in Nat /\ "none" \in Codes
  BY <1>1 DEF Codes
<1>3. /\ x \in TurnStates /\ x.pc = "relay" /\ x.steps = w.steps /\ x.retry = w.retry
      /\ x.reviewed = w.reviewed /\ x.hops = w.hops + 1
  BY <1>1, <1>2 DEF TurnStates
<1> HIDE DEF x, w
<1>4. OnItsWay(x) /\ ErrorsOK(x)
  BY <1>1, <1>3 DEF OnItsWay, ErrorsOK
<1>5. RoomForHops => HopsBound(w, 0) /\ w.retry <= MaxRetries
  BY <1>1 DEF TurnOK, HopsOK
<1>6. RoomForHops => HopsBound(x, 1)
  BY <1>1, <1>3, <1>5 DEF RoomForHops, HopsBound
<1>7. TurnOK(x)
  BY <1>3, <1>4, <1>5, <1>6 DEF TurnOK, HopsOK
<1> QED BY <1>1, <1>3, <1>7, TurnMoves

(* A hop that fails is over; its error is shown or held back.              *)
LEMMA FailedFits ==
  ASSUME NEW w \in TurnStates, TurnOK(w), w.pc = "relay", NEW code \in Codes
  PROVE  Failed(w, code) \in TurnStates /\ TurnOK(Failed(w, code))
<1> DEFINE held == code = "E_RELAY" /\ w.count = 0
           x == Failed(w, code)
<1>1. /\ x \in TurnStates /\ x.pc = "recover" /\ x.steps = w.steps /\ x.retry = w.retry
      /\ x.reviewed = w.reviewed /\ x.hops = w.hops /\ (~x.held => "error" \in x.shown)
  BY DEF Failed, TurnStates
<1> HIDE DEF x
<1>2. TurnOK(x)
  BY <1>1 DEF TurnOK, OnItsWay, RoomForHops, HopsOK, HopsBound, ErrorsOK
<1> QED BY <1>1, <1>2 DEF x

LEMMA RelayBreaksKeeps ==
  ASSUME TurnsInv, NEW t \in Turns, RelayBreaks(t)
  PROVE  TurnsInv'
BY AtTurn, FailedFits, TurnMoves DEF RelayBreaks, Codes

LEMMA RelayFramesKeeps ==
  ASSUME TurnsInv, NEW t \in Turns, NEW sent \in Nat, NEW said, RelayFrames(t, sent, said)
  PROVE  TurnsInv'
<1> DEFINE w == turn[t]
           x == [w EXCEPT !.count = @ + sent]
           y == [x EXCEPT !.shown = @ \cup ({said} \cap {"options", "result"})]
<1>1. w \in TurnStates /\ TurnOK(w) /\ w.pc = "relay" /\ w.count + sent \in Nat
  BY AtTurn DEF RelayFrames
<1>2. /\ x \in TurnStates /\ x.pc = "relay" /\ x.steps = w.steps /\ x.retry = w.retry
      /\ x.reviewed = w.reviewed /\ x.hops = w.hops
  BY <1>1 DEF TurnStates
<1>3. Become(t, Failed(x, "E_RELAY_LIMIT")) \/ Become(t, Failed(x, "own")) \/ Become(t, y)
  BY DEF RelayFrames
<1> HIDE DEF x
<1>4. /\ y \in TurnStates /\ y.pc = "relay" /\ y.steps = w.steps /\ y.retry = w.retry
      /\ y.reviewed = w.reviewed /\ y.hops = w.hops
  BY <1>2 DEF TurnStates
<1> HIDE DEF y, w
<1>5. TurnOK(x) /\ TurnOK(y)
  BY <1>1, <1>2, <1>4 DEF TurnOK, OnItsWay, RoomForHops, HopsOK, HopsBound, ErrorsOK
<1>6. "E_RELAY_LIMIT" \in Codes /\ "own" \in Codes
  BY DEF Codes
<1> QED BY <1>2, <1>3, <1>4, <1>5, <1>6, FailedFits, TurnMoves

LEMMA RelaySucceedsKeeps ==
  ASSUME TurnsInv, NEW t \in Turns, RelaySucceeds(t, NoSkill)
  PROVE  TurnsInv'
<1> DEFINE w == turn[t]
           x == Advanced(w)
<1>1. /\ w \in TurnStates /\ TurnOK(w) /\ w.pc = "relay" /\ w.steps \in Plans
      /\ Become(t, [x EXCEPT !.skillId = IF NoSkill = NoSkill THEN @ ELSE NoSkill])
  BY AtTurn DEF RelaySucceeds
<1>2. w.steps # <<>>
  BY <1>1 DEF TurnOK, OnItsWay
<1>3. Tail(w.steps) \in Plans
  BY <1>1, <1>2, PlanFacts
<1>4. /\ x \in TurnStates /\ x.pc = "route" /\ x.steps = Tail(w.steps) /\ x.retry = 0
      /\ x.reviewed = w.reviewed /\ x.hops = w.hops
  BY <1>1, <1>3 DEF Advanced, TurnStates
<1> HIDE DEF x
<1>5. Become(t, x)
  BY <1>1, <1>4 DEF TurnStates
<1> HIDE DEF w
<1> QED BY <1>1, <1>2, <1>4, <1>5, AdvancedFits, TurnMoves

LEMMA RouteDoneKeeps ==
  ASSUME TurnsInv, NEW t \in Turns, RouteDone(t)
  PROVE  TurnsInv'
<1> DEFINE w == turn[t]
           x == [w EXCEPT !.pc = "after"]
<1>1. /\ w \in TurnStates /\ TurnOK(w) /\ w.pc = "route" /\ ~Routable(w)
      /\ w.hops \in Nat /\ w.retry \in Nat /\ Become(t, x)
  BY AtTurn DEF RouteDone
<1>2. x \in TurnStates /\ x.pc = "after" /\ x.steps = w.steps
  BY <1>1 DEF TurnStates
<1> HIDE DEF x, w
<1>3. RoomForHops => w.steps = <<>>
  BY <1>1 DEF TurnOK, Routable, RoomForHops, HopsOK, HopsBound
<1>4. TurnOK(x)
  BY <1>2, <1>3 DEF TurnOK, OnItsWay, HopsOK, ErrorsOK
<1> QED BY <1>1, <1>2, <1>4, TurnMoves

LEMMA RecoverHeldKeeps ==
  ASSUME TurnsInv, NEW t \in Turns, RecoverHeld(t)
  PROVE  TurnsInv'
<1> DEFINE w == turn[t]
           shown == [w EXCEPT !.pc = "after", !.shown = @ \cup {"error"}]
           again == [w EXCEPT !.pc = "route", !.retry = @ + 1]
<1>1. /\ w \in TurnStates /\ TurnOK(w) /\ w.pc = "recover" /\ w.retry \in Nat
      /\ w.hops \in Nat /\ Become(t, IF w.retry >= MaxRetries THEN shown ELSE again)
  BY AtTurn DEF RecoverHeld
<1>2. /\ shown \in TurnStates /\ shown.pc = "after" /\ "error" \in shown.shown
  BY <1>1 DEF TurnStates
<1>3. w.retry + 1 \in Nat
  BY <1>1
<1>4. /\ again \in TurnStates /\ again.pc = "route" /\ again.retry = w.retry + 1
      /\ again.steps = w.steps /\ again.reviewed = w.reviewed /\ again.hops = w.hops
  BY <1>1, <1>3 DEF TurnStates
<1> HIDE DEF shown, again, w
<1>5. TurnOK(shown)
  BY <1>2 DEF TurnOK, OnItsWay, HopsOK, ErrorsOK
<1>6. ASSUME ~(w.retry >= MaxRetries) PROVE TurnOK(again)
  <2>1. OnItsWay(again) /\ ErrorsOK(again)
    BY <1>4 DEF OnItsWay, ErrorsOK
  <2>2. RoomForHops => HopsBound(w, 1)
    BY <1>1 DEF TurnOK, HopsOK
  <2>3. RoomForHops => HopsBound(again, 0) /\ again.retry <= MaxRetries
    BY <1>1, <1>4, <1>6, <2>2 DEF RoomForHops, HopsBound
  <2> QED BY <1>4, <2>1, <2>3 DEF TurnOK, HopsOK
<1> QED BY <1>1, <1>2, <1>4, <1>5, <1>6, TurnMoves

LEMMA RecoverShownKeeps ==
  ASSUME TurnsInv, NEW t \in Turns, RecoverShown(t)
  PROVE  TurnsInv'
<1> DEFINE w == turn[t]
           plan == <<"composer">> \o Tail(w.steps)
           review == [w EXCEPT !.pc = "route", !.reviewed = TRUE, !.retry = 0, !.steps = plan]
           over == [w EXCEPT !.pc = "after"]
<1>1. /\ w \in TurnStates /\ TurnOK(w) /\ w.pc = "recover" /\ ~w.held /\ w.retry \in Nat
      /\ w.hops \in Nat /\ w.steps \in Plans
  BY AtTurn DEF RecoverShown
<1>2. w.steps # <<>>
  BY <1>1 DEF TurnOK, OnItsWay
<1>3. CASE Reviewable(w)
  <2>1. w.steps # <<"skills", "composer">> /\ Tail(w.steps) = <<>>
    BY <1>1, <1>2, <1>3, PlanFacts DEF Reviewable, Target
  <2>2. plan = <<"composer">>
    <3>1. <<"composer">> \o <<>> = <<"composer">>
      OBVIOUS
    <3> HIDE DEF w
    <3> QED BY <2>1, <3>1
  <2>3. plan \in Plans /\ plan # <<"skills", "composer">> /\ plan # <<>>
    BY <2>2, PlanFacts DEF RouteTarget
  <2>4. Become(t, review)
    BY <1>3 DEF RecoverShown
  <2> HIDE DEF plan
  <2>5. /\ review \in TurnStates /\ review.pc = "route" /\ review.retry = 0
        /\ review.reviewed /\ review.hops = w.hops /\ review.steps = plan
    BY <1>1, <2>3 DEF TurnStates
  <2>6. ~w.reviewed
    BY <1>3 DEF Reviewable
  <2> HIDE DEF review, w
  <2>7. TurnOK(review)
    BY <1>1, <1>2, <2>1, <2>3, <2>5, <2>6
       DEF TurnOK, OnItsWay, RoomForHops, HopsOK, HopsBound, ErrorsOK
  <2> QED BY <2>4, <2>5, <2>7, TurnMoves
<1>4. CASE ~Reviewable(w)
  <2>1. Become(t, over)
    BY <1>4 DEF RecoverShown
  <2>2. /\ over \in TurnStates /\ over.pc = "after" /\ over.shown = w.shown
    BY <1>1 DEF TurnStates
  <2> HIDE DEF over, w
  <2>3. TurnOK(over)
    BY <1>1, <2>2 DEF TurnOK, OnItsWay, HopsOK, ErrorsOK
  <2> QED BY <2>1, <2>2, <2>3, TurnMoves
<1> QED BY <1>3, <1>4

LEMMA OverFits ==
  ASSUME NEW x \in TurnStates, NEW pc \in {"done", "gone"}
  PROVE  TurnOver(pc, x) \in TurnStates /\ TurnOK(TurnOver(pc, x))
<1> DEFINE f == FreshTurn(1, NoSkill)
           kept == x.shown \cap {"result"}
           y == [f EXCEPT !.pc = pc, !.shown = kept]
<1>1. f \in TurnStates
  BY FreshFits
<1>2. kept \subseteq {"result"}
  OBVIOUS
<1>3. TurnOver(pc, x) = y
  BY DEF TurnOver
<1> HIDE DEF f, kept
<1>4. y \in TurnStates /\ y.pc = pc
  BY <1>1, <1>2 DEF TurnStates
<1> HIDE DEF y
<1>5. TurnOK(y)
  BY <1>4 DEF TurnOK, OnItsWay, HopsOK, ErrorsOK
<1> QED BY <1>3, <1>4, <1>5

LEMMA TurnStepKeeps ==
  ASSUME TurnsInv, NEW t \in Turns, TurnStep(t) \/ CancelTurn(t)
  PROVE  TurnsInv'
BY AtTurn, OverFits, TurnMoves, IntentNodeKeeps, LocalHopKeeps, RouteDoneKeeps,
   RecoverHeldKeeps, RecoverShownKeeps DEF TurnStep, EndTurn, CancelTurn

-----------------------------------------------------------------------------
(* The whole agent: the composer's runs, the turns, and whom they serve.   *)
AgentInv ==
  /\ ComposerInv /\ TurnsInv
  /\ caller \in [Turns -> Users] /\ stream \in [Turns -> Runs \cup {NoRun, SkillsBuilder}]

LEMMA AgentInitially == AgentInit => AgentInv
<1> SUFFICES ASSUME AgentInit PROVE AgentInv
  OBVIOUS
<1>1. ComposerInv
  BY ComposerInitially DEF AgentInit
<1>2. TurnsInv
  <2>1. turn = [t \in Turns |-> FreshTurn(1, NoSkill)]
    BY DEF AgentInit, SupervisorInit
  <2> QED BY <2>1, FreshFits DEF TurnsInv
<1> QED BY <1>1, <1>2, AgentAssumption DEF AgentInit, AgentInv

(* Whatever the supervisor and the connections do, a run only takes steps  *)
(* that the composer's own specification knows.                            *)
LEMMA AgentStepsCompose ==
  ASSUME AgentInv, [AgentNext]_agentVars
  PROVE  [ComposerNext]_composerVars
<1>1. ASSUME NEW r \in Runs, NodeStep(r) \/ Finish(r) \/ Die(r)
      PROVE  ComposerNext
  BY <1>1 DEF ComposerNext
<1>2. ASSUME NEW t \in Turns, Supervise(t) \/ Begin(t) \/ HopToSkills(t) \/ SkillsAnswer(t)
                                \/ Disconnect(t)
      PROVE  UNCHANGED composerVars
  BY <1>2 DEF Supervise, Begin, HopToSkills, SkillsAnswer, Disconnect
<1>3. ASSUME NEW t \in Turns, HopToComposer(t)
      PROVE  ComposerNext
  <2>1. PICK r \in Runs : Start(r, caller[t], turn[t].round, turn[t].skillId)
    BY <1>3 DEF HopToComposer
  <2>2. caller[t] \in Users /\ turn[t].round \in {1, 2} /\ turn[t].skillId \in Sel
    BY AtTurn DEF AgentInv, TurnStates, Sel
  <2> QED BY <2>1, <2>2 DEF ComposerNext
<1>4. ASSUME NEW t \in Turns, Break(t) \/ Refused(t)
      PROVE  ComposerNext \/ UNCHANGED composerVars
  BY <1>1, <1>4 DEF Break, Refused
<1>5. ASSUME NEW t \in Turns, NEW r \in Runs, Deliver(t, r) \/ DeliverEnd(t, r)
      PROVE  ComposerNext
  BY <1>1, <1>5 DEF Deliver, DeliverEnd
<1>6. ASSUME NEW r \in Runs, Orphan(r) PROVE ComposerNext
  BY <1>1, <1>6 DEF Orphan
<1>7. UNCHANGED agentVars => UNCHANGED composerVars
  BY DEF agentVars
<1> QED BY <1>2, <1>3, <1>4, <1>5, <1>6, <1>7 DEF AgentNext, Progress

(* The frames a run sends with a step are counted.                         *)
LEMMA SentCounts ==
  ASSUME ComposerInv, NEW r \in Runs, ComposerInv'
  PROVE  run'[r].sent \in Nat
BY DEF ComposerInv, RunState

LEMMA TurnsKept ==
  ASSUME AgentInv, ComposerInv', [AgentNext]_agentVars
  PROVE  TurnsInv'
<1>0. TurnsInv /\ ComposerInv
  BY DEF AgentInv
<1>1. ASSUME UNCHANGED turn PROVE TurnsInv'
  BY <1>0, <1>1 DEF TurnsInv
<1>2. ASSUME NEW t \in Turns, Begin(t) PROVE TurnsInv'
  <2>1. BeginTurn(t, 1, NoSkill) \/ \E slot \in Slots : BeginTurn(t, 2, slot[2])
    BY <1>2 DEF Begin
  <2>2. \A slot \in Slots : slot[2] \in Skills
    BY AgentAssumption
  <2> QED BY <1>0, <2>1, <2>2, BeginTurnKeeps
<1>3. ASSUME NEW t \in Turns, Supervise(t) \/ Disconnect(t) PROVE TurnsInv'
  BY <1>0, <1>3, TurnStepKeeps DEF Supervise, Disconnect
<1>4. ASSUME NEW t \in Turns, HopToComposer(t) \/ HopToSkills(t) PROVE TurnsInv'
  BY <1>0, <1>4, RelayHopKeeps DEF HopToComposer, HopToSkills
<1>5. ASSUME NEW t \in Turns, Break(t) \/ Refused(t) PROVE TurnsInv'
  BY <1>0, <1>5, RelayBreaksKeeps DEF Break, Refused
<1>6. ASSUME NEW t \in Turns, NEW r \in Runs, Deliver(t, r) PROVE TurnsInv'
  BY <1>0, <1>6, SentCounts, RelayFramesKeeps DEF Deliver
<1>7. ASSUME NEW t \in Turns, NEW r \in Runs, DeliverEnd(t, r) PROVE TurnsInv'
  BY <1>0, <1>7, RelayFramesKeeps, RelaySucceedsKeeps DEF DeliverEnd
<1>8. ASSUME NEW t \in Turns, SkillsAnswer(t) PROVE TurnsInv'
  BY <1>0, <1>8, RelaySucceedsKeeps DEF SkillsAnswer
<1>9. ASSUME NEW r \in Runs, Orphan(r) PROVE TurnsInv'
  BY <1>1, <1>9 DEF Orphan
<1> QED BY <1>1, <1>2, <1>3, <1>4, <1>5, <1>6, <1>7, <1>8, <1>9
        DEF AgentNext, Progress, agentVars

LEMMA CallersKept ==
  ASSUME AgentInv, [AgentNext]_agentVars
  PROVE  /\ caller' \in [Turns -> Users]
         /\ stream' \in [Turns -> Runs \cup {NoRun, SkillsBuilder}]
<1>1. \A slot \in Slots : slot[1] \in Users
  BY AgentAssumption
<1>2. caller \in [Turns -> Users] /\ Owner \in Users
  BY AgentAssumption DEF AgentInv
<1>3. \/ UNCHANGED caller
      \/ \E t \in Turns, u \in Users : caller' = [caller EXCEPT ![t] = u]
  BY <1>1, <1>2 DEF AgentNext, Progress, Begin, Supervise, HopToComposer, HopToSkills,
     SkillsAnswer, Deliver, DeliverEnd, Break, Refused, Disconnect, Orphan, agentVars
<1>4. \/ UNCHANGED stream
      \/ \E t \in Turns, r \in Runs \cup {NoRun, SkillsBuilder} :
           stream' = [stream EXCEPT ![t] = r]
  BY DEF AgentNext, Progress, Begin, Supervise, HopToComposer, HopToSkills, Detach,
     SkillsAnswer, Deliver, DeliverEnd, Break, Refused, Disconnect, Orphan, agentVars
<1> QED BY <1>2, <1>3, <1>4 DEF AgentInv

LEMMA AgentInductive == AgentInv /\ [AgentNext]_agentVars => AgentInv'
<1> SUFFICES ASSUME AgentInv, [AgentNext]_agentVars PROVE AgentInv'
  OBVIOUS
<1>1. ComposerInv'
  BY AgentStepsCompose, ComposerInductive DEF AgentInv
<1> QED BY <1>1, TurnsKept, CallersKept DEF AgentInv

(* The invariant of the chat turns, on which the theorems below rest.      *)
THEOREM AgentInvariant == AgentSpec => []AgentInv
BY AgentInitially, AgentInductive, PTL DEF AgentSpec

(* Only a break or a departure counts, and each needs room below the bound.*)
LEMMA BreaksCounted ==
  ASSUME breaks \in 0 .. MaxBreaks, [AgentNext]_agentVars
  PROVE  breaks' \in 0 .. MaxBreaks
<1>1. UNCHANGED breaks \/ (breaks < MaxBreaks /\ breaks' = breaks + 1)
  BY DEF AgentNext, Progress, Begin, Supervise, HopToComposer, HopToSkills,
     SkillsAnswer, Deliver, DeliverEnd, Break, Refused, Disconnect, Orphan, agentVars
<1> QED BY <1>1, AgentAssumption

LEMMA TurnStatesAreTurns == TurnStates \subseteq Turn
<1>1. \A a, b \in RouteTarget : <<a>> \in Seq(RouteTarget) /\ <<a, b>> \in Seq(RouteTarget)
  OBVIOUS
<1>2. "skills" \in RouteTarget /\ "composer" \in RouteTarget /\ <<>> \in Seq(RouteTarget)
  BY DEF RouteTarget
<1>3. Plans \subseteq Seq(RouteTarget)
  BY <1>1, <1>2 DEF Plans
<1> HIDE DEF Plans
<1> QED BY <1>3 DEF TurnStates, Turn

(* The variables of a session keep their types: a run is served on behalf  *)
(* of a known user, a turn's plan is made of the targets of the router,    *)
(* and its relayed stream is a run of this session, the skills builder's   *)
(* or nobody's.                                                            *)
THEOREM AgentTypeCorrect == AgentSpec => []AgentTypeOK
<1>1. AgentInv /\ breaks \in 0 .. MaxBreaks => AgentTypeOK
  <2>1. TurnsInv => SupervisorTypeOK
    BY TurnStatesAreTurns DEF TurnsInv, SupervisorTypeOK
  <2>2. ComposerInv => ComposerTypeOK
    BY DEF ComposerInv, StoresOK, ComposerTypeOK
  <2> QED BY <2>1, <2>2 DEF AgentInv, AgentTypeOK
<1>2. AgentInit => breaks \in 0 .. MaxBreaks
  BY AgentAssumption DEF AgentInit
<1>3. breaks \in 0 .. MaxBreaks /\ [AgentNext]_agentVars => (breaks \in 0 .. MaxBreaks)'
  BY BreaksCounted
<1>4. AgentSpec => [](breaks \in 0 .. MaxBreaks)
  BY <1>2, <1>3, PTL DEF AgentSpec
<1> QED BY <1>1, <1>4, AgentInvariant, PTL

(* The chat turns implement the composer's specification: all that is      *)
(* proved of its runs holds under every order of hops, retries, broken     *)
(* connections and departures of the supervisor and its clients.           *)
THEOREM AgentImplementsComposer == AgentSpec => ComposerSpec
<1>1. AgentInit => ComposerInit
  BY DEF AgentInit
<1> QED BY <1>1, AgentStepsCompose, AgentInvariant, PTL DEF AgentSpec, ComposerSpec

(* What every chat turn may rely on, whatever breaks around its run: only  *)
(* checked drafts are saved, a bound skill was offered, no run meets the   *)
(* superstep limit, and the offer lasts until a commit has used it.        *)
THEOREM TurnsKeepComposerPromises ==
  /\ AgentSpec => [](OnlyCheckedSaved /\ BoundSkillWasOffered)
  /\ AgentSpec => ResumableUntilCommitted
  /\ RoomForRetries => (AgentSpec => []NeverHitsRecursionLimit)
<1>1. RoomForRetries => (ComposerSpec => []NeverHitsRecursionLimit)
  BY RecursionLimitNeverHit
<1> QED BY <1>1, AgentImplementsComposer, OnlyCheckedEverSaved, BoundSkillAlwaysOffered,
           AlwaysResumableUntilCommitted, PTL

(* The supervisor's loop is never cut off by MAX_HOPS with steps of the    *)
(* plan left, for every number of turns and runs: the limit has room for   *)
(* the plan, its retries and its one review.                               *)
THEOREM HopLimitNeverMet ==
  ASSUME RoomForHops
  PROVE  AgentSpec => []HopLimitNeverReached
<1>1. AgentInv => HopLimitNeverReached
  <2> SUFFICES ASSUME AgentInv, NEW t \in Turns, turn[t].pc = "route", turn[t].steps # <<>>
               PROVE  turn[t].hops < MaxHops
    BY DEF HopLimitNeverReached
  <2> DEFINE w == turn[t]
  <2>1. TurnOK(w) /\ w.hops \in Nat /\ w.retry \in Nat
    BY AtTurn DEF AgentInv
  <2>2. w.pc = "route" /\ w.steps # <<>>
    OBVIOUS
  <2> SUFFICES w.hops < MaxHops
    OBVIOUS
  <2> HIDE DEF w
  <2> QED BY <2>1, <2>2 DEF TurnOK, HopsOK, HopsBound, RoomForHops
<1> QED BY <1>1, AgentInvariant, PTL

(* A turn of the supervisor that ends although its last hop failed has     *)
(* shown the user an error, a held-back one included, for every number of  *)
(* turns and runs.                                                         *)
THEOREM FailureAlwaysShown ==
  ASSUME RoomForHops
  PROVE  AgentSpec => []FailureIsShown
<1>1. AgentInv => FailureIsShown
  BY AtTurn DEF AgentInv, FailureIsShown, TurnOK, ErrorsOK
<1> QED BY <1>1, AgentInvariant, PTL

-----------------------------------------------------------------------------
(* Results and commits.  A step of a node, in the fields that matter.      *)
LEMMA GotoShows ==
  ASSUME ComposerInv, NEW r \in Runs, NEW x \in RunState, NEW next, NEW n, NEW said,
         Goto(r, x, next, n, said)
  PROVE  /\ run'[r].said = said /\ run'[r].tx = x.tx
         /\ \A q \in Runs \ {r} : run'[q] = run[q]
BY DEF Goto, ComposerInv, RunState

(* Neither the transaction nor a result is touched.                        *)
Plain(r) ==
  /\ run'[r].tx = run[r].tx /\ run'[r].said # "result"
  /\ \A q \in Runs \ {r} : run'[q] = run[q]

LEMMA PlainGoto ==
  ASSUME ComposerInv, NEW r \in Runs, NEW x, NEW next, NEW n, NEW said,
         Goto(r, x, next, n, said), said # "result",
         x.tx = run[r].tx, DOMAIN x = DOMAIN run[r]
  PROVE  Plain(r)
<1>1. run'[r] = [x EXCEPT !.pc = next, !.steps = @ + 1, !.sent = 1 + n, !.said = said]
  BY DEF Goto, ComposerInv
<1>2. "said" \in DOMAIN x /\ "tx" \in DOMAIN x
  BY DEF ComposerInv, RunState
<1>3. run'[r].said = said /\ run'[r].tx = x.tx
  BY <1>1, <1>2
<1>4. \A q \in Runs \ {r} : run'[q] = run[q]
  BY DEF Goto, ComposerInv
<1> QED BY <1>3, <1>4 DEF Plain

LEMMA PreStepPlain ==
  ASSUME ComposerInv, NEW r \in Runs, PreStep(r)
  PROVE  Plain(r)
<1> DEFINE w == run[r]
<1>1. CASE Compress(r)
  BY <1>1, PlainGoto DEF Compress
<1>2. CASE Security(r)
  BY <1>2, PlainGoto DEF Security, Fail
<1>3. CASE Intent(r)
  <2>1. \A kind, prior : LET x == [w EXCEPT !.intent = kind, !.prior = prior] IN
          x.tx = w.tx /\ DOMAIN x = DOMAIN w
    OBVIOUS
  <2> QED BY <1>3, <2>1, PlainGoto DEF Intent, Fail
<1>4. CASE SearchNodes(r)
  BY <1>4, PlainGoto DEF SearchNodes, Fail
<1>5. CASE SuggestSkillSelect(r)
  BY <1>5, PlainGoto DEF SuggestSkillSelect
<1>6. CASE Resume(r)
  <2>1. \A offered : LET x == [w EXCEPT !.intent = "draft", !.offered = offered] IN
          x.tx = w.tx /\ DOMAIN x = DOMAIN w
    OBVIOUS
  <2> QED BY <1>6, <2>1, PlainGoto DEF Resume
<1> QED BY <1>1, <1>2, <1>3, <1>4, <1>5, <1>6 DEF PreStep

LEMMA DraftStepPlain ==
  ASSUME ComposerInv, NEW r \in Runs, DraftStep(r)
  PROVE  Plain(r)
<1> DEFINE w == run[r]
<1>1. CASE DraftWorkflow(r)
  <2>1. \A draft, same : LET x == [w EXCEPT !.draft = draft, !.repeated = same] IN
          x.tx = w.tx /\ DOMAIN x = DOMAIN w
    OBVIOUS
  <2>2. CASE Fail(r)
    BY <2>2, PlainGoto DEF Fail
  <2>3. CASE ~Fail(r)
    <3>1. PICK same \in BOOLEAN :
            Goto(r, [w EXCEPT !.draft = NewDraft("fresh", NoSkill), !.repeated = same],
                 "bind_skill", 5, "content")
      BY <1>1, <2>3 DEF DraftWorkflow
    <3> DEFINE x == [w EXCEPT !.draft = NewDraft("fresh", NoSkill), !.repeated = same]
    <3>2. x.tx = w.tx /\ DOMAIN x = DOMAIN w
      BY <2>1
    <3> HIDE DEF x
    <3> QED BY <3>1, <3>2, PlainGoto DEF x
  <2> QED BY <2>2, <2>3
<1>2. CASE BindSkill(r)
  <2>1. \A skill : LET x == [w EXCEPT !.draft.skill = skill] IN
          x.tx = w.tx /\ DOMAIN x = DOMAIN w
    OBVIOUS
  <2> QED BY <1>2, <2>1, PlainGoto DEF BindSkill
<1>3. CASE RefinePlan(r)
  <2>1. LET x == [w EXCEPT !.attempts = @ + 1] IN x.tx = w.tx /\ DOMAIN x = DOMAIN w
    OBVIOUS
  <2> QED BY <1>3, <2>1, PlainGoto DEF RefinePlan
<1>4. CASE RefineApply(r)
  <2>1. \A draft : LET x == [w EXCEPT !.draft = draft] IN
          x.tx = w.tx /\ DOMAIN x = DOMAIN w
    OBVIOUS
  <2> QED BY <1>4, <2>1, PlainGoto DEF RefineApply, Fail
<1>5. CASE ValidateWorkflow(r)
  <2>1. \A answer : LET x == [w EXCEPT !.draft.report = answer] IN
          x.tx = w.tx /\ DOMAIN x = DOMAIN w
    OBVIOUS
  <2> QED BY <1>5, <2>1, PlainGoto DEF ValidateWorkflow
<1>6. CASE QaEvaluator(r)
  <2>1. \A pass : LET x == [w EXCEPT !.qa = @ + 1] y == [x EXCEPT !.draft.judged = pass] IN
          y.tx = w.tx /\ DOMAIN y = DOMAIN w
    OBVIOUS
  <2> QED BY <1>6, <2>1, PlainGoto DEF QaEvaluator, Fail
<1>7. CASE RetryDraft(r)
  <2>1. LET x == [w EXCEPT !.retry = @ + 1] IN x.tx = w.tx /\ DOMAIN x = DOMAIN w
    OBVIOUS
  <2> QED BY <1>7, <2>1, PlainGoto DEF RetryDraft
<1>8. CASE GiveUp(r)
  BY <1>8, PlainGoto DEF GiveUp
<1> QED BY <1>1, <1>2, <1>3, <1>4, <1>5, <1>6, <1>7, <1>8 DEF DraftStep

(* Only the commit speaks of a result, and no step takes a commit back.    *)
Honest(r) ==
  /\ run'[r].said = "result" => run'[r].tx = "committed"
  /\ run[r].tx = "committed" => run'[r].tx = "committed"
  /\ \A q \in Runs \ {r} : run'[q] = run[q]

LEMMA NodesHonest ==
  ASSUME ComposerInv, NEW r \in Runs, NodeStep(r), ComposerInv'
  PROVE  Honest(r)
<1> DEFINE w == run[r]
<1>1. Plain(r) => Honest(r)
  <2> SUFFICES ASSUME Plain(r), run'[r].said # "result" PROVE Honest(r)
    BY DEF Plain
  <2> QED BY DEF Plain, Honest
<1>2. w \in RunState /\ PathOK(w)
  BY AtNode
<1>3. CASE SaveWorkflow(r)
  <2>1. CASE Fail(r)
    BY <1>1, <2>1, PlainGoto DEF Fail
  <2>2. CASE Goto(r, [w EXCEPT !.tx = "pending"], "explain", 1, "content")
    <3>1. [w EXCEPT !.tx = "pending"] \in RunState
      BY <1>2 DEF RunState
    <3>2. w.tx = "none"
      BY <1>2, <1>3 DEF SaveWorkflow, At, PathOK, Saved
    <3> QED BY <2>2, <3>1, <3>2, GotoShows DEF Honest
  <2> QED BY <1>3, <2>1, <2>2 DEF SaveWorkflow
<1>4. CASE ConfirmResult(r)
  <2> DEFINE good == [w EXCEPT !.tx = "committed"]
             bad == [w EXCEPT !.tx = "none"]
  <2>1. good \in RunState /\ good.tx = "committed" /\ bad \in RunState
    BY <1>2 DEF RunState
  <2>2. w.tx = "pending"
    BY <1>2, <1>4 DEF ConfirmResult, At, PathOK
  <2>3. \/ Goto(r, good, "save_memory", 2, "result")
        \/ Goto(r, bad, "end", 2, "error")
    BY <1>4 DEF ConfirmResult
  <2> HIDE DEF good, bad
  <2>4. \/ run'[r].said = "result" /\ run'[r].tx = "committed"
        \/ run'[r].said = "error"
    BY <2>1, <2>3, GotoShows
  <2>5. \A q \in Runs \ {r} : run'[q] = run[q]
    BY <2>1, <2>3, GotoShows
  <2> QED BY <2>2, <2>4, <2>5 DEF Honest
<1>5. CASE Promote(r) \/ Explain(r) \/ SaveMemory(r)
  BY <1>1, <1>5, PlainGoto DEF Promote, Explain, SaveMemory
<1> QED BY <1>1, <1>3, <1>4, <1>5, PreStepPlain, DraftStepPlain DEF NodeStep, SaveStep

LEMMA CommittedStays ==
  ASSUME ComposerInv, [ComposerNext]_composerVars, ComposerInv'
  PROVE  Committed \subseteq Committed'
<1>1. ASSUME NEW r \in Runs, NodeStep(r) PROVE Committed \subseteq Committed'
  BY <1>1, NodesHonest DEF Honest, Committed
<1>2. ASSUME NEW r \in Runs, Finish(r) \/ Die(r) PROVE Committed \subseteq Committed'
  <2> DEFINE w == run[r]
             y == [Over("closed") EXCEPT !.tx = "committed", !.user = w.user,
                                         !.round = w.round, !.draft = w.draft]
  <2>1. y.tx = "committed"
    BY DEF Over, Request
  <2>2. Closed(w, "committed") = y
    BY DEF Closed
  <2>3. /\ w.tx = "committed" => run' = [run EXCEPT ![r] = Closed(w, "committed")]
        /\ \E z : run' = [run EXCEPT ![r] = z]
    BY <1>2 DEF Finish, Die
  <2> HIDE DEF y, w
  <2>4. run \in [Runs -> RunState] /\ w = run[r]
    BY DEF ComposerInv, w
  <2> QED BY <2>1, <2>2, <2>3, <2>4 DEF Committed
<1>3. ASSUME NEW r \in Runs, \E u \in Users, n \in {1, 2}, s \in Sel : Start(r, u, n, s)
      PROVE  Committed \subseteq Committed'
  <2>1. run[r].pc = "idle" /\ \E z : run' = [run EXCEPT ![r] = z]
    BY <1>3 DEF Start
  <2>2. run[r].tx = "none"
    BY <2>1, AtNode DEF PathOK, Saved
  <2> QED BY <2>1, <2>2 DEF Committed, ComposerInv
<1>4. UNCHANGED composerVars => Committed \subseteq Committed'
  BY DEF composerVars, Committed
<1> QED BY <1>1, <1>2, <1>3, <1>4 DEF ComposerNext

(* A turn that shows a result has shown it before, or relays it now.       *)
NothingNewShown ==
  \A t \in Turns : "result" \in turn'[t].shown => "result" \in turn[t].shown

LEMMA ShownMoves ==
  ASSUME TurnsInv, NEW t \in Turns, NEW x, Become(t, x),
         "result" \in x.shown => "result" \in turn[t].shown
  PROVE  NothingNewShown
BY DEF TurnsInv, Become, NothingNewShown

LEMMA FailedShows ==
  ASSUME NEW w \in TurnStates, NEW code
  PROVE  "result" \in Failed(w, code).shown => "result" \in w.shown
<1> DEFINE held == code = "E_RELAY" /\ w.count = 0
<1>1. Failed(w, code).shown = IF held THEN w.shown ELSE w.shown \cup {"error"}
  BY DEF Failed, TurnStates
<1> QED BY <1>1

LEMMA TurnStepShows ==
  ASSUME TurnsInv, NEW t \in Turns, TurnStep(t) \/ CancelTurn(t) \/ RelayHop(t) \/ RelayBreaks(t)
                                     \/ RelaySucceeds(t, NoSkill)
  PROVE  NothingNewShown
<1> DEFINE w == turn[t]
<1>1. w \in TurnStates
  BY AtTurn
<1>2. CASE IntentNode(t)
  <2>1. PICK key \in DOMAIN RECIPES :
          Become(t, [w EXCEPT !.pc = "route", !.recipe = key, !.steps = RECIPES[key]])
    BY <1>2 DEF IntentNode
  <2>2. [w EXCEPT !.pc = "route", !.recipe = key, !.steps = RECIPES[key]].shown = w.shown
    BY <1>1 DEF TurnStates
  <2> QED BY <2>1, <2>2, ShownMoves
<1>3. CASE LocalHop(t)
  <2> DEFINE a == Advanced(w)
             x == [a EXCEPT !.hops = @ + 1, !.shown = @ \cup {"reply"},
                            !.relayed = @ \/ Target(w) = "skills"]
  <2>1. x.shown = w.shown \cup {"reply"}
    BY <1>1 DEF TurnStates, Advanced
  <2>2. Become(t, x)
    BY <1>3 DEF LocalHop
  <2> HIDE DEF x
  <2> QED BY <2>1, <2>2, ShownMoves
<1>4. CASE RouteDone(t)
  <2> DEFINE x == [w EXCEPT !.pc = "after"]
  <2>1. x.shown = w.shown /\ Become(t, x)
    BY <1>1, <1>4 DEF TurnStates, RouteDone
  <2> HIDE DEF x
  <2> QED BY <2>1, ShownMoves
<1>5. CASE RecoverHeld(t)
  <2> DEFINE x == [w EXCEPT !.pc = "after", !.shown = @ \cup {"error"}]
             y == [w EXCEPT !.pc = "route", !.retry = @ + 1]
  <2>1. x.shown = w.shown \cup {"error"} /\ y.shown = w.shown
    BY <1>1 DEF TurnStates
  <2>2. Become(t, x) \/ Become(t, y)
    BY <1>5 DEF RecoverHeld
  <2> HIDE DEF x, y
  <2> QED BY <2>1, <2>2, ShownMoves
<1>6. CASE RecoverShown(t)
  <2> DEFINE plan == <<"composer">> \o Tail(w.steps)
             x == [w EXCEPT !.pc = "route", !.reviewed = TRUE, !.retry = 0, !.steps = plan]
             y == [w EXCEPT !.pc = "after"]
  <2>1. Become(t, x) \/ Become(t, y)
    BY <1>6 DEF RecoverShown
  <2> HIDE DEF plan
  <2>2. x.shown = w.shown /\ y.shown = w.shown
    BY <1>1 DEF TurnStates
  <2> HIDE DEF x, y
  <2> QED BY <2>1, <2>2, ShownMoves
<1>7. CASE EndTurn(t) \/ CancelTurn(t)
  <2>1. PICK pc \in {"done", "gone"} : Become(t, TurnOver(pc, w))
    BY <1>7 DEF EndTurn, CancelTurn
  <2> DEFINE kept == w.shown \cap {"result"}
             f == FreshTurn(1, NoSkill)
             x == [f EXCEPT !.pc = pc, !.shown = kept]
  <2>2. f \in TurnStates
    BY FreshFits
  <2>3. Become(t, x)
    BY <2>1 DEF TurnOver
  <2> HIDE DEF kept, f
  <2>4. x.shown = kept
    BY <2>2 DEF TurnStates
  <2> HIDE DEF x
  <2> QED BY <2>3, <2>4, ShownMoves DEF kept
<1>8. CASE RelayHop(t)
  <2> DEFINE x == [w EXCEPT !.pc = "relay", !.count = 0, !.code = "none",
                            !.held = FALSE, !.relayed = TRUE, !.hops = @ + 1]
  <2>1. x.shown = w.shown /\ Become(t, x)
    BY <1>1, <1>8 DEF TurnStates, RelayHop
  <2> HIDE DEF x
  <2> QED BY <2>1, ShownMoves
<1>9. CASE RelayBreaks(t)
  BY <1>1, <1>9, FailedShows, ShownMoves DEF RelayBreaks
<1>10. CASE RelaySucceeds(t, NoSkill)
  <2> DEFINE a == Advanced(w)
             x == [a EXCEPT !.skillId = IF NoSkill = NoSkill THEN @ ELSE NoSkill]
  <2>1. Become(t, x)
    BY <1>10 DEF RelaySucceeds
  <2>2. x.shown = w.shown
    BY <1>1 DEF TurnStates, Advanced
  <2> HIDE DEF x
  <2> QED BY <2>1, <2>2, ShownMoves
<1> QED BY <1>2, <1>3, <1>4, <1>5, <1>6, <1>7, <1>8, <1>9, <1>10 DEF TurnStep

LEMMA BeginTurnShows ==
  ASSUME TurnsInv, NEW t \in Turns, NEW round, NEW skillId \in Skills \cup {NoSkill},
         BeginTurn(t, round, skillId)
  PROVE  NothingNewShown
<1> DEFINE f == FreshTurn(round, skillId)
           x == [f EXCEPT !.pc = "route", !.recipe = "resume", !.steps = <<"composer">>]
           y == [f EXCEPT !.pc = "intent"]
<1>1. Become(t, x) \/ Become(t, y)
  BY DEF BeginTurn
<1>2. x.shown = {} /\ y.shown = {}
  BY DEF FreshTurn
<1> HIDE DEF x, y
<1> QED BY <1>1, <1>2, ShownMoves

LEMMA RelayFramesShow ==
  ASSUME TurnsInv, NEW t \in Turns, NEW sent \in Nat, NEW said, said # "result",
         RelayFrames(t, sent, said)
  PROVE  NothingNewShown
<1> DEFINE w == turn[t]
           x == [w EXCEPT !.count = @ + sent]
           y == [x EXCEPT !.shown = @ \cup ({said} \cap {"options", "result"})]
<1>1. w \in TurnStates /\ w.count + sent \in Nat
  BY AtTurn
<1>2. x \in TurnStates /\ x.shown = w.shown
  BY <1>1 DEF TurnStates
<1>3. Become(t, Failed(x, "E_RELAY_LIMIT")) \/ Become(t, Failed(x, "own")) \/ Become(t, y)
  BY DEF RelayFrames
<1> HIDE DEF x
<1>4. y.shown = x.shown \cup ({said} \cap {"options", "result"})
  BY <1>2 DEF TurnStates
<1> HIDE DEF y
<1> QED BY <1>2, <1>3, <1>4, FailedShows, ShownMoves

LEMMA ResultsKeep ==
  ASSUME AgentInv, ComposerInv', ResultMeansCommitted, [AgentNext]_agentVars
  PROVE  ResultMeansCommitted'
<1>0. TurnsInv /\ ComposerInv /\ Committed \subseteq Committed'
  BY AgentStepsCompose, CommittedStays DEF AgentInv
<1>1. NothingNewShown => ResultMeansCommitted'
  BY <1>0 DEF NothingNewShown, ResultMeansCommitted
<1>2. ASSUME NEW t \in Turns, Begin(t) PROVE NothingNewShown
  <2>1. BeginTurn(t, 1, NoSkill) \/ \E slot \in Slots : BeginTurn(t, 2, slot[2])
    BY <1>2 DEF Begin
  <2>2. \A slot \in Slots : slot[2] \in Skills
    BY AgentAssumption
  <2> QED BY <1>0, <2>1, <2>2, BeginTurnShows
<1>3. ASSUME NEW t \in Turns,
             Supervise(t) \/ HopToComposer(t) \/ HopToSkills(t) \/ SkillsAnswer(t)
               \/ Break(t) \/ Refused(t) \/ Disconnect(t)
      PROVE  NothingNewShown
  BY <1>0, <1>3, TurnStepShows DEF Supervise, HopToComposer, HopToSkills, SkillsAnswer,
     Break, Refused, Disconnect
<1>4. ASSUME NEW t \in Turns, NEW r \in Runs, DeliverEnd(t, r) PROVE NothingNewShown
  BY <1>0, <1>4, TurnStepShows, RelayFramesShow DEF DeliverEnd
<1>5. ASSUME NEW t \in Turns, NEW r \in Runs, Deliver(t, r) PROVE ResultMeansCommitted'
  <2>1. NodeStep(r) /\ RelayFrames(t, run'[r].sent, run'[r].said) /\ run'[r].sent \in Nat
    BY <1>0, <1>5, SentCounts DEF Deliver
  <2>2. CASE run'[r].said = "result"
    <3>1. r \in Committed'
      BY <1>0, <2>1, <2>2, NodesHonest DEF Honest, Committed
    <3> QED BY <3>1 DEF ResultMeansCommitted
  <2>3. CASE run'[r].said # "result"
    BY <1>0, <1>1, <2>1, <2>3, RelayFramesShow
  <2> QED BY <2>2, <2>3
<1>6. ASSUME UNCHANGED turn PROVE NothingNewShown
  BY <1>6 DEF NothingNewShown
<1>7. \A r \in Runs : Orphan(r) => UNCHANGED turn
  BY DEF Orphan
<1> QED BY <1>1, <1>2, <1>3, <1>4, <1>5, <1>6, <1>7 DEF AgentNext, Progress, agentVars

(* A result frame that reached the user speaks of a workflow that is in    *)
(* the database for good, for every number of turns, runs and broken       *)
(* connections.                                                            *)
THEOREM ResultAlwaysCommitted == AgentSpec => []ResultMeansCommitted
<1>1. AgentInit => ResultMeansCommitted
  <2> SUFFICES ASSUME AgentInit, NEW t \in Turns PROVE turn[t].shown = {}
    BY DEF ResultMeansCommitted
  <2> QED BY DEF AgentInit, SupervisorInit, FreshTurn
<1>2. AgentInv /\ AgentInv' /\ ResultMeansCommitted /\ [AgentNext]_agentVars
        => ResultMeansCommitted'
  BY ResultsKeep DEF AgentInv
<1> QED BY <1>1, <1>2, AgentInvariant, PTL DEF AgentSpec
=============================================================================
