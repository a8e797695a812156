# Formal models of flowit

flowit turns a conversation into a workflow (a graph of nodes), stores it, and
executes it. These modules model the parts whose correctness depends on order,
concurrency or failure. All paths below are relative to the repository root;
`EE` stands for `src/services/execution_engine/src`.

## 1. Inventory

| Component | State it keeps | Operations | What makes it hard | What must hold |
|---|---|---|---|---|
| **Execution lifecycle** (`EE/application/use_cases/execute_workflow.py`, `pause_resume.py`, `EE/adapters/postgres_execution_repo.py`, `celery_tasks.py`) | the `executions` row (status, node results, task id), the messages at the broker, the memory of each worker | execute, pause, resume, cancel, save, checkpoint | every database call is its own transaction; `acks_late` redelivers; several workers and control tasks at once; SIGTERM | the row never claims what did not run; a pause stops work; the row settles |
| **Workflow run** (`execute_workflow.py` from `_execute_loop` on, `branch_evaluator.py`) | results, outputs, reachability, forced edges, rounds | run a level, a loop round, skip, checkpoint, resume | a resume rebuilds memory from the row; a failed step leaves part of its results there; a redelivered start wipes it; the guard of loops; branches | exactly the live branches run; loops are bounded; what the row shows as done is done once |
| **Planner** (`cyclic_scheduler.py`, `topological_scheduler.py`) | none | plan | any graph, cycles included; the order of the document decides which edge is cut | every node once, data before use, only real loops are loops |
| Node dispatch (`dispatch_node.py`, `retry_manager.py`, `catalog_node_executor.py`) | attempt counter, plaintext credentials | dispatch, retry, inject, wipe | retry after a lost answer; parallel nodes | bounded attempts, no credential survives the node |
| Execution API (`src/services/api_server/app/routers/workflows.py`, `exec_control.py`) | none | submit, pause, resume, cancel | the row may not exist yet | modelled inside Execution |
| QA refine, hand-off (`evaluate_and_refine.py`, `handle_handoff.py`) | attempt number in node outputs | re-execute | the limit is read back from outputs | bounded attempts |
| **Documents** (`src/services/api_server/app/routers/documents.py`, `EE/adapters/document_tasks.py`) | the row of a document, its file, the chunks of its analyses | upload, analyse, delete; begin, parse, save, fail, mark | death between two transactions, redelivery, parallel analyses, a delete in the middle | a RUNNING row has somebody who will change it; only a task with an older copy of the row takes results back |
| **Credentials and OAuth** (`src/modules/auth`) | connections with encrypted tokens | inject, refresh, retry, complete and revoke a connection | parallel nodes refresh the same row from what each of them read | the stored expiry is honest; no node gets a token known to have expired |
| Sessions (`src/modules/auth`) | session rows | authenticate, refresh | little | - |
| **Supervisor** (`src/modules/ai_agent/adapters/supervisor.py`, orchestrator service) | route plan, retry, hop and frame counters, held error | classify, dispatch, relay, retry, review, cancel | three guards in one loop, streams that break in the middle | a turn ends; its failures are shown; the hop limit is a limit nobody meets |
| **Composer graph** (`src/modules/ai_agent/adapters/langgraph/composer_graph.py`, agent-composer service) | graph state of a request; draft, resume state and workflow rows of a session | twenty graph nodes, two rounds | two retry counters under one superstep limit, runs of one session that overlap, a transaction around a stream | what is saved is what was checked; a bound skill was offered; a result is a committed row |
| **Personal memory** (`src/modules/ai_agent/adapters/memory`) | index and files in GCS, a cache per container, a debounce file | claim, save file, save index | compare-and-swap with a late generation, stale cache, lost answers, a text that is parsed anew | the index names files that exist; one claim per window; a container keeps its own entries, those with a description |
| **Skills marketplace** (`src/modules/skills_marketplace`, skills router) | skills in three scopes, documents in GCS, approvals | create, update, submit, approve, reject, publish, archive, promote, delete | database and bucket without a common transaction, whole-row saves of old reads | a mark of promotion leads to a copy; a path leads to a document; published was approved, but for the seed |
| **Graph validator** (`src/modules/nodes_graph`) | none | validate | a second implementation of the planner's rule | refuses the cycles the planner refuses |
| Drafting, judging, editing; skills builder (`src/modules/ai_agent`) | none | model calls | - | modelled by their outcomes |
| Migration runner (`src/database/src/helpers/migration_runner.py`) | `schema_migrations` | run | failing statement inside one transaction | recorded iff applied |
| doc_parser, toolset, common_schemas, frontend, Modal hosts, infra, scripts | - | - | pure functions, adapters, user interface | not modelled |

How they interact: the API sends Celery messages by task name and never calls
the engine; the worker reads the workflow, plans it, runs its steps and writes
the row; control tasks are messages of their own that read and write the same
row; the worker learns of a pause only by reading the row between steps, and of
a cancel only by a signal. A chat message goes from the API server to the
orchestrator, which runs the supervisor; the supervisor relays the event streams
of the composer and of the skills builder, which are services of their own. The
composer writes the workflows the API later submits, and keeps drafts, offered
choices and the personal memory in a bucket. A node of a running workflow takes
its tokens from the connections that users make and renew through the API. The
list of hazards with their lines is in
`PROJECT.json`.

## 2. Modules

| Module | Models | Correspondence |
|---|---|---|
| `ExecutionPromise` | what an execution promises, seen from outside: nodes run in plan order, and the row shows only nodes that ran | abstract; implemented by `Execution` |
| `Execution` | the lifecycle: one action for every transaction and broker call | `pc[t]` is the worker's place in `execute()`, `row` the database row, `snap[c]` the object a control task read and will save, `revoked` the broker's revocations; steps of the plan are numbers, their nodes pairs of step and node |
| `ExecutionProofs` | proofs about `Execution` | section 5 |
| `WorkflowGraph` | a workflow as planner and validator see it: nodes, edges, conditions, reachability, which cycles can be left | `IsGraph` is what `validate_graph` accepts |
| `Components` | `_tarjan_sccs`, one edge at a time | `calls` are the open calls of `strongconnect`, `todo[n]` the edges its loop has still to visit, `comps` is `result` |
| `Kahn` | one round of Kahn's algorithm, which the planner runs three times | counts and ready nodes, as functions of a set of edges |
| `Plan` | what the planner hands to a run, and what a run takes for granted of it | `ExecutionStep` and `LoopBody` as records |
| `Scheduler` | `plan()` as a state machine over `Components` and `Kahn`: components, refusal, ranks, search for back edges, levels, and its properties | `phase` is the place in `plan()`; an action is an edge, a level or a step; the properties use reachability, not the algorithms |
| `GraphCheck` | the cycle check of `GraphValidator`, an iterative Tarjan beside the recursive one of the planner; implements `Components` | `work` is the list of nodes with the edges each has passed, `at` the place in the loop: `Look` is the first look at the top, `NextEdge` and `Return` what follows, `Judge` the verdict |
| `Admission` | one workflow before the validator and then before the planner | `Validate` and `Execute` are the steps of the two, which share the graph |
| `ComponentsProofs`, `SchedulerProofs`, `GraphCheckProofs`, `AdmissionProofs` | proofs about planner, validator and both | section 5 |
| `Planner` | the same algorithms as functions, which compute the plans for `WorkflowRun`'s instance | one operator per method: `StrongConnect`, `BackEdges`, `KahnLevels`, `BuildLoop`, `EmitSteps`, `PlanOf` |
| `WorkflowRun` | inside the steps: which nodes run, loop rounds, the checkpoint, and the attempts that start from it or from nothing | `reachable`, `output`, `forced`, `done` are the local variables of `execute()`; `saved` is `node_results` of the row |
| `RunPromise` | what the row of one execution shows: a whole step of the plan after the other, each decided by what is in the row; a failure leaves part of one, and an attempt from nothing empties the row | abstract, without pauses, crashes and resumes; implemented by `WorkflowRun`, whose `saved` is its `row` |
| `WorkflowRunProofs` | proofs about `WorkflowRun` | section 5 |
| `Composer` | the runs of one chat session through the composer's graph | an action is a graph node with the router behind it; `run[r]` is the graph state, `tx` the transaction of the request, `draftStore` and `resumeState` the two objects in the bucket |
| `Supervisor` | the hop loop of the supervisor | `turn[t]` holds the local variables of `_run`; what a stream does arrives through `RelayFrames`, `RelayBreaks`, `RelaySucceeds` |
| `AgentTurn` | chat turns: `Supervisor` over `Composer`, with streams that break, runs without a reader and clients that leave | a node's step and the frames it sends are one action; `stream[t]` is the run that is relayed |
| `AgentTurnProofs` | proofs about `Composer` and `AgentTurn` | section 5 |
| `Merge` | what saving a detached copy does to a row (SQLAlchemy's `Session.merge`) | used by `Skills` and `Documents`: which columns a save marks, and what it writes |
| `Skills` | the marketplace: rows, documents, approvals, and several requests on their way | a request is `Read`, bucket step, the second read of `merge` and the write in one transaction; each step may fail |
| `Documents` | one document: upload, analyses, delete | an action per transaction of the request; a save of the task is three: its copy, the read of `merge`, the flush |
| `PersonalMemory` | `memory_save_node` of several containers | an action per call to the bucket |
| `Credentials` | one connection and the parallel nodes that use it, with the retry loop of `dispatch_node.py` | an action per transaction of an attempt, provider and user in between |
| `Stores` | the four stores side by side | a behaviour follows one of them (`focus`): they share no state |
| `StoresProofs` | proofs about the four stores and about their composition | section 5 |
| `MCExecution`, `MCScheduler`, `MCWorkflowRun`, `MCAgentTurn`, `MCStores` | instances for TLC | - |

`Execution` and `WorkflowRun` look at the same use case at two scales. In
`Execution` a step is one action that succeeds, is skipped over or fails with
results of some of its nodes, and everything between steps is split as finely as
the database calls; in `WorkflowRun` there is one worker at a time and a step is
opened up. They share the point where the code joins them: status is read at
step boundaries only, and node results are saved there and when an attempt ends.
`WorkflowRun` takes any plan that has the shape of `Plan`; TLC runs it on the
plans that `Planner` makes, and the proof that all plans of `Scheduler` have
this shape joins the two.

The planner is written twice, because the two forms serve two ends. Recursive
functions give the plan of a graph at once, which the instance of `WorkflowRun`
needs, but nothing can be proved about them here. The state machine follows the
same code with the calls of its recursive procedures as sequences (`calls`,
`path`), and is what the proofs are about. `PlannersAgree` checks that both give
the same plan, step by step and edge by edge. What the state machine adds to the
state of the code is only its place. A node of a component is known by its index
when the order of the component matters (`StartsBefore`): nodes leave the stack
in the reverse order of their indexes. Edges that the document lists twice
without a difference are one edge.

`Admission` joins the validator and the planner by their graph, as the code does:
`POST /workflows/{id}/validate` and the composer ask the validator, and
`POST /workflows/{id}/execute` sends a workflow to the planner without asking it
again. Neither reads what the other wrote, so that the order of their steps is of
no consequence, and the validator goes first. Which nodes are conditions both
learn from the catalog; a catalog that changes in between is not modelled.

`AgentTurn` joins the modules as the services are joined. The supervisor knows
nothing of the composer but the frames of its stream, so `Supervisor` has them as
parameters; `AgentTurn` starts a run of `Composer` for a hop, hands each node's
frames to the supervisor, and lets the run go on by itself when the connection
breaks. That runs, stores and the workflows table are shared by everything the
session ever started is what makes this more than its parts: a retry may meet
the run it replaces. Every step of `AgentTurn` is a step of `Composer` or leaves
it alone (theorem `AgentImplementsComposer`).

Data are abstracted to what the properties can tell apart: a condition node's
output is the handle it selects ("other" selects none, so that all edges are
live), every other output is one value; the results of a node are what an
attempt that starts from them makes of them: the status of the latest, the
latest output, and their number. `_load_checkpoint` drops failed results, so a
failure adds nothing to them and the success of an earlier round stays; whatever
its retries were, a failure is one outcome. Operators named in a comment as
*Fault* are variants with a plausible bug, used to show that the properties
notice it.

What the smaller modules abstract, and what the code does there:

* `Composer`: language models, searches and repositories answer anything, or
  raise. A draft is known by how it came about, the skill bound to it, and what
  validator and judge said of exactly this object. `load_draft` answers None on a
  failed read as well as for no draft, so an edit may silently become a new draft.
* `Skills`: who may ask for what is left out, as are embeddings and searches;
  "restore" is a publish of a personal skill, which accepts APPROVED although its
  docstring names ARCHIVED only; an update with new instructions also deletes
  COMPOSER.md. A request saves its whole copy of the row: `merge` reads the row
  again, marks every column in which the copy differs, and inserts a row that is
  gone; a row that goes, or comes, after that read makes the save raise. So a late
  save may take back another request's state, path or mark, and put back a row that
  was deleted. Two promotions of one skill leave two copies, the mark names the last
  saved. Five company skills are seeded as published without an approval
  (`src/database/schemas/025_company_skills_seed.sql`): `Seeded`.
* `Documents`: a parser is one outcome of `Parse`. Every save of a task merges a
  whole copy of the row. The comments in `document_tasks.py` (lines 149 and 160) say
  that a failing analysis leaves the blocks alone; in the code its mark takes them
  back to what they were when it read the row, if another analysis stored a result
  in between, and so does the RUNNING mark of one that begins. A row may then say
  COMPLETED with older or no blocks beside the chunks of the lost result. That is
  what `ResultsKept` leaves room for, and nothing else. A task that saves after its
  document was deleted inserts the row again, and repeated analyses add their chunks
  again; no property claims otherwise, see the hazards.
* `PersonalMemory`: calls to the bucket block the container's event loop, so a
  container is in one such node at a time; clocks agree. The index is a text, in
  the bucket and in the caches; a line that ends in an empty description does not
  match `_INDEX_LINE_RE`, so an entry that a second round saves without a message is
  gone at the next save (`Parsed`). A stale cache loses what *other* containers
  listed. Hence `OwnEntriesKept` speaks of one container and of entries with a
  description. A message with a line break that imitates a line of the index, or
  cuts its own, is not modelled.
* `Credentials`: a token is the hour of its end; whether the provider tells it is
  fixed (`tells`). A late refresh overwrites a newer connection, and a rotated
  refresh token is not stored.
* `Supervisor`: the skills builder answers a chat turn without building, so
  `skill_then_compose` composes without the skill.

Mishaps: a dead container's message is redelivered (`task_acks_late`), a dead
child process's message is acknowledged (Celery's default for lost prefork
children), so `Mishaps` has both. The broker is Redis: a message that is not
acknowledged within the visibility timeout, because its execution takes long, is
given to a second worker while the first is still at work (`duplicate`). A
revoked task gets SIGTERM some time after the revoke (`Kill`). SSE publishing is
left out: nothing reads it back.

## 3. Runs

| Run | Question | Bounds |
|---|---|---|
| `Execution_safety` | does the row ever lie, does a pause stop work, is the promise kept? | 2 steps of 2 nodes, the second a loop, 2 tasks, 2 controls of any kind, 1 mishap of any kind (death of a worker with or without redelivery, duplicate delivery), 1 database error |
| `Execution_live` | does every message end, is a pause honoured, does the row settle? | 1 step, a loop of 1 node, 2 tasks, 2 controls, 1 crash with redelivery or duplicate delivery |
| `Execution_repeat` | can a step run twice? (yes) | 2 steps, pause and resume, no fault |
| `Execution_unfinished_loop` | can an execution be COMPLETED without a loop having ended? (yes) | 2 steps, the second a loop, pause and resume, no crash |
| `Execution_failed_resume` | does a failed resume leave PAUSED? (no) | pause and resume, 1 database error |
| `Agent_turn` | do turns end, show their failures, and save only what was checked and offered? | 2 turns one after the other, 5 runs, 2 skills, 2 users, the code's own limits (judge 3, plan 2, supersteps 40, hops 8, retries 1, frames 200), 1 broken connection or departure |
| `Agent_validator_ignored` | is a committed workflow clean to the validator? (no) | the same without a break |
| `Stores_shared` | do the four stores keep their promises? | 3 skills and 1 seeded, 2 requests at once and 7 ever; 2 analyses; 2 containers, 3 files, time 4, window 2; 2 nodes, 1 retry, 4 hours, life 2 |
| `Scheduler_plan` | is every plan right, do the planner's steps and its functions agree, and do validator and planner refuse the same graphs? | all graphs of 3 nodes with up to 3 edges, parallel and self edges included, and of 4 nodes with up to 4, edges in both orders, up to 2 conditions; one with two loops side by side |
| `Scheduler_gate` | is the condition's edge cut in a loop without entry? (no) | the same with fewer edges |
| `WorkflowRun_results` | do branches, loops and resumes compute the right thing, and is the row filled as if nothing had interrupted the run but failures and restarts? | all accepted graphs of 3 nodes with up to 3 edges, in which every node has an edge and every condition one to choose, four larger ones (quality gate with a parallel branch, loop behind a branch, diamond, two loops), limit 2 or 3, 2 mishaps (pauses, crashes, messages delivered again) |
| `WorkflowRun_forced_exit` | does a forced exit survive a resume? (no) | the same |

Why the bounds are enough. Two steps are the least with a boundary between
steps; two tasks are the worker that is paused and the one that resumes; two
controls are the least for a pause and its resume, or for two requests that
race. One mishap and one error give every place of the code the chance to fail
with everything else going on. The liveness run needs one step only: it has the
boundary before it and the one after it. Two nodes in a step are the least of
which one may fail, and one that fails in a later round of its loop is enough for
the step to look whole. Two mishaps of a run are a pause and a crash, two failed
attempts that are taken up again, or a restart after one of these; the resume of
what was paused or lost is not counted. Three nodes hold every shape of a
branch, a self loop, a loop with entry or exit and parallel handles (a node
without an edge runs apart from the others, and a condition without one chooses
nothing: no graph is spent on these); the larger graphs add what needs more.

In `Agent_turn` the first turn may have any recipe or answer an offer, the second
composes or answers; the answer is always s1, which one offer has and the other
has not, and comes from the user who was asked or from another. Five runs are a
first attempt, its retry or review, and those of the second turn. What the
validator reports is fixed to "issues" there, since no step looks at it
(`Agent_validator_ignored` has both answers). A run without a reader is let go to
its next node that touches a store, or to its end, before anybody else moves
(`Quiet`): in between it neither sees nor is seen. After a break a run retries
drafting no more than `MaxSharedRetries` times.

Two requests, two containers and two nodes are the least that race. Three skills
are one with its team and its company copy, or with two copies; seven requests are
the whole life of a skill (create, submit, approve, publish, archive, restore) and
one more that races it. Two analyses overlap or follow each other, and each may be
delivered any number of times; three files are two containers' entries
and a later one that could push them out. The requests of the marketplace are
interchangeable (symmetry `Alike`; the run has no liveness property). Four hours
are two lives of a token, and a refresh is due in the first.

Deadlock is not checked: executions, plans, sessions of bounded length and bounded
clocks come to their end.

**Fairness.** `FairSpec` assumes weak fairness of each worker's and each control
task's next step: Celery runs the tasks it was given, and a Python function that
was called goes on. Nothing is assumed of users, mishaps or failures. It also
means that a worker slot becomes free for a control task in the end; control
messages share the queue of the executions, so this may take as long as an
execution (see the hazards).

`AgentFairness` assumes that the live turn goes on when it can, and that a run
without a reader comes to its end. Model calls and connections have timeouts, so
a node returns, raises, or its connection breaks; nothing is assumed of which.
Under it `TurnEnds` holds through all retries, reviews and breaks.

## 4. Findings

1. *A step can run twice after a resume* (`Execution_repeat`): resume dispatches
   the new worker as soon as the row says PAUSED; the paused worker may still be
   inside its step. ADR-0025 says duplicated effects disappear.
2. *An execution completes without its loop* (`Execution_unfinished_loop`): a loop
   that fails in round 2 leaves the results of round 1 in the FAILED row, of every
   node; a resume finds all nodes there and passes over the loop. The docstring of
   `_Checkpoint` says that node results are of wholly finished steps only. A resume
   gets at a FAILED row because read, validation and save of a status are separate:
   in the trace FAILED is saved over the PAUSED that the resume had read (in the same
   way a late pause overwrites FAILED, against `VALID_TRANSITIONS`).
3. *A failed resume is lost* (`Execution_failed_resume`): the row already says
   RUNNING when the checkpoint cannot be read; the comment promises PAUSED.
4. *A loop at the start of a workflow may never exit early* (`Scheduler_gate`):
   the edge that is cut is not the condition's, so its source is always live
   and the loop runs to `max_iterations`; the docstring says otherwise.
5. *A forced exit is forgotten by a resume* (`WorkflowRun_forced_exit`):
   `forced_live` is not in the checkpoint, so the nodes after the loop are
   skipped and the execution completes without them.
6. *The composer ignores the graph validator* (`Agent_validator_ignored`):
   `_validator_node` drops the answer of `GraphValidator.validate`, which reports
   errors and does not raise; a draft with errors is saved, and the user is told
   that the structure was found valid.

## 5. Proofs

`ExecutionProofs` proves, for every number of steps, nodes, tasks and controls,
every choice of the steps that are loops, every set of mishaps and every bound
(the named assumptions of `Execution`):

* `TypeCorrect`, `CompletedCorrect`, `CheckpointCorrect`, `PauseCorrect`: the
  four invariants of `Execution_safety`;
* `PromiseImplemented`: `Execution` implements `ExecutionPromise`.

The argument. "The row holds only nodes that ran" is not inductive: a worker may
write its own list, a control task the list it read long ago, and either may
hold part of a step that failed. The inductive invariant `IInv` therefore says
it of all three at once (`Honest`), with what failures leave intact: nodes of a
step are there only behind all nodes of every earlier step (`InPlanOrder`). It
adds that a worker at step n holds all nodes of all earlier steps (`LoopOrder`:
this is why passing over restored steps is safe), and that COMPLETED is only
ever decided when all nodes have run (`CompletedHonest`). `NextTypeOK`,
`NextHonest`, `NextLoopOrder` and `NextCompletedHonest` show each part
preserved, one step per action. `PauseCorrect` needs one more fact (`PauseInv`):
while the row says PAUSED, a worker inside a step has not yet used the one step
it may finish, and entering another costs a failed read. The refinement follows
from `IInv` action by action: `RunStep` and `FailStep` map to `Run`, the saves
to `Commit`, all else stutters. What cannot be proved, because it is false, is
the same of steps: a step whose nodes have all run need not have run to its end
(finding 2).

`WorkflowRunProofs` proves, for every set of selectors, any number of pauses,
crashes and redeliveries and every set of workflows that satisfies
`PlansAssumption`:

* `RunTypeCorrect`, `ResumeCorrect`, `RoundsBounded`, `SkipsExact`: the invariants
  of `WorkflowRun_results`;
* `CheckpointFinal`: its action property;
* `PromiseOfRunKept`: `WorkflowRun` implements `RunPromise`.

`PlansAssumption` has two parts. `WellPlanned`: the levels of the steps partition
the nodes of the workflow, within a step and between steps, and every step has a
level. `PlannedForward`: every edge but a back edge leads to a later step or to a
later level of the same loop, a loop begins with a single node, back edges come
from the loop they close. That is what `SchedulerProofs` proves of every plan of
the planner (`PlansFitTheRun`, below), and TLC evaluates the assumption on the
plans of the instance. `SelectorsAssumption`
says that the mark for "no output" is not an output of a condition.

The argument. What a resume finds, what a failure leaves and how often a loop
goes round are sides of one fact, and none is inductive alone. While a worker
runs, the row and its memory agree on every node outside the body of the running
loop, and a node still to run that was not restored has no result (`Agreement`,
with `Body` empty at a step boundary). Of the running loop the row never has
every node (`DueIsOpen`: otherwise all would have been restored, and the loop
passed over), so what an attempt adds goes to a step that was not done, and a
step that is done stays as it is (`SavedIsKept`): that is `CheckpointFinal`.
Inside a loop, `RoundSoFar` says how far each level is ahead of the row; at the
last level the body is level again. The guard counts from 0 in every attempt, so
an attempt that a failure ended may have given a node as many results as a whole
run; `Bounded` counts these attempts, and says that a step which is not done has
all of its results from them. `Context` ties reachability and outputs to the
results. `StepEnds` is the lemma that a finished step, of whatever kind, keeps
the invariant, `StepFails` the one for a failed step; an attempt from nothing
meets it at once (`BlankMemory`).

That exactly the live branches run needs the order of the steps (`Order`). The
row holds steps from the start of the plan, all done but the last of them and
each rightly decided (`RowInOrder`; of a failed step this is said of the nodes
that have a result), and the worker is past steps that are in the row only
(`EarlierSaved`). What leads to a node is in earlier steps (`Predecessors`),
whose results no longer change, so a decision stays right (`DecidedKept`); a
resume may forget that an exit edge was forced, but what it decides anew it
decides from results that are still there, and the node it skips had no live
edge. A loop is asked at its first node only, and stays reached while it runs
(`LoopReached`).

The refinement follows action by action. A pause, a crash, a skipped step, the
entry into a loop and all rounds but the last stutter, and so does the resume of
what was paused or lost, because it restores all that is in the row
(`ResumeRestoresRow`); that of a failed or completed row is `GoOn`, and an attempt
from nothing `StartOver`. A level, a
skipped loop and the last round of a loop settle the step that is due
(`StepSettles`); the exit edges are forced exactly when a back edge still asked
for another round after the last one allowed. A failed level is `Fail`
(`StepFailsOpenly`): some nodes of one step gain the results of its last round, all
have those of the rounds before.

`StoresProofs`, for any number of nodes, hours, retries: `CredentialsHonest`
and `CredentialsFresh`. Both need that what an attempt carries between its
transactions was true of the token when it was read: the invariant relates the
expiry an attempt remembers, and the answer it waits to store, to the token
itself. Of the four stores together it proves that their composition implements
each of them (`StoresAreIndependent`), so that what is proved of one
store holds beside the others (`StoresKeepTheirPromises`), and the type invariant
of the composition (`StoresTypeCorrect`).

Of the personal memory, for any number of containers and files: `MemoryIndex`,
`MemoryDebounce`, `MemoryOwnEntries`. Caches and the entries of a node under way
name stored files; a claim in flight carries the generation it read, and a
generation met again means that nobody claimed in between. What a container listed
with a description is in its cache, and in the entries it is about to save.

Of the marketplace, for any number of skills, seeded ones and concurrent
requests: `MarkAlwaysFollowsCopy`, `PathAlwaysHasDocument`,
`PublishedAlwaysApproved`. What a request saves is a row read long ago, so the
invariant says of every copy what it says of the rows (`RowOK`, `RequestOK`):
its mark has a copy, its path a document, its state an approval, or it belongs
to the seed. That is enough because copies are never deleted, approvals never
withdrawn, a row's scope and origin never change (`SameSkill`), and the id a
creating or promoting request has reserved belongs to no row and no other
request (`Reserved`).

Of the documents, for any number of analyses: `RunningAlwaysWatched`,
`ResultsAlwaysKept`. The invariant adds that the task which wrote RUNNING, once its
last save has read the row, will write another status (`Watches`), that a copy for a
mark has the blocks the row had when it was made and a result its own (`BlocksFit`),
and that no task is sent before there is a row.

`AgentTurnProofs`, of the composer, for any number of runs, users and skills and
any limits:
`OnlyCheckedEverSaved`, `BoundSkillAlwaysOffered`, `AlwaysResumableUntilCommitted`,
and, under `RoomForRetries`, `RecursionLimitNeverHit`. The last one is arithmetic
over the graph: the judge sends a run back fewer than `QaMaxRetry` times, the
validator only the first `QaMaxRetry` times; a round of drafting is five
supersteps, an edit three (`Budget`). With the code's `QaMaxRetry = 3` and
`PlanMaxAttempts = 2` the proof needs a limit of at least 39; the code has 40, so
one more retry or one more node in the drafting loop would use it up. `PathOK`,
`DraftOK` and `SkillOK` say, node by node, what the transaction holds, what the
draft has been through and where the skills a run knows come from.

The same module, of chat turns, for any number of turns, runs and breaks:
`AgentImplementsComposer`, so that the composer's theorems hold of chat turns
(`TurnsKeepComposerPromises`); `ResultAlwaysCommitted`; and under `RoomForHops`
(`MaxHops >= 3 (MaxRetries + 1)`; the code has 8 and 1) `HopLimitNeverMet` and
`FailureAlwaysShown`. `HopsBound` counts the hops of a plan: each of its two
relays with its retries, and one more round of them after the one review. A
failed turn that was cut off by the hop limit would show nothing, which is why
the second theorem needs the first. `AgentTypeCorrect` adds the
bound of the breaks (`BreaksCounted`). Committed workflows stay (`CommittedStays`),
and of all nodes only the commit speaks of a result (`NodesHonest`).

`ComponentsProofs` and `SchedulerProofs` prove the planner right for every workflow
graph, of any size, that `validate_graph` accepts (`GraphsAssumption`), with self
edges, parallel edges and any set of condition nodes:

* `TarjanEnds`: `_tarjan_sccs` returns the partition into strongly connected
  components, those that are reached before those that reach them;
* `PlansFitTheRun` (with `EachNodeOnceHolds` and `EdgesForwardHolds`, which state
  its two halves by themselves), `LoopsAreComponentsHolds`,
  `RejectedIffNoExitHolds`, `OneEntryHolds`, `BackEdgesCloseHolds`: the properties
  of `Scheduler_plan` that speak of the planner alone, except `PlannersAgree`;
* `PlanningEnds`: `plan()` ends, with a plan or with E_CYCLE_DETECTED.

The argument for Tarjan's algorithm (`TarjanInv`). Reachability is defined by
closed sets (`Reaches`): what is reached from a is in every set that holds a and
that no edge leaves. Every node on the stack reaches an open call met no later
(`OpenReached`), an open call reaches everything pushed since (`OpenReach`), so
the nodes between two open calls of the stack belong to the earlier one. `low` of
an open call is the index of a node it reaches (`LowReached`), and covers the
edges already followed from the nodes that the call owns (`LowCovers`). When a
call ends with `low` still its own index, no edge leads from what it owns below
it; the set of all that is above it, with the components already found, is
closed, so the component is whole, and no component is reached by an earlier one
(`Sealed`). The last fact gives the condensation its order, without which a
cycle among components could not be excluded.

The argument for `plan()` (`SchedInv`, theorem `PlannerInvariant`). Kahn's
algorithm serves three times with one invariant (`KahnInv`: a count is the number
of edges from nodes not taken out yet) and one conclusion (`KahnEnds`: of a graph
without a cycle nothing is left over). That there is no cycle is proved for each
use: the condensation by the order of the components (`CompsAcyclic`), a workflow
without loops because each of its components is a node without a self edge
(`NodesAcyclic`), and a loop without its back edges from the search
(`SearchInv`, `SearchCuts`). Of the search, the gray nodes are its path, an edge
kept leads to a finished node or to the next one of the path, a back edge leads
back along the path; and because the body is strongly connected, one start
reaches all of it, so every node but that start has a kept edge to it and the
first level is a single node. The steps emitted so far are apart, follow
each other and are the components taken out (`StepsOK`, `Placed`). Two facts fall
out on the way: the cycle check of `TopologicalScheduler` never fails when
`plan()` calls it (`ScheduleEndsKeeps`), and the minimum of the limits exists
(`SmallestExists`).

`GraphCheckProofs` and `AdmissionProofs`, for every such graph:

* `ValidatorImplementsTheSearch`: the validator's loop takes the steps of the
  planner's recursive search (`Components`), and `CheckInvHolds`, its invariant;
* `VerdictIsRightHolds`: it refuses a graph exactly when a cycle has no condition
  node that could leave it;
* `PlansAsAlone`: after the validator the planner plans as it does alone, so that
  all its theorems hold of validated workflows;
* `VerdictsAgreeHolds`: what the validator passes the planner does not refuse, and
  it makes no plan of what the validator refused;
* `CheckingEnds`: the validator comes to a verdict.

The argument. The two searches differ in when a node is met: the engine numbers
it in the step that calls it, the validator when it next looks at the top of its
list. The refinement mapping therefore counts a node that waits on top as met
(`Waits`, `MetBy`); with it `Look` stutters, `Root` and the descent enter a call,
`Return` returns from one. The edges a call has still to visit are those the
search has not passed; of a node that is done there are none (`EdgesLeft`). The
mapping needs an invariant of the validator's own: a node that waits is not met,
and is on the list once (`WaitsUnmet`); every node below the top has passed the
edge it descended by, so that it is not met a second time when the search returns
to it (`BelowPassed`). `TarjanInv` of the engine's search, read through the mapping,
gives the rest: when the search has ended, its components are the strongly
connected ones (`Judged`), and a component is non-trivial exactly when its nodes
are on a cycle (`ClassOnCycle`). That the two verdicts agree then follows from
what each is right about.

The argument for the two endings. Neither needs fairness, and neither is a
temporal property of the prover's: each states that a measure of what is left
descends with every step, and that before the end the loop that is running finds
what it looks for. `SearchLeft` of the search is twice the nodes to meet, and the
edges to follow, and the open calls (`SearchProceeds`: a node met opens one call).
`PlanLeft` is ordered lexicographically (`Less`, well-founded by
`LessIsWellFounded`): the stages of `plan()`; then the search, or Kahn's levels,
or the components that wait (four each), are in the frontier (three) or pending
(one); then, of a loop, its search before its unfolding; then the nodes, edges and
calls inside. It rests on the invariants: that no node is taken out twice, and
that what is ready had a count, is `KahnInv` (`KahnProceeds`); that a frontier is
taken out of a finite number is `TarjanInv`. The validator has the search's
measure twice over, so that the look after each step fits in between
(`CheckLeft`). That a next node, a next edge, a first loop and a start of a body
exist (`FirstExists`, `FirstLoopExists`, `StartExists`) is what an order over a
finite set gives; in the code these are sorted lists and iteration in document
order, of which the models take the first that is left. What stays with TLC is
that the worker that calls `plan()` is scheduled at all.

Model-checked only: the liveness properties of executions and turns, which need
fairness (the prover has no ENABLED), and
`PlannersAgree`, because the functions of `Planner` are recursive operators, of
which this prover can show nothing.

## 6. Not modelled

SSE events, logging, the API's autobinding, an edit of a workflow between two
attempts of its execution, a message of the user that imitates lines of the memory
index, the contents of parameters and
outputs, worker slots, and every component of the table in section 1 without a
module. `PROJECT.json` gives the reason for each. Of the agents: the composer's
consultant, slot-filling and agent-loop nodes, which the wiring of agent-composer
never reaches; the permission resolver, which is not injected; the pipelines of
the skills builder, which keep no state. `EvaluateAndRefineUseCase` has no caller.
Sessions and tokens hold one row each and no protocol between several. Parsers,
prompts, schemas, node adapters and the user interface are most of the
repository's lines; they are pure functions or presentation, with no state whose
order matters. Multi-entry loops are modelled as the code treats them: only the
first node of the body is asked whether the loop is reached.

## 7. Plan

1. done: the engine (`Execution`, `Planner`, `Scheduler`, `WorkflowRun`), the
   agents (`Composer`, `Supervisor`, `AgentTurn`), the stores (`Skills`,
   `Documents`, `PersonalMemory`, `Credentials`), the validator's cycle check, and
   the proofs of section 5.
2. done: every safety property of the passing runs proved, but the comparison
   `PlannersAgree`; `RunPromise` with its refinement; the planner as a state
   machine, which discharges what `WorkflowRun` assumes of its plans; the
   validator's search as one that implements the planner's, and the agreement of
   their verdicts (`Admission`); that both come to an end.
3. The rest of the path from a committed draft to its execution: autobinding, and
   what the user sees of a draft on which the validator was ignored.
4. The skills builder's hand-over to the skills router as a component of its own.
