# ReqFlow: TLA+ models and proofs

ReqFlow is a FastAPI backend that helps a team write requirements with an AI
agent.  A user opens an *agent session* on one artifact type of a project, talks
to the agent, and decides on the artifacts it proposes.  The agent is a
LangGraph graph that runs as a background asyncio task and pauses on
interrupts; everything it knows between two tasks is in PostgreSQL.

The code is in `src/app`.  Paths below are relative to the repository.

## 1. Inventory

| Component | Code | State it keeps | Operations | Hard behaviour |
|---|---|---|---|---|
| agent sessions | `services/agent_service.py`, `models/agent.py`, `graphs/interrupts.py` | rows of `agent_sessions`, `agent_messages`, `agent_runs`, `agent_tool_calls`; the asyncio tasks | create, delete, list, send a message, approve / reject / request an edit, run a turn, drain the queue, expire | requests and tasks read a row, await, and write later; two transactions per approval; tasks are lost with the process |
| agent events | `services/agent_event_service.py` | none (polls the tables) | snapshot, stream; expires an abandoned session on the way | the stream closes when it sees an ended session |
| checkpointer | `graphs/checkpointer.py` | `agent_sessions.graph_checkpoint`, a lock per session | `aput`, `aput_writes`, `aget_tuple` | which pending writes survive a new checkpoint |
| agent graph | `graphs/nodes.py`, `graph.py`, `state.py`, `policy.py`, `session_phase.py`, `readiness.py` | `WorkflowState` of a turn | triage, converse, analyse, dispatch tools, cap | a resume re-executes the interrupted body; the cap ends a turn with tool calls left |
| agent tools and gating | `graphs/agent_tools/*`, `graphs/gating/*` | proposals, notes | draft, critique, propose, link, retire, ask, finalize | gates must agree between menu and dispatch |
| decision graph, lifecycle | `graphs/decision_graph.py`, `lifecycle_resolver.py` | decision nodes in the state | merge, supersede; classify an artifact as current, stale, orphaned, retired | precedence of the verdicts |
| artifacts, documents | `services/artifact_service.py`, `document_service.py`, `models/artifact.py`, `documents/registry.py` | `artifacts`, `artifact_versions`, links, evidence, reviews | create, update, restore, review, archive, upsert a document item, persist an approved proposal | approvals take row locks, manual edits take none; versions are numbered by hand |
| use cases | `services/use_case_service.py`, `use_cases/*` | one JSON document per project | staged generation, manual edits, diagram | long model calls between read and write; a heartbeat decides who may take over |
| workflow, links | `services/workflow_service.py`, `artifact_service.py` | `workflow_runs`, `artifact_links` | create a run, advance a step; link, retire | check, then insert |
| LLM providers | `services/llm_provider_service.py`, `llm_clients.py`, `routers/llm_providers.py` | `llm_provider_configs` | create, update, delete, health check; the wire formats | a check waits for the provider with a row in hand; nothing is locked |
| accounts, export | `auth_service.py`, `organization_service.py`, `project_service.py`, `export_service.py` | their tables | create, read, update, delete | none that interleaves |

Requests enter through the routers; each has a database session that commits
when the request ends (`database.py`), except where the service commits
itself.  A turn is started with `asyncio.create_task` and uses sessions of its
own; the graph's tools write `agent_sessions.status` while the turn runs, and
the service writes it again when the graph returns.  The checkpointer writes
`graph_checkpoint` of the same row after every step.  Approvals reach into the
artifact tables and then start the next turn.  The event stream reads all of it.

What makes each component correct:

* *sessions*: one live session per user, project and artifact type; a session
  shown as processing is processing; no proposal is undecided while the agent
  works on; a message starts at most one turn, and is not forgotten; ended
  means ended; decisions are given once and their consequences follow.
* *artifacts*: a version is never lost or overwritten; a proposal is persisted
  only on the versions it was written from; a document is accepted only when
  it is complete; approvals do not block each other for ever.
* *checkpointer*: a resume finds exactly the interrupt that is pending.
* *agent graph*: every turn ends; a draft is proposed, and a session finalised,
  only behind its gates.
* *prompts*: every request that is sent answers every call once, and shows the
  question before its answer.
* *lifecycle*: the agent and the REST graph see the same verdict, and some item
  may always be worked on.
* *use cases*: a late answer of the split pipeline never mixes with a newer
  generation; the table keeps what the documents state and passes its validator.
* *links, workflow*: no ring, and no step that was done disappears, except by a race.
* *providers*: a client is built only for settings that were probed.

PROJECT.json lists every component with its status, and every hazard with the
line where it bites and the properties that look at it.

## 2. Modules

| Module | What it is | Proofs |
|---|---|---|
| `AgentSession` | the sessions of one user competing for one slot: rows, requests, turns, queue, proposals, expiry, kills | `AgentSessionProofs` |
| `ApprovalLedger` | what the session service promises about the slot and the proposals, without rows or tasks; `AgentSession` implements it | `AgentSessionProofs` |
| `TurnLoop` | the graph of one session from inside: nodes, tools, gates, phases, interrupts and their replay | `TurnLoopProofs` |
| `PromptThread` | the message history, what of it is sent to a provider, the four wire formats | `PromptThreadProofs` |
| `ArtifactVersions` | the items of one document, their versions, the REST requests that edit them and the approvals that lock them | `ArtifactProofs` |
| `LifecycleReports` | the lifecycle verdicts over the rows of `ArtifactVersions`, computed by two loaders | `ArtifactProofs` |
| `ArtifactLinks` | links, retirement with an heir, workflow runs | `ArtifactLinksProofs` |
| `UseCaseRun` | the requests that generate and edit a use-case table, and how they interleave | `UseCaseRunProofs` |
| `UseCaseTable` | what the generation puts into the table, stage by stage | `UseCaseTableProofs` |
| `ProviderConfig` | the provider configurations of a user and their health checks | `ProviderConfigProofs` |

Each module that TLC checks has an `MC` module with its model values, casts of
inputs and symmetry.

How they meet.  `AgentSession` sees a turn as a task that may pause, end, fail
or meet the cap; `TurnLoop` opens the turn up, and `PromptThread` opens up the
messages of it.  `AgentSession` sees an approval as one transaction that gives a
verdict; `ArtifactVersions` opens that transaction up, one step per row lock,
and leaves the session out.  `LifecycleReports` extends `ArtifactVersions`: its
verdicts are functions of those rows, and its properties hold in every state of
that system.  `UseCaseRun` has the order in which requests read and write and
takes a stage's result as any result; `UseCaseTable` has what a stage computes
and lets nothing interleave.

### AgentSession

| Variable | Code |
|---|---|
| `row` | `agent_sessions`: `status`, `interrupt_type`, whether `updated_at` is past `session_abandoned_ttl` (`idle`), and what a resume would re-execute (`parked`): the node with the interrupt pending in `graph_checkpoint` or, when the turn was stopped between a tool's commit and the checkpoint, the node the checkpoint has next |
| `message` | the user's `agent_messages`; `seen` is the session row a request in flight has read; `stamp` orders `created_at` (the start of the request's transaction); `copies` counts the turns started with it |
| `proposal` | `agent_tool_calls` that need an approval; `followUp` is the second transaction the deciding request still has to run |
| `turn` | the asyncio tasks of `_run_graph` and `_drain_queue`; `seen` is the row a task has read before it writes its outcome or drains, `picked` the message the drain has read |
| `opening` | `create_session` requests that met the unique index |
| `clock`, `crashes` | counters |
| `orphaned`, `raced` | history only, see below |

One action is one database transaction together with the checks made on what it
read.  Where a request or a task reads a row, awaits something that is not the
database, and writes later, there are two actions and the row read travels in
the state.  The ORM writes the columns that differ from what was *read*: a
session read as ACTIVE and accepted keeps whatever status it has by then
(`AcceptMessage`), and `with_for_update` on an object that is already loaded
does not refresh it (`ExpireHolder` judges the row read before the lock).

| Actions | Code |
|---|---|
| `CreateSession`, `MeetHolder`, `ExpireHolder`, `RetryCreate`, `RefuseCreate` | `create_session`, 123-208: insert, meet the index, expire an abandoned holder, insert again, 409 |
| `DeleteSession`, `GoIdle`, `ExpireIdle` | `delete_session`; 72 h without a write; the expiry of `build_snapshot` |
| `Send`, `QueueMessage`, `AcceptMessage`, `RefuseMessage` | `handle_user_message`: read; then queue, start a turn, or 400 / 422 / 404 |
| `BeginFresh`, `BeginReplay`, `AskHuman`, `StreamReply`, `ProposeArtifact`, `EndTurn`, `HitCap`, `FailTurn` | what the graph does to the row during a turn |
| `ReadOutcome`, `FinishTurn`, `DropTurn`, `PickQueued`, `LeaveQueue`, `StartQueued`, `StartQueuedFails` | the end of `_run_graph` and `_drain_queue` |
| `Approve`, `ApproveRebases`, `Reject`, `RequestEdit` | the first transaction of a decision, under FOR UPDATE |
| `CompleteSession`, `ResumeTurn`, `ResumeSkipped` | the second one |
| `Crash` | the process is killed: tasks and requests vanish, tables stay; nothing at start-up recovers them |

Choices a reader should know:

* A transaction that reads and writes in one go, with only database awaits between,
  is one step (`ExpireIdle`, `CompleteSession`, `ResumeTurn`, what a tool writes during
  a turn) unless two tasks of a session write different columns from it.  They do at
  the end of `_run_graph`: it reads the row without a lock (`ReadOutcome`) and commits
  only the columns that differ from what it read (`FinishTurn`).  Of two overlapped
  tasks one may write the status and the other the interrupt, so TURN_FAILED beside a
  pending interrupt is a state of the model; the session is then `raced`.
* `FailTurn` may come at any point of a turn, also after a tool has committed its pause
  and before `ainvoke` returns, and after the graph has returned.  The handler then
  reads WAITING_FOR_HUMAN or COMPLETED and leaves the row as it is.
* A resumed turn re-executes the interrupted tool body, so `BeginReplay` writes
  the pause's status again before the graph goes on.
* A turn stopped by the cap is indistinguishable from one that ended, because
  `nodes.py` answers the undispatched tool calls with synthetic results; the
  branch of `_run_graph` for the cap never runs.
* `GoIdle` needs the session to have no live task: a task is cancelled after
  180 s and writes the row at every step, and the limit is 72 h.
* A pending interrupt is dropped when the next turn begins: the next
  checkpoint keeps only its own pending writes.
* `orphaned` marks the sessions shown as processing whose turn a kill took, or whose
  interrupt a failed turn cleared after another task had revived the session.
* `raced` marks the sessions in which a request or drain wrote over a row it
  had read before it changed, or a second task was started beside a live one.
  The code tolerates these races (section 6 says what comes of them), and
  the properties that say "without a race" exclude just these sessions.

### ApprovalLedger

Sessions are out, holding the slot, resting or closed.  A session enters the
slot only when it is free, a proposal is made by the session in the slot, an
approval or a rejection is given once and only while the session is not closed.
A request to edit may set a proposal aside even in a closed session:
`request_edit` has no such guard.  `AgentSession!KeepsLedger` is the refinement.

### TurnLoop

| Variable | Code |
|---|---|
| `node`, `pause` | the graph node to run next; whether it stands at `interrupt()` |
| `calls` | the tool calls of the last AI message |
| `ws` | the channels of `WorkflowState` in the checkpoint: phase, confirmed intent, elicitation, decision nodes, draft, critique rounds and verdict (`report`, the body it judged in `scored`), readiness, counters, draft sections; `open`, `dangling`, `torn` say which calls have no result |
| `db` | the document body, the lifecycle of the focused artifact and whether its predecessors are accepted |
| `rows` | what the tools of this agent run wrote: proposal, audit row, message |
| `changes`, `emptied` | a counter; history: a change from outside has emptied the document |

One action is one LangGraph super-step.  A tool that interrupts is executed
again from the top, on the same `ws` and on whatever `db` is by then, and the
updates of a batch reach `ws` when every call of it has returned.

| Actions | Code |
|---|---|
| `Begin`, `Restart`, `Answer` | the three ways `_run_graph` enters the graph: a first message, a message after a failed turn, a `Command(resume)` |
| `Triage`, `Converse`, `Orchestrate`, `Analyze`, `Summarize` | the nodes of `nodes.py` with the routing that follows each |
| `ToolsInterrupt`, `ToolsReturn` | the ToolNode: up to an interrupt, and to the end |
| `Raise` | an exception or time-out in a node |
| `OutsideChange` | REST writes to the document, its body included, and to its predecessors |

Choices: a body is a text, the view rendered from decision nodes, or the
assembled sections; a text holds the required headings or does not.  The
model's answer is any batch of a cast, of tools the menu offers and of `Strays`
it calls unasked.  A judge's verdict is any verdict.  `Begin` resets every
channel without a reducer, as `build_initial_workflow_state` does, and keeps
those with one.  A session begins on an empty document or on one that has a text.

`ArtifactUpdateRequest.body` asks for one character and accepts a blank one, and the
phase is derived from the stripped body: an edit from outside can empty the document.
If that happens in review the phase falls back to elicit with the critique already
begun, and the next step leaves elicit for review or finalize, an edge the machine
does not know and adopts with a warning.  `PhaseEdgesAreLegal` names this case
(`FellBack`) and allows no other.

### PromptThread

| Variable | Code |
|---|---|
| `log` | `WorkflowState.messages`: what the human, the model and the tools said |
| `summary` | whether there is a `conversation_summary` |
| `stage`, `answers`, `torn`, `failed` | the node to run next; a counter; answers whose tools step was lost; the last run raised |

`Begin`, `Converse`, `Analyze`, `Tools`, `Summarize` and `Raise` are what each node
does to the history.  `History`, `Thread` and the four formats
(`AnthropicMessages`, `BedrockMessages`, `ResponseItems` with `ChatMessages`,
`GoogleContents`) are operators over it, one per function of
`prompt_assembly.py` and `llm_clients.py`.

Two things the properties except, because the code does them: the calls of a
tools step that raised stay unanswered for as long as the window shows them
(`RecentlyTorn`), and when the bounded window starts inside a batch, the result
of a note behind a question is sent without its call (`CutOff`).

### ArtifactVersions

| Variable | Code |
|---|---|
| `item` | the child rows of one container in `artifacts`: `status` (`"absent"` before the row exists) and the number behind `current_version_id` |
| `version` | `artifact_versions` of each item; the position is `version_number`, `parent` is the number behind `parent_version_id`, `by` the tool call that wrote it |
| `document` | the status of the container row |
| `request` | REST requests between the read of an item and the write: the row and the versions they hold as ORM objects |
| `proposal` | proposals on document items: `base` and `basedOn` as `write_draft` records them, and how far the approving transaction is |
| `lock` | which approval holds a row FOR UPDATE; row 0 is the container |
| `created` | history: items made by POST `/artifacts`, which skips the container |

| Actions | Code |
|---|---|
| `Reserve`, `UpsertNew`, `ReserveAgain`, `Upsert` | `document_service.upsert_item` for a slot, a new and an existing item |
| `Create`, `Read` + `Update`, `Restore`, `ReviewApproves`, `ReviewRejects`, `Archive`, `Refuse` | the handlers of `artifact_service` |
| `Propose`, `Reject` | `write_draft`; a rejection |
| `LockFocus`, `SupersedeStale` | `_guard_current_base_version` |
| `LockPredecessor`, `Supersede` | `_guard_lifecycle_predecessors`, one row per step |
| `Collide`, `LockDocument`, `Commit` | `persist_agent_artifact_items`: number and insert, lock the container and count coverage, commit |
| `AbortVictim` | PostgreSQL rolls one transaction of a deadlock back |

Choices a reader should know:

* The items are the child rows of one container, one row per type, numbered in
  the order of their ids, which is the order in which predecessors are locked.
* A request is a read and one write transaction's effect.  Its insert of a
  version references the item, so the database makes it wait while an approval
  holds that item FOR UPDATE; `Writing` is that wait.
* The ORM writes the columns whose new value differs from the value *read*
  (`Changed`).  This is how a restored or archived item can come back through a
  request that judged it earlier.
* `create_item_version` numbers after the current version, not after the last
  one; the unique constraint turns the duplicate into an `IntegrityError`
  (`Insertable`, `Collide`, and `Refuse` for a request).
* A declined proposal was rejected or superseded: nothing reads it again.
* `Propose` is `write_draft`: the base is the version of the item at that moment, the
  versions of its ancestors are those the analysis of the turn read earlier.  The model
  takes for each ancestor any version that was current once, more than one analysis
  can see.  Approvals of one
  session are serialised by the session's row lock; the model lets them overlap,
  as those of different sessions do.
* The branch of `create_item_version` for a tool call that already has a version
  cannot be reached: the approval of an executed call returns before it.
* Left out: artifact links (an item in use is one some proposal was based on),
  archiving the container, two rows of one type.

### LifecycleReports

No variables of its own.  `Resolve` is `resolve_lifecycle`; `GraphReport` is what
`lifecycle_reports_by_id` computes from every row of the project, `SessionReport`
what the context loader of a turn computes from the types it loads
(`ContextTypes`).  The constant `Ancestors` of `ArtifactVersions` is assumed to be
what `ancestor_types` reaches (`AncestorsAreReached`).  `MayWrite` is the gate of `write_draft`.  An item stands for
its type.

### ArtifactLinks

| Variable | Code |
|---|---|
| `archived`, `heir` | `artifacts.status`, and `superseded_by` in the metadata |
| `back` | history: how many tickets were drawn when a retired artifact came back |
| `links` | `artifact_links` |
| `runs` | `workflow_runs` with the steps done |
| `request`, `ticket` | what a request in flight has read; the order in which transactions began |

`CheckLink` / `InsertLink`, `CheckRetirement` / `Retire` and `CheckRun` / `InsertRun`
are the two halves of `create_link`, `archive_artifact` and `create_run`: each
checks without a lock and writes later, the columns that differ from what it read
(`RetireAgain` writes none).  `DeleteLink` and `UpdateStep` are single
transactions; `Fail` is any error between the halves.  A retired artifact does not stay
retired: the approval of a draft of it makes it ACCEPTED and keeps its
`superseded_by` (`Accept`), `upsert_item` gives it any status and the client's
metadata (`Rewrite`, which also stands for the metadata of an `update`).  Metadata in
which the client itself names an heir are not modelled.  A row carries, as history,
its request's ticket and the tickets drawn when it was committed (`closed`), so
that two rows `Overlap` when neither request began after the other's commit.

### UseCaseRun

| Variable | Code |
|---|---|
| `exists`, `table`, `generation` | the row of `use_case_models`: its table, and the marker `generation` inside the JSON |
| `age` | time since the heartbeat, in model-call timeouts |
| `request` | a request between its read and its write, the length of its model call (`held`) and of the whole monolithic request (`life`) |
| `runs`, `calls` | counters |

| Actions | Code |
|---|---|
| `Start`, `MeetNoRow`, `InsertRow`, `InsertCollides` | `_mark_generation_started`, with and without a row |
| `GroupsDone`, `ReadForCandidates`, `CandidatesDone`, `CandidatesDiscarded`, `Select`, `ReadForDetails`, `DetailsDone`, `DetailsFail`, `ReadForRelations`, `RelationsDone`, `RelationsFail`, `Finalize` | the endpoints of the split pipeline |
| `BatchDone`, `WholePersists`, `WholeRelates`, `WholeDone` | the monolithic pipeline |
| `CallFails`, `Breaks`, `StepBreaks` | the service's and the route's failure marks |
| `EditActors`, `DeleteActor`, `Relate`, `Unrelate`, `EditPlantUml`, `Drag` | manual edits |
| `Tick`, `Crash` | time; a kill |

Choices: a row id is named by its module, so a regenerated table reuses ids;
the use case in the row tells the two apart.  One unit of time is one model-call
timeout, so no call lasts longer than one.  The JSON is replaced as a whole under
a row lock, so a write is one step and only the time between read and write
interleaves.

### UseCaseTable

| Variable | Code |
|---|---|
| `source` | the stored BRD / PRD lines and the stakeholder register |
| `stage`, `table`, `floor`, `enriched`, `shortlist` | how far a pipeline is and what it holds |
| `diagram` | actors dragged to a side, and the side of each |

`BuildFloor`, `EnrichBatch`, `CompleteTable` are the monolithic pipeline;
`GenerateGroups`, `ProposeCandidates`, `SelectRows` the split one; `Relate`,
`RelateFails` and `LayOut` end both.  The parsing of `completion.py`, the merge of
drafts, the three selection passes, the acceptance of relationships and the
validator of `rules.py` are operators.  A line of a document is what its parser
makes of it, so tables, prose and headings are forms of a record.

Loops that fill a list are written by what they pick: `Where` is a filter,
`FirstEach` keeps the first element of each key, `InOrder` lists a set in an order;
each picks members of a sequence by their positions.  Loops whose next choice
depends on those before are recursive functions on the number of steps: a pass of
the selection (`Pass`, `Fill`) and the placing of actors (`ActorSides`).  Of several
actors of one weight the code places the first by name, the model any: the layout is
balanced whichever it is.

### ProviderConfig

| Variable | Code |
|---|---|
| `row` | `llm_provider_configs` of one user: status, default, the settings a ping uses, the age of the last check |
| `req` | a call that has read its row and not yet committed |
| `probed`, `raced` | history: the settings of the last good probe; rows a late call wrote |

`StartCreate` with `Overwrite` or `Insert`, `StartUpdate` / `EndUpdate`, `StartDelete` /
`EndDelete` and `StartCheck` with `CheckSupported` or `CheckFailed` are the service's
calls, `CooledDown` is the passing of thirty seconds.  `Merge` is the ORM's flush
of changed columns, `OneDefault` the partial unique index, `Commit` the end of
`get_db`.  `CheckFailed` writes nothing: the mark ERROR is rolled back with the
HTTP error that the router raises.

## 3. Runs

| Run | Instance | Asks |
|---|---|---|
| `session_one` | 1 session, 2 tasks; 2 messages, 2 proposals and 2 kills, or 3 messages, 1 proposal and no kill | what requests, turns, drains and approvals keep true of a session, its queue and its proposals |
| `session_two` | 2 sessions, 2 messages, 1 proposal, 2 tasks, 1 kill | is the slot exclusive; does the service implement `ApprovalLedger` |
| `session_live` | 1 session, 2 messages, 1 proposal, 2 tasks, 1 kill, fairness | is a session shown as processing for ever |
| `turn` | 11 kinds of batch, 3 messages, 1 change from outside, fairness | are gates, phases, notes, sections and replays right over a whole session; does every run stop |
| `thread` | 4 messages of 2 texts, 6 kinds of answer, 2 answers | is every request that is sent well formed in all four formats |
| `lifecycle` | 3 items of 2 documents, 1 request, 2 approvals, 3 versions | are versions one chain, approvals on current predecessors, documents in step with their items; do the lifecycle reports agree; may something always be drafted |
| `links` | 3 artifacts, 2 relation types, 2 requests at a time, 4 in all | do rings of links, and lost steps, come from overlapping requests only; rings of heirs also from an artifact that came back |
| `usecase_run` | 2 requests, 2 modules, 2 use cases; 2 runs and 1 call, or 1 and 2 | does the table stay consistent whatever an answer finds when it arrives |
| `usecase_live` | 2 requests, 1 module, 2 runs, 1 call, batches and dragging, kills, fairness | can a project always generate again |
| `table` | 7 documents, casts of answers for each stage | does the table keep what the documents state, pass the validator, spend its budget well, and balance the diagram |
| `provider` | 2 rows, 2 calls, 2 settings | is a client only built for settings that were probed |
| `find_cap_completed` | 1 session, no kill | a turn stopped by the cap completes its session (violated) |

### Bounds

*Sessions.*  Two tasks are enough for every overlap the code can produce between a
task and the one that should have waited for it.  Three messages are one that
starts a turn, one queued behind it and one racing with the drain.  Two
proposals are needed for "all decided"; two sessions for the slot.  Nothing
remembers a kill but the rows it leaves; a second one may hit the recovery from
the first.  A third message comes only without a kill and with at most one proposal
(`FewEvents`).

*Turns.*  `MaxTurns` is 3 (30 in the code), `MaxRounds` 1 (2), `RepeatExit` 2 (3),
`SummaryEvery` 2 (6): each limit is reached within the run and each has a step
before it.  `MaxJudge` is 0 (1): the judge's budget changes no other channel.  Three messages are a greeting, an answer and a restart.
One heading and one whole text are the least with which a draft is incomplete,
then complete; two notes, that a batch can add one beside another.  `MaxChanges`
is 1: one edit from outside between a critique and a finalize, or one that empties the
document in review.  A run starts on a document in progress with accepted predecessors,
empty or not (`OneStart`); the edit makes it otherwise.

*Threads.*  With a summary every second message, four messages give a history that
is longer than the window, and a summary in between.  Two answers are a batch
that is torn, stopped or answered, and one after it.

*Versions and lifecycle.*  Two versions are enough for a stale base, a restore and
the number that is taken after it.  Of three items one belongs to another
document, and each follows the ones before it; only the first may have a
second version, and three versions are written in all (`FewVersions`): the item
whose move makes others stale is the predecessor.  Requests work on the first item
and the last (`FewRequests`).  A second approval is under way only beside the
first, on the item in the middle, without requests (`FewWriters`): the two then
lock one another's predecessors, which is the deadlock `AbortVictim` breaks.  `BodyStatuses` is the status a
human's update may ask for.

*Links.*  Three artifacts are the shortest ring that two checks cannot see at one
glance; four tickets, a ring of three and one request more, or two retirements with a
return between them.

*Use cases.*  Two runs are a run and its successor; two requests, a late answer and
the one that overtakes it.  `StaleAfter` is 2 model-call timeouts (in the code
600 s, a little more than three of 180 s): more than one call, less than a few.
A late answer, its successor and one more step make three runs and calls in all
(`FewSteps`).  `usecase_run` has no monolithic batches and
no dragging; `usecase_live` has them, over one module.

*Tables.*  `Budget` is 3 (20), `ShortMin` 2 (6) and `ShortMax` 3 (15): a budget that runs
out in each of the three passes.  The documents are one per branch of the
parser: tables, prose, both, features, two spellings of a role, a roster, no
requirement.

*Providers.*  Two rows are the one that is enabled and the one another create
makes; two calls, a read and the commit that overtakes it; two settings, the
probed ones and others.  Two rows hold the same settings (`SameSettings`): a row
is only ever compared with itself.

The invariants that are proved do not rest on these bounds.

Deadlock is not checked in any run, because messages, versions, tickets, runs and
answers are finite and each system may rightly come to rest.

### Fairness

*Sessions* (`AgentSession!FairSpec`).  asyncio runs every task that can run, and
`wait_for` stops a graph after `agent_turn_timeout_seconds`: weak fairness of each
task.  A request that was received is answered, and so is its second transaction.
Time passes (`GoIdle`), and the workbench's open event stream polls its session
(`ExpireIdle`).

*Turns* (`TurnLoop!FairSpec`).  The runtime drives a started graph on: weak fairness
of the step of whatever node is next, or of its failure.  `Begin`, `Restart` and
`Answer` are the human's and are not forced.

*Use cases* (`UseCaseRun!FairSpec`).  asyncio runs each request, `wait_for` ends its
model call, and time passes: weak fairness of `Tick` and of each request's
`EndStep`.

No fairness is assumed of users, of the model's answers, or of kills.

## 4. Proofs

`AgentSessionProofs`, for any number of sessions, messages, proposals, tasks and
kills:

| Theorem | Says |
|---|---|
| `TypeCorrect` | `Spec => []TypeOK` |
| `SlotIsExclusive` | `Spec => []OneHolder` |
| `ProcessingIsAttended` | `Spec => []ProcessingHasTurn` |
| `ServiceKeepsLedger` | `Spec => KeepsLedger` |

Assumptions: `NoSessionAssumption` and `NoMessageAssumption` (the two null values
are not a session and not a message) and `MaxCrashesAssumption` (a natural
number).

`TypeOK` alone is not inductive: a task that is not idle needs a session to
write to, a drain needs the message it picked.  `Typed == TypeOK /\ Linked` adds
that every link leads somewhere.  The operators that write a variable (`Mark`,
`Write`, `Step`, `Settle`, `StartTurn`, `FollowedUp`) each have a lemma saying
what they do, and `TypeStep` has one step per action.

For the slot, `RowStep` shows that a step either leaves the table of rows alone
or `Moves` one session: the others keep their rows, and the session is in the
slot afterwards only if the index `Admits` it.  `SlotInv == Typed /\ OneHolder` is
then inductive.  `ProcessingHasTurn` is inductive together with it: a row becomes
processing only in a step that starts a turn, and a turn leaves the unsettled
states only by writing the row, or by finding nothing in it that it has to change.

The refinement uses the same two facts: `Moves` is a `Move` of the ledger (a
session enters only a free slot), `ProposeArtifact` is an `Ask`, the decisions
are `Judge` or `SetAside`, and every other step leaves the three abstract
variables unchanged.

Its second part is about what the races leave alone:

| Theorem | Says |
|---|---|
| `FailureClearsInterrupt` | `Spec => []TurnFailedIsClear` |
| `MessageStartsOnce` | `Spec => []StartedOnce` |
| `FailureDrains` | `Spec => []FailedTurnDrains` |
| `ProposalIsAwaited` | `Spec => []OpenIsAwaited` |
| `WorkAwaitsDecision` | `Spec => []DecidedBeforeWork` |
| `ApprovalReleases` | `Spec => []ApprovedIsReleased` |
| `EndIsFinal` | `Spec => EndedStaysEnded` |

`TaskInv` is `SlotInv` with these parts.  `Bookkeeping` holds with races and
without: an idle row has no task, a queued message has started nothing, the
second transaction of a decision fits the first, a drain picks from its own
queue.  In a session that nothing raced in, `OneTask` says it has at most one task,
`PickedWaits` that the message a drain picked is still queued, `WorkHolds` and
`HaltHolds` that a turn at work, and one that paused or failed, belongs to a session
in the slot (or one that an approval has completed meanwhile).  `SeenIsCurrent` says
that the row a task has read to write its outcome is still the row: what the task
writes is then decided on what is there, so TURN_FAILED and the cleared interrupt come
together, which is `TurnFailedIsClear`.  Where two tasks overlapped this is false, and so
is the property.  The first three give `StartedOnce`: only a drain and an answered request start a
message, and neither finds it started.  `Asked` strengthens `OpenIsAwaited` and
`DecidedBeforeWork` into one statement that survives a step: a session has at
most one undecided proposal, counting one whose second transaction is to come,
asks the human about it, and has no turn at work.  `Released` needs more than
the property: the approval interrupt that is left in the checkpoint must not be
replayed, so any turn that is starting has a fresh input.  A step touches the
tasks and proposals of one session only, and every part is proved over a few
kinds of step (`RowStep`, `TaskStep`, `RowCases`) before it is proved over the
actions.

`TurnLoopProofs`, for any batches of calls, headings, notes, texts and limits:

| Theorem | Says |
|---|---|
| `AnswersAreHeardOnce` | `Spec => HeardOnce` |
| `RunsAreClean` | `Spec => []RunsLeaveOneOfEach` |
| `ProposalsPassGates` | `Spec => []ProposalsAreGated` |
| `PhasesMoveLegally` | `Spec => PhaseEdgesAreLegal` |
| `RecordsAreKept` | `Spec => NothingVanishes` |

Assumptions: those of `TurnConstants`.  `Inv` has six parts.  `Shapes` are the
types it needs.  `Phased` says that any phase after the first was reached with a
confirmed intent, and that no critique is older than the phases that offer it.
`Founded` says that a critique that has begun judged something: a node, which stays,
or a body, which the document has until it is emptied from outside.  Both hold
beside `emptied`, the one way to lose what was judged.  Without these two the phase derived
from the channels could fall back along an edge that the machine does not know.
`InTools` is what the gates leave to the tool node (one interrupting call, no
tool the phase excludes), `Asked` what passed its checks when the human is asked, and
`Closed` says which nodes may see a call without a result.

What a batch does is proved call by call: `Sift` and `Applied` are recursive functions
on the length of a batch, and `Stepwise` facts about them are inductions over that
length.  A tool call `Progressed`: it removes no node, keeps the sections that are
not its own, and adds a message of the human only if it is the call that asked.
`SelectSeq`, `@@` and `:>` say nothing to the provers, so the module has
`Sift`, `Merge` and `Put` in their place, with the same meaning.

`ArtifactProofs`, its first part about `ArtifactVersions`, for any number of items,
ancestors, approvals, requests and versions:

| Theorem | Says |
|---|---|
| `TypeCorrect` | `Spec => []TypeOK` |
| `VersionsFormAChain` | `Spec => []NoLostEdit` |
| `ApprovalsExtendTheirBase` | `Spec => []ApprovalExtendsBase` |
| `ApprovalsAreBasedOnCurrent` | `Spec => BasedOnCurrent` |
| `AcceptanceIsComplete` | `Spec => []AcceptedIsComplete` |
| `CompletionIsAccepted` | `Spec => []CompleteIsAccepted` |
| `DocumentsFollowItems` | `Spec => []DocumentsAreDerived`, the two together, as the run checks them |

Assumptions: `ItemsAssumption` (items are positive numbers, and there is one),
`NobodyAssumption`, `StatusesAssumption` and `VersionsAssumption`.  That no item
is its own ancestor (`AncestorsAssumption`) is stated for TLC and not needed.

`Inv` has these parts: `Typed` (the types, and that links lead somewhere);
`Guarded`, that a transaction under way still holds what it has checked, the
rows it locked (`HoldsItem`) and the coverage it counted (`HoldsDocument`);
`NoLostEdit`; `Authored`, that a version written by an approval belongs to that
proposal's item and base; and the two statements about acceptance.  `Guarded` is
the reason the others hold: from the lock to the commit, no other writer may
move a row that `Commit` relies on.

Two summaries keep the case analysis small.  Every REST write `Edits` one free
item: it changes one row, appends at most one version after the current one, and
either recomputes the container's status or leaves it alone.  Every approval
step leaves the tables as they are (`Steady`) or `Commits`.  The invariant is
then proved once for an edit, once for a steady step and once for a commit.

`UseCaseRunProofs`, for any requests, modules, use cases, actors, batches and runs:

| Theorem | Says |
|---|---|
| `TypeCorrect` | `Spec => []TypeOK` |
| `FlowsStayWithRow` | `Spec => []FlowsMatchRow` |
| `CandidatesAreOwn` | `Spec => []CandidatesOfThisRun` |
| `RowsAndRelationsHold` | `Spec => []NothingDangles` |
| `CompletionIsWhole` | `Spec => CompletedIsWhole` |

Assumptions: those of the module (`NoName` is no use case, every use case has an
actor, the numbers are numbers, a heartbeat is stale only after more than one
call).  The invariant says of each of the three parts of the state what makes
it sound by itself: `SoundTable`, `OwnCandidates` and `SoundRequest`.  The last is the strengthening:
between `WholeRelates` and `WholeDone` a request carries rows and relationships
that it will write without another look, so they have to fit each other while
they are in flight.  Nothing is needed about the run a request belongs to: the
checks on arrival (`SameRow`, `OwnRun`, `StillThere`) re-establish what the wait may
have broken, which is the point of the theorems.  `CompletedIsWhole` holds of
every step that starts in the invariant.

`ProviderConfigProofs`, for any rows, calls and settings:

| Theorem | Says |
|---|---|
| `TypeCorrect` | `Spec => []TypeOK` |
| `ClientsAreProbed` | `Spec => []UsableWasProbed` |
| `OneIsEnabled` | `Spec => []OneConfiguration` |
| `DeletionIsFinal` | `Spec => DeletedStays` |

Assumptions: there is a row to insert, and `None` is neither a setting nor a row.
The invariant adds `InFlight` to the two properties: a call that is not late holds
a copy equal to its row, a create that found no row and is not late would still
find none, and what any call has read was enabled then.  With it, the write of a call that is not late is a
write over the current row, and a late one marks its row.  `MergeRow` and
`CommitCases` say what a flush and a commit leave behind; each action is then one
case.

`PromptThreadProofs`, for any words, answers of the provider, tools and limits:

| Theorem | Says |
|---|---|
| `HistorySound` | `Spec => []SoundLog`, an inductive invariant |
| `QuestionIsKept` | `Spec => []QuestionKept` |
| `SignaturesAreKept` | `Spec => []SignaturesKept` |
| `HistoryIsWhole` | `Spec => []Grammar`, inductive together with `SoundLog` |
| `CallsAreAnswered` | `Spec => []CallsAnswered` |

Assumptions: `ThreadConstants`.  A summary is made of at least two messages of the
human; the tools that talk have a priority; a plain text becomes a call of
`ask_user` or `respond` (`_plain_response_tool`); and what stands for a result that is
no answer of the human, `"DONE"`, is nothing the human says.

`SoundLog` says of every entry of the history where it came from: a call says what
the provider said at its place, or was made of a plain text (`Faithful`); a result
answers a call before it; and if it is the human's answer, only results are between
the call and it (`Answered`).  The window of `_bounded_history_start` begins with a message of the
human and keeps two, so it cannot begin between the question and the answer
(`StartKeepsQuestion`).  That the question is then sent is an induction over the
merge (`Merging` holds the messages after each entry): a message of the model stays
as it is (`ModelStays`), every block of the thread comes from an entry of the history
(`MergedIsKnown`), and what is put at the end are texts (`Tailed`).  `FlattenSeq` and the
merge are recursive functions; that each exists is `StepsExist`.

`CallsAnswered` needs more than the origin of each entry: the shape of the whole
history.  `Grammar` says that each entry with calls is followed by its `Batch`, the
results of all its calls, each once, with at most one message of the human right
after one of them; that only the calls of a tools step that was lost (`torn`), and
those of the last entry while its tools run, have none (`Kept`); that every result
is in such a batch (`Owned`); and that the ids of the calls tell their batch and
their place in it (`Numbered`).  From there, in steps:

1. `HistoryMerges` follows the merge entry by entry.  After the entries `s .. p`, a
   call and its results are in neighbouring messages (`UsesAnswered`), a result
   without its call is of a call before `s` (`ResultsAnswer`), and within a batch the
   last two messages are the call and the results so far (`InBatch`).
2. A result whose call is before the cut is in `CutOff` (`EarlyIsCutOff`); a call that
   is sent without results was torn within the last `SummaryEvery` messages of the
   human, hence in `RecentlyTorn` (`OpenIsTorn`).
3. What is added at the end of the thread are texts and changes no id
   (`ThreadPaired`).  The Anthropic and Bedrock formats keep the ids of each message as
   they are (`PairedAlike`, `BlockByBlock`).
4. Google replays only what it made itself: a call without a signature becomes a text, and
   so does its result.  `ResultGiven` says that the two are decided alike, so
   no half of a pair is dropped (`GooglePaired`).
5. The chat format cuts a message into one item per result.  `FlatPlaces` says where
   each item is put, and `ThreadChatPaired` that nothing but results is between a
   result and its call.

The second part of `ArtifactProofs`, about `LifecycleReports`, for any items, documents
and dependencies of types:

| Theorem | Says |
|---|---|
| `ReportsNeverDiffer` | `Spec => []ReportsAgree` |
| `GateNeverCloses` | `Spec => []SomeoneMayWrite` |

Assumptions: those of `ArtifactVersions` and the two of the module, that a type
follows only types with smaller numbers and that `Ancestors` is what
`ancestor_types` reaches.

The walk of `ancestor_types` is a recursive function.  The least set closed under
predecessors satisfies its equation, so the function is what the equation
says; that ancestors of ancestors are ancestors (`AncestorsAreClosed`) then follows by
a least counterexample.  For the reports: a session loads the types its own item
is built from, so any verdict of theirs is over the same rows, and where it
loads less it can only miss a predecessor (`BlockedIsTheWorst`).  For the gate: take
the first item that is not current.  Its ancestors come before it and are
current, hence accepted; and since a proposal is based on ancestors of its item
only (`BasedOnAncestors`, the invariant added to those of `ArtifactVersions`), it is no
orphan, and `write_draft` is let through.

`ArtifactLinksProofs`, for any artifacts, relation types, steps and requests:

| Theorem | Says |
|---|---|
| `TypeCorrect` | `Spec => []TypeOK` |
| `DoneStepsStay` | `Spec => []StepsStayOnView` |
| `ChainsOfHeirsEnd` | `Spec => []HeirsLeadSomewhere` |
| `RingsComeFromRaces` | `Spec => []RingsAreRaces` |

Assumptions: `None` is no artifact and the bound on tickets is a number.  The
invariant says that tickets are not from the future, that whoever still wants to
insert a run began before any run that is there was committed
(`PendingOverlaps`), hence that any two runs overlap (`RunsOverlap`), and that one
run is the latest (`SomeRunIsLatest`), without which the `CHOOSE` of `get_current_run`
would say nothing.

For the heirs, `HeirInv` dates everything that names an artifact to take over,
written or on its way (`Claims`): it began before the artifact it names got an heir of
its own was committed, unless that artifact came back after it (`ClaimsPrecede`).  Around a
ring of heirs none of which overlap and none of which came back, the tickets would
fall for ever.  For the links, `LinkInv` says of every link, and of every request
that has passed its check, that some set of artifacts closed under the links
committed `Earlier` contains its target and not its source (`Apart`).  The last link
of a ring without overlaps has all the others before it, and they lead from its target to
its source.  Paths are counted in `Reached`, a recursive function, and the
inductions over their length use sets of numbers and the least number of such a set
(`Induct`, `LeastNatural`).

`UseCaseTableProofs`, for any documents, answers of the provider, evidence and
budget:

| Theorem | Says |
|---|---|
| `FloorStays` | `Spec => []FloorIsKept` |
| `TableStaysSound` | `Spec => []TableIsSound` |
| `SelectionAlwaysCovers` | `Spec => SelectionCovers` |
| `SidesStayBalanced` | `Spec => []SidesBalanced` |

Assumption: `TableConstants`.  What a parser or a schema returns as a list is a
sequence, a candidate has one of the three priorities, and the budget and the
bounds of a shortlist are positive.  Nothing is assumed of what the lists hold:
a draft may name rows, actors and modules that are not there.

`InOrderFacts` says that `InOrder` lists every member of a finite set once and in its order,
`Picking` what a sequence picked by positions keeps of the one it is picked from.
All of `Where`, `FirstEach` and `Dedup` is proved from these two.

1. The floor.  Each capability has a row's module, each role an actor, each family
   a row; `FloorInv` says that while the batches run the floor is that of the
   source, and that a rebuilt row names one of its rows and one of its actors.
   Then merging the details adds links to rows that stay (`Covers`).
2. The table.  `TableInv` adds that the table is `Sound` at every stage of both
   pipelines (distinct ids, and every row with a known module and known actors in
   one role each), that the selection leaves no idle actor, and that the relationships
   are `Linked`: their ends are two different rows, no two have the same ends, an
   include shares its target.  Each conjunct of `Linked` answers one check of
   `rules.py`; `TableIsSound` leaves open only the two checks no conjunct answers.
   It is not inductive without the rest: dropping idle actors must not drop
   the actor of a row, and the first relationship of a pair must be judged before its
   includes are counted.
3. The selection.  A pass is a number of steps, each taking the best candidate left.
   `Filled` says what it leaves: no key taken twice, the budget used up or every key
   covered, and a candidate better than one that was taken has its key covered by
   another.  `SelectionCovers` follows from the three passes' facts together with what
   `Filtered` leaves, one candidate per name.
4. The sides.  After each actor either some actor that was placed weighs as much as the
   gap between the sides, or all of them stand opposite what was dragged
   (`Balanced`, `BalanceStep`).  Lines are counted as the sets they form, and the lines of
   different actors are disjoint.

Inductions over the steps of a pass are over sets of numbers (`FromZero`), and
`StepsExist` gives the recursive function that the definitions choose.

## 5. What is only model-checked

* Liveness: `ProcessingEnds`, `RunsStop`, `GenerateUnlocks`.  It is out of the prover's
  reach.
* That the library's folds and sorts compute what their names say: an induction
  over data.  Where a proof needed such a fact the model has a recursive function on
  the numbers, or picks positions, instead.

Every invariant and action property that a passing run checks is also stated by a
theorem.

## 6. What the models show of the code

The run `find_cap_completed` is listed with its finding in PROJECT.json: the comment
at `services/agent_service.py:1135` says a capped turn is failed loudly, and it is
recorded as completed.

These are behaviours the models have, and that the properties except by name or
leave room for.  A reader who changes the code should know them.

*Sessions.*  A message queued after the turn looked at the queue stays queued in a
completed session.  Two tasks that overlap may start one
message twice, and may leave TURN_FAILED beside a pending interrupt: the failing one
read the row before the other paused and writes its status only.  A kill between the
two transactions of an approval leaves the session waiting with nothing to decide.
A turn that fails while the row says WAITING_FOR_HUMAN, as it
does after a replay or when it is stopped after a tool has committed its pause, leaves
the row as it is (`Outcome`): the session waits for an
answer although its interrupt may be gone, and is never marked as failed.

*Approvals.*  Two approvals, each holding its own item and waiting for a
predecessor that is the focus of the other, wait in a ring until PostgreSQL rolls
one back (`AbortVictim`).  After a restore, the number after the current version is
taken, and an approval that holds the lock meets the unique constraint (`Collide`).
A review that read an item early drives an item accepted meanwhile to rejected
(`ReviewRejects`).

*Lifecycle.*  An item is "current" although its predecessor is itself stale.  A human's
update of an accepted stale or orphaned item drops `based_on`, after which it
counts as current (`services/artifact_service.py:237`).  Linking again never cures
an orphan.

*Links.*  A retirement keeps `superseded_by` when the artifact comes back by the
approval of a draft, so A can name B and B name A one after the other
(`HeirsLeadSomewhere` names it).  Two links, or two retirements, checked at the same
time may close a ring.

*Turns.*  A document that is edited down to blanks in review sends the session back to
elicit, and then along an edge the phase machine does not know.  `Begin` resets
`conversation_summary` (`graphs/state.py:404`), so human turns
older than the window are in neither the window nor the summary.  One batch with
two section writers keeps only the later writer's section.  The calls of a tools
step that raised stay without results, and a window that starts inside a batch
holds a result without its call (`RecentlyTorn`, `CutOff`).

*Use cases.*  A healthy monolithic run touches no heartbeat during its batches, so it
may be taken over while it still works; its last write then replaces the table of
the run that took over (`WholeDone`).  Positions dragged while a generation is under way are lost.  A cycle of
includes passes the service and is refused by the validator (`TableIsSound` names
it).

*Providers.*  The ERROR mark of a failed check is rolled back with the HTTP error,
though `tests/unit/llm/test_llm_providers.py:568` asserts it at the service.  A check
that answers late makes usable what was not probed, or brings a deleted
configuration back.  Two creates at once leave two configurations enabled.  A
default left on a disabled row makes the unique index refuse every later create.

## 7. Plan

Done, in this order: the sessions and their ledger; versions, locks and documents;
the turn and its thread; the use-case runs and tables; lifecycle reports; links,
retirement and workflow runs; provider configurations; the proofs of section 4.

Left, most useful first:

1. A `Checkpointer` module: which pending writes survive a new checkpoint, the
   per-session lock, and the resume that looks for an interrupt that is being written.
2. A refinement from `TurnLoop` to the turn of `AgentSession`.
3. Source documents and evidence of artifacts.

## 8. Not modelled

* The checkpointer's tables and its lock: the models take a super-step's checkpoint
  as one write.  Two hazards in PROJECT.json say what this leaves out.
* The event stream: it polls and writes nothing, except the expiry that
  `AgentSession` has.
* Accounts, organizations, projects and permissions: single-row reads and writes in
  one transaction each.
* Export and rendering: reads accepted artifacts and writes nothing.
* Evidence, source documents, archiving a container, two rows of one item type.
* PlantUML text, the coordinates and edge routes of the diagram (a third-party layout
  engine); of the layout only the sides of the actors are modelled.
* Message and prompt texts, rubric scores, the wording of reasons and refusals.
* The migration history; the constraints that matter are modelled from the models.
* Seed scripts and offline evaluation.
