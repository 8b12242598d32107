------------------------------ MODULE TurnLoop ------------------------------
(***************************************************************************)
(* The analyst graph of one session: graph.py, nodes.py, the tools of      *)
(* graphs/agent_tools, the gates of graphs/gating, the phase machine of    *)
(* session_phase.py and the channels of state.py.                          *)
(*                                                                         *)
(* One action is one LangGraph super-step.  `node' is the node to run      *)
(* next, `pause' says that the node stopped at an interrupt and waits for  *)
(* the human, `calls' are the tool calls of the last AI message, `ws' the  *)
(* channels of WorkflowState in the checkpoint, `db' the rows the tools    *)
(* read and write.  A tool that interrupts is executed twice, from the     *)
(* top, on the same `ws' and on whatever `db' is by then; the updates of a *)
(* batch reach `ws' only when every call of the batch has returned.        *)
(*                                                                         *)
(* Bodies are abstract: a text of the model or of a human, the view        *)
(* rendered from the decision nodes, or the assembly of saved sections.    *)
(***************************************************************************)
EXTENDS Naturals, Sequences, FiniteSets, Functions, SequencesExt

CONSTANTS
    Headings,       \* required headings of the artifact's output contract
    NodeIds,        \* decision nodes that notes can create
    KindOf,         \* the kind of each: "assumption" or "open_question"
    HeadingOf,      \* the heading each node renders under
    Texts,          \* bodies a model or a human can write
    WholeTexts,     \* those that hold every required heading
    MarkedTexts,    \* those that mark content as needing confirmation
    NoText,         \* the empty body
    Chunks,         \* batches of a section
    Requests,       \* the batches of tool calls the model may ask for
    Strays,         \* tools the model may call although they were not offered
    Lives,          \* lifecycle states of the focused artifact
    MaxTurns,       \* settings.max_agent_turns
    MaxRounds,      \* settings.max_critique_rounds
    MaxJudge,       \* settings.max_diagnosis_judge_calls
    RepeatExit,     \* identical batches in a row that end the loop
    SummaryEvery,   \* settings.summary_trigger_every
    MaxHumans,      \* bound: messages of the human
    MaxChanges      \* bound: changes of the project from outside

ASSUME TurnConstants ==
    /\ Headings # {} /\ KindOf \in [NodeIds -> {"assumption", "open_question"}]
    /\ HeadingOf \in [NodeIds -> Headings]
    /\ WholeTexts \subseteq Texts /\ MarkedTexts \subseteq Texts /\ NoText \notin Texts
    /\ Lives \subseteq {"missing", "in_progress", "orphan", "stale", "blocked", "current"}
    /\ Lives # {}
    /\ MaxTurns \in Nat \ {0} /\ MaxRounds \in Nat \ {0} /\ MaxJudge \in Nat
    /\ RepeatExit \in Nat \ {0, 1} /\ SummaryEvery \in Nat
    /\ MaxHumans \in Nat \ {0} /\ MaxChanges \in Nat
    /\ \A request \in Requests : request \in Seq(Range(request))

VARIABLES
    node,      \* the graph node to run next
    pause,     \* "none"; "waiting" for the human at an interrupt; "answered"
    calls,     \* tool calls of the last AI message, in order
    ws,        \* the channels of the checkpoint
    db,        \* the document, its lifecycle, its predecessors, the project
    rows,      \* what the tools of this agent run have written
    failed,    \* the last run of the graph raised
    changes,   \* changes made from outside so far
    emptied    \* history: an outside change has emptied the document

vars == <<node, pause, calls, ws, db, rows, failed, changes, emptied>>

-----------------------------------------------------------------------------
(* Bodies and the decision graph.                                          *)

Blank == <<"text", NoText>>
NoNodes == <<>>                       \* the function with the empty domain
NoSections == <<>>

\* decision_graph._ACTIVE_STATUSES: what a view renders.
Active == {"confirmed", "inferred", "needs_confirmation"}

\* create_node as _write_note_impl calls it.
NoteStatus(n) == IF KindOf[n] = "assumption" THEN "needs_confirmation" ELSE "proposed"

\* render_view: active and parked nodes; an empty graph renders as "".
View(nodes) ==
    LET shown == {n \in DOMAIN nodes : nodes[n] \in Active \cup {"parked"}}
    IN  IF shown = {} THEN Blank ELSE <<"view", [n \in shown |-> nodes[n]]>>

\* synthesis_assumption_signals: what still awaits the human.
Pending(nodes) ==
    {n \in DOMAIN nodes : \/ nodes[n] = "needs_confirmation"
                          \/ KindOf[n] = "open_question" /\ nodes[n] = "proposed"}

\* _missing_required_headings, for the bodies there are.
Whole(body) ==
    CASE body[1] = "text" -> body[2] \in WholeTexts
      [] body[1] = "view" -> {HeadingOf[n] : n \in DOMAIN body[2]} = Headings
      [] body[1] = "sections" -> TRUE

\* _extract_marked_lines: the body says what needs confirmation.
Marked(body) ==
    CASE body[1] = "text" -> body[2] \in MarkedTexts
      [] body[1] = "view" -> \E n \in DOMAIN body[2] : body[2][n] = "needs_confirmation"
      [] body[1] = "sections" -> FALSE

\* evaluate_candidate_readiness.
Readiness(body, nodes) ==
    CASE ~Whole(body) -> "poor"
      [] Whole(body) /\ Pending(nodes) # {} /\ ~Marked(body) -> "incomplete"
      [] Whole(body) /\ Pending(nodes) # {} /\ Marked(body) -> "needs_confirmation"
      [] OTHER -> "sufficient"

\* ArtifactCandidateReadiness.can_persist
CanPersist(readiness) == readiness \in {"sufficient", "needs_confirmation"}

\* _current_draft_body_sync: once a node exists the view is the draft.
Body(s) == IF DOMAIN s.nodes # {} THEN View(s.nodes) ELSE s.draft

HasDraft(s) == Body(s) # Blank

\* _assembled_draft_sections
Assembled(s) ==
    /\ Headings \subseteq DOMAIN s.sections
    /\ \A h \in Headings : s.sections[h].done

\* _resolve_proposed_body: sections, then the view, then what the model wrote.
ProposedBody(s, text) ==
    LET written == <<"text", text>> IN
    CASE Assembled(s) -> <<"sections", [h \in Headings |-> s.sections[h].content]>>
      [] ~Assembled(s) /\ DOMAIN s.nodes = {} -> written
      [] ~Assembled(s) /\ DOMAIN s.nodes # {} ->
            IF Whole(View(s.nodes)) THEN View(s.nodes)
            ELSE IF Whole(written) \/ ~Whole(s.draft) THEN written ELSE s.draft

\* merge_decision_nodes, merge_draft_sections: one key at a time, the later
\* update wins.
\* Mutant of Merge: the channel keeps the last update only.
MergeReplaces(left, right) == right
Merge(left, right) ==
    [key \in DOMAIN left \cup DOMAIN right |->
        IF key \in DOMAIN right THEN right[key] ELSE left[key]]

\* One key set in a channel of keys.
Put(channel, key, value) ==
    [k \in DOMAIN channel \cup {key} |-> IF k = key THEN value ELSE channel[k]]

-----------------------------------------------------------------------------
(* The session phase.                                                      *)

NoPhase == "unset"
Phases == {"intent", "elicit", "draft", "review", "finalize"}

LegalEdges ==
    {<<"intent", "elicit">>, <<"intent", "draft">>, <<"elicit", "draft">>,
     <<"draft", "review">>, <<"draft", "finalize">>, <<"review", "draft">>,
     <<"review", "finalize">>, <<"finalize", "review">>, <<"draft", "elicit">>,
     <<"review", "elicit">>, <<"finalize", "elicit">>, <<"review", "intent">>,
     <<"draft", "intent">>, <<"elicit", "intent">>, <<"finalize", "intent">>,
     <<"finalize", "draft">>}

\* _draft_hash_stale
DraftIsStale(s) == Body(s) # s.scored

\* _finalize_gate_open
\* Mutant of GateOpen: an edit after the critique does not close the gate.
GateOpenThoughStale(s) == s.report = "pass" /\ s.readiness = "sufficient"
GateOpen(s) ==
    /\ s.report = "pass"
    /\ s.readiness = "sufficient"
    /\ ~DraftIsStale(s)

CritiqueStarted(s) == s.rounds > 0 \/ s.report # "none"

\* derive_phase over _phase_signals
DerivedPhase(s) ==
    CASE ~s.confirmed -> "intent"
      [] s.confirmed /\ HasDraft(s) /\ CritiqueStarted(s) ->
            IF GateOpen(s) THEN "finalize" ELSE "review"
      [] s.confirmed /\ ~(HasDraft(s) /\ CritiqueStarted(s)) ->
            IF HasDraft(s) \/ DOMAIN s.nodes # {} \/ s.elicited THEN "draft" ELSE "elicit"

\* current_session_phase
CurrentPhase(s) == IF s.phase = NoPhase THEN DerivedPhase(s) ELSE s.phase

\* PHASE_EXCLUDED_TOOLS
\* Mutant of ExcludedIn: nothing is held back before the intent is confirmed.
ExcludedInLate(phase) ==
    CASE phase = "intent" -> {}
      [] phase = "elicit" -> {"confirm_intent", "run_critique", "run_readiness_check", "finalize"}
      [] phase = "draft" -> {"confirm_intent", "finalize"}
      [] OTHER -> {"confirm_intent", "elicit", "web_search"}
ExcludedIn(phase) ==
    CASE phase = "intent" ->
            {"write_draft", "write_draft_section", "run_critique", "run_readiness_check", "finalize"}
      [] phase = "elicit" -> {"confirm_intent", "run_critique", "run_readiness_check", "finalize"}
      [] phase = "draft" -> {"confirm_intent", "finalize"}
      [] phase \in {"review", "finalize"} -> {"confirm_intent", "elicit", "web_search"}

-----------------------------------------------------------------------------
(* The gates.  A call is a record: its tool and the arguments that matter. *)

\* tool_metadata: tools that stop for the human, and their order of priority.
Priority == <<"ask_user", "confirm_intent", "write_draft", "finalize",
              "create_artifact_link", "propose_retirement", "respond">>
InterruptBearing == Range(Priority)
Riders == {"note", "critique_note", "explore_note", "write_draft_section"}

Rank(tool) == CHOOSE i \in DOMAIN Priority : Priority[i] = tool

\* lifecycle_tool_block_reason: only write_draft depends on the lifecycle.
LifecycleAllows(life, call) ==
    call.tool = "write_draft" =>
        \/ life \notin {"current", "blocked", "orphan", "stale"}
        \/ life = "stale" /\ call.curated

\* PhaseLifecycleMenuRule in Mode.DISPATCH
GateAllows(s, life, call) ==
    /\ call.tool \notin ExcludedIn(CurrentPhase(s))
    /\ LifecycleAllows(life, call)

\* The calls of a batch that are good, in order: SelectSeq, unfolded.
Sift(batch, good) ==
    LET taken[n \in 0 .. Len(batch)] ==
            IF n = 0 THEN <<>>
            ELSE IF batch[n] \in good THEN Append(taken[n - 1], batch[n])
            ELSE taken[n - 1]
    IN  taken[Len(batch)]

\* The calls of these tools.
OfTools(batch, tools) == Sift(batch, {c \in Range(batch) : c.tool \in tools})

\* SoloInvariantBatchRule: one interrupting call, the first by priority, and
\* the riders; the rest is dropped.
\* Mutant of Solo: every interrupting call of the batch is kept.
SoloForgotten(batch) ==
    IF \A i \in DOMAIN batch : batch[i].tool \notin InterruptBearing THEN batch
    ELSE OfTools(batch, InterruptBearing \cup Riders)
Solo(batch) ==
    LET stops == {i \in DOMAIN batch : batch[i].tool \in InterruptBearing}
        kept == CHOOSE i \in stops : \A j \in stops :
                    \/ Rank(batch[i].tool) < Rank(batch[j].tool)
                    \/ Rank(batch[i].tool) = Rank(batch[j].tool) /\ i <= j
    IN  CASE stops = {} -> batch
          [] Cardinality(stops) = 1 -> OfTools(batch, InterruptBearing \cup Riders)
          [] OTHER -> <<batch[kept]>> \o OfTools(batch, Riders)

\* _gate_selected_tools
Gated(s, life, request) ==
    Solo(Sift(request, {c \in Range(request) : GateAllows(s, life, c)}))

\* append_turn_fingerprint sorts the calls of a batch.
Fingerprint(batch) ==
    [c \in Range(batch) |-> Cardinality({i \in DOMAIN batch : batch[i] = c})]

\* _has_repeated_tool_calls over the last RepeatExit fingerprints
Repeated(s) == s.repeats >= RepeatExit

\* route_node ends the run; _pending_dispatch_stop_reason asks the same.
\* Mutant of LoopStops: the cap on the turns is not read.
LoopStopsOnRepeat(s) == Repeated(s)
LoopStops(s) == s.turns >= MaxTurns \/ Repeated(s)

\* get_available_tools: the Mode.MENU rules, the phase and the lifecycle.
\* (recommend_next_workflow also looks at the coverage, which is left out.)
Offered(s, life, call) ==
    /\ call.tool \notin ExcludedIn(CurrentPhase(s))
    /\ call.tool = "write_draft" => life \notin {"current", "blocked", "orphan"}
    /\ call.tool = "finalize" => HasDraft(s) /\ s.rounds > 0 /\ GateOpen(s)
    /\ call.tool = "run_critique" =>
          HasDraft(s) /\ (s.rounds < MaxRounds \/ DraftIsStale(s))
    /\ call.tool = "run_readiness_check" => HasDraft(s) /\ s.rounds > 0

-----------------------------------------------------------------------------
(* The tools.  `s' is the state injected in every call of the batch, `d'   *)
(* the database when it runs, `r' the rows of this agent run.              *)

NoRows == [proposal |-> 0, audit |-> 0, message |-> 0]

Talkers == {"ask_user", "confirm_intent", "respond"}
Proposers == {"write_draft", "create_artifact_link", "propose_retirement"}

\* _cold_start_draft_blocked
ColdStart(s) == DOMAIN s.nodes = {} /\ ~s.elicited /\ ~s.confirmed

\* _write_draft_impl up to its insert; a proposal of this run is not judged again.
DraftRefused(s, r, call) ==
    LET body == ProposedBody(s, call.text) IN
    \/ body = Blank
    \/ ~LifecycleAllows(s.life, call)
    \/ ColdStart(s)
    \/ r.proposal = 0 /\ ~CanPersist(Readiness(body, s.nodes))

\* _finalize_impl up to its interrupt
FinalizeRefused(s, d) ==
    ~HasDraft(s) \/ ~GateOpen(s) \/ ~Whole(Body(s)) \/ ~d.preds

\* _run_critique_impl's guards
CritiqueRefused(s) == (s.rounds >= MaxRounds /\ ~DraftIsStale(s)) \/ ~HasDraft(s)

\* The call answers with a recoverable error and changes nothing else.
\* "blank" is any call without a required argument.
Refused(s, d, r, call) ==
    \/ call.tool = "blank"
    \/ call.tool = "confirm_intent" /\ s.confirmed
    \/ call.tool = "write_draft" /\ DraftRefused(s, r, call)
    \/ call.tool = "finalize" /\ FinalizeRefused(s, d)
    \/ call.tool = "run_critique" /\ CritiqueRefused(s)

\* The call reaches its interrupt().
Interrupts(s, d, r, call) ==
    call.tool \in InterruptBearing /\ ~Refused(s, d, r, call)

\* Rows are keyed by the agent run and the tool, messages by the call's id.
\* Mutant of Kept: a replay does not look for the row of the first execution.
KeptAgain(count) == IF count < 2 THEN count + 1 ELSE count
Kept(count) == IF count = 0 THEN 1 ELSE count

\* What one execution of an interrupting call leaves in the database.
Written(r, call) ==
    CASE call.tool \in Proposers -> [r EXCEPT !.proposal = Kept(@)]
      [] call.tool \in Talkers -> [r EXCEPT !.audit = Kept(@), !.message = Kept(@)]
      [] OTHER -> r

\* _write_note_impl: the whole graph of the snapshot plus the new node.
Noted(acc, s, call) ==
    [acc EXCEPT !.nodes = Merge(@, Put(s.nodes, call.id, NoteStatus(call.id)))]

\* decision_graph.impact: the affected nodes need confirmation again.
Impacted(acc, s, call) ==
    [acc EXCEPT !.nodes = Merge(@, [n \in DOMAIN s.nodes |->
        IF n \in call.ids /\ s.nodes[n] # "superseded" THEN "needs_confirmation"
        ELSE s.nodes[n]])]

\* _write_draft_section_impl: append to what the snapshot holds.
\* Mutant of Section: an appended batch replaces the earlier ones.
SectionRestarts(s, call) == [content |-> {call.chunk}, done |-> call.done]
Section(s, call) ==
    LET h == call.heading
        before == IF call.append /\ h \in DOMAIN s.sections THEN s.sections[h].content
                  ELSE {}
    IN  [content |-> before \cup {call.chunk}, done |-> call.done]

Sectioned(acc, s, call) ==
    [acc EXCEPT !.sections =
        Merge(@, Put(s.sections, call.heading, Section(s, call)))]

\* _run_critique_impl: the judge's verdict over the body of the snapshot.
Critiqued(acc, s, verdict) ==
    [acc EXCEPT !.report = verdict, !.scored = Body(s),
                !.rounds = IF s.rounds < MaxRounds THEN s.rounds + 1 ELSE s.rounds]

\* _write_draft_impl after its interrupt, whatever the human decided.
Drafted(acc, s, call) ==
    LET body == ProposedBody(s, call.text) IN
    [acc EXCEPT !.draft = body, !.readiness = Readiness(body, s.nodes)]

\* The Command a call returns, folded into the channels.
Effect(acc, s, d, r, call, verdict) ==
    IF Refused(s, d, r, call) THEN acc ELSE
    CASE call.tool = "note" -> Noted(acc, s, call)
      [] call.tool = "run_impact_analysis" -> Impacted(acc, s, call)
      [] call.tool = "write_draft_section" -> Sectioned(acc, s, call)
      [] call.tool = "elicit" -> [acc EXCEPT !.elicited = TRUE]
      [] call.tool \in {"ask_user", "respond"} -> [acc EXCEPT !.humans = @ + 1]
      [] call.tool = "confirm_intent" ->
            [acc EXCEPT !.humans = @ + 1, !.confirmed = TRUE]
      [] call.tool = "write_draft" -> Drafted(acc, s, call)
      [] call.tool = "run_critique" -> Critiqued(acc, s, verdict)
      [] OTHER -> acc

\* The updates of a batch, in the order of its calls.
Applied(s, d, r, batch, verdict) ==
    LET after[n \in 0 .. Len(batch)] ==
            IF n = 0 THEN s ELSE Effect(after[n - 1], s, d, r, batch[n], verdict)
    IN  after[Len(batch)]

\* Two writers of one plain channel in a step: InvalidUpdateError.
Clash(s, d, r, batch) ==
    \E i, j \in DOMAIN batch :
        /\ i # j
        /\ ~Refused(s, d, r, batch[i]) /\ ~Refused(s, d, r, batch[j])
        /\ \/ batch[i].tool = "run_critique" /\ batch[j].tool = "run_critique"
           \/ {batch[i].tool, batch[j].tool} \subseteq
                    {"run_readiness_check", "recommend_next_workflow"}

-----------------------------------------------------------------------------
(* Entry points.                                                           *)

\* build_initial_workflow_state: what the first message starts from.
Fresh ==
    [phase |-> NoPhase, confirmed |-> FALSE, elicited |-> FALSE, nodes |-> NoNodes,
     draft |-> Blank, rounds |-> 0, report |-> "none", scored |-> <<"unscored", NoText>>,
     readiness |-> "none", turns |-> 0, last |-> NoNodes, repeats |-> 0, judged |-> 0,
     sections |-> NoSections, humans |-> 0, life |-> "unread",
     open |-> FALSE, dangling |-> FALSE, torn |-> FALSE]

\* The channels with a reducer keep what they hold when the same thread
\* starts again with an initial state: messages, nodes, sections, elicits.
Rebuilt(s) ==
    [Fresh EXCEPT !.nodes = s.nodes, !.sections = s.sections, !.elicited = s.elicited,
                  !.humans = s.humans + 1, !.torn = s.torn,
                  !.dangling = s.dangling \/ s.open]

\* After a failed turn only the counters start again.
Retried(s) ==
    [s EXCEPT !.turns = 0, !.judged = 0, !.humans = @ + 1,
              !.open = FALSE, !.dangling = @ \/ s.open]

Init ==
    /\ node = "idle" /\ pause = "none" /\ calls = <<>>
    /\ ws = Fresh
    /\ db \in [body : {Blank} \cup {<<"text", t>> : t \in Texts}, life : Lives, preds : BOOLEAN]
    /\ rows = NoRows
    /\ failed = FALSE
    /\ changes = 0 /\ emptied = FALSE

\* A message reaches a session whose graph is not running.
Begin ==
    /\ node = "idle" /\ ~failed /\ ws.humans < MaxHumans
    /\ ws' = Rebuilt(ws)
    /\ node' = "triage"
    /\ UNCHANGED <<pause, calls, db, rows, failed, changes, emptied>>

Restart ==
    /\ node = "idle" /\ failed /\ ws.humans < MaxHumans
    /\ ws' = Retried(ws)
    /\ node' = "triage"
    /\ failed' = FALSE
    /\ UNCHANGED <<pause, calls, db, rows, changes, emptied>>

\* The human answers the interrupt.  The approval of a proposed draft stores
\* it as the current version first.
Answer ==
    /\ pause = "waiting" /\ ws.humans < MaxHumans
    /\ pause' = "answered"
    /\ ws' = [ws EXCEPT !.turns = 0, !.judged = 0]
    /\ \/ UNCHANGED db
       \/ \E i \in DOMAIN calls, life \in Lives :
            /\ node = "tools" /\ calls[i].tool = "write_draft" /\ rows.proposal > 0
            /\ db' = [db EXCEPT !.body = ProposedBody(ws, calls[i].text), !.life = life]
    /\ UNCHANGED <<node, calls, rows, failed, changes, emptied>>

-----------------------------------------------------------------------------
(* The nodes.                                                              *)

Running(n) == node = n /\ pause # "waiting"

\* triage_node and route_after_triage: work, or small talk.
Triage ==
    /\ Running("triage")
    /\ node' \in {"converse", "orchestrator"}
    /\ UNCHANGED <<pause, calls, ws, db, rows, failed, changes, emptied>>

\* converse_node: reply, pause, and on the answer go on to the analyst.
Converse ==
    /\ Running("converse")
    /\ \/ /\ pause = "none"
          /\ pause' = "waiting"
          /\ UNCHANGED <<node, ws>>
       \/ /\ pause = "answered"
          /\ pause' = "none"
          /\ node' = "orchestrator"
          /\ ws' = [ws EXCEPT !.humans = @ + 1]
    /\ UNCHANGED <<calls, db, rows, failed, changes, emptied>>

\* _diagnose_section: weak coverage and a failed or an empty draft.
HighRisk(s, lowCoverage) == lowCoverage /\ (s.report = "fail" \/ s.draft = Blank)

\* orchestrator_node: the phase machine (an illegal edge is adopted too) and
\* the judge's budget.
Orchestrate ==
    /\ Running("orchestrator")
    /\ \E lowCoverage \in BOOLEAN :
         ws' = [ws EXCEPT !.phase = DerivedPhase(ws),
                          !.judged = IF HighRisk(ws, lowCoverage) /\ @ < MaxJudge
                                     THEN @ + 1 ELSE @]
    /\ node' = "analyze"
    /\ UNCHANGED <<pause, calls, db, rows, failed, changes, emptied>>

\* The text answer of a model that calls nothing becomes a call.
Spoken == {<<[tool |-> "respond"]>>, <<[tool |-> "ask_user"]>>}

\* _pending_dispatch_stop_reason and _synthetic_tool_results: the calls of a
\* stopped loop are closed at once.
LeftOpen(s, batch) == batch # <<>> /\ ~LoopStops(s)

\* load_turn_context: the current body and the lifecycle of the focused artifact.
Loaded(s, d) == [s EXCEPT !.draft = d.body, !.life = d.life]

\* One more turn, and the fingerprint of its batch.
Counted(s, batch) ==
    LET print == Fingerprint(batch) IN
    [s EXCEPT !.turns = IF @ < MaxTurns THEN @ + 1 ELSE @,
              !.repeats = IF batch = <<>> THEN @
                          ELSE IF print # s.last THEN 1
                          ELSE IF @ < RepeatExit THEN @ + 1 ELSE @,
              !.last = IF batch = <<>> THEN @ ELSE print]

\* record_run_and_dispatch: what the gates kept, or the spoken answer.
Dispatched(gated) == IF gated = <<>> THEN Spoken \cup {<<>>} ELSE {gated}

\* analyze_node and route_node: the context is read from the database, the
\* model chooses, the gates drop, the calls are dispatched or the run ends.
Analyze ==
    /\ Running("analyze")
    /\ \E request \in Requests :
         /\ \A i \in DOMAIN request :
                /\ Offered(ws, db.life, request[i]) \/ request[i].tool \in Strays
                /\ request[i].tool = "note" => request[i].id \notin DOMAIN ws.nodes
         /\ \E batch \in Dispatched(Gated(ws, db.life, request)) :
              LET after == Counted(Loaded(ws, db), batch) IN
              /\ ws' = [after EXCEPT !.open = LeftOpen(after, batch)]
              /\ calls' = batch
              /\ node' = IF batch = <<>> \/ LoopStops(after) THEN "idle" ELSE "tools"
    /\ rows' = NoRows                       \* a new AgentRun
    /\ UNCHANGED <<pause, db, failed, changes, emptied>>

Stops(batch) == {i \in DOMAIN batch : Interrupts(ws, db, rows, batch[i])}

\* The ToolNode reaches an interrupt: rows are written, updates are not.
ToolsInterrupt ==
    /\ Running("tools") /\ pause = "none"
    /\ \E i \in Stops(calls) : rows' = Written(rows, calls[i])
    /\ pause' = "waiting"
    /\ UNCHANGED <<node, calls, ws, db, failed, changes, emptied>>

\* route_before_analyze: every SummaryEvery-th message of the human.
SummaryDue(s, batch) ==
    /\ Last(batch).tool \in Talkers
    /\ SummaryEvery > 0 /\ s.humans > 1 /\ (s.humans - 1) % SummaryEvery = 0

\* Every call returns: an interrupted one is executed again from the top.
ToolsReturn ==
    /\ Running("tools")
    /\ pause = "answered" \/ Stops(calls) = {}
    /\ ~Clash(ws, db, rows, calls)
    /\ \E verdict \in {"pass", "fail"} :
         LET after == Applied(ws, db, rows, calls, verdict) IN
         /\ ws' = [after EXCEPT !.open = FALSE]
         /\ node' = IF SummaryDue(after, calls) /\ Stops(calls) # {} THEN "summarize"
                    ELSE "orchestrator"
    /\ rows' = IF Stops(calls) = {} THEN rows
               ELSE Written(rows, calls[CHOOSE i \in Stops(calls) : TRUE])
    /\ pause' = "none"
    /\ UNCHANGED <<calls, db, failed, changes, emptied>>

\* summarize_node; its answer is context only.
Summarize ==
    /\ Running("summarize")
    /\ node' = "orchestrator"
    /\ UNCHANGED <<pause, calls, ws, db, rows, failed, changes, emptied>>

\* A node raises (a provider error, a time-out, a clash of updates): the turn
\* fails and the checkpoint keeps what the step before wrote.
Raise ==
    /\ node # "idle" /\ pause # "waiting"
    /\ node' = "idle" /\ pause' = "none" /\ failed' = TRUE
    /\ ws' = [ws EXCEPT !.torn = @ \/ node = "tools"]
    /\ \/ UNCHANGED rows
       \/ node = "tools" /\ \E i \in Stops(calls) : rows' = Written(rows, calls[i])
    /\ UNCHANGED <<calls, db, changes, emptied>>

\* Outside the graph: the document is edited (ArtifactUpdateRequest asks for
\* one character and takes a blank one, so an edit may also empty it), a
\* predecessor is accepted or archived, the lifecycle of the focused artifact
\* changes.
OutsideChange ==
    /\ changes < MaxChanges
    /\ changes' = changes + 1
    /\ \/ \E t \in Texts \cup {NoText} : db' = [db EXCEPT !.body = <<"text", t>>]
       \/ db' = [db EXCEPT !.preds = ~@]
       \/ \E life \in Lives : db' = [db EXCEPT !.life = life]
    /\ emptied' = (emptied \/ (db.body # Blank /\ db'.body = Blank))
    /\ UNCHANGED <<node, pause, calls, ws, rows, failed>>

Step == Triage \/ Converse \/ Orchestrate \/ Analyze \/ ToolsInterrupt \/ ToolsReturn
            \/ Summarize

Next == Begin \/ Restart \/ Answer \/ Step \/ Raise \/ OutsideChange

Spec == Init /\ [][Next]_vars

\* The runtime drives a started graph on; nothing forces a human to answer.
FairSpec == Spec /\ WF_vars(Step \/ Raise)

-----------------------------------------------------------------------------
(* Properties.                                                             *)

NodeStatuses == Active \cup {"proposed", "parked", "superseded", "dismissed"}

\* Every variable stays in the range the code gives it.
TypeOK ==
    /\ node \in {"idle", "triage", "converse", "orchestrator", "analyze", "tools", "summarize"}
    /\ pause \in {"none", "waiting", "answered"}
    /\ pause # "none" => node \in {"converse", "tools"}
    /\ ws.phase \in Phases \cup {NoPhase}
    /\ DOMAIN ws.nodes \subseteq NodeIds /\ Range(ws.nodes) \subseteq NodeStatuses
    /\ DOMAIN ws.sections \subseteq Headings
    /\ ws.turns \in 0 .. MaxTurns /\ ws.rounds \in 0 .. MaxRounds
    /\ ws.judged \in 0 .. MaxJudge /\ ws.repeats \in 0 .. RepeatExit
    /\ ws.humans \in 0 .. MaxHumans + 1
    /\ ws.readiness \in {"none", "sufficient", "needs_confirmation"}
    /\ \A key \in DOMAIN rows : rows[key] \in 0 .. 2
    /\ emptied \in BOOLEAN

Called(tool) == {i \in DOMAIN calls : calls[i].tool = tool}

\* The batch of the tools node has been applied in this step.
BatchApplied == node = "tools" /\ node' \in {"orchestrator", "summarize"}

\* transition() calls an edge outside _LEGAL_EDGES a corrupted state, and the
\* orchestrator adopts it with a warning.  Whatever the tools, the human and
\* the document do between two turns, the branch is taken in one case: the
\* document was emptied from outside when the judge had already been asked, the
\* phase fell back to elicit with the critique kept, and the first body or
\* node after that leads from elicit straight to review or finalize.
FellBack == emptied /\ ws.phase = "elicit" /\ CritiqueStarted(ws)
PhaseEdgesAreLegal ==
    [][ws'.phase # ws.phase =>
         \/ NoPhase \in {ws.phase, ws'.phase}
         \/ <<ws.phase, ws'.phase>> \in LegalEdges
         \/ FellBack /\ ws'.phase \in {"review", "finalize"}]_vars

\* What a batch records is in the checkpoint when the batch is over: each
\* note's node, each node that was there before, and the earlier batches of a
\* section that one call of the batch appends to.
NothingVanishes ==
    [][/\ DOMAIN ws.nodes \subseteq DOMAIN ws'.nodes
       /\ BatchApplied =>
            /\ \A i \in Called("note") : calls[i].id \in DOMAIN ws'.nodes
            /\ Cardinality(Called("write_draft_section")) = 1 =>
                 \A i \in Called("write_draft_section") :
                   LET h == calls[i].heading IN
                   /\ h \in DOMAIN ws'.sections
                   /\ calls[i].append /\ h \in DOMAIN ws.sections =>
                        ws.sections[h].content \cup {calls[i].chunk}
                            \subseteq ws'.sections[h].content]_vars

\* A tool that stopped at an interrupt is executed again when the human has
\* answered, and after a crash the turn is started again; still an agent run
\* leaves one proposal, one audit row and one message. And neither the turn
\* cap, nor the repeat exit, nor a pause leaves a tool call without a result
\* for the provider to reject: only a tools step that raised does.
RunsLeaveOneOfEach ==
    /\ \A key \in DOMAIN rows : rows[key] <= 1
    /\ ws.dangling => ws.torn
    /\ node \in {"converse", "orchestrator", "analyze", "summarize"} => ~ws.open

\* One answer of the human is one message of the history: a batch never
\* consumes it twice, and no batch adds a message nobody sent.
HeardOnce ==
    [][BatchApplied =>
         ws'.humans - ws.humans
            = IF pause = "answered" /\ (\E i \in Stops(calls) : calls[i].tool \in Talkers)
              THEN 1 ELSE 0]_vars

\* The gates hold at the moment a proposal is dispatched, although notes are
\* taken and the document is edited between two turns: no draft is proposed in
\* a conversation whose intent was never confirmed, not even from nodes and
\* sections an earlier conversation left behind, and what the human is asked
\* to finalize is the very body the judge passed.
ProposalsAreGated ==
    /\ node = "tools" /\ Called("write_draft") # {} => ws.confirmed
    /\ node = "tools" /\ pause = "waiting" /\ Called("finalize") # {} =>
          ws.report = "pass" /\ ws.scored = Body(ws) /\ Whole(Body(ws))

\* A started graph comes to rest: it pauses for the human or its run ends.
RunsStop ==
    (node # "idle" /\ pause # "waiting") ~> (node = "idle" \/ pause = "waiting")

=============================================================================
