---------------------------- MODULE PromptThread ----------------------------
(***************************************************************************)
(* The message history of a session and what of it is sent to a provider:  *)
(* analysis/prompt_assembly.py cuts and merges the history into a thread,  *)
(* services/llm_clients.py turns the thread into the wire format of each   *)
(* provider and the answer back into tool calls, analysis/tool_gating.py   *)
(* and analysis/turn_audit.py give the calls that survive new ids, and     *)
(* nodes.py writes them and their results to the history.                  *)
(*                                                                         *)
(* A provider rejects a request in which a call is not answered in the     *)
(* next message, or a result answers no call.  A text is a value; the      *)
(* human may say the same thing twice.  What the tools do, and when a      *)
(* loop stops by itself, is in TurnLoop.                                   *)
(***************************************************************************)
EXTENDS Integers, Sequences, FiniteSets, SequencesExt, FiniteSetsExt

CONSTANTS
    Words,          \* what a human may say
    Answers,        \* what a provider may answer: function calls, else a text
    Priority,       \* interrupting tools, by priority
    Riders,         \* notes that may ride along with them
    Talkers,        \* tools whose interrupt is answered with words
    Menu,           \* the tools the gates let through
    SummaryEvery,   \* settings.summary_trigger_every
    MaxHumans,      \* bound: messages of the human
    MaxAnswers      \* bound: answers of the provider

ASSUME ThreadConstants ==
    /\ SummaryEvery \in Nat \ {0, 1}
    /\ MaxHumans \in Nat /\ MaxAnswers \in Nat
    /\ Priority \in Seq(ToSet(Priority))
    /\ Talkers \subseteq ToSet(Priority) /\ ToSet(Priority) \subseteq Menu /\ Riders \subseteq Menu
    /\ "DONE" \notin Words
    /\ \A answer \in Answers :
          /\ answer.parts \in Seq([name : STRING, given : BOOLEAN, sig : STRING])
          /\ answer.says \in Talkers => answer.says \in {"respond", "ask_user"}

VARIABLES
    stage,      \* the node to run next; "idle" when the graph has ended
    log,        \* WorkflowState.messages
    summary,    \* there is a conversation_summary
    answers,    \* answers of the provider so far
    torn,       \* the answers whose tools step was lost
    failed      \* the last run of the graph raised

vars == <<stage, log, summary, answers, torn, failed>>

-----------------------------------------------------------------------------
(* The history: messages of the human, of the model, and results of tools. *)

NoCall == <<0, 0>>
NoSig == "unsigned"
Human(w) == [by |-> "human", text |-> w, call |-> NoCall, calls |-> <<>>, asked |-> <<>>]
Spoken(t) == [by |-> "ai", text |-> t, call |-> NoCall, calls |-> <<>>, asked |-> <<>>]
Result(id, t) == [by |-> "tool", text |-> t, call |-> id, calls |-> <<>>, asked |-> <<>>]

\* _dispatch_ai_message; `asked' is the answer the calls were taken from.
Calling(batch, answer) ==
    [by |-> "ai", text |-> "", call |-> NoCall, calls |-> batch, asked |-> answer.parts]

\* _is_human_turn
IsHuman(m) == m.by = "human"
Humans(ms) == {i \in DOMAIN ms : IsHuman(ms[i])}

-----------------------------------------------------------------------------
(* From an answer to the calls that are dispatched.                        *)

\* _parse_google_tool_response and _model_tool_calls: what the provider says
\* of a call is filed under its id, or under its place when it has none.
Key(parts, i) == IF parts[i].given THEN <<"id", i>> ELSE <<"index", i>>
Metadata(parts) ==
    [k \in {Key(parts, i) : i \in DOMAIN parts} |->
        parts[CHOOSE i \in DOMAIN parts : Key(parts, i) = k].sig]
ModelCalls(parts) ==
    [i \in DOMAIN parts |-> [name |-> parts[i].name, given |-> parts[i].given,
                             sig |-> Metadata(parts)[Key(parts, i)], origin |-> i]]

\* The members of a sequence that are good, in order.
Sift(seq, good) ==
    LET taken[n \in 0 .. Len(seq)] ==
            IF n = 0 THEN <<>>
            ELSE IF seq[n] \in good THEN Append(taken[n - 1], seq[n])
            ELSE taken[n - 1]
    IN  taken[Len(seq)]

\* The calls of these tools.
OfTools(batch, tools) == Sift(batch, {c \in ToSet(batch) : c.name \in tools})

\* SoloInvariantBatchRule, as in TurnLoop.
Solo(batch) ==
    LET stops == {i \in DOMAIN batch : batch[i].name \in ToSet(Priority)}
        rank(c) == CHOOSE k \in DOMAIN Priority : Priority[k] = c.name
        kept == CHOOSE i \in stops : \A j \in stops :
                    \/ rank(batch[i]) < rank(batch[j])
                    \/ rank(batch[i]) = rank(batch[j]) /\ i <= j
    IN  CASE stops = {} -> batch
          [] Cardinality(stops) = 1 -> OfTools(batch, ToSet(Priority) \cup Riders)
          [] OTHER -> <<batch[kept]>> \o OfTools(batch, Riders)

\* _gate_selected_tools
Gated(batch) == Solo(OfTools(batch, Menu))

\* A call under its new id.
Renamed(call, id) ==
    [id |-> id, name |-> call.name, given |-> call.given, sig |-> call.sig, origin |-> call.origin]

\* Mutant of Dispatched: the metadata is looked up by place after the gates.
DispatchedByPlace(answer, n) ==
    LET kept == Gated(ModelCalls(answer.parts))
    IN  [i \in DOMAIN kept |-> Renamed([kept[i] EXCEPT !.sig = answer.parts[i].sig], <<n, i>>)]

\* record_run_and_dispatch: new ids; a text that comes without any call that
\* survives becomes a call of ask_user or respond (_plain_response_tool).
Dispatched(answer, n) ==
    LET kept == Gated(ModelCalls(answer.parts))
        said == [id |-> <<n, 0>>, name |-> answer.says, given |-> FALSE, sig |-> NoSig, origin |-> 0]
    IN  IF kept # <<>> THEN [i \in DOMAIN kept |-> Renamed(kept[i], <<n, i>>)]
        ELSE IF answer.says \in Talkers THEN <<said>> ELSE <<>>

-----------------------------------------------------------------------------
(* The part of the history that is sent.                                   *)

\* _bounded_history_start: the last SummaryEvery turns of the human.
BoundedStart(ms) ==
    IF Cardinality(Humans(ms)) <= SummaryEvery THEN 1
    ELSE CHOOSE i \in Humans(ms) : Cardinality({j \in Humans(ms) : j >= i}) = SummaryEvery

\* _matching_tool_use_index
MatchingUse(ms, id, before) ==
    LET uses == {i \in 1..(before - 1) : \E k \in DOMAIN ms[i].calls : ms[i].calls[k].id = id}
    IN  IF uses = {} THEN before ELSE Max(uses)

\* Mutant of CompactedStart: only the last message of the human is kept.
LastHumanOnly(ms) == IF Humans(ms) = {} THEN 1 ELSE Max(Humans(ms))

\* _summary_compaction_start: the last message of the human and what it
\* answers: the whole batch of the call, or what the model said.
CompactedStart(ms) ==
    LET h == IF Humans(ms) = {} THEN 1 ELSE Max(Humans(ms))
    IN  IF h = 1 THEN 1
        ELSE IF ms[h - 1].by = "tool" THEN MatchingUse(ms, ms[h - 1].call, h - 1)
        ELSE IF ms[h - 1].by = "ai" /\ ms[h - 1].calls = <<>> THEN h - 1
        ELSE h

\* _analyzer_history_messages
HistoryStart == IF summary THEN CompactedStart(log) ELSE BoundedStart(log)
History == SubSeq(log, HistoryStart, Len(log))

-----------------------------------------------------------------------------
(* The thread: messages of blocks, as every client takes them.             *)

Text(t) == [type |-> "text", text |-> t, call |-> NoCall, name |-> "", given |-> FALSE, sig |-> NoSig]
Use(c) == [type |-> "use", text |-> "", call |-> c.id, name |-> c.name, given |-> c.given, sig |-> c.sig]

\* A result carries the metadata of its call when the call was sent before it.
ResultBlock(m, sent) ==
    LET mine == {c \in sent : c.id = m.call}
    IN  [type |-> "result", text |-> m.text, call |-> m.call, name |-> "", sig |-> NoSig,
         given |-> \E c \in mine : c.given]

\* _client_message_from_state
ClientMessage(m, sent) ==
    CASE m.by = "tool" -> [role |-> "user", plain |-> FALSE, blocks |-> <<ResultBlock(m, sent)>>]
      [] m.by # "tool" /\ m.calls # <<>> ->
             [role |-> "assistant", plain |-> FALSE,
              blocks |-> [i \in DOMAIN m.calls |-> Use(m.calls[i])]]
      [] OTHER -> [role |-> IF m.by = "human" THEN "user" ELSE "assistant", plain |-> TRUE,
                   blocks |-> <<Text(m.text)>>]

Holds(m, type) == \E i \in DOMAIN m.blocks : m.blocks[i].type = type

\* _duplicates_last_tool_result: the words of an answer, already in its result.
Duplicates(old, new) ==
    new.plain /\ \E i \in DOMAIN old.blocks :
        old.blocks[i].type = "result" /\ old.blocks[i].text = new.blocks[1].text

Extended(m, blocks) == [m EXCEPT !.plain = FALSE, !.blocks = @ \o blocks]
WithLast(ms, m) == [ms EXCEPT ![Len(ms)] = m]

\* Mutant of Appended: every result is a message of its own.
AppendedAlone(ms, m) == Append(ms, m)

\* _append_client_message: one user message holds all results of a batch.
Appended(ms, m) ==
    IF ms = <<>> \/ m.role # "user" \/ Last(ms).role # "user"
         \/ ~(Holds(m, "result") \/ Holds(Last(ms), "result"))
    THEN Append(ms, m)
    ELSE IF Duplicates(Last(ms), m) THEN ms
    ELSE WithLast(ms, Extended(Last(ms), m.blocks))

\* _append_analyzer_prompt
Prompted(ms) ==
    IF ms # <<>> /\ Last(ms).role = "user" /\ Holds(Last(ms), "result")
    THEN WithLast(ms, Extended(Last(ms), <<Text("PROMPT")>>))
    ELSE Append(ms, [role |-> "user", plain |-> TRUE, blocks |-> <<Text("PROMPT")>>])

\* _append_latest_user_emphasis
Emphasised(ms) ==
    IF Humans(log) = {} THEN ms
    ELSE WithLast(ms, Extended(Last(ms), <<Text(log[Max(Humans(log))].text)>>))

\* _build_analyzer_messages: message by message, with the calls sent so far.
Merged(ms) ==
    LET sent(n) == UNION {ToSet(ms[i].calls) : i \in 1 .. (n - 1)}
        merged[n \in 0 .. Len(ms)] ==
            IF n = 0 THEN <<>> ELSE Appended(merged[n - 1], ClientMessage(ms[n], sent(n)))
    IN  merged[Len(ms)]
Thread == Emphasised(Prompted(Merged(History)))

-----------------------------------------------------------------------------
(* The wire formats.                                                       *)

\* _anthropic_messages: block by block.
AnthropicMessages(ms) == [i \in DOMAIN ms |-> [role |-> ms[i].role, blocks |-> ms[i].blocks]]

\* _bedrock_messages: a message without blocks becomes an empty text.
BedrockMessages(ms) ==
    [i \in DOMAIN ms |-> [role |-> ms[i].role,
                          blocks |-> IF ms[i].blocks = <<>> THEN <<Text("")>> ELSE ms[i].blocks]]

\* _openai_messages: one item per block.
ResponseItems(ms) == FlattenSeq([i \in DOMAIN ms |-> ms[i].blocks])

\* _openai_chat_messages: a message with its calls, or the results each as a
\* message and then the texts as one.
Only(m, type) == Sift(m.blocks, {b \in ToSet(m.blocks) : b.type = type})
ChatMessage(m) ==
    LET outputs == [i \in DOMAIN Only(m, "result") |->
                        [role |-> "tool", calls |-> <<Only(m, "result")[i].call>>]]
        texts == IF Only(m, "text") = <<>> THEN <<>> ELSE <<[role |-> m.role, calls |-> <<>>]>>
        uses == [i \in DOMAIN Only(m, "use") |-> Only(m, "use")[i].call]
    IN  IF uses # <<>> THEN <<[role |-> "assistant", calls |-> uses]>> \o outputs
        ELSE IF outputs # <<>> THEN outputs \o texts
        ELSE <<[role |-> m.role, calls |-> <<>>]>>
ChatMessages(ms) == FlattenSeq([i \in DOMAIN ms |-> ChatMessage(ms[i])])

\* _google_function_call_id: the provider's own id where it gave one.
GoogleId(b) == IF b.given THEN <<"google", b.call>> ELSE <<"ours", b.call>>

\* A call the provider never made and will not take back.
Unsigned(b) == b.type = "use" /\ b.sig = NoSig /\ b.name \in {"respond", "ask_user"}

\* _google_parts and _google_contents: such a call and its result, which comes
\* later, are texts.
GoogleContents(ms) ==
    LET unmade(i, k) == \E j \in 1 .. i : \E l \in DOMAIN ms[j].blocks :
            /\ j < i \/ l < k
            /\ Unsigned(ms[j].blocks[l])
            /\ GoogleId(ms[j].blocks[l]) = GoogleId(ms[i].blocks[k])
        part(i, k) ==
            LET b == ms[i].blocks[k]
            IN  IF Unsigned(b) \/ (b.type = "result" /\ unmade(i, k)) THEN [b EXCEPT !.type = "text"]
                ELSE b
    IN  [i \in DOMAIN ms |-> [role |-> ms[i].role, blocks |-> [k \in DOMAIN ms[i].blocks |-> part(i, k)]]]

-----------------------------------------------------------------------------
Init ==
    /\ stage = "idle" /\ log = <<>> /\ summary = FALSE
    /\ answers = 0 /\ torn = {} /\ failed = FALSE

MaySpeak == Cardinality(Humans(log)) < MaxHumans

\* A message reaches a session whose graph is not running: the state is built
\* afresh and the summary with it, but the history has a reducer and stays.
\* After a failed turn the state is kept.
Begin ==
    /\ stage = "idle" /\ MaySpeak
    /\ \E w \in Words : log' = Append(log, Human(w))
    /\ summary' = (summary /\ failed)
    /\ failed' = FALSE
    /\ stage' \in {"converse", "analyze"}        \* triage_node
    /\ UNCHANGED <<answers, torn>>

\* converse_node, with the human's answer to the greeting.
Converse ==
    /\ stage = "converse" /\ MaySpeak
    /\ \E w \in Words : log' = log \o <<Spoken("GREETING"), Human(w)>>
    /\ stage' = "analyze"
    /\ UNCHANGED <<summary, answers, torn, failed>>

\* _synthetic_tool_results: the calls of a loop that stops are closed at once.
Closed(batch) == [i \in DOMAIN batch |-> Result(batch[i].id, "STOPPED")]

\* analyze_node and route_node: the thread is sent, the calls that survive
\* are recorded; the cap or a repeated batch stops the loop.
Analyze ==
    /\ stage = "analyze" /\ answers < MaxAnswers
    /\ answers' = answers + 1
    /\ \E answer \in Answers, stops \in BOOLEAN :
         LET batch == Dispatched(answer, answers')
         IN  /\ log' = IF batch = <<>> THEN log
                       ELSE log \o <<Calling(batch, answer)>> \o (IF stops THEN Closed(batch) ELSE <<>>)
             /\ stage' = IF batch = <<>> \/ stops THEN "idle" ELSE "tools"
    /\ UNCHANGED <<summary, torn, failed>>

\* route_before_analyze
SummaryDue(ms) ==
    LET later == Cardinality(Humans(ms)) - 1
    IN  IsHuman(Last(ms)) /\ later > 0 /\ later % SummaryEvery = 0

\* The ToolNode: the results in the order of the calls.  The tool that talks
\* to the human returns the answer as its result and as a message; it may
\* refuse its arguments and return at once.
Tools ==
    /\ stage = "tools"
    /\ LET batch == Last(log).calls
           talks == {i \in DOMAIN batch : batch[i].name \in Talkers}
           done == [i \in DOMAIN batch |-> Result(batch[i].id, "DONE")]
       IN  \/ log' = log \o done
           \/ /\ MaySpeak
              /\ \E i \in talks, w \in Words :
                   log' = log \o SubSeq(done, 1, i - 1) \o <<Result(batch[i].id, w), Human(w)>>
                              \o SubSeq(done, i + 1, Len(done))
    /\ stage' = IF SummaryDue(log') THEN "summarize" ELSE "analyze"
    /\ UNCHANGED <<summary, answers, torn, failed>>

\* summarize_node: an answer that is not a summary leaves the old one.
Summarize ==
    /\ stage = "summarize"
    /\ summary' \in {summary, TRUE}
    /\ stage' = "analyze"
    /\ UNCHANGED <<log, answers, torn, failed>>

\* A node raises, times out or is killed: what it would have written is lost.
Raise ==
    /\ stage # "idle"
    /\ stage' = "idle" /\ failed' = TRUE
    /\ torn' = IF stage = "tools" THEN torn \cup {answers} ELSE torn
    /\ UNCHANGED <<log, summary, answers>>

Next == Begin \/ Converse \/ Analyze \/ Tools \/ Summarize \/ Raise

Spec == Init /\ [][Next]_vars

-----------------------------------------------------------------------------
(* Properties *)

Ids(m, type) == {m.blocks[i].call : i \in {j \in DOMAIN m.blocks : m.blocks[j].type = type}}

\* The answers whose tools step was lost within the last turns of the human
\* that a history without a summary still shows.
RecentlyTorn ==
    {n \in torn : \E i \in DOMAIN log :
        /\ \E k \in DOMAIN log[i].calls : log[i].calls[k].id[1] = n
        /\ Cardinality({j \in Humans(log) : j > i}) <= SummaryEvery}

\* The results at the start of a history that is cut right after the call: a
\* note rode behind the question and its result follows the human's answer.
CutOff ==
    {log[i].call : i \in {j \in HistoryStart..Len(log) :
        /\ ~summary /\ HistoryStart > 1 /\ log[j].by = "tool"
        /\ \A k \in (HistoryStart + 1)..j : log[k].by = "tool"}}

\* Every call is answered once, in the next message, and every result answers
\* a call of the message before.
Paired(ms) ==
    \A i \in DOMAIN ms :
        /\ Ids(ms[i], "use") \subseteq
             (IF i < Len(ms) THEN Ids(ms[i + 1], "result") ELSE {})
             \cup {id \in Ids(ms[i], "use") : id[1] \in RecentlyTorn}
        /\ Ids(ms[i], "result") \ (IF i = 1 THEN CutOff ELSE {}) \subseteq
             (IF i > 1 THEN Ids(ms[i - 1], "use") ELSE {})
        /\ \A j, k \in DOMAIN ms[i].blocks :
              /\ ms[i].blocks[j].type = "result" /\ ms[i].blocks[k].type = "result"
              /\ ms[i].blocks[j].call = ms[i].blocks[k].call
              => j = k

\* The results follow their calls with nothing in between.
ChatPaired(ms) ==
    \A i \in DOMAIN ms : ms[i].role = "tool" /\ ms[i].calls[1] \notin CutOff =>
        \E k \in 1..(i - 1) :
            /\ ms[k].role = "assistant" /\ ms[i].calls[1] \in ToSet(ms[k].calls)
            /\ \A j \in (k + 1)..(i - 1) : ms[j].role = "tool"

\* nodes.py, 726: whatever was cut, merged, stopped, refused or lost before, no
\* request holds a dangling call or an orphaned result, in any wire format.
\* Two exceptions: the calls of a tools step that was lost stay for at most
\* SummaryEvery messages of the human, and CutOff.
CallsAnswered ==
    stage = "analyze" =>
        /\ Paired(AnthropicMessages(Thread))
        /\ Paired(BedrockMessages(Thread))
        /\ Paired(GoogleContents(Thread))
        /\ ChatPaired(ChatMessages(Thread))

\* _summary_compaction_start and _bounded_history_start: what the human said
\* last is never sent without the question it answers.
QuestionKept ==
    stage = "analyze" /\ Humans(log) # {} =>
        LET h == Max(Humans(log))
            items == ResponseItems(Thread)
        IN  /\ h > 1 /\ log[h - 1].by = "tool" /\ log[h - 1].text = log[h].text =>
                 \E i \in DOMAIN items : items[i].type = "use" /\ items[i].call = log[h - 1].call
            /\ h > 1 /\ log[h - 1].by = "ai" /\ log[h - 1].calls = <<>> =>
                 \E i \in DOMAIN items : items[i].type = "text" /\ items[i].text = log[h - 1].text

\* llm_clients.py, 1515: a call replayed to Google carries the signature it
\* came with, through gates, new ids and the history; and a call Google never
\* made is not replayed as one.
SignaturesKept ==
    stage = "analyze" =>
        \A m \in ToSet(GoogleContents(Thread)) : \A b \in ToSet(Only(m, "use")) :
            \E e \in ToSet(log) : \E c \in ToSet(e.calls) :
                /\ c.id = b.call /\ c.origin # 0
                /\ b.name = e.asked[c.origin].name /\ b.sig = e.asked[c.origin].sig

=============================================================================
