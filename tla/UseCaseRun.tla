----------------------------- MODULE UseCaseRun -----------------------------
(***************************************************************************)
(* The use-case table of one project and the requests that generate it.    *)
(*                                                                         *)
(* Everything is one JSON row (use_case_models.model_data): the table and, *)
(* under "generation", the marker of the run that is writing it.  A run is *)
(* driven by separate requests.  Each reads the row, calls the model for   *)
(* minutes without a lock, and then locks the row to write its part; what  *)
(* it finds then may be another run, a manual edit, or another table.      *)
(***************************************************************************)
EXTENDS Naturals, FiniteSets

CONSTANTS
    Requests,    \* requests that may be in flight at the same time
    Modules,     \* module ids; the row id UC-<module>-001 is named by its module
    Draggable,   \* those whose row the user may drag in the diagram
    Names,       \* use cases the model may propose
    NoName,      \* no row
    Actors,
    ActorOf,     \* use case -> the actor the model names for it
    Batches,     \* modules of a monolithic run, each a model call of its own
    StaleAfter,  \* heartbeat age, in model-call timeouts, after which a run is dead
    MaxRuns,     \* how many runs are started
    MaxRelations, \* by hand, as long as there are fewer
    MaxCalls     \* how many requests carry a run on: model calls and selections

ASSUME NoNameAssumption == NoName \notin Names
ASSUME DraggableAssumption == Draggable \subseteq Modules
ASSUME ActorOfAssumption == ActorOf \in [Names -> Actors]
ASSUME BatchesAssumption == Batches \in Nat
ASSUME StaleAfterAssumption == StaleAfter \in Nat \ {0, 1}
ASSUME MaxAssumption == {MaxRuns, MaxRelations, MaxCalls} \subseteq Nat

Rows == [Modules -> Names \cup {NoName}]
NoRows == [m \in Modules |-> NoName]

(* A relationship: its endpoints.                                          *)
Relation == [from: Modules, to: Modules]

Statuses == {"none", "manual", "running", "failed", "completed", "completed_with_errors"}

(* payload["generation"]; candidates also note the run they were proposed   *)
(* in, 0 when the module has none.                                         *)
Generation == [status: Statuses, run: 0..MaxRuns,
               candidates: [Modules -> [run: 0..MaxRuns, name: Names \cup {NoName}]],
               detail: [Modules -> {"none", "pending", "completed", "failed"}],
               relationsError: BOOLEAN]

(* The rest of the payload; flows names the use case a row's flows describe, *)
(* dragged holds the rows with a manual position in diagramLayout.         *)
Table == [modules: SUBSET Modules, actors: SUBSET Actors, rows: Rows, flows: Rows,
          relations: SUBSET Relation, dragged: SUBSET Modules]

(* A request: what it does, its run, the rows it has read, the module or    *)
(* rows it is for; how long its model call and, if monolithic, the whole    *)
(* request have taken.                                                     *)
Kinds == {"idle", "inserting groups", "inserting whole", "groups", "whole", "relating",
          "finishing", "candidates", "details", "relations"}
Request == [kind: Kinds, run: 0..MaxRuns, seen: Rows, found: SUBSET Relation,
            for: SUBSET Modules, batches: 0..Batches, held: 0..1, life: 0..StaleAfter]

NoCandidate == [run |-> 0, name |-> NoName]
Fresh(status, run) ==
    [status |-> status, run |-> run, candidates |-> [m \in Modules |-> NoCandidate],
     detail |-> [m \in Modules |-> "none"], relationsError |-> FALSE]
Idle == [kind |-> "idle", run |-> 0, seen |-> NoRows, found |-> {}, for |-> {},
         batches |-> 0, held |-> 0, life |-> 0]

VARIABLES
    exists,      \* the row of the project is there
    table,
    generation,
    age,         \* of the heartbeat updatedAt, or startedAt when there is none
    request,
    runs,        \* runs started so far
    calls        \* requests that have carried a run on so far

vars == <<exists, table, generation, age, request, runs, calls>>

-----------------------------------------------------------------------------
RowsIn(rows) == {m \in Modules : rows[m] # NoName}
ActorsIn(rows) == {ActorOf[rows[m]] : m \in RowsIn(rows)}

Running == generation.status = "running"

(* Mutant of HeartbeatIsStale: an abandoned run is never noticed.          *)
HeartbeatNeverStale == FALSE

(* _generation_heartbeat_is_stale.                                         *)
HeartbeatIsStale == age = StaleAfter

CanStart == ~Running \/ HeartbeatIsStale

Answer(r) == request' = [request EXCEPT ![r] = Idle]

(* _touch_generation(status = "running").                                  *)
Touch == age' = 0

(* A step that only a running table counts as a sign of life.              *)
TouchIfRunning == age' = IF Running THEN 0 ELSE age

(* mark_running_generation_failed: whatever run the row names.             *)
FailRunning ==
    generation' = IF Running THEN [generation EXCEPT !.status = "failed"] ELSE generation

(* _mark_generation_failed: only the run of the request.                   *)
FailOwn(r) ==
    generation' = IF generation.run = request[r].run
                  THEN [generation EXCEPT !.status = "failed"] ELSE generation

-----------------------------------------------------------------------------
(* Starting a run *)

Inserting(kind) == IF kind = "whole" THEN "inserting whole" ELSE "inserting groups"

Begin(r, kind) ==
    /\ generation' = Fresh("running", runs + 1)
    /\ runs' = runs + 1
    /\ exists' = TRUE
    /\ table' = [table EXCEPT !.dragged = {}]
    /\ Touch
    /\ request' = [request EXCEPT ![r] = [Idle EXCEPT !.kind = kind, !.run = runs + 1,
                                              !.batches = IF kind = "whole" THEN Batches ELSE 0]]
    /\ calls' = calls

(* _mark_generation_started under the row lock; a 409 changes nothing.     *)
Start(r, kind) ==
    /\ request[r].kind = "idle"
    /\ exists /\ CanStart
    /\ runs < MaxRuns
    /\ Begin(r, kind)

(* There is no row yet: the request is about to insert one ...             *)
MeetNoRow(r, kind) ==
    /\ request[r].kind = "idle"
    /\ ~exists
    /\ runs < MaxRuns
    /\ request' = [request EXCEPT ![r] = [Idle EXCEPT !.kind = Inserting(kind)]]
    /\ UNCHANGED <<exists, table, generation, age, runs, calls>>

InsertRow(r, kind) ==
    /\ request[r].kind = Inserting(kind)
    /\ ~exists
    /\ runs < MaxRuns
    /\ Begin(r, kind)

(* ... or finds that another request was faster: an IntegrityError, which  *)
(* the route answers by failing the run it finds.                          *)
InsertCollides(r) ==
    /\ request[r].kind \in {"inserting groups", "inserting whole"}
    /\ exists
    /\ FailRunning
    /\ Answer(r)
    /\ UNCHANGED <<exists, table, age, runs, calls>>

-----------------------------------------------------------------------------
(* The steps of a split run *)

(* generate_groups writes its modules over whatever the row holds.         *)
GroupsDone(r, modules, actors) ==
    /\ request[r].kind = "groups"
    /\ modules # {}
    /\ table' = [modules |-> modules, actors |-> actors, rows |-> NoRows, flows |-> NoRows,
                 relations |-> {}, dragged |-> {}]
    /\ generation' = Fresh("running", request[r].run)
    /\ Touch
    /\ Answer(r)
    /\ UNCHANGED <<exists, runs, calls>>

(* A timeout, no provider, a malformed answer.                             *)
CallFails(r) ==
    /\ request[r].kind \in {"groups", "whole", "candidates"}
    /\ FailOwn(r)
    /\ Answer(r)
    /\ UNCHANGED <<exists, table, age, runs, calls>>

(* An exception escapes the service; the route's fallback.                 *)
Breaks(r) ==
    /\ request[r].kind \in {"groups", "whole", "relating", "finishing", "candidates",
                            "relations"}
    /\ FailRunning
    /\ Answer(r)
    /\ UNCHANGED <<exists, table, age, runs, calls>>

Reading(r, record) ==
    /\ request[r].kind = "idle"
    /\ calls < MaxCalls
    /\ calls' = calls + 1
    /\ request' = [request EXCEPT ![r] = record]
    /\ UNCHANGED <<exists, table, generation, age, runs>>

ReadForCandidates(r, m) ==
    /\ Running
    /\ m \in table.modules
    /\ Reading(r, [Idle EXCEPT !.kind = "candidates", !.run = generation.run, !.for = {m}])

(* Mutant of OwnRun: the run is not compared when the answer arrives.      *)
AnyRun(r) == Running

(* The check of _merge_into_run.                                           *)
OwnRun(r) == Running /\ generation.run = request[r].run

CandidatesDone(r, name) ==
    /\ request[r].kind = "candidates"
    /\ OwnRun(r)
    /\ generation' = [generation EXCEPT !.candidates =
           [m \in Modules |-> IF m \in request[r].for
                              THEN [run |-> request[r].run, name |-> name] ELSE @[m]]]
    /\ Touch
    /\ Answer(r)
    /\ UNCHANGED <<exists, table, runs, calls>>

(* 409 USE_CASE_GENERATION_SUPERSEDED.                                     *)
CandidatesDiscarded(r) ==
    /\ request[r].kind = "candidates"
    /\ ~OwnRun(r)
    /\ Answer(r)
    /\ UNCHANGED <<exists, table, generation, age, runs, calls>>

(* A candidate of a known module, with a known actor.                      *)
Selectable(m) ==
    /\ m \in table.modules
    /\ generation.candidates[m].name # NoName
    /\ ActorOf[generation.candidates[m].name] \in table.actors

(* select_use_cases; of candidates with one name the better one is taken.  *)
Select(rows) ==
    /\ Running
    /\ calls < MaxCalls
    /\ calls' = calls + 1
    /\ \A m \in Modules :
          rows[m] \in {NoName} \cup
              (IF Selectable(m) THEN {generation.candidates[m].name} ELSE {})
    /\ {rows[m] : m \in RowsIn(rows)}
          = {generation.candidates[m].name : m \in {n \in Modules : Selectable(n)}}
    /\ \A m, n \in RowsIn(rows) : rows[m] = rows[n] => m = n
    /\ table' = [table EXCEPT !.rows = rows, !.flows = NoRows, !.relations = {},
                              !.actors = @ \cap ActorsIn(rows), !.dragged = {}]
    /\ generation' = [Fresh("running", generation.run) EXCEPT !.detail =
           [m \in Modules |-> IF rows[m] # NoName THEN "pending" ELSE "none"]]
    /\ Touch
    /\ UNCHANGED <<exists, request, runs>>

(* select_use_cases or finalize_generation raises.                         *)
StepBreaks ==
    /\ Running
    /\ FailRunning
    /\ UNCHANGED <<exists, table, age, request, runs, calls>>

(* No run is needed: this is also the retry of single rows.                *)
ReadForDetails(r, for) ==
    /\ for # {}
    /\ for \subseteq RowsIn(table.rows)
    /\ Reading(r, [Idle EXCEPT !.kind = "details", !.for = for, !.seen =
           [m \in Modules |-> IF m \in for THEN table.rows[m] ELSE NoName]])

(* Mutant of SameRow: the row is recognised by its id alone.               *)
SameId(r, m) == m \in request[r].for /\ table.rows[m] # NoName

(* The row is the one that was read: its id and its name.                  *)
SameRow(r, m) ==
    m \in request[r].for /\ table.rows[m] # NoName /\ table.rows[m] = request[r].seen[m]

WithDetail(r, written) ==
    [generation EXCEPT !.detail =
        [m \in Modules |-> IF SameRow(r, m)
                           THEN IF m \in written THEN "completed" ELSE "failed"
                           ELSE @[m]]]

(* Mutant of Resolved: relationships that were not generated are forgotten. *)
ResolvedRows(g) ==
    g.status = "completed_with_errors" /\ \A m \in Modules : g.detail[m] \in {"none", "completed"}

(* The condition of _clear_resolved_errors.                                *)
Resolved(g) ==
    /\ g.status = "completed_with_errors"
    /\ ~g.relationsError
    /\ \A m \in Modules : g.detail[m] \in {"none", "completed"}

ClearResolvedErrors(g) == IF Resolved(g) THEN [g EXCEPT !.status = "completed"] ELSE g

(* Drafts that were applied to their rows; the others failed.              *)
DetailsDone(r, written) ==
    /\ request[r].kind = "details"
    /\ table' = [table EXCEPT !.flows =
           [m \in Modules |-> IF SameRow(r, m) /\ m \in written
                              THEN request[r].seen[m] ELSE @[m]]]
    /\ generation' = ClearResolvedErrors(WithDetail(r, written))
    /\ TouchIfRunning
    /\ Answer(r)
    /\ UNCHANGED <<exists, runs, calls>>

(* _mark_details_failed.                                                   *)
DetailsFail(r) ==
    /\ request[r].kind = "details"
    /\ generation' = WithDetail(r, {})
    /\ TouchIfRunning
    /\ Answer(r)
    /\ UNCHANGED <<exists, table, runs, calls>>

ReadForRelations(r) ==
    /\ RowsIn(table.rows) # {}
    /\ Reading(r, [Idle EXCEPT !.kind = "relations", !.for = RowsIn(table.rows)])

(* _apply_relationship_drafts: no row is related to itself, and two rows   *)
(* are related once, in one direction.                                     *)
Pairs(rows) == {rel \in Relation : rel.from # rel.to /\ {rel.from, rel.to} \subseteq rows}

Answers(rows) ==
    {found \in SUBSET Pairs(rows) :
        \A rel, other \in found : {rel.from, rel.to} = {other.from, other.to} => rel = other}

(* Mutant of StillThere: relationships are kept as the model named them.   *)
WasThere(rel) == TRUE

StillThere(rel) == {rel.from, rel.to} \subseteq RowsIn(table.rows)

(* The relationships found replace all that are there.                     *)
RelationsDone(r, found) ==
    /\ request[r].kind = "relations"
    /\ found \in Answers(request[r].for)
    /\ table' = [table EXCEPT !.relations = {rel \in found : StillThere(rel)}]
    /\ generation' = ClearResolvedErrors([generation EXCEPT !.relationsError = FALSE])
    /\ TouchIfRunning
    /\ Answer(r)
    /\ UNCHANGED <<exists, runs, calls>>

(* _record_relations_error.                                                *)
RelationsFail(r) ==
    /\ request[r].kind = "relations"
    /\ generation' = [generation EXCEPT !.relationsError = TRUE]
    /\ Answer(r)
    /\ UNCHANGED <<exists, table, age, runs, calls>>

(* finalize_generation; of a run that is not running it changes nothing.   *)
Finalize ==
    LET missing == {m \in RowsIn(table.rows) : generation.detail[m] # "completed"}
    IN  /\ Running
        /\ generation' = [generation EXCEPT
              !.status = IF missing = {} /\ ~generation.relationsError
                         THEN "completed" ELSE "completed_with_errors",
              !.detail = [m \in Modules |-> IF m \in missing THEN "failed" ELSE @[m]]]
        /\ Touch
        /\ UNCHANGED <<exists, table, request, runs, calls>>

-----------------------------------------------------------------------------
(* The monolithic run: all steps in one request.  It never writes updatedAt, *)
(* and its own payloads carry startedAt only.                              *)

BatchDone(r) ==
    /\ request[r].kind = "whole"
    /\ request[r].batches > 0
    /\ request' = [request EXCEPT ![r].batches = @ - 1, ![r].held = 0]
    /\ generation' = IF generation.run = request[r].run
                     THEN [generation EXCEPT !.status = "running"] ELSE generation
    /\ UNCHANGED <<exists, table, age, runs, calls>>

(* Actors that no row names are left out; the code drops them with the      *)
(* relationships.                                                          *)
Whole(rows, relations) ==
    [modules |-> Modules, actors |-> ActorsIn(rows), rows |-> rows, flows |-> rows,
     relations |-> relations, dragged |-> {}]

(* _persist_generation_progress, skipped when the row names another run.   *)
PersistProgress(r, rows, relations) ==
    IF generation.run = request[r].run
    THEN /\ table' = Whole(rows, relations)
         /\ generation' = Fresh("running", request[r].run)
         /\ age' = request[r].life
    ELSE UNCHANGED <<table, generation, age>>

WholePersists(r, rows) ==
    /\ request[r].kind = "whole"
    /\ request[r].batches = 0
    /\ PersistProgress(r, rows, {})
    /\ request' = [request EXCEPT ![r] = [@ EXCEPT !.kind = "relating", !.held = 0,
                                              !.seen = rows]]
    /\ UNCHANGED <<exists, runs, calls>>

(* One more model call finds the relationships, or fails and finds none.   *)
WholeRelates(r, found) ==
    /\ request[r].kind = "relating"
    /\ found \in Answers(RowsIn(request[r].seen))
    /\ PersistProgress(r, request[r].seen, found)
    /\ request' = [request EXCEPT ![r] = [@ EXCEPT !.kind = "finishing", !.found = found]]
    /\ UNCHANGED <<exists, runs, calls>>

(* _persist_generated after the layout: no look at what the row holds.     *)
WholeDone(r, status) ==
    /\ request[r].kind = "finishing"
    /\ status \in {"completed", "completed_with_errors"}
    /\ table' = Whole(request[r].seen, request[r].found)
    /\ generation' = Fresh(status, request[r].run)
    /\ age' = request[r].life
    /\ Answer(r)
    /\ UNCHANGED <<exists, runs, calls>>

-----------------------------------------------------------------------------
(* Manual edits *)

(* The marker of a run goes, whatever it says.                             *)
Unmark ==
    /\ exists' = TRUE
    /\ generation' = Fresh("manual", 0)
    /\ age' = StaleAfter
    /\ UNCHANGED <<request, runs, calls>>

(* _mark_table_changed.                                                    *)
Edited(newTable) == Unmark /\ table' = [newTable EXCEPT !.dragged = {}]

(* create_actor, or update_actor of one that is there.                     *)
EditActors(a) == Edited([table EXCEPT !.actors = @ \cup {a}])

EditPlantUml == Unmark /\ UNCHANGED table

(* update_diagram_positions; generate_diagram keeps these positions.       *)
Drag(m) ==
    /\ m \in Draggable \cap RowsIn(table.rows)
    /\ table' = [table EXCEPT !.dragged = @ \cup {m}]
    /\ UNCHANGED <<exists, generation, age, request, runs, calls>>

DeleteActor(a) ==
    /\ a \in table.actors \ ActorsIn(table.rows)
    /\ Edited([table EXCEPT !.actors = @ \ {a}])

Relate(from, to) ==
    /\ Cardinality(table.relations) < MaxRelations
    /\ {from, to} \subseteq RowsIn(table.rows)
    /\ Edited([table EXCEPT !.relations =
           @ \cup {[from |-> from, to |-> to]}])

Unrelate(rel) ==
    /\ rel \in table.relations
    /\ Edited([table EXCEPT !.relations = @ \ {rel}])

-----------------------------------------------------------------------------
(* Time passes; no model call outlives its timeout.                        *)
Calling ==
    {r \in Requests : request[r].kind \notin {"idle", "inserting groups", "inserting whole"}}

Monolithic == {"whole", "relating", "finishing"}

Older(n) == IF n < StaleAfter THEN n + 1 ELSE n

Tick ==
    /\ age < StaleAfter \/ \E r \in Calling : request[r].held = 0
    /\ \A r \in Calling : request[r].held = 0
    /\ age' = Older(age)
    /\ request' = [r \in Requests |->
          IF r \in Calling
          THEN [request[r] EXCEPT !.held = 1,
                   !.life = IF request[r].kind \in Monolithic THEN Older(@) ELSE @]
          ELSE request[r]]
    /\ UNCHANGED <<exists, table, generation, runs, calls>>

(* The process is killed: requests vanish, the row stays.                  *)
Crash ==
    /\ \E r \in Requests : request[r] # Idle
    /\ request' = [r \in Requests |-> Idle]
    /\ UNCHANGED <<exists, table, generation, age, runs, calls>>

Init ==
    /\ exists = FALSE
    /\ table = [modules |-> {}, actors |-> {}, rows |-> NoRows, flows |-> NoRows,
                relations |-> {}, dragged |-> {}]
    /\ generation = Fresh("none", 0)
    /\ age = StaleAfter
    /\ request = [r \in Requests |-> Idle]
    /\ runs = 0
    /\ calls = 0

StartStep(r) ==
    \/ \E kind \in {"groups", "whole"} :
          Start(r, kind) \/ MeetNoRow(r, kind) \/ InsertRow(r, kind)
    \/ InsertCollides(r)

ReadStep(r) ==
    \/ \E m \in Modules : ReadForCandidates(r, m)
    \/ \E for \in SUBSET Modules : ReadForDetails(r, for)
    \/ ReadForRelations(r)

(* The step with which a request in flight goes on after its model call.   *)
EndStep(r) ==
    \/ \E modules \in SUBSET Modules, actors \in SUBSET Actors : GroupsDone(r, modules, actors)
    \/ CallFails(r) \/ Breaks(r)
    \/ \E name \in Names \cup {NoName} : CandidatesDone(r, name)
    \/ CandidatesDiscarded(r)
    \/ \E written \in SUBSET request[r].for : DetailsDone(r, written)
    \/ DetailsFail(r)
    \/ \E found \in Answers(request[r].for) : RelationsDone(r, found)
    \/ RelationsFail(r)
    \/ BatchDone(r)
    \/ \E rows \in Rows : WholePersists(r, rows)
    \/ \E found \in Answers(RowsIn(request[r].seen)) : WholeRelates(r, found)
    \/ \E status \in Statuses : WholeDone(r, status)

TableStep ==
    \/ \E rows \in Rows : Select(rows)
    \/ StepBreaks
    \/ Finalize
    \/ \E a \in Actors : EditActors(a) \/ DeleteActor(a)
    \/ EditPlantUml
    \/ \E m \in Modules : Drag(m)
    \/ \E m, n \in Modules : Relate(m, n)
    \/ \E rel \in table.relations : Unrelate(rel)

Next ==
    \/ \E r \in Requests : StartStep(r) \/ ReadStep(r) \/ EndStep(r)
    \/ TableStep
    \/ Tick
    \/ Crash

Spec == Init /\ [][Next]_vars

(* asyncio runs every request, wait_for ends its model call, time passes.  *)
FairSpec == Spec /\ WF_vars(Tick) /\ \A r \in Requests : WF_vars(EndStep(r))

-----------------------------------------------------------------------------
(* The type invariant.                                                     *)
TypeOK ==
    /\ exists \in BOOLEAN
    /\ table \in Table
    /\ generation \in Generation
    /\ age \in 0..StaleAfter
    /\ request \in [Requests -> Request]
    /\ runs \in 0..MaxRuns
    /\ calls \in 0..MaxCalls

(* A row's flows describe the use case in that row, although a table       *)
(* generated meanwhile may reuse the id.                                   *)
FlowsMatchRow == \A m \in Modules : table.flows[m] \in {NoName, table.rows[m]}

(* What a superseded run proposed never reaches the run that replaced it.  *)
CandidatesOfThisRun ==
    \A m \in Modules : generation.candidates[m].run \in {0, generation.run}

(* Nothing dangles: every use case has its actor in the table and every    *)
(* relationship both its ends, although modules, actors, candidates and     *)
(* relationships come from different requests and actors are edited by hand.*)
NothingDangles ==
    /\ ActorsIn(table.rows) \subseteq table.actors
    /\ \A rel \in table.relations : {rel.from, rel.to} \subseteq RowsIn(table.rows)

(* A run becomes completed only when no row waits for its detail and the   *)
(* relationships did not fail, whichever request comes last.               *)
CompletedIsWhole ==
    [][generation'.status = "completed" /\ generation.status # "completed" =>
          /\ ~generation'.relationsError
          /\ \A m \in RowsIn(table'.rows) : generation'.detail[m] \notin {"pending", "failed"}]_vars

(* Generation is never locked for good, not even by a run whose requests   *)
(* were killed.                                                            *)
GenerateUnlocks == []<>CanStart

=============================================================================
