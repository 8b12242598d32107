-------------------------- MODULE UseCaseRunProofs --------------------------
(***************************************************************************)
(* Proofs about UseCaseRun, for any requests, modules, use cases, actors   *)
(* and bounds.  The invariant says of the table, of the marker of the run  *)
(* and of each request separately what the properties need: most steps     *)
(* write one of the three and leave the others alone.                      *)
(***************************************************************************)
EXTENDS UseCaseRun, TLAPS

SoundTable(t) ==
    /\ t \in Table
    /\ \A m \in Modules : t.flows[m] \in {NoName, t.rows[m]}
    /\ ActorsIn(t.rows) \subseteq t.actors
    /\ \A rel \in t.relations : {rel.from, rel.to} \subseteq RowsIn(t.rows)

OwnCandidates(g) ==
    /\ g \in Generation
    /\ \A m \in Modules : g.candidates[m].run \in {0, g.run}

(* The relationships a monolithic run has found relate rows it has written. *)
SoundRequest(q) ==
    /\ q \in Request
    /\ q.kind = "finishing" => q.found \in Answers(RowsIn(q.seen))

Inv ==
    /\ exists \in BOOLEAN
    /\ SoundTable(table)
    /\ OwnCandidates(generation)
    /\ age \in 0..StaleAfter
    /\ request \in [Requests -> Request]
    /\ \A r \in Requests : SoundRequest(request[r])
    /\ runs \in 0..MaxRuns
    /\ calls \in 0..MaxCalls

-----------------------------------------------------------------------------
(* Tables *)

LEMMA ConstantTypes ==
  /\ NoName \notin Names /\ ActorOf \in [Names -> Actors]
  /\ Batches \in Nat /\ StaleAfter \in Nat /\ StaleAfter > 1
  /\ MaxRuns \in Nat /\ MaxRelations \in Nat /\ MaxCalls \in Nat
  /\ Draggable \subseteq Modules
  BY NoNameAssumption, DraggableAssumption, ActorOfAssumption, BatchesAssumption,
     StaleAfterAssumption, MaxAssumption

LEMMA NoRowsIsEmpty == NoRows \in Rows /\ RowsIn(NoRows) = {} /\ ActorsIn(NoRows) = {}
  BY DEF NoRows, Rows, RowsIn, ActorsIn

LEMMA ActorsAreActors == ASSUME NEW rows \in Rows PROVE ActorsIn(rows) \subseteq Actors
  BY ConstantTypes DEF Rows, ActorsIn, RowsIn

(* A table with its rows and flows kept stays sound with other actors and   *)
(* relationships, as long as those cover the rows.                         *)
LEMMA SameRowsTable ==
  ASSUME NEW t, SoundTable(t), NEW u \in Table, u.rows = t.rows, u.flows = t.flows,
         ActorsIn(u.rows) \subseteq u.actors,
         \A rel \in u.relations : {rel.from, rel.to} \subseteq RowsIn(u.rows)
  PROVE  SoundTable(u)
  BY DEF SoundTable

LEMMA DraggedTable ==
  ASSUME NEW t, SoundTable(t), NEW d \in SUBSET Modules
  PROVE  SoundTable([t EXCEPT !.dragged = d])
  <1>1. [t EXCEPT !.dragged = d] \in Table
    BY DEF SoundTable, Table
  <1> QED
    BY <1>1 DEF SoundTable, Table

LEMMA WholeTable ==
  ASSUME NEW rows \in Rows, NEW found \in Answers(RowsIn(rows))
  PROVE  SoundTable(Whole(rows, found))
  <1>1. found \subseteq Relation /\ \A rel \in found : {rel.from, rel.to} \subseteq RowsIn(rows)
    BY DEF Answers, Pairs
  <1>2. Whole(rows, found) \in Table
    BY <1>1, ActorsAreActors DEF Whole, Table
  <1> QED
    BY <1>1, <1>2 DEF Whole, SoundTable

LEMMA NothingFound == ASSUME NEW rows \in Rows PROVE {} \in Answers(RowsIn(rows))
  BY DEF Answers, Pairs

-----------------------------------------------------------------------------
(* Markers *)

LEMMA FreshOwn ==
  ASSUME NEW s \in Statuses, NEW n \in 0..MaxRuns
  PROVE  OwnCandidates(Fresh(s, n))
  BY ConstantTypes DEF OwnCandidates, Generation, Fresh, NoCandidate

LEMMA StatusOwn ==
  ASSUME NEW g, OwnCandidates(g), NEW s \in Statuses
  PROVE  OwnCandidates([g EXCEPT !.status = s])
  BY DEF OwnCandidates, Generation

LEMMA ErrorOwn ==
  ASSUME NEW g, OwnCandidates(g), NEW b \in BOOLEAN
  PROVE  OwnCandidates([g EXCEPT !.relationsError = b])
  BY DEF OwnCandidates, Generation

LEMMA DetailOwn ==
  ASSUME NEW g, OwnCandidates(g),
         NEW d \in [Modules -> {"none", "pending", "completed", "failed"}]
  PROVE  OwnCandidates([g EXCEPT !.detail = d])
  BY DEF OwnCandidates, Generation

LEMMA ResolvedOwn ==
  ASSUME NEW g, OwnCandidates(g)
  PROVE  OwnCandidates(ClearResolvedErrors(g))
  BY StatusOwn DEF ClearResolvedErrors, Statuses

LEMMA FailedOwn ==
  ASSUME Inv, FailRunning
  PROVE  OwnCandidates(generation')
  BY StatusOwn DEF Inv, FailRunning, Statuses

LEMMA FailedOwnRun ==
  ASSUME Inv, NEW r \in Requests, FailOwn(r)
  PROVE  OwnCandidates(generation')
  BY StatusOwn DEF Inv, FailOwn, Statuses

LEMMA WithDetailOwn ==
  ASSUME Inv, NEW r \in Requests, NEW written
  PROVE  OwnCandidates(WithDetail(r, written))
  <1> DEFINE d == [m \in Modules |-> IF SameRow(r, m)
                         THEN IF m \in written THEN "completed" ELSE "failed"
                         ELSE generation.detail[m]]
  <1>1. d \in [Modules -> {"none", "pending", "completed", "failed"}]
    BY DEF Inv, OwnCandidates, Generation
  <1>2. WithDetail(r, written) = [generation EXCEPT !.detail = d]
    BY DEF WithDetail
  <1> HIDE DEF d
  <1>3. OwnCandidates(generation)
    BY DEF Inv
  <1> QED
    BY <1>1, <1>2, <1>3, DetailOwn

-----------------------------------------------------------------------------
(* Requests *)

LEMMA Zeros == 0 \in 0..MaxRuns /\ 0 \in 0..Batches /\ Batches \in 0..Batches
               /\ {} \in SUBSET Modules /\ NoRows \in Rows
  BY ConstantTypes, NoRowsIsEmpty

LEMMA IdleSound == Idle \in Request /\ SoundRequest(Idle)
  <1>1. "idle" \in Kinds /\ 0 \in 0..1 /\ 0 \in 0..StaleAfter /\ {} \in SUBSET Relation
    BY ConstantTypes DEF Kinds
  <1> QED
    BY <1>1, Zeros DEF Idle, Request, SoundRequest

LEMMA OneRequest ==
  ASSUME Inv, NEW r \in Requests, NEW q, SoundRequest(q),
         request' = [request EXCEPT ![r] = q]
  PROVE  /\ request' \in [Requests -> Request]
         /\ \A s \in Requests : SoundRequest(request'[s])
  BY DEF Inv, SoundRequest

LEMMA Answered ==
  ASSUME Inv, NEW r \in Requests, Answer(r)
  PROVE  /\ request' \in [Requests -> Request]
         /\ \A s \in Requests : SoundRequest(request'[s])
  BY IdleSound, OneRequest DEF Answer

LEMMA HeldSound ==
  ASSUME NEW q, SoundRequest(q), NEW l \in 0..StaleAfter
  PROVE  SoundRequest([q EXCEPT !.held = 1, !.life = l])
  <1> DEFINE p == [q EXCEPT !.held = 1, !.life = l]
  <1>0. 1 \in 0..1
    OBVIOUS
  <1>1. p \in Request
    BY <1>0 DEF SoundRequest, Request
  <1>2. p.kind = q.kind /\ p.found = q.found /\ p.seen = q.seen
    BY DEF SoundRequest, Request
  <1> HIDE DEF p
  <1>3. SoundRequest(p)
    BY <1>1, <1>2 DEF SoundRequest
  <1> QED
    BY <1>3 DEF p

-----------------------------------------------------------------------------
(* Starting a run, reading, failing: the table keeps its rows.             *)

LEMMA BeginStep ==
  ASSUME Inv, NEW r \in Requests, NEW kind \in {"groups", "whole"}, runs < MaxRuns,
         Begin(r, kind)
  PROVE  Inv'
  <1> DEFINE q == [Idle EXCEPT !.kind = kind, !.run = runs + 1,
                               !.batches = IF kind = "whole" THEN Batches ELSE 0]
  <1>1. runs + 1 \in 0..MaxRuns
    BY ConstantTypes DEF Inv
  <1>2. SoundRequest(q)
    <2> DEFINE b == IF kind = "whole" THEN Batches ELSE 0
    <2>1. b \in 0..Batches /\ kind \in Kinds /\ kind # "finishing"
      BY Zeros DEF Kinds
    <2> HIDE DEF b
    <2>2. q \in Request /\ q.kind = kind
      BY <1>1, <2>1, IdleSound DEF Request, b
    <2> HIDE DEF q
    <2> QED
      BY <2>1, <2>2 DEF SoundRequest
  <1>3. request' = [request EXCEPT ![r] = q]
    BY DEF Begin
  <1> HIDE DEF q
  <1>4. request' \in [Requests -> Request] /\ \A s \in Requests : SoundRequest(request'[s])
    BY <1>2, <1>3, OneRequest
  <1>5. OwnCandidates(generation')
    BY <1>1, FreshOwn DEF Begin, Statuses
  <1>6. SoundTable(table')
    BY DraggedTable DEF Begin, Inv
  <1>7. age' \in 0..StaleAfter
    BY ConstantTypes DEF Begin, Touch
  <1> QED
    BY <1>1, <1>4, <1>5, <1>6, <1>7 DEF Inv, Begin

LEMMA StartSteps == ASSUME Inv, NEW r \in Requests, StartStep(r) PROVE Inv'
  <1>1. ASSUME NEW kind \in {"groups", "whole"}, Start(r, kind) PROVE Inv'
    BY <1>1, BeginStep DEF Start
  <1>2. ASSUME NEW kind \in {"groups", "whole"}, MeetNoRow(r, kind) PROVE Inv'
    <2> DEFINE q == [Idle EXCEPT !.kind = Inserting(kind)]
    <2>1. SoundRequest(q)
      <3>1. Inserting(kind) \in Kinds /\ Inserting(kind) # "finishing"
        BY DEF Kinds, Inserting
      <3>2. q \in Request /\ q.kind = Inserting(kind)
        BY <3>1, IdleSound DEF Request
      <3> HIDE DEF q
      <3> QED
        BY <3>1, <3>2 DEF SoundRequest
    <2>2. request' = [request EXCEPT ![r] = q]
      BY <1>2 DEF MeetNoRow
    <2> HIDE DEF q
    <2>3. request' \in [Requests -> Request] /\ \A s \in Requests : SoundRequest(request'[s])
      BY <2>1, <2>2, OneRequest
    <2> QED
      BY <1>2, <2>3 DEF MeetNoRow, Inv
  <1>3. ASSUME NEW kind \in {"groups", "whole"}, InsertRow(r, kind) PROVE Inv'
    BY <1>3, BeginStep DEF InsertRow
  <1>4. CASE InsertCollides(r)
    BY <1>4, Answered, FailedOwn DEF InsertCollides, Inv
  <1> QED
    BY <1>1, <1>2, <1>3, <1>4 DEF StartStep

LEMMA ReadingStep ==
  ASSUME Inv, NEW r \in Requests, NEW q, SoundRequest(q), Reading(r, q)
  PROVE  Inv'
  <1>1. request' \in [Requests -> Request] /\ \A s \in Requests : SoundRequest(request'[s])
    BY OneRequest DEF Reading
  <1>2. calls' \in 0..MaxCalls
    BY ConstantTypes DEF Reading, Inv
  <1> QED
    BY <1>1, <1>2 DEF Reading, Inv

LEMMA ReadSteps == ASSUME Inv, NEW r \in Requests, ReadStep(r) PROVE Inv'
  <1>1. ASSUME NEW m \in Modules, ReadForCandidates(r, m) PROVE Inv'
    <2>1. generation.run \in 0..MaxRuns
      BY DEF Inv, OwnCandidates, Generation
    <2>2. SoundRequest([Idle EXCEPT !.kind = "candidates", !.run = generation.run, !.for = {m}])
      <3> DEFINE q == [Idle EXCEPT !.kind = "candidates", !.run = generation.run, !.for = {m}]
      <3>1. "candidates" \in Kinds /\ {m} \in SUBSET Modules
        BY DEF Kinds
      <3>2. q \in Request /\ q.kind = "candidates"
        BY <2>1, <3>1, IdleSound DEF Request
      <3> HIDE DEF q
      <3>3. SoundRequest(q)
        BY <3>2 DEF SoundRequest
      <3> QED
        BY <3>3 DEF q
    <2> QED
      BY <1>1, <2>2, ReadingStep DEF ReadForCandidates
  <1>2. ASSUME NEW for \in SUBSET Modules, ReadForDetails(r, for) PROVE Inv'
    <2> DEFINE seen == [m \in Modules |-> IF m \in for THEN table.rows[m] ELSE NoName]
    <2>1. seen \in Rows
      BY DEF Inv, SoundTable, Table, Rows
    <2>2. Reading(r, [Idle EXCEPT !.kind = "details", !.for = for, !.seen = seen])
      BY <1>2 DEF ReadForDetails
    <2> HIDE DEF seen
    <2>3. SoundRequest([Idle EXCEPT !.kind = "details", !.for = for, !.seen = seen])
      <3> DEFINE q == [Idle EXCEPT !.kind = "details", !.for = for, !.seen = seen]
      <3>1. "details" \in Kinds
        BY DEF Kinds
      <3>2. q \in Request /\ q.kind = "details"
        BY <2>1, <3>1, IdleSound DEF Request
      <3> HIDE DEF q
      <3>3. SoundRequest(q)
        BY <3>2 DEF SoundRequest
      <3> QED
        BY <3>3 DEF q
    <2> QED
      BY <2>2, <2>3, ReadingStep
  <1>3. CASE ReadForRelations(r)
    <2>1. RowsIn(table.rows) \subseteq Modules
      BY DEF RowsIn
    <2>2. SoundRequest([Idle EXCEPT !.kind = "relations", !.for = RowsIn(table.rows)])
      <3> DEFINE q == [Idle EXCEPT !.kind = "relations", !.for = RowsIn(table.rows)]
      <3>1. "relations" \in Kinds /\ RowsIn(table.rows) \in SUBSET Modules
        BY <2>1 DEF Kinds
      <3>2. q \in Request /\ q.kind = "relations"
        BY <2>1, <3>1, IdleSound DEF Request
      <3> HIDE DEF q
      <3>3. SoundRequest(q)
        BY <3>2 DEF SoundRequest
      <3> QED
        BY <3>3 DEF q
    <2> QED
      BY <1>3, <2>2, ReadingStep DEF ReadForRelations
  <1> QED
    BY <1>1, <1>2, <1>3 DEF ReadStep

-----------------------------------------------------------------------------
(* The answers of the model *)

LEMMA Touched == ASSUME Inv, Touch \/ TouchIfRunning PROVE age' \in 0..StaleAfter
  BY ConstantTypes DEF Touch, TouchIfRunning, Inv

LEMMA RequestTypes ==
  ASSUME Inv, NEW r \in Requests
  PROVE  /\ request[r] \in Request /\ SoundRequest(request[r])
         /\ request[r].run \in 0..MaxRuns /\ request[r].seen \in Rows
         /\ request[r].for \subseteq Modules /\ request[r].found \subseteq Relation
         /\ request[r].batches \in 0..Batches /\ request[r].life \in 0..StaleAfter
  BY DEF Inv, Request

(* generate_groups                                                         *)
LEMMA GroupsStep ==
  ASSUME Inv, NEW r \in Requests, NEW modules \in SUBSET Modules, NEW actors \in SUBSET Actors,
         GroupsDone(r, modules, actors)
  PROVE  Inv'
  <1>1. SoundTable(table')
    <2>1. table' \in Table
      BY NoRowsIsEmpty DEF GroupsDone, Table
    <2> QED
      BY <2>1, NoRowsIsEmpty DEF GroupsDone, SoundTable, NoRows
  <1>2. OwnCandidates(generation')
    BY RequestTypes, FreshOwn DEF GroupsDone, Statuses
  <1> QED
    BY <1>1, <1>2, Answered, Touched DEF GroupsDone, Inv

(* _merge_into_run: what is written carries the run of the request, and that *)
(* is the run the row names.                                               *)
LEMMA CandidatesStep ==
  ASSUME Inv, NEW r \in Requests, NEW name \in Names \cup {NoName}, CandidatesDone(r, name)
  PROVE  Inv'
  <1> DEFINE c == [m \in Modules |-> IF m \in request[r].for
                         THEN [run |-> request[r].run, name |-> name]
                         ELSE generation.candidates[m]]
  <1>1. c \in [Modules -> [run: 0..MaxRuns, name: Names \cup {NoName}]]
    BY RequestTypes DEF Inv, OwnCandidates, Generation
  <1>2. \A m \in Modules : c[m].run \in {0, generation.run}
    BY DEF CandidatesDone, OwnRun, Inv, OwnCandidates
  <1>3. generation' = [generation EXCEPT !.candidates = c]
    BY DEF CandidatesDone
  <1> HIDE DEF c
  <1>4. OwnCandidates(generation')
    BY <1>1, <1>2, <1>3 DEF Inv, OwnCandidates, Generation
  <1> QED
    BY <1>4, Answered, Touched DEF CandidatesDone, Inv

(* SameRow: flows go to a row only while it holds the use case they were    *)
(* written for.                                                            *)
LEMMA DetailsStep ==
  ASSUME Inv, NEW r \in Requests, NEW written, DetailsDone(r, written)
  PROVE  Inv'
  <1> DEFINE f == [m \in Modules |-> IF SameRow(r, m) /\ m \in written
                         THEN request[r].seen[m] ELSE table.flows[m]]
  <1>1. f \in Rows
    BY RequestTypes DEF Inv, SoundTable, Table, Rows
  <1>2. \A m \in Modules : f[m] \in {NoName, table.rows[m]}
    BY DEF SameRow, Inv, SoundTable
  <1>3. table' = [table EXCEPT !.flows = f]
    BY DEF DetailsDone
  <1> HIDE DEF f
  <1>4. SoundTable(table')
    <2>1. table' \in Table
      BY <1>1, <1>3 DEF Inv, SoundTable, Table
    <2> QED
      BY <1>2, <1>3, <2>1 DEF Inv, SoundTable, Table
  <1>5. OwnCandidates(generation')
    BY WithDetailOwn, ResolvedOwn DEF DetailsDone
  <1> QED
    BY <1>4, <1>5, Answered, Touched DEF DetailsDone, Inv

(* _apply_relationships: an answer about rows that are gone is left out.   *)
LEMMA RelationsStep ==
  ASSUME Inv, NEW r \in Requests, NEW found, RelationsDone(r, found)
  PROVE  Inv'
  <1> DEFINE kept == {rel \in found : StillThere(rel)}
  <1>1. found \subseteq Relation
    BY DEF RelationsDone, Answers, Pairs
  <1>2. table' = [table EXCEPT !.relations = kept]
    BY DEF RelationsDone
  <1>3. kept \subseteq Relation
        /\ \A rel \in kept : {rel.from, rel.to} \subseteq RowsIn(table.rows)
    BY <1>1 DEF StillThere
  <1> HIDE DEF kept
  <1>4. SoundTable(table')
    <2>1. table' \in Table
      BY <1>2, <1>3 DEF Inv, SoundTable, Table
    <2> QED
      BY <1>2, <1>3, <2>1 DEF Inv, SoundTable, Table
  <1>5. OwnCandidates(generation')
    BY ErrorOwn, ResolvedOwn DEF RelationsDone, Inv
  <1> QED
    BY <1>4, <1>5, Answered, Touched DEF RelationsDone, Inv

(* The monolithic run writes a table of its own, or nothing.               *)
LEMMA ProgressStep ==
  ASSUME Inv, NEW r \in Requests, NEW rows \in Rows, NEW found \in Answers(RowsIn(rows)),
         PersistProgress(r, rows, found)
  PROVE  SoundTable(table') /\ OwnCandidates(generation') /\ age' \in 0..StaleAfter
  BY WholeTable, RequestTypes, FreshOwn DEF PersistProgress, Inv, Statuses

LEMMA WholeSteps ==
  ASSUME Inv, NEW r \in Requests,
         \/ BatchDone(r)
         \/ \E rows \in Rows : WholePersists(r, rows)
         \/ \E found \in Answers(RowsIn(request[r].seen)) : WholeRelates(r, found)
         \/ \E status \in Statuses : WholeDone(r, status)
  PROVE  Inv'
  <1>1. CASE BatchDone(r)
    <2> DEFINE q == [request[r] EXCEPT !.batches = request[r].batches - 1, !.held = 0]
    <2>1. SoundRequest(q)
      <3>1. request[r].batches - 1 \in 0..Batches /\ 0 \in 0..1
        BY <1>1, RequestTypes, ConstantTypes DEF BatchDone
      <3>2. q \in Request /\ q.kind = "whole"
        BY <1>1, <3>1, RequestTypes DEF BatchDone, Request
      <3> HIDE DEF q
      <3> QED
        BY <3>2 DEF SoundRequest
    <2>2. request' = [request EXCEPT ![r] = q]
      BY <1>1, RequestTypes DEF BatchDone, Inv
    <2> HIDE DEF q
    <2>3. request' \in [Requests -> Request] /\ \A s \in Requests : SoundRequest(request'[s])
      BY <2>1, <2>2, OneRequest
    <2>4. OwnCandidates(generation')
      BY <1>1, StatusOwn DEF BatchDone, Inv, Statuses
    <2> QED
      BY <1>1, <2>3, <2>4 DEF BatchDone, Inv
  <1>2. ASSUME NEW rows \in Rows, WholePersists(r, rows) PROVE Inv'
    <2> DEFINE q == [request[r] EXCEPT !.kind = "relating", !.held = 0, !.seen = rows]
    <2>1. SoundRequest(q)
      <3>1. 0 \in 0..1 /\ "relating" \in Kinds
        BY DEF Kinds
      <3>2. q \in Request /\ q.kind = "relating"
        BY <3>1, RequestTypes DEF Request
      <3> HIDE DEF q
      <3> QED
        BY <3>2 DEF SoundRequest
    <2>2. request' = [request EXCEPT ![r] = q]
      BY <1>2 DEF WholePersists
    <2> HIDE DEF q
    <2>3. request' \in [Requests -> Request] /\ \A s \in Requests : SoundRequest(request'[s])
      BY <2>1, <2>2, OneRequest
    <2> QED
      BY <1>2, <2>3, NothingFound, ProgressStep DEF WholePersists, Inv
  <1>3. ASSUME NEW found \in Answers(RowsIn(request[r].seen)), WholeRelates(r, found)
        PROVE  Inv'
    <2> DEFINE q == [request[r] EXCEPT !.kind = "finishing", !.found = found]
    <2>1. found \subseteq Relation
      BY DEF Answers, Pairs
    <2>2. SoundRequest(q)
      BY <2>1, RequestTypes DEF SoundRequest, Request, Kinds
    <2>3. request' = [request EXCEPT ![r] = q]
      BY <1>3 DEF WholeRelates
    <2> HIDE DEF q
    <2>4. request' \in [Requests -> Request] /\ \A s \in Requests : SoundRequest(request'[s])
      BY <2>2, <2>3, OneRequest
    <2> QED
      BY <1>3, <2>4, RequestTypes, ProgressStep DEF WholeRelates, Inv
  <1>4. ASSUME NEW status \in Statuses, WholeDone(r, status) PROVE Inv'
    <2>1. request[r].found \in Answers(RowsIn(request[r].seen))
      BY <1>4, RequestTypes DEF WholeDone, SoundRequest
    <2>2. SoundTable(table')
      BY <1>4, <2>1, RequestTypes, WholeTable DEF WholeDone
    <2>3. OwnCandidates(generation')
      BY <1>4, RequestTypes, FreshOwn DEF WholeDone
    <2> QED
      BY <1>4, <2>2, <2>3, Answered, RequestTypes DEF WholeDone, Inv
  <1> QED
    BY <1>1, <1>2, <1>3, <1>4

LEMMA EndSteps == ASSUME Inv, NEW r \in Requests, EndStep(r) PROVE Inv'
  <1>1. CASE CallFails(r)
    BY <1>1, Answered, FailedOwnRun DEF CallFails, Inv
  <1>2. CASE Breaks(r)
    BY <1>2, Answered, FailedOwn DEF Breaks, Inv
  <1>3. CASE CandidatesDiscarded(r)
    BY <1>3, Answered DEF CandidatesDiscarded, Inv
  <1>4. CASE DetailsFail(r)
    BY <1>4, Answered, WithDetailOwn, Touched DEF DetailsFail, Inv
  <1>5. CASE RelationsFail(r)
    BY <1>5, Answered, ErrorOwn DEF RelationsFail, Inv
  <1>6. CASE \E modules \in SUBSET Modules, actors \in SUBSET Actors :
                GroupsDone(r, modules, actors)
    BY <1>6, GroupsStep
  <1>7. CASE \E name \in Names \cup {NoName} : CandidatesDone(r, name)
    BY <1>7, CandidatesStep
  <1>8. CASE \E written \in SUBSET request[r].for : DetailsDone(r, written)
    BY <1>8, DetailsStep
  <1>9. CASE \E found \in Answers(request[r].for) : RelationsDone(r, found)
    BY <1>9, RelationsStep
  <1> QED
    BY <1>1, <1>2, <1>3, <1>4, <1>5, <1>6, <1>7, <1>8, <1>9, WholeSteps DEF EndStep

-----------------------------------------------------------------------------
(* Selections and manual edits *)

(* select_use_cases: a row is a candidate whose actor is in the table, so   *)
(* dropping the actors of no row drops none that is needed.                *)
LEMMA SelectStep == ASSUME Inv, NEW rows \in Rows, Select(rows) PROVE Inv'
  <1>1. ActorsIn(rows) \subseteq table.actors
    <2> SUFFICES ASSUME NEW m \in RowsIn(rows) PROVE ActorOf[rows[m]] \in table.actors
      BY DEF ActorsIn
    <2>1. m \in Modules /\ rows[m] # NoName
      BY DEF RowsIn
    <2>2. Selectable(m) /\ rows[m] = generation.candidates[m].name
      BY <2>1 DEF Select
    <2> QED
      BY <2>2 DEF Selectable
  <1>2. SoundTable(table')
    <2>1. table' = [table EXCEPT !.rows = rows, !.flows = NoRows, !.relations = {},
                                 !.actors = @ \cap ActorsIn(rows), !.dragged = {}]
      BY DEF Select
    <2>2. table' \in Table
      BY <2>1, NoRowsIsEmpty DEF Inv, SoundTable, Table
    <2>3. /\ table'.rows = rows /\ table'.flows = NoRows /\ table'.relations = {}
          /\ table'.actors = table.actors \cap ActorsIn(rows)
      BY <2>1 DEF Inv, SoundTable, Table
    <2> QED
      BY <1>1, <2>2, <2>3 DEF SoundTable, NoRows
  <1>3. OwnCandidates(generation')
    <2> DEFINE d == [m \in Modules |-> IF rows[m] # NoName THEN "pending" ELSE "none"]
               g == Fresh("running", generation.run)
    <2>1. OwnCandidates(g)
      BY FreshOwn DEF Inv, OwnCandidates, Generation, Statuses
    <2>2. d \in [Modules -> {"none", "pending", "completed", "failed"}]
      OBVIOUS
    <2>3. generation' = [g EXCEPT !.detail = d]
      BY DEF Select
    <2> HIDE DEF g, d
    <2> QED
      BY <2>1, <2>2, <2>3, DetailOwn
  <1>4. calls' \in 0..MaxCalls
    BY ConstantTypes DEF Select, Inv
  <1> QED
    BY <1>2, <1>3, <1>4, Touched DEF Select, Inv

(* _mark_table_changed: an edit keeps the rows, and the marker goes.       *)
LEMMA EditedStep ==
  ASSUME Inv, NEW t, SoundTable(t), Edited(t)
  PROVE  Inv'
  <1>1. SoundTable(table')
    BY DraggedTable DEF Edited
  <1>2. OwnCandidates(generation') /\ age' \in 0..StaleAfter
    BY FreshOwn, ConstantTypes DEF Edited, Unmark, Statuses
  <1> QED
    BY <1>1, <1>2 DEF Edited, Unmark, Inv

LEMMA TableSteps == ASSUME Inv, TableStep PROVE Inv'
  <1>0. table \in Table /\ SoundTable(table)
    BY DEF Inv, SoundTable
  <1>1. CASE \E rows \in Rows : Select(rows)
    BY <1>1, SelectStep
  <1>2. CASE StepBreaks
    BY <1>2, FailedOwn DEF StepBreaks, Inv
  <1>3. CASE Finalize
    <2> DEFINE missing == {m \in RowsIn(table.rows) : generation.detail[m] # "completed"}
               d == [m \in Modules |-> IF m \in missing THEN "failed" ELSE generation.detail[m]]
               s == IF missing = {} /\ ~generation.relationsError
                    THEN "completed" ELSE "completed_with_errors"
    <2>1. d \in [Modules -> {"none", "pending", "completed", "failed"}]
      BY DEF Inv, OwnCandidates, Generation
    <2>2. s \in Statuses
      BY DEF Statuses
    <2>3. generation' = [generation EXCEPT !.status = s, !.detail = d]
      BY <1>3 DEF Finalize
    <2> HIDE DEF d, s
    <2>4. OwnCandidates(generation')
      BY <2>1, <2>2, <2>3 DEF Inv, OwnCandidates, Generation
    <2> QED
      BY <1>3, <2>4, Touched DEF Finalize, Inv
  <1>4. ASSUME NEW a \in Actors, EditActors(a) PROVE Inv'
    <2> DEFINE t == [table EXCEPT !.actors = @ \cup {a}]
    <2>1. t \in Table
      BY <1>0 DEF Table
    <2>2. SoundTable(t)
      BY <1>0, <2>1 DEF SoundTable, Table
    <2>3. Edited(t)
      BY <1>4 DEF EditActors
    <2> HIDE DEF t
    <2> QED
      BY <2>2, <2>3, EditedStep
  <1>5. ASSUME NEW a \in Actors, DeleteActor(a) PROVE Inv'
    <2> DEFINE t == [table EXCEPT !.actors = @ \ {a}]
    <2>1. t \in Table
      BY <1>0 DEF Table
    <2>2. a \notin ActorsIn(table.rows) /\ Edited(t)
      BY <1>5 DEF DeleteActor
    <2>3. SoundTable(t)
      BY <1>0, <2>1, <2>2 DEF SoundTable, Table
    <2> HIDE DEF t
    <2> QED
      BY <2>2, <2>3, EditedStep
  <1>6. CASE EditPlantUml
    BY <1>6, FreshOwn, ConstantTypes DEF EditPlantUml, Unmark, Inv, Statuses
  <1>7. ASSUME NEW m \in Modules, Drag(m) PROVE Inv'
    <2>1. table.dragged \cup {m} \subseteq Modules
      BY <1>0 DEF Table
    <2> QED
      BY <1>0, <1>7, <2>1, DraggedTable DEF Drag, Inv
  <1>8. ASSUME NEW from \in Modules, NEW to \in Modules, Relate(from, to) PROVE Inv'
    <2> DEFINE t == [table EXCEPT !.relations = @ \cup {[from |-> from, to |-> to]}]
    <2>1. t \in Table
      BY <1>0 DEF Table, Relation
    <2>2. {from, to} \subseteq RowsIn(table.rows) /\ Edited(t)
      BY <1>8 DEF Relate
    <2>3. SoundTable(t)
      BY <1>0, <2>1, <2>2 DEF SoundTable, Table
    <2> HIDE DEF t
    <2> QED
      BY <2>2, <2>3, EditedStep
  <1>9. ASSUME NEW rel \in table.relations, Unrelate(rel) PROVE Inv'
    <2> DEFINE t == [table EXCEPT !.relations = @ \ {rel}]
    <2>1. t \in Table
      BY <1>0 DEF Table
    <2>2. SoundTable(t)
      BY <1>0, <2>1 DEF SoundTable, Table
    <2>3. Edited(t)
      BY <1>9 DEF Unrelate
    <2> HIDE DEF t
    <2> QED
      BY <2>2, <2>3, EditedStep
  <1> QED
    BY <1>1, <1>2, <1>3, <1>4, <1>5, <1>6, <1>7, <1>8, <1>9 DEF TableStep

-----------------------------------------------------------------------------
LEMMA TickStep == ASSUME Inv, Tick PROVE Inv'
  <1>1. \A n \in 0..StaleAfter : Older(n) \in 0..StaleAfter
    BY ConstantTypes DEF Older
  <1>2. ASSUME NEW r \in Requests
        PROVE  request'[r] \in Request /\ SoundRequest(request'[r])
    <2> DEFINE l == IF request[r].kind \in Monolithic THEN Older(request[r].life)
                    ELSE request[r].life
    <2>1. l \in 0..StaleAfter
      BY <1>1, RequestTypes
    <2>2. request'[r] = IF r \in Calling THEN [request[r] EXCEPT !.held = 1, !.life = l]
                        ELSE request[r]
      BY DEF Tick
    <2> HIDE DEF l
    <2>3. SoundRequest(request'[r])
      <3>1. SoundRequest([request[r] EXCEPT !.held = 1, !.life = l])
        BY <2>1, RequestTypes, HeldSound
      <3> QED
        BY <2>2, <3>1, RequestTypes
    <2> QED
      BY <2>3 DEF SoundRequest
  <1>3. request' \in [Requests -> Request]
    BY <1>2 DEF Tick
  <1> QED
    BY <1>1, <1>2, <1>3 DEF Tick, Inv

LEMMA CrashStep == ASSUME Inv, Crash PROVE Inv'
  <1>1. Idle \in Request
    BY IdleSound DEF SoundRequest
  <1>2. request' \in [Requests -> Request] /\ \A s \in Requests : request'[s] = Idle
    BY <1>1 DEF Crash
  <1> QED
    BY <1>2, IdleSound DEF Crash, Inv

LEMMA Invariance == Spec => []Inv
  <1>1. Init => Inv
    <2> SUFFICES ASSUME Init PROVE Inv
      OBVIOUS
    <2>1. SoundTable(table)
      <3>1. table \in Table
        BY NoRowsIsEmpty DEF Init, Table
      <3> QED
        BY <3>1, NoRowsIsEmpty DEF Init, SoundTable, NoRows
    <2>2. OwnCandidates(generation)
      BY FreshOwn, ConstantTypes DEF Init, Statuses
    <2>3. request \in [Requests -> Request] /\ \A r \in Requests : SoundRequest(request[r])
      BY IdleSound DEF Init, SoundRequest
    <2>4. exists \in BOOLEAN /\ age \in 0..StaleAfter /\ runs \in 0..MaxRuns
          /\ calls \in 0..MaxCalls
      <3>1. 0 \in 0..MaxCalls /\ StaleAfter \in 0..StaleAfter
        BY ConstantTypes
      <3> QED
        BY <3>1, Zeros DEF Init
    <2> QED
      BY <2>1, <2>2, <2>3, <2>4 DEF Inv
  <1>2. Inv /\ [Next]_vars => Inv'
    <2> SUFFICES ASSUME Inv, [Next]_vars PROVE Inv'
      OBVIOUS
    <2>1. CASE UNCHANGED vars
      BY <2>1 DEF vars, Inv
    <2> QED
      BY <2>1, StartSteps, ReadSteps, EndSteps, TableSteps, TickStep, CrashStep DEF Next
  <1> QED
    BY <1>1, <1>2, PTL DEF Spec

(* The JSON row, its marker and the requests keep their types.             *)
THEOREM TypeCorrect == Spec => []TypeOK
  <1>1. Inv => TypeOK
    BY DEF Inv, TypeOK, SoundTable, OwnCandidates
  <1> QED
    BY <1>1, Invariance, PTL

(* _apply_details compares id and name: flows stay with their use case,     *)
(* whatever table a later run or a retry of single rows finds.             *)
THEOREM FlowsStayWithRow == Spec => []FlowsMatchRow
  <1>1. Inv => FlowsMatchRow
    BY DEF Inv, SoundTable, FlowsMatchRow
  <1> QED
    BY <1>1, Invariance, PTL

(* _merge_into_run: a superseded run leaves no candidate in its successor. *)
THEOREM CandidatesAreOwn == Spec => []CandidatesOfThisRun
  <1>1. Inv => CandidatesOfThisRun
    BY DEF Inv, OwnCandidates, CandidatesOfThisRun
  <1> QED
    BY <1>1, Invariance, PTL

(* select_use_cases, delete_actor and _apply_relationships: actors and ends *)
(* are there, whatever was edited between the read and the write.          *)
THEOREM RowsAndRelationsHold == Spec => []NothingDangles
  <1>1. Inv => NothingDangles
    BY DEF Inv, SoundTable, NothingDangles
  <1> QED
    BY <1>1, Invariance, PTL

-----------------------------------------------------------------------------
(* The errors that are cleared are none: no row failed or still waits.     *)
LEMMA ClearedIsWhole ==
  ASSUME NEW g, OwnCandidates(g), g.status # "completed",
         ClearResolvedErrors(g).status = "completed"
  PROVE  /\ ~ClearResolvedErrors(g).relationsError
         /\ \A m \in Modules : ClearResolvedErrors(g).detail[m] \notin {"pending", "failed"}
  <1>1. Resolved(g)
    BY DEF ClearResolvedErrors
  <1>2. /\ ClearResolvedErrors(g).relationsError = g.relationsError
        /\ ClearResolvedErrors(g).detail = g.detail
    BY <1>1 DEF ClearResolvedErrors, OwnCandidates, Generation
  <1> QED
    BY <1>1, <1>2 DEF Resolved

(* finalize_generation and _clear_resolved_errors: whichever request comes  *)
(* last, completed means that no row waits and no relationship failed.     *)
THEOREM CompletionIsWhole == Spec => CompletedIsWhole
  <1> DEFINE Whole1 == ~generation'.relationsError
                 /\ \A m \in RowsIn(table'.rows) : generation'.detail[m] \notin {"pending", "failed"}
             Becomes == generation'.status = "completed" /\ generation.status # "completed"
  <1>1. Inv /\ [Next]_vars => [Becomes => Whole1]_vars
    <2> SUFFICES ASSUME Inv, Next, Becomes PROVE Whole1
      OBVIOUS
    <2>0. generation \in Generation /\ OwnCandidates(generation)
      BY DEF Inv, OwnCandidates
    <2>a. RowsIn(table'.rows) \subseteq Modules
      BY DEF RowsIn
    <2>1. ASSUME NEW s, s # "completed", NEW n, generation' = Fresh(s, n) PROVE FALSE
      BY <2>1 DEF Fresh
    <2>2. ASSUME NEW r \in Requests, StartStep(r) PROVE Whole1
      <3>1. ASSUME NEW kind, Begin(r, kind) PROVE FALSE
        BY <2>1, <3>1 DEF Begin
      <3>2. CASE InsertCollides(r)
        BY <2>0, <3>2 DEF InsertCollides, FailRunning, Generation
      <3>3. ASSUME NEW kind, MeetNoRow(r, kind) PROVE FALSE
        BY <3>3 DEF MeetNoRow
      <3> QED
        BY <2>2, <3>1, <3>2, <3>3 DEF StartStep, Start, InsertRow
    <2>3. ASSUME NEW r \in Requests, ReadStep(r) PROVE Whole1
      BY <2>3 DEF ReadStep, ReadForCandidates, ReadForDetails, ReadForRelations, Reading
    <2>4. ASSUME NEW r \in Requests, EndStep(r) PROVE Whole1
      <3>1. ASSUME NEW written, DetailsDone(r, written) PROVE Whole1
        <4>1. OwnCandidates(WithDetail(r, written))
          BY WithDetailOwn
        <4>2. WithDetail(r, written).status # "completed"
          BY <2>0 DEF WithDetail, Generation
        <4> QED
          BY <2>a, <3>1, <4>1, <4>2, ClearedIsWhole DEF DetailsDone
      <3>2. ASSUME NEW found, RelationsDone(r, found) PROVE Whole1
        <4> DEFINE g == [generation EXCEPT !.relationsError = FALSE]
        <4>1. OwnCandidates(g) /\ g.status # "completed"
          BY <2>0, ErrorOwn DEF Generation
        <4>2. generation' = ClearResolvedErrors(g)
          BY <3>2 DEF RelationsDone
        <4> HIDE DEF g
        <4> QED
          BY <2>a, <4>1, <4>2, ClearedIsWhole
      <3>3. ASSUME NEW status, WholeDone(r, status) PROVE Whole1
        <4>1. generation' = Fresh(status, request[r].run)
          BY <3>3 DEF WholeDone
        <4> QED
          BY <2>a, <4>1 DEF Fresh
      <3>4. ASSUME NEW rows, WholePersists(r, rows) PROVE Whole1
        BY <2>1, <3>4 DEF WholePersists, PersistProgress
      <3>5. ASSUME NEW found, WholeRelates(r, found) PROVE Whole1
        BY <2>1, <3>5 DEF WholeRelates, PersistProgress
      <3>6. ASSUME NEW modules, NEW actors, GroupsDone(r, modules, actors) PROVE Whole1
        BY <2>1, <3>6 DEF GroupsDone
      <3>7. ASSUME NEW name, CandidatesDone(r, name) PROVE Whole1
        BY <2>0, <3>7 DEF CandidatesDone, Generation
      <3>8. CASE CallFails(r) \/ Breaks(r) \/ BatchDone(r)
        BY <2>0, <3>8 DEF CallFails, Breaks, BatchDone, FailOwn, FailRunning, Generation
      <3>9. CASE CandidatesDiscarded(r) \/ DetailsFail(r) \/ RelationsFail(r)
        BY <2>0, <3>9 DEF CandidatesDiscarded, DetailsFail, RelationsFail, WithDetail, Generation
      <3> QED
        BY <2>4, <3>1, <3>2, <3>3, <3>4, <3>5, <3>6, <3>7, <3>8, <3>9 DEF EndStep
    <2>5. CASE TableStep
      <3>1. ASSUME NEW rows, Select(rows) PROVE Whole1
        BY <3>1 DEF Select, Fresh
      <3>2. CASE Finalize
        <4> DEFINE missing == {m \in RowsIn(table.rows) : generation.detail[m] # "completed"}
        <4>1. missing = {} /\ ~generation.relationsError
          BY <2>0, <3>2 DEF Finalize, Generation
        <4>2. \A m \in RowsIn(table.rows) : generation.detail[m] = "completed"
          BY <4>1
        <4>3. /\ table' = table /\ generation'.relationsError = generation.relationsError
              /\ generation'.detail = [m \in Modules |->
                    IF m \in missing THEN "failed" ELSE generation.detail[m]]
          BY <2>0, <3>2 DEF Finalize, Generation
        <4> HIDE DEF missing
        <4> QED
          BY <2>a, <4>1, <4>2, <4>3
      <3>3. CASE StepBreaks
        BY <2>0, <3>3 DEF StepBreaks, FailRunning, Generation
      <3>4. ASSUME Unmark PROVE Whole1
        BY <2>1, <3>4 DEF Unmark
      <3>5. ASSUME NEW m, Drag(m) PROVE Whole1
        BY <3>5 DEF Drag
      <3> QED
        BY <2>5, <3>1, <3>2, <3>3, <3>4, <3>5
        DEF TableStep, EditActors, DeleteActor, EditPlantUml, Relate, Unrelate, Edited
    <2>6. CASE Tick \/ Crash
      BY <2>6 DEF Tick, Crash
    <2> QED
      BY <2>2, <2>3, <2>4, <2>5, <2>6 DEF Next
  <1> QED
    BY <1>1, Invariance, PTL DEF Spec, CompletedIsWhole

=============================================================================
