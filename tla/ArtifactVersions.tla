-------------------------- MODULE ArtifactVersions --------------------------
(***************************************************************************)
(* The items of one document (rows of artifacts under one container), their *)
(* numbered versions, and the two kinds of writers: REST requests of the   *)
(* artifact and document services, which read an item without a lock and   *)
(* write it later, and approvals of agent proposals, which are transactions *)
(* that lock rows one after another (AgentService.approve_tool_call).      *)
(*                                                                         *)
(* A request is two steps: Read, then one write transaction.  Its insert   *)
(* into artifact_versions references the item, so it waits while an        *)
(* approval holds the item FOR UPDATE.  An approval is one step per lock.  *)
(***************************************************************************)
EXTENDS Naturals, Sequences

CONSTANTS
    Items,         \* the child rows, numbered in the order of their ids
    Ancestors,     \* item -> the items of its ancestor types
    Approvals,     \* the proposals the agent may make
    Requests,      \* REST requests that may be in flight at the same time
    Nobody,        \* no approval
    BodyStatuses,  \* the statuses that request bodies carry
    MaxVersions    \* how many versions an item may get

Statuses == {"draft", "clarify", "accepted", "rejected", "archived"}

ASSUME ItemsAssumption == Items \subseteq Nat \ {0} /\ Items # {}
ASSUME AncestorsAssumption ==
    /\ Ancestors \in [Items -> SUBSET Items]
    /\ \A i \in Items : i \notin Ancestors[i]
ASSUME NobodyAssumption == Nobody \notin Approvals
ASSUME StatusesAssumption == BodyStatuses \subseteq Statuses
ASSUME VersionsAssumption == MaxVersions \in Nat

Document == 0      \* the container, as a row that can be locked

(* An artifacts row: its status and the number of its current version, 0   *)
(* when it has none.                                                       *)
ItemRow == [status: Statuses \cup {"absent"}, current: 0..MaxVersions]

VersionStatuses == {"draft", "accepted", "rejected", "archived"}

(* An artifact_versions row: its status, the number of parent_version_id,  *)
(* the approval that wrote it.                                             *)
VersionRow == [status: VersionStatuses, parent: 0..MaxVersions,
               by: Approvals \cup {Nobody}]

(* A request: the item and its versions as it has read them, and whether   *)
(* the item was in use.                                                    *)
RequestRec == [item: Items \cup {0}, seen: ItemRow, versions: Seq(VersionRow),
               used: BOOLEAN]

(* "declined": rejected by the user, or superseded.                        *)
Stages == {"none", "proposed", "locking", "counted", "executed", "declined"}

(* A proposal: the version of the item and those of its ancestors it was   *)
(* written from; complete is the coverage its transaction has counted.     *)
ProposalRec == [stage: Stages, item: Items \cup {0}, base: 0..MaxVersions,
                basedOn: [Items -> 0..MaxVersions], complete: BOOLEAN]

NoItem     == [status |-> "absent", current |-> 0]
NoRequest  == [item |-> 0, seen |-> NoItem, versions |-> <<>>, used |-> FALSE]
NoProposal == [stage |-> "none", item |-> 0, base |-> 0,
               basedOn |-> [i \in Items |-> 0], complete |-> FALSE]

VARIABLES
    item,      \* the child rows
    version,   \* item -> its versions; the number is the position
    document,  \* the status of the container
    request,   \* the REST requests that have read an item
    proposal,  \* the proposals and the transactions approving them
    lock,      \* row -> the approval that holds it FOR UPDATE
    created    \* history: items that POST /artifacts made, with a version

vars == <<item, version, document, request, proposal, lock, created>>

-----------------------------------------------------------------------------
Free(i) == lock[i] = Nobody

(* Mutant of DocumentFree: the container is read without FOR UPDATE.       *)
DocumentUnlocked == TRUE

DocumentFree == Free(Document)

(* _recompute_parent_acceptance after i got a version: every type has one. *)
Covered(i) == \A j \in Items \ {i} : item[j].current # 0

DocumentStatus(complete) == IF complete THEN "accepted" ELSE "draft"

(* Mutant of NextNumber: number after the last version, not the current.   *)
NumberAfterLast(i, current) == Len(version[i]) + 1

NextNumber(i, current) == current + 1

(* uq_artifact_versions_artifact_version: the number is not taken.         *)
Insertable(i, current) == NextNumber(i, current) > Len(version[i])

Room(i) == Len(version[i]) < MaxVersions

Insert(i, parent, by) ==
    version' = [version EXCEPT
        ![i] = Append(@, [status |-> "draft", parent |-> parent, by |-> by])]

SetItem(i, status, current) ==
    item' = [item EXCEPT ![i] = [status |-> status, current |-> current]]

(* The ORM writes a column that differs from what was read.                *)
Changed(new, seen, now) == IF new = seen THEN now ELSE new

-----------------------------------------------------------------------------
(* Items come into being *)

(* upsert_item reserves the slot: a row without a version.                 *)
Reserve(i, status) ==
    /\ item[i].status = "absent"
    /\ DocumentFree
    /\ SetItem(i, status, 0)
    /\ document' = "draft"
    /\ UNCHANGED <<version, request, proposal, lock, created>>

(* upsert_item of an item that does not exist.                             *)
UpsertNew(i, status) ==
    /\ item[i].status = "absent"
    /\ DocumentFree
    /\ MaxVersions > 0
    /\ SetItem(i, status, 1)
    /\ Insert(i, 0, Nobody)
    /\ document' = DocumentStatus(Covered(i))
    /\ UNCHANGED <<request, proposal, lock, created>>

(* ArtifactService.create under the container, which it leaves alone.      *)
Create(i, status) ==
    /\ item[i].status = "absent"
    /\ MaxVersions > 0
    /\ SetItem(i, status, 1)
    /\ Insert(i, 0, Nobody)
    /\ created' = created \cup {i}
    /\ UNCHANGED <<document, request, proposal, lock>>

-----------------------------------------------------------------------------
(* REST requests *)

(* downstream_usage_ids, without artifact_links: live items whose current  *)
(* version was written from a version of i.                                *)
Dependents(i) ==
    {j \in Items \ {i} :
        /\ item[j].status \notin {"absent", "archived"}
        /\ item[j].current # 0
        /\ LET by == version[j][item[j].current].by
           IN  by # Nobody /\ proposal[by].basedOn[i] # 0}

Read(r, i) ==
    /\ request[r].item = 0
    /\ item[i].status # "absent"
    /\ request' = [request EXCEPT ![r] = [item |-> i, seen |-> item[i],
                             versions |-> version[i], used |-> Dependents(i) # {}]]
    /\ UNCHANGED <<item, version, document, proposal, lock, created>>

Answer(r) == request' = [request EXCEPT ![r] = NoRequest]

(* The request reaches its write, and no approval holds the row.           *)
Writing(r) == request[r].item # 0 /\ Free(request[r].item)

(* ALLOWED_STATUS_TRANSITIONS.                                             *)
Allowed(status) ==
    CASE status = "draft"    -> {"draft", "clarify"}
      [] status = "clarify"  -> {"clarify", "draft", "accepted"}
      [] status = "accepted" -> {"accepted"}
      [] status = "rejected" -> {"rejected", "draft"}
      [] status = "archived" -> {"archived"}

(* PATCH: a new version; the status may change or be left out.             *)
Update(r, status) ==
    LET i == request[r].item
        seen == request[r].seen
    IN  /\ Writing(r)
        /\ seen.status # "archived"
        /\ seen.current # 0
        /\ status \in Allowed(seen.status)
        /\ Insertable(i, seen.current)
        /\ Room(i)
        /\ Insert(i, seen.current, Nobody)
        /\ SetItem(i, Changed(status, seen.status, item[i].status), Len(version[i]) + 1)
        /\ Answer(r)
        /\ UNCHANGED <<document, proposal, lock, created>>

(* PUT of a document item: a new version, any status, no look at archived. *)
Upsert(r, status) ==
    LET i == request[r].item
        seen == request[r].seen
    IN  /\ Writing(r)
        /\ DocumentFree
        /\ Insertable(i, seen.current)
        /\ Room(i)
        /\ Insert(i, seen.current, Nobody)
        /\ SetItem(i, Changed(status, seen.status, item[i].status), Len(version[i]) + 1)
        /\ document' = DocumentStatus(Covered(i))
        /\ Answer(r)
        /\ UNCHANGED <<proposal, lock, created>>

(* The slot of an item without a version is reserved once more.            *)
ReserveAgain(r, status) ==
    LET i == request[r].item
        seen == request[r].seen
    IN  /\ Writing(r)
        /\ DocumentFree
        /\ seen.current = 0
        /\ SetItem(i, Changed(status, seen.status, item[i].status), item[i].current)
        /\ document' = DocumentStatus(Covered(i) /\ item[i].current # 0)
        /\ Answer(r)
        /\ UNCHANGED <<version, proposal, lock, created>>

(* Restore version n as the current one.                                   *)
Restore(r, n) ==
    LET i == request[r].item
        seen == request[r].seen
    IN  /\ Writing(r)
        /\ seen.status # "archived"
        /\ n \in DOMAIN request[r].versions
        /\ SetItem(i, item[i].status, Changed(n, seen.current, item[i].current))
        /\ Answer(r)
        /\ UNCHANGED <<version, document, proposal, lock, created>>

(* r sets the status of version n.                                         *)
MarkVersion(r, n, status) ==
    version' = [version EXCEPT ![request[r].item][n].status =
                   Changed(status, request[r].versions[n].status, @)]

(* An approving review makes version n the accepted and current one.       *)
ReviewApproves(r, n) ==
    LET i == request[r].item
        seen == request[r].seen
    IN  /\ Writing(r)
        /\ n \in DOMAIN request[r].versions
        /\ IF request[r].versions[n].status = "archived"
           THEN UNCHANGED version
           ELSE MarkVersion(r, n, "accepted")
        /\ IF seen.status = "archived"
           THEN UNCHANGED item
           ELSE SetItem(i, Changed("accepted", seen.status, item[i].status),
                           Changed(n, seen.current, item[i].current))
        /\ Answer(r)
        /\ UNCHANGED <<document, proposal, lock, created>>

(* A rejection, or a request for changes, of a version that is not final;  *)
(* the item follows when that is its current version and it is not final.  *)
ReviewRejects(r, n, verdict) ==
    LET i == request[r].item
        seen == request[r].seen
    IN  /\ Writing(r)
        /\ n \in DOMAIN request[r].versions
        /\ request[r].versions[n].status \notin {"accepted", "archived"}
        /\ verdict \in {"rejected", "clarify"}
        /\ MarkVersion(r, n, "rejected")
        /\ IF seen.current # n \/ seen.status \in {"accepted", "archived"}
           THEN UNCHANGED item
           ELSE SetItem(i, Changed(verdict, seen.status, item[i].status), item[i].current)
        /\ Answer(r)
        /\ UNCHANGED <<document, proposal, lock, created>>

(* archive_artifact: refused for an item in use.                           *)
Archive(r) ==
    LET i == request[r].item
        seen == request[r].seen
    IN  /\ Writing(r)
        /\ ~request[r].used
        /\ SetItem(i, Changed("archived", seen.status, item[i].status), item[i].current)
        /\ IF seen.current = 0
           THEN UNCHANGED version
           ELSE MarkVersion(r, seen.current, "archived")
        /\ Answer(r)
        /\ UNCHANGED <<document, proposal, lock, created>>

(* 400, 404, 409, the unique constraint, a review of a final version:      *)
(* nothing but the review is written.                                      *)
Refuse(r) ==
    /\ request[r].item # 0
    /\ Answer(r)
    /\ UNCHANGED <<item, version, document, proposal, lock, created>>

-----------------------------------------------------------------------------
(* Proposals and the transactions that approve them *)

(* write_draft: the base is the version of the item now, the versions of    *)
(* its ancestors are those of the analysis turn: any that was current once. *)
Propose(a, i) ==
    /\ proposal[a].stage = "none"
    /\ item[i].status # "absent"
    /\ \E seen \in [Ancestors[i] -> 0..MaxVersions] :
          /\ \A j \in Ancestors[i] : seen[j] <= Len(version[j])
          /\ proposal' = [proposal EXCEPT ![a] =
                [stage |-> "proposed", item |-> i, base |-> item[i].current, complete |-> FALSE,
                 basedOn |-> [j \in Items |-> IF j \in Ancestors[i] THEN seen[j] ELSE 0]]]
    /\ UNCHANGED <<item, version, document, request, lock, created>>

(* Nothing reads a declined proposal again.                                *)
Decline(a) == proposal' = [proposal EXCEPT ![a] = [NoProposal EXCEPT !.stage = "declined"]]

SetStage(a, stage) == proposal' = [proposal EXCEPT ![a] = [@ EXCEPT !.stage = stage]]

(* The transaction of a ends: it gives up every row it holds.              *)
Release(a) ==
    lock' = [i \in Items \cup {Document} |-> IF lock[i] = a THEN Nobody ELSE lock[i]]

BaseIsCurrent(a) == proposal[a].base = item[proposal[a].item].current

(* _guard_current_base_version: lock the item and compare.                 *)
LockFocus(a) ==
    LET i == proposal[a].item
    IN  /\ proposal[a].stage = "proposed"
        /\ Free(i)
        /\ BaseIsCurrent(a)
        /\ lock' = [lock EXCEPT ![i] = a]
        /\ SetStage(a, "locking")
        /\ UNCHANGED <<item, version, document, request, created>>

SupersedeStale(a) ==
    /\ proposal[a].stage = "proposed"
    /\ Free(proposal[a].item)
    /\ ~BaseIsCurrent(a)
    /\ Decline(a)
    /\ UNCHANGED <<item, version, document, request, lock, created>>

BasedOn(a) == {j \in Items : proposal[a].basedOn[j] # 0}

(* Mutant of Pending: the predecessors are read without FOR UPDATE.        *)
PendingNone(a) == {}

(* The predecessors still to be locked.                                    *)
Pending(a) == {j \in BasedOn(a) : lock[j] # a}

(* The row a needs next: the first predecessor by id, then the container.  *)
Wants(a, i) ==
    \/ i \in Pending(a) /\ \A j \in Pending(a) : i <= j
    \/ Pending(a) = {} /\ i = Document

(* _guard_lifecycle_predecessors, one row.                                 *)
LockPredecessor(a, i) ==
    /\ proposal[a].stage = "locking"
    /\ i \in Items
    /\ Wants(a, i)
    /\ Free(i)
    /\ lock' = [lock EXCEPT ![i] = a]
    /\ UNCHANGED <<item, version, document, request, proposal, created>>

Locked(a) == proposal[a].stage = "locking" /\ Pending(a) = {}

Unchanged(a) ==
    \A i \in BasedOn(a) : /\ item[i].status # "archived"
                          /\ item[i].current = proposal[a].basedOn[i]

(* A predecessor has moved on, or the candidate is not ready to persist.   *)
Supersede(a) ==
    /\ Locked(a)
    /\ Decline(a)
    /\ Release(a)
    /\ UNCHANGED <<item, version, document, request, created>>

(* create_item_version meets the unique constraint: 500, rolled back.      *)
Collide(a) ==
    /\ Locked(a)
    /\ Unchanged(a)
    /\ ~Insertable(proposal[a].item, item[proposal[a].item].current)
    /\ SetStage(a, "proposed")
    /\ Release(a)
    /\ UNCHANGED <<item, version, document, request, created>>

(* The insert went through; the container is locked and coverage counted.  *)
LockDocument(a) ==
    LET i == proposal[a].item
    IN  /\ Locked(a)
        /\ Unchanged(a)
        /\ Insertable(i, item[i].current)
        /\ Room(i)
        /\ DocumentFree
        /\ lock' = [lock EXCEPT ![Document] = a]
        /\ proposal' = [proposal EXCEPT ![a] =
              [@ EXCEPT !.stage = "counted", !.complete = Covered(i)]]
        /\ UNCHANGED <<item, version, document, request, created>>

Commit(a) ==
    LET i == proposal[a].item
    IN  /\ proposal[a].stage = "counted"
        /\ Insert(i, item[i].current, a)
        /\ SetItem(i, "accepted", Len(version[i]) + 1)
        /\ document' = DocumentStatus(proposal[a].complete)
        /\ SetStage(a, "executed")
        /\ Release(a)
        /\ UNCHANGED <<request, created>>

(* Every approval of S waits for a row that another of S holds.            *)
Waiting(S) ==
    /\ S # {}
    /\ \A a \in S :
          /\ proposal[a].stage = "locking"
          /\ \E i \in Items \cup {Document} :
                Wants(a, i) /\ lock[i] \in S \ {a}

(* PostgreSQL breaks a deadlock by rolling one transaction back: 500.      *)
AbortVictim(a) ==
    /\ \E S \in SUBSET Approvals : a \in S /\ Waiting(S)
    /\ SetStage(a, "proposed")
    /\ Release(a)
    /\ UNCHANGED <<item, version, document, request, created>>

(* reject_tool_call.                                                       *)
Reject(a) ==
    /\ proposal[a].stage = "proposed"
    /\ Decline(a)
    /\ UNCHANGED <<item, version, document, request, lock, created>>

-----------------------------------------------------------------------------
Init ==
    /\ item = [i \in Items |-> NoItem]
    /\ version = [i \in Items |-> <<>>]
    /\ document = "draft"
    /\ request = [r \in Requests |-> NoRequest]
    /\ proposal = [a \in Approvals |-> NoProposal]
    /\ lock = [i \in Items \cup {Document} |-> Nobody]
    /\ created = {}

ItemStep(i) ==
    \E status \in BodyStatuses :
        \/ Reserve(i, status)
        \/ UpsertNew(i, status)
        \/ Create(i, status)

RequestStep(r) ==
    \/ \E i \in Items : Read(r, i)
    \/ \E status \in BodyStatuses \cup {request[r].seen.status} : Update(r, status)
    \/ \E status \in BodyStatuses : Upsert(r, status) \/ ReserveAgain(r, status)
    \/ \E n \in 1..MaxVersions :
          \/ Restore(r, n)
          \/ ReviewApproves(r, n)
          \/ \E verdict \in {"rejected", "clarify"} : ReviewRejects(r, n, verdict)
    \/ Archive(r)
    \/ Refuse(r)

ApprovalStep(a) ==
    \/ \E i \in Items : Propose(a, i)
    \/ LockFocus(a)
    \/ SupersedeStale(a)
    \/ \E i \in Items : LockPredecessor(a, i)
    \/ Supersede(a)
    \/ Collide(a)
    \/ LockDocument(a)
    \/ Commit(a)
    \/ AbortVictim(a)
    \/ Reject(a)

Next ==
    \/ \E i \in Items : ItemStep(i)
    \/ \E r \in Requests : RequestStep(r)
    \/ \E a \in Approvals : ApprovalStep(a)

Spec == Init /\ [][Next]_vars

-----------------------------------------------------------------------------
(* Safety *)

(* The type invariant.                                                     *)
TypeOK ==
    /\ item \in [Items -> ItemRow]
    /\ version \in [Items -> Seq(VersionRow)]
    /\ \A i \in Items : item[i].current <= Len(version[i]) /\ Len(version[i]) <= MaxVersions
    /\ document \in {"draft", "accepted"}
    /\ request \in [Requests -> RequestRec]
    /\ proposal \in [Approvals -> ProposalRec]
    /\ lock \in [Items \cup {Document} -> Approvals \cup {Nobody}]
    /\ created \in SUBSET Items

(* No edit or approval is built past a version its writer had not seen:    *)
(* each version's parent is the one before it.                             *)
NoLostEdit ==
    \A i \in Items : \A n \in 1..Len(version[i]) : version[i][n].parent = n - 1

(* A proposal is persisted on the very version it was drafted from.        *)
ApprovalExtendsBase ==
    \A i \in Items : \A n \in 1..Len(version[i]) :
        LET a == version[i][n].by
        IN  a # Nobody => proposal[a].item = i /\ version[i][n].parent = proposal[a].base

(* When an approval commits, every predecessor is still live and at the    *)
(* version the proposal was written from.                                  *)
BasedOnCurrent ==
    [][\A a \in Approvals :
          proposal[a].stage = "counted" /\ proposal'[a].stage = "executed" =>
             \A i \in BasedOn(a) : /\ item[i].status # "archived"
                                   /\ item[i].current = proposal[a].basedOn[i]]_vars

(* The document is accepted only when every item has a version...          *)
AcceptedIsComplete ==
    document = "accepted" => \A i \in Items : item[i].current # 0

(* ... and is, once approvals and upserts have given every item its first  *)
(* version, whatever order they committed in.  POST /artifacts does not    *)
(* look at the container.                                                  *)
CompleteIsAccepted ==
    created = {} /\ (\A i \in Items : item[i].current # 0) => document = "accepted"

(* The status of a document is that of its items, both ways, although it is *)
(* written by approvals and upserts that each see only what has committed.  *)
DocumentsAreDerived == AcceptedIsComplete /\ CompleteIsAccepted

=============================================================================
