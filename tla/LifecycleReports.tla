-------------------------- MODULE LifecycleReports --------------------------
(***************************************************************************)
(* The lifecycle state of an item (graphs/lifecycle_resolver.py), computed *)
(* over the rows of ArtifactVersions by two loaders written apart: the     *)
(* artifact service loads the whole project for the REST responses and the *)
(* graph, and the context loader of an analysis turn loads the types that  *)
(* matter to the focused item.  The second decides what the agent may do.  *)
(*                                                                         *)
(* An item stands for its type: a document has one item of each type.      *)
(***************************************************************************)
EXTENDS ArtifactVersions

CONSTANTS
    Predecessors,   \* ARTIFACT_PREDECESSORS: item -> the items it follows
    Container       \* item -> the document its type belongs to

ASSUME PredecessorsAssumption ==
    /\ Predecessors \in [Items -> SUBSET Items]
    /\ \A i \in Items : \A j \in Predecessors[i] : j < i

-----------------------------------------------------------------------------
(* ancestor_types: breadth first, each type once.                          *)
AncestorTypes(i) ==
    LET reach[k \in Items] == Predecessors[k] \cup UNION {reach[j] : j \in Predecessors[k]}
    IN  reach[i]

ASSUME AncestorsAreReached == \A i \in Items : Ancestors[i] = AncestorTypes(i)

(* _based_on_from_artifact: what the current version was written from.  A  *)
(* version a human wrote says nothing.                                     *)
Basis(i) ==
    IF item[i].current = 0 THEN {}
    ELSE LET by == version[i][item[i].current].by
         IN  IF by = Nobody THEN {}
             ELSE {<<j, proposal[by].basedOn[j]>> : j \in BasedOn(by)}

Found(i) == item[i].status # "absent"

(* An accepted row with a version, as _structural_predecessors wants it.   *)
Accepted(i) == item[i].status = "accepted" /\ item[i].current # 0

(* _blocking_required_predecessors *)
Blocks(j) == ~Accepted(j)

(* _orphan_reason *)
Orphaned(i) ==
    \E b \in Basis(i) :
        ~Found(b[1]) \/ item[b[1]].status = "archived" \/ item[b[1]].current = 0

(* _stale_reason *)
Stale(i) == \E b \in Basis(i) : item[b[1]].current # b[2]

(* resolve_lifecycle, given whether any predecessor blocks.                *)
Resolve(i, blocked) ==
    CASE item[i].current = 0 -> IF blocked THEN "blocked" ELSE "missing"
      [] item[i].current # 0 /\ item[i].status # "accepted" -> "in_progress"
      [] Accepted(i) /\ Orphaned(i)             -> "orphan"
      [] Accepted(i) /\ ~Orphaned(i) /\ Stale(i) -> "stale"
      [] OTHER -> IF blocked THEN "blocked" ELSE "current"

(* lifecycle_reports_by_id: every row of the project is loaded.            *)
GraphReport(i) == Resolve(i, \E j \in Ancestors[i] : Blocks(j))

(* Mutant of ContextTypes: the items of the same document only.            *)
ContextTypesNear(t) == {t} \cup {j \in Items : Container[j] = Container[t]}

(* _context_artifact_types of a session on t.                              *)
ContextTypes(t) ==
    {t} \cup Ancestors[t] \cup {j \in Items : Container[j] = Container[t]}

(* _load_lifecycle_reports: a predecessor that was not loaded blocks.      *)
SessionReport(t, i) ==
    Resolve(i, \E j \in Ancestors[i] : Blocks(j) \/ j \notin ContextTypes(t))

(* Mutant of MayWrite: a stale item is closed whatever is declared.        *)
MayWriteFresh(i) == SessionReport(i, i) \in {"missing", "in_progress"}

(* lifecycle_tool_block_reason for write_draft, by a session on i; a stale *)
(* item wants a curation, which the model may declare.                     *)
MayWrite(i) == SessionReport(i, i) \in {"missing", "in_progress", "stale"}

-----------------------------------------------------------------------------
(* Properties *)

(* Both loaders say the same of the item a session works on and of all it  *)
(* is built from.  Of an item of the same document a session may not have  *)
(* loaded every predecessor: then it says blocked, and never better.       *)
ReportsAgree ==
    \A t \in Items : \A i \in ContextTypes(t) : Found(i) =>
        LET session == SessionReport(t, i)
        IN  \/ session = GraphReport(i)
            \/ session = "blocked" /\ i \notin {t} \cup Ancestors[t]

(* No ring of refusals: as long as the reports show an item that is not    *)
(* current, the gate lets the agent draft one of them, whatever requests   *)
(* archived, restored or rejected in between.                              *)
SomeoneMayWrite ==
    \/ \A i \in Items : SessionReport(i, i) = "current"
    \/ \E i \in Items : MayWrite(i)

=============================================================================
