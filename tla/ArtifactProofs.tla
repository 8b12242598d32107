--------------------------- MODULE ArtifactProofs ---------------------------
(***************************************************************************)
(* Proofs about the artifacts of a project: ArtifactVersions, for any      *)
(* number of items, requests, approvals and versions, then                 *)
(* LifecycleReports: the two loaders agree and the gate never refuses      *)
(* everybody, for any items, predecessors and documents.                   *)
(***************************************************************************)
EXTENDS LifecycleReports, SequenceTheorems, WellFoundedInduction, TLAPS

-----------------------------------------------------------------------------
(* The items of a document and their versions *)

Undecided(a) == proposal[a].stage \in {"proposed", "locking", "counted"}

(* What a request has read still exists.                                   *)
ReadExists(r) ==
    LET i == request[r].item
    IN  i # 0 => /\ item[i].status # "absent"
                 /\ request[r].seen.status # "absent"
                 /\ request[r].seen.current <= Len(request[r].versions)
                 /\ Len(request[r].versions) <= Len(version[i])

(* A proposal is about an item that exists, and based on such items.       *)
ProposalExists(a) ==
    Undecided(a) => /\ proposal[a].item \in Items
                    /\ item[proposal[a].item].status # "absent"
                    /\ \A j \in BasedOn(a) : item[j].status # "absent"

Linked ==
    /\ \A i \in Items : item[i].status = "absent" => item[i].current = 0
    /\ \A i \in Items : item[i].current = 0 <=> Len(version[i]) = 0
    /\ \A i \in Items : lock[i] # Nobody => item[i].status # "absent"
    /\ \A r \in Requests : ReadExists(r)
    /\ \A a \in Approvals : ProposalExists(a)

Typed == TypeOK /\ Linked

(* What the transaction of a relies on once it holds its rows: nobody      *)
(* moves the item, its predecessors or the coverage of the document.       *)
HoldsItem(a) ==
    proposal[a].stage \in {"locking", "counted"} =>
        lock[proposal[a].item] = a /\ BaseIsCurrent(a)

HoldsDocument(a) ==
    LET i == proposal[a].item
    IN  proposal[a].stage = "counted" =>
            /\ lock[Document] = a
            /\ Insertable(i, item[i].current) /\ Room(i)
            /\ \A j \in BasedOn(a) : lock[j] = a
            /\ Unchanged(a)
            /\ proposal[a].complete => Covered(i)
            /\ created = {} /\ Covered(i) => proposal[a].complete

Guarded == \A a \in Approvals : HoldsItem(a) /\ HoldsDocument(a)

(* A version names the approval that wrote it, and that is over.           *)
Authored ==
    \A i \in Items : \A n \in 1..Len(version[i]) :
        LET a == version[i][n].by
        IN  a # Nobody => /\ proposal[a].stage = "executed"
                          /\ proposal[a].item = i
                          /\ version[i][n].parent = proposal[a].base

Inv == /\ Typed /\ Guarded /\ NoLostEdit /\ Authored
       /\ AcceptedIsComplete /\ CompleteIsAccepted

-----------------------------------------------------------------------------
(* What the operators that write a variable do *)

(* Apart from i, the items and their versions stay as they are.            *)
Others(i) == \A j \in Items \ {i} : item'[j] = item[j] /\ version'[j] = version[j]

(* Versions keep their parents and authors.                                *)
History(i) ==
    \A n \in 1..Len(version[i]) : /\ version'[i][n].parent = version[i][n].parent
                                  /\ version'[i][n].by = version[i][n].by

LEMMA InsertEffect ==
    ASSUME version \in [Items -> Seq(VersionRow)],
           NEW i \in Items, NEW parent \in 0..MaxVersions,
           NEW by \in Approvals \cup {Nobody}, Insert(i, parent, by)
    PROVE  /\ version' \in [Items -> Seq(VersionRow)]
           /\ \A j \in Items \ {i} : version'[j] = version[j]
           /\ Len(version'[i]) = Len(version[i]) + 1
           /\ History(i)
           /\ version'[i][Len(version[i]) + 1].parent = parent
           /\ version'[i][Len(version[i]) + 1].by = by
  <1> DEFINE new == [status |-> "draft", parent |-> parent, by |-> by]
  <1>1. new \in VersionRow
    BY DEF VersionRow, VersionStatuses
  <1>2. version' = [version EXCEPT ![i] = Append(version[i], new)]
    BY DEF Insert
  <1>3. version[i] \in Seq(VersionRow)
    OBVIOUS
  <1>4. /\ Append(version[i], new) \in Seq(VersionRow)
        /\ Len(Append(version[i], new)) = Len(version[i]) + 1
        /\ \A n \in 1..Len(version[i]) : Append(version[i], new)[n] = version[i][n]
        /\ Append(version[i], new)[Len(version[i]) + 1] = new
    BY <1>1, <1>3, AppendProperties
  <1>5. version'[i] = Append(version[i], new)
    BY <1>2
  <1> QED
    BY <1>1, <1>2, <1>4, <1>5 DEF History

LEMMA MarkEffect ==
    ASSUME version \in [Items -> Seq(VersionRow)],
           NEW r \in Requests, request[r] \in RequestRec,
           request[r].item \in Items,
           NEW n \in 1..Len(version[request[r].item]),
           NEW status \in VersionStatuses, MarkVersion(r, n, status)
    PROVE  /\ version' \in [Items -> Seq(VersionRow)]
           /\ \A j \in Items \ {request[r].item} : version'[j] = version[j]
           /\ Len(version'[request[r].item]) = Len(version[request[r].item])
           /\ History(request[r].item)
  <1> DEFINE i == request[r].item
             s == Changed(status, request[r].versions[n].status, version[i][n].status)
             new == [version[i][n] EXCEPT !.status = s]
  <1>1. version[i] \in Seq(VersionRow) /\ version[i][n] \in VersionRow
    BY ElementOfSeq
  <1>2. s \in VersionStatuses
    BY <1>1 DEF Changed, VersionRow
  <1>3. /\ new \in VersionRow
        /\ new.parent = version[i][n].parent
        /\ new.by = version[i][n].by
    BY <1>1, <1>2 DEF VersionRow
  <1>4. version' = [version EXCEPT ![i] = [version[i] EXCEPT ![n] = new]]
    BY DEF MarkVersion
  <1>5. /\ [version[i] EXCEPT ![n] = new] \in Seq(VersionRow)
        /\ Len([version[i] EXCEPT ![n] = new]) = Len(version[i])
        /\ \A m \in 1..Len(version[i]) :
              [version[i] EXCEPT ![n] = new][m] = IF m = n THEN new ELSE version[i][m]
    BY <1>1, <1>3, ExceptSeq, SMTT(20)
  <1>6. version'[i] = [version[i] EXCEPT ![n] = new]
    BY <1>4
  <1> QED
    BY <1>3, <1>4, <1>5, <1>6 DEF History

LEMMA SetItemEffect ==
    ASSUME item \in [Items -> ItemRow], NEW i \in Items,
           NEW status \in Statuses, NEW current \in 0..MaxVersions,
           SetItem(i, status, current)
    PROVE  /\ item' \in [Items -> ItemRow]
           /\ \A j \in Items \ {i} : item'[j] = item[j]
           /\ item'[i].status = status /\ item'[i].current = current
  BY DEF SetItem, ItemRow

(* A column that is written keeps its type.                                *)
LEMMA ChangedType ==
    ASSUME NEW S, NEW new \in S, NEW seen, NEW now \in S
    PROVE  Changed(new, seen, now) \in S
  BY DEF Changed

LEMMA AnswerType ==
    ASSUME request \in [Requests -> RequestRec], NEW r \in Requests, Answer(r)
    PROVE  /\ request' \in [Requests -> RequestRec]
           /\ request'[r].item = 0
           /\ \A q \in Requests \ {r} : request'[q] = request[q]
  <1>1. NoRequest \in RequestRec /\ NoRequest.item = 0
    <2>1. <<>> \in Seq(VersionRow)
      BY EmptySeq
    <2> QED
      BY <2>1, VersionsAssumption DEF NoRequest, NoItem, RequestRec, ItemRow
  <1> QED
    BY <1>1 DEF Answer

-----------------------------------------------------------------------------
(* A REST write *)

(* The container has been recomputed under its lock, or it and the         *)
(* coverage are as before, or POST /artifacts went past it.                *)
Recomputed ==
    /\ DocumentFree
    /\ document' = DocumentStatus(\A j \in Items : item'[j].current # 0)
    /\ created' = created

LeftAlone(i) ==
    /\ document' = document
    /\ created' \in SUBSET Items
    /\ \/ created' # {}
       \/ created' = created /\ (item'[i].current = 0 <=> item[i].current = 0)

(* What every write of a request does: it changes one item that no         *)
(* approval holds, and adds at most the next version.                      *)
EditsRow(i) ==
    /\ item' \in [Items -> ItemRow]
    /\ version' \in [Items -> Seq(VersionRow)]
    /\ request' \in [Requests -> RequestRec]
    /\ \A q \in Requests : request'[q] = request[q] \/ request'[q].item = 0
    /\ UNCHANGED <<proposal, lock>>
    /\ Others(i)
    /\ Free(i)
    /\ item'[i].status # "absent"
    /\ item'[i].current <= Len(version'[i]) /\ Len(version'[i]) <= MaxVersions
    /\ item'[i].current = 0 <=> Len(version'[i]) = 0
    /\ History(i)
    /\ \/ Len(version'[i]) = Len(version[i])
       \/ /\ Len(version'[i]) = Len(version[i]) + 1
          /\ version'[i][Len(version[i]) + 1].parent = Len(version[i])
          /\ version'[i][Len(version[i]) + 1].by = Nobody

Edits(i) == EditsRow(i) /\ (Recomputed \/ LeftAlone(i))

LEMMA RowFacts ==
    ASSUME Typed, NEW i \in Items
    PROVE  /\ item[i].status \in Statuses \cup {"absent"}
           /\ item[i].current \in 0..MaxVersions
           /\ version[i] \in Seq(VersionRow)
           /\ Len(version[i]) \in 0..MaxVersions
           /\ Len(version[i]) \in Nat
           /\ item[i].current <= Len(version[i])
           /\ item[i].current = 0 <=> Len(version[i]) = 0
           /\ lock[i] # Nobody => item[i].status # "absent"
           /\ item[i].status = "absent" => item[i].current = 0
           /\ item[i] = [status |-> item[i].status, current |-> item[i].current]
  <1>1. version[i] \in Seq(VersionRow) /\ item[i] \in ItemRow
    BY DEF Typed, TypeOK
  <1>2. Len(version[i]) \in Nat
    BY <1>1, LenProperties
  <1> QED
    BY <1>1, <1>2, VersionsAssumption DEF Typed, TypeOK, Linked, ItemRow

LEMMA RequestFacts ==
    ASSUME Typed, NEW r \in Requests, request[r].item # 0
    PROVE  /\ request[r] \in RequestRec
           /\ request[r].item \in Items
           /\ item[request[r].item].status \in Statuses
           /\ request[r].seen.status \in Statuses
           /\ request[r].versions \in Seq(VersionRow)
           /\ Len(request[r].versions) \in Nat
           /\ DOMAIN request[r].versions = 1..Len(request[r].versions)
           /\ Len(request[r].versions) <= Len(version[request[r].item])
           /\ request[r].seen.current \in 0..Len(request[r].versions)
           /\ request[r].seen.current \in 0..MaxVersions
  <1>1. request[r] \in RequestRec /\ ReadExists(r)
    BY DEF Typed, TypeOK, Linked
  <1>2. /\ request[r].item \in Items
        /\ request[r].versions \in Seq(VersionRow)
        /\ request[r].seen \in ItemRow
    BY <1>1 DEF RequestRec
  <1>3. /\ Len(request[r].versions) \in Nat
        /\ DOMAIN request[r].versions = 1..Len(request[r].versions)
    BY <1>2, LenProperties
  <1>4. item[request[r].item].status \in Statuses
    BY <1>1, <1>2, RowFacts DEF ReadExists
  <1> QED
    BY <1>1, <1>2, <1>3, <1>4, VersionsAssumption DEF ReadExists, ItemRow

(* A request inserts the version after the one it has read.                *)
LEMMA NextVersionEdits ==
    ASSUME Typed, NEW r \in Requests, NEW status \in Statuses,
           NEW i, i = request[r].item,
           Writing(r),
           Insertable(i, request[r].seen.current),
           Room(i),
           Insert(i, request[r].seen.current, Nobody),
           SetItem(i, Changed(status, request[r].seen.status, item[i].status),
                   Len(version[i]) + 1),
           Answer(r),
           UNCHANGED <<proposal, lock>>
    PROVE  EditsRow(i) /\ item'[i].current = Len(version[i]) + 1
  <1> DEFINE current == request[r].seen.current
             next == Changed(status, request[r].seen.status, item[i].status)
  <1>1. Free(i) /\ i # 0 /\ current + 1 > Len(version[i]) /\ Len(version[i]) < MaxVersions
    BY DEF Writing, Insertable, NextNumber, Room
  <1>2. /\ i \in Items /\ item[i].status \in Statuses
        /\ current \in 0..Len(version[i]) /\ current \in 0..MaxVersions
        /\ Len(version[i]) \in 0..MaxVersions
    BY <1>1, RequestFacts, RowFacts, SMTT(20)
  <1>3. next \in Statuses /\ Len(version[i]) + 1 \in 0..MaxVersions /\ current = Len(version[i])
    BY <1>1, <1>2, ChangedType, VersionsAssumption
  <1>4. /\ item' \in [Items -> ItemRow]
        /\ \A j \in Items \ {i} : item'[j] = item[j]
        /\ item'[i].status = next /\ item'[i].current = Len(version[i]) + 1
    BY <1>2, <1>3, SetItemEffect DEF Typed, TypeOK
  <1>5. /\ version' \in [Items -> Seq(VersionRow)]
        /\ \A j \in Items \ {i} : version'[j] = version[j]
        /\ Len(version'[i]) = Len(version[i]) + 1
        /\ History(i)
        /\ version'[i][Len(version[i]) + 1].parent = Len(version[i])
        /\ version'[i][Len(version[i]) + 1].by = Nobody
    BY <1>2, <1>3, InsertEffect DEF Typed, TypeOK
  <1>6. /\ request' \in [Requests -> RequestRec]
        /\ \A q \in Requests : request'[q] = request[q] \/ request'[q].item = 0
    BY AnswerType DEF Typed, TypeOK
  <1> HIDE DEF current, next
  <1>7. /\ item'[i].status # "absent"
        /\ item'[i].current <= Len(version'[i]) /\ Len(version'[i]) <= MaxVersions
        /\ item'[i].current = 0 <=> Len(version'[i]) = 0
    BY <1>1, <1>2, <1>3, <1>4, <1>5, VersionsAssumption DEF Statuses
  <1>8. Others(i)
    BY <1>4, <1>5 DEF Others
  <1> QED
    BY <1>1, <1>4, <1>5, <1>6, <1>7, <1>8 DEF EditsRow

(* A request moves the item to another of its versions, or changes its     *)
(* status or that of a version.                                            *)
LEMMA SameVersionsEdits ==
    ASSUME Typed, NEW r \in Requests, NEW i, i = request[r].item,
           Writing(r),
           NEW status \in Statuses, NEW current \in 0..Len(version[i]),
           current = 0 <=> item[i].current = 0,
           SetItem(i, status, current),
           \/ version' = version
           \/ \E n \in DOMAIN request[r].versions, s \in VersionStatuses :
                 MarkVersion(r, n, s),
           Answer(r),
           UNCHANGED <<proposal, lock>>
    PROVE  EditsRow(i) /\ item'[i].current = current
  <1>1. Free(i) /\ i # 0
    BY DEF Writing
  <1>2. /\ i \in Items
        /\ version[i] \in Seq(VersionRow)
        /\ Len(version[i]) \in 0..MaxVersions
        /\ item[i].current = 0 <=> Len(version[i]) = 0
    BY <1>1, RequestFacts, RowFacts
  <1>3. current \in 0..MaxVersions
    BY <1>2, VersionsAssumption
  <1>4. /\ item' \in [Items -> ItemRow]
        /\ \A j \in Items \ {i} : item'[j] = item[j]
        /\ item'[i].status = status /\ item'[i].current = current
    BY <1>2, <1>3, SetItemEffect DEF Typed, TypeOK
  <1>5. /\ version' \in [Items -> Seq(VersionRow)]
        /\ \A j \in Items \ {i} : version'[j] = version[j]
        /\ Len(version'[i]) = Len(version[i])
        /\ History(i)
    <2>1. CASE version' = version
      BY <1>2, <2>1 DEF Typed, TypeOK, History
    <2>2. ASSUME NEW n \in DOMAIN request[r].versions, NEW s \in VersionStatuses,
                 MarkVersion(r, n, s)
          PROVE  /\ version' \in [Items -> Seq(VersionRow)]
                 /\ \A j \in Items \ {i} : version'[j] = version[j]
                 /\ Len(version'[i]) = Len(version[i])
                 /\ History(i)
      <3>1. /\ n \in 1..Len(version[request[r].item])
            /\ request[r] \in RequestRec /\ request[r].item \in Items
        BY <1>1, <1>2, RequestFacts
      <3> QED
        BY <2>2, <3>1, MarkEffect DEF Typed, TypeOK
    <2> QED
      BY <2>1, <2>2
  <1>6. /\ request' \in [Requests -> RequestRec]
        /\ \A q \in Requests : request'[q] = request[q] \/ request'[q].item = 0
    BY AnswerType DEF Typed, TypeOK
  <1> QED
    BY <1>1, <1>2, <1>3, <1>4, <1>5, <1>6 DEF EditsRow, Others, Statuses

(* A new item has no version, or one.                                      *)
LEMMA NewItemEdits ==
    ASSUME Typed, NEW i \in Items, NEW status \in Statuses, NEW current \in 0..MaxVersions,
           item[i].status = "absent",
           SetItem(i, status, current),
           \/ current = 0 /\ version' = version
           \/ current = 1 /\ Insert(i, 0, Nobody),
           UNCHANGED <<request, proposal, lock>>
    PROVE  EditsRow(i) /\ item'[i].current = current
  <1>1. /\ Free(i)
        /\ Len(version[i]) = 0
        /\ item[i].current = 0
        /\ 0 \in 0..MaxVersions
    BY RowFacts, VersionsAssumption DEF Free
  <1>2. /\ item' \in [Items -> ItemRow]
        /\ \A j \in Items \ {i} : item'[j] = item[j]
        /\ item'[i].status = status /\ item'[i].current = current
    BY SetItemEffect DEF Typed, TypeOK
  <1>3. request' \in [Requests -> RequestRec]
    BY DEF Typed, TypeOK
  <1>4. CASE current = 0 /\ version' = version
    <2>1. version' \in [Items -> Seq(VersionRow)] /\ History(i)
      BY <1>4 DEF History, Typed, TypeOK
    <2> QED
      BY <1>1, <1>2, <1>3, <1>4, <2>1, VersionsAssumption DEF EditsRow, Others, Statuses
  <1>5. CASE current = 1 /\ Insert(i, 0, Nobody)
    <2>1. /\ version' \in [Items -> Seq(VersionRow)]
          /\ \A j \in Items \ {i} : version'[j] = version[j]
          /\ Len(version'[i]) = Len(version[i]) + 1
          /\ History(i)
          /\ version'[i][Len(version[i]) + 1].parent = 0
          /\ version'[i][Len(version[i]) + 1].by = Nobody
      BY <1>1, <1>5, InsertEffect DEF Typed, TypeOK
    <2> QED
      BY <1>1, <1>2, <1>3, <1>5, <2>1, VersionsAssumption DEF EditsRow, Others, Statuses
  <1> QED
    BY <1>4, <1>5

-----------------------------------------------------------------------------
(* The actions that edit an item *)

(* The document is recomputed from the items as the edit leaves them.      *)
LEMMA RecomputedBy ==
    ASSUME NEW i \in Items, EditsRow(i), DocumentFree,
           document' = DocumentStatus(Covered(i) /\ item'[i].current # 0),
           created' = created
    PROVE  Recomputed
  <1>1. (\A j \in Items : item'[j].current # 0) <=> (Covered(i) /\ item'[i].current # 0)
    BY DEF EditsRow, Others, Covered
  <1> QED
    BY <1>1 DEF Recomputed, DocumentStatus

LEMMA ItemStepEdits ==
    ASSUME Typed, NEW i \in Items, ItemStep(i)
    PROVE  Edits(i)
  <1>1. PICK status \in BodyStatuses :
           Reserve(i, status) \/ UpsertNew(i, status) \/ Create(i, status)
    BY DEF ItemStep
  <1>2. status \in Statuses
    BY StatusesAssumption
  <1>3. CASE Reserve(i, status)
    <2>1. EditsRow(i) /\ item'[i].current = 0
      BY <1>2, <1>3, NewItemEdits, VersionsAssumption DEF Reserve
    <2>2. document' = DocumentStatus(Covered(i) /\ item'[i].current # 0)
      BY <1>3, <2>1 DEF Reserve, DocumentStatus
    <2> QED
      BY <1>3, <2>1, <2>2, RecomputedBy DEF Reserve, Edits
  <1>4. CASE UpsertNew(i, status)
    <2>1. 1 \in 0..MaxVersions
      BY <1>4, VersionsAssumption DEF UpsertNew
    <2>2. EditsRow(i) /\ item'[i].current = 1
      BY <1>2, <1>4, <2>1, NewItemEdits DEF UpsertNew
    <2>3. document' = DocumentStatus(Covered(i) /\ item'[i].current # 0)
      BY <1>4, <2>2 DEF UpsertNew, DocumentStatus
    <2> QED
      BY <1>4, <2>2, <2>3, RecomputedBy DEF UpsertNew, Edits
  <1>5. CASE Create(i, status)
    <2>1. 1 \in 0..MaxVersions
      BY <1>5, VersionsAssumption DEF Create
    <2>2. EditsRow(i)
      BY <1>2, <1>5, <2>1, NewItemEdits DEF Create
    <2>3. LeftAlone(i)
      BY <1>5 DEF Create, LeftAlone, Typed, TypeOK
    <2> QED
      BY <2>2, <2>3 DEF Edits
  <1> QED
    BY <1>1, <1>3, <1>4, <1>5

(* A request that does more than to read or to be refused.                 *)
Writes(r) ==
    \/ \E status \in Statuses : \/ Update(r, status)
                                \/ Upsert(r, status)
                                \/ ReserveAgain(r, status)
    \/ \E n \in 1..MaxVersions :
          \/ Restore(r, n)
          \/ ReviewApproves(r, n)
          \/ \E verdict \in {"rejected", "clarify"} : ReviewRejects(r, n, verdict)
    \/ Archive(r)

LEMMA WritesEdits ==
    ASSUME Typed, NEW r \in Requests, Writes(r)
    PROVE  request[r].item \in Items /\ Edits(request[r].item)
  <1> DEFINE i == request[r].item
             seen == request[r].seen
  <1>1. Writing(r)
    BY DEF Writes, Update, Upsert, ReserveAgain, Restore, ReviewApproves, ReviewRejects, Archive
  <1>2. /\ i \in Items /\ item[i].status \in Statuses /\ seen.status \in Statuses
        /\ seen.current \in 0..Len(request[r].versions)
        /\ Len(request[r].versions) \in 0..Len(version[i])
        /\ DOMAIN request[r].versions = 1..Len(request[r].versions)
    BY <1>1, RequestFacts, RowFacts DEF Writing
  <1>3. /\ Len(version[i]) \in Nat
        /\ item[i].current \in 0..Len(version[i])
        /\ item[i].current = 0 <=> Len(version[i]) = 0
        /\ item[i] = [status |-> item[i].status, current |-> item[i].current]
    BY <1>2, RowFacts
  <1>4. ASSUME UNCHANGED item PROVE SetItem(i, item[i].status, item[i].current)
    BY <1>2, <1>3, <1>4 DEF SetItem, Typed, TypeOK
  <1>5. ASSUME UNCHANGED <<document, created>>, EditsRow(i),
               item'[i].current = 0 <=> item[i].current = 0
        PROVE  Edits(i)
    BY <1>5 DEF Edits, LeftAlone, Typed, TypeOK
  <1>6. ASSUME NEW status \in Statuses, Update(r, status) PROVE Edits(i)
    <2>1. EditsRow(i) /\ item'[i].current = Len(version[i]) + 1
      BY <1>6, NextVersionEdits DEF Update
    <2>2. seen.current # 0
      BY <1>6 DEF Update
    <2> QED
      BY <1>2, <1>3, <1>5, <1>6, <2>1, <2>2 DEF Update
  <1>7. ASSUME NEW status \in Statuses, Upsert(r, status) PROVE Edits(i)
    <2>1. EditsRow(i) /\ item'[i].current = Len(version[i]) + 1
      BY <1>7, NextVersionEdits DEF Upsert
    <2>2. document' = DocumentStatus(Covered(i) /\ item'[i].current # 0)
      BY <1>3, <1>7, <2>1 DEF Upsert, DocumentStatus
    <2> QED
      BY <1>2, <1>7, <2>1, <2>2, RecomputedBy DEF Upsert, Edits
  <1>8. ASSUME NEW status \in Statuses, ReserveAgain(r, status) PROVE Edits(i)
    <2>1. Changed(status, seen.status, item[i].status) \in Statuses
      BY <1>2, ChangedType
    <2>2. EditsRow(i) /\ item'[i].current = item[i].current
      BY <1>1, <1>3, <1>8, <2>1, SameVersionsEdits DEF ReserveAgain
    <2> QED
      BY <1>2, <1>8, <2>2, RecomputedBy DEF ReserveAgain, Edits
  <1>9. ASSUME NEW n \in 1..MaxVersions, Restore(r, n) PROVE Edits(i)
    <2>1. n \in 1..Len(version[i])
      BY <1>2, <1>3, <1>9 DEF Restore
    <2>2. /\ Changed(n, seen.current, item[i].current) \in 0..Len(version[i])
          /\ Changed(n, seen.current, item[i].current) # 0
      BY <1>3, <2>1 DEF Changed
    <2>3. item[i].current # 0
      BY <1>3, <2>1
    <2>4. EditsRow(i) /\ item'[i].current # 0
      BY <1>1, <1>2, <1>9, <2>2, <2>3, SameVersionsEdits DEF Restore
    <2> QED
      BY <1>5, <1>9, <2>3, <2>4 DEF Restore
  <1>10. ASSUME NEW n \in 1..MaxVersions, ReviewApproves(r, n) PROVE Edits(i)
    <2>1. n \in DOMAIN request[r].versions /\ n \in 1..Len(version[i])
      BY <1>2, <1>3, <1>10 DEF ReviewApproves
    <2>2. /\ Changed(n, seen.current, item[i].current) \in 0..Len(version[i])
          /\ Changed(n, seen.current, item[i].current) # 0
          /\ Changed("accepted", seen.status, item[i].status) \in Statuses
      BY <1>2, <1>3, <2>1 DEF Changed, Statuses
    <2>3. item[i].current # 0
      BY <1>3, <2>1
    <2>4. \/ version' = version
          \/ \E m \in DOMAIN request[r].versions, s \in VersionStatuses : MarkVersion(r, m, s)
      BY <1>10, <2>1 DEF ReviewApproves, VersionStatuses
    <2>5. PICK status \in Statuses, current \in 1..Len(version[i]) : SetItem(i, status, current)
      BY <1>2, <1>3, <1>4, <1>10, <2>2, <2>3 DEF ReviewApproves
    <2>6. EditsRow(i) /\ item'[i].current # 0
      BY <1>1, <1>10, <2>3, <2>4, <2>5, SameVersionsEdits DEF ReviewApproves
    <2> QED
      BY <1>5, <1>10, <2>3, <2>6 DEF ReviewApproves
  <1>11. ASSUME NEW n \in 1..MaxVersions, NEW verdict \in {"rejected", "clarify"},
                ReviewRejects(r, n, verdict)
         PROVE  Edits(i)
    <2>1. \E m \in DOMAIN request[r].versions, s \in VersionStatuses : MarkVersion(r, m, s)
      BY <1>11 DEF ReviewRejects, VersionStatuses
    <2>2. Changed(verdict, seen.status, item[i].status) \in Statuses
      BY <1>2 DEF Changed, Statuses
    <2>3. PICK status \in Statuses : SetItem(i, status, item[i].current)
      BY <1>2, <1>4, <1>11, <2>2 DEF ReviewRejects
    <2>4. EditsRow(i) /\ item'[i].current = item[i].current
      BY <1>1, <1>3, <1>11, <2>1, <2>3, SameVersionsEdits DEF ReviewRejects
    <2> QED
      BY <1>5, <1>11, <2>4 DEF ReviewRejects
  <1>12. ASSUME Archive(r) PROVE Edits(i)
    <2>1. \/ version' = version
          \/ \E m \in DOMAIN request[r].versions, s \in VersionStatuses : MarkVersion(r, m, s)
      BY <1>2, <1>12 DEF Archive, VersionStatuses
    <2>2. Changed("archived", seen.status, item[i].status) \in Statuses
      BY <1>2 DEF Changed, Statuses
    <2>3. EditsRow(i) /\ item'[i].current = item[i].current
      BY <1>1, <1>3, <1>12, <2>1, <2>2, SameVersionsEdits DEF Archive
    <2> QED
      BY <1>5, <1>12, <2>3 DEF Archive
  <1> QED
    BY <1>2, <1>6, <1>7, <1>8, <1>9, <1>10, <1>11, <1>12 DEF Writes

-----------------------------------------------------------------------------
(* The steps of approvals *)

(* Approvals other than a keep their proposals and their locks.            *)
Alone(a) ==
    /\ \A b \in Approvals \ {a} : proposal'[b] = proposal[b]
    /\ \A x \in Items \cup {Document} :
          \/ lock'[x] = lock[x]
          \/ lock[x] = Nobody /\ lock'[x] = a
          \/ lock[x] = a /\ lock'[x] = Nobody

(* What a proposal keeps, and the stage it moves to.                       *)
Staged(a, stage) ==
    /\ proposal'[a].stage = stage
    /\ proposal'[a].item = proposal[a].item
    /\ proposal'[a].base = proposal[a].base
    /\ proposal'[a].basedOn = proposal[a].basedOn
    /\ proposal'[a].complete = proposal[a].complete

LEMMA SetStageEffect ==
    ASSUME Typed, NEW a \in Approvals, NEW stage \in Stages, SetStage(a, stage)
    PROVE  /\ proposal' \in [Approvals -> ProposalRec]
           /\ \A b \in Approvals \ {a} : proposal'[b] = proposal[b]
           /\ Staged(a, stage)
  BY DEF SetStage, Staged, Typed, TypeOK, ProposalRec

LEMMA DeclineEffect ==
    ASSUME Typed, NEW a \in Approvals, Decline(a)
    PROVE  /\ proposal' \in [Approvals -> ProposalRec]
           /\ \A b \in Approvals \ {a} : proposal'[b] = proposal[b]
           /\ proposal'[a].stage = "declined"
  <1>1. [NoProposal EXCEPT !.stage = "declined"] \in ProposalRec
    <2>1. [i \in Items |-> 0] \in [Items -> 0..MaxVersions] /\ 0 \in 0..MaxVersions
      BY VersionsAssumption
    <2>2. NoProposal \in ProposalRec
      BY <2>1 DEF NoProposal, ProposalRec, Stages
    <2> QED
      BY <2>2 DEF ProposalRec, Stages
  <1>2. [NoProposal EXCEPT !.stage = "declined"].stage = "declined"
    BY DEF NoProposal
  <1> QED
    BY <1>1, <1>2 DEF Decline, Typed, TypeOK

LEMMA ReleaseEffect ==
    ASSUME Typed, NEW a \in Approvals, Release(a)
    PROVE  /\ lock' \in [Items \cup {Document} -> Approvals \cup {Nobody}]
           /\ \A x \in Items \cup {Document} :
                 lock'[x] = IF lock[x] = a THEN Nobody ELSE lock[x]
  BY DEF Release, Typed, TypeOK

(* A commit writes the next version of the item it holds.                  *)
Commits(a, i) ==
    /\ i \in Items
    /\ item' \in [Items -> ItemRow]
    /\ version' \in [Items -> Seq(VersionRow)]
    /\ Others(i)
    /\ item'[i].status = "accepted"
    /\ item'[i].current = Len(version[i]) + 1
    /\ Len(version[i]) + 1 <= MaxVersions
    /\ Len(version'[i]) = Len(version[i]) + 1
    /\ History(i)
    /\ version'[i][Len(version[i]) + 1].parent = Len(version[i])
    /\ version'[i][Len(version[i]) + 1].by = a
    /\ proposal[a].base = Len(version[i])

LEMMA CommitEffect ==
    ASSUME Typed, Guarded, NEW a \in Approvals, Commit(a)
    PROVE  Commits(a, proposal[a].item)
  <1> DEFINE i == proposal[a].item
  <1>1. /\ proposal[a].stage = "counted"
        /\ Insert(i, item[i].current, a)
        /\ SetItem(i, "accepted", Len(version[i]) + 1)
    BY DEF Commit
  <1>2. /\ i \in Items
        /\ proposal[a].base = item[i].current
        /\ item[i].current + 1 > Len(version[i])
        /\ Len(version[i]) < MaxVersions
    BY <1>1 DEF Guarded, HoldsItem, HoldsDocument, BaseIsCurrent, Insertable, NextNumber, Room,
                Typed, Linked, ProposalExists, Undecided
  <1>3. /\ item[i].current = Len(version[i])
        /\ item[i].current \in 0..MaxVersions
        /\ Len(version[i]) + 1 \in 0..MaxVersions
    <2>1. /\ item[i].current \in 0..MaxVersions
          /\ Len(version[i]) \in 0..MaxVersions
          /\ item[i].current <= Len(version[i])
      BY <1>2, RowFacts
    <2> QED
      BY <1>2, <2>1, VersionsAssumption
  <1>4. /\ item' \in [Items -> ItemRow]
        /\ \A j \in Items \ {i} : item'[j] = item[j]
        /\ item'[i].status = "accepted" /\ item'[i].current = Len(version[i]) + 1
    BY <1>1, <1>2, <1>3, SetItemEffect DEF Typed, TypeOK, Statuses
  <1>5. /\ version' \in [Items -> Seq(VersionRow)]
        /\ \A j \in Items \ {i} : version'[j] = version[j]
        /\ Len(version'[i]) = Len(version[i]) + 1
        /\ History(i)
        /\ version'[i][Len(version[i]) + 1].parent = item[i].current
        /\ version'[i][Len(version[i]) + 1].by = a
    BY <1>1, <1>2, <1>3, InsertEffect DEF Typed, TypeOK
  <1> QED
    BY <1>2, <1>3, <1>4, <1>5, VersionsAssumption DEF Commits, Others

(* Every other step of an approval leaves the items alone.                 *)
Steady == UNCHANGED <<item, version, document, request, created>>

LEMMA ApprovalSteady ==
    ASSUME NEW a \in Approvals, ApprovalStep(a)
    PROVE  Steady \/ Commit(a)
  BY DEF ApprovalStep, Steady, Propose, LockFocus, SupersedeStale, LockPredecessor, Supersede,
         Collide, LockDocument, AbortVictim, Reject

(* The types of the proposals and the locks, and how a's own change.       *)
LEMMA ApprovalTypes ==
    ASSUME Typed, NEW a \in Approvals, ApprovalStep(a)
    PROVE  /\ proposal' \in [Approvals -> ProposalRec]
           /\ lock' \in [Items \cup {Document} -> Approvals \cup {Nobody}]
           /\ Alone(a)
  <1> DEFINE Result == /\ proposal' \in [Approvals -> ProposalRec]
                       /\ lock' \in [Items \cup {Document} -> Approvals \cup {Nobody}]
                       /\ Alone(a)
  <1>1. ASSUME NEW i \in Items, Propose(a, i) PROVE Result
    <2>0. PICK seen \in [Ancestors[i] -> 0..MaxVersions] :
             proposal' = [proposal EXCEPT ![a] =
                [stage |-> "proposed", item |-> i, base |-> item[i].current, complete |-> FALSE,
                 basedOn |-> [j \in Items |-> IF j \in Ancestors[i] THEN seen[j] ELSE 0]]]
      BY <1>1 DEF Propose
    <2> DEFINE new == [stage |-> "proposed", item |-> i, base |-> item[i].current,
                       complete |-> FALSE,
                       basedOn |-> [j \in Items |->
                          IF j \in Ancestors[i] THEN seen[j] ELSE 0]]
    <2>1. \A j \in Items : item[j].current \in 0..MaxVersions
      BY RowFacts
    <2>2. new \in ProposalRec
      BY <2>1, VersionsAssumption DEF ProposalRec, Stages
    <2>3. proposal' = [proposal EXCEPT ![a] = new] /\ lock' = lock
      BY <1>1, <2>0 DEF Propose
    <2> QED
      BY <2>2, <2>3 DEF Alone, Typed, TypeOK
  <1>2. CASE LockFocus(a)
    <2>1. proposal[a].item \in Items
      BY <1>2 DEF LockFocus, Typed, Linked, ProposalExists, Undecided
    <2>2. lock' = [lock EXCEPT ![proposal[a].item] = a] /\ lock[proposal[a].item] = Nobody
      BY <1>2 DEF LockFocus, Free
    <2> QED
      BY <1>2, <2>1, <2>2, SetStageEffect DEF LockFocus, Alone, Stages, Typed, TypeOK
  <1>3. CASE SupersedeStale(a) \/ Reject(a)
    BY <1>3, DeclineEffect DEF SupersedeStale, Reject, Alone, Typed, TypeOK
  <1>4. ASSUME NEW i \in Items, LockPredecessor(a, i) PROVE Result
    BY <1>4 DEF LockPredecessor, Free, Alone, Typed, TypeOK
  <1>5. CASE Supersede(a)
    BY <1>5, DeclineEffect, ReleaseEffect DEF Supersede, Alone
  <1>6. CASE Collide(a) \/ AbortVictim(a)
    BY <1>6, SetStageEffect, ReleaseEffect DEF Collide, AbortVictim, Alone, Stages
  <1>7. CASE LockDocument(a)
    <2>1. Covered(proposal[a].item) \in BOOLEAN
      BY DEF Covered
    <2> QED
      BY <1>7, <2>1, ZenonT(40) DEF LockDocument, DocumentFree, Free, Alone, ProposalRec, Stages, Typed, TypeOK
  <1>8. CASE Commit(a)
    BY <1>8, SetStageEffect, ReleaseEffect DEF Commit, Alone, Stages
  <1> QED
    BY <1>1, <1>2, <1>3, <1>4, <1>5, <1>6, <1>7, <1>8 DEF ApprovalStep

-----------------------------------------------------------------------------
(* The invariant, step by step *)

(* A request that reads, or is refused, or an item that an approval does   *)
(* not write: only requests, proposals and locks move.                     *)
Reads(r) == (\E i \in Items : Read(r, i)) \/ Refuse(r)

LEMMA NextCases ==
    ASSUME Typed, Guarded, Next
    PROVE  \/ \E i \in Items : Edits(i)
           \/ \E r \in Requests : Reads(r)
           \/ \E a \in Approvals : ApprovalStep(a) /\ Steady
           \/ \E a \in Approvals : ApprovalStep(a) /\ Commit(a)
  <1>1. ASSUME NEW r \in Requests, RequestStep(r) PROVE Writes(r) \/ Reads(r)
    <2>1. ASSUME NEW status \in BodyStatuses \cup {request[r].seen.status}, Update(r, status)
          PROVE  status \in Statuses
      BY <2>1, StatusesAssumption, RequestFacts DEF Update, Writing
    <2> QED
      BY <1>1, <2>1, StatusesAssumption DEF RequestStep, Writes, Reads
  <1> QED
    BY <1>1, ItemStepEdits, WritesEdits, ApprovalSteady DEF Next

LEMMA EditsTyped ==
    ASSUME Typed, NEW i \in Items, Edits(i)
    PROVE  Typed'
  <1>1. \A j \in Items : /\ Len(version[j]) \in Nat
                         /\ Len(version'[j]) \in Nat
                         /\ Len(version[j]) <= Len(version'[j])
                         /\ item'[j].current \in Nat
                         /\ item'[j].status = "absent" => item[j].status = "absent" /\ j # i
    <2>1. \A j \in Items : item'[j] \in ItemRow /\ version'[j] \in Seq(VersionRow)
      BY DEF Edits, EditsRow
    <2>2. \A j \in Items : Len(version'[j]) \in Nat
      BY <2>1, LenProperties
    <2>3. \A j \in Items : item'[j].current \in Nat
      BY <2>1, VersionsAssumption DEF ItemRow
    <2>4. \A j \in Items : Len(version[j]) \in Nat
      BY RowFacts
    <2> QED
      BY <2>2, <2>3, <2>4 DEF Edits, EditsRow, Others
  <1>2. TypeOK'
    <2>1. document' \in {"draft", "accepted"} /\ created' \in SUBSET Items
      BY DEF Edits, Recomputed, LeftAlone, DocumentStatus, Typed, TypeOK
    <2>2. \A j \in Items : item'[j].current <= Len(version'[j]) /\ Len(version'[j]) <= MaxVersions
      BY DEF Edits, EditsRow, Others, Typed, TypeOK
    <2> QED
      BY <2>1, <2>2 DEF Edits, EditsRow, Typed, TypeOK
  <1>3. \A j \in Items : /\ item'[j].status = "absent" => item'[j].current = 0
                         /\ item'[j].current = 0 <=> Len(version'[j]) = 0
                         /\ lock'[j] # Nobody => item'[j].status # "absent"
    BY DEF Edits, EditsRow, Others, Typed, Linked
  <1>4. \A r \in Requests : ReadExists(r)'
    <2> SUFFICES ASSUME NEW r \in Requests, request'[r].item # 0 PROVE ReadExists(r)'
      BY DEF ReadExists
    <2>1. request'[r] = request[r] /\ request[r].item # 0
      BY DEF Edits, EditsRow
    <2>2. ReadExists(r) /\ request[r].item \in Items /\ Len(request[r].versions) \in Nat
      BY <2>1, RequestFacts DEF Typed, Linked
    <2> QED
      BY <1>1, <2>1, <2>2 DEF ReadExists
  <1>5. \A a \in Approvals : ProposalExists(a)'
    <2>1. proposal' = proposal
      BY DEF Edits, EditsRow
    <2> QED
      BY <1>1, <2>1 DEF ProposalExists, Undecided, BasedOn, Typed, Linked
  <1> QED
    BY <1>2, <1>3, <1>4, <1>5 DEF Typed, Linked

LEMMA ReadsTyped ==
    ASSUME Typed, NEW r \in Requests, Reads(r)
    PROVE  Typed'
  <1>1. CASE Refuse(r)
    <2>1. /\ request' \in [Requests -> RequestRec]
          /\ \A q \in Requests : request'[q] = request[q] \/ request'[q].item = 0
      BY <1>1, AnswerType DEF Refuse, Typed, TypeOK
    <2>2. UNCHANGED <<item, version, document, proposal, lock, created>>
      BY <1>1 DEF Refuse
    <2>3. TypeOK'
      BY <2>1, <2>2 DEF Typed, TypeOK
    <2>4. \A q \in Requests : ReadExists(q)'
      BY <2>1, <2>2 DEF ReadExists, Typed, Linked
    <2>5. \A a \in Approvals : ProposalExists(a)'
      BY <2>2 DEF ProposalExists, Undecided, BasedOn, Typed, Linked
    <2> QED
      BY <2>2, <2>3, <2>4, <2>5 DEF Typed, Linked
  <1>2. ASSUME NEW i \in Items, Read(r, i) PROVE Typed'
    <2> DEFINE new == [item |-> i, seen |-> item[i], versions |-> version[i],
                       used |-> Dependents(i) # {}]
    <2>1. request' = [request EXCEPT ![r] = new] /\ item[i].status # "absent"
      BY <1>2 DEF Read
    <2>2. UNCHANGED <<item, version, document, proposal, lock, created>>
      BY <1>2 DEF Read
    <2>3. new \in RequestRec
      BY DEF RequestRec, Typed, TypeOK
    <2>4. TypeOK'
      BY <2>1, <2>2, <2>3 DEF Typed, TypeOK
    <2>5. \A q \in Requests : ReadExists(q)'
      <3>1. ReadExists(r)'
        <4>1. request'[r] = new
          BY <2>1 DEF Typed, TypeOK
        <4>2. item[i].current <= Len(version[i]) /\ Len(version[i]) \in Nat
          BY RowFacts
        <4> QED
          BY <2>1, <2>2, <4>1, <4>2 DEF ReadExists
      <3>2. \A q \in Requests \ {r} : ReadExists(q)'
        <4>1. \A q \in Requests \ {r} : request'[q] = request[q]
          BY <2>1 DEF Typed, TypeOK
        <4> QED
          BY <2>2, <4>1 DEF ReadExists, Typed, Linked
      <3> QED
        BY <3>1, <3>2
    <2>6. \A a \in Approvals : ProposalExists(a)'
      BY <2>2 DEF ProposalExists, Undecided, BasedOn, Typed, Linked
    <2> QED
      BY <2>2, <2>4, <2>5, <2>6 DEF Typed, Linked
  <1> QED
    BY <1>1, <1>2 DEF Reads

(* How a proposal of a step fares: it stays, or it is not undecided, or it *)
(* keeps its item and ancestors, or it is new.                             *)
LEMMA ProposalKept ==
    ASSUME Typed, NEW a \in Approvals, ApprovalStep(a), Undecided(a)'
    PROVE  \/ Undecided(a) /\ proposal'[a].item = proposal[a].item /\ BasedOn(a)' = BasedOn(a)
           \/ /\ proposal'[a].item \in Items
              /\ item[proposal'[a].item].status # "absent"
              /\ \A j \in BasedOn(a)' : item[j].current # 0
  <1>1. ASSUME NEW i \in Items, Propose(a, i)
        PROVE  /\ proposal'[a].item \in Items
               /\ item[proposal'[a].item].status # "absent"
               /\ \A j \in BasedOn(a)' : item[j].current # 0
    <2>1. PICK seen \in [Ancestors[i] -> 0..MaxVersions] :
             /\ \A j \in Ancestors[i] : seen[j] <= Len(version[j])
             /\ proposal' = [proposal EXCEPT ![a] =
                   [stage |-> "proposed", item |-> i, base |-> item[i].current, complete |-> FALSE,
                    basedOn |-> [j \in Items |-> IF j \in Ancestors[i] THEN seen[j] ELSE 0]]]
      BY <1>1 DEF Propose
    <2>2. /\ proposal'[a].item = i /\ item[i].status # "absent"
          /\ \A j \in Items : proposal'[a].basedOn[j]
                              = IF j \in Ancestors[i] THEN seen[j] ELSE 0
      BY <1>1, <2>1 DEF Propose, Typed, TypeOK
    <2>3. ASSUME NEW j \in Items, j \in Ancestors[i], seen[j] # 0 PROVE item[j].current # 0
      <3>1. seen[j] \in 0..MaxVersions /\ seen[j] <= Len(version[j])
        BY <2>1, <2>3
      <3>2. Len(version[j]) \in Nat /\ (item[j].current = 0 <=> Len(version[j]) = 0)
        BY RowFacts
      <3> QED
        BY <2>3, <3>1, <3>2
    <2> QED
      BY <2>2, <2>3 DEF BasedOn
  <1> DEFINE Kept == /\ Undecided(a)
                     /\ proposal'[a].item = proposal[a].item
                     /\ proposal'[a].basedOn = proposal[a].basedOn
  <1>2. CASE LockFocus(a) \/ LockDocument(a)
    <2>1. Undecided(a)
      BY <1>2 DEF LockFocus, LockDocument, Locked, Undecided
    <2>2. CASE LockFocus(a)
      BY <2>1, <2>2, SetStageEffect DEF LockFocus, Stages, Staged, BasedOn
    <2>3. CASE LockDocument(a)
      BY <2>1, <2>3 DEF LockDocument, BasedOn, Typed, TypeOK, ProposalRec
    <2> QED
      BY <1>2, <2>2, <2>3
  <1>3. CASE SupersedeStale(a) \/ Reject(a) \/ Supersede(a)
    BY <1>3, DeclineEffect DEF SupersedeStale, Reject, Supersede, Undecided
  <1>4. ASSUME NEW i \in Items, LockPredecessor(a, i) PROVE Kept
    BY <1>4 DEF LockPredecessor, Undecided
  <1>5. CASE Collide(a) \/ AbortVictim(a)
    <2>1. Undecided(a)
      BY <1>5 DEF Collide, AbortVictim, Locked, Waiting, Undecided
    <2> QED
      BY <1>5, <2>1, SetStageEffect DEF Collide, AbortVictim, Stages, Staged, BasedOn
  <1>6. CASE Commit(a)
    BY <1>6, SetStageEffect DEF Commit, Stages, Staged, Undecided
  <1> QED
    BY <1>1, <1>2, <1>3, <1>4, <1>5, <1>6 DEF ApprovalStep, BasedOn

(* Both kinds of steps of an approval keep items that exist, and only lock *)
(* such items.                                                             *)
LEMMA ApprovalLinks ==
    ASSUME Typed, NEW a \in Approvals, ApprovalStep(a),
           \A j \in Items : item[j].status # "absent" => item'[j].status # "absent"
    PROVE  /\ \A j \in Items : lock'[j] # Nobody => item'[j].status # "absent"
           /\ \A b \in Approvals : ProposalExists(b)'
  <1>1. \A j \in Items : lock'[j] # Nobody => item[j].status # "absent"
    <2>1. CASE LockFocus(a)
      BY <2>1 DEF LockFocus, Typed, TypeOK, Linked, ProposalExists, Undecided
    <2>2. ASSUME NEW i \in Items, LockPredecessor(a, i)
          PROVE  \A j \in Items : lock'[j] # Nobody => item[j].status # "absent"
      <3>1. i \in BasedOn(a)
        <4>1. i # Document
          BY ItemsAssumption DEF Document
        <4> QED
          BY <2>2, <4>1 DEF LockPredecessor, Wants, Pending
      <3> QED
        BY <2>2, <3>1 DEF LockPredecessor, Typed, TypeOK, Linked, ProposalExists, Undecided
    <2>3. CASE \A j \in Items : lock'[j] # Nobody => lock[j] # Nobody
      BY <2>3 DEF Typed, Linked
    <2>4. CASE LockDocument(a)
      <3>1. \A j \in Items : j # Document
        BY ItemsAssumption DEF Document
      <3> QED
        BY <2>3, <2>4, <3>1 DEF LockDocument, Typed, TypeOK
    <2>5. CASE Supersede(a) \/ Collide(a) \/ AbortVictim(a) \/ Commit(a)
      BY <2>3, <2>5, ReleaseEffect DEF Supersede, Collide, AbortVictim, Commit
    <2>6. CASE SupersedeStale(a) \/ Reject(a) \/ \E i \in Items : Propose(a, i)
      BY <2>3, <2>6 DEF SupersedeStale, Reject, Propose
    <2> QED
      BY <2>1, <2>2, <2>4, <2>5, <2>6 DEF ApprovalStep
  <1>2. ProposalExists(a)'
    <2> SUFFICES ASSUME Undecided(a)'
                 PROVE  /\ proposal'[a].item \in Items
                        /\ item'[proposal'[a].item].status # "absent"
                        /\ \A j \in BasedOn(a)' : item'[j].status # "absent"
      BY DEF ProposalExists
    <2>1. BasedOn(a)' \subseteq Items /\ BasedOn(a) \subseteq Items
      BY DEF BasedOn
    <2>2. \A j \in Items : item[j].current # 0 => item[j].status # "absent"
      BY DEF Typed, Linked
    <2> QED
      BY <2>1, <2>2, ProposalKept DEF Typed, Linked, ProposalExists
  <1>3. \A b \in Approvals \ {a} : ProposalExists(b)'
    <2>1. \A b \in Approvals \ {a} : proposal'[b] = proposal[b]
      BY ApprovalTypes DEF Alone
    <2> QED
      BY <2>1 DEF Typed, Linked, ProposalExists, Undecided, BasedOn
  <1> QED
    BY <1>1, <1>2, <1>3

LEMMA SteadyTyped ==
    ASSUME Typed, NEW a \in Approvals, ApprovalStep(a), Steady
    PROVE  Typed'
  <1>1. TypeOK'
    BY ApprovalTypes DEF Typed, TypeOK, Steady
  <1>2. /\ \A j \in Items : lock'[j] # Nobody => item'[j].status # "absent"
        /\ \A b \in Approvals : ProposalExists(b)'
    BY ApprovalLinks DEF Steady
  <1>3. \A r \in Requests : ReadExists(r)'
    BY DEF ReadExists, Steady, Typed, Linked
  <1> QED
    BY <1>1, <1>2, <1>3 DEF Typed, Linked, Steady

LEMMA CommitTyped ==
    ASSUME Typed, Guarded, NEW a \in Approvals, ApprovalStep(a), Commit(a)
    PROVE  Typed'
  <1> DEFINE i == proposal[a].item
  <1>1. Commits(a, i)
    BY CommitEffect
  <1>2. request' = request /\ created' = created /\ document' \in {"draft", "accepted"}
    BY DEF Commit, DocumentStatus
  <1>3. \A j \in Items : /\ Len(version[j]) \in Nat
                         /\ Len(version'[j]) \in Nat
                         /\ Len(version[j]) <= Len(version'[j])
    <2>1. \A j \in Items : Len(version[j]) \in Nat
      BY RowFacts
    <2> QED
      BY <1>1, <2>1 DEF Commits, Others
  <1>4. i \in Items /\ Len(version[i]) \in Nat
    BY <1>1, <1>3 DEF Commits
  <1>5. \A j \in Items : /\ item'[j].current <= Len(version'[j])
                         /\ Len(version'[j]) <= MaxVersions
                         /\ item'[j].status = "absent" => item[j].status = "absent"
                         /\ item'[j].status = "absent" => item'[j].current = 0
                         /\ item'[j].current = 0 <=> Len(version'[j]) = 0
    <2>1. /\ item'[i].current <= Len(version'[i])
          /\ Len(version'[i]) <= MaxVersions
          /\ item'[i].status # "absent"
          /\ item'[i].current # 0 /\ Len(version'[i]) # 0
      BY <1>1, <1>4 DEF Commits
    <2>2. \A j \in Items \ {i} : item'[j] = item[j] /\ version'[j] = version[j]
      BY <1>1 DEF Commits, Others
    <2> QED
      BY <2>1, <2>2 DEF Typed, TypeOK, Linked
  <1>6. TypeOK'
    BY <1>1, <1>2, <1>5, ApprovalTypes DEF Commits, Typed, TypeOK
  <1>7. /\ \A j \in Items : lock'[j] # Nobody => item'[j].status # "absent"
        /\ \A b \in Approvals : ProposalExists(b)'
    BY <1>5, ApprovalLinks
  <1>8. \A r \in Requests : ReadExists(r)'
    <2> SUFFICES ASSUME NEW r \in Requests, request[r].item # 0 PROVE ReadExists(r)'
      BY <1>2 DEF ReadExists
    <2>1. ReadExists(r) /\ request[r].item \in Items /\ Len(request[r].versions) \in Nat
      BY RequestFacts DEF Typed, Linked
    <2> QED
      BY <1>2, <1>3, <1>5, <2>1 DEF ReadExists
  <1> QED
    BY <1>5, <1>6, <1>7, <1>8 DEF Typed, Linked

(* An edit does not touch what a transaction holds.                        *)
LEMMA EditsGuarded ==
    ASSUME Typed, Guarded, NEW i \in Items, Edits(i)
    PROVE  Guarded'
  <1> SUFFICES ASSUME NEW a \in Approvals PROVE HoldsItem(a)' /\ HoldsDocument(a)'
    BY DEF Guarded
  <1>1. /\ proposal' = proposal /\ lock' = lock
        /\ lock[i] # a /\ a # Nobody
        /\ \A j \in Items \ {i} : item'[j] = item[j] /\ version'[j] = version[j]
    BY NobodyAssumption DEF Edits, EditsRow, Others, Free
  <1>2. HoldsItem(a) /\ HoldsDocument(a)
    BY DEF Guarded
  <1>3. Undecided(a) => proposal[a].item \in Items
    BY DEF Typed, Linked, ProposalExists
  <1>4. HoldsItem(a)'
    BY <1>1, <1>2, <1>3 DEF HoldsItem, BaseIsCurrent, Undecided
  <1>5. ASSUME proposal[a].stage = "counted" PROVE HoldsDocument(a)'
    <2> DEFINE k == proposal[a].item
    <2>1. k \in Items /\ k # i /\ item'[k] = item[k] /\ version'[k] = version[k]
      BY <1>1, <1>2, <1>3, <1>5 DEF HoldsItem, Undecided
    <2>2. \A j \in BasedOn(a) : j # i /\ item'[j] = item[j]
      BY <1>1, <1>2, <1>5 DEF HoldsDocument, BasedOn
    <2>3. LeftAlone(i)
      BY <1>1, <1>2, <1>5 DEF HoldsDocument, Edits, Recomputed, DocumentFree, Free
    <2>4. item[i].current # 0 => item'[i].current # 0
      <3>1. Len(version[i]) \in Nat /\ (item[i].current = 0 <=> Len(version[i]) = 0)
        BY RowFacts
      <3> QED
        BY <3>1 DEF Edits, EditsRow
    <2>5. Covered(k) => Covered(k)'
      BY <1>1, <2>1, <2>4 DEF Covered
    <2>6. created' = {} => created = {} /\ (Covered(k)' => Covered(k))
      BY <1>1, <2>1, <2>3 DEF LeftAlone, Covered
    <2> QED
      BY <1>1, <1>2, <1>5, <2>1, <2>2, <2>5, <2>6
      DEF HoldsDocument, Insertable, NextNumber, Room, Unchanged, BasedOn, Covered
  <1> QED
    BY <1>1, <1>4, <1>5 DEF HoldsDocument

LEMMA ReadsGuarded ==
    ASSUME Guarded, NEW r \in Requests, Reads(r)
    PROVE  Guarded'
  <1>1. UNCHANGED <<item, version, proposal, lock, created>>
    BY DEF Reads, Read, Refuse
  <1> QED
    BY <1>1 DEF Guarded, HoldsItem, HoldsDocument, BaseIsCurrent, Insertable, NextNumber, Room,
                BasedOn, Unchanged, Covered

(* A step of a does not touch what another transaction holds.              *)
LEMMA OthersGuarded ==
    ASSUME Typed, Guarded, NEW a \in Approvals, ApprovalStep(a),
           NEW b \in Approvals, b # a
    PROVE  HoldsItem(b)' /\ HoldsDocument(b)'
  <1> DEFINE k == proposal[b].item
  <1>1. /\ proposal'[b] = proposal[b]
        /\ \A x \in Items \cup {Document} : lock[x] = b => lock'[x] = b
    BY NobodyAssumption, ApprovalTypes DEF Alone
  <1>2. /\ HoldsItem(b) /\ HoldsDocument(b) /\ BasedOn(b)' = BasedOn(b)
        /\ BasedOn(b) \subseteq Items
        /\ Undecided(b) => k \in Items
    BY <1>1 DEF Guarded, BasedOn, Typed, Linked, ProposalExists
  <1>3. CASE Steady
    <2>1. HoldsItem(b)'
      BY <1>1, <1>2, <1>3 DEF HoldsItem, BaseIsCurrent, Undecided, Steady
    <2>2. HoldsDocument(b)'
      BY <1>1, <1>2, <1>3
      DEF HoldsDocument, Steady, Undecided, Insertable, NextNumber, Room, Unchanged, Covered
    <2> QED
      BY <2>1, <2>2
  <1>4. CASE Commit(a)
    <2>1. /\ Commits(a, proposal[a].item)
          /\ lock[proposal[a].item] = a /\ lock[Document] = a
      BY <1>4, CommitEffect DEF Commit, Guarded, HoldsItem, HoldsDocument
    <2>2. proposal[b].stage # "counted"
      BY <1>2, <2>1 DEF HoldsDocument
    <2>3. proposal[b].stage = "locking" => item'[k] = item[k]
      BY <1>2, <2>1 DEF HoldsItem, Undecided, Commits, Others
    <2>4. HoldsItem(b)'
      BY <1>1, <1>2, <2>2, <2>3 DEF HoldsItem, BaseIsCurrent, Undecided
    <2> QED
      BY <1>1, <2>2, <2>4 DEF HoldsDocument
  <1> QED
    BY <1>3, <1>4, ApprovalSteady

(* A step of a gets a what its transaction relies on.                      *)
LEMMA OwnGuarded ==
    ASSUME Typed, Guarded, NEW a \in Approvals, ApprovalStep(a)
    PROVE  HoldsItem(a)' /\ HoldsDocument(a)'
  <1> DEFINE i == proposal[a].item
             Neither == proposal'[a].stage \notin {"locking", "counted"}
  <1>1. ASSUME Neither PROVE HoldsItem(a)' /\ HoldsDocument(a)'
    BY <1>1 DEF HoldsItem, HoldsDocument
  <1>2. CASE LockFocus(a)
    <2>1. i \in Items
      BY <1>2 DEF LockFocus, Typed, Linked, ProposalExists, Undecided
    <2>2. Staged(a, "locking")
      BY <1>2, SetStageEffect DEF LockFocus, Stages
    <2>3. lock'[i] = a /\ item' = item
      BY <1>2, <2>1 DEF LockFocus, Typed, TypeOK
    <2> QED
      BY <1>2, <2>2, <2>3 DEF LockFocus, Staged, HoldsItem, HoldsDocument, BaseIsCurrent
  <1>3. ASSUME NEW k \in Items, LockPredecessor(a, k) PROVE HoldsItem(a)' /\ HoldsDocument(a)'
    <2>1. i \in Items /\ lock[i] = a /\ BaseIsCurrent(a) /\ proposal[a].stage = "locking"
      BY <1>3 DEF LockPredecessor, Guarded, HoldsItem, Typed, Linked, ProposalExists, Undecided
    <2>2. lock'[i] = a /\ item' = item /\ proposal' = proposal
      BY <1>3, <2>1 DEF LockPredecessor, Typed, TypeOK
    <2> QED
      BY <2>1, <2>2 DEF HoldsItem, HoldsDocument, BaseIsCurrent
  <1>4. CASE LockDocument(a)
    <2>1. /\ proposal[a].stage = "locking" /\ Pending(a) = {} /\ Unchanged(a)
          /\ Insertable(i, item[i].current) /\ Room(i)
          /\ lock' = [lock EXCEPT ![Document] = a]
          /\ UNCHANGED <<item, version, created>>
      BY <1>4 DEF LockDocument, Locked
    <2>2. i \in Items /\ lock[i] = a /\ BaseIsCurrent(a)
      BY <2>1 DEF Guarded, HoldsItem, Typed, Linked, ProposalExists, Undecided
    <2>3. /\ proposal'[a].item = i
          /\ proposal'[a].base = proposal[a].base
          /\ proposal'[a].basedOn = proposal[a].basedOn
          /\ proposal'[a].complete = Covered(i)
      BY <1>4 DEF LockDocument, Typed, TypeOK, ProposalRec
    <2>4. \A j \in Items : j # Document
      BY ItemsAssumption DEF Document
    <2>5. lock'[Document] = a /\ \A j \in Items : lock'[j] = lock[j]
      BY <2>1, <2>4 DEF Typed, TypeOK
    <2>6. \A j \in BasedOn(a) : j \in Items /\ lock[j] = a
      BY <2>1 DEF Pending, BasedOn
    <2>7. HoldsItem(a)'
      BY <2>1, <2>2, <2>3, <2>5 DEF HoldsItem, BaseIsCurrent
    <2>8. BasedOn(a)' = BasedOn(a)
      BY <2>3 DEF BasedOn
    <2>9. HoldsDocument(a)'
      BY <2>1, <2>3, <2>5, <2>6, <2>8
      DEF HoldsDocument, Insertable, NextNumber, Room, Unchanged, Covered
    <2> QED
      BY <2>7, <2>9
  <1>5. CASE SupersedeStale(a) \/ Reject(a) \/ Supersede(a)
    BY <1>1, <1>5, DeclineEffect DEF SupersedeStale, Reject, Supersede
  <1>6. CASE Collide(a) \/ AbortVictim(a)
    BY <1>1, <1>6, SetStageEffect DEF Collide, AbortVictim, Stages, Staged
  <1>7. CASE Commit(a)
    BY <1>1, <1>7, SetStageEffect DEF Commit, Stages, Staged
  <1>8. ASSUME NEW k \in Items, Propose(a, k) PROVE HoldsItem(a)' /\ HoldsDocument(a)'
    BY <1>1, <1>8 DEF Propose, Typed, TypeOK
  <1> QED
    BY <1>2, <1>3, <1>4, <1>5, <1>6, <1>7, <1>8 DEF ApprovalStep

(* The versions: one new version at most, after the last one.              *)
Grows(i, by) ==
    /\ Others(i)
    /\ History(i)
    /\ \/ Len(version'[i]) = Len(version[i])
       \/ /\ Len(version'[i]) = Len(version[i]) + 1
          /\ version'[i][Len(version[i]) + 1].parent = Len(version[i])
          /\ version'[i][Len(version[i]) + 1].by = by

LEMMA GrowsChain ==
    ASSUME Typed, NoLostEdit, NEW i \in Items, NEW by, Grows(i, by)
    PROVE  NoLostEdit'
  <1> SUFFICES ASSUME NEW j \in Items, NEW n \in 1..Len(version'[j])
               PROVE  version'[j][n].parent = n - 1
    BY DEF NoLostEdit
  <1>1. Len(version[i]) \in Nat
    BY RowFacts
  <1>2. CASE j # i
    BY <1>2 DEF Grows, Others, NoLostEdit
  <1>3. CASE j = i /\ n \in 1..Len(version[i])
    BY <1>3 DEF Grows, History, NoLostEdit
  <1>4. CASE j = i /\ n \notin 1..Len(version[i])
    BY <1>1, <1>4 DEF Grows
  <1> QED
    BY <1>2, <1>3, <1>4

(* Executed proposals stay as they are.                                    *)
LEMMA GrowsAuthored ==
    ASSUME Typed, Authored, NEW i \in Items, NEW by \in Approvals \cup {Nobody}, Grows(i, by),
           \A a \in Approvals :
              proposal[a].stage = "executed" =>
                 /\ proposal'[a].stage = "executed"
                 /\ proposal'[a].item = proposal[a].item
                 /\ proposal'[a].base = proposal[a].base,
           by # Nobody => /\ proposal'[by].stage = "executed"
                          /\ proposal'[by].item = i
                          /\ proposal'[by].base = Len(version[i])
    PROVE  Authored'
  <1> SUFFICES ASSUME NEW j \in Items, NEW n \in 1..Len(version'[j]),
                      version'[j][n].by # Nobody
               PROVE  /\ proposal'[version'[j][n].by].stage = "executed"
                      /\ proposal'[version'[j][n].by].item = j
                      /\ version'[j][n].parent = proposal'[version'[j][n].by].base
    BY DEF Authored
  <1>1. Len(version[i]) \in Nat
    BY RowFacts
  <1>2. CASE n \in 1..Len(version[j])
    <2>1. /\ version'[j][n].by = version[j][n].by
          /\ version'[j][n].parent = version[j][n].parent
      BY <1>2 DEF Grows, Others, History
    <2>2. version[j][n].by \in Approvals \cup {Nobody}
      <3>1. version[j] \in Seq(VersionRow)
        BY RowFacts
      <3>2. version[j][n] \in VersionRow
        BY <1>2, <3>1, ElementOfSeq
      <3> QED
        BY <3>2 DEF VersionRow
    <2> QED
      BY <1>2, <2>1, <2>2 DEF Authored
  <1>3. CASE n \notin 1..Len(version[j])
    <2>1. j = i /\ n = Len(version[i]) + 1
      BY <1>1, <1>3 DEF Grows, Others
    <2> QED
      BY <1>1, <1>3, <2>1 DEF Grows
  <1> QED
    BY <1>2, <1>3

-----------------------------------------------------------------------------
(* The initial states and every step *)

LEMMA InitInv == Init => Inv
  <1> SUFFICES ASSUME Init PROVE Inv
    OBVIOUS
  <1>1. /\ <<>> \in Seq(VersionRow) /\ Len(<<>>) = 0
        /\ 0 \in 0..MaxVersions
    BY EmptySeq, VersionsAssumption
  <1>2. NoItem \in ItemRow /\ NoItem.current = 0 /\ NoItem.status = "absent"
    BY <1>1 DEF NoItem, ItemRow
  <1>3. NoRequest \in RequestRec /\ NoRequest.item = 0
    BY <1>1, <1>2 DEF NoRequest, RequestRec
  <1>4. NoProposal \in ProposalRec /\ NoProposal.stage = "none"
    <2>1. [i \in Items |-> 0] \in [Items -> 0..MaxVersions]
      BY <1>1
    <2> QED
      BY <1>1, <2>1 DEF NoProposal, ProposalRec, Stages
  <1>5. /\ \A i \in Items : item[i] = NoItem /\ version[i] = <<>> /\ lock[i] = Nobody
        /\ \A r \in Requests : request[r] = NoRequest
        /\ \A a \in Approvals : proposal[a] = NoProposal
        /\ document = "draft" /\ created = {}
    BY DEF Init
  <1>6. TypeOK
    BY <1>1, <1>2, <1>3, <1>4, <1>5, VersionsAssumption DEF TypeOK, Init
  <1>7. Linked
    BY <1>1, <1>2, <1>3, <1>4, <1>5 DEF Linked, ReadExists, ProposalExists, Undecided
  <1>8. Guarded
    BY <1>4, <1>5 DEF Guarded, HoldsItem, HoldsDocument
  <1>9. NoLostEdit /\ Authored
    BY <1>1, <1>5 DEF NoLostEdit, Authored
  <1>10. AcceptedIsComplete /\ CompleteIsAccepted
    BY <1>2, <1>5, ItemsAssumption DEF AcceptedIsComplete, CompleteIsAccepted
  <1> QED
    BY <1>6, <1>7, <1>8, <1>9, <1>10 DEF Inv, Typed

LEMMA EditsInv ==
    ASSUME Inv, NEW i \in Items, Edits(i)
    PROVE  Inv'
  <1>1. Typed' /\ Guarded'
    BY EditsTyped, EditsGuarded DEF Inv
  <1>2. Grows(i, Nobody)
    BY DEF Edits, EditsRow, Grows
  <1>3. NoLostEdit' /\ Authored'
    <2>1. proposal' = proposal
      BY DEF Edits, EditsRow
    <2> QED
      BY <1>2, <2>1, GrowsChain, GrowsAuthored DEF Inv
  <1>4. \A j \in Items : item[j].current # 0 => item'[j].current # 0
    <2>1. Len(version[i]) \in Nat /\ (item[i].current = 0 <=> Len(version[i]) = 0)
      BY RowFacts DEF Inv
    <2>2. item[i].current # 0 => item'[i].current # 0
      BY <2>1 DEF Edits, EditsRow
    <2> QED
      BY <2>2 DEF Edits, EditsRow, Others
  <1>5. ASSUME Recomputed PROVE AcceptedIsComplete' /\ CompleteIsAccepted'
    <2> DEFINE all == \A j \in Items : item'[j].current # 0
    <2>1. document' = IF all THEN "accepted" ELSE "draft"
      BY <1>5 DEF Recomputed, DocumentStatus
    <2>2. document' = "accepted" <=> all
      BY <2>1
    <2> QED
      BY <2>2 DEF AcceptedIsComplete, CompleteIsAccepted
  <1>6. ASSUME LeftAlone(i) PROVE AcceptedIsComplete' /\ CompleteIsAccepted'
    <2>1. AcceptedIsComplete'
      BY <1>4, <1>6 DEF LeftAlone, AcceptedIsComplete, Inv
    <2>2. ASSUME created' = {}
          PROVE  \A j \in Items : item'[j].current = 0 <=> item[j].current = 0
      <3>1. item'[i].current = 0 <=> item[i].current = 0
        BY <1>6, <2>2 DEF LeftAlone
      <3>2. \A j \in Items \ {i} : item'[j] = item[j]
        BY DEF Edits, EditsRow, Others
      <3> QED
        BY <3>1, <3>2
    <2> QED
      BY <1>6, <2>1, <2>2 DEF LeftAlone, CompleteIsAccepted, Inv
  <1> QED
    BY <1>1, <1>3, <1>5, <1>6 DEF Edits, Inv

LEMMA ReadsInv ==
    ASSUME Inv, NEW r \in Requests, Reads(r)
    PROVE  Inv'
  <1>1. Typed' /\ Guarded'
    BY ReadsTyped, ReadsGuarded DEF Inv
  <1>2. UNCHANGED <<item, version, document, proposal, created>>
    BY DEF Reads, Read, Refuse
  <1> QED
    BY <1>1, <1>2 DEF Inv, NoLostEdit, Authored, AcceptedIsComplete, CompleteIsAccepted

LEMMA ApprovalGuarded ==
    ASSUME Typed, Guarded, NEW a \in Approvals, ApprovalStep(a)
    PROVE  Guarded'
  BY OthersGuarded, OwnGuarded DEF Guarded

(* A proposal that was executed is left alone.                             *)
LEMMA ExecutedStays ==
    ASSUME Typed, NEW a \in Approvals, ApprovalStep(a), proposal[a].stage = "executed"
    PROVE  FALSE
  BY DEF ApprovalStep, Propose, LockFocus, SupersedeStale, LockPredecessor, Supersede,
         Collide, LockDocument, Commit, AbortVictim, Waiting, Reject, Locked

LEMMA SteadyInv ==
    ASSUME Inv, NEW a \in Approvals, ApprovalStep(a), Steady
    PROVE  Inv'
  <1>1. Typed' /\ Guarded'
    BY SteadyTyped, ApprovalGuarded DEF Inv
  <1>2. \A b \in Approvals : proposal[b].stage = "executed" => proposal'[b] = proposal[b]
    BY ExecutedStays, ApprovalTypes DEF Inv, Alone
  <1>3. NoLostEdit' /\ AcceptedIsComplete' /\ CompleteIsAccepted'
    BY DEF Inv, Steady, NoLostEdit, AcceptedIsComplete, CompleteIsAccepted
  <1>4. Authored'
    <2>1. \A i \in Items : \A n \in 1..Len(version[i]) :
             version[i][n].by \in Approvals \cup {Nobody}
      <3> SUFFICES ASSUME NEW i \in Items, NEW n \in 1..Len(version[i])
                   PROVE  version[i][n].by \in Approvals \cup {Nobody}
        OBVIOUS
      <3>1. version[i] \in Seq(VersionRow)
        BY RowFacts DEF Inv
      <3>2. version[i][n] \in VersionRow
        BY <3>1, ElementOfSeq
      <3> QED
        BY <3>2 DEF VersionRow
    <2> QED
      BY <1>2, <2>1 DEF Inv, Steady, Authored
  <1> QED
    BY <1>1, <1>3, <1>4 DEF Inv

LEMMA CommitInv ==
    ASSUME Inv, NEW a \in Approvals, ApprovalStep(a), Commit(a)
    PROVE  Inv'
  <1> DEFINE i == proposal[a].item
  <1>1. Typed' /\ Guarded'
    BY CommitTyped, ApprovalGuarded DEF Inv
  <1>2. Commits(a, i)
    BY CommitEffect DEF Inv
  <1>3. i \in Items /\ Grows(i, a)
    BY <1>2 DEF Commits, Grows
  <1>4. Staged(a, "executed")
    BY SetStageEffect DEF Commit, Stages, Inv
  <1>5. \A b \in Approvals :
           proposal[b].stage = "executed" =>
              /\ proposal'[b].stage = "executed"
              /\ proposal'[b].item = proposal[b].item
              /\ proposal'[b].base = proposal[b].base
    BY ExecutedStays, ApprovalTypes DEF Inv, Alone
  <1>6. NoLostEdit' /\ Authored'
    BY <1>2, <1>3, <1>4, <1>5, GrowsChain, GrowsAuthored DEF Inv, Staged, Commits
  <1>7. /\ document' = DocumentStatus(proposal[a].complete) /\ created' = created
        /\ proposal[a].complete => Covered(i)
        /\ created = {} /\ Covered(i) => proposal[a].complete
    BY DEF Commit, Inv, Guarded, HoldsDocument
  <1>8. (\A j \in Items : item'[j].current # 0) <=> Covered(i)
    <2>1. Len(version[i]) \in Nat
      BY <1>3, RowFacts DEF Inv
    <2>2. item'[i].current # 0
      BY <1>2, <2>1 DEF Commits
    <2> QED
      BY <1>2, <1>3, <2>2 DEF Covered, Commits, Others
  <1>9. AcceptedIsComplete' /\ CompleteIsAccepted'
    BY <1>7, <1>8 DEF AcceptedIsComplete, CompleteIsAccepted, DocumentStatus
  <1> QED
    BY <1>1, <1>6, <1>9 DEF Inv

LEMMA NextInv == ASSUME Inv, [Next]_vars PROVE Inv'
  <1>1. CASE Next
    BY <1>1, NextCases, EditsInv, ReadsInv, SteadyInv, CommitInv DEF Inv
  <1>2. CASE UNCHANGED vars
    BY <1>2 DEF vars, Inv, Typed, TypeOK, Linked, ReadExists, ProposalExists, Undecided, BasedOn,
       Guarded, HoldsItem, HoldsDocument, BaseIsCurrent, Insertable, NextNumber, Room, Unchanged,
       Covered, NoLostEdit, Authored, AcceptedIsComplete, CompleteIsAccepted
  <1> QED
    BY <1>1, <1>2

LEMMA Invariance == Spec => []Inv
  BY InitInv, NextInv, PTL DEF Spec

-----------------------------------------------------------------------------
(* The tables, the requests, the proposals and the locks keep their types. *)
THEOREM TypeCorrect == Spec => []TypeOK
  BY Invariance, PTL DEF Inv, Typed

(* Whatever requests and approvals interleave, the versions of an item     *)
(* form one chain: nobody builds past a version that was not read.         *)
THEOREM VersionsFormAChain == Spec => []NoLostEdit
  BY Invariance, PTL DEF Inv

(* approve_tool_call persists a proposal on the version it was drafted     *)
(* from, and on its own item.                                              *)
THEOREM ApprovalsExtendTheirBase == Spec => []ApprovalExtendsBase
  <1>1. Inv => ApprovalExtendsBase
    BY DEF Inv, Authored, ApprovalExtendsBase
  <1> QED
    BY <1>1, Invariance, PTL

(* When it commits, the predecessors are live and have not moved on.       *)
THEOREM ApprovalsAreBasedOnCurrent == Spec => BasedOnCurrent
  <1> DEFINE Step == \A a \in Approvals :
                        proposal[a].stage = "counted" /\ proposal'[a].stage = "executed" =>
                           \A i \in BasedOn(a) : /\ item[i].status # "archived"
                                                 /\ item[i].current = proposal[a].basedOn[i]
  <1>1. Inv /\ [Next]_vars => [Step]_vars
    BY DEF Inv, Guarded, HoldsDocument, Unchanged
  <1> QED
    BY <1>1, Invariance, PTL DEF Spec, BasedOnCurrent

(* _recompute_parent_acceptance: an accepted document has no gap.          *)
THEOREM AcceptanceIsComplete == Spec => []AcceptedIsComplete
  BY Invariance, PTL DEF Inv

(* ... and a complete one is accepted, in whatever order approvals and     *)
(* upserts commit: the lock on the container excludes a write skew.        *)
THEOREM CompletionIsAccepted == Spec => []CompleteIsAccepted
  BY Invariance, PTL DEF Inv

(* Both ways: the status of a document is the one its items give it.       *)
THEOREM DocumentsFollowItems == Spec => []DocumentsAreDerived
  BY AcceptanceIsComplete, CompletionIsAccepted, PTL DEF DocumentsAreDerived

-----------------------------------------------------------------------------
(* The lifecycle reports *)

(* A set of natural numbers that is not empty has a least member.          *)
LEMMA LeastItem ==
    ASSUME NEW T \in SUBSET Items, T # {}
    PROVE  \E x \in T : \A y \in T : ~ (y < x)
  <1> DEFINE R == {ss \in Nat \X Nat : ss[1] < ss[2]}
  <1>1. IsWellFoundedOn(R, Nat)
    BY NatLessThanWellFounded DEF OpToRel
  <1>2. T \in SUBSET Nat
    BY ItemsAssumption
  <1>3. \A x, y \in T : y < x => <<y, x>> \in R
    BY <1>2
  <1>4. \E x \in T : \A y \in T : ~ (<<y, x>> \in R)
    <2> HIDE DEF R
    <2> QED
      BY <1>1, <1>2, WFMin
  <1> QED
    BY <1>3, <1>4

-----------------------------------------------------------------------------
(* Ancestors *)

(* S holds the predecessors of i and of each of its own members.           *)
ClosedOver(i, S) ==
    Predecessors[i] \subseteq S /\ \A j \in S : Predecessors[j] \subseteq S

(* The least such set, without recursion.                                  *)
Upstream(i) == {j \in Items : \A S \in SUBSET Items : ClosedOver(i, S) => j \in S}

LEMMA ItemsAreClosed ==
    ASSUME NEW i \in Items
    PROVE  /\ Predecessors[i] \subseteq Items
           /\ ClosedOver(i, Items)
           /\ Items \in SUBSET Items
  BY PredecessorsAssumption DEF ClosedOver

LEMMA UpstreamIsClosed ==
    ASSUME NEW i \in Items
    PROVE  ClosedOver(i, Upstream(i))
  <1>1. Predecessors[i] \subseteq Upstream(i)
    BY ItemsAreClosed DEF Upstream, ClosedOver
  <1>2. ASSUME NEW j \in Upstream(i), NEW k \in Predecessors[j] PROVE k \in Upstream(i)
    <2>1. j \in Items /\ k \in Items
      BY <1>2, ItemsAreClosed DEF Upstream
    <2>2. ASSUME NEW S \in SUBSET Items, ClosedOver(i, S) PROVE k \in S
      <3>1. j \in S
        BY <2>2 DEF Upstream
      <3> QED
        BY <1>2, <2>2, <3>1 DEF ClosedOver
    <2> QED
      BY <2>1, <2>2 DEF Upstream
  <1> QED
    BY <1>1, <1>2 DEF ClosedOver

(* It satisfies the equation of the walk.                                  *)
LEMMA UpstreamUnfolds ==
    ASSUME NEW i \in Items
    PROVE  Upstream(i) = Predecessors[i] \cup UNION {Upstream(j) : j \in Predecessors[i]}
  <1> DEFINE U == Predecessors[i] \cup UNION {Upstream(j) : j \in Predecessors[i]}
  <1>1. Predecessors[i] \subseteq Items
    BY ItemsAreClosed
  <1>2. U \subseteq Upstream(i)
    <2>1. ASSUME NEW j \in Predecessors[i] PROVE Upstream(j) \subseteq Upstream(i)
      <3>1. ClosedOver(j, Upstream(i))
        BY UpstreamIsClosed DEF ClosedOver
      <3>2. Upstream(i) \in SUBSET Items
        BY DEF Upstream
      <3> QED
        BY <3>1, <3>2 DEF Upstream
    <2>2. Predecessors[i] \subseteq Upstream(i)
      BY UpstreamIsClosed DEF ClosedOver
    <2> QED
      BY <2>1, <2>2
  <1>3. Upstream(i) \subseteq U
    <2>1. U \in SUBSET Items
      BY <1>1 DEF Upstream
    <2>2. ASSUME NEW j \in U PROVE Predecessors[j] \subseteq U
      <3>1. CASE j \in Predecessors[i]
        <4>1. Predecessors[j] \subseteq Upstream(j)
          BY <1>1, <3>1, UpstreamIsClosed DEF ClosedOver
        <4> QED
          BY <3>1, <4>1
      <3>2. ASSUME NEW k \in Predecessors[i], j \in Upstream(k) PROVE Predecessors[j] \subseteq U
        <4>1. Predecessors[j] \subseteq Upstream(k)
          BY <1>1, <3>2, UpstreamIsClosed DEF ClosedOver
        <4> QED
          BY <3>2, <4>1
      <3> QED
        BY <2>2, <3>1, <3>2
    <2>3. ClosedOver(i, U)
      <3> HIDE DEF U
      <3>1. Predecessors[i] \subseteq U
        BY DEF U
      <3> QED
        BY <2>2, <3>1 DEF ClosedOver
    <2> HIDE DEF U
    <2> QED
      BY <2>1, <2>3 DEF Upstream
  <1> QED
    BY <1>2, <1>3

(* The walk of ancestor_types: what it collects is an equation's solution. *)
Walk(g) ==
    g = [k \in Items |-> Predecessors[k] \cup UNION {g[j] : j \in Predecessors[k]}]

LEMMA WalkExists == \E g : Walk(g)
  <1> DEFINE g == [k \in Items |-> Upstream(k)]
  <1>1. ASSUME NEW k \in Items
        PROVE  g[k] = Predecessors[k] \cup UNION {g[j] : j \in Predecessors[k]}
    <2>1. \A j \in Predecessors[k] : g[j] = Upstream(j)
      BY ItemsAreClosed
    <2>2. {g[j] : j \in Predecessors[k]} = {Upstream(j) : j \in Predecessors[k]}
      BY <2>1
    <2> QED
      BY <2>2, UpstreamUnfolds
  <1>2. g = [k \in Items |-> Predecessors[k] \cup UNION {g[j] : j \in Predecessors[k]}]
    BY <1>1
  <1> QED
    BY <1>2 DEF Walk

(* What the walk from i finds comes before i, with all that it is built    *)
(* from.                                                                   *)
LEMMA AncestorsAreClosed ==
    ASSUME NEW i \in Items, NEW j \in Ancestors[i]
    PROVE  j \in Items /\ j < i /\ Ancestors[j] \subseteq Ancestors[i]
  <1> DEFINE g == CHOOSE f : Walk(f)
  <1>1. Walk(g)
    BY WalkExists
  <1>2. \A k \in Items : Ancestors[k] = g[k]
    BY AncestorsAreReached DEF AncestorTypes, Walk
  <1> HIDE DEF g
  <1>3. \A k \in Items :
           Ancestors[k] = Predecessors[k] \cup UNION {Ancestors[m] : m \in Predecessors[k]}
    <2> SUFFICES ASSUME NEW k \in Items
                 PROVE  Ancestors[k] =
                           Predecessors[k] \cup UNION {Ancestors[m] : m \in Predecessors[k]}
      OBVIOUS
    <2>1. g[k] = Predecessors[k] \cup UNION {g[m] : m \in Predecessors[k]}
      BY <1>1 DEF Walk
    <2>2. \A m \in Predecessors[k] : g[m] = Ancestors[m]
      BY <1>2, ItemsAreClosed
    <2>3. {g[m] : m \in Predecessors[k]} = {Ancestors[m] : m \in Predecessors[k]}
      BY <2>2
    <2> QED
      BY <1>2, <2>1, <2>3
  <1> DEFINE Good(k) == \A m \in Ancestors[k] :
                           m \in Items /\ m < k /\ Ancestors[m] \subseteq Ancestors[k]
             T == {k \in Items : ~Good(k)}
  <1>4. ASSUME T # {} PROVE FALSE
    <2>1. T \in SUBSET Items
      OBVIOUS
    <2>2. PICK x \in T : \A y \in T : ~ (y < x)
      <3> HIDE DEF T
      <3> QED
        BY <1>4, <2>1, LeastItem
    <2>3. x \in Items /\ x \in Nat /\ Items \subseteq Nat
      BY ItemsAssumption
    <2>4. \A k \in Predecessors[x] : k \in Items /\ k < x
      BY PredecessorsAssumption
    <2>5. ASSUME NEW k \in Predecessors[x]
          PROVE  /\ \A m \in Ancestors[k] :
                       m \in Items /\ m < k /\ Ancestors[m] \subseteq Ancestors[k]
                 /\ Ancestors[k] \subseteq Ancestors[x]
      <3>1. k \notin T
        <4> HIDE DEF T
        <4> QED
          BY <2>2, <2>4
      <3>2. Good(k)
        BY <2>4, <3>1
      <3>3. Ancestors[k] \subseteq Ancestors[x]
        BY <1>3, <2>3
      <3> QED
        BY <3>2, <3>3
    <2>6. ASSUME NEW m \in Ancestors[x]
          PROVE  m \in Items /\ m < x /\ Ancestors[m] \subseteq Ancestors[x]
      <3>1. CASE m \in Predecessors[x]
        BY <2>4, <2>5, <3>1
      <3>2. ASSUME NEW k \in Predecessors[x], m \in Ancestors[k]
            PROVE  m \in Items /\ m < x /\ Ancestors[m] \subseteq Ancestors[x]
        <4>1. /\ m \in Items /\ m < k /\ Ancestors[m] \subseteq Ancestors[k]
              /\ k \in Items /\ k < x /\ Ancestors[k] \subseteq Ancestors[x]
          BY <2>4, <2>5, <3>2
        <4>2. m \in Nat /\ k \in Nat
          BY <2>3, <4>1
        <4> QED
          BY <2>3, <4>1, <4>2
      <3>3. m \in Predecessors[x] \/ \E k \in Predecessors[x] : m \in Ancestors[k]
        BY <1>3, <2>3
      <3> QED
        BY <3>1, <3>2, <3>3
    <2> QED
      BY <2>2, <2>6
  <1> QED
    BY <1>4

-----------------------------------------------------------------------------
(* Both loaders *)

(* A session has loaded everything its own item is built from, and all     *)
(* that those are built from.                                              *)
LEMMA ContextIsClosed ==
    ASSUME NEW t \in Items, NEW i \in {t} \cup Ancestors[t]
    PROVE  Ancestors[i] \subseteq ContextTypes(t)
  BY AncestorsAreClosed DEF ContextTypes

(* Of these the session decides as the graph does.                         *)
LEMMA SameReport ==
    ASSUME NEW t \in Items, NEW i \in {t} \cup Ancestors[t]
    PROVE  SessionReport(t, i) = GraphReport(i)
  <1>1. (\E j \in Ancestors[i] : Blocks(j) \/ j \notin ContextTypes(t))
           <=> \E j \in Ancestors[i] : Blocks(j)
    BY ContextIsClosed
  <1>2. (\E j \in Ancestors[i] : Blocks(j) \/ j \notin ContextTypes(t))
           = \E j \in Ancestors[i] : Blocks(j)
    BY <1>1
  <1> QED
    BY <1>2 DEF SessionReport, GraphReport

(* More predecessors that block change a report to blocked, or not at all. *)
LEMMA BlockedIsTheWorst ==
    ASSUME NEW i, NEW b \in BOOLEAN, NEW c \in BOOLEAN, b => c
    PROVE  Resolve(i, c) = Resolve(i, b) \/ Resolve(i, c) = "blocked"
  <1>1. CASE b = c
    BY <1>1
  <1>2. CASE b = FALSE /\ c = TRUE
    BY <1>2 DEF Resolve, Accepted
  <1> QED
    BY <1>1, <1>2

LEMMA LoadersAgree == ReportsAgree
  <1> SUFFICES ASSUME NEW t \in Items, NEW i \in ContextTypes(t)
               PROVE  \/ SessionReport(t, i) = GraphReport(i)
                      \/ SessionReport(t, i) = "blocked" /\ i \notin {t} \cup Ancestors[t]
    BY DEF ReportsAgree
  <1>1. CASE i \in {t} \cup Ancestors[t]
    BY <1>1, SameReport
  <1>2. CASE i \notin {t} \cup Ancestors[t]
    <2> DEFINE b == \E j \in Ancestors[i] : Blocks(j)
               c == \E j \in Ancestors[i] : Blocks(j) \/ j \notin ContextTypes(t)
    <2>1. b \in BOOLEAN /\ c \in BOOLEAN /\ (b => c)
      OBVIOUS
    <2>2. SessionReport(t, i) = Resolve(i, c) /\ GraphReport(i) = Resolve(i, b)
      BY DEF SessionReport, GraphReport
    <2> HIDE DEF b, c
    <2> QED
      BY <1>2, <2>1, <2>2, BlockedIsTheWorst
  <1> QED
    BY <1>1, <1>2

-----------------------------------------------------------------------------
(* The gate *)

(* A proposal is based on ancestors of its item only.                      *)
BasedOnAncestors ==
    \A a \in Approvals : \A j \in BasedOn(a) : j \in Ancestors[proposal[a].item]

LEMMA ProposalsStayBased ==
    ASSUME Typed, BasedOnAncestors, NEW a \in Approvals, ApprovalStep(a)
    PROVE  BasedOnAncestors'
  <1>1. \A b \in Approvals \ {a} : proposal'[b] = proposal[b]
    BY ApprovalTypes DEF Alone
  <1> DEFINE Based == \A j \in Items : proposal'[a].basedOn[j] # 0 =>
                         j \in Ancestors[proposal'[a].item]
             Kept == /\ proposal'[a].item = proposal[a].item
                     /\ proposal'[a].basedOn = proposal[a].basedOn
  <1>2. ASSUME Kept PROVE Based
    BY <1>2 DEF BasedOnAncestors, BasedOn
  <1>3. ASSUME NEW i \in Items, Propose(a, i) PROVE Based
    BY <1>3 DEF Propose, Typed, TypeOK
  <1>4. ASSUME SupersedeStale(a) \/ Reject(a) \/ Supersede(a) PROVE Based
    <2>1. proposal'[a].basedOn = [j \in Items |-> 0]
      BY <1>4 DEF SupersedeStale, Reject, Supersede, Decline, NoProposal, Typed, TypeOK
    <2> QED
      BY <2>1
  <1>5. ASSUME NEW i \in Items, LockPredecessor(a, i) PROVE Kept
    BY <1>5 DEF LockPredecessor
  <1>6. ASSUME LockFocus(a) \/ Collide(a) \/ AbortVictim(a) \/ Commit(a) PROVE Kept
    BY <1>6, SetStageEffect DEF LockFocus, Collide, AbortVictim, Commit, Stages, Staged
  <1>7. ASSUME LockDocument(a) PROVE Kept
    BY <1>7 DEF LockDocument, Typed, TypeOK, ProposalRec
  <1>8. Based
    BY <1>2, <1>3, <1>4, <1>5, <1>6, <1>7 DEF ApprovalStep
  <1> QED
    BY <1>1, <1>8 DEF BasedOnAncestors, BasedOn

LEMMA BasedStep == ASSUME Inv, BasedOnAncestors, [Next]_vars PROVE BasedOnAncestors'
  <1>1. ASSUME UNCHANGED proposal PROVE BasedOnAncestors'
    BY <1>1 DEF BasedOnAncestors, BasedOn
  <1>2. CASE Next
    BY <1>1, <1>2, NextCases, ProposalsStayBased DEF Inv, Edits, EditsRow, Reads, Read, Refuse
  <1>3. CASE UNCHANGED vars
    BY <1>1, <1>3 DEF vars
  <1> QED
    BY <1>2, <1>3

LEMMA BasedInit == Init => BasedOnAncestors
  BY DEF Init, BasedOnAncestors, BasedOn, NoProposal

(* What the current version of i was written from are ancestors of i.      *)
LEMMA BasisIsUpstream ==
    ASSUME Inv, BasedOnAncestors, NEW i \in Items, NEW b \in Basis(i)
    PROVE  b[1] \in Ancestors[i]
  <1>1. item[i].current # 0
    BY DEF Basis
  <1> DEFINE by == version[i][item[i].current].by
  <1>2. item[i].current \in 1..Len(version[i])
    <2>1. Typed
      BY DEF Inv
    <2>2. /\ item[i].current \in 0..MaxVersions /\ Len(version[i]) \in Nat
          /\ item[i].current <= Len(version[i])
      BY <2>1, RowFacts
    <2> QED
      BY <1>1, <2>2, VersionsAssumption
  <1>3. by # Nobody /\ \E j \in BasedOn(by) : b = <<j, proposal[by].basedOn[j]>>
    BY <1>1 DEF Basis
  <1>4. by \in Approvals
    <2>1. version[i] \in Seq(VersionRow)
      BY RowFacts DEF Inv
    <2>2. version[i][item[i].current] \in VersionRow
      BY <1>2, <2>1, ElementOfSeq
    <2> QED
      BY <1>3, <2>2 DEF VersionRow
  <1>5. proposal[by].item = i
    BY <1>2, <1>3 DEF Inv, Authored
  <1> HIDE DEF by
  <1> QED
    BY <1>3, <1>4, <1>5 DEF BasedOnAncestors

(* An item whose ancestors are all accepted is current, or may be drafted: *)
(* it is not blocked, and it is no orphan.                                 *)
LEMMA NextInLine ==
    ASSUME Inv, BasedOnAncestors, NEW i \in Items, \A j \in Ancestors[i] : Accepted(j)
    PROVE  SessionReport(i, i) = "current" \/ MayWrite(i)
  <1>1. SessionReport(i, i) = Resolve(i, FALSE)
    <2>1. (\E j \in Ancestors[i] : Blocks(j) \/ j \notin ContextTypes(i)) = FALSE
      BY ContextIsClosed DEF Blocks
    <2> QED
      BY <2>1 DEF SessionReport
  <1>2. ~Orphaned(i)
    BY BasisIsUpstream DEF Orphaned, Accepted, Found
  <1>3. Resolve(i, FALSE) \in {"missing", "in_progress", "stale", "current"}
    BY <1>2 DEF Resolve, Accepted
  <1> QED
    BY <1>1, <1>3 DEF MayWrite

(* Only an accepted item is reported current.                              *)
LEMMA CurrentIsAccepted ==
    ASSUME NEW i, SessionReport(i, i) = "current"
    PROVE  Accepted(i)
  BY DEF SessionReport, Resolve, Accepted

LEMMA GateOpens ==
    ASSUME Inv, BasedOnAncestors
    PROVE  SomeoneMayWrite
  <1> DEFINE T == {i \in Items : SessionReport(i, i) # "current"}
  <1> SUFFICES ASSUME T # {} PROVE \E i \in Items : MayWrite(i)
    BY DEF SomeoneMayWrite
  <1>1. T \in SUBSET Items
    OBVIOUS
  <1>2. PICK i \in T : \A y \in T : ~ (y < i)
    <2> HIDE DEF T
    <2> QED
      BY <1>1, LeastItem
  <1>3. \A j \in Ancestors[i] : Accepted(j)
    BY <1>2, AncestorsAreClosed, CurrentIsAccepted
  <1> QED
    BY <1>2, <1>3, NextInLine

-----------------------------------------------------------------------------
(* Whatever the rows hold, a session decides by the report the project     *)
(* sees, of its own item and of all it is built from; of the others it may *)
(* only say blocked.                                                       *)
THEOREM ReportsNeverDiffer == Spec => []ReportsAgree
  BY LoadersAgree, PTL

(* There is no ring of refusals: the first item in the order of the types  *)
(* that is not current has accepted ancestors, and is written from nothing *)
(* else, so that lifecycle_tool_block_reason lets it be drafted.           *)
THEOREM GateNeverCloses == Spec => []SomeoneMayWrite
  <1>1. Spec => []BasedOnAncestors
    BY BasedInit, BasedStep, Invariance, PTL DEF Spec
  <1> QED
    BY <1>1, GateOpens, Invariance, PTL

=============================================================================
