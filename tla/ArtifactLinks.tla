--------------------------- MODULE ArtifactLinks ---------------------------
(***************************************************************************)
(* What a project keeps between its artifacts: links, retirements with the *)
(* artifact that takes over, and the workflow runs of the project.         *)
(* (ArtifactService.create_link and archive_artifact, ArtifactLinkService, *)
(* WorkflowService.)                                                       *)
(*                                                                         *)
(* All three check what is there and then insert or write, without a lock: *)
(* a request is a read, with a ticket in the order in which transactions   *)
(* begin, and a write later.  Approvals of the agent's link and retirement *)
(* proposals run the same two functions.  A retired artifact may come back *)
(* (DocumentService.create_item_version and upsert_item).  The versions of *)
(* an artifact, and who was written from whom, are in ArtifactVersions.    *)
(***************************************************************************)
EXTENDS Naturals, Sequences, FiniteSets

CONSTANTS
    Artifacts,     \* the artifacts of a project
    Relations,     \* relation types of links
    Steps,         \* the steps of a workflow run
    Requests,      \* requests in flight at the same time
    MaxTickets,    \* bound: requests
    None           \* no artifact

ASSUME LinksConstants == None \notin Artifacts /\ MaxTickets \in Nat

VARIABLES
    archived,   \* the artifacts with status archived
    heir,       \* superseded_by in the metadata of an artifact
    back,       \* history: the tickets drawn when a retired artifact came back
    links,      \* rows of artifact_links
    runs,       \* rows of workflow_runs, in the order of their commits
    request,    \* what a request has read
    ticket      \* the requests that have begun

\* A row carries the ticket of its request and, as history, the tickets that
\* had been drawn when it was committed.

vars == <<archived, heir, back, links, runs, request, ticket>>

Idle == [kind |-> "idle"]
NoHeir == [to |-> None, ticket |-> 0, closed |-> 0]
Pair(l) == <<l.from, l.to>>

\* Row x was committed before the request that wrote y began.
Before(x, y) == x.closed < y.ticket
Overlap(x, y) == ~Before(x, y) /\ ~Before(y, x)

\* A transaction begins.
Begins == ticket < MaxTickets /\ ticket' = ticket + 1

\* r draws a ticket and has read what it needs.
Reads(r, what) ==
    /\ request[r] = Idle
    /\ Begins
    /\ request' = [request EXCEPT ![r] = what]

Done(r) == request' = [request EXCEPT ![r] = Idle]

-----------------------------------------------------------------------------
(* Links *)

\* The artifacts that can be reached from a along ls.
Reached(a, ls) ==
    LET near(S) == S \cup {l.to : l \in {k \in ls : k.from \in S}}
        after[n \in 0..Cardinality(ls)] == IF n = 0 THEN {a} ELSE near(after[n - 1])
    IN  after[Cardinality(ls)]

\* Mutant of HasLinkPath: from the source to the target.
HasLinkPathForward(from, to) == to \in Reached(from, links)

\* _has_link_path: a path from the target back to the source.
HasLinkPath(from, to) == from \in Reached(to, links)

\* create_link until the insert.  An archived artifact can be linked.
CheckLink(r, from, to, rel) ==
    /\ from # to
    /\ \A l \in links : Pair(l) \notin {<<from, to>>, <<to, from>>}
    /\ ~HasLinkPath(from, to)
    /\ Reads(r, [kind |-> "link", from |-> from, to |-> to, rel |-> rel,
                 ticket |-> ticket + 1])
    /\ UNCHANGED <<archived, heir, back, links, runs>>

\* The insert, and uq_artifact_links_pair_type.
InsertLink(r) ==
    LET new == request[r]
    IN  /\ new.kind = "link"
        /\ \A l \in links : Pair(l) # Pair(new) \/ l.rel # new.rel
        /\ links' = links \cup {[from |-> new.from, to |-> new.to, rel |-> new.rel,
                                 ticket |-> new.ticket, closed |-> ticket]}
        /\ Done(r)
        /\ UNCHANGED <<archived, heir, back, runs, ticket>>

\* ArtifactLinkService.delete
DeleteLink(l) ==
    /\ l \in links
    /\ links' = links \ {l}
    /\ UNCHANGED <<archived, heir, back, runs, request, ticket>>

-----------------------------------------------------------------------------
(* Retirement *)

\* downstream_usage_ids, the part that reads links.
LinkedUsers(a) == {l.from : l \in {k \in links : k.to = a}} \ archived

\* Mutant of MayInherit: an archived artifact may take over.
AnyoneInherits(a, to) == to # a

\* The artifact that takes over, when there is one, is another and live.
MayInherit(a, to) == to # a /\ to \notin archived

\* archive_artifact until the write.  An archived artifact can be retired again.
CheckRetirement(r, a, to) ==
    /\ MayInherit(a, to)
    /\ LinkedUsers(a) = {}
    /\ Reads(r, [kind |-> "retire", artifact |-> a, to |-> to, was |-> heir[a],
                 gone |-> a \in archived, ticket |-> ticket + 1])
    /\ UNCHANGED <<archived, heir, back, links, runs>>

\* a is live, whatever its metadata say of an heir.
IsLive(a) ==
    /\ archived' = archived \ {a}
    /\ back' = [back EXCEPT ![a] = ticket]

\* The write of the columns that differ from those read: the status, if the
\* artifact was live then, and the metadata as they were read, with the new
\* heir if there is one.
Retire(r) ==
    LET q == request[r]
    IN  /\ q.kind = "retire"
        /\ IF q.artifact \in archived \/ ~q.gone
           THEN archived' = archived \cup {q.artifact} /\ UNCHANGED back
           ELSE IsLive(q.artifact)
        /\ heir' = [heir EXCEPT ![q.artifact] = IF q.to = None THEN q.was
                       ELSE [to |-> q.to, ticket |-> q.ticket, closed |-> ticket]]
        /\ Done(r)
        /\ UNCHANGED <<links, runs, ticket>>

\* The same retirement again: no column differs.
RetireAgain(r) ==
    LET q == request[r]
    IN  /\ q.kind = "retire" /\ q.gone /\ q.to \in {None, q.was.to}
        /\ Done(r)
        /\ UNCHANGED <<archived, heir, back, links, runs, ticket>>

\* A retired artifact is live again and its metadata stay: create_item_version
\* for an approved draft does not ask for its status, and update and
\* create_review may have asked before it was retired.
Accept(a) ==
    /\ a \in archived
    /\ Begins
    /\ IsLive(a)
    /\ UNCHANGED <<heir, links, runs, request>>

\* The metadata are the client's, without an heir: upsert_item, with any
\* status, and update.
Rewrite(a) ==
    /\ Begins
    /\ heir' = [heir EXCEPT ![a] = NoHeir]
    /\ \/ a \in archived /\ IsLive(a)
       \/ archived' \in {archived, archived \cup {a}} /\ UNCHANGED back
    /\ UNCHANGED <<links, runs, request>>

-----------------------------------------------------------------------------
(* Workflow runs.  No code ends a run: every row stays active.             *)

\* get_current_run: created_at is the time at which the transaction began.
CurrentRun == CHOOSE k \in DOMAIN runs : \A j \in DOMAIN runs : runs[j].ticket <= runs[k].ticket

\* Mutant of NoRun: create_run does not look.
NoRunUnchecked == TRUE

NoRun == runs = <<>>

\* create_run until the insert.
CheckRun(r) ==
    /\ NoRun
    /\ Reads(r, [kind |-> "run", ticket |-> ticket + 1])
    /\ UNCHANGED <<archived, heir, back, links, runs>>

\* The run and its steps, all pending.
InsertRun(r) ==
    /\ request[r].kind = "run"
    /\ runs' = Append(runs, [ticket |-> request[r].ticket, closed |-> ticket, done |-> {}])
    /\ Done(r)
    /\ UNCHANGED <<archived, heir, back, links, ticket>>

\* update_step_status: a step by its id, of whatever run.
UpdateStep(k, s) ==
    /\ k \in DOMAIN runs /\ s \notin runs[k].done
    /\ runs' = [runs EXCEPT ![k].done = @ \cup {s}]
    /\ UNCHANGED <<archived, heir, back, links, request, ticket>>

\* get_progress: the steps of the current run.
Progress == runs[CurrentRun].done

-----------------------------------------------------------------------------
\* 400, 409, a violated constraint, or a lost connection.
Fail(r) ==
    /\ request[r] # Idle
    /\ Done(r)
    /\ UNCHANGED <<archived, heir, back, links, runs, ticket>>

Init ==
    /\ archived = {} /\ heir = [a \in Artifacts |-> NoHeir]
    /\ back = [a \in Artifacts |-> 0]
    /\ links = {} /\ runs = <<>>
    /\ request = [r \in Requests |-> Idle] /\ ticket = 0

Next ==
    \/ \E r \in Requests :
        \/ \E from, to \in Artifacts, rel \in Relations : CheckLink(r, from, to, rel)
        \/ InsertLink(r)
        \/ \E a \in Artifacts, to \in Artifacts \cup {None} : CheckRetirement(r, a, to)
        \/ Retire(r)
        \/ RetireAgain(r)
        \/ CheckRun(r)
        \/ InsertRun(r)
        \/ Fail(r)
    \/ \E l \in links : DeleteLink(l)
    \/ \E a \in Artifacts : Accept(a) \/ Rewrite(a)
    \/ \E k \in DOMAIN runs, s \in Steps : UpdateStep(k, s)

Spec == Init /\ [][Next]_vars

-----------------------------------------------------------------------------
(* Properties *)

\* create_link: while every link is checked after the others are in place, no
\* ring of links comes about, of any length, whatever is deleted in between;
\* two links of a ring were made at the same time.
RingsAreRaces ==
    \A ring \in SUBSET links :
        ring # {} /\ (\A l \in ring : l.from \in Reached(l.to, ring)) =>
            \E l, m \in ring : l # m /\ Overlap(l, m)

\* An artifact came back and kept the heir that it had.
CameBack(a) == heir[a].closed <= back[a]

\* archive_artifact: who follows superseded_by comes to an end, however often
\* artifacts are retired, come back and are retired again, except in two
\* cases: two of the retirements on the way were made at the same time, or one
\* of the artifacts was live again and kept the heir it once had.
HeirsLeadSomewhere ==
    \A ring \in SUBSET Artifacts :
        ring # {} /\ (\A a \in ring : heir[a].to \in ring) =>
            \/ \E a, b \in ring : a # b /\ Overlap(heir[a], heir[b])
            \/ \E a \in ring : CameBack(a)

\* create_run, get_current_run and get_progress: a step that was done stays on
\* view, unless another run was created at the same time as the step's own.
StepsStayOnView ==
    \A k \in DOMAIN runs :
        runs[k].done \subseteq Progress \/ Overlap(runs[k], runs[CurrentRun])

=============================================================================
