---------------------------- MODULE AgentSession ----------------------------
(***************************************************************************)
(* The life of agent sessions: the rows of agent_sessions, the user        *)
(* messages and approval proposals attached to them, the HTTP requests of  *)
(* app/services/agent_service.py and the background graph turns            *)
(* (AgentService._run_graph) that all read and write those rows.           *)
(*                                                                         *)
(* One action is one database transaction, with the checks the code makes  *)
(* from that transaction's reads.  A request or a turn that reads a row,   *)
(* awaits, and writes later is two actions, and what it read travels in    *)
(* the state (message[m].seen, turn[t].seen, opening[s].seen): the ORM     *)
(* writes the columns that differ from what was READ, not from what the    *)
(* row holds by then.                                                      *)
(*                                                                         *)
(* All Sessions belong to one user, project and artifact type, so they     *)
(* compete for one entry of the partial unique index                       *)
(* uq_agent_sessions_active_project_artifact_type_user, called the slot.   *)
(***************************************************************************)
EXTENDS Naturals

CONSTANTS
    Sessions,    \* the session rows the user may ever create
    Messages,    \* the messages the user may ever send
    Proposals,   \* the approval tool calls the agent may ever make
    Turns,       \* asyncio tasks that may run at the same time
    NoSession,   \* "no session": the turn is idle, the message is unsent
    NoMessage,   \* "no message": the turn has picked nothing from the queue
    MaxCrashes   \* how often the process may be killed

ASSUME NoSessionAssumption == NoSession \notin Sessions
ASSUME NoMessageAssumption == NoMessage \notin Messages
ASSUME MaxCrashesAssumption == MaxCrashes \in Nat

-----------------------------------------------------------------------------
(* Status and interrupt_type of a row.  "absent" and "deleted" stand for   *)
(* no row: not created yet, deleted by the user.                           *)
Holding    == {"active", "waiting"}
Ended      == {"completed", "failed", "expired"}
Gone       == {"absent", "deleted"}
Status     == Holding \cup Ended \cup Gone \cup {"turn_failed"}
Interrupts == {"ask", "propose", "stream"}
Interrupt  == Interrupts \cup {"none"}

(* What the model keeps of an agent_sessions row.  idle: updated_at is     *)
(* older than session_abandoned_ttl.  parked: the tool or node a resume    *)
(* executes again: the one whose interrupt is pending in graph_checkpoint, *)
(* or, when the turn was stopped after the body had committed its pause    *)
(* and before the checkpoint, the one the checkpoint has next.             *)
Row == [status: Status, interrupt: Interrupt, idle: BOOLEAN, parked: Interrupt]

AbsentRow ==
    [status |-> "absent", interrupt |-> "none", idle |-> FALSE, parked |-> "none"]

Stages    == {"unsent", "read", "queued", "delivered", "refused"}
Verdicts  == {"unused", "proposed", "executed", "rejected", "superseded"}
FollowUps == {"none", "complete", "resume"}
TurnPcs   == {"idle", "starting", "running", "halted", "ended", "capped",
              "failed", "finished", "draining"}

MessageRec  == [stage: Stages, session: Sessions \cup {NoSession}, seen: Row,
                stamp: Nat, copies: Nat]
ProposalRec == [verdict: Verdicts, session: Sessions \cup {NoSession}, followUp: FollowUps]
TurnRec     == [pc: TurnPcs, session: Sessions \cup {NoSession}, input: {"fresh", "resume"},
                picked: Messages \cup {NoMessage}, seen: Row]
OpeningRec  == [step: {"none", "met", "freed"}, holder: Sessions \cup {NoSession}, seen: Row]

NoTurn    == [pc |-> "idle", session |-> NoSession, input |-> "fresh",
              picked |-> NoMessage, seen |-> AbsentRow]
NoOpening == [step |-> "none", holder |-> NoSession, seen |-> AbsentRow]
Unsent    == [stage |-> "unsent", session |-> NoSession, seen |-> AbsentRow,
              stamp |-> 0, copies |-> 0]
Unused    == [verdict |-> "unused", session |-> NoSession, followUp |-> "none"]

VARIABLES
    row,        \* the agent_sessions table
    message,    \* the user's messages: where each is, and for a request in
                \*   flight the row it read; stamp orders created_at; copies
                \*   counts the turns started with it
    proposal,   \* the approval tool calls; followUp is the second
                \*   transaction the deciding request still has to run
    turn,       \* the asyncio tasks running _run_graph
    opening,    \* create_session requests that met a slot holder
    clock,      \* the number of messages sent so far
    crashes,    \* the number of process kills so far
    orphaned,   \* history: sessions a kill left without their turn, or whose
                \*   interrupt a failed turn cleared after another had revived
                \*   the session
    raced       \* history: sessions written from a stale read, or given a
                \*   second turn before the first one's task was over

vars == <<row, message, proposal, turn, opening, clock, crashes, orphaned, raced>>

-----------------------------------------------------------------------------
Exists(s) == row[s].status \notin Gone

(* Mutant of Admits: the index covers active rows only.                    *)
AdmitsIfNoneActive(s) ==
    \/ row[s].status = "active"
    \/ \A o \in Sessions : row[o].status # "active"

(* The index lets s into the slot: it is there already or nobody is.       *)
Admits(s) ==
    \/ row[s].status \in Holding
    \/ \A o \in Sessions : row[o].status \notin Holding

Live(t, s)    == turn[t].session = s /\ turn[t].pc # "idle"
Working(t, s) == turn[t].session = s /\ turn[t].pc \in {"starting", "running"}

(* _session_ui_status = "processing".                                      *)
Processing(s) == row[s].status = "active" /\ row[s].interrupt # "stream"

Open(s) == {p \in Proposals : proposal[p].session = s /\ proposal[p].verdict = "proposed"}

(* Mutant of Queued: the queued flag of a drained message is not cleared.  *)
QueuedOrDrained(s) ==
    {m \in Messages : message[m].session = s /\ message[m].stage \in {"queued", "delivered"}}

(* The user's queued messages of s, and the oldest of them.                *)
Queued(s) == {m \in Messages : message[m].session = s /\ message[m].stage = "queued"}
Oldest(s) == {m \in Queued(s) : \A n \in Queued(s) : message[m].stamp <= message[n].stamp}

SameRow(seen, s) ==
    seen.status = row[s].status /\ seen.interrupt = row[s].interrupt

(* Every write refreshes updated_at (AuditMixin.onupdate).                 *)
Mark(s, st, intr, parked) ==
    row' = [row EXCEPT ![s] = [status |-> st, interrupt |-> intr,
                               idle |-> FALSE, parked |-> parked]]

(* A request or _run_graph writes status and interrupt_type only.          *)
Write(s, st, intr) == Mark(s, st, intr, row[s].parked)

(* asyncio.create_task(self._run_graph(...)).                              *)
StartTurn(t, s, input) ==
    turn' = [turn EXCEPT ![t] = [pc |-> "starting", session |-> s, input |-> input,
                                 picked |-> NoMessage, seen |-> AbsentRow]]

(* History: a write to s that was a race, if it was one.                   *)
NoteRace(s, races) == raced' = IF races THEN raced \cup {s} ELSE raced

(* Some turn other than t is still alive in s.                             *)
Overlaps(t, s) == \E u \in Turns \ {t} : Live(u, s)

-----------------------------------------------------------------------------
(* Creating, deleting and expiring sessions *)

(* create_session when the slot is free.                                   *)
CreateSession(s) ==
    /\ row[s].status = "absent"
    /\ opening[s].step = "none"
    /\ \A o \in Sessions : row[o].status \notin Holding
    /\ Mark(s, "waiting", "none", "none")
    /\ UNCHANGED <<message, proposal, turn, opening, clock, crashes, orphaned, raced>>

(* The insert met the unique index; the holder is read without a lock.     *)
MeetHolder(s, h) ==
    /\ row[s].status = "absent"
    /\ opening[s].step = "none"
    /\ row[h].status \in Holding
    /\ opening' = [opening EXCEPT ![s] = [step |-> "met", holder |-> h, seen |-> row[h]]]
    /\ UNCHANGED <<row, message, proposal, turn, clock, crashes, orphaned, raced>>

(* The locked re-read finds h still holding, but hands back the object     *)
(* loaded before: expire_abandoned_session judges the row read earlier.    *)
ExpireHolder(s) ==
    LET h == opening[s].holder
        seen == opening[s].seen
    IN  /\ opening[s].step = "met"
        /\ row[h].status \in Holding
        /\ seen.idle
        /\ Write(h, "expired", IF seen.interrupt = "none" THEN row[h].interrupt ELSE "none")
        /\ opening' = [opening EXCEPT ![s] = [step |-> "freed", holder |-> h, seen |-> seen]]
        /\ NoteRace(h, seen # row[h])
        /\ UNCHANGED <<message, proposal, turn, clock, crashes, orphaned>>

RetryCreate(s) ==
    /\ opening[s].step = "freed"
    /\ \A o \in Sessions : row[o].status \notin Holding
    /\ Mark(s, "waiting", "none", "none")
    /\ opening' = [opening EXCEPT ![s] = NoOpening]
    /\ UNCHANGED <<message, proposal, turn, clock, crashes, orphaned, raced>>

(* 409: the holder is in use, has just left, or another took the slot.     *)
RefuseCreate(s) ==
    /\ \/ opening[s].step = "met" /\ (\/ ~opening[s].seen.idle
                                      \/ row[opening[s].holder].status \notin Holding)
       \/ opening[s].step = "freed" /\ \E o \in Sessions : row[o].status \in Holding
    /\ opening' = [opening EXCEPT ![s] = NoOpening]
    /\ UNCHANGED <<row, message, proposal, turn, clock, crashes, orphaned, raced>>

(* The row and, by cascade, its messages and tool calls.                   *)
DeleteSession(s) ==
    /\ Exists(s)
    /\ Mark(s, "deleted", "none", "none")
    /\ UNCHANGED <<message, proposal, turn, opening, clock, crashes, orphaned, raced>>

(* session_abandoned_ttl (72 h) passes without a write.  A turn writes its *)
(* checkpoint at every step and is stopped after 180 s.                    *)
GoIdle(s) ==
    /\ row[s].status \in Holding
    /\ ~row[s].idle
    /\ \A t \in Turns : ~Live(t, s)
    /\ row' = [row EXCEPT ![s] = [status |-> row[s].status, interrupt |-> row[s].interrupt,
                                  idle |-> TRUE, parked |-> row[s].parked]]
    /\ UNCHANGED <<message, proposal, turn, opening, clock, crashes, orphaned, raced>>

(* Mutant of Expirable: only a waiting session can be abandoned.           *)
ExpirableIfWaiting(s) == row[s].status = "waiting" /\ row[s].idle

Expirable(s) == row[s].status \in Holding /\ row[s].idle

(* The lazy expiry of an event-stream snapshot.                            *)
ExpireIdle(s) ==
    /\ Expirable(s)
    /\ Write(s, "expired", "none")
    /\ UNCHANGED <<message, proposal, turn, opening, clock, crashes, orphaned, raced>>

-----------------------------------------------------------------------------
(* handle_user_message: read the row; then queue, accept or refuse *)

Send(m, s) ==
    /\ message[m].stage = "unsent"
    /\ Exists(s)
    /\ message' = [message EXCEPT ![m] = [stage |-> "read", session |-> s, seen |-> row[s],
                                          stamp |-> clock + 1, copies |-> 0]]
    /\ clock' = clock + 1
    /\ UNCHANGED <<row, proposal, turn, opening, crashes, orphaned, raced>>

(* Mutant of MustQueue: free text answers an approval.                     *)
MustQueueIfBusy(seen) == seen.status = "active" /\ seen.interrupt # "stream"

(* What the request decides from the row it read.                          *)
MustQueue(seen) ==
    \/ seen.status = "active" /\ seen.interrupt # "stream"
    \/ seen.status \in {"waiting", "turn_failed"} /\ seen.interrupt = "propose"

(* Mutant of MayAccept: a completed session takes messages.                *)
MayAcceptAfterCompletion(seen) ==
    ~MustQueue(seen) /\ seen.status \notin {"failed", "expired"}

MayAccept(seen) == ~MustQueue(seen) /\ seen.status \notin Ended

(* The request is answered; copies: the turns started with m so far.       *)
Settled(m, stage, copies) ==
    [stage |-> stage, session |-> message[m].session, seen |-> AbsentRow,
     stamp |-> message[m].stamp, copies |-> copies]

Settle(m, stage, copies) == message' = [message EXCEPT ![m] = Settled(m, stage, copies)]

QueueMessage(m) ==
    LET s == message[m].session
    IN  /\ message[m].stage = "read"
        /\ MustQueue(message[m].seen)
        /\ Exists(s)
        /\ Settle(m, "queued", 0)
        /\ NoteRace(s, ~SameRow(message[m].seen, s))
        /\ UNCHANGED <<row, proposal, turn, opening, clock, crashes, orphaned>>

(* Only the columns that differ from the read row are written.  A session  *)
(* read as ACTIVE keeps whatever status it has by now.                     *)
AcceptMessage(m, t) ==
    LET s == message[m].session
        seen == message[m].seen
    IN  /\ message[m].stage = "read"
        /\ MayAccept(seen)
        /\ turn[t].pc = "idle"
        /\ Exists(s)
        /\ seen.status = "active" \/ Admits(s)
        /\ Write(s, IF seen.status = "active" THEN row[s].status ELSE "active",
                    IF seen.interrupt = "none" THEN row[s].interrupt ELSE "none")
        /\ Settle(m, "delivered", 1)
        /\ StartTurn(t, s, IF seen.status = "turn_failed" \/ seen.interrupt = "none"
                           THEN "fresh" ELSE "resume")
        /\ NoteRace(s, ~SameRow(seen, s) \/ Overlaps(t, s))
        /\ UNCHANGED <<proposal, opening, clock, crashes, orphaned>>

(* 400 for an ended session, 422 from _resolve_llm_client, the unique      *)
(* index, a row deleted meanwhile: nothing is written.                     *)
RefuseMessage(m) ==
    /\ message[m].stage = "read"
    /\ ~MustQueue(message[m].seen) \/ ~Exists(message[m].session)
    /\ Settle(m, "refused", 0)
    /\ UNCHANGED <<row, proposal, turn, opening, clock, crashes, orphaned, raced>>

-----------------------------------------------------------------------------
(* A graph turn: start, run to a pause or an end, write the outcome, drain *)

Step(t, pc) == turn' = [turn EXCEPT ![t] = [@ EXCEPT !.pc = pc]]

(* The same, keeping a row that was read, or forgetting it.                *)
StepSeeing(t, pc, seen) ==
    turn' = [turn EXCEPT ![t] = [@ EXCEPT !.pc = pc, !.seen = seen]]

(* The status a tool or node writes before it raises its interrupt, and    *)
(* writes again when a resume re-executes its body.                        *)
PauseStatus(kind) == IF kind = "stream" THEN "active" ELSE "waiting"

(* No interrupt is pending, or the turn brings fresh input: the graph      *)
(* enters at triage, and a pending interrupt is superseded.                *)
BeginFresh(t) ==
    LET s == turn[t].session
    IN  /\ turn[t].pc = "starting"
        /\ Exists(s)
        /\ turn[t].input = "fresh" \/ row[s].parked = "none"
        /\ Mark(s, row[s].status, row[s].interrupt, "none")
        /\ Step(t, "running")
        /\ UNCHANGED <<message, proposal, opening, clock, crashes, orphaned, raced>>

(* LangGraph re-executes the interrupted body from the top: it marks the   *)
(* session again, interrupt() now returns the reply, and the turn goes on. *)
BeginReplay(t) ==
    LET s == turn[t].session
        kind == row[s].parked
    IN  /\ turn[t].pc = "starting"
        /\ turn[t].input = "resume"
        /\ kind # "none"
        /\ Exists(s)
        /\ Admits(s)
        /\ Mark(s, PauseStatus(kind), kind, "none")
        /\ Step(t, "running")
        /\ UNCHANGED <<message, proposal, opening, clock, crashes, orphaned, raced>>

(* The turn marks its session and halts on an interrupt of this kind.      *)
Pause(t, kind) ==
    LET s == turn[t].session
    IN  /\ turn[t].pc = "running"
        /\ Exists(s)
        /\ Admits(s)
        /\ Mark(s, PauseStatus(kind), kind, kind)
        /\ Step(t, "halted")
        /\ UNCHANGED <<message, opening, clock, crashes, orphaned, raced>>

(* converse, finalize: WAITING_FOR_HUMAN + ASK_HUMAN.                      *)
AskHuman(t) == Pause(t, "ask") /\ UNCHANGED proposal

(* ask_user, respond, confirm_intent: ACTIVE + STREAM_RESPONSE.            *)
StreamReply(t) == Pause(t, "stream") /\ UNCHANGED proposal

(* write_draft, create_artifact_link, propose_retirement.                  *)
ProposeArtifact(t, p) ==
    /\ Pause(t, "propose")
    /\ proposal[p].verdict = "unused"
    /\ proposal' = [proposal EXCEPT ![p] = [verdict |-> "proposed", followUp |-> "none",
                                            session |-> turn[t].session]]

(* The graph reaches END: the model answered without a tool call.          *)
EndTurn(t) ==
    /\ turn[t].pc = "running"
    /\ Step(t, "ended")
    /\ UNCHANGED <<row, message, proposal, opening, clock, crashes, orphaned, raced>>

(* The turn cap or the repeated-call stop ends the graph with tool calls   *)
(* that never ran, each answered by a synthetic result.                    *)
HitCap(t) ==
    /\ turn[t].pc = "running"
    /\ Step(t, "capped")
    /\ UNCHANGED <<row, message, proposal, opening, clock, crashes, orphaned, raced>>

(* An exception in the graph or while its outcome is recorded, or          *)
(* wait_for's timeout, which may come after a tool has committed its pause *)
(* and before ainvoke returns.                                             *)
FailTurn(t) ==
    /\ turn[t].pc \in {"starting", "running", "halted", "ended", "capped"}
    /\ StepSeeing(t, "failed", AbsentRow)
    /\ UNCHANGED <<row, message, proposal, opening, clock, crashes, orphaned, raced>>

(* Mutant of Outcome: a timeout is raised past the handler that records it. *)
OutcomeUnrecorded(pc, st) ==
    IF pc \in {"ended", "capped"} /\ st \in Holding THEN "completed" ELSE st

(* What _run_graph makes of a status when the graph is done.  The branch   *)
(* for the turn cap is dead: the synthetic results leave no message with   *)
(* tool calls at the end, so a capped turn counts as one that ended.       *)
Outcome(pc, st) ==
    IF pc \in {"ended", "capped"} /\ st \in Holding THEN "completed"
    ELSE IF pc = "failed" /\ st \notin {"waiting", "completed"} THEN "turn_failed"
    ELSE st

(* Mutant of OutcomeInterrupt: the failed turn's interrupt stays.          *)
OutcomeInterruptKept(pc, st, intr) == intr

OutcomeInterrupt(pc, st, intr) ==
    IF pc = "failed" /\ st = "turn_failed" THEN "none" ELSE intr

(* _run_graph reads the row when the graph is done, without a lock, and    *)
(* keeps what it read when it has a column to change.  A turn that paused  *)
(* changes none.                                                           *)
ReadOutcome(t) ==
    LET s == turn[t].session
        pc == turn[t].pc
        st == Outcome(pc, row[s].status)
    IN  /\ pc \in {"halted", "ended", "capped", "failed"}
        /\ turn[t].seen = AbsentRow
        /\ Exists(s)
        /\ IF st = row[s].status
                 /\ OutcomeInterrupt(pc, st, row[s].interrupt) = row[s].interrupt
           THEN Step(t, "finished")
           ELSE StepSeeing(t, pc, row[s])
        /\ UNCHANGED <<row, message, proposal, opening, clock, crashes, orphaned, raced>>

(* What the turn's task still has to write, judged on the row it read.     *)
StatusLeft(t)    == Outcome(turn[t].pc, turn[t].seen.status)
InterruptLeft(t) == OutcomeInterrupt(turn[t].pc, StatusLeft(t), turn[t].seen.interrupt)

(* The commit writes the columns that differ from the read row and leaves  *)
(* the others as another task may have written them meanwhile.             *)
FinishTurn(t) ==
    LET s == turn[t].session
        seen == turn[t].seen
    IN  /\ turn[t].pc \in {"ended", "capped", "failed"}
        /\ seen # AbsentRow
        /\ Exists(s)
        /\ Write(s, IF StatusLeft(t) = seen.status THEN row[s].status ELSE StatusLeft(t),
                    IF InterruptLeft(t) = seen.interrupt THEN row[s].interrupt ELSE "none")
        /\ StepSeeing(t, "finished", AbsentRow)
        /\ orphaned' = IF StatusLeft(t) = seen.status /\ row[s].status # seen.status
                       THEN orphaned \cup {s}
                       ELSE orphaned
        /\ UNCHANGED <<message, proposal, opening, clock, crashes, raced>>

(* The session was deleted while the turn ran, or before the queue was     *)
(* looked at: the task is over.                                            *)
DropTurn(t) ==
    /\ turn[t].pc \in {"halted", "ended", "capped", "failed", "finished", "draining"}
    /\ ~Exists(turn[t].session)
    /\ turn' = [turn EXCEPT ![t] = NoTurn]
    /\ UNCHANGED <<row, message, proposal, opening, clock, crashes, orphaned, raced>>

(* Mutants of Drainable: a paused session is fed from the queue; a failed  *)
(* turn leaves the queue alone.                                            *)
DrainableIfWaiting(st) == st \in {"completed", "failed", "turn_failed", "waiting"}
DrainableIfDone(st) == st \in {"completed", "failed"}

Drainable(st) == st \in {"completed", "failed", "turn_failed"}

(* _drain_queue reads the session and the oldest queued message...         *)
PickQueued(t, m) ==
    LET s == turn[t].session
    IN  /\ turn[t].pc = "finished"
        /\ Drainable(row[s].status)
        /\ m \in Oldest(s)
        /\ turn' = [turn EXCEPT ![t] = [pc |-> "draining", session |-> s, picked |-> m,
                                        input |-> "fresh", seen |-> row[s]]]
        /\ UNCHANGED <<row, message, proposal, opening, clock, crashes, orphaned, raced>>

(* ... or finds nothing to do.                                             *)
LeaveQueue(t) ==
    LET s == turn[t].session
    IN  /\ turn[t].pc = "finished"
        /\ Exists(s)
        /\ ~Drainable(row[s].status) \/ Queued(s) = {}
        /\ turn' = [turn EXCEPT ![t] = NoTurn]
        /\ UNCHANGED <<row, message, proposal, opening, clock, crashes, orphaned, raced>>

(* The dequeued message revives the session and starts a turn with it.     *)
StartQueued(t) ==
    LET s == turn[t].session
        m == turn[t].picked
        seen == turn[t].seen
    IN  /\ turn[t].pc = "draining"
        /\ Exists(s)
        /\ Admits(s)
        /\ Write(s, "active", IF seen.interrupt = "none" THEN row[s].interrupt ELSE "none")
        /\ Settle(m, "delivered", message[m].copies + 1)
        /\ StartTurn(t, s, "fresh")
        /\ NoteRace(s, ~SameRow(seen, s) \/ Overlaps(t, s))
        /\ UNCHANGED <<proposal, opening, clock, crashes, orphaned>>

(* Another session holds the slot: the update violates the unique index    *)
(* and the task dies with the message still queued.                        *)
StartQueuedFails(t) ==
    /\ turn[t].pc = "draining"
    /\ Exists(turn[t].session)
    /\ ~Admits(turn[t].session)
    /\ turn' = [turn EXCEPT ![t] = NoTurn]
    /\ UNCHANGED <<row, message, proposal, opening, clock, crashes, orphaned, raced>>

-----------------------------------------------------------------------------
(* Decisions on a proposal.  The first transaction locks the tool call,    *)
(* its run and its session; the second one follows in the same request.    *)

Decide(p, verdict, followUp) ==
    /\ proposal[p].verdict = "proposed"
    /\ Exists(proposal[p].session)
    /\ proposal' = [proposal EXCEPT ![p] = [verdict |-> verdict, followUp |-> followUp,
                                            session |-> proposal[p].session]]
    /\ UNCHANGED <<row, message, turn, opening, clock, crashes, orphaned, raced>>

(* Mutant of SessionNotEnded: a completed session still takes decisions.   *)
SessionNotDead(p) == row[proposal[p].session].status \notin {"failed", "expired"}

SessionNotEnded(p) == row[proposal[p].session].status \notin Ended

Approve(p) == Decide(p, "executed", "complete") /\ SessionNotEnded(p)

(* The approval finds a stale base version, a lifecycle conflict or a      *)
(* candidate that is not ready: superseded, and the turn is resumed.       *)
ApproveRebases(p) == Decide(p, "superseded", "resume") /\ SessionNotEnded(p)

Reject(p) == Decide(p, "rejected", "resume") /\ SessionNotEnded(p)

(* request_edit has no guard on the session's status.                      *)
RequestEdit(p) == Decide(p, "superseded", "resume")

(* The proposal once its request has been answered.                        *)
Answered(p) == [verdict |-> proposal[p].verdict, followUp |-> "none",
                session |-> proposal[p].session]

FollowedUp(p) == proposal' = [proposal EXCEPT ![p] = Answered(p)]

(* Mutant of AllDecided: an approved proposal still counts as pending.     *)
NoneProposedOrExecuted(s) ==
    \A p \in Proposals :
        proposal[p].session = s => proposal[p].verdict \notin {"proposed", "executed"}

AllDecided(s) == Open(s) = {}

(* _complete_when_all_artifact_proposals_approved.                         *)
CompleteSession(p) ==
    LET s == proposal[p].session
    IN  /\ proposal[p].followUp = "complete"
        /\ IF row[s].status = "waiting" /\ AllDecided(s)
           THEN Write(s, "completed", "none")
           ELSE UNCHANGED row
        /\ FollowedUp(p)
        /\ UNCHANGED <<message, turn, opening, clock, crashes, orphaned, raced>>

(* _check_and_resume.                                                      *)
ResumeTurn(p, t) ==
    LET s == proposal[p].session
    IN  /\ proposal[p].followUp = "resume"
        /\ row[s].status = "waiting"
        /\ AllDecided(s)
        /\ turn[t].pc = "idle"
        /\ Write(s, "active", "none")
        /\ StartTurn(t, s, "resume")
        /\ NoteRace(s, Overlaps(t, s))
        /\ FollowedUp(p)
        /\ UNCHANGED <<message, opening, clock, crashes, orphaned>>

(* Not waiting, proposals left, a deleted session, or no LLM client (the   *)
(* provider is not ACTIVE, its key cannot be decrypted): no turn starts.   *)
ResumeSkipped(p) ==
    /\ proposal[p].followUp = "resume"
    /\ FollowedUp(p)
    /\ UNCHANGED <<row, message, turn, opening, clock, crashes, orphaned, raced>>

-----------------------------------------------------------------------------
(* The process is killed: tasks and requests vanish, the tables stay.      *)
Crash ==
    /\ crashes < MaxCrashes
    /\ crashes' = crashes + 1
    /\ turn' = [t \in Turns |-> NoTurn]
    /\ opening' = [s \in Sessions |-> NoOpening]
    /\ message' = [m \in Messages |->
                     IF message[m].stage = "read" THEN Settled(m, "refused", 0) ELSE message[m]]
    /\ proposal' = [p \in Proposals |-> Answered(p)]
    /\ orphaned' = orphaned \cup {s \in Sessions : Processing(s)}
    /\ UNCHANGED <<row, clock, raced>>

-----------------------------------------------------------------------------
Init ==
    /\ row = [s \in Sessions |-> AbsentRow]
    /\ message = [m \in Messages |-> Unsent]
    /\ proposal = [p \in Proposals |-> Unused]
    /\ turn = [t \in Turns |-> NoTurn]
    /\ opening = [s \in Sessions |-> NoOpening]
    /\ clock = 0
    /\ crashes = 0
    /\ orphaned = {}
    /\ raced = {}

SessionStep(s) ==
    \/ CreateSession(s)
    \/ \E h \in Sessions : MeetHolder(s, h)
    \/ ExpireHolder(s)
    \/ RetryCreate(s)
    \/ RefuseCreate(s)
    \/ DeleteSession(s)
    \/ GoIdle(s)
    \/ ExpireIdle(s)

MessageStep(m) ==
    \/ \E s \in Sessions : Send(m, s)
    \/ QueueMessage(m)
    \/ \E t \in Turns : AcceptMessage(m, t)
    \/ RefuseMessage(m)

TurnStep(t) ==
    \/ BeginFresh(t)
    \/ BeginReplay(t)
    \/ AskHuman(t)
    \/ StreamReply(t)
    \/ \E p \in Proposals : ProposeArtifact(t, p)
    \/ EndTurn(t)
    \/ HitCap(t)
    \/ FailTurn(t)
    \/ ReadOutcome(t)
    \/ FinishTurn(t)
    \/ DropTurn(t)
    \/ \E m \in Messages : PickQueued(t, m)
    \/ LeaveQueue(t)
    \/ StartQueued(t)
    \/ StartQueuedFails(t)

ProposalStep(p) ==
    \/ Approve(p)
    \/ ApproveRebases(p)
    \/ Reject(p)
    \/ RequestEdit(p)
    \/ CompleteSession(p)
    \/ \E t \in Turns : ResumeTurn(p, t)
    \/ ResumeSkipped(p)

Next ==
    \/ \E s \in Sessions : SessionStep(s)
    \/ \E m \in Messages : MessageStep(m)
    \/ \E t \in Turns : TurnStep(t)
    \/ \E p \in Proposals : ProposalStep(p)
    \/ Crash

Spec == Init /\ [][Next]_vars

(* Fairness.  asyncio runs every task that can run, wait_for stops a graph *)
(* after agent_turn_timeout_seconds, and a request that was received is    *)
(* answered.  Time passes, so an untouched session grows idle; the open    *)
(* event stream of the workbench polls it and finds it idle.               *)
RequestStep(m) ==
    \/ QueueMessage(m)
    \/ \E t \in Turns : AcceptMessage(m, t)
    \/ RefuseMessage(m)

FollowUpStep(p) ==
    \/ CompleteSession(p)
    \/ \E t \in Turns : ResumeTurn(p, t)
    \/ ResumeSkipped(p)

Fairness ==
    /\ \A t \in Turns : WF_vars(TurnStep(t))
    /\ \A m \in Messages : WF_vars(RequestStep(m))
    /\ \A p \in Proposals : WF_vars(FollowUpStep(p))
    /\ \A s \in Sessions : WF_vars(GoIdle(s)) /\ WF_vars(ExpireIdle(s))

FairSpec == Spec /\ Fairness

-----------------------------------------------------------------------------
(* Safety *)

(* The type invariant.                                                     *)
TypeOK ==
    /\ row \in [Sessions -> Row]
    /\ message \in [Messages -> MessageRec]
    /\ proposal \in [Proposals -> ProposalRec]
    /\ turn \in [Turns -> TurnRec]
    /\ opening \in [Sessions -> OpeningRec]
    /\ clock \in Nat
    /\ crashes \in 0..MaxCrashes
    /\ orphaned \in SUBSET Sessions
    /\ raced \in SUBSET Sessions

(* At most one session of the user holds the slot, whatever requests,      *)
(* turns, queue drains and expiries are in flight.                         *)
OneHolder ==
    \A s, o \in Sessions :
        row[s].status \in Holding /\ row[o].status \in Holding => s = o

(* A turn that has not yet recorded what became of it.                     *)
Unsettled(t, s) ==
    /\ turn[t].session = s
    /\ turn[t].pc \in {"starting", "running", "ended", "capped", "failed"}

(* A session whose UI says "processing" (and which queues every message)   *)
(* has a turn that will still record an outcome, unless a kill took it, or *)
(* a failed turn cleared the interrupt of the turn after it.               *)
ProcessingHasTurn ==
    \A s \in Sessions :
        Processing(s) => s \in orphaned \/ \E t \in Turns : Unsettled(t, s)

(* Without a race, a TURN_FAILED session has no interrupt, whatever was    *)
(* written between the read and the write of the failing task:             *)
(* handle_user_message would otherwise queue behind a proposal of the      *)
(* failed turn.  Two overlapped tasks do leave one.                        *)
TurnFailedIsClear ==
    \A s \in Sessions \ raced :
        row[s].status = "turn_failed" => row[s].interrupt = "none"

(* Without a race, an open proposal is one the human is asked to decide:   *)
(* its session waits for the approval, or has expired, or is gone.         *)
OpenIsAwaited ==
    \A p \in Proposals :
        LET s == proposal[p].session
        IN  proposal[p].verdict = "proposed" /\ s \notin raced =>
               \/ row[s].status = "waiting" /\ row[s].interrupt = "propose"
               \/ row[s].status \in {"expired", "deleted"}

(* Without a race, the agent never works on while a proposal is undecided. *)
DecidedBeforeWork ==
    \A s \in Sessions, t \in Turns : Working(t, s) /\ s \notin raced => Open(s) = {}

(* Without a race, no message starts two turns.                            *)
StartedOnce ==
    \A m \in Messages :
        message[m].stage # "unsent" /\ message[m].session \notin raced => message[m].copies <= 1

(* An approval is never half done: when every proposal of a session was    *)
(* approved, the session does not stay waiting for approval, unless the    *)
(* process was killed between the two transactions of the request.         *)
Proposed(s) == {p \in Proposals : proposal[p].session = s}

ApprovedIsReleased ==
    \A s \in Sessions :
        /\ row[s].status = "waiting" /\ row[s].interrupt = "propose"
        /\ \A p \in Proposed(s) :
               proposal[p].verdict = "executed" /\ proposal[p].followUp = "none"
        /\ s \notin raced
        => crashes > 0

(* A message queued behind a turn that fails is drained: it waits only     *)
(* while a task that will look at the queue is alive.  A kill, a race, or  *)
(* another session in the slot may leave it behind.                        *)
FailedTurnDrains ==
    \A s \in Sessions :
        /\ row[s].status = "turn_failed"
        /\ Queued(s) # {}
        /\ crashes = 0 /\ s \notin raced
        /\ \A o \in Sessions \ {s} : row[o].status = "absent"
        => \E t \in Turns : Live(t, s)

-----------------------------------------------------------------------------
(* Action properties *)

(* Without a race, a session that has given its slot away stays that way:   *)
(* an expired one for good, and a completed one comes back only with a      *)
(* message that had been queued, which leaves the queue in the same step.   *)
EndedStaysEnded ==
    [][\A s \in Sessions :
          row[s].status \in Ended /\ s \notin raced' =>
             \/ row'[s].status \in {row[s].status, "deleted"}
             \/ /\ row[s].status = "completed"
                /\ \E m \in Queued(s) : message'[m].stage = "delivered"]_vars

-----------------------------------------------------------------------------
(* Liveness *)

(* No session is shown as processing for ever: its turn settles, or, when  *)
(* a kill took the turn, the session is expired.                           *)
ProcessingEnds == \A s \in Sessions : Processing(s) ~> ~Processing(s)

-----------------------------------------------------------------------------
(* Refinement *)

PhaseOf(st) ==
    CASE st \in Holding       -> "holding"
      [] st \in Ended         -> "closed"
      [] st \in Gone          -> "out"
      [] st = "turn_failed"   -> "resting"

Ledger == INSTANCE ApprovalLedger WITH
    phase   <- [s \in Sessions |-> PhaseOf(row[s].status)],
    verdict <- [p \in Proposals |-> proposal[p].verdict],
    owner   <- [p \in Proposals |-> proposal[p].session]

(* Every behaviour keeps the promises of the ledger.                       *)
KeepsLedger == Ledger!Spec

-----------------------------------------------------------------------------
(* What comments and tests of the code say, and the code does not do *)

(* agent_service.py, 1135: a turn stopped by the cap is failed loudly, not *)
(* labelled COMPLETED.                                                     *)
CapIsNotCompletion ==
    [][\A t \in Turns :
          turn[t].pc = "capped" /\ turn'[t].pc = "finished" =>
             row[turn[t].session].status = "completed"
                \/ row'[turn[t].session].status # "completed"]_vars

=============================================================================
