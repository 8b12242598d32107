------------------------- MODULE AgentSessionProofs -------------------------
(***************************************************************************)
(* Proofs about AgentSession, for any number of sessions, messages,        *)
(* proposals, concurrent tasks and kills.                                  *)
(***************************************************************************)
EXTENDS AgentSession, TLAPS

(* A message a task may hold on to: it was sent.                           *)
Picked(m) == m \in Messages /\ message[m].stage # "unsent"

(* Every link from one part of the state to another leads somewhere: what  *)
(* has a stage, a verdict or a program counter belongs to a session.       *)
Linked ==
    /\ \A m \in Messages : message[m].stage # "unsent" => message[m].session \in Sessions
    /\ \A p \in Proposals : proposal[p].verdict # "unused" => proposal[p].session \in Sessions
    /\ \A p \in Proposals : proposal[p].followUp # "none" => proposal[p].verdict # "unused"
    /\ \A t \in Turns : turn[t].pc # "idle" => turn[t].session \in Sessions
    /\ \A t \in Turns : turn[t].pc = "draining" => Picked(turn[t].picked)
    /\ \A s \in Sessions : opening[s].step # "none" => opening[s].holder \in Sessions

Typed == TypeOK /\ Linked

-----------------------------------------------------------------------------
(* What the operators that write a variable do to its type *)

LEMMA MarkType ==
    ASSUME row \in [Sessions -> Row], NEW s \in Sessions,
           NEW st \in Status, NEW intr \in Interrupt, NEW parked \in Interrupt,
           Mark(s, st, intr, parked)
    PROVE  row' \in [Sessions -> Row]
  BY DEF Mark, Row

LEMMA WriteType ==
    ASSUME row \in [Sessions -> Row], NEW s \in Sessions,
           NEW st \in Status, NEW intr \in Interrupt, Write(s, st, intr)
    PROVE  row' \in [Sessions -> Row]
  BY MarkType DEF Write, Row

LEMMA StepType ==
    ASSUME turn \in [Turns -> TurnRec], NEW t \in Turns, NEW pc \in TurnPcs, Step(t, pc)
    PROVE  /\ turn' \in [Turns -> TurnRec]
           /\ \A u \in Turns : /\ turn'[u].session = turn[u].session
                               /\ turn'[u].picked = turn[u].picked
                               /\ turn'[u].pc = IF u = t THEN pc ELSE turn[u].pc
  BY DEF Step, TurnRec

LEMMA SeeingType ==
    ASSUME turn \in [Turns -> TurnRec], NEW t \in Turns, NEW pc \in TurnPcs, NEW seen \in Row,
           StepSeeing(t, pc, seen)
    PROVE  /\ turn' \in [Turns -> TurnRec]
           /\ \A u \in Turns : /\ turn'[u].session = turn[u].session
                               /\ turn'[u].picked = turn[u].picked
                               /\ turn'[u].pc = IF u = t THEN pc ELSE turn[u].pc
  BY DEF StepSeeing, TurnRec

LEMMA SettleType ==
    ASSUME message \in [Messages -> MessageRec], NEW m \in Messages,
           NEW stage \in Stages, NEW copies \in Nat, AbsentRow \in Row, Settle(m, stage, copies)
    PROVE  /\ message' \in [Messages -> MessageRec]
           /\ \A n \in Messages : /\ message'[n].session = message[n].session
                                  /\ message'[n].stage = IF n = m THEN stage ELSE message[n].stage
  BY DEF Settle, Settled, MessageRec

LEMMA FollowedUpType ==
    ASSUME proposal \in [Proposals -> ProposalRec], NEW p \in Proposals, FollowedUp(p)
    PROVE  /\ proposal' \in [Proposals -> ProposalRec]
           /\ \A q \in Proposals : /\ proposal'[q].session = proposal[q].session
                                   /\ proposal'[q].verdict = proposal[q].verdict
                                   /\ proposal'[q].followUp =
                                        IF q = p THEN "none" ELSE proposal[q].followUp
  BY DEF FollowedUp, Answered, ProposalRec, FollowUps

LEMMA AbsentRowType == AbsentRow \in Row
  BY DEF AbsentRow, Row, Status, Gone, Interrupt

LEMMA NoTurnType == NoTurn \in TurnRec
  BY AbsentRowType DEF NoTurn, TurnRec, TurnPcs

LEMMA NoOpeningType == NoOpening \in OpeningRec
  BY AbsentRowType DEF NoOpening, OpeningRec

(* A status written by a tool, a node or a finished turn is a status.      *)
LEMMA PauseStatusType == ASSUME NEW kind PROVE PauseStatus(kind) \in Holding
  BY DEF PauseStatus, Holding

LEMMA OutcomeType ==
    ASSUME NEW pc, NEW st \in Status, NEW intr \in Interrupt
    PROVE  Outcome(pc, st) \in Status /\ OutcomeInterrupt(pc, st, intr) \in Interrupt
  BY DEF Outcome, OutcomeInterrupt, Status, Holding, Ended, Interrupt

(* Every step keeps the types and the links.                               *)
LEMMA TypeStep == ASSUME Typed, [Next]_vars PROVE Typed'
  <1> USE AbsentRowType DEF Typed, TypeOK, Linked, Picked
  <1> USE DEF Status, Holding, Ended, Gone, Interrupt, Interrupts
  <1>1. ASSUME NEW s \in Sessions, CreateSession(s) PROVE Typed'
    BY <1>1, MarkType DEF CreateSession
  <1>2. ASSUME NEW s \in Sessions, NEW h \in Sessions, MeetHolder(s, h) PROVE Typed'
    BY <1>2 DEF MeetHolder, OpeningRec
  <1>3. ASSUME NEW s \in Sessions, ExpireHolder(s) PROVE Typed'
    BY <1>3, WriteType DEF ExpireHolder, OpeningRec, Row, NoteRace
  <1>4. ASSUME NEW s \in Sessions, RetryCreate(s) PROVE Typed'
    BY <1>4, MarkType, NoOpeningType DEF RetryCreate, NoOpening
  <1>5. ASSUME NEW s \in Sessions, RefuseCreate(s) PROVE Typed'
    BY <1>5, NoOpeningType DEF RefuseCreate, NoOpening
  <1>6. ASSUME NEW s \in Sessions, DeleteSession(s) PROVE Typed'
    BY <1>6, MarkType DEF DeleteSession
  <1>7. ASSUME NEW s \in Sessions, GoIdle(s) PROVE Typed'
    BY <1>7 DEF GoIdle, Row
  <1>8. ASSUME NEW s \in Sessions, ExpireIdle(s) PROVE Typed'
    BY <1>8, WriteType DEF ExpireIdle
  <1>9. ASSUME NEW m \in Messages, NEW s \in Sessions, Send(m, s) PROVE Typed'
    BY <1>9 DEF Send, MessageRec, Stages
  <1>10. ASSUME NEW m \in Messages, QueueMessage(m) PROVE Typed'
    BY <1>10, SettleType, AbsentRowType DEF QueueMessage, Stages, NoteRace
  <1>11. ASSUME NEW m \in Messages, NEW t \in Turns, AcceptMessage(m, t) PROVE Typed'
    <2>1. row' \in [Sessions -> Row]
      BY <1>11, WriteType DEF AcceptMessage, Row, MessageRec
    <2>2. /\ message' \in [Messages -> MessageRec]
          /\ \A n \in Messages : message'[n].stage # "unsent" => message'[n].session \in Sessions
          /\ \A n \in Messages : message[n].stage # "unsent" => message'[n].stage # "unsent"
      BY <1>11, SettleType DEF AcceptMessage, Stages
    <2>3. /\ turn' \in [Turns -> TurnRec]
          /\ \A u \in Turns : /\ turn'[u].pc # "idle" => turn'[u].session \in Sessions
                              /\ turn'[u].pc = "draining" => Picked(turn'[u].picked)
      BY <1>11 DEF AcceptMessage, StartTurn, TurnRec, TurnPcs
    <2>4. raced' \in SUBSET Sessions
      BY <1>11 DEF AcceptMessage, NoteRace
    <2> QED
      BY <1>11, <2>1, <2>2, <2>3, <2>4 DEF AcceptMessage
  <1>12. ASSUME NEW m \in Messages, RefuseMessage(m) PROVE Typed'
    BY <1>12, SettleType, AbsentRowType DEF RefuseMessage, Stages
  <1>13. ASSUME NEW t \in Turns, BeginFresh(t) PROVE Typed'
    <2>1. row' \in [Sessions -> Row]
      BY <1>13, MarkType DEF BeginFresh, Row
    <2> QED
      BY <1>13, <2>1, StepType DEF BeginFresh, TurnPcs
  <1>14. ASSUME NEW t \in Turns, BeginReplay(t) PROVE Typed'
    <2>1. row' \in [Sessions -> Row]
      <3>1. row[turn[t].session].parked \in Interrupt
        BY <1>14 DEF BeginReplay, Row
      <3> QED
        BY <1>14, <3>1, MarkType, PauseStatusType DEF BeginReplay
    <2> QED
      BY <1>14, <2>1, StepType DEF BeginReplay, TurnPcs
  <1>15. ASSUME NEW t \in Turns, AskHuman(t) PROVE Typed'
    BY <1>15, MarkType, StepType, PauseStatusType DEF AskHuman, Pause, TurnPcs
  <1>16. ASSUME NEW t \in Turns, StreamReply(t) PROVE Typed'
    BY <1>16, MarkType, StepType, PauseStatusType, SMTT(20) DEF StreamReply, Pause, TurnPcs
  <1>17. ASSUME NEW t \in Turns, NEW p \in Proposals, ProposeArtifact(t, p) PROVE Typed'
    <2>1. row' \in [Sessions -> Row]
      BY <1>17, MarkType, PauseStatusType DEF ProposeArtifact, Pause
    <2>2. /\ turn' \in [Turns -> TurnRec]
          /\ \A u \in Turns : /\ turn'[u].pc # "idle" => turn'[u].session \in Sessions
                              /\ turn'[u].pc = "draining" => Picked(turn'[u].picked)
      BY <1>17, StepType DEF ProposeArtifact, Pause, TurnPcs
    <2>3. /\ proposal' \in [Proposals -> ProposalRec]
          /\ \A q \in Proposals : proposal'[q].verdict # "unused" => proposal'[q].session \in Sessions
          /\ \A q \in Proposals : proposal'[q].followUp # "none" => proposal'[q].verdict # "unused"
      BY <1>17 DEF ProposeArtifact, Pause, ProposalRec, Verdicts, FollowUps
    <2> QED
      BY <1>17, <2>1, <2>2, <2>3 DEF ProposeArtifact, Pause
  <1>18. ASSUME NEW t \in Turns, EndTurn(t) PROVE Typed'
    BY <1>18, StepType DEF EndTurn, TurnPcs
  <1>19. ASSUME NEW t \in Turns, HitCap(t) PROVE Typed'
    BY <1>19, StepType DEF HitCap, TurnPcs
  <1>20. ASSUME NEW t \in Turns, FailTurn(t) PROVE Typed'
    BY <1>20, SeeingType, AbsentRowType DEF FailTurn, TurnPcs
  <1>21. ASSUME NEW t \in Turns, FinishTurn(t) PROVE Typed'
    <2> DEFINE s == turn[t].session
    <2>1. s \in Sessions
      BY <1>21 DEF FinishTurn
    <2>2. StatusLeft(t) \in Status
      BY OutcomeType DEF StatusLeft, TurnRec, Row
    <2>3. row' \in [Sessions -> Row]
      <3>1. "none" \in Interrupt
        BY DEF Interrupt
      <3> QED
        BY <1>21, <2>1, <2>2, <3>1, WriteType DEF FinishTurn, Row
    <2>4. orphaned' \in SUBSET Sessions
      BY <1>21, <2>1 DEF FinishTurn
    <2> QED
      BY <1>21, <2>3, <2>4, SeeingType, AbsentRowType DEF FinishTurn, TurnPcs
  <1>22. ASSUME NEW t \in Turns, ReadOutcome(t) PROVE Typed'
    <2>1. turn[t].pc \in TurnPcs /\ turn[t].session \in Sessions /\ "finished" \in TurnPcs
      BY <1>22 DEF ReadOutcome, TurnRec, TurnPcs
    <2>2. Step(t, "finished") \/ StepSeeing(t, turn[t].pc, row[turn[t].session])
      BY <1>22 DEF ReadOutcome
    <2>3. /\ turn' \in [Turns -> TurnRec]
          /\ \A u \in Turns : /\ turn'[u].session = turn[u].session
                              /\ turn'[u].picked = turn[u].picked
                              /\ turn'[u].pc \in {turn[u].pc, "finished"}
                              /\ turn[u].pc = "idle" => turn'[u].pc = "idle"
      BY <1>22, <2>1, <2>2, StepType, SeeingType DEF ReadOutcome
    <2> QED
      BY <1>22, <2>3 DEF ReadOutcome
  <1>23. ASSUME NEW t \in Turns, DropTurn(t) PROVE Typed'
    BY <1>23, NoTurnType DEF DropTurn, NoTurn
  <1>24. ASSUME NEW t \in Turns, NEW m \in Messages, PickQueued(t, m) PROVE Typed'
    BY <1>24 DEF PickQueued, TurnRec, TurnPcs, Oldest, Queued
  <1>25. ASSUME NEW t \in Turns, LeaveQueue(t) PROVE Typed'
    BY <1>25, NoTurnType DEF LeaveQueue, NoTurn
  <1>26. ASSUME NEW t \in Turns, StartQueued(t) PROVE Typed'
    <2>1. row' \in [Sessions -> Row]
      BY <1>26, WriteType DEF StartQueued, Row
    <2>2. /\ message' \in [Messages -> MessageRec]
          /\ \A n \in Messages : message'[n].session = message[n].session
          /\ \A n \in Messages : message'[n].stage # "unsent" <=> message[n].stage # "unsent"
      BY <1>26, SettleType, SMTT(20) DEF StartQueued, Stages, MessageRec
    <2>3. /\ turn' \in [Turns -> TurnRec]
          /\ \A u \in Turns : /\ turn'[u].pc # "idle" => turn'[u].session \in Sessions
                              /\ turn'[u].pc = "draining" => Picked(turn'[u].picked)
      BY <1>26 DEF StartQueued, StartTurn, TurnRec, TurnPcs
    <2>4. raced' \in SUBSET Sessions
      BY <1>26 DEF StartQueued, NoteRace
    <2> QED
      BY <1>26, <2>1, <2>2, <2>3, <2>4 DEF StartQueued
  <1>27. ASSUME NEW t \in Turns, StartQueuedFails(t) PROVE Typed'
    BY <1>27, NoTurnType DEF StartQueuedFails, NoTurn
  <1>28. ASSUME NEW p \in Proposals, Approve(p) PROVE Typed'
    BY <1>28 DEF Approve, Decide, ProposalRec, Verdicts, FollowUps
  <1>29. ASSUME NEW p \in Proposals, ApproveRebases(p) PROVE Typed'
    BY <1>29 DEF ApproveRebases, Decide, ProposalRec, Verdicts, FollowUps
  <1>30. ASSUME NEW p \in Proposals, Reject(p) PROVE Typed'
    BY <1>30 DEF Reject, Decide, ProposalRec, Verdicts, FollowUps
  <1>31. ASSUME NEW p \in Proposals, RequestEdit(p) PROVE Typed'
    BY <1>31 DEF RequestEdit, Decide, ProposalRec, Verdicts, FollowUps
  <1>32. ASSUME NEW p \in Proposals, CompleteSession(p) PROVE Typed'
    <2>1. row' \in [Sessions -> Row]
      BY <1>32, WriteType DEF CompleteSession
    <2> QED
      BY <1>32, <2>1, FollowedUpType DEF CompleteSession
  <1>33. ASSUME NEW p \in Proposals, NEW t \in Turns, ResumeTurn(p, t) PROVE Typed'
    <2>1. row' \in [Sessions -> Row]
      BY <1>33, WriteType DEF ResumeTurn
    <2>2. /\ turn' \in [Turns -> TurnRec]
          /\ \A u \in Turns : /\ turn'[u].pc # "idle" => turn'[u].session \in Sessions
                              /\ turn'[u].pc = "draining" => Picked(turn'[u].picked)
      BY <1>33 DEF ResumeTurn, StartTurn, TurnRec, TurnPcs
    <2>3. raced' \in SUBSET Sessions
      BY <1>33 DEF ResumeTurn, NoteRace
    <2> QED
      BY <1>33, <2>1, <2>2, <2>3, FollowedUpType DEF ResumeTurn
  <1>34. ASSUME NEW p \in Proposals, ResumeSkipped(p) PROVE Typed'
    BY <1>34, FollowedUpType DEF ResumeSkipped
  <1>35. ASSUME Crash PROVE Typed'
    <2>1. /\ message' \in [Messages -> MessageRec]
          /\ \A n \in Messages : message'[n].stage # "unsent" => message'[n].session \in Sessions
      BY <1>35 DEF Crash, Settled, MessageRec, Stages
    <2>2. /\ proposal' \in [Proposals -> ProposalRec]
          /\ \A q \in Proposals : /\ proposal'[q].session = proposal[q].session
                                  /\ proposal'[q].verdict = proposal[q].verdict
                                  /\ proposal'[q].followUp = "none"
      BY <1>35 DEF Crash, Answered, ProposalRec, FollowUps
    <2>3. /\ turn' = [t \in Turns |-> NoTurn]
          /\ NoTurn \in TurnRec /\ NoTurn.pc = "idle"
      BY <1>35, NoTurnType DEF Crash, NoTurn
    <2>4. /\ opening' = [s \in Sessions |-> NoOpening]
          /\ NoOpening \in OpeningRec /\ NoOpening.step = "none"
      BY <1>35, NoOpeningType DEF Crash, NoOpening
    <2>5. crashes' \in 0..MaxCrashes /\ orphaned' \in SUBSET Sessions
      BY <1>35, MaxCrashesAssumption DEF Crash
    <2> QED
      BY <1>35, <2>1, <2>2, <2>3, <2>4, <2>5 DEF Crash
  <1>36. ASSUME UNCHANGED vars PROVE Typed'
    BY <1>36 DEF vars
  <1> QED
    BY <1>1, <1>2, <1>3, <1>4, <1>5, <1>6, <1>7, <1>8, <1>9, <1>10, <1>11, <1>12,
       <1>13, <1>14, <1>15, <1>16, <1>17, <1>18, <1>19, <1>20, <1>21, <1>22, <1>23,
       <1>24, <1>25, <1>26, <1>27, <1>28, <1>29, <1>30, <1>31, <1>32, <1>33, <1>34,
       <1>35, <1>36
    DEF Next, SessionStep, MessageStep, TurnStep, ProposalStep

-----------------------------------------------------------------------------
(* The slot *)

(* The step writes the row of s alone; if s holds the slot afterwards, the *)
(* index let it in.                                                        *)
Moves(s) ==
    /\ \A o \in Sessions \ {s} : row'[o] = row[o]
    /\ row'[s].status \in Holding => Admits(s)

LEMMA MarkMoves ==
    ASSUME row \in [Sessions -> Row], NEW s \in Sessions,
           NEW st, NEW intr, NEW parked, Mark(s, st, intr, parked),
           st \in Holding => Admits(s)
    PROVE  Moves(s)
  BY DEF Mark, Moves

LEMMA WriteMoves ==
    ASSUME row \in [Sessions -> Row], NEW s \in Sessions,
           NEW st, NEW intr, Write(s, st, intr),
           st \in Holding => Admits(s)
    PROVE  Moves(s)
  BY MarkMoves DEF Write

(* Every step leaves the table alone or moves one session.                 *)
LEMMA RowStep ==
    ASSUME Typed, [Next]_vars
    PROVE  UNCHANGED row \/ \E s \in Sessions : Moves(s)
  <1> USE DEF Typed, TypeOK, Linked, Admits
  <1>1. ASSUME NEW s \in Sessions, CreateSession(s) PROVE \E o \in Sessions : Moves(o)
    BY <1>1, MarkMoves DEF CreateSession, Holding
  <1>2. ASSUME NEW s \in Sessions, ExpireHolder(s) PROVE \E o \in Sessions : Moves(o)
    BY <1>2, WriteMoves DEF ExpireHolder, Holding
  <1>3. ASSUME NEW s \in Sessions, RetryCreate(s) PROVE \E o \in Sessions : Moves(o)
    BY <1>3, MarkMoves DEF RetryCreate, Holding
  <1>4. ASSUME NEW s \in Sessions, DeleteSession(s) PROVE \E o \in Sessions : Moves(o)
    BY <1>4, MarkMoves DEF DeleteSession, Holding
  <1>5. ASSUME NEW s \in Sessions, GoIdle(s) PROVE \E o \in Sessions : Moves(o)
    BY <1>5 DEF GoIdle, Moves, Holding
  <1>6. ASSUME NEW s \in Sessions, ExpireIdle(s) PROVE \E o \in Sessions : Moves(o)
    BY <1>6, WriteMoves DEF ExpireIdle, Holding
  <1>7. ASSUME NEW m \in Messages, NEW t \in Turns, AcceptMessage(m, t)
        PROVE \E o \in Sessions : Moves(o)
    BY <1>7, WriteMoves DEF AcceptMessage, Holding
  <1>8. ASSUME NEW t \in Turns, BeginFresh(t) PROVE \E o \in Sessions : Moves(o)
    BY <1>8, MarkMoves DEF BeginFresh
  <1>9. ASSUME NEW t \in Turns, BeginReplay(t) PROVE \E o \in Sessions : Moves(o)
    BY <1>9, MarkMoves, PauseStatusType DEF BeginReplay, Holding
  <1>10. ASSUME NEW t \in Turns, AskHuman(t) PROVE \E o \in Sessions : Moves(o)
    BY <1>10, MarkMoves, PauseStatusType DEF AskHuman, Pause, Holding
  <1>11. ASSUME NEW t \in Turns, StreamReply(t) PROVE \E o \in Sessions : Moves(o)
    BY <1>11, MarkMoves, PauseStatusType DEF StreamReply, Pause, Holding
  <1>12. ASSUME NEW t \in Turns, NEW p \in Proposals, ProposeArtifact(t, p)
        PROVE \E o \in Sessions : Moves(o)
    BY <1>12, MarkMoves, PauseStatusType DEF ProposeArtifact, Pause, Holding
  <1>13. ASSUME NEW t \in Turns, FinishTurn(t)
        PROVE \E o \in Sessions : Moves(o)
    <2>1. turn[t].session \in Sessions
      BY <1>13 DEF FinishTurn
    <2>2. StatusLeft(t) # turn[t].seen.status => StatusLeft(t) \notin Holding
      BY DEF StatusLeft, Outcome, Holding
    <2> QED
      BY <1>13, <2>1, <2>2, WriteMoves DEF FinishTurn
  <1>14. ASSUME NEW t \in Turns, StartQueued(t) PROVE \E o \in Sessions : Moves(o)
    BY <1>14, WriteMoves DEF StartQueued
  <1>15. ASSUME NEW p \in Proposals, CompleteSession(p)
        PROVE UNCHANGED row \/ \E o \in Sessions : Moves(o)
    BY <1>15, WriteMoves DEF CompleteSession, Holding
  <1>16. ASSUME NEW p \in Proposals, NEW t \in Turns, ResumeTurn(p, t)
        PROVE \E o \in Sessions : Moves(o)
    BY <1>16, WriteMoves DEF ResumeTurn, Holding
  <1> QED
    BY <1>1, <1>2, <1>3, <1>4, <1>5, <1>6, <1>7, <1>8, <1>9, <1>10, <1>11, <1>12,
       <1>13, <1>14, <1>15, <1>16
    DEF Next, SessionStep, MessageStep, TurnStep, ProposalStep, vars,
        MeetHolder, RefuseCreate, Send, QueueMessage, RefuseMessage, EndTurn,
        HitCap, FailTurn, ReadOutcome, DropTurn, PickQueued, LeaveQueue, StartQueuedFails,
        Approve, ApproveRebases, Reject, RequestEdit, ResumeSkipped, Crash, Decide

LEMMA OneHolderStep ==
    ASSUME OneHolder, UNCHANGED row \/ \E s \in Sessions : Moves(s)
    PROVE  OneHolder'
  <1>1. CASE UNCHANGED row
    BY <1>1 DEF OneHolder
  <1>2. ASSUME NEW s \in Sessions, Moves(s) PROVE OneHolder'
    BY <1>2 DEF OneHolder, Moves, Admits
  <1> QED
    BY <1>1, <1>2

(* The inductive invariant of the slot.                                    *)
SlotInv == Typed /\ OneHolder

LEMMA InitTyped == Init => Typed
  BY MaxCrashesAssumption, AbsentRowType, NoTurnType, NoOpeningType
  DEF Init, Typed, TypeOK, Linked, Picked, Unsent, Unused, NoTurn, NoOpening,
      MessageRec, ProposalRec, Stages, Verdicts, FollowUps

LEMMA InitSlot == Init => SlotInv
  BY InitTyped DEF Init, SlotInv, OneHolder, AbsentRow, Holding

LEMMA SlotStep == SlotInv /\ [Next]_vars => SlotInv'
  BY TypeStep, RowStep, OneHolderStep DEF SlotInv

LEMMA SlotInvariant == Spec => []SlotInv
  BY InitSlot, SlotStep, PTL DEF Spec

(* The tables keep their types whatever requests, turns, kills and stale   *)
(* writes interleave: in particular no request loses its message and no    *)
(* task its session.                                                       *)
THEOREM TypeCorrect == Spec => []TypeOK
  <1>1. SlotInv => TypeOK
    BY DEF SlotInv, Typed
  <1> QED
    BY <1>1, SlotInvariant, PTL

(* The partial unique index keeps the slot to one session, although every  *)
(* request, turn and queue drain writes the status it computed from an     *)
(* earlier read.                                                           *)
THEOREM SlotIsExclusive == Spec => []OneHolder
  <1>1. SlotInv => OneHolder
    BY DEF SlotInv
  <1> QED
    BY <1>1, SlotInvariant, PTL

-----------------------------------------------------------------------------
(* A processing session has a turn *)

LEMMA MarkEffect ==
    ASSUME row \in [Sessions -> Row], NEW s \in Sessions,
           NEW st, NEW intr, NEW parked, Mark(s, st, intr, parked)
    PROVE  /\ row'[s].status = st /\ row'[s].interrupt = intr
           /\ \A o \in Sessions : o # s => row'[o] = row[o]
  BY DEF Mark

LEMMA WriteEffect ==
    ASSUME row \in [Sessions -> Row], NEW s \in Sessions,
           NEW st, NEW intr, Write(s, st, intr)
    PROVE  /\ row'[s].status = st /\ row'[s].interrupt = intr
           /\ \A o \in Sessions : o # s => row'[o] = row[o]
  BY MarkEffect DEF Write

LEMMA StartEffect ==
    ASSUME turn \in [Turns -> TurnRec], NEW t \in Turns, NEW s, NEW input, StartTurn(t, s, input)
    PROVE  /\ turn'[t].pc = "starting" /\ turn'[t].session = s
           /\ \A u \in Turns : u # t => turn'[u] = turn[u]
  BY DEF StartTurn

(* A turn that marks its session and is at work afterwards, or has paused.  *)
LEMMA MarkedByTurn ==
    ASSUME Typed, ProcessingHasTurn, NEW t \in Turns, NEW pc \in TurnPcs,
           NEW st, NEW intr, NEW parked, turn[t].session \in Sessions,
           Mark(turn[t].session, st, intr, parked), Step(t, pc), orphaned' = orphaned,
           pc = "running" \/ (st # "active" \/ intr = "stream")
    PROVE  ProcessingHasTurn'
  <1> PICK s \in Sessions : s = turn[t].session
    OBVIOUS
  <1>0. row \in [Sessions -> Row] /\ turn \in [Turns -> TurnRec]
    BY DEF Typed, TypeOK
  <1>1. /\ row'[s].status = st /\ row'[s].interrupt = intr
        /\ \A o \in Sessions : o # s => row'[o] = row[o]
    BY <1>0, MarkEffect
  <1>2. \A u \in Turns : /\ turn'[u].session = turn[u].session
                         /\ turn'[u].pc = IF u = t THEN pc ELSE turn[u].pc
    BY <1>0, StepType
  <1>3. \A o \in Sessions, u \in Turns : o # s /\ Unsettled(u, o) => Unsettled(u, o)'
    BY <1>2 DEF Unsettled
  <1>4. \A o \in Sessions : o # s => Processing(o)' = Processing(o)
    BY <1>1 DEF Processing
  <1>5. Processing(s)' => Unsettled(t, s)'
    BY <1>1, <1>2 DEF Processing, Unsettled
  <1>6. ASSUME NEW o \in Sessions, Processing(o)', o # s
        PROVE  o \in orphaned \/ \E u \in Turns : Unsettled(u, o)'
    <2>1. o \in orphaned \/ \E u \in Turns : Unsettled(u, o)
      BY <1>4, <1>6 DEF ProcessingHasTurn
    <2> QED
      BY <1>3, <1>6, <2>1
  <1>7. \A o \in Sessions :
           Processing(o)' => o \in orphaned' \/ \E u \in Turns : Unsettled(u, o)'
    BY <1>5, <1>6
  <1> QED
    BY <1>7 DEF ProcessingHasTurn

LEMMA ProcessingStep ==
    ASSUME Typed, ProcessingHasTurn, [Next]_vars
    PROVE  ProcessingHasTurn'
  <1> USE DEF Typed, TypeOK, Linked, ProcessingHasTurn, Processing, Unsettled
  <1>1. ASSUME NEW s \in Sessions, CreateSession(s) PROVE ProcessingHasTurn'
    BY <1>1, MarkEffect DEF CreateSession
  <1>2. ASSUME NEW s \in Sessions, ExpireHolder(s) PROVE ProcessingHasTurn'
    BY <1>2, WriteEffect DEF ExpireHolder
  <1>3. ASSUME NEW s \in Sessions, RetryCreate(s) PROVE ProcessingHasTurn'
    BY <1>3, MarkEffect DEF RetryCreate
  <1>4. ASSUME NEW s \in Sessions, DeleteSession(s) PROVE ProcessingHasTurn'
    BY <1>4, MarkEffect DEF DeleteSession
  <1>5. ASSUME NEW s \in Sessions, GoIdle(s) PROVE ProcessingHasTurn'
    BY <1>5 DEF GoIdle
  <1>6. ASSUME NEW s \in Sessions, ExpireIdle(s) PROVE ProcessingHasTurn'
    BY <1>6, WriteEffect DEF ExpireIdle
  <1>7. ASSUME NEW m \in Messages, NEW t \in Turns, AcceptMessage(m, t) PROVE ProcessingHasTurn'
    BY <1>7, WriteEffect, StartEffect DEF AcceptMessage
  <1>8. ASSUME NEW t \in Turns, BeginFresh(t) PROVE ProcessingHasTurn'
    BY <1>8, MarkedByTurn DEF BeginFresh, TurnPcs
  <1>9. ASSUME NEW t \in Turns, BeginReplay(t) PROVE ProcessingHasTurn'
    BY <1>9, MarkedByTurn DEF BeginReplay, TurnPcs
  <1>10. ASSUME NEW t \in Turns, AskHuman(t) PROVE ProcessingHasTurn'
    BY <1>10, MarkedByTurn DEF AskHuman, TurnPcs, Pause, PauseStatus
  <1>11. ASSUME NEW t \in Turns, StreamReply(t) PROVE ProcessingHasTurn'
    BY <1>11, MarkedByTurn DEF StreamReply, TurnPcs, Pause, PauseStatus
  <1>12. ASSUME NEW t \in Turns, NEW p \in Proposals, ProposeArtifact(t, p)
        PROVE ProcessingHasTurn'
    BY <1>12, MarkedByTurn DEF ProposeArtifact, TurnPcs, Pause, PauseStatus
  <1>13. ASSUME NEW t \in Turns, EndTurn(t) PROVE ProcessingHasTurn'
    BY <1>13, StepType DEF EndTurn, TurnPcs
  <1>14. ASSUME NEW t \in Turns, HitCap(t) PROVE ProcessingHasTurn'
    BY <1>14, StepType DEF HitCap, TurnPcs
  <1>15. ASSUME NEW t \in Turns, FailTurn(t) PROVE ProcessingHasTurn'
    BY <1>15, SeeingType, AbsentRowType DEF FailTurn, TurnPcs
  <1>16. ASSUME NEW t \in Turns, FinishTurn(t) PROVE ProcessingHasTurn'
    <2> DEFINE s == turn[t].session
    <2>1. s \in Sessions
      BY <1>16 DEF FinishTurn
    <2>2. /\ row'[s].status = IF StatusLeft(t) = turn[t].seen.status
                             THEN row[s].status ELSE StatusLeft(t)
          /\ \A o \in Sessions : o # s => row'[o] = row[o]
      BY <1>16, <2>1, WriteEffect DEF FinishTurn
    <2>3. row'[s].status = "active" => s \in orphaned'
      BY <1>16, <2>1, <2>2 DEF FinishTurn, StatusLeft, Outcome, Holding
    <2>4. \A u \in Turns : /\ turn'[u].session = turn[u].session
                           /\ turn'[u].pc = IF u = t THEN "finished" ELSE turn[u].pc
      BY <1>16, SeeingType, AbsentRowType DEF FinishTurn, TurnPcs
    <2>5. orphaned \subseteq orphaned'
      BY <1>16 DEF FinishTurn
    <2> QED
      BY <2>1, <2>2, <2>3, <2>4, <2>5
  <1>17. ASSUME NEW t \in Turns, ReadOutcome(t) PROVE ProcessingHasTurn'
    <2> DEFINE s == turn[t].session
    <2>1. s \in Sessions /\ turn[t].pc \in TurnPcs /\ "finished" \in TurnPcs /\ row[s] \in Row
      BY <1>17 DEF ReadOutcome, TurnPcs
    <2>2. CASE StepSeeing(t, turn[t].pc, row[s])
      BY <1>17, <2>1, <2>2, SeeingType DEF ReadOutcome
    <2>3. CASE Step(t, "finished") /\ Outcome(turn[t].pc, row[s].status) = row[s].status
      <3>1. row[s].status = "active" => turn[t].pc = "halted"
        BY <1>17, <2>3 DEF ReadOutcome, Outcome, Holding
      <3>2. \A u \in Turns : /\ turn'[u].session = turn[u].session
                             /\ turn'[u].pc = IF u = t THEN "finished" ELSE turn[u].pc
        BY <2>1, <2>3, StepType
      <3> QED
        BY <1>17, <2>1, <3>1, <3>2 DEF ReadOutcome
    <2> QED
      BY <1>17, <2>2, <2>3 DEF ReadOutcome
  <1>18. ASSUME NEW t \in Turns, DropTurn(t) PROVE ProcessingHasTurn'
    BY <1>18 DEF DropTurn, Exists, Gone, NoTurn
  <1>19. ASSUME NEW t \in Turns, NEW m \in Messages, PickQueued(t, m) PROVE ProcessingHasTurn'
    BY <1>19 DEF PickQueued
  <1>20. ASSUME NEW t \in Turns, LeaveQueue(t) PROVE ProcessingHasTurn'
    BY <1>20 DEF LeaveQueue, NoTurn
  <1>21. ASSUME NEW t \in Turns, StartQueued(t) PROVE ProcessingHasTurn'
    BY <1>21, WriteEffect, StartEffect DEF StartQueued
  <1>22. ASSUME NEW t \in Turns, StartQueuedFails(t) PROVE ProcessingHasTurn'
    BY <1>22 DEF StartQueuedFails, NoTurn
  <1>23. ASSUME NEW p \in Proposals, CompleteSession(p) PROVE ProcessingHasTurn'
    BY <1>23, WriteEffect DEF CompleteSession
  <1>24. ASSUME NEW p \in Proposals, NEW t \in Turns, ResumeTurn(p, t) PROVE ProcessingHasTurn'
    BY <1>24, WriteEffect, StartEffect DEF ResumeTurn
  <1>25. ASSUME Crash PROVE ProcessingHasTurn'
    BY <1>25 DEF Crash
  <1> QED
    BY <1>1, <1>2, <1>3, <1>4, <1>5, <1>6, <1>7, <1>8, <1>9, <1>10, <1>11, <1>12,
       <1>13, <1>14, <1>15, <1>16, <1>17, <1>18, <1>19, <1>20, <1>21, <1>22, <1>23,
       <1>24, <1>25, ZenonT(40)
    DEF Next, SessionStep, MessageStep, TurnStep, ProposalStep, vars,
        MeetHolder, RefuseCreate, Send, QueueMessage, RefuseMessage, Approve,
        ApproveRebases, Reject, RequestEdit, ResumeSkipped, Decide

LEMMA InitProcessing == Init => ProcessingHasTurn
  BY DEF Init, ProcessingHasTurn, Processing, AbsentRow

(* A session shown as processing has a turn that will settle it, or lost   *)
(* it to a kill: no path of requests, drains, failures and stale writes    *)
(* leaves it ACTIVE with nobody at work.                                   *)
THEOREM ProcessingIsAttended == Spec => []ProcessingHasTurn
  <1>1. SlotInv /\ ProcessingHasTurn /\ [Next]_vars => ProcessingHasTurn'
    BY ProcessingStep DEF SlotInv
  <1> QED
    BY <1>1, InitProcessing, SlotInvariant, PTL DEF Spec

-----------------------------------------------------------------------------
(* The service implements the ledger *)

Phase == [s \in Sessions |-> PhaseOf(row[s].status)]

LEMMA HoldingPhase ==
    ASSUME NEW st \in Status
    PROVE  /\ PhaseOf(st) = "holding" <=> st \in Holding
           /\ PhaseOf(st) \in Ledger!Phases
           /\ st \notin Ended \cup Gone => PhaseOf(st) \in {"holding", "resting"}
  BY DEF PhaseOf, Status, Holding, Ended, Gone, Ledger!Phases

(* The slot, seen by the index, is free in the ledger.                     *)
LEMMA AdmitsFree ==
    ASSUME Typed, OneHolder, NEW s \in Sessions, Admits(s)
    PROVE  Ledger!Free(s)
  BY HoldingPhase DEF Typed, TypeOK, Row, OneHolder, Admits, Ledger!Free

LEMMA MovesPhase ==
    ASSUME Typed, Typed', NEW s \in Sessions, Moves(s)
    PROVE  Phase' = [Phase EXCEPT ![s] = PhaseOf(row'[s].status)]
  BY DEF Typed, TypeOK, Moves, Phase

(* A step that decides nothing moves at most one session.                  *)
LEMMA MoveStep ==
    ASSUME Typed, Typed', OneHolder, UNCHANGED row \/ \E s \in Sessions : Moves(s),
           \A p \in Proposals : /\ proposal'[p].verdict = proposal[p].verdict
                                /\ proposal'[p].session = proposal[p].session
    PROVE  [Ledger!Next]_(Ledger!ledgerVars)
  <1>1. /\ [p \in Proposals |-> proposal[p].verdict]' = [p \in Proposals |-> proposal[p].verdict]
        /\ [p \in Proposals |-> proposal[p].session]' = [p \in Proposals |-> proposal[p].session]
    OBVIOUS
  <1>2. CASE UNCHANGED row
    BY <1>1, <1>2 DEF Ledger!ledgerVars
  <1>3. ASSUME NEW s \in Sessions, Moves(s) PROVE Ledger!Next
    <2> DEFINE ph == PhaseOf(row'[s].status)
    <2>1. row'[s].status \in Status
      BY DEF Typed, TypeOK, Row
    <2>2. ph \in Ledger!Phases /\ (ph = "holding" => row'[s].status \in Holding)
      BY <2>1, HoldingPhase
    <2>3. ph = "holding" => Ledger!Free(s)
      BY <1>3, <2>2, AdmitsFree DEF Moves
    <2>4. Ledger!Move(s, ph)
      BY <1>1, <1>3, <2>3, MovesPhase DEF Ledger!Move, Phase
    <2> QED
      BY <2>2, <2>4 DEF Ledger!Next
  <1> QED
    BY <1>2, <1>3

(* A proposal is asked for in the slot.                                    *)
LEMMA AskStep ==
    ASSUME SlotInv, Typed', NEW t \in Turns, NEW p \in Proposals, ProposeArtifact(t, p)
    PROVE  Ledger!Next
  <1> PICK s \in Sessions : s = turn[t].session
    BY DEF ProposeArtifact, Pause, SlotInv, Typed, Linked
  <1>1. Admits(s) /\ Mark(s, "waiting", "propose", "propose")
    BY DEF ProposeArtifact, Pause, PauseStatus
  <1>2. Moves(s) /\ row'[s].status = "waiting"
    BY <1>1, MarkMoves, MarkEffect DEF SlotInv, Typed, TypeOK
  <1>3. PhaseOf("waiting") = "holding"
    BY HoldingPhase DEF Status, Holding
  <1>4. Phase' = [Phase EXCEPT ![s] = "holding"]
    BY <1>1, <1>2, <1>3, MovesPhase DEF SlotInv
  <1>5. \A q \in Proposals :
          /\ proposal'[q].verdict = IF q = p THEN "proposed" ELSE proposal[q].verdict
          /\ proposal'[q].session = IF q = p THEN s ELSE proposal[q].session
    BY DEF ProposeArtifact, SlotInv, Typed, TypeOK
  <1>6. /\ [q \in Proposals |-> proposal[q].verdict]' =
             [[q \in Proposals |-> proposal[q].verdict] EXCEPT ![p] = "proposed"]
        /\ [q \in Proposals |-> proposal[q].session]' =
             [[q \in Proposals |-> proposal[q].session] EXCEPT ![p] = s]
    BY <1>5
  <1>7. proposal[p].verdict = "unused"
    BY DEF ProposeArtifact
  <1>8. Ledger!Free(s)
    BY <1>1, AdmitsFree DEF SlotInv
  <1>9. Ledger!Ask(p, s)
    BY <1>4, <1>6, <1>7, <1>8 DEF Ledger!Ask, Phase
  <1> QED
    BY <1>9 DEF Ledger!Next

(* What Decide does to the ledger's variables.                             *)
LEMMA DecideEffect ==
    ASSUME Typed, NEW p \in Proposals, NEW v, NEW f, Decide(p, v, f)
    PROVE  /\ [q \in Proposals |-> proposal[q].verdict]' =
                [[q \in Proposals |-> proposal[q].verdict] EXCEPT ![p] = v]
           /\ [q \in Proposals |-> proposal[q].session]' = [q \in Proposals |-> proposal[q].session]
           /\ UNCHANGED Phase
           /\ proposal[p].verdict = "proposed"
  BY DEF Typed, TypeOK, Decide, Phase

(* A verdict is given on an open proposal of a session that is not over.   *)
LEMMA JudgeStep ==
    ASSUME Typed, NEW p \in Proposals, NEW v \in {"executed", "rejected"}, NEW f,
           Decide(p, v, f), SessionNotEnded(p)
    PROVE  Ledger!Next
  <1> DEFINE s == proposal[p].session
  <1>1. s \in Sessions /\ row[s].status \in Status
    BY DEF Decide, Typed, TypeOK, Linked, Row
  <1>2. row[s].status \notin Ended \cup Gone
    BY DEF Decide, SessionNotEnded, Exists
  <1>3. PhaseOf(row[s].status) \in {"holding", "resting"}
    BY <1>1, <1>2, HoldingPhase
  <1>4. Ledger!Judge(p, v)
    BY <1>1, <1>3, DecideEffect DEF Ledger!Judge, Phase
  <1> QED
    BY <1>4 DEF Ledger!Next

LEMMA SetAsideStep ==
    ASSUME Typed, NEW p \in Proposals, NEW f, Decide(p, "superseded", f)
    PROVE  Ledger!Next
  <1>1. Ledger!SetAside(p)
    BY DecideEffect DEF Ledger!SetAside, Phase
  <1> QED
    BY <1>1 DEF Ledger!Next

(* Every other step leaves verdicts and owners alone.                      *)
LEMMA LedgerStep ==
    ASSUME SlotInv, Typed', [Next]_vars
    PROVE  [Ledger!Next]_(Ledger!ledgerVars)
  <1> DEFINE Kept == \A p \in Proposals : /\ proposal'[p].verdict = proposal[p].verdict
                                          /\ proposal'[p].session = proposal[p].session
  <1>1. ASSUME Kept PROVE [Ledger!Next]_(Ledger!ledgerVars)
    BY <1>1, RowStep, MoveStep DEF SlotInv
  <1>2. CASE UNCHANGED proposal
    BY <1>1, <1>2
  <1>3. ASSUME NEW t \in Turns, NEW p \in Proposals, ProposeArtifact(t, p)
        PROVE  Ledger!Next
    BY <1>3, AskStep
  <1>4. ASSUME NEW p \in Proposals, Approve(p) \/ Reject(p) PROVE Ledger!Next
    BY <1>4, JudgeStep DEF SlotInv, Approve, Reject
  <1>5. ASSUME NEW p \in Proposals, ApproveRebases(p) \/ RequestEdit(p) PROVE Ledger!Next
    BY <1>5, SetAsideStep DEF SlotInv, ApproveRebases, RequestEdit
  <1>6. ASSUME NEW p \in Proposals, FollowedUp(p) PROVE [Ledger!Next]_(Ledger!ledgerVars)
    BY <1>1, <1>6, FollowedUpType DEF SlotInv, Typed, TypeOK
  <1>7. CASE Crash
    <2>1. Kept
      BY <1>7 DEF Crash, Answered
    <2> QED
      BY <1>1, <2>1
  <1> QED
    BY <1>2, <1>3, <1>4, <1>5, <1>6, <1>7, ZenonT(40)
    DEF Next, SessionStep, MessageStep, TurnStep, ProposalStep, vars,
        CreateSession, MeetHolder, ExpireHolder, RetryCreate, RefuseCreate, DeleteSession,
        GoIdle, ExpireIdle, Send, QueueMessage, AcceptMessage, RefuseMessage, BeginFresh,
        BeginReplay, AskHuman, StreamReply, EndTurn, HitCap, FailTurn, ReadOutcome, FinishTurn, DropTurn,
        PickQueued, LeaveQueue, StartQueued, StartQueuedFails, CompleteSession, ResumeTurn,
        ResumeSkipped

LEMMA LedgerInit == Init => Ledger!Init
  BY DEF Init, Ledger!Init, AbsentRow, Unused, PhaseOf, Holding, Ended, Gone

(* The service keeps the ledger: one session in the slot, each proposal    *)
(* made by the session in the slot, judged at most once and never after    *)
(* its session ended, whatever requests, turns and kills interleave.       *)
THEOREM ServiceKeepsLedger == Spec => KeepsLedger
  <1>1. SlotInv /\ SlotInv' /\ [Next]_vars => [Ledger!Next]_(Ledger!ledgerVars)
    BY LedgerStep DEF SlotInv
  <1> QED
    BY <1>1, LedgerInit, SlotInvariant, PTL DEF Spec, KeepsLedger, Ledger!Spec

-----------------------------------------------------------------------------
(* The tasks: which turn, message and proposal belong together while        *)
(* nothing races.                                                           *)

(* An idle row has no task: every task writes its row when it starts.      *)
IdleIsQuiet == \A s \in Sessions, t \in Turns : row[s].idle => ~Live(t, s)

(* A task works for a session that was created once.                       *)
LiveIsMade == \A s \in Sessions, t \in Turns : Live(t, s) => row[s].status # "absent"

(* A create request under way has not created its row yet.                 *)
OpeningIsAbsent == \A s \in Sessions : opening[s].step # "none" => row[s].status = "absent"

(* No code writes FAILED.                                                  *)
NeverFailed == \A s \in Sessions : row[s].status # "failed"

(* A message that still waits has started nothing.                         *)
QueuedFresh ==
    \A m \in Messages : message[m].stage \in {"read", "queued"} => message[m].copies = 0

(* The second transaction of a decision fits the first, and a tool call    *)
(* that was not made belongs to nobody.                                    *)
FollowUpFits ==
    \A p \in Proposals :
        /\ proposal[p].verdict = "unused" => proposal[p].session = NoSession
        /\ proposal[p].followUp = "resume" => proposal[p].verdict \in {"superseded", "rejected"}
        /\ proposal[p].followUp = "complete" => proposal[p].verdict = "executed"

(* A drain has picked a message of its own session, and read a row that    *)
(* lets it.                                                                *)
PickedOwn ==
    \A t \in Turns :
        turn[t].pc = "draining" => /\ message[turn[t].picked].session = turn[t].session
                                   /\ Drainable(turn[t].seen.status)

(* A turn at work has read nothing it has still to write.                  *)
NothingSeen ==
    \A t \in Turns : turn[t].pc \in {"starting", "running", "halted"} => turn[t].seen = AbsentRow

Bookkeeping ==
    /\ IdleIsQuiet /\ LiveIsMade /\ OpeningIsAbsent /\ NeverFailed
    /\ QueuedFresh /\ FollowUpFits /\ PickedOwn /\ NothingSeen

-----------------------------------------------------------------------------
(* No step brings a row back to "absent", or writes FAILED.                *)
NewStatus ==
    \A s \in Sessions :
        row'[s].status # row[s].status => row'[s].status \notin {"absent", "failed"}

LEMMA MarkStatus ==
    ASSUME row \in [Sessions -> Row], NEW s \in Sessions,
           NEW st, NEW intr, NEW parked, Mark(s, st, intr, parked),
           st \in {row[s].status} \cup Holding \cup {"completed", "expired", "deleted"}
    PROVE  NewStatus
  BY DEF Mark, NewStatus, Holding

LEMMA WriteStatus ==
    ASSUME row \in [Sessions -> Row], NEW s \in Sessions,
           NEW st, NEW intr, Write(s, st, intr),
           st \in {row[s].status} \cup Holding \cup {"completed", "expired", "deleted"}
    PROVE  NewStatus
  BY MarkStatus DEF Write

LEMMA StatusStep == ASSUME Typed, [Next]_vars PROVE NewStatus
  <1> USE DEF Typed, TypeOK, Linked
  <1>1. ASSUME NEW s \in Sessions, CreateSession(s) PROVE NewStatus
    BY <1>1, MarkStatus DEF CreateSession, Holding
  <1>2. ASSUME NEW s \in Sessions, ExpireHolder(s) PROVE NewStatus
    BY <1>2, WriteStatus DEF ExpireHolder
  <1>3. ASSUME NEW s \in Sessions, RetryCreate(s) PROVE NewStatus
    BY <1>3, MarkStatus DEF RetryCreate, Holding
  <1>4. ASSUME NEW s \in Sessions, DeleteSession(s) PROVE NewStatus
    BY <1>4, MarkStatus DEF DeleteSession
  <1>5. ASSUME NEW s \in Sessions, GoIdle(s) PROVE NewStatus
    BY <1>5 DEF GoIdle, NewStatus
  <1>6. ASSUME NEW s \in Sessions, ExpireIdle(s) PROVE NewStatus
    BY <1>6, WriteStatus DEF ExpireIdle
  <1>7. ASSUME NEW m \in Messages, NEW t \in Turns, AcceptMessage(m, t) PROVE NewStatus
    BY <1>7, WriteStatus DEF AcceptMessage, Holding
  <1>8. ASSUME NEW t \in Turns, BeginFresh(t) PROVE NewStatus
    BY <1>8, MarkStatus DEF BeginFresh
  <1>9. ASSUME NEW t \in Turns, BeginReplay(t) PROVE NewStatus
    BY <1>9, MarkStatus, PauseStatusType DEF BeginReplay
  <1>10. ASSUME NEW t \in Turns, NEW kind, Pause(t, kind) PROVE NewStatus
    BY <1>10, MarkStatus, PauseStatusType DEF Pause
  <1>11. ASSUME NEW t \in Turns, FinishTurn(t) PROVE NewStatus
    <2>1. turn[t].session \in Sessions
      BY <1>11 DEF FinishTurn
    <2>2. StatusLeft(t) \in {turn[t].seen.status, "completed", "turn_failed"}
      BY DEF StatusLeft, Outcome
    <2> QED
      BY <1>11, <2>1, <2>2, WriteEffect DEF FinishTurn, NewStatus
  <1>12. ASSUME NEW t \in Turns, StartQueued(t) PROVE NewStatus
    BY <1>12, WriteStatus DEF StartQueued, Holding
  <1>13. ASSUME NEW p \in Proposals, CompleteSession(p) PROVE NewStatus
    BY <1>13, WriteStatus DEF CompleteSession, NewStatus
  <1>14. ASSUME NEW p \in Proposals, NEW t \in Turns, ResumeTurn(p, t) PROVE NewStatus
    BY <1>14, WriteStatus DEF ResumeTurn, Holding
  <1>15. ASSUME UNCHANGED row PROVE NewStatus
    BY <1>15 DEF NewStatus
  <1> QED
    BY <1>1, <1>2, <1>3, <1>4, <1>5, <1>6, <1>7, <1>8, <1>9, <1>10, <1>11, <1>12,
       <1>13, <1>14, <1>15
    DEF Next, SessionStep, MessageStep, TurnStep, ProposalStep, vars, AskHuman, StreamReply,
        ProposeArtifact, MeetHolder, RefuseCreate, Send, QueueMessage, RefuseMessage, EndTurn,
        HitCap, FailTurn, ReadOutcome, DropTurn, PickQueued, LeaveQueue, StartQueuedFails,
        Approve, ApproveRebases, Reject, RequestEdit, ResumeSkipped, Crash, Decide

-----------------------------------------------------------------------------
(* What the operators that write a variable leave behind *)

LEMMA Marked ==
    ASSUME row \in [Sessions -> Row], NEW s \in Sessions,
           NEW st, NEW intr, NEW parked, Mark(s, st, intr, parked)
    PROVE  /\ row'[s].status = st /\ row'[s].interrupt = intr
           /\ row'[s].idle = FALSE /\ row'[s].parked = parked
           /\ \A o \in Sessions : o # s => row'[o] = row[o]
  BY DEF Mark

LEMMA Written ==
    ASSUME row \in [Sessions -> Row], NEW s \in Sessions,
           NEW st, NEW intr, Write(s, st, intr)
    PROVE  /\ row'[s].status = st /\ row'[s].interrupt = intr
           /\ row'[s].idle = FALSE /\ row'[s].parked = row[s].parked
           /\ \A o \in Sessions : o # s => row'[o] = row[o]
  BY Marked DEF Write

LEMMA Started ==
    ASSUME turn \in [Turns -> TurnRec], NEW t \in Turns, NEW s, NEW input, StartTurn(t, s, input)
    PROVE  /\ turn'[t].pc = "starting" /\ turn'[t].session = s /\ turn'[t].input = input
           /\ turn'[t].seen = AbsentRow
           /\ \A u \in Turns : u # t => turn'[u] = turn[u]
  BY DEF StartTurn

LEMMA Stepped ==
    ASSUME turn \in [Turns -> TurnRec], NEW t \in Turns, NEW pc, Step(t, pc)
    PROVE  /\ turn'[t].pc = pc /\ turn'[t].session = turn[t].session
           /\ turn'[t].input = turn[t].input /\ turn'[t].picked = turn[t].picked
           /\ turn'[t].seen = turn[t].seen
           /\ \A u \in Turns : u # t => turn'[u] = turn[u]
  BY DEF Step, TurnRec

LEMMA Seeing ==
    ASSUME turn \in [Turns -> TurnRec], NEW t \in Turns, NEW pc, NEW seen, StepSeeing(t, pc, seen)
    PROVE  /\ turn'[t].pc = pc /\ turn'[t].session = turn[t].session
           /\ turn'[t].input = turn[t].input /\ turn'[t].picked = turn[t].picked
           /\ turn'[t].seen = seen
           /\ \A u \in Turns : u # t => turn'[u] = turn[u]
  BY DEF StepSeeing, TurnRec

LEMMA Stopped ==
    ASSUME turn \in [Turns -> TurnRec], NEW t \in Turns, turn' = [turn EXCEPT ![t] = NoTurn]
    PROVE  /\ turn'[t].pc = "idle" /\ turn'[t].session = NoSession
           /\ \A u \in Turns : u # t => turn'[u] = turn[u]
  BY DEF NoTurn

LEMMA Answering ==
    ASSUME message \in [Messages -> MessageRec], NEW m \in Messages,
           NEW stage, NEW copies, Settle(m, stage, copies)
    PROVE  /\ message'[m].stage = stage /\ message'[m].copies = copies
           /\ message'[m].session = message[m].session
           /\ \A n \in Messages : n # m => message'[n] = message[n]
  BY DEF Settle, Settled

-----------------------------------------------------------------------------
(* Where a task comes from: it was there, or a request starts it on a row  *)
(* that exists and is written in the same step; beside another task of the *)
(* session the step is noted as a race.                                    *)
Starts(t, s) ==
    /\ row[s].status \notin Gone
    /\ row'[s].idle = FALSE
    /\ s \in raced' \/ \A u \in Turns \ {t} : ~Live(u, s) /\ turn'[u] = turn[u]

LEMMA StartsTurn ==
    ASSUME Typed, NEW t \in Turns, NEW s \in Sessions, NEW st, NEW intr, NEW input, NEW stale,
           row[s].status \notin Gone, Write(s, st, intr), StartTurn(t, s, input),
           NoteRace(s, stale \/ Overlaps(t, s)), stale \in BOOLEAN,
           NEW u \in Turns, NEW o \in Sessions, Live(u, o)'
    PROVE  Live(u, o) \/ Starts(u, o)
  <1>1. CASE u # t
    BY <1>1, Started DEF Typed, TypeOK, Live
  <1>2. CASE u = t
    <2>1. o = s
      BY <1>2, Started DEF Typed, TypeOK, Live
    <2>2. row'[s].idle = FALSE
      BY Written DEF Typed, TypeOK
    <2>3. s \in raced' \/ \A v \in Turns \ {t} : ~Live(v, s) /\ turn'[v] = turn[v]
      BY Started DEF Typed, TypeOK, NoteRace, Overlaps
    <2> QED
      BY <1>2, <2>1, <2>2, <2>3 DEF Starts
  <1> QED
    BY <1>1, <1>2

LEMMA LiveFrom ==
    ASSUME Typed, [Next]_vars, NEW t \in Turns, NEW s \in Sessions, Live(t, s)'
    PROVE  Live(t, s) \/ Starts(t, s)
  <1> USE DEF Typed, TypeOK, Linked
  <1>1. ASSUME NEW m \in Messages, NEW u \in Turns, AcceptMessage(m, u)
        PROVE Live(t, s) \/ Starts(t, s)
    <2>1. message[m].session \in Sessions
      BY <1>1 DEF AcceptMessage
    <2> QED
      BY <1>1, <2>1, StartsTurn DEF AcceptMessage, Exists
  <1>2. ASSUME NEW u \in Turns, NEW pc, Step(u, pc), turn[u].pc # "idle" PROVE Live(t, s)
    BY <1>2, Stepped DEF Live
  <1>3. ASSUME NEW u \in Turns, turn' = [turn EXCEPT ![u] = NoTurn] PROVE Live(t, s)
    BY <1>3, Stopped DEF Live
  <1>4. ASSUME NEW u \in Turns, NEW pc, NEW seen, StepSeeing(u, pc, seen), turn[u].pc # "idle"
        PROVE Live(t, s)
    BY <1>4, Seeing DEF Live
  <1>5. ASSUME NEW u \in Turns, FailTurn(u) \/ ReadOutcome(u) \/ FinishTurn(u) PROVE Live(t, s)
    BY <1>2, <1>4, <1>5 DEF FailTurn, ReadOutcome, FinishTurn
  <1>6. ASSUME NEW u \in Turns, NEW m \in Messages, PickQueued(u, m) PROVE Live(t, s)
    BY <1>6 DEF PickQueued, Live
  <1>7. ASSUME NEW u \in Turns, StartQueued(u) PROVE Live(t, s)
    BY <1>7, Started DEF StartQueued, Live
  <1>8. ASSUME NEW p \in Proposals, NEW u \in Turns, ResumeTurn(p, u)
        PROVE Live(t, s) \/ Starts(t, s)
    <2>1. proposal[p].session \in Sessions
      BY <1>8 DEF ResumeTurn
    <2>2. NoteRace(proposal[p].session, FALSE \/ Overlaps(u, proposal[p].session))
      BY <1>8 DEF ResumeTurn, NoteRace
    <2> QED
      BY <1>8, <2>1, <2>2, StartsTurn DEF ResumeTurn, Gone
  <1>9. ASSUME Crash PROVE FALSE
    BY <1>9 DEF Crash, NoTurn, Live
  <1>10. ASSUME UNCHANGED turn PROVE Live(t, s)
    BY <1>10 DEF Live
  <1> QED
    BY <1>1, <1>2, <1>3, <1>5, <1>6, <1>7, <1>8, <1>9, <1>10
    DEF Next, SessionStep, MessageStep, TurnStep, ProposalStep, vars, AskHuman, StreamReply,
        ProposeArtifact, MeetHolder, RefuseCreate, Send, QueueMessage, RefuseMessage, EndTurn,
        HitCap, DropTurn, LeaveQueue, StartQueuedFails, CreateSession, ExpireHolder,
        RetryCreate, DeleteSession, GoIdle, ExpireIdle, BeginFresh, BeginReplay,
        CompleteSession, Pause,
        Approve, ApproveRebases, Reject, RequestEdit, ResumeSkipped, Decide

(* Where an idle row comes from: time passed without a task.               *)
LEMMA IdleFrom ==
    ASSUME Typed, [Next]_vars, NEW s \in Sessions, row'[s].idle
    PROVE  row[s].idle \/ (UNCHANGED turn /\ \A t \in Turns : ~Live(t, s))
  <1> USE DEF Typed, TypeOK, Linked
  <1>1. ASSUME NEW o \in Sessions, NEW st, NEW intr, NEW parked, Mark(o, st, intr, parked)
        PROVE row[s].idle
    BY <1>1, Marked
  <1>2. ASSUME NEW o \in Sessions, NEW st, NEW intr, Write(o, st, intr) PROVE row[s].idle
    BY <1>2, Written
  <1>3. ASSUME NEW o \in Sessions, GoIdle(o)
        PROVE row[s].idle \/ (UNCHANGED turn /\ \A t \in Turns : ~Live(t, s))
    BY <1>3 DEF GoIdle
  <1>4. ASSUME UNCHANGED row PROVE row[s].idle
    BY <1>4
  <1>5. ASSUME NEW o \in Sessions, SessionStep(o)
        PROVE row[s].idle \/ (UNCHANGED turn /\ \A t \in Turns : ~Live(t, s))
    BY <1>1, <1>2, <1>3, <1>4, <1>5
    DEF SessionStep, CreateSession, MeetHolder, ExpireHolder, RetryCreate, RefuseCreate,
        DeleteSession, ExpireIdle
  <1>6. ASSUME NEW m \in Messages, MessageStep(m) PROVE row[s].idle
    BY <1>2, <1>4, <1>6 DEF MessageStep, Send, QueueMessage, AcceptMessage, RefuseMessage
  <1>7. ASSUME NEW t \in Turns, TurnStep(t) PROVE row[s].idle
    <2>1. turn[t].pc # "idle" => turn[t].session \in Sessions
      OBVIOUS
    <2> QED
      BY <1>1, <1>2, <1>4, <1>7, <2>1
      DEF TurnStep, BeginFresh, BeginReplay, AskHuman, StreamReply, ProposeArtifact, Pause,
          EndTurn, HitCap, FailTurn, ReadOutcome, FinishTurn, DropTurn, PickQueued, LeaveQueue, StartQueued,
          StartQueuedFails
  <1>8. ASSUME NEW p \in Proposals, ProposalStep(p) PROVE row[s].idle
    BY <1>2, <1>4, <1>8
    DEF ProposalStep, Approve, ApproveRebases, Reject, RequestEdit, Decide, CompleteSession,
        ResumeTurn, ResumeSkipped
  <1> QED
    BY <1>4, <1>5, <1>6, <1>7, <1>8 DEF Next, Crash, vars

-----------------------------------------------------------------------------
(* Every step keeps the books *)

LEMMA IdleStep == ASSUME Typed, IdleIsQuiet, [Next]_vars PROVE IdleIsQuiet'
  <1> SUFFICES ASSUME NEW s \in Sessions, NEW t \in Turns, row'[s].idle, Live(t, s)'
               PROVE  FALSE
    BY DEF IdleIsQuiet
  <1>1. Live(t, s)
    BY LiveFrom DEF Starts
  <1>2. ~row[s].idle
    BY <1>1 DEF IdleIsQuiet
  <1> QED
    BY <1>1, <1>2, IdleFrom

LEMMA MadeStep == ASSUME Typed, LiveIsMade, [Next]_vars PROVE LiveIsMade'
  <1> SUFFICES ASSUME NEW s \in Sessions, NEW t \in Turns, Live(t, s)'
               PROVE  row'[s].status # "absent"
    BY DEF LiveIsMade
  <1>1. row[s].status # "absent"
    BY LiveFrom DEF Starts, LiveIsMade, Gone
  <1> QED
    BY <1>1, StatusStep DEF NewStatus

LEMMA FailedStep == ASSUME Typed, NeverFailed, [Next]_vars PROVE NeverFailed'
  BY StatusStep DEF NewStatus, NeverFailed

(* A row that is not there appears only by a create request, which is over *)
(* then.                                                                   *)
LEMMA GoneLeaves ==
    ASSUME Typed, OpeningIsAbsent, [Next]_vars, NEW s \in Sessions, row[s].status \in Gone,
           row'[s] # row[s]
    PROVE  row[s].status = "absent" /\ opening'[s].step = "none"
  <1> USE DEF Typed, TypeOK, Linked
  <1>1. ASSUME NEW o \in Sessions, NEW st, NEW intr, NEW parked, Mark(o, st, intr, parked),
               row[o].status \notin Gone
        PROVE  FALSE
    BY <1>1, Marked
  <1>2. ASSUME NEW o \in Sessions, NEW st, NEW intr, Write(o, st, intr), row[o].status \notin Gone
        PROVE  FALSE
    BY <1>2, Written
  <1>3. ASSUME NEW o \in Sessions, CreateSession(o)
        PROVE row[s].status = "absent" /\ opening'[s].step = "none"
    BY <1>3, Marked DEF CreateSession
  <1>4. ASSUME NEW o \in Sessions, RetryCreate(o)
        PROVE row[s].status = "absent" /\ opening'[s].step = "none"
    <2>1. o = s
      BY <1>4, Marked DEF RetryCreate
    <2>2. row[s].status = "absent"
      BY <1>4, <2>1 DEF RetryCreate, OpeningIsAbsent
    <2> QED
      BY <1>4, <2>1, <2>2 DEF RetryCreate, NoOpening
  <1>5. ASSUME NEW o \in Sessions, GoIdle(o) PROVE FALSE
    BY <1>5 DEF GoIdle, Holding, Gone
  <1>6. ASSUME UNCHANGED row PROVE FALSE
    BY <1>6
  <1>7. ASSUME NEW o \in Sessions, SessionStep(o)
        PROVE row[s].status = "absent" /\ opening'[s].step = "none"
    <2>1. row[o].status \in Holding => row[o].status \notin Gone
      BY DEF Holding, Gone
    <2>2. CASE ExpireHolder(o)
      BY <1>2, <2>2 DEF ExpireHolder, Holding, Gone
    <2> QED
      BY <1>1, <1>2, <1>3, <1>4, <1>5, <1>6, <1>7, <2>1, <2>2
      DEF SessionStep, MeetHolder, RefuseCreate, DeleteSession, ExpireIdle, Exists, Expirable
  <1>8. ASSUME NEW m \in Messages, MessageStep(m) PROVE FALSE
    BY <1>2, <1>6, <1>8 DEF MessageStep, Send, QueueMessage, AcceptMessage, RefuseMessage, Exists
  <1>9. ASSUME NEW t \in Turns, TurnStep(t) PROVE FALSE
    <2>1. turn[t].pc # "idle" => turn[t].session \in Sessions
      OBVIOUS
    <2> QED
      BY <1>1, <1>2, <1>6, <1>9, <2>1
      DEF TurnStep, BeginFresh, BeginReplay, AskHuman, StreamReply, ProposeArtifact, Pause,
          EndTurn, HitCap, FailTurn, ReadOutcome, FinishTurn, DropTurn, PickQueued, LeaveQueue, StartQueued,
          StartQueuedFails, Exists
  <1>10. ASSUME NEW p \in Proposals, ProposalStep(p) PROVE FALSE
    BY <1>2, <1>6, <1>10
    DEF ProposalStep, Approve, ApproveRebases, Reject, RequestEdit, Decide, CompleteSession,
        ResumeTurn, ResumeSkipped, Gone
  <1> QED
    BY <1>6, <1>7, <1>8, <1>9, <1>10 DEF Next, Crash, vars

LEMMA OpeningStep == ASSUME Typed, OpeningIsAbsent, [Next]_vars PROVE OpeningIsAbsent'
  <1> SUFFICES ASSUME NEW s \in Sessions, opening'[s].step # "none"
               PROVE  row'[s].status = "absent"
    BY DEF OpeningIsAbsent
  <1>1. ASSUME NEW o \in Sessions, NEW h \in Sessions, MeetHolder(o, h)
        PROVE row[s].status = "absent"
    BY <1>1 DEF MeetHolder, OpeningIsAbsent, Typed, TypeOK
  <1>2. ASSUME NEW o \in Sessions, ExpireHolder(o) PROVE row[s].status = "absent"
    BY <1>2 DEF ExpireHolder, OpeningIsAbsent, Typed, TypeOK
  <1>3. ASSUME NEW o \in Sessions, opening' = [opening EXCEPT ![o] = NoOpening]
        PROVE row[s].status = "absent"
    BY <1>3 DEF OpeningIsAbsent, Typed, TypeOK, NoOpening
  <1>4. ASSUME Crash PROVE FALSE
    BY <1>4 DEF Crash, NoOpening
  <1>5. ASSUME UNCHANGED opening PROVE row[s].status = "absent"
    BY <1>5 DEF OpeningIsAbsent
  <1>6. row[s].status = "absent"
    BY <1>1, <1>2, <1>3, <1>4, <1>5, ZenonT(40)
    DEF Next, SessionStep, MessageStep, TurnStep, ProposalStep, vars, CreateSession,
       RetryCreate, RefuseCreate, DeleteSession, GoIdle, ExpireIdle,
       Send, QueueMessage, AcceptMessage, RefuseMessage, BeginFresh, BeginReplay, AskHuman,
       StreamReply, ProposeArtifact, Pause, EndTurn, HitCap, FailTurn, ReadOutcome, FinishTurn, DropTurn,
       PickQueued, LeaveQueue, StartQueued, StartQueuedFails, Approve, ApproveRebases, Reject,
       RequestEdit, Decide, CompleteSession, ResumeTurn, ResumeSkipped
  <1> QED
    BY <1>6, GoneLeaves DEF Gone

(* Where a message that waits comes from, and that a message never changes *)
(* its session once it was sent.                                           *)
LEMMA MessageFrom ==
    ASSUME Typed, [Next]_vars, NEW m \in Messages
    PROVE  \/ UNCHANGED message[m]
           \/ message[m].stage = "unsent" /\ message'[m].stage = "read" /\ message'[m].copies = 0
           \/ /\ message'[m].session = message[m].session
              /\ message[m].stage = "read" /\ message'[m].stage \in {"queued", "refused"}
              /\ message'[m].copies = 0
              /\ message'[m].stage = "queued" => QueueMessage(m)
           \/ /\ message'[m].session = message[m].session
              /\ message[m].stage = "read" /\ message'[m].stage = "delivered"
              /\ message'[m].copies = 1
           \/ /\ message'[m].session = message[m].session
              /\ message[m].stage # "unsent" /\ message'[m].stage = "delivered"
              /\ message'[m].copies = message[m].copies + 1
              /\ \E t \in Turns : StartQueued(t) /\ turn[t].picked = m
  <1> USE DEF Typed, TypeOK, Linked, Picked
  <1>1. ASSUME NEW n \in Messages, NEW s \in Sessions, Send(n, s)
        PROVE  \/ UNCHANGED message[m]
               \/ /\ message[m].stage = "unsent" /\ message'[m].stage = "read"
                  /\ message'[m].copies = 0
    BY <1>1 DEF Send
  <1>2. ASSUME NEW n \in Messages, QueueMessage(n) \/ RefuseMessage(n)
        PROVE  \/ UNCHANGED message[m]
               \/ /\ message'[m].session = message[m].session
                  /\ message[m].stage = "read" /\ message'[m].stage \in {"queued", "refused"}
                  /\ message'[m].copies = 0
                  /\ message'[m].stage = "queued" => QueueMessage(m)
    BY <1>2, Answering DEF QueueMessage, RefuseMessage
  <1>3. ASSUME NEW n \in Messages, NEW t \in Turns, AcceptMessage(n, t)
        PROVE  \/ UNCHANGED message[m]
               \/ /\ message'[m].session = message[m].session
                  /\ message[m].stage = "read" /\ message'[m].stage = "delivered"
                  /\ message'[m].copies = 1
    BY <1>3, Answering DEF AcceptMessage
  <1>4. ASSUME NEW t \in Turns, StartQueued(t)
        PROVE  \/ UNCHANGED message[m]
               \/ /\ message'[m].session = message[m].session
                  /\ message[m].stage # "unsent" /\ message'[m].stage = "delivered"
                  /\ message'[m].copies = message[m].copies + 1
                  /\ turn[t].picked = m
    BY <1>4, Answering DEF StartQueued
  <1>5. ASSUME Crash
        PROVE  \/ UNCHANGED message[m]
               \/ /\ message'[m].session = message[m].session
                  /\ message[m].stage = "read" /\ message'[m].stage \in {"queued", "refused"}
                  /\ message'[m].copies = 0
                  /\ message'[m].stage = "queued" => QueueMessage(m)
    BY <1>5 DEF Crash, Settled
  <1>6. ASSUME UNCHANGED message PROVE UNCHANGED message[m]
    BY <1>6
  <1> QED
    BY <1>1, <1>2, <1>3, <1>4, <1>5, <1>6, ZenonT(40)
    DEF Next, SessionStep, MessageStep, TurnStep, ProposalStep, vars, CreateSession,
       MeetHolder, ExpireHolder, RetryCreate, RefuseCreate, DeleteSession, GoIdle, ExpireIdle,
       BeginFresh, BeginReplay, AskHuman,
       StreamReply, ProposeArtifact, Pause, EndTurn, HitCap, FailTurn, ReadOutcome, FinishTurn, DropTurn,
       PickQueued, LeaveQueue, StartQueuedFails, Approve, ApproveRebases, Reject,
       RequestEdit, Decide, CompleteSession, ResumeTurn, ResumeSkipped

LEMMA FreshStep == ASSUME Typed, QueuedFresh, [Next]_vars PROVE QueuedFresh'
  BY MessageFrom DEF QueuedFresh

(* What a step does to a proposal.                                         *)
LEMMA ProposalFrom ==
    ASSUME Typed, [Next]_vars, NEW p \in Proposals
    PROVE  \/ UNCHANGED proposal[p]
           \/ /\ proposal[p].verdict = "unused"
              /\ \E t \in Turns : ProposeArtifact(t, p)
           \/ /\ proposal'[p].session = proposal[p].session
              /\ proposal[p].verdict = "proposed"
              /\ Exists(proposal[p].session)
              /\ \/ /\ proposal'[p].verdict = "executed" /\ proposal'[p].followUp = "complete"
                    /\ SessionNotEnded(p)
                 \/ /\ proposal'[p].verdict \in {"superseded", "rejected"}
                    /\ proposal'[p].followUp = "resume"
           \/ /\ proposal'[p].session = proposal[p].session
              /\ proposal'[p].verdict = proposal[p].verdict
              /\ proposal[p].followUp # "none" /\ proposal'[p].followUp = "none"
              /\ \/ CompleteSession(p) \/ ResumeSkipped(p) \/ Crash
                 \/ \E t \in Turns : ResumeTurn(p, t)
  <1> USE DEF Typed, TypeOK
  <1>1. ASSUME NEW t \in Turns, NEW q \in Proposals, ProposeArtifact(t, q), q # p
        PROVE  UNCHANGED proposal[p]
    BY <1>1 DEF ProposeArtifact
  <1>2. ASSUME NEW t \in Turns, ProposeArtifact(t, p) PROVE proposal[p].verdict = "unused"
    BY <1>2 DEF ProposeArtifact
  <1>3. ASSUME NEW q \in Proposals, NEW v, NEW f, Decide(q, v, f)
        PROVE  \/ UNCHANGED proposal[p]
               \/ /\ q = p /\ proposal'[p].session = proposal[p].session
                  /\ proposal[p].verdict = "proposed" /\ Exists(proposal[p].session)
                  /\ proposal'[p].verdict = v /\ proposal'[p].followUp = f
    BY <1>3 DEF Decide
  <1>4. ASSUME NEW q \in Proposals, FollowedUp(q)
        PROVE  \/ q # p /\ UNCHANGED proposal[p]
               \/ /\ q = p /\ proposal'[p].session = proposal[p].session
                  /\ proposal'[p].verdict = proposal[p].verdict
                  /\ proposal'[p].followUp = "none"
    BY <1>4 DEF FollowedUp, Answered
  <1>5. ASSUME Crash
        PROVE  \/ UNCHANGED proposal[p]
               \/ /\ proposal'[p].session = proposal[p].session
                  /\ proposal'[p].verdict = proposal[p].verdict
                  /\ proposal[p].followUp # "none" /\ proposal'[p].followUp = "none"
    BY <1>5 DEF Crash, Answered, ProposalRec
  <1>6. ASSUME UNCHANGED proposal PROVE UNCHANGED proposal[p]
    BY <1>6
  <1>7. ASSUME NEW q \in Proposals, ProposalStep(q)
        PROVE  \/ UNCHANGED proposal[p]
               \/ /\ proposal'[p].session = proposal[p].session
                  /\ proposal[p].verdict = "proposed"
                  /\ Exists(proposal[p].session)
                  /\ \/ /\ proposal'[p].verdict = "executed" /\ proposal'[p].followUp = "complete"
                        /\ SessionNotEnded(p)
                     \/ /\ proposal'[p].verdict \in {"superseded", "rejected"}
                        /\ proposal'[p].followUp = "resume"
               \/ /\ proposal'[p].session = proposal[p].session
                  /\ proposal'[p].verdict = proposal[p].verdict
                  /\ proposal[p].followUp # "none" /\ proposal'[p].followUp = "none"
                  /\ CompleteSession(p) \/ (\E t \in Turns : ResumeTurn(p, t)) \/ ResumeSkipped(p)
    <2>1. CASE Approve(q) \/ ApproveRebases(q) \/ Reject(q) \/ RequestEdit(q)
      BY <1>3, <2>1 DEF Approve, ApproveRebases, Reject, RequestEdit
    <2>2. CASE CompleteSession(q) \/ (\E t \in Turns : ResumeTurn(q, t)) \/ ResumeSkipped(q)
      BY <1>4, <2>2 DEF CompleteSession, ResumeTurn, ResumeSkipped
    <2> QED
      BY <1>7, <2>1, <2>2 DEF ProposalStep
  <1> QED
    BY <1>1, <1>2, <1>5, <1>6, <1>7, ZenonT(40)
    DEF Next, SessionStep, MessageStep, TurnStep, vars, CreateSession,
       MeetHolder, ExpireHolder, RetryCreate, RefuseCreate, DeleteSession, GoIdle, ExpireIdle,
       Send, QueueMessage, AcceptMessage, RefuseMessage, BeginFresh, BeginReplay, AskHuman,
       StreamReply, Pause, EndTurn, HitCap, FailTurn, ReadOutcome, FinishTurn, DropTurn,
       PickQueued, LeaveQueue, StartQueued, StartQueuedFails

LEMMA FitsStep == ASSUME Typed, FollowUpFits, [Next]_vars PROVE FollowUpFits'
  <1> SUFFICES ASSUME NEW p \in Proposals
               PROVE  /\ proposal'[p].verdict = "unused" => proposal'[p].session = NoSession
                      /\ proposal'[p].followUp = "resume" =>
                             proposal'[p].verdict \in {"superseded", "rejected"}
                      /\ proposal'[p].followUp = "complete" => proposal'[p].verdict = "executed"
    BY DEF FollowUpFits
  <1>1. ASSUME NEW t \in Turns, ProposeArtifact(t, p)
        PROVE proposal'[p].followUp = "none" /\ proposal'[p].verdict = "proposed"
    BY <1>1 DEF ProposeArtifact, Typed, TypeOK
  <1> QED
    BY <1>1, ProposalFrom DEF FollowUpFits

(* What a step does to a task.                                             *)
Launches(t, s, input) ==
    /\ turn'[t].pc = "starting" /\ turn'[t].session = s /\ turn'[t].input = input
    /\ turn'[t].seen = AbsentRow
    /\ \A u \in Turns \ {t} : turn'[u] = turn[u]

Advances(t, pc, seen) ==
    /\ turn'[t].pc = pc /\ turn'[t].seen = seen
    /\ turn'[t].session = turn[t].session /\ turn'[t].input = turn[t].input

TaskStep(t) ==
    \/ UNCHANGED turn[t]
    \/ turn'[t].pc = "idle" /\ (DropTurn(t) \/ LeaveQueue(t) \/ StartQueuedFails(t) \/ Crash)
    \/ Advances(t, "running", turn[t].seen) /\ (BeginFresh(t) \/ BeginReplay(t))
    \/ Advances(t, "halted", turn[t].seen) /\ \E kind \in Interrupts : Pause(t, kind)
    \/ /\ turn[t].pc = "running" /\ UNCHANGED row
       /\ \E pc \in {"ended", "capped"} : Advances(t, pc, turn[t].seen)
    \/ Advances(t, "failed", AbsentRow) /\ FailTurn(t)
    \/ Advances(t, turn[t].pc, row[turn[t].session]) /\ ReadOutcome(t)
    \/ Advances(t, "finished", turn[t].seen) /\ ReadOutcome(t)
    \/ Advances(t, "finished", AbsentRow) /\ FinishTurn(t)
    \/ \E m \in Messages : PickQueued(t, m)
    \/ Launches(t, turn[t].session, "fresh") /\ StartQueued(t)
    \/ \E m \in Messages : AcceptMessage(m, t)
    \/ \E p \in Proposals : ResumeTurn(p, t)

LEMMA TurnFrom == ASSUME Typed, [Next]_vars, NEW t \in Turns PROVE TaskStep(t)
  <1> USE DEF Typed, TypeOK, Linked
  <1>1. ASSUME NEW u \in Turns, NEW pc, Step(u, pc)
        PROVE  IF u = t THEN Advances(t, pc, turn[t].seen) ELSE UNCHANGED turn[t]
    BY <1>1, Stepped DEF Advances
  <1>2. ASSUME NEW u \in Turns, DropTurn(u) \/ LeaveQueue(u) \/ StartQueuedFails(u)
        PROVE  TaskStep(t)
    <2>1. turn' = [turn EXCEPT ![u] = NoTurn]
      BY <1>2 DEF DropTurn, LeaveQueue, StartQueuedFails
    <2> QED
      BY <1>2, <2>1, Stopped DEF TaskStep
  <1>3. ASSUME NEW u \in Turns, BeginFresh(u) \/ BeginReplay(u) PROVE TaskStep(t)
    BY <1>1, <1>3 DEF BeginFresh, BeginReplay, TaskStep
  <1>4. ASSUME NEW u \in Turns, NEW kind \in Interrupts, Pause(u, kind) PROVE TaskStep(t)
    BY <1>1, <1>4 DEF Pause, TaskStep
  <1>5. ASSUME NEW u \in Turns, EndTurn(u) \/ HitCap(u) PROVE TaskStep(t)
    BY <1>1, <1>5 DEF EndTurn, HitCap, TaskStep
  <1>6. ASSUME NEW u \in Turns, NEW pc, NEW seen, StepSeeing(u, pc, seen)
         PROVE  IF u = t THEN Advances(t, pc, seen) ELSE UNCHANGED turn[t]
    BY <1>6, Seeing DEF Advances
  <1>7. ASSUME NEW u \in Turns, FailTurn(u) PROVE TaskStep(t)
    BY <1>6, <1>7 DEF FailTurn, TaskStep
  <1>8. ASSUME NEW u \in Turns, ReadOutcome(u) PROVE TaskStep(t)
    <2>1. Step(u, "finished") \/ StepSeeing(u, turn[u].pc, row[turn[u].session])
      BY <1>8 DEF ReadOutcome
    <2> QED
      BY <1>1, <1>6, <1>8, <2>1 DEF TaskStep
  <1>9. ASSUME NEW u \in Turns, FinishTurn(u) PROVE TaskStep(t)
    BY <1>6, <1>9 DEF FinishTurn, TaskStep
  <1>10. ASSUME NEW u \in Turns, NEW m \in Messages, PickQueued(u, m) PROVE TaskStep(t)
    BY <1>10 DEF PickQueued, TaskStep
  <1>11. ASSUME NEW u \in Turns, NEW s, NEW input, StartTurn(u, s, input)
        PROVE  IF u = t THEN Launches(t, s, input) ELSE UNCHANGED turn[t]
    BY <1>11, Started DEF Launches
  <1>12. ASSUME NEW u \in Turns, StartQueued(u) PROVE TaskStep(t)
    BY <1>11, <1>12 DEF StartQueued, TaskStep
  <1>13. ASSUME NEW m \in Messages, NEW u \in Turns, AcceptMessage(m, u) PROVE TaskStep(t)
    BY <1>11, <1>13 DEF AcceptMessage, TaskStep
  <1>14. ASSUME NEW p \in Proposals, NEW u \in Turns, ResumeTurn(p, u) PROVE TaskStep(t)
    BY <1>11, <1>14 DEF ResumeTurn, TaskStep
  <1>15. ASSUME Crash PROVE TaskStep(t)
    BY <1>15 DEF Crash, NoTurn, TaskStep
  <1>16. ASSUME UNCHANGED turn PROVE TaskStep(t)
    BY <1>16 DEF TaskStep
  <1>17. {"ask", "stream", "propose"} \subseteq Interrupts
    BY DEF Interrupts
  <1> QED
    BY <1>2, <1>3, <1>4, <1>5, <1>7, <1>8, <1>9, <1>10, <1>12, <1>13, <1>14, <1>15,
       <1>16, <1>17
    DEF Next, SessionStep, MessageStep, TurnStep, ProposalStep, vars, AskHuman, StreamReply,
        ProposeArtifact, MeetHolder, RefuseCreate, Send, QueueMessage, RefuseMessage,
        CreateSession, ExpireHolder,
        RetryCreate, DeleteSession, GoIdle, ExpireIdle,
        CompleteSession, Approve, ApproveRebases, Reject, RequestEdit, ResumeSkipped, Decide

-----------------------------------------------------------------------------
(* What a step does to the row of a session that is not raced afterwards:  *)
(* nothing but GoIdle changes the row without changing these columns.      *)
Rewrites(s, st, intr, parked) ==
    row'[s].status = st /\ row'[s].interrupt = intr /\ row'[s].parked = parked

Same(s)    == Rewrites(s, row[s].status, row[s].interrupt, row[s].parked)
Created(s) == row[s].status = "absent" /\ Rewrites(s, "waiting", "none", "none")
Removed(s) == Rewrites(s, "deleted", "none", "none")
Lapsed(s)  ==
    row[s].status \in Holding /\ row[s].idle /\ Rewrites(s, "expired", "none", row[s].parked)
Revived(s) == Rewrites(s, "active", "none", row[s].parked)

Worked(t, s) ==
    /\ turn[t].session = s
    /\ \/ BeginFresh(t) /\ Rewrites(s, row[s].status, row[s].interrupt, "none")
       \/ BeginReplay(t) /\ Rewrites(s, PauseStatus(row[s].parked), row[s].parked, "none")
       \/ AskHuman(t) /\ Rewrites(s, "waiting", "ask", "ask")
       \/ StreamReply(t) /\ Rewrites(s, "active", "stream", "stream")
       \/ /\ \E p \in Proposals : ProposeArtifact(t, p)
          /\ Rewrites(s, "waiting", "propose", "propose")

Recorded(t, s) ==
    LET st == Outcome(turn[t].pc, row[s].status)
    IN  /\ turn[t].session = s /\ FinishTurn(t)
        /\ Rewrites(s, st, OutcomeInterrupt(turn[t].pc, st, row[s].interrupt), row[s].parked)

Accepted(m, t, s) == message[m].session = s /\ AcceptMessage(m, t) /\ Revived(s)
Drained(t, s)     == turn[t].session = s /\ StartQueued(t) /\ Revived(s)
Resumed(p, t, s)  == proposal[p].session = s /\ ResumeTurn(p, t) /\ Revived(s)

Completed(p, s) ==
    /\ proposal[p].session = s /\ CompleteSession(p)
    /\ row[s].status = "waiting" /\ AllDecided(s)
    /\ Rewrites(s, "completed", "none", row[s].parked)

(* What a task is about to write was read from the row as it still is.     *)
Records(t, s) ==
    turn[t].session = s /\ turn[t].pc \in {"ended", "capped", "failed"} /\ turn[t].seen # AbsentRow

SeenIsCurrent ==
    \A s \in Sessions \ raced, t \in Turns :
        Records(t, s) /\ Exists(s) => SameRow(turn[t].seen, s)

(* The task reads the row because it will change a column of it.           *)
PendingFits ==
    \A s \in Sessions, t \in Turns :
        Records(t, s) => \/ StatusLeft(t) # turn[t].seen.status
                         \/ InterruptLeft(t) # turn[t].seen.interrupt

RowCases(s) ==
    \/ Same(s) \/ Created(s) \/ Removed(s) \/ Lapsed(s)
    \/ \E t \in Turns : Worked(t, s) \/ Recorded(t, s) \/ Drained(t, s)
    \/ \E m \in Messages, t \in Turns : Accepted(m, t, s)
    \/ \E p \in Proposals : Completed(p, s)
    \/ \E p \in Proposals, t \in Turns : Resumed(p, t, s)

LEMMA RowFrom ==
    ASSUME Typed, OpeningIsAbsent, SeenIsCurrent, [Next]_vars, NEW s \in Sessions,
           s \notin raced'
    PROVE  RowCases(s)
  <1> USE DEF Typed, TypeOK, Linked
  <1>1. ASSUME NEW o \in Sessions, NEW st, NEW intr, NEW parked, Mark(o, st, intr, parked)
        PROVE  IF o = s THEN Rewrites(s, st, intr, parked) ELSE Same(s)
    <2>1. CASE o = s
      BY <1>1, <2>1, Marked DEF Rewrites
    <2>2. CASE o # s
      BY <1>1, <2>2, Marked DEF Rewrites, Same
    <2> QED
      BY <2>1, <2>2
  <1>2. ASSUME NEW o \in Sessions, NEW st, NEW intr, Write(o, st, intr)
        PROVE  IF o = s THEN Rewrites(s, st, intr, row[s].parked) ELSE Same(s)
    <2>1. CASE o = s
      BY <1>2, <2>1, Written, ZenonT(40) DEF Rewrites
    <2>2. CASE o # s
      BY <1>2, <2>2, Written DEF Rewrites, Same
    <2> QED
      BY <2>1, <2>2
  <1>3. ASSUME NEW o \in Sessions, ExpireHolder(o) PROVE Same(s) \/ Lapsed(s)
    <2> DEFINE h == opening[o].holder
    <2>1. h \in Sessions /\ row[h].status \in Holding
      BY <1>3 DEF ExpireHolder
    <2>2. CASE h # s
      BY <1>2, <1>3, <2>1, <2>2 DEF ExpireHolder
    <2>3. CASE h = s
      <3>1. opening[o].seen = row[s]
        BY <1>3, <2>3 DEF ExpireHolder, NoteRace
      <3> QED
        BY <1>2, <1>3, <2>1, <2>3, <3>1 DEF ExpireHolder, Lapsed
    <2> QED
      BY <2>2, <2>3
  <1>4. ASSUME NEW o \in Sessions, RetryCreate(o) PROVE Same(s) \/ Created(s)
    <2>1. row[o].status = "absent"
      BY <1>4 DEF RetryCreate, OpeningIsAbsent
    <2> QED
      BY <1>1, <1>4, <2>1 DEF RetryCreate, Created
  <1>5. ASSUME NEW o \in Sessions, GoIdle(o) PROVE Same(s)
    BY <1>5 DEF GoIdle, Same, Rewrites
  <1>6. ASSUME UNCHANGED row PROVE Same(s)
    BY <1>6 DEF Same, Rewrites
  <1>7. ASSUME NEW m \in Messages, NEW t \in Turns, AcceptMessage(m, t)
        PROVE  Same(s) \/ Accepted(m, t, s)
    <2>1. message[m].session \in Sessions
      BY <1>7 DEF AcceptMessage
    <2>2. CASE message[m].session # s
      BY <1>2, <1>7, <2>1, <2>2 DEF AcceptMessage
    <2>3. CASE message[m].session = s
      <3>1. SameRow(message[m].seen, s)
        BY <1>7, <2>3 DEF AcceptMessage, NoteRace
      <3>2. Revived(s)
        BY <1>2, <1>7, <2>3, <3>1 DEF AcceptMessage, SameRow, Revived
      <3> QED
        BY <1>7, <2>3, <3>2 DEF Accepted
    <2> QED
      BY <2>2, <2>3
  <1>8. ASSUME NEW t \in Turns, StartQueued(t) PROVE Same(s) \/ Drained(t, s)
    <2>1. turn[t].session \in Sessions
      BY <1>8 DEF StartQueued
    <2>2. CASE turn[t].session # s
      BY <1>2, <1>8, <2>1, <2>2 DEF StartQueued
    <2>3. CASE turn[t].session = s
      <3>1. SameRow(turn[t].seen, s)
        BY <1>8, <2>3 DEF StartQueued, NoteRace
      <3>2. Revived(s)
        BY <1>2, <1>8, <2>3, <3>1 DEF StartQueued, SameRow, Revived
      <3> QED
        BY <1>8, <2>3, <3>2 DEF Drained
    <2> QED
      BY <2>2, <2>3
  <1>9. ASSUME NEW t \in Turns, FinishTurn(t) PROVE Same(s) \/ Recorded(t, s)
    <2> DEFINE st == Outcome(turn[t].pc, row[s].status)
    <2>1. turn[t].session \in Sessions
      BY <1>9 DEF FinishTurn
    <2>2. CASE turn[t].session # s
      BY <1>2, <1>9, <2>1, <2>2 DEF FinishTurn
    <2>3. CASE turn[t].session = s
      <3>1. s \notin raced
        BY <1>9 DEF FinishTurn
      <3>2. SameRow(turn[t].seen, s)
        BY <1>9, <2>3, <3>1 DEF FinishTurn, SeenIsCurrent, Records
      <3>3. StatusLeft(t) = st /\ InterruptLeft(t) = OutcomeInterrupt(turn[t].pc, st, row[s].interrupt)
        BY <3>2 DEF StatusLeft, InterruptLeft, SameRow
      <3>4. InterruptLeft(t) \in {"none", row[s].interrupt}
        BY <3>3 DEF OutcomeInterrupt
      <3>5. Rewrites(s, st, OutcomeInterrupt(turn[t].pc, st, row[s].interrupt), row[s].parked)
        BY <1>2, <1>9, <2>3, <3>2, <3>3, <3>4 DEF FinishTurn, SameRow
      <3> QED
        BY <1>9, <2>3, <3>5 DEF Recorded
    <2> QED
      BY <2>2, <2>3
  <1>10. ASSUME NEW t \in Turns,
                \/ BeginFresh(t) \/ BeginReplay(t) \/ AskHuman(t) \/ StreamReply(t)
                \/ \E p \in Proposals : ProposeArtifact(t, p)
         PROVE  Same(s) \/ Worked(t, s)
    <2>1. turn[t].session \in Sessions
      BY <1>10 DEF BeginFresh, BeginReplay, AskHuman, StreamReply, ProposeArtifact, Pause
    <2>2. CASE BeginFresh(t)
      BY <1>1, <2>1, <2>2 DEF BeginFresh, Worked
    <2>3. CASE BeginReplay(t)
      BY <1>1, <2>1, <2>3 DEF BeginReplay, Worked
    <2>4. CASE AskHuman(t)
      BY <1>1, <2>1, <2>4 DEF AskHuman, Pause, PauseStatus, Worked
    <2>5. CASE StreamReply(t)
      BY <1>1, <2>1, <2>5 DEF StreamReply, Pause, PauseStatus, Worked
    <2>6. CASE \E p \in Proposals : ProposeArtifact(t, p)
      BY <1>1, <2>1, <2>6 DEF ProposeArtifact, Pause, PauseStatus, Worked
    <2> QED
      BY <1>10, <2>2, <2>3, <2>4, <2>5, <2>6
  <1>11. ASSUME NEW p \in Proposals, CompleteSession(p) PROVE Same(s) \/ Completed(p, s)
    <2>1. proposal[p].session \in Sessions
      BY <1>11 DEF CompleteSession
    <2>2. CASE UNCHANGED row
      BY <1>6, <2>2
    <2>3. CASE ~UNCHANGED row
      BY <1>2, <1>11, <2>1, <2>3 DEF CompleteSession, Completed
    <2> QED
      BY <2>2, <2>3
  <1>12. ASSUME NEW p \in Proposals, NEW t \in Turns, ResumeTurn(p, t)
         PROVE  Same(s) \/ Resumed(p, t, s)
    <2>1. proposal[p].session \in Sessions
      BY <1>12 DEF ResumeTurn
    <2>2. Write(proposal[p].session, "active", "none")
      BY <1>12 DEF ResumeTurn
    <2> QED
      BY <1>2, <1>12, <2>1, <2>2 DEF Resumed, Revived
  <1>13. ASSUME NEW o \in Sessions, SessionStep(o)
         PROVE  Same(s) \/ Created(s) \/ Removed(s) \/ Lapsed(s)
    BY <1>1, <1>2, <1>3, <1>4, <1>5, <1>6, <1>13
    DEF SessionStep, CreateSession, MeetHolder, RefuseCreate, DeleteSession, ExpireIdle,
        Expirable, Created, Removed, Lapsed
  <1>14. ASSUME NEW m \in Messages, MessageStep(m)
         PROVE  Same(s) \/ \E t \in Turns : Accepted(m, t, s)
    BY <1>6, <1>7, <1>14 DEF MessageStep, Send, QueueMessage, RefuseMessage
  <1>15. ASSUME NEW t \in Turns, TurnStep(t)
         PROVE  Same(s) \/ Worked(t, s) \/ Recorded(t, s) \/ Drained(t, s)
    BY <1>6, <1>8, <1>9, <1>10, <1>15
    DEF TurnStep, BeginFresh, EndTurn, HitCap, FailTurn, ReadOutcome, DropTurn,
        PickQueued, LeaveQueue, StartQueuedFails
  <1>16. ASSUME NEW p \in Proposals, ProposalStep(p)
         PROVE  Same(s) \/ Completed(p, s) \/ \E t \in Turns : Resumed(p, t, s)
    BY <1>6, <1>11, <1>12, <1>16
    DEF ProposalStep, Approve, ApproveRebases, Reject, RequestEdit, Decide, ResumeSkipped
  <1>17. ASSUME Crash \/ UNCHANGED vars PROVE Same(s)
    BY <1>6, <1>17 DEF Crash, vars
  <1> QED
    BY <1>13, <1>14, <1>15, <1>16, <1>17 DEF Next, RowCases

-----------------------------------------------------------------------------
(* While nothing races *)

(* Each session has at most one task.                                      *)
OneTask == \A s \in Sessions \ raced : \A t, u \in Turns : Live(t, s) /\ Live(u, s) => t = u

(* The message a drain has picked is still in the queue.                   *)
PickedWaits ==
    \A t \in Turns :
        turn[t].pc = "draining" /\ turn[t].session \notin raced =>
            message[turn[t].picked].stage = "queued"

(* A turn at work, or that came to an end of its own and has not recorded   *)
(* it, works for a session in the slot.                                    *)
AtWork(t, s) ==
    turn[t].session = s /\ turn[t].pc \in {"starting", "running", "ended", "capped"}

WorkHolds ==
    \A s \in Sessions \ raced, t \in Turns :
        AtWork(t, s) /\ Exists(s) => row[s].status \in Holding

(* One that paused or failed leaves its session in the slot, unless an     *)
(* approval completes it meanwhile.                                        *)
Halts(t, s) == turn[t].session = s /\ turn[t].pc \in {"halted", "failed"}

HaltHolds ==
    \A s \in Sessions \ raced, t \in Turns :
        Halts(t, s) /\ Exists(s) => row[s].status \in Holding \cup {"completed"}

(* The proposals whose decision, or its second transaction, is to come.    *)
Undecided(s) ==
    {p \in Proposals : /\ proposal[p].session = s
                       /\ proposal[p].verdict = "proposed" \/ proposal[p].followUp # "none"}

(* The session asks for approval, or is over.                              *)
Awaits(s) ==
    \/ row[s].status = "waiting" /\ row[s].interrupt = "propose"
    \/ row[s].status \in {"expired", "deleted"}

(* A session has at most one undecided proposal; it is the one the session *)
(* asks about, and no turn is at work then.                                *)
Asked ==
    \A s \in Sessions \ raced :
        /\ \A p, q \in Undecided(s) : p = q
        /\ Undecided(s) # {} => Awaits(s) /\ \A t \in Turns : ~AtWork(t, s)

(* A session that expired or was deleted asks for nothing.                 *)
OverIsClear ==
    \A s \in Sessions \ raced :
        row[s].status \in {"expired", "deleted"} => row[s].interrupt = "none"

AllApproved(s) ==
    \A p \in Proposed(s) : proposal[p].verdict = "executed" /\ proposal[p].followUp = "none"

(* Once everything was approved the session does not ask for approval, and *)
(* nobody will resume the approval interrupt that is left in the           *)
(* checkpoint, which would ask again.                                      *)
Released ==
    \A s \in Sessions \ raced :
        crashes = 0 /\ AllApproved(s) =>
            /\ ~(row[s].status = "waiting" /\ row[s].interrupt = "propose")
            /\ row[s].parked = "propose" =>
                   /\ row[s].interrupt = "none"
                   /\ \A t \in Turns :
                          turn[t].session = s /\ turn[t].pc = "starting" => turn[t].input = "fresh"

LEMMA RacedGrows == ASSUME [Next]_vars PROVE raced \subseteq raced'
  BY ZenonT(40) DEF Next, SessionStep, MessageStep, TurnStep, ProposalStep, vars, NoteRace, CreateSession,
       MeetHolder, ExpireHolder, RetryCreate, RefuseCreate, DeleteSession, GoIdle, ExpireIdle,
       Send, QueueMessage, AcceptMessage, RefuseMessage, BeginFresh, BeginReplay, AskHuman,
       StreamReply, ProposeArtifact, Pause, EndTurn, HitCap, FailTurn, ReadOutcome, FinishTurn, DropTurn,
       PickQueued, LeaveQueue, StartQueued, StartQueuedFails, Approve, ApproveRebases, Reject,
       RequestEdit, Decide, CompleteSession, ResumeTurn, ResumeSkipped, Crash

LEMMA KillsGrow == ASSUME Typed, [Next]_vars, crashes' = 0 PROVE crashes = 0 /\ ~Crash
  <1>1. crashes \in Nat
    BY MaxCrashesAssumption DEF Typed, TypeOK
  <1>2. CASE Crash
    BY <1>1, <1>2 DEF Crash
  <1>3. CASE UNCHANGED crashes
    BY <1>2, <1>3
  <1> QED
    BY <1>2, <1>3, ZenonT(40)
    DEF Next, SessionStep, MessageStep, TurnStep, ProposalStep, vars, CreateSession,
       MeetHolder, ExpireHolder, RetryCreate, RefuseCreate, DeleteSession, GoIdle, ExpireIdle,
       Send, QueueMessage, AcceptMessage, RefuseMessage, BeginFresh, BeginReplay, AskHuman,
       StreamReply, ProposeArtifact, Pause, EndTurn, HitCap, FailTurn, ReadOutcome, FinishTurn, DropTurn,
       PickQueued, LeaveQueue, StartQueued, StartQueuedFails, Approve, ApproveRebases, Reject,
       RequestEdit, Decide, CompleteSession, ResumeTurn, ResumeSkipped

(* A task comes to drain the queue by picking a message.                   *)
LEMMA DrainingFrom ==
    ASSUME Typed, [Next]_vars, NEW t \in Turns, turn'[t].pc = "draining"
    PROVE  UNCHANGED turn[t] \/ \E m \in Messages : PickQueued(t, m)
  <1>1. ASSUME NEW s, NEW input, StartTurn(t, s, input) PROVE FALSE
    BY <1>1, Started DEF Typed, TypeOK
  <1>2. ~(\E m \in Messages : AcceptMessage(m, t)) /\ ~(\E p \in Proposals : ResumeTurn(p, t))
    BY <1>1 DEF AcceptMessage, ResumeTurn
  <1> QED
    BY <1>2, TurnFrom DEF TaskStep, Advances, Launches, ReadOutcome

LEMMA PickedOwnStep == ASSUME Typed, PickedOwn, [Next]_vars PROVE PickedOwn'
  <1> SUFFICES ASSUME NEW t \in Turns, turn'[t].pc = "draining"
               PROVE  /\ message'[turn'[t].picked].session = turn'[t].session
                      /\ Drainable(turn'[t].seen.status)
    BY DEF PickedOwn
  <1>1. UNCHANGED turn[t] \/ \E m \in Messages : PickQueued(t, m)
    BY DrainingFrom
  <1>2. ASSUME NEW m \in Messages, PickQueued(t, m)
        PROVE  /\ message'[turn'[t].picked].session = turn'[t].session
               /\ Drainable(turn'[t].seen.status)
    BY <1>2 DEF PickQueued, Oldest, Queued, Typed, TypeOK
  <1>3. CASE UNCHANGED turn[t]
    <2>1. Picked(turn[t].picked)
      BY <1>3 DEF Typed, Linked
    <2> QED
      BY <1>3, <2>1, MessageFrom DEF Picked, PickedOwn
  <1> QED
    BY <1>1, <1>2, <1>3

LEMMA OneTaskStep == ASSUME Typed, OneTask, [Next]_vars PROVE OneTask'
  <1> SUFFICES ASSUME NEW s \in Sessions, s \notin raced', NEW t \in Turns, NEW u \in Turns,
                      Live(t, s)', Live(u, s)', t # u
               PROVE  FALSE
    BY DEF OneTask
  <1>1. Live(t, s) /\ Live(u, s)
    BY LiveFrom DEF Starts, Live
  <1> QED
    BY <1>1, RacedGrows DEF OneTask

LEMMA PickedWaitsStep ==
    ASSUME Typed, PickedOwn, OneTask, PickedWaits, [Next]_vars
    PROVE  PickedWaits'
  <1> SUFFICES ASSUME NEW t \in Turns, turn'[t].pc = "draining", turn'[t].session \notin raced'
               PROVE  message'[turn'[t].picked].stage = "queued"
    BY DEF PickedWaits
  <1>1. UNCHANGED turn[t] \/ \E m \in Messages : PickQueued(t, m)
    BY DrainingFrom
  <1>2. ASSUME NEW m \in Messages, PickQueued(t, m)
        PROVE  message'[turn'[t].picked].stage = "queued"
    BY <1>2 DEF PickQueued, Oldest, Queued, Typed, TypeOK
  <1>3. CASE UNCHANGED turn[t]
    <2> DEFINE m == turn[t].picked
               s == turn[t].session
    <2>1. m \in Messages /\ s \in Sessions \ raced /\ message[m].session = s
      BY <1>3, RacedGrows DEF Typed, Linked, Picked, PickedOwn
    <2>2. message[m].stage = "queued"
      BY <1>3, RacedGrows DEF PickedWaits
    <2>3. ASSUME NEW u \in Turns, StartQueued(u), turn[u].picked = m PROVE FALSE
      <3>1. Live(u, s) /\ Live(t, s)
        BY <1>3, <2>1, <2>3 DEF StartQueued, PickedOwn, Live
      <3>2. u = t
        BY <2>1, <3>1 DEF OneTask
      <3> QED
        BY <1>3, <2>3, <3>2, Started DEF StartQueued, Typed, TypeOK
    <2> QED
      BY <1>3, <2>1, <2>2, <2>3, MessageFrom
  <1> QED
    BY <1>1, <1>2, <1>3

LEMMA StartedOnceStep ==
    ASSUME Typed, QueuedFresh, PickedOwn, PickedWaits, StartedOnce, [Next]_vars
    PROVE  StartedOnce'
  <1> SUFFICES ASSUME NEW m \in Messages, message'[m].stage # "unsent",
                      message'[m].session \notin raced'
               PROVE  message'[m].copies <= 1
    BY DEF StartedOnce
  <1>1. ASSUME NEW t \in Turns, StartQueued(t), turn[t].picked = m,
               message'[m].session = message[m].session
        PROVE  message[m].copies = 0
    BY <1>1, RacedGrows DEF StartQueued, PickedOwn, PickedWaits, QueuedFresh
  <1>2. CASE UNCHANGED message[m]
    BY <1>2, RacedGrows DEF StartedOnce
  <1> QED
    BY <1>1, <1>2, MessageFrom

(* What the requests that start a turn found, when they raced with nobody. *)
LEMMA AcceptedFrom ==
    ASSUME Typed, NEW m \in Messages, NEW t \in Turns, AcceptMessage(m, t),
           message[m].session \notin raced'
    PROVE  LET s == message[m].session
           IN  /\ s \in Sessions /\ Exists(s) /\ turn[t].pc = "idle" /\ MayAccept(row[s])
               /\ turn'[t].pc = "starting" /\ turn'[t].session = s
               /\ turn'[t].input = IF row[s].status = "turn_failed" \/ row[s].interrupt = "none"
                                   THEN "fresh" ELSE "resume"
               /\ row'[s].status = "active"
  <1> DEFINE s == message[m].session
             seen == message[m].seen
  <1> USE DEF Typed, TypeOK, Linked
  <1>1. s \in Sessions /\ Exists(s) /\ turn[t].pc = "idle"
    BY DEF AcceptMessage
  <1>2. seen.status = row[s].status /\ seen.interrupt = row[s].interrupt
    BY DEF AcceptMessage, NoteRace, SameRow
  <1>3. MayAccept(row[s])
    BY <1>2 DEF AcceptMessage, MayAccept, MustQueue
  <1>4. row'[s].status = "active"
    BY <1>1, <1>2, Written DEF AcceptMessage
  <1>5. /\ turn'[t].pc = "starting" /\ turn'[t].session = s
        /\ turn'[t].input = IF row[s].status = "turn_failed" \/ row[s].interrupt = "none"
                            THEN "fresh" ELSE "resume"
    BY <1>2, Started DEF AcceptMessage
  <1> QED
    BY <1>1, <1>3, <1>4, <1>5

LEMMA DrainedFrom ==
    ASSUME Typed, PickedOwn, NEW t \in Turns, StartQueued(t), turn[t].session \notin raced'
    PROVE  LET s == turn[t].session
           IN  /\ s \in Sessions /\ Exists(s) /\ Live(t, s) /\ Drainable(row[s].status)
               /\ turn'[t].pc = "starting" /\ turn'[t].session = s /\ turn'[t].input = "fresh"
               /\ row'[s].status = "active"
  <1> DEFINE s == turn[t].session
  <1> USE DEF Typed, TypeOK, Linked
  <1>1. s \in Sessions /\ Exists(s) /\ Live(t, s)
    BY DEF StartQueued, Live
  <1>2. turn[t].seen.status = row[s].status
    BY DEF StartQueued, NoteRace, SameRow
  <1>3. Drainable(row[s].status)
    BY <1>2 DEF StartQueued, PickedOwn
  <1>4. row'[s].status = "active"
    BY <1>1, Written DEF StartQueued
  <1>5. turn'[t].pc = "starting" /\ turn'[t].session = s /\ turn'[t].input = "fresh"
    BY Started DEF StartQueued
  <1> QED
    BY <1>1, <1>3, <1>4, <1>5

LEMMA ResumedFrom ==
    ASSUME Typed, NEW p \in Proposals, NEW t \in Turns, ResumeTurn(p, t)
    PROVE  LET s == proposal[p].session
           IN  /\ s \in Sessions /\ row[s].status = "waiting" /\ turn[t].pc = "idle"
               /\ proposal[p].followUp = "resume" /\ proposal'[p].followUp = "none"
               /\ turn'[t].pc = "starting" /\ turn'[t].session = s
               /\ row'[s].status = "active"
  <1> USE DEF Typed, TypeOK, Linked
  <1>1. proposal[p].session \in Sessions
    BY DEF ResumeTurn
  <1>2. proposal'[p].followUp = "none"
    BY DEF ResumeTurn, FollowedUp, Answered
  <1>3. turn'[t].pc = "starting" /\ turn'[t].session = proposal[p].session
    BY Started DEF ResumeTurn
  <1> QED
    BY <1>1, <1>2, <1>3, Written DEF ResumeTurn

(* A turn at work was at work, or starts now on a row that becomes ACTIVE. *)
LEMMA WorkFrom ==
    ASSUME Typed, PickedOwn, [Next]_vars, NEW s \in Sessions, s \notin raced',
           NEW t \in Turns, AtWork(t, s)'
    PROVE  \/ AtWork(t, s)
           \/ /\ row'[s].status = "active"
              /\ \/ StartQueued(t) /\ turn[t].session = s
                 \/ \E m \in Messages : AcceptMessage(m, t) /\ message[m].session = s
                 \/ \E p \in Proposals : ResumeTurn(p, t) /\ proposal[p].session = s
  <1>1. ASSUME NEW m \in Messages, AcceptMessage(m, t)
        PROVE  row'[s].status = "active" /\ message[m].session = s
    <2>1. message[m].session = s
      BY <1>1, Started DEF AcceptMessage, AtWork, Typed, TypeOK
    <2> QED
      BY <1>1, <2>1, AcceptedFrom
  <1>2. ASSUME NEW p \in Proposals, ResumeTurn(p, t)
        PROVE  row'[s].status = "active" /\ proposal[p].session = s
    BY <1>2, ResumedFrom DEF AtWork
  <1>3. ASSUME StartQueued(t), turn'[t].session = turn[t].session
        PROVE  row'[s].status = "active" /\ turn[t].session = s
    BY <1>3, DrainedFrom DEF AtWork
  <1>4. ASSUME NEW m \in Messages, PickQueued(t, m) PROVE FALSE
    BY <1>4 DEF PickQueued, AtWork, Typed, TypeOK
  <1> QED
    BY <1>1, <1>2, <1>3, <1>4, TurnFrom
    DEF TaskStep, Advances, Launches, AtWork, BeginFresh, BeginReplay

(* What happens to the row of a session while its task goes on.            *)
LEMMA RowOfLive ==
    ASSUME Typed, Bookkeeping, SeenIsCurrent, OneTask, OneTask', [Next]_vars,
           NEW s \in Sessions, s \notin raced', NEW t \in Turns, Live(t, s), Live(t, s)'
    PROVE  \/ Same(s) \/ Removed(s) \/ Worked(t, s) \/ Recorded(t, s) \/ Drained(t, s)
           \/ \E p \in Proposals : Completed(p, s)
  <1> USE DEF Bookkeeping
  <1>1. s \notin raced
    BY RacedGrows
  <1>2. ~Created(s) /\ ~Lapsed(s)
    BY DEF Created, Lapsed, LiveIsMade, IdleIsQuiet
  <1>3. ASSUME NEW u \in Turns, Live(u, s) PROVE u = t
    BY <1>1, <1>3 DEF OneTask
  <1>4. ASSUME NEW u \in Turns, Worked(u, s) \/ Recorded(u, s) \/ Drained(u, s) PROVE u = t
    BY <1>3, <1>4
    DEF Worked, Recorded, Drained, Live, BeginFresh, BeginReplay, AskHuman, StreamReply,
        ProposeArtifact, Pause, FinishTurn, StartQueued
  <1>5. ASSUME NEW m \in Messages, NEW u \in Turns, Accepted(m, u, s) PROVE FALSE
    <2>1. turn[u].pc = "idle" /\ Live(u, s)'
      BY <1>5, AcceptedFrom DEF Accepted, Live
    <2>2. u = t
      BY <2>1 DEF OneTask
    <2> QED
      BY <2>1, <2>2 DEF Live
  <1>6. ASSUME NEW p \in Proposals, NEW u \in Turns, Resumed(p, u, s) PROVE FALSE
    <2>1. turn[u].pc = "idle" /\ Live(u, s)'
      BY <1>6, ResumedFrom DEF Resumed, Live
    <2>2. u = t
      BY <2>1 DEF OneTask
    <2> QED
      BY <2>1, <2>2 DEF Live
  <1> QED
    BY <1>2, <1>4, <1>5, <1>6, RowFrom DEF RowCases

(* An approval completes no session that has a turn at work.               *)
LEMMA CompletedIsAsked ==
    ASSUME Asked, NEW s \in Sessions \ raced, NEW p \in Proposals, Completed(p, s),
           NEW t \in Turns
    PROVE  ~AtWork(t, s)
  <1>1. p \in Undecided(s)
    BY DEF Completed, CompleteSession, Undecided
  <1> QED
    BY <1>1 DEF Asked

LEMMA WorkStep ==
    ASSUME Typed, Bookkeeping, SeenIsCurrent, OneTask, OneTask', WorkHolds, Asked, [Next]_vars
    PROVE  WorkHolds'
  <1> SUFFICES ASSUME NEW s \in Sessions, s \notin raced', NEW t \in Turns, AtWork(t, s)',
                      Exists(s)'
               PROVE  row'[s].status \in Holding
    BY DEF WorkHolds
  <1> USE DEF Bookkeeping
  <1>1. CASE row'[s].status = "active"
    BY <1>1 DEF Holding
  <1>2. CASE AtWork(t, s)
    <2>1. s \notin raced
      BY RacedGrows
    <2>2. Live(t, s) /\ Live(t, s)'
      BY <1>2 DEF AtWork, Live
    <2>3. row[s].status \in Holding
      <3>1. row[s].status # "absent"
        BY <2>2 DEF LiveIsMade
      <3>2. Exists(s)
        BY <3>1, GoneLeaves DEF Exists
      <3> QED
        BY <1>2, <2>1, <3>2 DEF WorkHolds
    <2>4. ~Removed(s)
      BY DEF Removed, Rewrites, Exists, Gone
    <2>5. ~Recorded(t, s)
      BY Seeing DEF Recorded, FinishTurn, AtWork, Typed, TypeOK
    <2>6. ASSUME NEW p \in Proposals, Completed(p, s) PROVE FALSE
      BY <1>2, <2>1, <2>6, CompletedIsAsked
    <2>7. ASSUME Worked(t, s) PROVE row'[s].status \in Holding
      BY <2>3, <2>7, PauseStatusType DEF Worked, Rewrites, Holding
    <2>8. Drained(t, s) => row'[s].status \in Holding
      BY DEF Drained, Revived, Rewrites, Holding
    <2>9. Same(s) => row'[s].status \in Holding
      BY <2>3 DEF Same, Rewrites
    <2> QED
      BY <2>2, <2>4, <2>5, <2>6, <2>7, <2>8, <2>9, RowOfLive
  <1> QED
    BY <1>1, <1>2, WorkFrom

(* A turn that halts did so before, or was at work, and pauses or fails.   *)
LEMMA HaltsFrom ==
    ASSUME Typed, [Next]_vars, NEW s \in Sessions, NEW t \in Turns, Halts(t, s)'
    PROVE  \/ Halts(t, s)
           \/ AtWork(t, s) /\ UNCHANGED row
           \/ AtWork(t, s) /\ \E kind \in Interrupts : Pause(t, kind)
  <1>1. ASSUME NEW m \in Messages, PickQueued(t, m) PROVE FALSE
    BY <1>1 DEF PickQueued, Halts, Typed, TypeOK
  <1>2. ~(\E m \in Messages : AcceptMessage(m, t)) /\ ~(\E p \in Proposals : ResumeTurn(p, t))
    BY Started DEF AcceptMessage, ResumeTurn, Halts, Typed, TypeOK
  <1> QED
    BY <1>1, <1>2, TurnFrom
    DEF TaskStep, Advances, Launches, Halts, AtWork, FailTurn, Pause

LEMMA HaltStep ==
    ASSUME Typed, Bookkeeping, SeenIsCurrent, OneTask, OneTask', WorkHolds, HaltHolds, [Next]_vars
    PROVE  HaltHolds'
  <1> SUFFICES ASSUME NEW s \in Sessions, s \notin raced', NEW t \in Turns, Halts(t, s)',
                      Exists(s)'
               PROVE  row'[s].status \in Holding \cup {"completed"}
    BY DEF HaltHolds
  <1> USE DEF Bookkeeping
  <1>1. s \notin raced
    BY RacedGrows
  <1>2. CASE AtWork(t, s) /\ UNCHANGED row
    BY <1>1, <1>2 DEF WorkHolds, Exists
  <1>3. ASSUME AtWork(t, s), NEW kind \in Interrupts, Pause(t, kind)
        PROVE  row'[s].status \in Holding
    <2>1. Mark(s, PauseStatus(kind), kind, kind)
      BY <1>3 DEF Pause, AtWork
    <2>2. row'[s].status = PauseStatus(kind)
      BY <2>1, Marked DEF Typed, TypeOK
    <2> QED
      BY <2>2, PauseStatusType
  <1>4. CASE Halts(t, s)
    <2>1. Live(t, s) /\ Live(t, s)'
      BY <1>4 DEF Halts, Live
    <2>2. row[s].status \in Holding \cup {"completed"}
      <3>1. row[s].status # "absent"
        BY <2>1 DEF LiveIsMade
      <3>2. Exists(s)
        BY <3>1, GoneLeaves DEF Exists
      <3> QED
        BY <1>1, <1>4, <3>2 DEF HaltHolds
    <2>3. ~Removed(s)
      BY DEF Removed, Rewrites, Exists, Gone
    <2>4. ~Worked(t, s) /\ ~Drained(t, s)
      BY <1>4
      DEF Halts, Worked, Drained, BeginFresh, BeginReplay, AskHuman, StreamReply,
          ProposeArtifact, Pause, StartQueued
    <2>5. ~Recorded(t, s)
      BY Seeing DEF Recorded, FinishTurn, Halts, Typed, TypeOK
    <2>6. ASSUME NEW p \in Proposals, Completed(p, s) PROVE row'[s].status = "completed"
      BY <2>6 DEF Completed, Rewrites
    <2> QED
      BY <2>1, <2>2, <2>3, <2>4, <2>5, <2>6, RowOfLive DEF Same, Rewrites
  <1> QED
    BY <1>2, <1>3, <1>4, HaltsFrom

(* A task about to write read the row just now, or had read it.            *)
LEMMA RecordsFrom ==
    ASSUME Typed, NothingSeen, [Next]_vars, NEW s \in Sessions, NEW t \in Turns, Records(t, s)'
    PROVE  \/ Records(t, s) /\ UNCHANGED turn[t]
           \/ /\ ReadOutcome(t) /\ turn[t].session = s /\ turn'[t].pc = turn[t].pc
              /\ turn'[t].seen = row[s]
  <1>1. ASSUME NEW m \in Messages, PickQueued(t, m) PROVE FALSE
    BY <1>1 DEF PickQueued, Records, Typed, TypeOK
  <1>2. ~(\E m \in Messages : AcceptMessage(m, t)) /\ ~(\E p \in Proposals : ResumeTurn(p, t))
    BY Started DEF AcceptMessage, ResumeTurn, Records, Typed, TypeOK
  <1> QED
    BY <1>1, <1>2, TurnFrom DEF TaskStep, Advances, Launches, Records, NothingSeen

LEMMA PendingStep ==
    ASSUME Typed, NothingSeen, PendingFits, [Next]_vars
    PROVE  PendingFits'
  <1> SUFFICES ASSUME NEW s \in Sessions, NEW t \in Turns, Records(t, s)'
               PROVE  \/ StatusLeft(t)' # turn'[t].seen.status
                      \/ InterruptLeft(t)' # turn'[t].seen.interrupt
    BY DEF PendingFits
  <1>1. CASE Records(t, s) /\ UNCHANGED turn[t]
    BY <1>1 DEF PendingFits, StatusLeft, InterruptLeft
  <1>2. CASE /\ ReadOutcome(t) /\ turn[t].session = s /\ turn'[t].pc = turn[t].pc
             /\ turn'[t].seen = row[s]
    <2>1. turn[t].pc # "finished"
      BY <1>2 DEF ReadOutcome
    <2>2. ~Step(t, "finished")
      BY <1>2, <2>1, Stepped DEF Typed, TypeOK
    <2> QED
      BY <1>2, <2>2 DEF ReadOutcome, StatusLeft, InterruptLeft
  <1> QED
    BY <1>1, <1>2, RecordsFrom

LEMMA SeenStep ==
    ASSUME Typed, Bookkeeping, SeenIsCurrent, PendingFits, OneTask, OneTask', Asked, [Next]_vars
    PROVE  SeenIsCurrent'
  <1> SUFFICES ASSUME NEW s \in Sessions, s \notin raced', NEW t \in Turns, Records(t, s)',
                      Exists(s)'
               PROVE  SameRow(turn[t].seen, s)'
    BY DEF SeenIsCurrent
  <1> USE DEF Bookkeeping
  <1>1. s \notin raced
    BY RacedGrows
  <1>2. CASE ReadOutcome(t) /\ turn'[t].seen = row[s]
    BY <1>2 DEF ReadOutcome, SameRow
  <1>3. CASE Records(t, s) /\ UNCHANGED turn[t]
    <2>1. Live(t, s) /\ Live(t, s)'
      BY <1>3 DEF Records, Live
    <2>2. Exists(s)
      <3>1. row[s].status # "absent"
        BY <2>1 DEF LiveIsMade
      <3> QED
        BY <3>1, GoneLeaves DEF Exists
    <2>3. SameRow(turn[t].seen, s)
      BY <1>1, <1>3, <2>2 DEF SeenIsCurrent
    <2>4. ~Removed(s)
      BY DEF Removed, Rewrites, Exists, Gone
    <2>5. ~Worked(t, s) /\ ~Drained(t, s)
      BY <1>3
      DEF Records, Worked, Drained, BeginFresh, BeginReplay, AskHuman, StreamReply,
          ProposeArtifact, Pause, StartQueued
    <2>6. ~Recorded(t, s)
      BY <1>3, Seeing DEF Recorded, FinishTurn, Records, Typed, TypeOK
    <2>7. ASSUME NEW p \in Proposals, Completed(p, s) PROVE FALSE
      <3>1. turn[t].pc = "failed"
        BY <1>1, <1>3, <2>7, CompletedIsAsked DEF Records, AtWork
      <3>2. turn[t].seen.status = "waiting"
        BY <2>3, <2>7 DEF Completed, SameRow
      <3>3. StatusLeft(t) = turn[t].seen.status /\ InterruptLeft(t) = turn[t].seen.interrupt
        BY <3>1, <3>2 DEF StatusLeft, InterruptLeft, Outcome, OutcomeInterrupt
      <3> QED
        BY <1>3, <3>3 DEF PendingFits
    <2>8. Same(s)
      BY <2>1, <2>4, <2>5, <2>6, <2>7, RowOfLive
    <2> QED
      BY <1>3, <2>3, <2>8 DEF Same, Rewrites, SameRow
  <1> QED
    BY <1>2, <1>3, RecordsFrom

(* A failure is recorded on the row that was read, so it takes the         *)
(* interrupt along.                                                        *)
LEMMA TurnFailedStep ==
    ASSUME Typed, OpeningIsAbsent, SeenIsCurrent, TurnFailedIsClear, [Next]_vars
    PROVE  TurnFailedIsClear'
  <1> SUFFICES ASSUME NEW s \in Sessions, s \notin raced', row'[s].status = "turn_failed"
               PROVE  row'[s].interrupt = "none"
    BY DEF TurnFailedIsClear
  <1>1. row[s].status = "turn_failed" => row[s].interrupt = "none"
    BY RacedGrows DEF TurnFailedIsClear
  <1>2. ASSUME NEW t \in Turns, Worked(t, s) PROVE row'[s].interrupt = "none"
    BY <1>1, <1>2, PauseStatusType DEF Worked, Rewrites, Holding
  <1>3. ASSUME NEW t \in Turns, Recorded(t, s) PROVE row'[s].interrupt = "none"
    BY <1>1, <1>3 DEF Recorded, Rewrites, Outcome, OutcomeInterrupt
  <1> QED
    BY <1>1, <1>2, <1>3, RowFrom
    DEF RowCases, Same, Created, Removed, Lapsed, Revived, Drained, Accepted, Completed,
        Resumed, Rewrites

LEMMA NothingSeenStep == ASSUME Typed, NothingSeen, [Next]_vars PROVE NothingSeen'
  <1> SUFFICES ASSUME NEW t \in Turns, turn'[t].pc \in {"starting", "running", "halted"}
               PROVE  turn'[t].seen = AbsentRow
    BY DEF NothingSeen
  <1>1. ASSUME NEW m \in Messages, PickQueued(t, m) PROVE FALSE
    BY <1>1 DEF PickQueued, Typed, TypeOK
  <1>2. ASSUME NEW m \in Messages, AcceptMessage(m, t) PROVE turn'[t].seen = AbsentRow
    BY <1>2, Started DEF AcceptMessage, Typed, TypeOK
  <1>3. ASSUME NEW p \in Proposals, ResumeTurn(p, t) PROVE turn'[t].seen = AbsentRow
    BY <1>3, Started DEF ResumeTurn, Typed, TypeOK
  <1>4. ASSUME ReadOutcome(t), Advances(t, turn[t].pc, row[turn[t].session])
        PROVE  FALSE
    <2>1. turn[t].pc = "halted"
      BY <1>4 DEF ReadOutcome, Advances
    <2>2. Step(t, "finished")
      BY <1>4, <2>1 DEF ReadOutcome, Outcome, OutcomeInterrupt
    <2> QED
      BY <1>4, <2>1, <2>2, Stepped DEF Advances, Typed, TypeOK
  <1> QED
    BY <1>1, <1>2, <1>3, <1>4, TurnFrom
    DEF TaskStep, Advances, Launches, NothingSeen, BeginFresh, BeginReplay, Pause

(* A proposal is undecided because it was, or because a turn makes it now. *)
LEMMA UndecidedFrom ==
    ASSUME Typed, [Next]_vars, NEW s \in Sessions, NEW p \in Undecided(s)'
    PROVE  \/ p \in Undecided(s)
           \/ \E t \in Turns : ProposeArtifact(t, p) /\ turn[t].session = s
  <1>1. p \in Proposals /\ proposal'[p].session = s
        /\ (proposal'[p].verdict = "proposed" \/ proposal'[p].followUp # "none")
    BY DEF Undecided
  <1>2. ASSUME NEW t \in Turns, ProposeArtifact(t, p) PROVE turn[t].session = s
    BY <1>1, <1>2 DEF ProposeArtifact, Typed, TypeOK
  <1> QED
    BY <1>1, <1>2, ProposalFrom DEF Undecided

LEMMA AskedStep ==
    ASSUME Typed, Bookkeeping, SeenIsCurrent, OneTask, OneTask', HaltHolds, Asked, [Next]_vars
    PROVE  Asked'
  <1> USE DEF Bookkeeping
  <1> SUFFICES ASSUME NEW s \in Sessions, s \notin raced'
               PROVE  /\ \A p, q \in Undecided(s)' : p = q
                      /\ Undecided(s)' # {} => Awaits(s)' /\ \A t \in Turns : ~AtWork(t, s)'
    BY DEF Asked
  <1>1. s \notin raced
    BY RacedGrows
  <1>2. ASSUME NEW t \in Turns, NEW p \in Proposals, ProposeArtifact(t, p), turn[t].session = s
        PROVE  /\ Undecided(s)' \subseteq {p} /\ Awaits(s)'
               /\ \A u \in Turns : ~AtWork(u, s)'
    <2>1. turn[t].pc = "running" /\ turn'[t].pc = "halted" /\ turn'[t].session = s
      BY <1>2, Stepped DEF ProposeArtifact, Pause, Typed, TypeOK
    <2>2. Undecided(s) = {}
      BY <1>1, <1>2, <2>1 DEF Asked, AtWork
    <2>3. Awaits(s)'
      <3>1. Mark(s, "waiting", "propose", "propose")
        BY <1>2 DEF ProposeArtifact, Pause, PauseStatus
      <3>2. row'[s].status = "waiting" /\ row'[s].interrupt = "propose"
        BY <3>1, Marked DEF Typed, TypeOK
      <3> QED
        BY <3>2 DEF Awaits
    <2>4. ASSUME NEW u \in Turns, AtWork(u, s)' PROVE FALSE
      BY <2>1, <2>4 DEF OneTask, Live, AtWork
    <2>5. ASSUME NEW q \in Undecided(s)' PROVE q = p
      <3>1. PICK u \in Turns : ProposeArtifact(u, q)
        BY <2>2, <2>5, UndecidedFrom
      <3> QED
        BY <1>2, <2>5, <3>1 DEF ProposeArtifact, Undecided, Typed, TypeOK
    <2> QED
      BY <2>3, <2>4, <2>5
  <1>3. ASSUME NEW q \in Undecided(s), q \in Undecided(s)'
        PROVE  Awaits(s)' /\ \A t \in Turns : ~AtWork(t, s)'
    <2>1. Awaits(s) /\ \A t \in Turns : ~AtWork(t, s)
      BY <1>1, <1>3 DEF Asked
    <2>2. ASSUME NEW p \in Undecided(s) PROVE p = q
      BY <1>1, <2>2 DEF Asked
    <2>3. ASSUME NEW t \in Turns, StartQueued(t), turn[t].session = s PROVE FALSE
      BY <2>1, <2>3, DrainedFrom DEF Awaits, Drainable
    <2>4. ASSUME NEW m \in Messages, NEW t \in Turns, AcceptMessage(m, t), message[m].session = s
          PROVE  FALSE
      BY <2>1, <2>4, AcceptedFrom DEF Awaits, MayAccept, MustQueue, Exists, Gone, Ended
    <2>5. ASSUME NEW p \in Proposals, NEW t \in Turns, ResumeTurn(p, t), proposal[p].session = s
          PROVE  FALSE
      <3>1. p = q
        BY <2>2, <2>5, ResumedFrom DEF Undecided
      <3>2. proposal'[p].followUp = "none" /\ proposal'[p].verdict = proposal[p].verdict
        BY <2>5 DEF ResumeTurn, FollowedUp, Answered, Typed, TypeOK
      <3>3. proposal[p].verdict # "proposed"
        BY <2>5 DEF ResumeTurn, FollowUpFits
      <3> QED
        BY <1>3, <3>1, <3>2, <3>3 DEF Undecided
    <2>6. ASSUME NEW p \in Proposals, Completed(p, s) PROVE FALSE
      <3>1. p = q
        BY <2>2, <2>6 DEF Completed, CompleteSession, Undecided
      <3>2. proposal'[p].followUp = "none" /\ proposal'[p].verdict = proposal[p].verdict
        BY <2>6 DEF Completed, CompleteSession, FollowedUp, Answered, Typed, TypeOK
      <3>3. proposal[p].verdict # "proposed"
        BY <2>6 DEF Completed, CompleteSession, FollowUpFits
      <3> QED
        BY <1>3, <3>1, <3>2, <3>3 DEF Undecided
    <2>7. ASSUME NEW t \in Turns, Worked(t, s) PROVE FALSE
      BY <2>1, <2>7
      DEF Worked, BeginFresh, BeginReplay, AskHuman, StreamReply, ProposeArtifact, Pause, AtWork
    <2>8. ASSUME NEW t \in Turns, Recorded(t, s) PROVE Same(s)
      <3>1. turn[t].pc = "failed" /\ turn[t].session = s /\ Exists(s)
        BY <2>1, <2>8 DEF Recorded, FinishTurn, AtWork
      <3>2. row[s].status = "waiting"
        BY <1>1, <2>1, <3>1 DEF HaltHolds, Halts, Awaits, Exists, Gone, Holding
      <3> QED
        BY <2>8, <3>1, <3>2 DEF Recorded, Outcome, OutcomeInterrupt, Same
    <2>9. Same(s) \/ Created(s) \/ Removed(s) \/ Lapsed(s)
      BY <2>3, <2>4, <2>5, <2>6, <2>7, <2>8, RowFrom DEF RowCases, Accepted, Drained, Resumed
    <2>10. Awaits(s)'
      BY <2>1, <2>9 DEF Same, Created, Removed, Lapsed, Rewrites, Awaits
    <2> QED
      BY <2>1, <2>3, <2>4, <2>5, <2>10, WorkFrom
  <1>4. CASE \E t \in Turns, p \in Proposals : ProposeArtifact(t, p) /\ turn[t].session = s
    BY <1>2, <1>4
  <1>5. CASE ~\E t \in Turns, p \in Proposals : ProposeArtifact(t, p) /\ turn[t].session = s
    <2>1. ASSUME NEW p \in Undecided(s)' PROVE p \in Undecided(s)
      BY <1>5, <2>1, UndecidedFrom DEF Undecided
    <2> QED
      BY <1>1, <1>3, <2>1 DEF Asked
  <1> QED
    BY <1>4, <1>5

LEMMA OverStep ==
    ASSUME Typed, OpeningIsAbsent, SeenIsCurrent, OverIsClear, [Next]_vars
    PROVE  OverIsClear'
  <1> SUFFICES ASSUME NEW s \in Sessions, s \notin raced', row'[s].status \in {"expired", "deleted"}
               PROVE  row'[s].interrupt = "none"
    BY DEF OverIsClear
  <1>1. row[s].status \in {"expired", "deleted"} => row[s].interrupt = "none"
    BY RacedGrows DEF OverIsClear
  <1>2. ASSUME NEW t \in Turns, Worked(t, s) PROVE row'[s].interrupt = "none"
    BY <1>1, <1>2, PauseStatusType DEF Worked, Rewrites, Holding
  <1>3. ASSUME NEW t \in Turns, Recorded(t, s) PROVE row'[s].interrupt = "none"
    BY <1>1, <1>3 DEF Recorded, Rewrites, Outcome, OutcomeInterrupt
  <1> QED
    BY <1>1, <1>2, <1>3, RowFrom
    DEF RowCases, Same, Created, Removed, Lapsed, Revived, Drained, Accepted, Completed,
        Resumed, Rewrites

(* Everything becomes approved when the last approval's second transaction *)
(* is over, which completes the session if it still waits.                 *)
LEMMA ApprovedFrom ==
    ASSUME Typed, Bookkeeping, Asked, OverIsClear, [Next]_vars, NEW s \in Sessions,
           s \notin raced', ~Crash, AllApproved(s)', ~AllApproved(s)
    PROVE  /\ row'[s].interrupt = "none"
           /\ \A t \in Turns : turn'[t].session = s => turn'[t].pc # "starting"
  <1> USE DEF Bookkeeping, Typed, TypeOK, Linked
  <1>1. PICK p \in Proposed(s) : proposal[p].verdict # "executed" \/ proposal[p].followUp # "none"
    BY DEF AllApproved
  <1>2. p \in Proposals /\ proposal[p].session = s
    BY <1>1 DEF Proposed
  <1>3. ASSUME NEW t \in Turns, ProposeArtifact(t, p) PROVE FALSE
    BY <1>2, <1>3, NoSessionAssumption DEF ProposeArtifact, FollowUpFits
  <1>4. proposal'[p].session = s
    BY <1>2, <1>3, ProposalFrom
  <1>5. proposal'[p].verdict = "executed" /\ proposal'[p].followUp = "none"
    BY <1>2, <1>4 DEF AllApproved, Proposed
  <1>6. /\ proposal[p].verdict = "executed" /\ proposal[p].followUp = "complete"
        /\ CompleteSession(p)
    <2>1. /\ proposal[p].verdict = "executed" /\ proposal[p].followUp # "none"
          /\ CompleteSession(p) \/ (\E t \in Turns : ResumeTurn(p, t)) \/ ResumeSkipped(p)
      BY <1>1, <1>2, <1>3, <1>5, ProposalFrom
    <2>2. proposal[p].followUp # "resume"
      BY <1>2, <2>1 DEF FollowUpFits
    <2> QED
      BY <2>1, <2>2 DEF ResumeTurn, ResumeSkipped, CompleteSession
  <1>7. s \notin raced /\ p \in Undecided(s)
    BY <1>2, <1>6, RacedGrows DEF Undecided
  <1>8. Awaits(s) /\ \A t \in Turns : ~AtWork(t, s)
    BY <1>7 DEF Asked
  <1>9. AllDecided(s)
    BY <1>6, <1>7 DEF AllDecided, Open, Asked, Undecided
  <1>10. row'[s].interrupt = "none"
    <2>1. CASE row[s].status = "waiting"
      <3>1. Write(s, "completed", "none")
        BY <1>2, <1>6, <1>9, <2>1 DEF CompleteSession
      <3> QED
        BY <3>1, Written
    <2>2. CASE row[s].status \in {"expired", "deleted"}
      BY <1>2, <1>6, <1>7, <2>2 DEF CompleteSession, OverIsClear
    <2> QED
      BY <1>8, <2>1, <2>2 DEF Awaits
  <1> QED
    BY <1>6, <1>8, <1>10 DEF CompleteSession, AtWork

LEMMA ReleasedStep ==
    ASSUME Typed, Bookkeeping, SeenIsCurrent, Asked, OverIsClear, Released, [Next]_vars
    PROVE  Released'
  <1> USE DEF Bookkeeping
  <1> SUFFICES ASSUME NEW s \in Sessions, s \notin raced', crashes' = 0, AllApproved(s)'
               PROVE  /\ ~(row'[s].status = "waiting" /\ row'[s].interrupt = "propose")
                      /\ row'[s].parked = "propose" =>
                             /\ row'[s].interrupt = "none"
                             /\ \A t \in Turns : turn'[t].session = s /\ turn'[t].pc = "starting" =>
                                                     turn'[t].input = "fresh"
    BY DEF Released
  <1>1. s \notin raced /\ crashes = 0 /\ ~Crash
    BY RacedGrows, KillsGrow
  <1>2. CASE ~AllApproved(s)
    BY <1>1, <1>2, ApprovedFrom
  <1>3. CASE AllApproved(s)
    <2>1. /\ ~(row[s].status = "waiting" /\ row[s].interrupt = "propose")
          /\ row[s].parked = "propose" =>
                 /\ row[s].interrupt = "none"
                 /\ \A t \in Turns : turn[t].session = s /\ turn[t].pc = "starting" =>
                                         turn[t].input = "fresh"
      BY <1>1, <1>3 DEF Released
    <2>2. ASSUME NEW t \in Turns, NEW p \in Proposals, ProposeArtifact(t, p), turn[t].session = s
          PROVE  FALSE
      BY <2>2 DEF ProposeArtifact, AllApproved, Proposed, Typed, TypeOK
    <2>3. ASSUME NEW p \in Proposals, NEW t \in Turns, ResumeTurn(p, t), proposal[p].session = s
          PROVE  FALSE
      BY <1>3, <2>3 DEF ResumeTurn, AllApproved, Proposed
    <2>4. ASSUME NEW t \in Turns, BeginReplay(t), turn[t].session = s
          PROVE  row[s].parked # "propose"
      BY <2>1, <2>4 DEF BeginReplay
    <2>5. /\ ~(row'[s].status = "waiting" /\ row'[s].interrupt = "propose")
          /\ row'[s].parked = "propose" => row[s].parked = "propose" /\ row'[s].interrupt = "none"
      <3>1. ASSUME NEW t \in Turns, Worked(t, s)
            PROVE  /\ ~(row'[s].status = "waiting" /\ row'[s].interrupt = "propose")
                   /\ row'[s].parked # "propose"
        BY <2>1, <2>2, <2>4, <3>1 DEF Worked, Rewrites
      <3>2. ASSUME NEW t \in Turns, Recorded(t, s)
            PROVE  /\ ~(row'[s].status = "waiting" /\ row'[s].interrupt = "propose")
                   /\ row'[s].parked = "propose" =>
                          row[s].parked = "propose" /\ row'[s].interrupt = "none"
        BY <2>1, <3>2 DEF Recorded, Rewrites, Outcome, OutcomeInterrupt
      <3> QED
        BY <2>1, <3>1, <3>2, RowFrom
        DEF RowCases, Same, Created, Removed, Lapsed, Revived, Drained, Accepted, Completed,
            Resumed, Rewrites
    <2>6. ASSUME row'[s].parked = "propose", NEW t \in Turns,
                 turn'[t].session = s, turn'[t].pc = "starting"
          PROVE  turn'[t].input = "fresh"
      <3>1. AtWork(t, s)'
        BY <2>6 DEF AtWork
      <3>2. ASSUME NEW m \in Messages, AcceptMessage(m, t), message[m].session = s
            PROVE  turn'[t].input = "fresh"
        BY <2>1, <2>5, <2>6, <3>2, AcceptedFrom
      <3>3. StartQueued(t) /\ turn[t].session = s => turn'[t].input = "fresh"
        BY DrainedFrom
      <3>4. ASSUME UNCHANGED turn[t] PROVE turn'[t].input = "fresh"
        BY <2>1, <2>5, <2>6, <3>4
      <3>5. ASSUME NEW m \in Messages, AcceptMessage(m, t) PROVE message[m].session = s
        BY <2>6, <3>5, Started DEF AcceptMessage, Typed, TypeOK
      <3>6. ASSUME NEW p \in Proposals, ResumeTurn(p, t) PROVE FALSE
        BY <2>3, <2>6, <3>6, ResumedFrom
      <3>7. ASSUME NEW m \in Messages, PickQueued(t, m) PROVE FALSE
        BY <2>6, <3>7 DEF PickQueued, Typed, TypeOK
      <3> QED
        BY <2>6, <3>2, <3>3, <3>4, <3>5, <3>6, <3>7, TurnFrom
        DEF TaskStep, Advances, Launches, ReadOutcome
    <2> QED
      BY <2>5, <2>6
  <1> QED
    BY <1>2, <1>3

(* A message that a failed turn leaves in the queue has a task to drain it *)
(* as long as nobody else can take the slot and nobody is killed.          *)
LEMMA DrainsStep ==
    ASSUME SlotInv, Bookkeeping, SeenIsCurrent, TurnFailedIsClear, FailedTurnDrains, [Next]_vars
    PROVE  FailedTurnDrains'
  <1> USE DEF SlotInv, Bookkeeping
  <1> SUFFICES ASSUME NEW s \in Sessions, row'[s].status = "turn_failed", Queued(s)' # {},
                      crashes' = 0, s \notin raced',
                      \A o \in Sessions \ {s} : row'[o].status = "absent"
               PROVE  \E t \in Turns : Live(t, s)'
    BY DEF FailedTurnDrains
  <1>1. s \notin raced /\ crashes = 0 /\ ~Crash
    BY RacedGrows, KillsGrow
  <1>2. \A o \in Sessions \ {s} : row[o].status = "absent"
    BY StatusStep DEF NewStatus
  <1>3. CASE row[s].status # "turn_failed"
    <2>1. ASSUME NEW t \in Turns, Recorded(t, s) PROVE Live(t, s)'
      BY <2>1, Seeing DEF Recorded, FinishTurn, Live, Typed, TypeOK
    <2>2. ASSUME NEW t \in Turns, Worked(t, s) PROVE FALSE
      BY <1>3, <2>2, PauseStatusType DEF Worked, Rewrites, Holding
    <2> QED
      BY <1>3, <2>1, <2>2, RowFrom
      DEF RowCases, Same, Created, Removed, Lapsed, Revived, Drained, Accepted, Completed,
          Resumed, Rewrites
  <1>4. CASE row[s].status = "turn_failed"
    <2>1. ASSUME NEW m \in Messages, QueueMessage(m), message[m].session = s PROVE FALSE
      BY <1>1, <1>4, <2>1
      DEF QueueMessage, NoteRace, SameRow, MustQueue, TurnFailedIsClear, Typed, TypeOK
    <2>2. Queued(s) # {}
      <3>1. PICK m \in Messages : message'[m].session = s /\ message'[m].stage = "queued"
        BY DEF Queued
      <3>2. message[m].session = s /\ message[m].stage = "queued"
        BY <2>1, <3>1, MessageFrom
      <3> QED
        BY <3>2 DEF Queued
    <2>3. PICK t \in Turns : Live(t, s)
      BY <1>1, <1>2, <1>4, <2>2 DEF FailedTurnDrains
    <2>4. ASSUME DropTurn(t) \/ LeaveQueue(t) \/ StartQueuedFails(t) PROVE FALSE
      <3>1. turn[t].session = s /\ Exists(s) /\ Drainable(row[s].status)
        BY <1>4, <2>3 DEF Live, Exists, Gone, Drainable
      <3>2. Admits(s)
        BY <1>2, <1>4 DEF Admits, Holding
      <3> QED
        BY <2>2, <2>4, <3>1, <3>2 DEF DropTurn, LeaveQueue, StartQueuedFails
    <2>5. ASSUME NEW m \in Messages, PickQueued(t, m) PROVE Live(t, s)'
      BY <2>3, <2>5 DEF PickQueued, Live, Typed, TypeOK
    <2>6. TaskStep(t)
      BY TurnFrom
    <2> QED
      BY <1>1, <2>3, <2>4, <2>5, <2>6
      DEF TaskStep, Advances, Launches, AcceptMessage, ResumeTurn, Live, FailTurn, ReadOutcome
  <1> QED
    BY <1>3, <1>4

-----------------------------------------------------------------------------
(* The inductive invariant of the tasks.                                   *)
TaskInv ==
    /\ SlotInv /\ Bookkeeping /\ SeenIsCurrent /\ PendingFits
    /\ OneTask /\ PickedWaits /\ WorkHolds /\ HaltHolds /\ TurnFailedIsClear
    /\ Asked /\ OverIsClear /\ Released /\ StartedOnce /\ FailedTurnDrains

LEMMA InitTasks == Init => TaskInv
  <1> SUFFICES ASSUME Init PROVE TaskInv
    OBVIOUS
  <1>1. SlotInv
    BY InitSlot
  <1>2. Bookkeeping
    BY DEF Init, Bookkeeping, IdleIsQuiet, LiveIsMade, OpeningIsAbsent, NeverFailed, QueuedFresh,
           FollowUpFits, PickedOwn, NothingSeen, Live, AbsentRow, NoTurn, NoOpening, Unsent,
           Unused
  <1>3. /\ OneTask /\ PickedWaits /\ WorkHolds /\ HaltHolds
        /\ SeenIsCurrent /\ PendingFits /\ TurnFailedIsClear
    BY DEF Init, OneTask, PickedWaits, WorkHolds, HaltHolds, SeenIsCurrent, PendingFits,
           TurnFailedIsClear, Live, AtWork, Halts, Records, NoTurn, AbsentRow
  <1>4. Asked /\ OverIsClear /\ Released
    BY DEF Init, Asked, Undecided, Unused, OverIsClear, Released, AbsentRow
  <1>5. StartedOnce /\ FailedTurnDrains
    BY DEF Init, StartedOnce, Unsent, FailedTurnDrains, AbsentRow
  <1> QED
    BY <1>1, <1>2, <1>3, <1>4, <1>5 DEF TaskInv

LEMMA TasksStep == TaskInv /\ [Next]_vars => TaskInv'
  <1> SUFFICES ASSUME TaskInv, [Next]_vars PROVE TaskInv'
    OBVIOUS
  <1> USE DEF TaskInv
  <1>1. SlotInv' /\ Typed
    BY SlotStep DEF SlotInv
  <1>2. Bookkeeping'
    BY <1>1, IdleStep, MadeStep, OpeningStep, FailedStep, FreshStep, FitsStep, PickedOwnStep,
       NothingSeenStep
    DEF Bookkeeping
  <1>3. OneTask' /\ PickedWaits'
    BY <1>1, OneTaskStep, PickedWaitsStep DEF Bookkeeping
  <1>4. /\ WorkHolds' /\ HaltHolds'
        /\ SeenIsCurrent' /\ PendingFits' /\ TurnFailedIsClear'
    BY <1>1, <1>3, WorkStep, HaltStep, SeenStep, PendingStep, TurnFailedStep DEF Bookkeeping
  <1>5. Asked' /\ OverIsClear' /\ Released'
    BY <1>1, <1>3, AskedStep, OverStep, ReleasedStep DEF Bookkeeping
  <1>6. StartedOnce' /\ FailedTurnDrains'
    BY <1>1, StartedOnceStep, DrainsStep DEF Bookkeeping
  <1> QED
    BY <1>1, <1>2, <1>3, <1>4, <1>5, <1>6

LEMMA TaskInvariant == Spec => []TaskInv
  BY InitTasks, TasksStep, PTL DEF Spec

(* While nothing races, a failed turn leaves no interrupt for the next     *)
(* message to resume or to queue behind: nobody writes the row between the *)
(* read and the write of the task that records the failure.                *)
THEOREM FailureClearsInterrupt == Spec => []TurnFailedIsClear
  <1>1. TaskInv => TurnFailedIsClear
    BY DEF TaskInv
  <1> QED
    BY <1>1, TaskInvariant, PTL

(* No message starts two turns while nothing races: the request that is    *)
(* answered late and the drain that picks a message never both use it.     *)
THEOREM MessageStartsOnce == Spec => []StartedOnce
  <1>1. TaskInv => StartedOnce
    BY DEF TaskInv
  <1> QED
    BY <1>1, TaskInvariant, PTL

(* A message queued behind a turn that fails is drained: some task that    *)
(* will look at the queue is alive, unless a kill, a race or another       *)
(* session took that chance away.                                          *)
THEOREM FailureDrains == Spec => []FailedTurnDrains
  <1>1. TaskInv => FailedTurnDrains
    BY DEF TaskInv
  <1> QED
    BY <1>1, TaskInvariant, PTL

(* An open proposal is the one its session asks the human about, whatever  *)
(* messages, decisions, expiries and kills come in between.                *)
THEOREM ProposalIsAwaited == Spec => []OpenIsAwaited
  <1>1. TaskInv => OpenIsAwaited
    <2> SUFFICES ASSUME TaskInv, NEW p \in Proposals, proposal[p].verdict = "proposed",
                        proposal[p].session \notin raced
                 PROVE  Awaits(proposal[p].session)
      BY DEF OpenIsAwaited, Awaits
    <2>1. proposal[p].session \in Sessions
      BY DEF TaskInv, SlotInv, Typed, Linked
    <2>2. p \in Undecided(proposal[p].session)
      BY DEF Undecided
    <2> QED
      BY <2>1, <2>2 DEF TaskInv, Asked
  <1> QED
    BY <1>1, TaskInvariant, PTL

(* The agent does not work on while a proposal of its session is open: no  *)
(* reply, queued message or resumed decision starts a turn beside one.     *)
THEOREM WorkAwaitsDecision == Spec => []DecidedBeforeWork
  <1>1. TaskInv => DecidedBeforeWork
    <2> SUFFICES ASSUME TaskInv, NEW s \in Sessions, NEW t \in Turns, Working(t, s),
                        s \notin raced, NEW p \in Open(s)
                 PROVE  FALSE
      BY DEF DecidedBeforeWork
    <2>1. AtWork(t, s)
      BY DEF Working, AtWork
    <2>2. p \in Undecided(s)
      BY DEF Open, Undecided
    <2> QED
      BY <2>1, <2>2 DEF TaskInv, Asked
  <1> QED
    BY <1>1, TaskInvariant, PTL

(* An approval is never half done without a kill: once every proposal of a *)
(* session was approved, the session no longer waits for approval, and no  *)
(* interrupt left in the checkpoint makes it wait again.                   *)
THEOREM ApprovalReleases == Spec => []ApprovedIsReleased
  <1>1. TaskInv => ApprovedIsReleased
    <2> SUFFICES ASSUME TaskInv, NEW s \in Sessions, s \notin raced, AllApproved(s),
                        row[s].status = "waiting", row[s].interrupt = "propose"
                 PROVE  crashes > 0
      BY DEF ApprovedIsReleased, AllApproved
    <2>1. crashes # 0
      BY DEF TaskInv, Released
    <2>2. crashes \in Nat
      BY MaxCrashesAssumption DEF TaskInv, SlotInv, Typed, TypeOK
    <2> QED
      BY <2>1, <2>2
  <1> QED
    BY <1>1, TaskInvariant, PTL

(* A session that gave its slot away stays so: an expired one for good,    *)
(* and a completed one comes back only with a message that leaves the      *)
(* queue in the same step.                                                 *)
THEOREM EndIsFinal == Spec => EndedStaysEnded
  <1>1. TaskInv /\ [Next]_vars =>
          \A s \in Sessions :
              row[s].status \in Ended /\ s \notin raced' =>
                 \/ row'[s].status \in {row[s].status, "deleted"}
                 \/ /\ row[s].status = "completed"
                    /\ \E m \in Queued(s) : message'[m].stage = "delivered"
    <2> SUFFICES ASSUME TaskInv, [Next]_vars, NEW s \in Sessions, row[s].status \in Ended,
                        s \notin raced', row'[s].status \notin {row[s].status, "deleted"}
                 PROVE  /\ row[s].status = "completed"
                        /\ \E m \in Queued(s) : message'[m].stage = "delivered"
      OBVIOUS
    <2> USE DEF TaskInv, SlotInv, Bookkeeping
    <2>1. s \notin raced
      BY RacedGrows
    <2>2. row[s].status \notin Holding /\ Exists(s)
      BY DEF Ended, Holding, Exists, Gone
    <2>3. \A t \in Turns : ~AtWork(t, s)
      BY <2>1, <2>2 DEF WorkHolds
    <2>4. ASSUME NEW t \in Turns, Worked(t, s) PROVE FALSE
      BY <2>3, <2>4
      DEF Worked, BeginFresh, BeginReplay, AskHuman, StreamReply, ProposeArtifact, Pause, AtWork
    <2>5. ASSUME NEW t \in Turns, Recorded(t, s) PROVE FALSE
      <3>1. turn[t].pc = "failed" /\ turn[t].session = s
        BY <2>3, <2>5 DEF Recorded, FinishTurn, AtWork
      <3>2. row[s].status = "completed"
        BY <2>1, <2>2, <3>1 DEF HaltHolds, Halts
      <3> QED
        BY <2>5, <3>1, <3>2 DEF Recorded, Rewrites, Outcome
    <2>6. ASSUME NEW m \in Messages, NEW t \in Turns, Accepted(m, t, s) PROVE FALSE
      BY <2>6, AcceptedFrom DEF Accepted, MayAccept
    <2>7. ASSUME NEW p \in Proposals, Completed(p, s) PROVE FALSE
      BY <2>2, <2>7 DEF Completed, Holding
    <2>8. ASSUME NEW p \in Proposals, NEW t \in Turns, Resumed(p, t, s) PROVE FALSE
      BY <2>2, <2>8, ResumedFrom DEF Resumed, Holding
    <2>9. PICK t \in Turns : Drained(t, s)
      BY <2>2, <2>4, <2>5, <2>6, <2>7, <2>8, RowFrom
      DEF RowCases, Same, Created, Removed, Lapsed, Rewrites, Exists, Gone
    <2>10. row[s].status = "completed"
      BY <2>9, DrainedFrom DEF Drained, Drainable, Ended, NeverFailed
    <2>11. turn[t].picked \in Queued(s)
      BY <2>1, <2>9 DEF Drained, StartQueued, PickedWaits, PickedOwn, Queued, Typed, Linked, Picked
    <2>12. message'[turn[t].picked].stage = "delivered"
      BY <2>9, <2>11, Answering DEF Drained, StartQueued, Queued, Typed, TypeOK
    <2> QED
      BY <2>10, <2>11, <2>12
  <1> QED
    BY <1>1, TaskInvariant, PTL DEF Spec, EndedStaysEnded

=============================================================================
