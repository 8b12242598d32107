\* One session; two messages, two proposals and two kills, or three, one and no kill.
SPECIFICATION Spec
CONSTANTS
    Sessions = {s1}
    Messages = {m1, m2, m3}
    Proposals = {p1, p2}
    Turns = {t1, t2}
    NoSession = NoSession
    NoMessage = NoMessage
    MaxCrashes = 2
SYMMETRY Symmetry
CHECK_DEADLOCK FALSE
INVARIANTS
    ProcessingHasTurn
    TurnFailedIsClear
    OpenIsAwaited
    DecidedBeforeWork
    StartedOnce
    ApprovedIsReleased
    FailedTurnDrains
PROPERTIES
    EndedStaysEnded
CONSTRAINT FewEvents
