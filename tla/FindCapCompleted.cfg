\* A capped turn is recorded as completed.
SPECIFICATION Spec
CONSTANTS
    Sessions = {s1}
    Messages = {m1, m2}
    Proposals = {p1}
    Turns = {t1, t2}
    NoSession = NoSession
    NoMessage = NoMessage
    MaxCrashes = 0
SYMMETRY Symmetry
CHECK_DEADLOCK FALSE
PROPERTY
    CapIsNotCompletion
