\* Two sessions compete for the slot.
SPECIFICATION Spec
CONSTANTS
    Sessions = {s1, s2}
    Messages = {m1, m2}
    Proposals = {p1}
    Turns = {t1, t2}
    NoSession = NoSession
    NoMessage = NoMessage
    MaxCrashes = 1
SYMMETRY Symmetry
CHECK_DEADLOCK FALSE
INVARIANTS
    OneHolder
PROPERTIES
    KeepsLedger
