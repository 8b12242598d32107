\* One session, two messages, one kill, under fairness.
SPECIFICATION FairSpec
CONSTANTS
    Sessions = {s1}
    Messages = {m1, m2}
    Proposals = {p1}
    Turns = {t1, t2}
    NoSession = NoSession
    NoMessage = NoMessage
    MaxCrashes = 1
CHECK_DEADLOCK FALSE
PROPERTIES
    ProcessingEnds
