\* Three artifacts, two requests in flight, four in all.
SPECIFICATION Spec
CONSTANTS
    Artifacts = {a1, a2, a3}
    Relations = {derives_from, conflicts_with}
    Steps = {s1}
    Requests = {r1, r2}
    MaxTickets = 4
    None = None
SYMMETRY Symmetry
CHECK_DEADLOCK FALSE
INVARIANTS
    RingsAreRaces
    HeirsLeadSomewhere
    StepsStayOnView
