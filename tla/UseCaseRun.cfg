\* Two requests in flight, two modules, two runs.
SPECIFICATION Spec
CONSTANTS
    Requests = {r1, r2}
    Modules = {m1, m2}
    Draggable = {}
    Names = {u1, u2}
    NoName = NoName
    Actors = {client}
    client = client
    ActorOf <- Cast
    Batches = 0
    StaleAfter = 2
    MaxRuns = 2
    MaxRelations = 1
    MaxCalls = 2
SYMMETRY Symmetry
CHECK_DEADLOCK FALSE
INVARIANTS
    FlowsMatchRow
    CandidatesOfThisRun
    NothingDangles
PROPERTIES
    CompletedIsWhole
CONSTRAINT FewSteps
