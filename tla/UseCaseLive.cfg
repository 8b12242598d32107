\* One module, fair scheduling, kills.
SPECIFICATION FairSpec
CONSTANTS
    Requests = {r1, r2}
    Modules = {m1}
    Draggable = {m1}
    Names = {u1, u2}
    NoName = NoName
    Actors = {client}
    client = client
    ActorOf <- Cast
    Batches = 1
    StaleAfter = 2
    MaxRuns = 2
    MaxRelations = 1
    MaxCalls = 1
CHECK_DEADLOCK FALSE
PROPERTIES
    GenerateUnlocks
