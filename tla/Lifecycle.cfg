\* Three items, one request and two approvals; business_rules may change once.
SPECIFICATION Spec
CONSTANTS
    Items = {1, 2, 3}
    Ancestors <- Closure
    Predecessors <- Follows
    Container <- Documents
    Approvals = {a1, a2}
    Requests = {r1}
    Nobody = Nobody
    BodyStatuses = {"accepted"}
    MaxVersions = 2
SYMMETRY Symmetry
CHECK_DEADLOCK FALSE
INVARIANTS
    ReportsAgree
    SomeoneMayWrite
    DocumentsAreDerived
    NoLostEdit
PROPERTIES
    BasedOnCurrent
CONSTRAINTS
    FewVersions
    FewRequests
    FewWriters
