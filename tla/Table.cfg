\* Both pipelines over seven documents, a budget of three rows.
SPECIFICATION Spec
CONSTANTS
    Sources <- Documents
    SlugOf <- Slugs
    GenericRole = other
    NoRole = NoRole
    Evidence <- Lines
    DefaultCap = c1
    NoCap = NoCap
    Objective = Objective
    FamilyOf <- Family
    NameOf <- Titles
    BatchDrafts <- Details
    GroupDrafts <- Groups
    Shortlists <- Lists
    LinkDrafts <- Links
    Budget = 3
    ShortMin = 2
    ShortMax = 3
    admin = admin
    clerk = clerk
    clerk2 = clerk2
    other = other
    c1 = c1
    c2 = c2
    f1 = f1
    f2 = f2
    q1 = q1
    q2 = q2
    q3 = q3
    n1 = n1
    n2 = n2
    n3 = n3
    fam = fam
CHECK_DEADLOCK FALSE
INVARIANTS
    FloorIsKept
    TableIsSound
    SidesBalanced
PROPERTIES
    SelectionCovers
