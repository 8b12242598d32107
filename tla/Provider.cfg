\* Two rows, two calls in flight, two settings.
SPECIFICATION Spec
CONSTANTS
    MaxConfigs = 2
    Requests = {r1, r2}
    Settings = {s1, s2}
    None = None
SYMMETRY Symmetry
CHECK_DEADLOCK FALSE
INVARIANTS
    UsableWasProbed
    OneConfiguration
PROPERTIES
    DeletedStays
CONSTRAINT SameSettings
