SPECIFICATION Spec
CONSTANTS
    Workers = {1, 2}
    Scenarios <- Three
    Json = TRUE
    MaxOps = 2
INVARIANTS
    TypeOK
    SnapshotConsistent
    ErrorsReal
    ExitHonest
PROPERTIES
    TestEnds
