SPECIFICATION Spec
\* The proxy is idle once every request is done.
CHECK_DEADLOCK FALSE
CONSTANTS
    Reqs = {1, 2}
    BodyUnits = 1
    RespUnits = 2
    MaxLogged = 1
INVARIANTS
    TypeOK
    ResponseIntact
    BytesCounted
PROPERTIES
    CancelDrains
