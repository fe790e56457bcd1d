SPECIFICATION Spec
CONSTANTS
    c1 = c1
    c2 = c2
    c3 = c3
    c4 = c4
    Conns <- Four
    MaxConns = 2
INVARIANTS
    TypeOK
    TokensMatch
    DrainHonest
PROPERTIES
    LimitSpec
    ShutdownExits
    SlotsReturn
