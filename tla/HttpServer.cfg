SPECIFICATION Spec
\* The server is idle once every connection is gone; a hook call that hangs is
\* what HookReturns excludes.
CHECK_DEADLOCK FALSE
CONSTANTS
    c1 = c1
    c2 = c2
    c3 = c3
    c4 = c4
    Conns <- Four
    MaxConns = 2
INVARIANTS
    TypeOK
    TokensMatch
PROPERTIES
    LimitSpec
    HookReturns
