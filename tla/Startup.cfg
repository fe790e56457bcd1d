SPECIFICATION Spec
\* The model ends where the program exits or has its first connection.
CHECK_DEADLOCK FALSE
CONSTANTS
    Inputs <- Environments
    Addrs <- Ends
INVARIANTS
    ConfigAsLayered
    TLSKept
    HeaderTrue
