SPECIFICATION Spec
\* A process that serves and gets no signal goes on serving.
CHECK_DEADLOCK FALSE
CONSTANTS
    MaxSignals = 4
INVARIANTS
    TypeOK
    OneSignalAtATime
PROPERTIES
    TermExits
    MuxTermExits
