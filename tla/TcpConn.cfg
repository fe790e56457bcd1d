SPECIFICATION Spec
CONSTANTS
    ServerTLS = FALSE
    RemoteTLS = FALSE
    ProxyProto = TRUE
    ReadTimed = TRUE
    WriteTimed = TRUE
    Panics = TRUE
    MaxUnits <- TwoUp
INVARIANTS
    TypeOK
    SignalNotLost
    OnlyRealErrorsCounted
    CountersHonest
    EofMeansAllCopied
PROPERTIES
    RelaySpec
