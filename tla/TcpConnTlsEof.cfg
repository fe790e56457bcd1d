SPECIFICATION Spec
CONSTANTS
    ServerTLS = TRUE
    RemoteTLS = FALSE
    ProxyProto = FALSE
    ReadTimed = FALSE
    WriteTimed = FALSE
    Panics = TRUE
    MaxUnits <- OneUp
INVARIANTS
    EofMeansAllCopied
