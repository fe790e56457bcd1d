SPECIFICATION Spec
CONSTANTS
    ServerTLS = TRUE
    RemoteTLS = FALSE
    ProxyProto = FALSE
    ReadTimed = FALSE
    WriteTimed = FALSE
    Panics = FALSE
    MaxUnits <- OneUp
PROPERTIES
    SignalTerminates
    CancelTerminates
    PeerCloseTerminates
