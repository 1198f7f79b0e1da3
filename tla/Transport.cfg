SPECIFICATION FairHSpec
CONSTANTS
    Flows = {f1, f2}
    Conns = {c1, c2}
    NoFlow = NoFlow
    NoConn = NoConn
    QuicEnabled = TRUE
    GrpcEnabled = TRUE
    MaxStreams = 1
    Interval = 1
INVARIANTS
    AvailableIfEither
PROPERTIES
    PoolNotClobbered
    OpenTerminates
    QuicRecovers
