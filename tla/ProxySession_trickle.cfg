SPECIFICATION Spec
CONSTANTS
    a1 = a1
    a2 = a2
    a3 = a3
    mixed = mixed
    forbidden = forbidden
    nowhere = nowhere
    NoAddr = NoAddr
    NoTarget = NoTarget
    Addrs = {a1, a2, a3}
    Targets <- MCTargets
    Resolve <- MCResolve
    Allow = {}
    Deny = {a3}
    RequestTimeout = 2
    DnsTimeout = 2
    ConnectTimeout = 2
    InFlight = 0
    Idle = 3
    Lag = 1
    ChunkMax = 3
INVARIANT ActivityKeepsFlow
CHECK_DEADLOCK FALSE
