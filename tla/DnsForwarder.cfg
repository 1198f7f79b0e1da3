SPECIFICATION FairDnsSpec
CONSTANTS
    f1 = f1
    f2 = f2
    Flows = {f1, f2}
    Addrs <- MCAddrs
    Targets <- MCTargets
    Resolve <- MCResolve
    Allow = {1, 2, 3}
    Deny = {3}
    NoAddr = NoAddr
    NoTarget = NoTarget
    MaxCrashes = 2
    Upstreams <- MCUpstreams
    Resolvers = {"resolver", "denied"}
    AppFlows = {f1}
INVARIANTS
    DialPermitted
    AgreeOnOutcome
PROPERTIES
    IsFlowService
    FlowDecided
    UpstreamReleased
    QueryEnds
CHECK_DEADLOCK FALSE
