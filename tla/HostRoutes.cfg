SPECIFICATION FairSpec
CONSTANTS
    Addrs <- MCAddrs
    Nets <- MCNets
    Hops = {"gw", "lan"}
    Tun = "tun"
    NoRoute = "none"
    Server <- MCServer
    Configs <- MCConfigs
    Tables <- MCTables
    MaxSignals = 2
    MaxRestarts = 2
INVARIANTS
    ForeignRoutesIntact
    ServerNotCaptured
    OrderlyExitRestores
    LeftoversHarmless
PROPERTY SignalStopsQuietHost
CHECK_DEADLOCK FALSE
