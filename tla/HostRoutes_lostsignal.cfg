SPECIFICATION FairSpec
CONSTANTS
    Addrs <- MCAddrs
    Nets <- MCNets
    Hops = {"gw", "lan"}
    Tun = "tun"
    NoRoute = "none"
    Server <- MCServer
    Configs <- MCConfigs
    Tables <- MCTables
    MaxSignals = 1
    MaxRestarts = 0
PROPERTY SignalStopsHost
CHECK_DEADLOCK FALSE
