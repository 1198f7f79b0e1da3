SPECIFICATION FairSpec
CONSTANTS
    absent = absent
    Absent = absent
    Nets <- MCNets
    TunNet <- Tun
    Configs <- MCConfigs
    FileSets <- MCFileSets
    Tables <- MCTables
    MaxChanges = 3
    MaxSignals = 2
    MaxStarts = 1
INVARIANTS
    TypeOK
    OperatorRoutesIntact
    ServersNotCaptured
    ServingIsRouted
PROPERTY SignalStopsQuietClient
CHECK_DEADLOCK FALSE
