SPECIFICATION FairUdpSpec
CONSTANTS
    Idle = 3
    Lag = 1
    MaxDatagrams = 3
INVARIANTS
    NoEarlyClose
    BoundedLinger
PROPERTY QuietSessionCloses
CHECK_DEADLOCK FALSE
