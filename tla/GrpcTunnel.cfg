SPECIFICATION FairSpec
CONSTANTS
    PipeCap = 1
    ChanCap = 1
    MaxUp = 3
    MaxDown = 1
PROPERTIES
    IsLink
    PiecesArrive
    EndArrives
    PumpsEnd
CHECK_DEADLOCK FALSE
