SPECIFICATION FairSpec
CONSTANTS
    MaxSends = 2
    MaxRefusals = 1
    MaxNoise = 1
    MaxData = 1
    MaxCloses = 1
    MaxSpurious = 1
    MaxEvents = 2
INVARIANTS
    TypeOK
    ExactlyOnce
PROPERTIES
    CloseUnblocks
    DataArrives
CHECK_DEADLOCK FALSE
