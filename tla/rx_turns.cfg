SPECIFICATION FairSpec
CONSTANTS
    SeqMod = 3
    SizeMod = 16
    MaxQueueCapacity = 32
    Ports = {1}
    Window = 2
    Reordering = 1
    MaxFragments = 2
    MaxPackets = 8
    MaxAhead = 3
    MaxSyncs = 0
    MaxLosses = 1
    MaxEvents = 1
INVARIANTS
    TypeOK
    DeliveredInOrder
    WithinTurnCompletes
PROPERTIES
    StopTerminates
    AvailableIsConsumed
CHECK_DEADLOCK FALSE
