SPECIFICATION Spec
CONSTANTS
    SeqMod = 8
    SizeMod = 32
    MaxQueueCapacity = 64
    Ports = {1}
    Window = 2
    Reordering = 2
    MaxFragments = 2
    MaxPackets = 5
    MaxAhead = 4
    MaxSyncs = 1
    MaxLosses = 1
    MaxEvents = 0
INVARIANTS
    DeliveredIntact
PROPERTIES
    DeliversInOrder
CHECK_DEADLOCK FALSE
