SPECIFICATION Spec
CONSTANTS
    SeqMod = 8
    SizeMod = 32
    MaxQueueCapacity = 64
    Ports = {0, 1}
    Window = 2
    Reordering = 2
    MaxFragments = 2
    MaxPackets = 2
    MaxAhead = 2
    MaxSyncs = 1
    MaxLosses = 0
    MaxEvents = 0
INVARIANTS
    StaleOnlyWhenDisturbed
CHECK_DEADLOCK FALSE
