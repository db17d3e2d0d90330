SPECIFICATION Spec
CONSTANTS
    SeqMod = 4
    SizeMod = 8
    MaxQueueCapacity = 12
    MaxQueueSize = 16
    Ports = {1}
    PortChannel <- MCPortChannel
    VirtualChannels = 2
    MaxFragments = 3
    MaxPackets = 3
    MaxBacklog = 3
    MaxEvents = 0
INVARIANTS
    PayloadIntact
CHECK_DEADLOCK FALSE
