SPECIFICATION Spec
CONSTANTS
    SeqMod = 3
    SizeMod = 8
    MaxQueueCapacity = 12
    MaxQueueSize = 16
    Ports = {1}
    PortChannel <- MCPortChannel
    VirtualChannels = 2
    MaxFragments = 2
    MaxPackets = 2
    MaxBacklog = 2
    MaxEvents = 0
INVARIANTS
    NoLockCycle
CHECK_DEADLOCK FALSE
