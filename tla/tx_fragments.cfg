SPECIFICATION Spec
CONSTANTS
    SeqMod = 2
    SizeMod = 8
    MaxQueueCapacity = 12
    MaxQueueSize = 16
    Ports = {1, 2}
    PortChannel <- MCPortChannel
    VirtualChannels = 2
    MaxFragments = 2
    MaxPackets = 2
    MaxBacklog = 2
    MaxEvents = 0
PROPERTIES
    FragmentsContiguous
CHECK_DEADLOCK FALSE
