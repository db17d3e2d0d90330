SPECIFICATION FairSpec
CONSTANTS
    SeqMod = 2
    SizeMod = 8
    MaxQueueCapacity = 12
    MaxQueueSize = 16
    Ports = {1}
    PortChannel <- MCPortChannel
    VirtualChannels = 2
    MaxFragments = 1
    MaxPackets = 3
    MaxBacklog = 2
    MaxEvents = 2
INVARIANTS
    TypeOK
    FifoPerPort
    BlacklistHasWaker
    
    StopNotForgotten
PROPERTIES
    StopTerminates
    
    
    
    SendsInOrder
CHECK_DEADLOCK FALSE
