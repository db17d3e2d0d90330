SPECIFICATION FairSpec
CONSTANTS
    Ports = {0}
    PortChannel <- MCPortChannel
    Channels = {0, 1}
    MaxConns = 3
    MaxCallbacks = 1
    MaxMessages = 1
INVARIANTS
    TypeOK
    SweptIsDisconnected
    NoDanglingClient
    OneOwnerPerPort
    ConnectedIsOpen
    SocketsOwned
PROPERTIES
    HandshakeEnds
CHECK_DEADLOCK FALSE
