SPECIFICATION Spec
CONSTANTS
    Ports = {0}
    PortChannel <- MCPortChannel
    Channels = {0, 1}
    MaxConns = 1
    MaxCallbacks = 1
    MaxMessages = 0
INVARIANTS
    NoSelfDeadlock
CHECK_DEADLOCK FALSE
