SPECIFICATION Spec
CONSTANTS
    Words = {0, 16384, 32769, 65535}
    Bytes = {0, 85, 128, 255}
    Ports = {0, 1, 127}
    Lengths = {0, 1, 992}
    Numbers = {0, 127, 255}
INVARIANTS
    HeaderIntact
CHECK_DEADLOCK FALSE
