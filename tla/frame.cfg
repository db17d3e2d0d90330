SPECIFICATION MCSpec
CONSTANTS
    Lengths = {0, 1, 2, 3}
    Payloads <- MCPayloads
    MaxFaults = 3
    PacketBytes = 992  \* LEN_S3TP_PDU
INVARIANTS
    LengthSound
    TypeRobust
    DamageDetected
    ChecksumIsRemainder
    PeriodNotReached
