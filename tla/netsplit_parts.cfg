SPECIFICATION Spec
CONSTANTS
    NETSPLIT_BACKUP = 2
    CountRange = 4
    NET_MAX_PAYLOAD = 11
    part = 2
    Lengths <- TooMany
    MaxLost = 3
    MaxSent = 3
INVARIANT
    WholeDatagram
CHECK_DEADLOCK FALSE
