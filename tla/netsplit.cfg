SPECIFICATION Spec
CONSTANTS
    NETSPLIT_BACKUP = 2
    CountRange = 4
    NET_MAX_PAYLOAD = 5
    part = 2
    Lengths <- Long
    MaxLost = 3
    MaxSent = 3
INVARIANTS
    TypeOK
    WholeDatagram
    CompletesWhenWhole
    IInv
PROPERTIES
    ServesDatagrams
    OnlyUnfinishedLost
CHECK_DEADLOCK FALSE
