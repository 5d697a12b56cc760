SPECIFICATION Spec
CONSTANTS
    Clients = {c1}
    MaxClients = 2
    Connections <- Names
    MaxNetwork = 1
    MaxCommands = 2
    MaxKicks = 1
    Lifetime = 1
    FailureTime = 0
    ZombieTime = 2
    ReconnectLimit = 4
    ResendTime = 5
    ClientTimeout = 3
    ServerTimeout = 4
    None = None
    Old = Old
INVARIANTS
    TypeOK
    OneSlotEach
    Agreement
    HandshakeInv
    HiddenShortly
CHECK_DEADLOCK FALSE
