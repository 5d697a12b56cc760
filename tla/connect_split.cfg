SPECIFICATION SplitSpec
CONSTANTS
    Clients = {c1}
    MaxClients = 2
    Connections <- Names
    MaxNetwork = 1
    MaxCommands = 1
    MaxKicks = 0
    Lifetime = 0
    FailureTime = 0
    ZombieTime = 2
    ReconnectLimit = 3
    ResendTime = 5
    ClientTimeout = 5
    ServerTimeout = 6
    None = None
    Old = Old
INVARIANTS
    DisconnectMeansDropped
CHECK_DEADLOCK FALSE
