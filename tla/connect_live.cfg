SPECIFICATION FairSpec
CONSTANTS
    Clients = {c1}
    MaxClients = 2
    Connections <- Names
    MaxNetwork = 1
    MaxCommands = 3
    MaxKicks = 1
    Lifetime = 0
    FailureTime = 0
    ZombieTime = 2
    ReconnectLimit = 4
    ResendTime = 5
    ClientTimeout = 3
    ServerTimeout = 4
    None = None
    Old = Old
PROPERTIES
    ConnectingEnds
    HalfOpenEnds
CHECK_DEADLOCK FALSE
