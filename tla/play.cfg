SPECIFICATION Spec
CONSTANTS
    UpdateBackup = 4
    ByteValues = 8
    ServerEntities = 8
    ClientEntities = 3
    Margin = 1
    Sizes <- FrameSizes
    Others <- OtherSizes
    CmdBackup = 1
    MaxTotalCmds = 3
    MaxCmds = 3
    MaxDrop = 3
    MaxPackets = 4
    MaxFrames = 5
    MovesOnTheWay = 1
    UpdatesOnTheWay = 2
    None = None
INVARIANTS
    TypeOK
    CommandsOnce
    TimeKept
    EntitiesRight
    ClientDataRight
    FrameInv
PROPERTIES
    NothingMissed
CHECK_DEADLOCK FALSE
