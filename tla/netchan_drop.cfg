SPECIFICATION DropSpec
CONSTANTS
    NormalChunk = 1
    FileChunk = 1
    MAX_RELIABLE_PAYLOAD = 3
    MessageSize = 2
    FileSize = 1
    MaxFiles = 0
    ZombiePackets = 2
    MaxSeq <- FourEach
    ParseTransmits = FALSE
    Datagrams <- NoDatagram
    ResourceSizes <- NoResources
    WriteSizes <- Size1
    MaxWritten <- ServerOne
INVARIANT
    FinalMessageKept
CHECK_DEADLOCK FALSE
