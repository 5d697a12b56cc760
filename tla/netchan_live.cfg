SPECIFICATION LiveSpec
CONSTANTS
    NormalChunk = 1
    FileChunk = 1
    MAX_RELIABLE_PAYLOAD = 2
    MessageSize = 4
    FileSize = 1
    MaxFiles = 0
    MaxSeq <- Enough
    ChaosSeq <- Chaotic
    ParseTransmits = FALSE
    Datagrams <- NoDatagram
    ResourceSizes <- Size2
    WriteSizes <- Size1
    MaxWritten <- Written
PROPERTIES
    Delivered
    ComesToRest
CHECK_DEADLOCK FALSE
