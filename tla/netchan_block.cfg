SPECIFICATION Spec
CONSTANTS
    NormalChunk = 3
    FileChunk = 2
    MAX_RELIABLE_PAYLOAD = 3
    MessageSize = 4
    FileSize = 3
    MaxFiles = 0
    MaxSeq <- Seq44
    ParseTransmits = TRUE
    Datagrams <- SomeDatagram
    ResourceSizes <- Size3
    WriteSizes <- Size1
    MaxWritten <- ServerSeven
INVARIANTS
    ReliableBitMeansPayload
CHECK_DEADLOCK FALSE
