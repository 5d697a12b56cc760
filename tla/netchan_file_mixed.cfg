SPECIFICATION Spec
CONSTANTS
    NormalChunk = 2
    FileChunk = 2
    MAX_RELIABLE_PAYLOAD = 3
    MessageSize = 4
    FileSize = 3
    MaxFiles = 1
    MaxSeq <- Seq54
    ParseTransmits = TRUE
    Datagrams <- SomeDatagram
    ResourceSizes <- NoResources
    WriteSizes <- Size1
    MaxWritten <- ServerTwo
INVARIANTS
    FilesIntact
CHECK_DEADLOCK FALSE
