SPECIFICATION Spec
CONSTANTS
    NormalChunk = 2
    FileChunk = 2
    MAX_RELIABLE_PAYLOAD = 3
    MessageSize = 2
    FileSize = 3
    MaxFiles = 2
    MaxSeq <- Seq54
    ParseTransmits = TRUE
    Datagrams <- SomeDatagram
    ResourceSizes <- NoResources
    WriteSizes <- Size1
    MaxWritten <- ClientOne
INVARIANTS
    TypeOK
    InOrderOnce
    AckMeansAccepted
    OneInFlight
    FilesIntact
    SingleChain
    FilesInv
PROPERTIES
    ToServerFifo
CHECK_DEADLOCK FALSE
