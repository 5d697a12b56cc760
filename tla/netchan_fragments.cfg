SPECIFICATION Spec
CONSTANTS
    NormalChunk = 2
    FileChunk = 1
    MAX_RELIABLE_PAYLOAD = 3
    MessageSize = 4
    FileSize = 1
    MaxFiles = 0
    MaxSeq <- Seq54
    ParseTransmits = TRUE
    Datagrams <- NoDatagram
    ResourceSizes <- Size3
    WriteSizes <- Size4
    MaxWritten <- ServerSeven
INVARIANTS
    SingleChain
    NoReconnect
    FragmentsFit
    ReliableBitMeansPayload
    ChainsInv
    ServerPipe
    IInv
PROPERTIES
    ToClientFifo
CHECK_DEADLOCK FALSE
