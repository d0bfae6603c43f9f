CONSTANTS
    ClientMessages <- MCClientMessages
    ServerMessages <- MCServerMessages
    AcceptMessage <- Accept
    BounceIds = {"ServerPing"}
    Ids <- MCIds
    Bytes = {"t", "u"}
    MaxSends <- MCMaxSends
    GarbageSizes = {0, 1}
    WaitForAccept = TRUE
    MayDisconnect = TRUE
    LinkFaults = TRUE
SPECIFICATION Spec
INVARIANT TypeOK
INVARIANT OneMessageWrite
INVARIANT WritesFront
INVARIANT QueueIsBeingWritten
INVARIANT OneRead
INVARIANT InStep
INVARIANT WaitingClientAccepted
PROPERTY DeliveredInOrder
CHECK_DEADLOCK FALSE
