\* A bounced message without a body.
CONSTANTS
    ClientMessages <- MCClientMessages
    ServerMessages <- MCServerMessages
    AcceptMessage <- Accept
    BounceIds = {"ServerPing"}
    Ids <- MCIds
    Bytes = {"t", "u"}
    MaxSends <- MCMaxSends
    GarbageSizes = {0, 1}
    WaitForAccept = TRUE
    MayDisconnect = FALSE
    LinkFaults = FALSE
SPECIFICATION Spec
INVARIANT BodylessIsBodyless
CHECK_DEADLOCK FALSE
