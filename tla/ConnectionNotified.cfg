\* A client that sends as soon as the socket is open.
CONSTANTS
    ClientMessages <- MCClientMessages
    ServerMessages <- MCServerMessages
    AcceptMessage <- Accept
    BounceIds = {"ServerPing"}
    Ids <- MCIds
    Bytes = {"t", "u"}
    MaxSends <- MCMaxSends
    GarbageSizes = {0, 1}
    WaitForAccept = FALSE
    MayDisconnect = FALSE
    LinkFaults = FALSE
SPECIFICATION FairSpec
PROPERTY ClientNotified
CHECK_DEADLOCK FALSE
