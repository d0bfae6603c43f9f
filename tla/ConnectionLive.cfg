\* A client that sends as soon as the socket is open; both users may hang up.
CONSTANTS
    ClientMessages <- MCClientMessages
    ServerMessages <- MCServerMessages
    AcceptMessage <- Accept
    BounceIds = {"ServerPing"}
    Ids <- MCIds
    Bytes = {"t", "u"}
    MaxSends <- MCFewSends
    GarbageSizes = {0, 1}
    WaitForAccept = FALSE
    MayDisconnect = TRUE
    LinkFaults = FALSE
SPECIFICATION FairSpec
INVARIANT OnlyValidatedHeard
PROPERTY DeliveredInOrder
PROPERTY NotifiedOrTurnedAway
PROPERTY EverythingDelivered
PROPERTY CloseSpreads
CHECK_DEADLOCK FALSE
