\* Three clients, of which one may send, one be reached and one be gone; and two ids.
CONSTANTS
    Clients = {c1, c2, c3}
    Null = Null
    FirstId = 1
    IdModulus = 2
    Incoming <- MCIncoming
    MaxMessages = 2
    MaxStarts = 2
SPECIFICATION FairSpec
INVARIANT TypeOK
INVARIANT UniqueIds
INVARIANT BroadcastReaches
INVARIANT ReportedOnce
INVARIANT ReportedIsRemoved
PROPERTY AcceptingGoesOn
CHECK_DEADLOCK FALSE
