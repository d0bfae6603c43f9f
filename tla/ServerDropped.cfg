\* A client arrives while MessageAllClients tidies up.
CONSTANTS
    Clients = {c1, c2}
    Null = Null
    FirstId = 10000
    IdModulus = 10002
    Incoming <- MCIncoming
    MaxMessages = 2
    MaxStarts = 1
SPECIFICATION Spec
PROPERTY OnlyClosedRemoved
CHECK_DEADLOCK FALSE
