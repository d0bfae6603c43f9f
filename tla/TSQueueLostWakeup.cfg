\* SimpleServer's loop: Update(nMaxMessages, bWait = true).
CONSTANTS
    NoThread = NoThread
    Producers = {p1, p2}
    Consumers = {c1}
    Items = {x1, x2}
    MaxPushes = 4
    BWait = TRUE
    NMaxMessages = 2
SPECIFICATION FairSpec
PROPERTY EveryMessageHandled
