\* Two clients, of which one sends up to two messages and the other one.
CONSTANTS
    Clients = {c1, c2}
    Null = Null
    FirstId = 10000
    IdModulus = 10002
    SizeModulus = 4096
    Incoming <- MCIncoming
    MaxMessages = 3
    MaxStarts = 1
    MaxAsks <- MCMaxAsks
SPECIFICATION ChatFairSpec
INVARIANT AcceptFirst
INVARIANT HelloFromAsker
INVARIANT PullsWhatWasPushed
PROPERTY PongsInOrder
 
PROPERTY DeadRemoved
CHECK_DEADLOCK FALSE
