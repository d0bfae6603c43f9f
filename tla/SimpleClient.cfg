\* Three keys, whose bytes arrive together or one by one, and two messages.  DOWN, LEFT and
\* RIGHT are read as UP is.
CONSTANTS
    Messages = {m1}
    MaxMessages = 2
    MaxPosts = 3
    Typed = {"ESC", "UP", "A"}
    MaxKeys = 3
SPECIFICATION SimpleFairSpec
INVARIANT TypeOK
INVARIANT QuietWhenReleased
INVARIANT TerminalRestored
INVARIANT ActsOnKeys
INVARIANT ClosePosted
PROPERTY EscapeQuits
PROPERTY DownIsNoticed
PROPERTY MessageHandled
CHECK_DEADLOCK FALSE
