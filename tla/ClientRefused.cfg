\* No server is listening, and no key is pressed.
CONSTANTS
    Messages = {m1}
    MaxMessages = 1
    MaxPosts = 1
    Typed = {"ESC"}
    MaxKeys = 1
SPECIFICATION SimpleFairSpec
PROPERTY RefusedIsNoticed
CHECK_DEADLOCK FALSE
