SPECIFICATION RequestsSideBySide
CONSTANTS
    Threads = {"one", "feed"}
    ApiThreads = {"one"}
    feed = "feed"
    Socks = {1, 2, 3}
    NoSock = 0
    Nobody = nobody
    ReadsMax = 2
    MaxTokens = 2
    LastSeg = 1
    MaxSleeps = 1
    Slack = 0
    Bodies <- MCBodies
    BufferRoom = 4
    PieceMax = 3
    Replies <- TheReplies
    NameRoom = 4
    RowsMax = 2
    TrackMax = 2
INVARIANTS
    BodyIsWhole
    SegmentIsTheOneAsked
    SocketsAreAnswered
    RowsAreTheItems
PROPERTIES
    DeadIsNotReused
    OneSignInPerRefusal
CHECK_DEADLOCK FALSE
