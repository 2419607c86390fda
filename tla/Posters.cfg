SPECIFICATION PostersFairSpec
CONSTANTS
    Pictures = {a, b, c}
    Nobody = nobody
    Slots = {s, t}
    KEEP_FRAMES = 1
    MaxFails = 1
    MaxClears = 1
INVARIANTS
    ReadyIsItsOwn
    PackIsFresh
PROPERTIES
    PageFills
CHECK_DEADLOCK FALSE
