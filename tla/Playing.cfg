SPECIFICATION PlayingSpec
CONSTANTS
    Films <- MCFilms
    VideoCap = 11
    SoundCap = 2
    VideoSlots = 5
    SoundSlots = 2
    SegSlots = 2
    Low = 1
    Go = 2
    Tries = 2
    MaxPauses = 1
    Cap = 5
    Slots = 3
    Stamps = {0, 1, 2, 3, 4}
    Lengths = {1, 2, 3}
    OpenTries = 2
    MaxOpens = 3
    Sessions = {1}
    ReportsMax = 3
    MaxCalls = 4
INVARIANTS
    FilmIsWhole
    FilmsApart
    ReportsKept
PROPERTIES
    FifoSpec
    OpeningSpec
    PlayingResolves
CHECK_DEADLOCK FALSE
