SPECIFICATION FilesSpec
CONSTANTS
    Pictures = {a, b, c, d}
    Rows <- MCRows
    Cap = 8
    Records = 3
    Nobody = nobody
    a = a
    b = b
    c = c
    d = d
    MaxSleeps = 3
    LinkSleeps = 1
    QueueRoom = 2
    ShotRows = 1
    MaxShots = 1
    MaxLost = 1
    Readers = {"one", "two", "three"}
    MaxReads = 4
    MaxSeq = 2
    MaxWrites = 2
    CardRoom = 2
    KeepLines = 1
    MaxLines = 3
    MaxBreaks = 1
    Steps <- MCSteps
    StepDef = 6
    Low = 0
    High = 2
    Strange = {7}
    MaxBoots = 3
INVARIANTS
    PackIsTrue
    CableIsTrue
    CardIsTrue
    SleepsAreCounted
PROPERTIES
    CacheSpec
    CableAnswers
CHECK_DEADLOCK FALSE
