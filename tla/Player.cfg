SPECIFICATION PartsSpec
CONSTANTS
    MaxOpens = 2
    ReportsMax = 4
    MaxCalls = 8
    ClockWrap = 5
    StepCap = 2
    SoundFrame = 1
    SoundStale = 2
    SoundAlone = 3
    Passes = {1, 6}
    LastPos = 3
    Inits <- InitSegments
    Segments <- Media
    ParamMax = 3
    TurnsAway = {0, 1, 3}
    Whole <- WholeOnes
INVARIANTS
    SessionsInTurn
    ToldSessionsAreEnded
    SamplesAreTheFiles
PROPERTIES
    ClockNeverJumps
CHECK_DEADLOCK FALSE
