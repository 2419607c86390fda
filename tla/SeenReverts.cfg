SPECIFICATION ScreensSpec
CONSTANTS
    Episodes = {1, 2, 3}
    MaxInARow = 1
    Budgets <- OneRun
    StackMax = 3
    ArenaBytes = 4
    StateBytes <- Bytes
    ArgBytes <- Argument
    Parents = {p, q}
    Sorts = {1, 2}
    Changes = 1
    Dur = 2
    SeekTail = 1
    Jump = 2
    Autohide = 1
    Delay = 2
    Rate = 1
    Pages <- AllPages
    Clock = 5
    Gaps = {1, 3}
    RepeatDelay = 4
    Fast1 = 2
    Fast2 = 4
    Rates <- RepeatRates
    PanelW = 3
    PanelH = 3
    Depth = 3
    Sizes = {0, 1}
    BoxGaps = {0, 1}
    MaxSlots = 4
    Contents <- Lists
    View = {8, 9}
    Pad = 1
    Settling = 6
INVARIANT SeenIsShown
CHECK_DEADLOCK FALSE
