SPECIFICATION LibrarySpec
CONSTANTS
    Threads = {t1, t2}
    Bound = 2
    PassWrap = 3
    Asks = {a, b, z}
    Zeroed = z
INVARIANTS
    ZeroIsProof
    OneThread
    SlotServed
    RowsAnswer
PROPERTIES
    StopIsObeyed
    WantEnds
CHECK_DEADLOCK FALSE
