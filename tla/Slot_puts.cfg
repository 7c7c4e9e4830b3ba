CONSTANTS
    Putters = {p1, p2, p3}
    Puts = 5
    Empty = Empty
SPECIFICATION FairSpec
INVARIANTS NeverLostToAPut NewestHeld NeverStale
PROPERTY PutReturns
CHECK_DEADLOCK FALSE
