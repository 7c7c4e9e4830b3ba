CONSTANTS
    Clients = {c1, c2}
    Positions = {}
    Settings = {active}
    Ownership = ownership
    Asks = 2
    Expiries = 2
    Losses = 1
    Clears = 0
    None = None
SPECIFICATION FairSpec
PROPERTY QuestionEnds
CHECK_DEADLOCK FALSE
