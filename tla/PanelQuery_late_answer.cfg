CONSTANTS
    Clients = {c1}
    Positions = {m1, m2}
    Settings = {active, preset}
    Ownership = ownership
    Asks = 2
    Expiries = 1
    Losses = 0
    Clears = 0
    None = None
SPECIFICATION Spec
PROPERTY AnswerBelongs
CHECK_DEADLOCK FALSE
