CONSTANTS
    Clients = {c1, c2}
    Positions = {m1}
    Settings = {active, preset}
    Ownership = ownership
    Asks = 2
    Expiries = 2
    Losses = 1
    Clears = 1
    None = None
SPECIFICATION Spec
INVARIANTS NoLostUpdate WiredInTurn AnswerKept
PROPERTIES AnswerBelongsInTurn OwnedInTurn
CHECK_DEADLOCK FALSE
