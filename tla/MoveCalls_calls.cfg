CONSTANTS
    Callers = {c1, c2}
    Target = {low, high}
    Calls = 4
    None = None
SPECIFICATION Spec
INVARIANTS NeverStuckMoving OneLoopInTurn
CHECK_DEADLOCK FALSE
