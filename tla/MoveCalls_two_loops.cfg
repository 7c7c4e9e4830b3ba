CONSTANTS
    Callers = {c1, c2}
    Target = {low, high}
    Calls = 2
    None = None
SPECIFICATION Spec
INVARIANTS OneLoop
CHECK_DEADLOCK FALSE
