CONSTANTS
    Callers = {g1, g2}
    Chars = {command, error, input, output, panel, maker}
    Control = {command, error}
    Absent = {maker}
    Cached = {error, input, output}
    Lookups = 3
    Reconnects = 1
    Failures = 1
    Nothing = Nothing
SPECIFICATION Spec
INVARIANTS AskedFor WithItsService 
PROPERTIES KeptAlone OfUse
CHECK_DEADLOCK FALSE
