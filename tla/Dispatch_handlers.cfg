CONSTANTS
    Handlers = {h1, h2}
    PanelSubs = {p1}
    OtherSubs = {o1}
    Types = {t1}
    Cap = 1
    Frames = 2
    Failures = 1
    Nothing = Nothing
SPECIFICATION FairSpec
INVARIANTS DispatchTypeOK
PROPERTIES ImplementsBroadcast InOrder HeardInTheEnd AddReturns
CHECK_DEADLOCK FALSE
