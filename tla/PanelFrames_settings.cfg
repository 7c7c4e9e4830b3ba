CONSTANTS
    Nothing = Nothing
    Panic = Panic
    Heights = {0, 300, 65535, 65792}
    Minutes = {23, 256}
    Options = {56, 58, 60}
    Positions = {1, 3, 5}
    MemSize = 2
    Speeds = {16, 6224}
    Flags = {8, 128}
    Events = 2
SPECIFICATION Spec
INVARIANTS TypeOK
PROPERTIES ImplementsStore WholeAnswerTaken TwoGuardsShort UpdateKeepsRest
CHECK_DEADLOCK FALSE
