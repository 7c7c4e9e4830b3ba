CONSTANTS
    ArrivalTolerance = 1
    ProgressThreshold = 1
    RetargetGap = 2
    StartGrace = 5
    StallTimeout = 10
    StopSettle = 6
    ErrorFrames = 2
    HaltOnRetarget = FALSE
    NoHeight = NoHeight
    NoReading = NoReading
    Step = 1
    Quiet = 2
    Coast = 3
    Height = {0, 1, 2, 3, 4, 5, 6}
    Target = {0, 3, 6}
    Lag = 0
    Calls = 2
    Losses = 0
    Blocks = 1
    Failures = 1
    Drops = 1
SPECIFICATION FairDesk
 
PROPERTIES CollisionEnds LeftStopped MoveEnds
