CONSTANTS
    ArrivalTolerance = 1
    ProgressThreshold = 1
    RetargetGap = 2
    StartGrace = 6
    StallTimeout = 10
    StopSettle = 6
    ErrorFrames = 2
    HaltOnRetarget = FALSE
    NoHeight = NoHeight
    NoReading = NoReading
    Step = 1
    Quiet = 2
    Coast = 3
    Height = {0, 1, 2, 3, 4, 5, 6}
    Target = {0, 3, 4, 6}
    Lag = 0
    Calls = 3
    Losses = 1
    Blocks = 0
    Failures = 0
    Drops = 0
SPECIFICATION FairDesk
INVARIANTS QueuedFurther NeverHalts FinishedThere OffersBounded
PROPERTIES NewHeightsAreHeard QuietGap RunsToTheEnd Reached
