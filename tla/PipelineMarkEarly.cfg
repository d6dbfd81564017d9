\* No fault at all, two workers.
SPECIFICATION FairSpec
CONSTANTS
    LastBlock = 2
    Events <- SmallChain
    MaxStreams = 1
    Worker = {w1, w2}
    NoJob = NoJob
    Attempts = 2
    MaxStalls = 1
    MaxThrows = 0
    MaxCrashes = 0
    MaxEnds = 0
PROPERTY MarkAfterEvents
CHECK_DEADLOCK FALSE
