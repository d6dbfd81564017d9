\* One crash and one stream that ends silently, on fair schedules.
SPECIFICATION FairSpec
CONSTANTS
    LastBlock = 2
    Events <- TailChain
    MaxStreams = 3
    Worker = {w1}
    NoJob = NoJob
    Attempts = 2
    MaxStalls = 1
    MaxThrows = 0
    MaxCrashes = 1
    MaxEnds = 1
PROPERTY EventuallySettled
CHECK_DEADLOCK FALSE
