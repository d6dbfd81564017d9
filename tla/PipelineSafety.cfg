\* Two streams and two workers; the process may crash once, one attempt may fail.
SPECIFICATION Spec
CONSTANTS
    LastBlock = 2
    Events <- ThinChain
    MaxStreams = 2
    Worker = {w1, w2}
    NoJob = NoJob
    Attempts = 2
    MaxStalls = 1
    MaxThrows = 1
    MaxCrashes = 1
    MaxEnds = 0
SYMMETRY WorkerSymmetry
INVARIANTS TypeOK NothingLostBehindMark MarkStartsLast
PROPERTY KeepsPromise
CHECK_DEADLOCK FALSE
