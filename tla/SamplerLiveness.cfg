\* Fair threads and every fault: a stop takes effect, returns, and ends the feed.
SPECIFICATION FairSpec
CONSTANTS
    Clients = {c1, c2}
    Iterators = {i1}
    BufferSize = 2
    MaxStarts = 2
    MaxSamples = 2
    Faults = {"thread_start", "worker"}
PROPERTIES
    StopTakesEffect
    EveryStopReturns
    StartPublishes
    ImplementsFairFeed
CHECK_DEADLOCK FALSE
