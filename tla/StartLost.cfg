\* Refuted: a start() during shutdown leaves nothing running.
SPECIFICATION FairSpec
CONSTANTS
    Clients = {c1}
    Iterators = {}
    BufferSize = 1
    MaxStarts = 2
    MaxSamples = 2
    Faults = {}
PROPERTIES
    StartedMeansSampling
CHECK_DEADLOCK FALSE
