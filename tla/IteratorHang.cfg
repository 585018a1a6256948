\* Refuted: a generator can wait for a worker that is dead.
SPECIFICATION FairSpec
CONSTANTS
    Clients = {c1}
    Iterators = {i1}
    BufferSize = 1
    MaxStarts = 2
    MaxSamples = 2
    Faults = {}
PROPERTIES
    IteratorsEndWithTheSampler
CHECK_DEADLOCK FALSE
