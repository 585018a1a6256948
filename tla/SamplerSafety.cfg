\* Two clients, one iterator, two threads, every fault: the safety of the sampler.
SPECIFICATION Spec
CONSTANTS
    Clients = {c1, c2}
    Iterators = {i1}
    BufferSize = 2
    MaxStarts = 3
    MaxSamples = 3
    Faults = {"thread_start", "worker"}
SYMMETRY Symmetry
INVARIANTS
    TypeOK
    AtMostOneWorker
    
    StoppedMeansQuiet
    NoLostWakeup
    SkipsOnlyOverwritten
PROPERTIES
    StopRequestSticks
    ImplementsFeed
CHECK_DEADLOCK FALSE
