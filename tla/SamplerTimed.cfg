\* One client, restarts, any delay of any step: the deadlines and the ages.
SPECIFICATION TimedSpec
CONSTANTS
    Clients = {c1}
    Iterators = {}
    BufferSize = 2
    MaxStarts = 2
    MaxSamples = 3
    Faults = {}
    Interval = 2
    Skew = 0
    ClockFaults = FALSE
    MaxTime = 5
INVARIANTS
    SleepsToTheNextSlot
    AgeIsHonest
    StampsAscend
PROPERTIES
    NoBurst
CHECK_DEADLOCK FALSE
