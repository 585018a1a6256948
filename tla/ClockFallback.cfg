\* Refuted: one bad clock reading makes the worker wait longer than its interval.
SPECIFICATION TimedSpec
CONSTANTS
    Clients = {c1}
    Iterators = {}
    BufferSize = 1
    MaxStarts = 1
    MaxSamples = 2
    Faults = {}
    Interval = 2
    Skew = 5
    ClockFaults = TRUE
    MaxTime = 3
INVARIANTS
    WaitsAtMostAnInterval
CHECK_DEADLOCK FALSE
