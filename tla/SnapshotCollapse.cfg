\* One caller, one operation, one incomplete answer.
SPECIFICATION Spec
CONSTANTS
    Callers = {a}
    NoCaller = NoCaller
    HostNotes = {}
    GpuNotes = {}
    MaxOps = 1
    MaxFaults = 1
    MaxGaps = 1
INVARIANTS
    EveryGapHasAnEntry
CHECK_DEADLOCK FALSE
