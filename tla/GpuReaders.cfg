SPECIFICATION Spec
CONSTANTS
    Devices = {d1, d2}
    MaxOps = 2
    MaxFaults = 2
    MaxMoves = 1
    MaxCloses = 1
INVARIANTS GpuTypeOK ReferencesBalanced FailuresDoNotLinger
PROPERTY ImplementsBackend
CHECK_DEADLOCK FALSE
SYMMETRY Symmetry
