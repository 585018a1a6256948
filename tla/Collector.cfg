\* Two callers, two operations, at most two faults in them, one incomplete
\* answer, any note of the readers.
SPECIFICATION Spec
CONSTANTS
    Callers = {a, b}
    NoCaller = NoCaller
    HostNotes = {"cpu_percent", "hostname"}
    GpuNotes = {"gpu"}
    MaxOps = 2
    MaxFaults = 2
    MaxGaps = 1
INVARIANTS
    TypeOK
    GapsExplained
    RaisesAreNamed
    NotesStayHome
    OneRow
    NotesAreItsOwn
PROPERTIES
    ImplementsDiagnostics
SYMMETRY Symmetry
CHECK_DEADLOCK FALSE
