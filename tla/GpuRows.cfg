\* Every answer of up to three values about two devices with two sensors.
SPECIFICATION Spec
CONSTANTS
    Indexes = {0, 1}
    Sensors = {p, t}
    MaxRows = 3
INVARIANTS
    RowsAccounted
    FirstRowWins
    GapsAreOfKeptRows
CHECK_DEADLOCK FALSE
