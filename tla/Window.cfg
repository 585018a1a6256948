SPECIFICATION Spec
CONSTANTS
    Rows <- SomeRows
    Times = {0, 1, 3}
    MaxSnapshots = 4
INVARIANTS EnergyIsTheIntegral OrderIsIrrelevant
PROPERTIES SilenceDecidesNothing SuspicionSticks
CHECK_DEADLOCK FALSE
