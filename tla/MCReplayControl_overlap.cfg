\* A stop that arrives while a replay is being started.
SPECIFICATION ControlSpec
CONSTANTS
    Callers = {c1, c2}
    MaxReplays = 2
    MaxQueue = 1
    Overlap = TRUE
SYMMETRY Symmetry
INVARIANT StopTerminatesReplay
CHECK_DEADLOCK FALSE
