\* The launcher with one replay request and two signals.
SPECIFICATION LaunchSpec
CONSTANTS
    Callers = {c1}
    MaxReplays = 1
    MaxQueue = 1
    MaxSignals = 2
    Overlap = FALSE
INVARIANT CleanTermination
CHECK_DEADLOCK FALSE
