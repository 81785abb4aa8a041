\* Two requests of every kind, one after the other, and two signals.
SPECIFICATION LaunchSpec
CONSTANTS
    Callers = {c1, c2}
    MaxReplays = 2
    MaxQueue = 1
    MaxSignals = 2
    Overlap = FALSE
INVARIANTS AtMostOneReplay QueueIsCurrent StopTerminatesReplay OrphansOnlyAfterCutTeardown
PROPERTIES RequestsSettle LauncherEnds
CHECK_DEADLOCK FALSE
