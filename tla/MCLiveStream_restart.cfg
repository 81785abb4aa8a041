\* A dashboard that connects before the new replay has cleared the table.
SPECIFICATION Spec
CONSTANTS
    Clients = {c1}
    Alerts = {1, 2, 3, 4}
    Ts <- MCTs
    Batch = 1
    MaxIds = 2
    KeepIds = 1
    MaxTime = 2
    MaxReplays = 2
INVARIANT EveryStreamReached
\* The bounds on time, replays and alerts end the run.
CHECK_DEADLOCK FALSE
