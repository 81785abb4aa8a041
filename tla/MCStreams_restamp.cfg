\* The bounds of MCStreams.cfg; the records of a dataset are replayed at the clock.
SPECIFICATION StreamsSpec
CONSTANTS
    Clients = {c1, c2}
    Solo = {c1}
    Alerts = {1, 2, 3, 4}
    Ts <- MCTs
    Batch = 1
    MaxIds = 2
    KeepIds = 1
    MaxTime = 2
    MaxReplays = 2
    Family <- MCFamily
    Captures <- MCCaptures
    Scenarios <- MCScenarios
    FallbackCount = 1
    MinWait = 1
    WaitCap = 2
    MaxDsQueue = 2
    MaxEmits = 4
    MaxDsTime = 3
    MaxKafkaQueue = 2
    MaxMessages = 3
    Getters = {g1, g2}
    Ttl = 1
    MaxClock = 3
    MaxChanges = 1
INVARIANT RemapsToWallClock
CHECK_DEADLOCK FALSE
