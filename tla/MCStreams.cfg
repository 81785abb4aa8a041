\* One dashboard for a simulated replay (streams share nothing but the table)
\* and two for the queues they share; one alert per turn, sent ids pruned from
\* three to one, queues of two.
SPECIFICATION StreamsSpec
CONSTANTS
    Clients = {c1, c2}
    Solo = {c1}
    Alerts = {1, 2, 3, 4}
    Ts <- MCTs
    Batch = 1
    MaxIds = 2
    KeepIds = 1
    MaxTime = 2
    MaxReplays = 2
    Family <- MCFamily
    Captures <- MCCaptures
    Scenarios <- MCScenarios
    FallbackCount = 1
    MinWait = 1
    WaitCap = 2
    MaxDsQueue = 2
    MaxEmits = 4
    MaxDsTime = 3
    MaxKafkaQueue = 2
    MaxMessages = 3
    Getters = {g1, g2}
    Ttl = 1
    MaxClock = 3
    MaxChanges = 1
INVARIANTS NothingSkipped  SummaryIsCurrent
PROPERTIES PushedEventually KafkaDelivered
\* The bounds on time, replays, alerts, messages and changes end the run.
CHECK_DEADLOCK FALSE
