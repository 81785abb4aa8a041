\* Four records, the third not JSON, in batches of two; one crash and one
\* failing INSERT.
SPECIFICATION WorkerSpec
CONSTANTS
    Alerts <- MCAlerts
    Malformed <- MCMalformed
    BatchSize = 2
    MaxFaults = 1
    NRecords = 4
    Undecodable = {3}
    Models <- MCModels
    InferenceBatch = 2
    MaxRestarts = 1
INVARIANTS AtLeastOnce RecordsAccountedFor LossesBounded DuplicatesNeedRestart
PROPERTY EventuallyStored
\* The worker may be closed for good.
CHECK_DEADLOCK FALSE
