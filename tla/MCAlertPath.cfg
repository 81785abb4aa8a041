\* Features: three packets of any kind to two hosts, with timestamps in any
\* order.  Scoring: every detector over the points around its thresholds,
\* batches of three.  Correlation: four alerts in any timestamp order, two
\* addresses, a window of one tick in a clock of three, a cap that two related
\* alerts reach.  Storage: two threads of the server and one of the pipeline on
\* one database file; every database call may fail.
SPECIFICATION PathSpec
CONSTANTS
    Hosts = {h1, h2}
    Times <- MCTimes
    W1 = 1
    W5 = 2
    W60 = 4
    DDoSTtl = 4
    BeaconTtl = 8
    MaxPackets = 3
    FlowKeys = {h1, h2}
    WindowSize = 2
    IdleLimit = 4
    h1 = h1
    h2 = h2
    Items = {h1, h2}
    Depth = 2
    Width = 2
    Hash <- MCHash
    IPs = {ipA, ipB}
    NoIP = NoIP
    AlertTimes <- MCAlertTimes
    Window = 1
    Cap = 2
    MaxAlerts = 4
    Points <- MCPoints
    Answers <- MCAnswers
    Calibrated <- MCCalibrated
    BatchPoints <- MCBatchPoints
    MaxBatch = 3
    Stores = {"server", "pipeline"}
    Threads = {t1, t2, p1}
    PipelineThread = p1
    Home <- TwoHomes
    Alerts = {a1, a2}
    Severe = {a1}
    BatchSize = 2
    MaxFiles = 2
    FaultOps = {"connect", "create", "insert", "delete"}
SYMMETRY Symmetry
INVARIANTS SynsCountedOnce StaleStateSwept  NeverUndercounts
INVARIANTS RelatedAreCorrelated LatestSeesWholeWindow IndexWithinRecent PathsAgree BatchAgreesWithSingle
INVARIANTS NoSilentLoss FailedFlushLeavesNothing TotalsMatchRows ReadYourWrites
PROPERTY OnlySilentAreSwept
\* The bounds on packets and alerts end the run; clear deadlocks with itself
\* when its DELETE fails (see MCAlertStore_clear.cfg).
CHECK_DEADLOCK FALSE
