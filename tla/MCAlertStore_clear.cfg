\* A clear whose DELETE raises.
SPECIFICATION FairSpec
CONSTANTS
    Stores = {"server"}
    Threads = {t1, t2}
    PipelineThread = p1
    Home <- OneHome
    Alerts = {a1, a2}
    Severe = {a1}
    BatchSize = 2
    MaxFiles = 2
    FaultOps = {"delete"}
PROPERTY ClearReturns
CHECK_DEADLOCK FALSE
