\* Ingest: eight packets through a queue of six, so that sampling starts at the
\* sixth and the eighth can meet a full queue; the table holds two of the three
\* flows; five lines of Zeek logs through a queue of three.  Replay: five tasks
\* in batches of two, the second without an alert, and an alert_queue of two
\* that fills.
SPECIFICATION ThreadsSpec
CONSTANTS
    NPackets = 8
    BufferSize = 6
    KeepEvery = 2
    Metas <- MCMetas
    MaxFlows = 2
    NLines = 5
    ZBufferSize = 3
    NTasks = 5
    Firing = {1, 3, 4, 5}
    LocalBatch = 2
    Throttle = 1
    AlertMax = 2
INVARIANTS PacketsAccountedFor SentinelIsLast EvictsLeastRecent StoredHasNoGaps
PROPERTIES StopReturns EofUnlessGivenUp ReaderIsLossyFifo ZeekIsLossyFifo ZeekStopReturns ProcessEnds
\* Both processes come to their end.
CHECK_DEADLOCK FALSE
