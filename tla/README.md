# Sentrix: a TLA+ model of the threat detection pipeline

This directory holds TLA+ specifications of the Sentrix repository (a passive,
unidirectional network threat detector with a live dashboard), the TLC
configurations that check them on small instances, and TLAPS proofs of their
central invariants. Paths below are relative to `src/`.

## 1. The system

Packets become features, features become scores, scores become alerts, alerts
become rows and events. There are two deployments of the same idea.

Local: `dashboard/api/server.py` starts `tests/test_phase5_e2e.py` as a
subprocess; that process reads captures, feeds `features/scheduler.py`, scores
in a worker thread and writes alerts with `alerting/store.py` (SQLite). The
server reads the same file and pushes alerts to dashboards by SSE. Instead of
the subprocess the server can run `datasource/dataset_replay.py` in a thread.

Kafka: `ingest/rust-ingestor` aggregates packets and publishes feature records;
`inference/worker.py` polls them, runs the ONNX models, correlates
(`alerting/correlator.py`), stores in ClickHouse (`alerting/clickhouse_store.py`)
and publishes alerts, which the server's consumers hand to the event streams.

| Component | State | Operations | Talks to | What is hard |
|---|---|---|---|---|
| AlertStore | connection, write buffer, rows, lock | append, append_batch, flush, readers, clear, close, recovery | request threads, pipeline process on the same file, webhook threads | one lock taken twice per read, failing flushes, recovery that deletes a shared file |
| AlertCorrelator | deque of recent alerts, index by address | process | called per alert by the worker and the pipeline | timestamps out of order, eviction of three structures |
| BoundedPcapReader | bounded queue, drop counter, stop event | thread loop, get_packet, stop | consumer thread, FlowAssembler | sampling and dropping under pressure, end marker on a full queue, stop at any time |
| FlowAssembler | LRU table | process_packet_meta | ingest loop | a full table |
| Replay control | current process, mode | trigger, stop, set mode | subprocess, dataset source | requests that overlap |
| DatasetReplaySource | event, thread, queue | start, stop, read_alerts, is_running | server threads, event streams | a join that times out in any phase, records restamped in place pass after pass |
| Event stream | last_ts, sent ids (per client) | one turn per 0.8 s, over one of three sources | AlertStore, dataset queue, Kafka queue | ties, batches of 50, pruning, restarts, queues all streams share |
| SummaryCache | cached counts, their time, lock | get_summary, invalidate | AlertStore, request threads | a clock read before the lock, invalidation while a thread reads |
| Supervisor (start_all.py) | server process, handlers, terminated flag | prepare, start, monitor, signal, teardown | server and its replay subprocesses | signals at any moment, processes started during the teardown |
| Detectors, ONNX engine | sessions, fallback detectors | predict, predict_batch, get_session | pipeline worker, normalizer | two implementations of the same rules, models that do not load |
| ZeekJSONReader | bounded queue, stop event | thread loop, get_flow, stop | docker, consumer | end marker without a timeout |
| CountMinSketch | table of counters | add, get | beaconing, recon and DDoS extractors | collisions, never reset |
| Replay pipeline | two queues, stop event, three threads | run, signal, shutdown | AlertStore, server | drain racing the worker, joins with timeouts |
| FeatureScheduler | three windows, extractors' state | process_packet | pipeline | no clock but the packets', timestamps that go back |
| FlowTracker (Rust) | flows, one window | update | Kafka | counts what the scheduler counts, by its own masks and windows |
| ClickHouseAlertStore | pending batch | append, writer loop, flush, close | worker | INSERTs that raise after writing |
| InferenceWorker | per-model batches, offsets | run, _flush_batch, stop | Kafka, ClickHouse store | auto-commit before processing, crashes |

The components that are not modelled, and the reasons, are in section 7; the
hazards that properties are about, each at its line, are in `PROJECT.json`.

## 2. Modules

One module per component; composition by EXTENDS where components share state.

| Module | Models | Correspondence |
|---|---|---|
| AlertStore | alerting/store.py, webhook.py | `lock`, `buffer`, `conn` per store (process); `path` is the file the name points to, so a deleted file that is still open is a file of its own; `rows` per file. `wiped` is what a recovery deleted with its file, `stray` what was written to a file already deleted. One action per method, readers split at the point where the lock is released |
| Correlator | alerting/correlator.py | `Process` is the whole of process(): evict, relate, cap, index |
| PcapReader | ingest/pcap_reader.py | producer and consumer positions, `buffer`, `dropped`, `stopEvent`; 0 is the end marker |
| FlowTable | assembler/flow_session_tables.py | `table` in LRU order, `pkts` per flow; move_to_end cuts the key out at its place and appends it |
| ZeekReader | ingest/zeek_reader.py | the thread over the three logs, `zbuffer`, stop and join; lines are numbered across the logs |
| LossyFifo | what both readers promise | abstract: an item is queued or lost, the oldest is handed over. `ReaderIsLossyFifo` and `ZeekIsLossyFifo` are the refinements, with the end marker mapped away |
| PcapIngest | tests/test_phase2_pcap_ingest.py | PcapReader whose consumer feeds FlowTable, or ZeekReader |
| DatasetReplay | datasource/dataset_replay.py | one phase per replay thread; stop() and start() step by step, as two callers may be inside |
| ReplayControl | dashboard/api/server.py 348-498 | requests as processes over DatasetReplay and the subprocess |
| Launcher | start_all.py, server.py 152-168 | extends ReplayControl: the server's steps happen while the server lives; one action per step of main, the monitor and kill_process_tree, and one for an exception that ends the teardown |
| LiveStream | dashboard/api/server.py 261-335 | one turn of the generator is Push or Idle; the replay is StartReplay, ClearTable, Commit, EndReplay |
| DatasetFeed | dataset_replay.py 260-425, server.py 302-316 | what is replayed (the order of records the shuffle leaves open is any; the synthetic records when there are no files, and the thread that dies on an empty list), with which timestamps and when; a turn drains the queue all streams share |
| KafkaFeed | server.py 37-65, 288-301 | the consumer thread, the queue, one alert of a turn per step; a link may break between the take and the yield |
| SummaryCache | server.py 71-95 | get_summary step by step for several threads; what the store answers is the number of its changes |
| Streams | server.py 261-335 | LiveStream, DatasetFeed, KafkaFeed and SummaryCache; a behaviour exercises one of them, the mode it starts in |
| Detectors | models/*.py, onnx_engine.py, normalizer.py, test_phase5_e2e.py 195-279 | every decision rule as an operator on a feature vector and the model's answer; the worker's own code for each class, `FastDDoS`, `FastBeaconing` and so on, beside the detector's |
| AlertPipeline | test_phase5_e2e.py 148-297 | extends Correlator and Detectors: sessions and fallbacks, scoring, batches, normalizing, correlating |
| E2EPipeline | tests/test_phase5_e2e.py | the main, worker and writer threads with their queues |
| FeatureScheduler | features/*.py | `last1`, `last5`, `last60`, the counters and the swept tables |
| CountMinSketch | features/online_stats.py 29-57 | `table`, `totalCount`; the hash is any function to cells |
| FlowTracker, Aggregators | ingest/rust-ingestor/src/main.rs | update(); the two aggregators, and the sketch of destinations, on the same packets, each with windows of its own length |
| ClickHouseStore | alerting/clickhouse_store.py | `pending`, rows as a number of copies per alert, the writer's and the closer's positions |
| InferenceWorker | inference/worker.py | extends ClickHouseStore: what the worker appends is what the store stores; `todo` holds the records the current model found anomalous, given to the store in the order they were polled |
| AlertPath | the way from packet to row | Aggregators, AlertPipeline and AlertStore; they hand plain values on and share no state, so a behaviour exercises one stage |
| Threads | the processes made of threads and queues | PcapIngest and E2EPipeline, which never run in one process; a behaviour exercises one, with the fairness of each |

What is abstracted: alerts, packets and records are numbers or model values with
the fields a property tells apart; what a trained model answers is a free choice,
the rules around it are the code's; feature vectors are the points around the
thresholds of each detector, in integer units; accumulators in floating point are
left out; times are small naturals. Every bound is a
named constant (`MaxPackets`, `MaxTime`, `MaxReplays`, `MaxRestarts`,
`MaxFaults`, `MaxFiles`, `MaxAlerts`, ...).

Definitions named `Bug...` are plausible mistakes in the definition that
follows them (a dropped guard, an off-by-one, a missing reset). They occur in no
specification; substituting one shows that the property listed with it in
`PROJECT.json` notices.

External parts, modelled from how the code uses them: the ClickHouse INSERT
(writes all rows, or none, and may raise either way), Kafka's auto-commit, the
wall clock, the end of a subprocess.

## 3. Runs that pass

| Run | Question | Instance and why it is enough |
|---|---|---|
| alert_path | Do windows count each SYN once, do sweeps bound the state, does the sketch undercount? Do the two inference paths and the batch decide alike, and are the related ids right for timestamps in any order? Is an accepted alert ever lost without account, half stored, or hidden from a reader? | features: three packets of seven kinds (SYN-ACK among them) to two hosts at five times in any order; 1, 2 and 4 ticks for the scheduler's windows and 2 for the tracker's, so that every window closes, a sweep happens and the two close apart; a sketch with a collision in one row. alerts: every detector on the points at, below and above each threshold, with every state of its model files; batches of three, so that a queued vector lies between two that are not; four alerts, three ticks, a window of one, a cap of two: eviction, re-use of an evicted address and the cap all occur. store: two threads of the server and one of the pipeline, two alerts, batches of two, every call able to fail, two files: a recovery under an open connection happens |
| threads | Are the readers lossy FIFOs, are packets and flows accounted for, does stop return? Does a shutdown of the replay leave a hole, and does the process end? | eight packets, a queue of six, two of three flows: sampling begins at the sixth packet, hard drops and evictions occur; five log lines, a queue of three; five tasks in batches of two, an alert queue of two that fills, a signal at any moment |
| replay | Do replays pile up, or survive a stop or the launcher? | two requests of every kind, one at a time, two signals at any moment: a signal before the handlers, during the teardown, a replay started during it and an exception in it all occur |
| worker | What can a crash lose or duplicate? | four records, one undecodable, two models and the dga model that is given nothing, batches of two, one crash (also in close), one failing INSERT: the last batch never fills |
| stream | Does a stream skip alerts, do passes keep their spacing, does the cache answer stale data? | one client for the simulated source (streams share nothing but the table) and two for the shared queues; two replays, four alerts with a tie, one per turn, pruning at three ids; three records or one synthetic, captures with and without a gap longer than a wait (waits of one tick are left out, those of more than two cut to two), a scenario that repeats records, queues of two, links that break; two threads on the cache |

The properties, by run:

- alert_path, features: `SynsCountedOnce`, `StaleStateSwept`,
  `TrackerCountsOnce` (every packet and every segment with the SYN bit is in one
  of the tracker's records or still counted, so that over a run it counts the
  scheduler's SYNs and the SYN-ACKs on top), `NeverUndercounts`, and the action
  property `OnlySilentAreSwept`. That the two aggregators give equal features is
  not claimed: they do not (section 7).
- alert_path, alerts: `RelatedAreCorrelated` (against a reference definition over
  all alerts so far), `LatestSeesWholeWindow`, `IndexWithinRecent`; `PathsAgree`
  (an alarm of the detector that the worker does not raise, or one raised that
  the detector would not, has one of the listed causes: a detector whose model
  cannot be loaded is skipped and one without a file has its rules only; the
  fast path has neither the spoofed-source rule nor the gate of the DDoS
  detector nor the DGA pre-filter; and an ONNX file that cannot be loaded scores
  0, which run fallback shows to be against the docstring),
  `BatchAgreesWithSingle`.
- alert_path, store: `NoSilentLoss` (an accepted alert is buffered or in the file
  at db_path, unless a flush raised with it, clear removed it, a recovery deleted
  its file, or its store wrote it to a file a recovery had deleted),
  `FailedFlushLeavesNothing`, `TotalsMatchRows`, `ReadYourWrites`.
- threads: `PacketsAccountedFor`, `SentinelIsLast`, `EvictsLeastRecent`, the
  refinements `ReaderIsLossyFifo` and `ZeekIsLossyFifo`, and the liveness
  properties `StopReturns`, `EofUnlessGivenUp` and `ZeekStopReturns` (which
  names the one case in which stop() hangs); `StoredHasNoGaps`, and under
  fairness `ProcessEnds`.
- replay: `AtMostOneReplay`, `QueueIsCurrent`, `StopTerminatesReplay`,
  `OrphansOnlyAfterCutTeardown` (the server outlives the launcher only after a
  signal before the handlers, a second one in the teardown, or an exception in
  it), and under fairness `RequestsSettle` and `LauncherEnds`.
- worker: `AtLeastOnce`; `RecordsAccountedFor` (of the records polled a crash
  loses at most one batch; what a process jumps over that dies before its first
  commit and starts again at the end of the topic is counted apart and has no
  bound); `LossesBounded` (of the anomalies of the others, a failing model skips
  at most a batch each time, and a crash forgets fewer pending ones than fill an
  INSERT while none has failed); `DuplicatesNeedRestart`; `EventuallyStored`.
- stream: `NothingSkipped`, `PassesKeepSpacing` (while the scenario repeats no
  record, overwriting timestamps in place and taking the next pass's reference
  from them keeps the distances of the files and starts each pass at its clock,
  whatever the ties and gaps and however late the thread runs),
  `SummaryIsCurrent`, and under fairness `PushedEventually` and `KafkaDelivered`
  (an alert that found room is pushed, or was in the hand of a stream whose link
  broke).

The types of each component are theorems or parts of the inductive invariants
(section 6). All of these invariants, action properties and refinements are also
proved for every value of the constants; the liveness properties are not.

## 4. Runs that end in a counterexample

Seven statements of the repository do not hold of its code; TLC shows how.

- store_clear: "Safely clears all records" (alerting/store.py 102). A DELETE
  that raises makes clear() call _init_db() with the lock held: it never returns.
- fallback: "runs vectorized ONNX inference when available, else falls back to
  PKL" (tests/test_phase5_e2e.py 149). Whether it is available is whether the
  file exists; one that cannot be loaded scores 0.0 and the pickled detector is
  not asked.
- replay_overlap: "Immediately terminates the running live replay simulation"
  (dashboard/api/server.py 468). A stop between a trigger's own stop and its
  Popen is answered, and the replay starts afterwards.
- orphans: "guarantees clean termination" (start_all.py 101). A second signal
  during the teardown ends the launcher with the server alive; an exception in
  the teardown and a replay started after children() was listed do the like.
- features_dns: "query rate per minute" (features/dns_exfil_features.py 7). A
  minute that a packet other than DNS ends is never reset: the count goes on.
- stream_restart: "Pushes live telemetry and real-time alert events directly to
  the dashboard" (dashboard/api/server.py 265). last_ts taken from a simulated
  clock ahead of the wall clock hides the first alerts of the next replay.
- restamp: "Remap timestamp to wall clock" (datasource/dataset_replay.py 294). A
  weighted scenario repeats the same record objects; the second turn of one in a
  pass adds the wall clock to a timestamp that is already the wall clock's.

## 5. Fairness

Only what the code's scheduling gives. A thread that is not blocked takes its
next step (weak fairness on the producer, the consumer, the writer loop, the
three threads of the pipeline, the generator's turns: each is a loop with a
sleep or a timeout). Calls from outside (appends, requests, signals, stops,
connects, crashes) are never forced. A join with a timeout may end at any time,
whatever phase the thread it waits for is in; the replay threads themselves are
under no fairness, so `RequestsSettle` rests on the timeouts alone. In the threads
run the conditions of both programs are stated, each guarded by the process the
behaviour exercises. In the streams run only the streams'
turns are fair; the replays and the topic may stall for ever. In the launcher
the steps of main and of the teardown are fair, and so are the server's own steps
while it lives; a server that ignores SIGTERM is allowed, one that ignores
SIGKILL is not. Zeek is assumed to come to its end: subprocess.run has no
timeout. `MaxFaults` bounds the failing INSERTs and is thereby an assumption of
`EventuallyStored`: ClickHouse recovers, and no batch is refused for ever.

## 6. Proofs

TLAPS proves the theorems below for every value of the constants, under the
named assumptions of each module: sizes are positive, times are naturals, the
callers are not the mark of nobody, the models of a worker differ (they are the
keys of a dict), the components of a composition see the same hosts
(`AggAssumption`; their windows need not be equal), the detectors are the seven that exist and what a model answers
is a probability or a label (`PipelineAssumption`). A composition's proofs are in
one module with those of its components: the eight modules `*_proofs` hold the
theorems of everything they extend. Each argument is an inductive invariant; what
follows says what it adds to the property and why.

**AlertStore_proofs**: `StoreInvariant`, and from it `StoreTypes`,
`AlertsAreNotLost`, `FailedFlushIsClean`, `CountsMatchRows`,
`ReadersSeeTheirWrites` and the action property `FailedClearNeverReturns` (the
counterexample of store_clear, for every instance). `StoreInv` has two halves.
About the data: files are numbered as they are created and one not yet created is
empty (`FilesInOrder`); a buffered alert is in no file and in no other store
(`BufferedOnce`, without which a failed flush could drop what another had
committed); a store with another file open than the one at the path wrote nothing
to that one (`WrittenWhereOpen`, needed where a recovery makes a new file under
open connections). About the threads: who is between two steps of a method holds
its store's lock, and what a reader had seen accepted has left the buffer. All
methods share one lemma: each is a change of connection with one fate of a batch.
`AlertsAreNotLost` speaks of the file at db_path and therefore needs beside it that
the rows of every other file were counted when they were lost (`GoneIsCounted`):
as wiped when the recovery deleted the file, as stray when they were written later.

**E2EPipeline_proofs**: `PipelineInvariant`, `PipelineTypes`,
`ShutdownLeavesNoGap`. Until the event is set the batches in the queue, in the
worker's hand and in main's list follow each other without a gap, and all before
them came out of the worker (`UntilStopped`); after it the drain may take any of
them, and only the batch the worker is at still counts (`WorkInOrder`). The
property itself is then needed of the alert queue as well (`QueuedHasNoGaps`).
`AlertsAreStoredInOrder`: the table, and the queue behind it but for the stop mark,
are strictly increasing (`OutInOrder`); it is inductive with what is ahead of them:
the task in the worker's hand, and until the event is set the first one not yet in
its hand, is later than every alert it emitted (`AheadInOrder`). `StopReachesWriter`
is inductive beside the types.

**InferenceWorker_proofs**: of the store, `StoreTypeCorrect`, `StoresAtLeastOnce`,
`DuplicatesOnlyFromFailures`. `StoreInv`: appended alerts are pending or have a
row; a pending alert has a row only for INSERTs that raised after writing (what
makes the bound on duplicates inductive, since it will be written once more). Of
the worker over it, `WorkerInvariant`, `CrashCostsOneBatch`, `AnomalyLossIsBounded`,
`WorkerStoresOnce`, `WorkerStoresAtLeastOnce`. The bound on copies is
inductive only with a tighter one for anomalies this process has not yet given to
the store (`CopiesInv`). The bound on losses needs that an anomaly nothing excuses
has a row, is pending, or waits for its model (`OwedIsHeld`); that while INSERTs
succeed whoever fills a batch also empties it (`ShortPending`), so that a crash
finds fewer pending than fill one; and the sums of what failures and crashes have
cost so far (`Budget`).

**Streams_proofs**: `StreamsInvariant`, `AnswersAreCurrent`, `StreamsSkipNothing`.
The cache: whoever holds the lock is between its question and its fill, so no
invalidation comes between; what is cached was read at `lastTime` or later and
since the last invalidation. The simulated stream: the ids it remembers were
pushed, also after pruning; the replay's clock has passed every row; no stream
that was not ahead at the start gets ahead of that clock.

`RestampingKeepsSpacing` rests on `FeedInv`. The property is about the records
replayed in this pass; what keeps it is where the others are: while no record
repeats, a stamp is the record's distance from the first one in the files, after
the start of this pass for what was replayed in it and after the reference for the
rest (`StampsInOrder`), so a pass that starts anew finds all of them after its
reference. What is needed of the sort and the filter is only what `Schedules` says
of its elements, no induction. `QueuedAlertsAreKept`: a stream leaves out only what
it sent itself, and what any sent was pushed or was in its hand when its link broke
(`SentWereReached`).

**Launcher_proofs**: `LaunchInvariant` and `TeardownIsClean` for requests that may
overlap, a second signal and an exception in the teardown included; `ControlInvariant`, `ReplaysDoNotPileUp`, `QueueStaysCurrent` and
`StopEndsReplays` when they do not (with overlap they are false: run
replay_overlap). The invariant says that only the last request is being served
(`OneAtATime`), what is known at each of its steps (`Inside`: no thread once stop()
has joined, no subprocess after the kill), and that the one source alive is the
one the server has a handle of (`OneSource`).

**Aggregators_proofs**: `SchedulerTypeCorrect`, `EverySynCountedOnce`,
`SweepBoundsState`, `SweepForgetsOnlySilent` from `SchedulerInv` (types, finiteness
of the queries, the SYN balance, and `PrevBehind`: the last 60 s rollup lies behind
the window it opened; W1 <= W60 is needed, without it a packet could close the 60 s
window and restart it out of order). `SketchNeverUndercounts`, for every hash
function: the estimate is a minimum over rows, so the invariant bounds every cell,
and the minimum is attained by the well-foundedness of the naturals.
`AggregatorsImplement`: the composition is both. `TrackerCountsEverything` holds for
any two window lengths: it is inductive beside the types of the counters, with the
scheduler's SYNs counted by `SchedulerInv` on the other side.

**AlertPipeline_proofs**: `CorrelatorInvariant`, `RelatedAreTrulyCorrelated`,
`EvictionHidesNothing`, `IndexDoesNotLeak`. The deque is the end of the history
(`RecentIsSuffix`); an index deque holds alerts of its address that are in the
deque, in the order they came (`IndexInOrder`: this is why popping from the head
reaches the one evicted, although timestamps are in no order); and what it no
longer has is out of the window of some later alert (`OnlyOldAreMissing`).
`BatchIsPredictEach` goes over batches of any length; `FastPathAgrees` compares,
class by class, what the worker itself computes with what the detector answers.

**PcapIngest_proofs**: `ReaderTypeCorrect`, `SentinelIsAlwaysLast`,
`EveryPacketAccountedFor` from `ReaderInv` (what the producer holds is a packet; the
end marker is last and the producer is done, which the count of packets needs as it
does not count the marker). `ReaderImplementsLossyFifo` and
`ZeekImplementsLossyFifo`: the queue is mapped to its items (the marker cut off);
the lemmas about a put and a get on that sequence serve both readers.
`LossyFifoKeepsOrder`: what was handed over followed by what waits is in order of
reading. The argument is about three values, not about variables (`FifoMove`,
`FifoMoveKeepsOrder`), so that it also serves the readers under their refinement
mappings: `PacketsComeInOrder` and `LinesComeInOrder` state it of the code's own
queues. `IngestIsPcapReader`: the ingest loop is a reader whatever its consumer does.
`FlowTableEvictsLeastRecent`: the table is sorted by last use, which is what makes
its head the right one to evict (`MovedToEnd` says what move_to_end does to a
sequence). That the packets of the table and of evicted flows add up is a statement
about the cardinality of a set, one pair of flow and number for each packet
(`CountedPairs`): a packet adds a pair, an eviction takes those of one flow away.

Only model-checked:

- the liveness properties (`StopReturns`, `EofUnlessGivenUp`, `ZeekStopReturns`,
  `RequestsSettle`, `LauncherEnds`, `EventuallyStored`, `PushedEventually`,
  `KafkaDelivered`, `ProcessEnds`): fairness and ENABLED are out of the prover's
  reach;
- what the seven counterexamples refute, but for `FailedClearNeverReturns`.

## 7. Not modelled

- Trained models, training, export to ONNX, calibration: numeric and offline;
  a model's answer is chosen freely.
- EWMA, Welford and entropy: floating-point accumulators without control flow.
  The recon, exfiltration, TLS and DGA extractors hold nothing else.
- Byte-level parsing (dpkt, pnet): a packet parses to its key or to nothing. The
  files of a dataset are loaded records.
- `_evict_expired` of the flow table: called from nowhere.
- `datasource/simulated.py`: used by nothing. `datasource/feature_extractor.py`,
  traffic generators, dataset scripts, benchmarks: offline, no shared state.
- `ingest/flow_export_listener.py`: a receive loop without state.
- The page (dashboard/app): presentation; nothing depends on its state.
- Telemetry counters, files and topic, baseline seeding, read-only endpoints.
- The Windows branches of start_all.py and stop_active_replay; what a failing
  taskkill does to the teardown is the exception of the POSIX branch.
- The ingestor's sends to Kafka: fire and forget, nothing is promised of them.

- A switch of mode while event streams are open: the branches of a stream share
  last_ts and the sent ids (server.py 268-333), and the model fixes the mode of a
  behaviour.
- What a full turn, or another stream that was faster, takes from one stream in
  dataset mode (server.py 304): nothing is promised of it.

The two aggregators differ where their code does, and no property says otherwise:
the ingestor counts every segment with the SYN bit (main.rs 226, 235), SYN-ACKs
included, and the scheduler only those whose flags are SYN alone
(ddos_features.py 32-35); the ingestor's window is 1.0 s (main.rs 320), the
scheduler's are 0.1, 0.5 and 1.0 s in the replay and in the dataset generator
(test_phase5_e2e.py 383, dataset_generator.py 20), so that the "minute" of the DNS
counters is one second there.

The worker as it stands does not start: worker.py 35 imports `ClickHouseAlertStore`
from `alerting.store`, which does not define it; the class is in
`alerting.clickhouse_store`, and the model is of the worker with that import. Its
dga model is loaded and never fed: extract_features_for_model returns None for it
(worker.py 156-157), which is what `Takes` says of it.

Observed on the way, without a property because the repository promises nothing
about them: severe alerts spawn unordered webhook threads (alerting/store.py 129);
addresses and ports of a flow key are sorted independently
(flow_session_tables.py 82); `dst_ports_seen` of the ingestor never has a second
entry (main.rs 260); the recon counters and the ten TLS packets kept are those of
the whole run (recon_scan_features.py 23, encrypted_meta_features.py 12);
`dst_fan_in` counts packets, not sources (beaconing_features.py 26); the telemetry
clock is reset at every pass of a dataset and its counters are not
(dataset_replay.py 321); a dataset replay triggered in simulated mode is never
streamed (server.py 302); get_flow answers None for the end and for an empty queue
(zeek_reader.py 101); `predict_batch` of the DDoS detector is called from nowhere;
the page counts an alert twice that is in a summary and
pushed afterwards (app.js 690).

## 8. Plan

Done, in this order: the stores and the correlator; the reader and flow table;
replay control with the dataset source; the worker over the ClickHouse store;
the schedulers; the event stream; the pipeline; the launcher over replay control;
the dataset and Kafka sources of the stream and the summary cache; detectors,
engine and normalizer before the correlator; the Zeek reader and the abstract
FIFO both readers implement; the sketch.

Proved, in this order: the stores and readers with the sketch and the scheduler;
then AlertStore, the pipeline, the worker, the cache and the simulated stream, the
launcher with replay control, both aggregators together, the correlator and the
two inference paths, the Zeek reader and the flow table.

Then what was left of the safety properties: the sources of the event stream (the
restamping of a dataset replay, the Kafka queue), the count of the flow table, the
order in which packets, log lines and alerts come out, and the shutdown's message
to the writer. Last, what had been excused became state of its own and is counted
or refuted: rows in deleted files, the causes of a crash's losses, broken model
files, an exception in the teardown, repeated records.

Left: the liveness properties, which stay with TLC; the flow export listener and
the simulated source, should they get state that others share; the telemetry
clock of a dataset replay; a mode that changes under open streams.
