-------------------------- MODULE InferenceWorker --------------------------
(***************************************************************************)
(* InferenceWorker of inference/worker.py with its ClickHouseAlertStore:   *)
(* records polled from the Kafka topic raw-features pile up into a batch;  *)
(* a full batch goes through the models, and each anomaly becomes an       *)
(* alert given to the store and to the topic alerts-normalized.  That      *)
(* topic is the dashboard's: here only produce() raising BufferError       *)
(* matters.                                                                *)
(*                                                                         *)
(* Kafka is external: the consumer commits the position it has polled up   *)
(* to whenever it likes (enable.auto.commit), whatever became of the       *)
(* records, and a process that finds no committed offset begins at the end *)
(* of the topic (auto.offset.reset = latest).                              *)
(***************************************************************************)
EXTENDS ClickHouseStore

CONSTANTS NRecords,        \* records of the topic, numbered from 1
          Undecodable,     \* those that are not JSON
          Models,          \* the sequence of model_mgr.sessions
          InferenceBatch,  \* BATCH_SIZE
          MaxRestarts      \* bound on crashes

(* extract_features_for_model has a schema for five of the six models that *)
(* can be loaded: dga gets no record, and so no future and no alert.       *)
Takes(m) == m # "dga"

ASSUME WorkerAssumption ==
    /\ NRecords \in Nat /\ MaxRestarts \in Nat
    /\ Undecodable \subseteq 1..NRecords
    /\ InferenceBatch \in Nat \ {0}
    \* sessions is a dict, and a worker without a model collects no batch
    /\ Models \in Seq(STRING) /\ Models # <<>>
    /\ \A i, j \in 1..Len(Models) : Models[i] = Models[j] => i = j
    \* an alert is an anomaly <<record, model>>
    /\ Alerts \subseteq ((1..NRecords) \ Undecodable) \X {m \in Elems(Models) : Takes(m)}

VARIABLES
    worker,     \* where run() is
    stopping,   \* the worker's _stop
    position,   \* the consumer's position: records polled
    committed,  \* the group's committed offset; 0 when there is none
    batch,      \* the records of pending and pending_meta
    model,      \* index of the model whose future is waited for
    todo,       \* records of its anomalies still to be emitted
    restarts,   \* crashes so far
    \* History:
    examined,   \* records whose batch went through _flush_batch
    skipped,    \* alerts given up because a model or a produce failed
    failures,   \* how often that happened
    lost,       \* records a crash took from the batch for good
    forgotten,  \* alerts a crash took from the store's _pending
    jumped,     \* records passed over for want of a committed offset
    offline     \* whether some process ran without a connection

storeVars == <<connected, pending, copies, stop, writer, closer, faults, appended, unsure>>
history == <<examined, skipped, failures, lost, forgotten, jumped, offline>>
workerVars == <<worker, stopping, position, committed, batch, model, todo, restarts, history>>
wvars == <<storeVars, workerVars>>

WorkerInit ==
    /\ Init
    /\ worker = "poll" /\ stopping = FALSE
    /\ position = 0 /\ committed = 0
    /\ batch = <<>> /\ model = 1 /\ todo = {} /\ restarts = 0
    /\ examined = {} /\ skipped = {} /\ failures = 0 /\ lost = {}
    /\ forgotten = {} /\ jumped = {} /\ offline = ~connected

-----------------------------------------------------------------------------
(* The anomalies that model m finds in the records rs.                     *)
Anomalies(rs, m) == {r \in rs : <<r, m>> \in Alerts}
AlertsOf(rs, m) == rs \X {m}

(* A record that is JSON is taken by every model loaded but dga, so the    *)
(* per-model lists that are not empty hold the same records; a worker that *)
(* has only dga drops what it polls.                                       *)
Taken(r) == r \notin Undecodable /\ \E i \in 1..Len(Models) : Takes(Models[i])

BugAccumulated(r) ==     \* the record that fills the batch forgotten
    IF Taken(r) /\ Len(batch) + 1 < InferenceBatch THEN Append(batch, r) ELSE batch
Accumulated(r) == IF Taken(r) THEN Append(batch, r) ELSE batch

(* One turn of the loop with a message.                                    *)
Poll ==
    /\ worker = "poll" /\ ~stopping /\ position < NRecords
    /\ position' = position + 1
    /\ batch' = Accumulated(position + 1)
    /\ worker' = IF Len(batch') >= InferenceBatch THEN "predict" ELSE "poll"
    /\ UNCHANGED <<storeVars, stopping, committed, model, todo, restarts, history>>

(* future.result of the model: its anomalies (none for a model that was    *)
(* given no record, whose future does not exist), ...                      *)
Predicted ==
    /\ worker = "predict"
    /\ todo' = Anomalies(Elems(batch), Models[model])
    /\ worker' = "emit"
    /\ UNCHANGED <<storeVars, stopping, position, committed, batch, model, restarts, history>>

(* ... or a timeout, or an error (predict_batch turns one into "normal").  *)
PredictFails ==
    /\ worker = "predict" /\ Takes(Models[model])
    /\ worker' = "emit"
    /\ skipped' = skipped \cup AlertsOf(Elems(batch), Models[model])
    /\ failures' = failures + 1
    /\ UNCHANGED <<storeVars, stopping, position, committed, batch, model, todo, restarts,
                   examined, lost, forgotten, jumped, offline>>

BugEmit(r) ==            \* a produce that raised is tried again, append and all
    /\ worker = "emit" /\ r \in todo /\ \A q \in todo : r <= q
    /\ AppendAlert(<<r, Models[model]>>)
    /\ todo' \in {todo, todo \ {r}}
    /\ UNCHANGED <<worker, stopping, position, committed, batch, model, restarts, history>>

(* normalize, correlate, store.append and produce one anomaly, in the      *)
(* order of the batch, which is that of the topic; a produce that raises   *)
(* skips the rest of this model's, if there is a rest.                     *)
Emit(r) ==
    /\ worker = "emit" /\ r \in todo /\ \A q \in todo : r <= q
    /\ AppendAlert(<<r, Models[model]>>)
    /\ \/ todo' = todo \ {r} /\ UNCHANGED <<skipped, failures>>
       \/ /\ todo # {r} /\ todo' = {} /\ failures' = failures + 1
          /\ skipped' = skipped \cup AlertsOf(todo \ {r}, Models[model])
    /\ UNCHANGED <<worker, stopping, position, committed, batch, model, restarts,
                   examined, lost, forgotten, jumped, offline>>

(* The next model's future, or back to the loop with empty lists.          *)
NextModel ==
    /\ worker = "emit" /\ todo = {} /\ model < Len(Models)
    /\ worker' = "predict" /\ model' = model + 1
    /\ UNCHANGED <<storeVars, stopping, position, committed, batch, todo, restarts, history>>

BatchDone ==
    /\ worker = "emit" /\ todo = {} /\ model = Len(Models)
    /\ worker' = "poll" /\ model' = 1
    /\ batch' = <<>> /\ examined' = examined \cup Elems(batch)
    /\ UNCHANGED <<storeVars, stopping, position, committed, todo, restarts,
                   skipped, failures, lost, forgotten, jumped, offline>>

-----------------------------------------------------------------------------
(* stop(), which only another thread can call in time: nothing here does.  *)
StopWorker ==
    /\ ~stopping /\ stopping' = TRUE
    /\ UNCHANGED <<storeVars, worker, position, committed, batch, model, todo, restarts, history>>

(* The loop ends: a final flush if anything is left.                       *)
LoopEnds ==
    /\ worker = "poll" /\ stopping
    /\ worker' = IF batch # <<>> THEN "predict" ELSE "closing"
    /\ UNCHANGED <<storeVars, stopping, position, committed, batch, model, todo, restarts, history>>

(* consumer.close(), which commits, then store.close().                    *)
CloseWorker ==
    /\ worker = "closing"
    /\ CloseBegin
    /\ worker' = "closed" /\ committed' = position
    /\ UNCHANGED <<stopping, position, batch, model, todo, restarts, history>>

(* The consumer's auto-commit.                                             *)
AutoCommit ==
    /\ worker # "closed" /\ committed # position
    /\ committed' = position
    /\ UNCHANGED <<storeVars, worker, stopping, position, batch, model, todo, restarts, history>>

(* The process dies and another takes its place: a crash, a SIGTERM, or    *)
(* the KeyboardInterrupt of __main__, which leaves run() before stop() is  *)
(* called, so that the final flush is not reached either.  It may also die *)
(* in store.close(), its offset committed.                                 *)
Restart ==
    /\ closer # "closed"
    /\ restarts < MaxRestarts /\ restarts' = restarts + 1
    /\ connected' \in BOOLEAN
    /\ pending' = <<>> /\ appended' = {}
    /\ stop' = FALSE /\ writer' = "check" /\ closer' = "open"
    /\ worker' = "poll" /\ stopping' = FALSE
    /\ batch' = <<>> /\ model' = 1 /\ todo' = {}
    /\ \/ committed > 0 /\ position' = committed
       \/ committed = 0 /\ position' \in position..NRecords
    /\ lost' = lost \cup (Elems(batch) \cap (1..position'))
    /\ jumped' = jumped \cup ((position + 1)..position')
    /\ forgotten' = forgotten \cup Elems(pending)
    /\ offline' = (offline \/ ~connected')
    /\ UNCHANGED <<copies, faults, unsure, committed, examined, skipped, failures>>

StoreStep ==
    /\ WriterCheck \/ WriterFlush \/ CloseJoined \/ CloseFlush
    /\ UNCHANGED workerVars

WorkerNext ==
    \/ Poll \/ Predicted \/ PredictFails \/ NextModel \/ BatchDone
    \/ \E r \in 1..NRecords : Emit(r)
    \/ StopWorker \/ LoopEnds \/ CloseWorker \/ AutoCommit \/ Restart \/ StoreStep

(* The store's writer thread sleeps and flushes for ever; close() runs on. *)
WorkerSpec == /\ WorkerInit /\ [][WorkerNext]_wvars
              /\ WF_wvars(StoreStep)

-----------------------------------------------------------------------------
(* worker.py 172, 196-221: an offset is committed before its record was    *)
(* examined, so a crash loses records: of those polled, at most one batch  *)
(* for each crash.  Every other record polled was examined or is in the    *)
(* batch.  What lay between a process that never committed and the end of  *)
(* the topic is a loss of its own, and nothing bounds it.                  *)
RecordsAccountedFor ==
    /\ {r \in 1..position : Taken(r)} \subseteq examined \cup Elems(batch) \cup lost \cup jumped
    /\ Cardinality(lost) <= restarts * InferenceBatch

(* An anomaly of the batch that its model has yet to give to the store.    *)
Waits(a) ==
    /\ a[1] \in Elems(batch)
    /\ \E i \in model..Len(Models) :
          a[2] = Models[i] /\ (i = model /\ worker = "emit" => a[1] \in todo)

(* worker.py 232-278 and clickhouse_store.py 113-118: what becomes of the  *)
(* anomalies of the records that were not lost.  Each is stored, pending   *)
(* or on its way there, but for those a failing model or produce skipped,  *)
(* at most a batch each time, and those a crash found in _pending, fewer   *)
(* than fill an INSERT while ClickHouse takes them (as many as there are   *)
(* when it does not: a batch that is refused is kept and grows).           *)
LossesBounded ==
    /\ \A a \in Alerts \ (Malformed \cup skipped \cup forgotten) :
          a[1] \in (1..position) \ (lost \cup jumped) =>
              copies[a] > 0 \/ a \in Elems(pending) \/ Waits(a)
    /\ Cardinality(skipped) <= failures * InferenceBatch
    /\ ~offline /\ faults = 0 => Cardinality(forgotten) <= restarts * (BatchSize - 1)

(* worker.py 264-275, 223-229 and clickhouse_store.py 182-184: the batch,  *)
(* the writer thread and the final flush store an alert once; a second row *)
(* takes an INSERT that raised after writing, or a process that polled the *)
(* record again.                                                           *)
DuplicatesNeedRestart == \A a \in Alerts : copies[a] <= 1 + unsure + restarts

=============================================================================
