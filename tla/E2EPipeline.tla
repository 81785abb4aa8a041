---------------------------- MODULE E2EPipeline ----------------------------
(***************************************************************************)
(* The replay subprocess, run_e2e_pipeline of tests/test_phase5_e2e.py:    *)
(* the main thread turns packets into detector tasks, in batches on        *)
(* task_queue; the worker thread turns tasks into alerts on alert_queue;   *)
(* the writer thread stores them.  The shutdown, by end of plan or by a    *)
(* signal, sets stop_event, empties task_queue and sends "STOP" to both    *)
(* threads, joining each for a limited time.                               *)
(***************************************************************************)
EXTENDS Naturals, Sequences

CONSTANTS NTasks,      \* tasks the plan's packets fire, numbered from 1
          Firing,      \* tasks that give an alert
          LocalBatch,  \* tasks in a full local_batch (50)
          Throttle,    \* batches waiting when main holds back (40)
          AlertMax     \* maxsize of alert_queue (50000)

ASSUME PipelineAssumption ==
    /\ NTasks \in Nat /\ Firing \subseteq 1..NTasks
    /\ LocalBatch \in Nat \ {0} /\ Throttle \in Nat
    /\ AlertMax \in Nat \ {0}

STOP == 0

VARIABLES
    main,       \* where run_e2e_pipeline is
    next,       \* the next task
    local,      \* local_batch
    taskQ,      \* task_queue, of batches
    stopSet,    \* stop_event
    worker,     \* where inference_worker is
    hand,       \* the tasks of the batch it still has to do
    alertQ,     \* alert_queue
    db,         \* where db_writer_thread is
    stored,     \* alerts given to store.append, in order
    \* History:
    missed,     \* tasks whose alert met a full queue or a worker's error
    stopRefused \* whether alert_queue had no room for "STOP"

e2eVars == <<main, next, local, taskQ, stopSet, worker, hand, alertQ, db, stored, missed, stopRefused>>
mainVars == <<main, next, local>>
workVars == <<worker, hand>>
dbVars == <<db, stored>>
history == <<missed, stopRefused>>

Elems(s) == {s[i] : i \in 1..Len(s)}
IsStop(b) == b = <<STOP>>

E2EInit == /\ main = "run" /\ next = 1 /\ local = <<>>
           /\ taskQ = <<>> /\ alertQ = <<>> /\ stopSet = FALSE
           /\ worker = "get" /\ hand = <<>>
           /\ db = "clear" /\ stored = <<>>
           /\ missed = {} /\ stopRefused = FALSE

-----------------------------------------------------------------------------
(* The main thread.  A fired task joins local_batch; a full one is put     *)
(* when no more than Throttle batches wait, or at once after a stop.  That *)
(* keeps task_queue (maxsize 25000) from ever being full.  The packet in   *)
(* hand fires all its tasks, even after the event is set.                  *)
FireTask ==
    /\ main = "run" /\ next <= NTasks
    /\ next' = next + 1 /\ local' = Append(local, next)
    /\ main' = IF Len(local') >= LocalBatch THEN "put" ELSE "run"
    /\ UNCHANGED <<taskQ, stopSet, workVars, alertQ, dbVars, history>>

PutLocal ==
    /\ main = "put" /\ (Len(taskQ) <= Throttle \/ stopSet)
    /\ taskQ' = Append(taskQ, local) /\ local' = <<>>
    /\ main' = "run"
    /\ UNCHANGED <<next, stopSet, workVars, alertQ, dbVars, history>>

(* handle_stop on SIGINT or SIGTERM.                                       *)
StopSignal ==
    /\ ~stopSet /\ stopSet' = TRUE
    /\ UNCHANGED <<mainVars, taskQ, workVars, alertQ, dbVars, history>>

(* The plan or the duration is over, or the event is set: the last, partly *)
(* full batch is put.                                                      *)
PlanEnds ==
    /\ main = "run"
    /\ taskQ' = IF local # <<>> THEN Append(taskQ, local) ELSE taskQ
    /\ local' = <<>> /\ main' = "stop"
    /\ UNCHANGED <<next, stopSet, workVars, alertQ, dbVars, history>>

BugSetStop ==        \* the event forgotten: "STOP" in the queue has to do
    /\ main = "stop"
    /\ main' = "drain"
    /\ UNCHANGED <<next, local, taskQ, stopSet, workVars, alertQ, dbVars, history>>

SetStop ==
    /\ main = "stop"
    /\ stopSet' = TRUE /\ main' = "drain"
    /\ UNCHANGED <<next, local, taskQ, workVars, alertQ, dbVars, history>>

(* One get_nowait, or the end of the drain and "STOP" for the worker.      *)
Drain ==
    /\ main = "drain"
    /\ \/ taskQ # <<>> /\ taskQ' = Tail(taskQ) /\ UNCHANGED main
       \/ taskQ = <<>> /\ taskQ' = <<<<STOP>>>> /\ main' = "joinWorker"
    /\ UNCHANGED <<next, local, stopSet, workVars, alertQ, dbVars, history>>

(* The worker has ended, or the second it is given is over.                *)
JoinWorker ==
    /\ main = "joinWorker"
    /\ main' = "stopDb"
    /\ UNCHANGED <<next, local, taskQ, stopSet, workVars, alertQ, dbVars, history>>

BugStopDb ==         \* the writer not told
    /\ main = "stopDb"
    /\ main' = "joinDb"
    /\ UNCHANGED <<next, local, taskQ, stopSet, workVars, alertQ, dbVars, history>>

(* "STOP" for the writer, given up when the queue stays full for 0.5 s.    *)
StopDb ==
    /\ main = "stopDb"
    /\ IF Len(alertQ) < AlertMax
       THEN alertQ' = Append(alertQ, STOP) /\ UNCHANGED stopRefused
       ELSE stopRefused' = TRUE /\ UNCHANGED alertQ
    /\ main' = "joinDb"
    /\ UNCHANGED <<next, local, taskQ, stopSet, workVars, dbVars, missed>>

(* The writer has ended, or its two seconds are over.                      *)
JoinDb ==
    /\ main = "joinDb"
    /\ main' = "done"
    /\ UNCHANGED <<next, local, taskQ, stopSet, workVars, alertQ, dbVars, history>>

-----------------------------------------------------------------------------
(* inference_worker: the event is looked at before the get ...             *)
WorkerGet ==
    /\ worker = "get"
    /\ worker' = IF stopSet THEN "done" ELSE "waiting"
    /\ UNCHANGED <<mainVars, taskQ, stopSet, hand, alertQ, dbVars, history>>

(* ... the get takes a batch or times out ...                              *)
WorkerGot ==
    /\ worker = "waiting"
    /\ \/ taskQ # <<>> /\ hand' = Head(taskQ) /\ taskQ' = Tail(taskQ) /\ worker' = "got"
       \/ taskQ = <<>> /\ worker' = "get" /\ UNCHANGED <<hand, taskQ>>
    /\ UNCHANGED <<mainVars, stopSet, alertQ, dbVars, history>>

(* ... and it is looked at again: what was taken is then left undone.      *)
WorkerBreaks == IsStop(hand) \/ stopSet

WorkerCheck ==
    /\ worker = "got"
    /\ worker' = IF WorkerBreaks THEN "done" ELSE "work"
    /\ hand' = IF WorkerBreaks THEN <<>> ELSE hand
    /\ UNCHANGED <<mainVars, taskQ, stopSet, alertQ, dbVars, history>>

(* One task: scored, and its alert put; a queue that stays full for 0.2 s  *)
(* drops it.                                                               *)
WorkTask ==
    /\ worker = "work" /\ hand # <<>>
    /\ hand' = Tail(hand)
    /\ CASE Head(hand) \notin Firing -> UNCHANGED <<alertQ, missed>>
         [] Head(hand) \in Firing /\ Len(alertQ) < AlertMax ->
                alertQ' = Append(alertQ, Head(hand)) /\ UNCHANGED missed
         [] OTHER -> missed' = missed \cup {Head(hand)} /\ UNCHANGED alertQ
    /\ UNCHANGED <<mainVars, taskQ, stopSet, worker, dbVars, stopRefused>>

(* A detector that raises ends the batch.                                  *)
WorkError ==
    /\ worker = "work" /\ hand # <<>>
    /\ missed' = missed \cup Elems(hand)
    /\ hand' = <<>>
    /\ UNCHANGED <<mainVars, taskQ, stopSet, worker, alertQ, dbVars, stopRefused>>

BatchDone ==
    /\ worker = "work" /\ hand = <<>>
    /\ worker' = "get"
    /\ UNCHANGED <<mainVars, taskQ, stopSet, hand, alertQ, dbVars, history>>

-----------------------------------------------------------------------------
(* db_writer_thread: store.clear(), which hangs when its DELETE raises     *)
(* (see AlertStore), then every alert until "STOP".  An append whose flush *)
(* raises ends the thread.                                                 *)
DbClear ==
    /\ db = "clear"
    /\ db' \in {"get", "hung"}
    /\ UNCHANGED <<mainVars, taskQ, stopSet, workVars, alertQ, stored, history>>

DbGet ==
    /\ db = "get" /\ alertQ # <<>>
    /\ alertQ' = Tail(alertQ)
    /\ IF Head(alertQ) = STOP
       THEN db' = "done" /\ UNCHANGED stored
       ELSE stored' = Append(stored, Head(alertQ)) /\ db' \in {"get", "raised"}
    /\ UNCHANGED <<mainVars, taskQ, stopSet, workVars, history>>

-----------------------------------------------------------------------------
MainStep == FireTask \/ PutLocal \/ PlanEnds \/ SetStop \/ Drain \/ JoinWorker \/ StopDb \/ JoinDb
WorkerStep == WorkerGet \/ WorkerGot \/ WorkerCheck \/ WorkTask \/ WorkError \/ BatchDone
DbStep == DbClear \/ DbGet

E2ENext == MainStep \/ StopSignal \/ WorkerStep \/ DbStep

(* Three threads, none of which waits without a timeout.                   *)
E2ESpec == /\ E2EInit /\ [][E2ENext]_e2eVars
           /\ WF_e2eVars(MainStep) /\ WF_e2eVars(WorkerStep) /\ WF_e2eVars(DbStep)

-----------------------------------------------------------------------------
(* test_phase5_e2e.py 186, 484-492: the drain takes batches from the same  *)
(* end of task_queue as the worker, but after the event is set, so a       *)
(* shutdown costs the end of the replay and never the middle: before every *)
(* alert stored come all those of earlier tasks that were not missed on a  *)
(* full queue or by an error.                                              *)
StoredHasNoGaps ==
    \A i \in 1..Len(stored) :
        \A k \in (Firing \cap 1..stored[i]) \ missed :
            \E j \in 1..i : stored[j] = k

(* test_phase5_e2e.py 484-507: once it is stopped the process ends, all    *)
(* three of its threads, unless the writer hangs in clear() or "STOP"      *)
(* found no room.  The server waits for it without a timeout.              *)
ProcessEnds ==
    stopSet ~> \/ main = "done" /\ worker = "done" /\ db \in {"done", "raised"}
               \/ db = "hung" \/ stopRefused

=============================================================================
