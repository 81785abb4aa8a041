----------------------------- MODULE AlertStore -----------------------------
(***************************************************************************)
(* The SQLite alert sink of alerting/store.py.  Each store is one          *)
(* AlertStore object: a lock, a write buffer and a connection.  Stores of  *)
(* different processes (the dashboard server, the pipeline it starts)      *)
(* share the database file.  A file is a number: deleting the database     *)
(* frees the path, a connection made before keeps the unlinked file.       *)
(*                                                                         *)
(* Every method holds the store's lock for its whole body, so one method   *)
(* is one step, except where the code lets go of the lock or where another *)
(* process can commit in between: a reader flushes, then locks again and   *)
(* issues two SELECTs; recovery deletes the files before it recreates them.*)
(***************************************************************************)
EXTENDS Naturals, Sequences, FiniteSets

CONSTANTS Stores,     \* AlertStore objects, one per process
          Threads,    \* threads that call them
          Home,       \* the store each thread uses
          Alerts,     \* alerts, identified by alert_id (a fresh uuid each)
          Severe,     \* the alerts of severity HIGH or CRITICAL
          BatchSize,  \* batch_size
          MaxFiles,   \* bound on the database files ever created
          FaultOps    \* the sqlite calls that may raise a DatabaseError

NoOne == 0            \* lock holder when free, and "no file / no connection"

ASSUME StoreAssumption ==
    /\ Home \in [Threads -> Stores]
    /\ NoOne \notin Threads
    /\ BatchSize \in Nat \ {0}
    /\ MaxFiles \in Nat \ {0}
    /\ Severe \subseteq Alerts
    /\ FaultOps \subseteq {"create", "connect", "insert", "delete"}

VARIABLES
    lock,     \* _lock of each store: the thread that holds it
    buffer,   \* _write_buffer of each store
    conn,     \* _conn of each store: the file it has open
    path,     \* the file db_path names now
    created,  \* how many files were ever created
    rows,     \* committed rows of each file
    schema,   \* files that have the alerts table
    ready,    \* stores whose constructor has returned
    pc,       \* where each thread is
    hooks,    \* webhook threads started and not finished
    \* History:
    offered,  \* alerts handed to a store
    accepted, \* per store, alerts whose append or append_batch returned
    dropped,  \* alerts in the buffer of a flush that raised
    cleared,  \* alerts removed by clear
    wiped,    \* alerts in the file at db_path when a recovery deleted it
    stray,    \* alerts committed to a file after it was deleted
    sent,     \* alerts posted to the webhook
    seen,     \* accepted[Home[t]] when t's read began
    total     \* COUNT(*) of t's read

losses == <<wiped, stray>>
data == <<buffer, conn, path, created, rows, schema, offered, accepted, dropped,
          losses>>
storeVars == <<data, lock, ready, pc, hooks, cleared, sent, seen, total>>

Files == 1..MaxFiles
AlertsIn(s) == {s[i] : i \in 1..Len(s)}

StoreInit ==
    /\ lock = [s \in Stores |-> NoOne]
    /\ buffer = [s \in Stores |-> <<>>]
    /\ conn = [s \in Stores |-> 0]
    /\ path = 0 /\ created = 0
    /\ rows = [f \in Files |-> {}]
    /\ schema = {}
    /\ ready = {}
    /\ pc = [t \in Threads |-> "idle"]
    /\ hooks = {} /\ sent = {}
    /\ offered = {} /\ dropped = {} /\ cleared = {}
    /\ wiped = {} /\ stray = {}
    /\ accepted = [s \in Stores |-> {}]
    /\ seen = [t \in Threads |-> {}]
    /\ total = [t \in Threads |-> 0]

-----------------------------------------------------------------------------
(* _get_connection: reuse the connection, open the file at db_path, or     *)
(* create it.  The file the store has open afterwards:                     *)
Opened(s) == IF conn[s] # 0 THEN conn[s]
             ELSE IF path # 0 THEN path ELSE created + 1

GetConnection(s) ==
    /\ Opened(s) \in Files
    /\ conn' = [conn EXCEPT ![s] = Opened(s)]
    /\ path' = IF conn[s] = 0 /\ path = 0 THEN created + 1 ELSE path
    /\ created' = IF conn[s] = 0 /\ path = 0 THEN created + 1 ELSE created

(* It may raise only while it connects: before _conn is assigned, or in    *)
(* one of the PRAGMAs after it.                                            *)
GetConnectionFails(s) ==
    /\ conn[s] = 0 /\ "connect" \in FaultOps
    /\ \/ UNCHANGED <<conn, path, created>>
       \/ GetConnection(s)

(* The rows built from a buffer.                                           *)
BugRecords(b) == {b[i] : i \in 1..(Len(b) - 1)}   \* the last one missed
Records(b) == {b[i] : i \in 1..Len(b)}

(* The committed rows after an insert into s's file raised half-way.       *)
BugRolledBack(s, b) == [rows EXCEPT ![Opened(s)] = @ \cup {Head(b)}]
RolledBack(s, b) == rows

(* A connection made before its file was deleted goes on writing to it.    *)
Strays(s, b) == IF conn[s] \in {0, path} THEN stray ELSE stray \cup Records(b)

(* _flush_locked of buffer b.  The insert is one transaction, INSERT OR    *)
(* IGNORE on the primary key; a failure rolls back, and the finally clause *)
(* clears the buffer all the same.  A failing _get_connection comes before *)
(* the try and leaves the buffer as it is.                                 *)
FlushDone(s, b) ==
    IF b = <<>>
    THEN /\ buffer' = [buffer EXCEPT ![s] = b]
         /\ UNCHANGED <<conn, path, created, rows, schema, dropped, losses>>
    ELSE /\ GetConnection(s)
         /\ Opened(s) \in schema
         /\ rows' = [rows EXCEPT ![Opened(s)] = @ \cup Records(b)]
         /\ stray' = Strays(s, b)
         /\ buffer' = [buffer EXCEPT ![s] = <<>>]
         /\ UNCHANGED <<schema, dropped, wiped>>

FlushRaises(s, b) ==
    /\ b # <<>>
    /\ \/ /\ GetConnectionFails(s)
          /\ buffer' = [buffer EXCEPT ![s] = b]
          /\ UNCHANGED <<dropped, rows>>
       \/ /\ GetConnection(s)
          /\ "insert" \in FaultOps \/ Opened(s) \notin schema
          /\ buffer' = [buffer EXCEPT ![s] = <<>>]
          /\ dropped' = dropped \cup AlertsIn(b)
          /\ rows' = RolledBack(s, b)
    /\ UNCHANGED <<schema, losses>>

-----------------------------------------------------------------------------
(* __init__ calls _init_db; so does clear once it has recovered, while it  *)
(* still holds the lock that _init_db takes.                               *)
InitDbCaller(t) == \/ pc[t] = "idle" /\ Home[t] \notin ready
                   \/ pc[t] = "reinit"

InitDb(t) ==
    LET s == Home[t] IN
    /\ InitDbCaller(t) /\ lock[s] = NoOne
    /\ GetConnection(s)
    /\ schema' = schema \cup {Opened(s)}
    /\ ready' = ready \cup {s}
    /\ pc' = [pc EXCEPT ![t] = "idle"]
    /\ UNCHANGED <<lock, buffer, rows, hooks, offered, accepted, dropped,
                   losses, cleared, sent, seen, total>>

(* _recover_corrupt_db: close, and delete the file where that is allowed,  *)
(* with whatever it holds and whoever else has it open.                    *)
Recover(s) ==
    /\ conn' = [conn EXCEPT ![s] = 0]
    /\ \/ UNCHANGED <<path, wiped>>
       \/ path # 0 /\ path' = 0 /\ wiped' = wiped \cup rows[path]
    /\ UNCHANGED stray

(* A DatabaseError (a lock held by another process too) deletes the files. *)
InitDbFails(t) ==
    LET s == Home[t] IN
    /\ InitDbCaller(t) /\ lock[s] = NoOne
    /\ "create" \in FaultOps \/ (conn[s] = 0 /\ "connect" \in FaultOps)
    /\ Recover(s)
    /\ lock' = [lock EXCEPT ![s] = t]
    /\ pc' = [pc EXCEPT ![t] = "recreate"]
    /\ UNCHANGED <<created, buffer, rows, schema, ready, hooks, offered,
                   accepted, dropped, cleared, sent, seen, total>>

(* The second attempt has no handler: its error leaves _init_db.           *)
Recreate(t) ==
    LET s == Home[t] IN
    /\ pc[t] = "recreate"
    /\ \/ /\ GetConnection(s)
          /\ schema' = schema \cup {Opened(s)}
          /\ ready' = ready \cup {s}
       \/ /\ GetConnectionFails(s) \/ ("create" \in FaultOps /\ GetConnection(s))
          /\ UNCHANGED <<schema, ready>>
    /\ lock' = [lock EXCEPT ![s] = NoOne]
    /\ pc' = [pc EXCEPT ![t] = "idle"]
    /\ UNCHANGED <<buffer, rows, hooks, offered, accepted, dropped, losses, cleared,
                   sent, seen, total>>

-----------------------------------------------------------------------------
(* A method may start in an idle thread of a constructed store whose lock  *)
(* is free.                                                                *)
BugEnters(t) == pc[t] = "idle" /\ Home[t] \in ready   \* no lock taken
Enters(t) == pc[t] = "idle" /\ Home[t] \in ready /\ lock[Home[t]] = NoOne

BatchFull(b) == Len(b) >= BatchSize

(* The webhook threads append starts, when it returns and when it raises.  *)
Webhook(a, returned) == IF returned THEN {a} ELSE {}

(* append: buffer, flush at batch_size, then the webhook thread outside    *)
(* the lock.  When the flush raises the caller sees it and no webhook is   *)
(* started.                                                                *)
Append1(t, a) ==
    LET s == Home[t]
        b == Append(buffer[s], a)
    IN
    /\ Enters(t) /\ a \notin offered
    /\ offered' = offered \cup {a}
    /\ \/ /\ IF BatchFull(b)
             THEN FlushDone(s, b)
             ELSE /\ buffer' = [buffer EXCEPT ![s] = b]
                  /\ UNCHANGED <<conn, path, created, rows, schema, dropped, losses>>
          /\ accepted' = [accepted EXCEPT ![s] = @ \cup {a}]
          /\ hooks' = hooks \cup Webhook(a, TRUE)
       \/ /\ BatchFull(b) /\ FlushRaises(s, b)
          /\ hooks' = hooks \cup Webhook(a, FALSE)
          /\ UNCHANGED accepted
    /\ UNCHANGED <<lock, ready, pc, cleared, sent, seen, total>>

(* WebhookNotifier.notify in its own thread: posts only severe alerts, and *)
(* swallows every error.                                                   *)
Notify(a) ==
    /\ a \in hooks
    /\ hooks' = hooks \ {a}
    /\ \/ a \in Severe /\ sent' = sent \cup {a}
       \/ UNCHANGED sent
    /\ UNCHANGED <<data, lock, ready, pc, cleared, seen, total>>

(* append_batch: extend and flush; it starts no webhook.                   *)
AppendBatch(t, a1, a2) ==
    LET s == Home[t]
        b == buffer[s] \o <<a1, a2>>
    IN
    /\ Enters(t) /\ a1 # a2 /\ {a1, a2} \cap offered = {}
    /\ offered' = offered \cup {a1, a2}
    /\ \/ /\ FlushDone(s, b)
          /\ accepted' = [accepted EXCEPT ![s] = @ \cup {a1, a2}]
       \/ FlushRaises(s, b) /\ UNCHANGED accepted
    /\ UNCHANGED <<lock, ready, pc, hooks, cleared, sent, seen, total>>

Flush(t) ==
    /\ Enters(t)
    /\ FlushDone(Home[t], buffer[Home[t]]) \/ FlushRaises(Home[t], buffer[Home[t]])
    /\ UNCHANGED <<lock, ready, pc, hooks, offered, accepted, cleared, sent,
                   seen, total>>

(* The readers (read_alerts, get_alert_by_id, read_alerts_paginated,       *)
(* get_summary_stats) flush under the lock and release it ...              *)
BugReadFlush(t) ==   \* no flush before the query
    /\ Enters(t)
    /\ pc' = [pc EXCEPT ![t] = "count"]
    /\ seen' = [seen EXCEPT ![t] = accepted[Home[t]]]
    /\ UNCHANGED <<data, lock, ready, hooks, cleared, sent, total>>

ReadFlush(t) ==
    LET s == Home[t] IN
    /\ Enters(t)
    /\ \/ /\ FlushDone(s, buffer[s])
          /\ pc' = [pc EXCEPT ![t] = "count"]
          /\ seen' = [seen EXCEPT ![t] = accepted[s]]
       \/ FlushRaises(s, buffer[s]) /\ UNCHANGED <<pc, seen>>
    /\ UNCHANGED <<lock, ready, hooks, offered, accepted, cleared, sent, total>>

(* ... then take it again for the first SELECT (COUNT) ...                 *)
ReadCount(t) ==
    LET s == Home[t] IN
    /\ pc[t] = "count" /\ lock[s] = NoOne
    /\ GetConnection(s) /\ Opened(s) \in schema
    /\ total' = [total EXCEPT ![t] = Cardinality(rows[Opened(s)])]
    /\ lock' = [lock EXCEPT ![s] = t]
    /\ pc' = [pc EXCEPT ![t] = "select"]
    /\ UNCHANGED <<buffer, rows, schema, ready, hooks, offered, accepted,
                   dropped, losses, cleared, sent, seen>>

ReadEnds(t) ==
    /\ seen' = [seen EXCEPT ![t] = {}]
    /\ total' = [total EXCEPT ![t] = 0]

(* ... and the second, which no transaction joins to the first and which   *)
(* returns rows[conn[s]].                                                  *)
ReadSelect(t) ==
    /\ pc[t] = "select"
    /\ ReadEnds(t)
    /\ lock' = [lock EXCEPT ![Home[t]] = NoOne]
    /\ pc' = [pc EXCEPT ![t] = "idle"]
    /\ UNCHANGED <<data, ready, hooks, cleared, sent>>

(* A reader that cannot connect, or finds no table, raises.                *)
ReadRaises(t) ==
    LET s == Home[t] IN
    /\ pc[t] = "count" /\ lock[s] = NoOne
    /\ \/ GetConnectionFails(s)
       \/ GetConnection(s) /\ Opened(s) \notin schema
    /\ ReadEnds(t)
    /\ pc' = [pc EXCEPT ![t] = "idle"]
    /\ UNCHANGED <<lock, buffer, rows, schema, ready, hooks, offered, accepted,
                   dropped, losses, cleared, sent>>

(* clear: the buffer goes first, then the rows.                            *)
Clear(t) ==
    LET s == Home[t] IN
    /\ Enters(t)
    /\ GetConnection(s) /\ Opened(s) \in schema
    /\ buffer' = [buffer EXCEPT ![s] = <<>>]
    /\ cleared' = cleared \cup AlertsIn(buffer[s]) \cup rows[Opened(s)]
    /\ rows' = [rows EXCEPT ![Opened(s)] = {}]
    /\ UNCHANGED <<lock, schema, ready, pc, hooks, offered, accepted, dropped,
                   losses, sent, seen, total>>

(* When the DELETE raises, clear recovers and calls _init_db without       *)
(* releasing the lock.                                                     *)
ClearFails(t) ==
    LET s == Home[t] IN
    /\ Enters(t)
    /\ \/ "delete" \in FaultOps \/ Opened(s) \notin schema
       \/ conn[s] = 0 /\ "connect" \in FaultOps
    /\ buffer' = [buffer EXCEPT ![s] = <<>>]
    /\ cleared' = cleared \cup AlertsIn(buffer[s])
    /\ Recover(s)
    /\ lock' = [lock EXCEPT ![s] = t]
    /\ pc' = [pc EXCEPT ![t] = "reinit"]
    /\ UNCHANGED <<created, rows, schema, ready, hooks, offered, accepted,
                   dropped, sent, seen, total>>

(* close: flush, then drop the connection; a later call reconnects.        *)
Close(t) ==
    LET s == Home[t]
        b == buffer[s]
    IN
    /\ Enters(t)
    /\ \/ /\ b = <<>> \/ Opened(s) \in Files \cap schema
          /\ rows' = IF b = <<>> THEN rows
                     ELSE [rows EXCEPT ![Opened(s)] = @ \cup Records(b)]
          /\ buffer' = [buffer EXCEPT ![s] = <<>>]
          /\ stray' = Strays(s, b)
          /\ conn' = [conn EXCEPT ![s] = 0]
          /\ UNCHANGED <<path, created, schema, dropped, wiped>>
       \/ FlushRaises(s, b)
    /\ UNCHANGED <<lock, ready, pc, hooks, offered, accepted, cleared, sent,
                   seen, total>>

StoreNext ==
    \/ \E t \in Threads :
        \/ InitDb(t) \/ InitDbFails(t) \/ Recreate(t)
        \/ \E a \in Alerts : Append1(t, a)
        \/ \E a1, a2 \in Alerts : AppendBatch(t, a1, a2)
        \/ Flush(t) \/ Close(t) \/ Clear(t) \/ ClearFails(t)
        \/ ReadFlush(t) \/ ReadCount(t) \/ ReadSelect(t) \/ ReadRaises(t)
    \/ \E a \in Alerts : Notify(a)

StoreSpec == StoreInit /\ [][StoreNext]_storeVars

(* Every thread keeps running once it can; calls are not forced to happen. *)
FairSpec ==
    StoreSpec /\ \A t \in Threads : WF_storeVars(InitDb(t)) /\ WF_storeVars(Recreate(t))
                                    /\ WF_storeVars(ReadCount(t) \/ ReadRaises(t))
                                    /\ WF_storeVars(ReadSelect(t))

-----------------------------------------------------------------------------
(* The alerts a reader of db_path can find: those of the file it names.    *)
Live == IF path = 0 THEN {} ELSE rows[path]

(* store.py _flush_locked, clear, close, _recover_corrupt_db: an alert     *)
(* whose append returned is still in its store's buffer or in the file at  *)
(* db_path, unless a flush raised with it in the buffer, clear removed it, *)
(* a recovery deleted the file with it, or its store wrote it to a file    *)
(* that another store's recovery had deleted.                              *)
NoSilentLoss ==
    \A s \in Stores :
        accepted[s] \subseteq AlertsIn(buffer[s]) \cup Live \cup dropped \cup cleared
                             \cup wiped \cup stray

(* store.py 174-178: a flush that raised has rolled back: nothing of its   *)
(* batch is committed to any file, nor still buffered for a later flush.   *)
FailedFlushLeavesNothing ==
    /\ \A f \in Files : dropped \cap rows[f] = {}
    /\ \A s \in Stores : dropped \cap AlertsIn(buffer[s]) = {}

(* store.py 281-290, 319-324: the lock keeps this process from writing     *)
(* between the two SELECTs of a reader, so the count is the number of rows *)
(* that follow.  Only another process can commit in between.               *)
TotalsMatchRows ==
    \A t \in Threads :
        pc[t] = "select" /\ ready = {Home[t]} =>
            total[t] = Cardinality(rows[conn[Home[t]]])

Unlinked == UNION {rows[f] : f \in Files \ {path}}

(* store.py 186-190: a reader returns every alert its store had accepted   *)
(* before the read began, although the lock is released between the flush  *)
(* and the query; only a raising flush, clear or the deletion of the file  *)
(* takes one away.                                                         *)
ReadYourWrites ==
    \A t \in Threads :
        pc[t] = "select" =>
            seen[t] \ (dropped \cup cleared \cup Unlinked) \subseteq rows[conn[Home[t]]]

(* store.py 102 says clear "safely clears all records": a clear whose      *)
(* DELETE raised recovers the database and returns to its caller.          *)
ClearReturns == \A t \in Threads : pc[t] = "reinit" ~> pc[t] = "idle"

=============================================================================
