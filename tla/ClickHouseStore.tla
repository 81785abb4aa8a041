-------------------------- MODULE ClickHouseStore --------------------------
(***************************************************************************)
(* ClickHouseAlertStore of alerting/clickhouse_store.py: alerts wait in    *)
(* _pending until the appender that fills a batch, the writer thread or    *)
(* close() inserts them.  All of that happens under one lock, so each is   *)
(* one step.  ClickHouse itself is external: an INSERT can fail before or  *)
(* after the rows are in the table, and the table keeps duplicates.        *)
(***************************************************************************)
EXTENDS Naturals, Sequences, FiniteSets

CONSTANTS Alerts,      \* the alerts that can be appended
          Malformed,   \* those that raise while they are turned into a row
          BatchSize,   \* batch_size
          MaxFaults    \* bound on the INSERTs that raise

ASSUME ClickHouseAssumption ==
    /\ Malformed \subseteq Alerts
    /\ BatchSize \in Nat \ {0} /\ MaxFaults \in Nat

VARIABLES
    connected, \* whether _connect made a _client; it is never tried again
    pending,   \* _pending
    copies,    \* rows of each alert in the ClickHouse table
    stop,      \* _stop
    writer,    \* where _writer_loop is
    closer,    \* where close() is
    faults,    \* INSERTs that raised so far
    \* History:
    appended,  \* alerts given to append
    unsure     \* INSERTs that raised after the rows were written

vars == <<connected, pending, copies, stop, writer, closer, faults, appended, unsure>>

Elems(s) == {s[i] : i \in 1..Len(s)}

Init == /\ connected \in BOOLEAN
        /\ pending = <<>> /\ appended = {}
        /\ copies = [a \in Alerts |-> 0]
        /\ stop = FALSE /\ writer = "check" /\ closer = "open"
        /\ faults = 0 /\ unsure = 0

Rows(p) == Elems(p) \ Malformed
Inserted(p) == [a \in Alerts |-> IF a \in Rows(p) THEN copies[a] + 1 ELSE copies[a]]

(* _pending after an INSERT, after one that raised or without a client,    *)
(* and after an append.                                                    *)
AfterInsert(p) == <<>>

BugKept(p) == <<>>
Kept(p) == p

Queued(a) == Append(pending, a)

BugBatchFull(p) == Len(p) > BatchSize
BatchFull(p) == Len(p) >= BatchSize

(* _flush_locked of the alerts p.  Malformed ones are skipped; a batch of  *)
(* nothing else is discarded without an INSERT; an INSERT that raises      *)
(* keeps the whole batch for the next flush.                               *)
FlushLocked(p) ==
    \/ /\ ~connected \/ p = <<>>
       /\ pending' = Kept(p) /\ UNCHANGED <<copies, faults, unsure>>
    \/ /\ connected /\ p # <<>> /\ Rows(p) = {}
       /\ pending' = <<>> /\ UNCHANGED <<copies, faults, unsure>>
    \/ /\ connected /\ Rows(p) # {}
       /\ pending' = AfterInsert(p) /\ copies' = Inserted(p) /\ UNCHANGED <<faults, unsure>>
    \/ /\ connected /\ Rows(p) # {}
       /\ faults < MaxFaults /\ faults' = faults + 1
       /\ pending' = Kept(p)
       /\ \/ UNCHANGED <<copies, unsure>>
          \/ copies' = Inserted(p) /\ unsure' = unsure + 1

AppendAlert(a) ==
    LET p == Queued(a) IN
    /\ closer = "open"
    /\ appended' = appended \cup {a}
    /\ IF BatchFull(p)
       THEN FlushLocked(p)
       ELSE pending' = p /\ UNCHANGED <<copies, faults, unsure>>
    /\ UNCHANGED <<connected, stop, writer, closer>>

(* flush() *)
Flush ==
    /\ closer = "open"
    /\ FlushLocked(pending)
    /\ UNCHANGED <<connected, stop, writer, closer, appended>>

(* _writer_loop: look at the stop event, sleep, flush.                     *)
WriterCheck ==
    /\ writer = "check"
    /\ writer' = IF stop THEN "done" ELSE "sleep"
    /\ UNCHANGED <<connected, pending, copies, stop, closer, faults, appended, unsure>>

BugWriterFlush ==     \* waits for a full batch
    /\ writer = "sleep"
    /\ IF BatchFull(pending) THEN FlushLocked(pending)
       ELSE UNCHANGED <<pending, copies, faults, unsure>>
    /\ writer' = "check"
    /\ UNCHANGED <<connected, stop, closer, appended>>

WriterFlush ==
    /\ writer = "sleep"
    /\ FlushLocked(pending)
    /\ writer' = "check"
    /\ UNCHANGED <<connected, stop, closer, appended>>

(* close(): set the event, join the writer for at most 3 s, flush.         *)
CloseBegin ==
    /\ closer = "open"
    /\ stop' = TRUE /\ closer' = "joining"
    /\ UNCHANGED <<connected, pending, copies, writer, faults, appended, unsure>>

CloseJoined ==
    /\ closer = "joining"   \* the writer has ended, or the join timed out
    /\ closer' = "flush"
    /\ UNCHANGED <<connected, pending, copies, stop, writer, faults, appended, unsure>>

CloseFlush ==
    /\ closer = "flush"
    /\ FlushLocked(pending)
    /\ closer' = "closed"
    /\ UNCHANGED <<connected, stop, writer, appended>>

Next == \/ \E a \in Alerts \ appended : AppendAlert(a)
        \/ Flush \/ WriterCheck \/ WriterFlush
        \/ CloseBegin \/ CloseJoined \/ CloseFlush

Spec == Init /\ [][Next]_vars

(* The writer is a daemon thread with a bounded sleep; close() runs on.    *)
FairSpec == /\ Spec
            /\ WF_vars(WriterCheck) /\ WF_vars(WriterFlush)
            /\ WF_vars(CloseJoined) /\ WF_vars(CloseFlush)

-----------------------------------------------------------------------------
(* Every variable holds the kind of value the code gives it.               *)
TypeOK ==
    /\ connected \in BOOLEAN
    /\ pending \in Seq(Alerts)
    /\ copies \in [Alerts -> Nat]
    /\ stop \in BOOLEAN
    /\ writer \in {"check", "sleep", "done"}
    /\ closer \in {"open", "joining", "flush", "closed"}
    /\ faults \in Nat /\ unsure \in Nat
    /\ appended \subseteq Alerts

(* clickhouse_store.py 163-184: an INSERT that raises loses nothing: every *)
(* well-formed alert appended is pending or in the table.                  *)
AtLeastOnce ==
    \A a \in appended \ Malformed : a \in Elems(pending) \/ copies[a] > 0

(* clickhouse_store.py 182-184: the writer, the appenders and close() do   *)
(* not insert a batch twice between them; a second copy of an alert takes  *)
(* an INSERT that raised after it wrote its rows.                          *)
DuplicatesNeedFailure == \A a \in Alerts : copies[a] <= 1 + unsure

(* clickhouse_store.py 120-126, 190-193: every well-formed alert gets into *)
(* the table, also of a batch that never fills, of one whose INSERT raised *)
(* and of one left over when close() begins; only the last flush of        *)
(* close() is not tried again, and only a crash forgets what was appended. *)
EventuallyStored ==
    \A a \in Alerts \ Malformed :
        (connected /\ a \in appended) ~>
            \/ copies[a] > 0
            \/ closer = "closed" /\ faults > 0
            \/ a \notin appended

=============================================================================
