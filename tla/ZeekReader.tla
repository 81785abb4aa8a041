----------------------------- MODULE ZeekReader -----------------------------
(***************************************************************************)
(* ZeekJSONReader of ingest/zeek_reader.py: a thread runs Zeek over the    *)
(* capture, puts the lines of conn.log, dns.log and ssl.log, one log after *)
(* the other, into a bounded queue without waiting, and ends with None,    *)
(* for which it waits without a limit.  Lines are numbered across the      *)
(* logs.  get_flow answers None for the end and for an empty queue alike,  *)
(* so its caller, which the repository leaves open, may stop at any time.  *)
(***************************************************************************)
EXTENDS Integers, Sequences

CONSTANTS NLines,      \* lines of the logs
          ZBufferSize  \* maxsize of the queue (100000)

ASSUME ZeekAssumption == NLines \in Nat /\ ZBufferSize \in Nat \ {0}

EndMark == 0           \* None

VARIABLES
    zproducer,   \* the thread: "zeek", "read", "end", "done"
    zcount,      \* lines read so far
    zbuffer,     \* the queue
    zstop,       \* _stop_event
    zconsumer,   \* the caller: "loop", "joining", "stopped"
    zdelivered   \* history: the lines the caller got, in order

zeekVars == <<zproducer, zcount, zbuffer, zstop, zconsumer, zdelivered>>

ZeekInit ==
    /\ zproducer = "zeek" /\ zcount = 0 /\ zbuffer = <<>>
    /\ zstop = FALSE /\ zconsumer = "loop" /\ zdelivered = <<>>

(* subprocess.run: whatever Zeek does, the logs it left are read next.     *)
RunZeek ==
    /\ zproducer = "zeek" /\ zproducer' = "read"
    /\ UNCHANGED <<zcount, zbuffer, zstop, zconsumer, zdelivered>>

BugReadLine ==            \* put instead of put_nowait: a full queue holds the thread
    /\ zproducer = "read" /\ zcount < NLines /\ ~zstop
    /\ zcount' = zcount + 1
    /\ IF Len(zbuffer) < ZBufferSize
       THEN zbuffer' = Append(zbuffer, zcount + 1) /\ UNCHANGED zproducer
       ELSE zproducer' = "blocked" /\ UNCHANGED zbuffer
    /\ UNCHANGED <<zstop, zconsumer, zdelivered>>

BugReadNewest ==          \* the last place in the queue overwritten when full
    /\ zproducer = "read" /\ zcount < NLines /\ ~zstop
    /\ zcount' = zcount + 1
    /\ zbuffer' = IF Len(zbuffer) < ZBufferSize THEN Append(zbuffer, zcount + 1)
                  ELSE [zbuffer EXCEPT ![ZBufferSize] = zcount + 1]
    /\ UNCHANGED <<zproducer, zstop, zconsumer, zdelivered>>

(* A line is queued, or lost when the queue is full.                       *)
ReadLine ==
    /\ zproducer = "read" /\ zcount < NLines /\ ~zstop
    /\ zcount' = zcount + 1
    /\ zbuffer' = IF Len(zbuffer) < ZBufferSize THEN Append(zbuffer, zcount + 1) ELSE zbuffer
    /\ UNCHANGED <<zproducer, zstop, zconsumer, zdelivered>>

(* Without docker subprocess.run raises, and so does a line that is no     *)
(* JSON: the thread dies without an end mark.                              *)
NoDocker ==
    /\ zproducer = "zeek" /\ zproducer' = "done"
    /\ UNCHANGED <<zcount, zbuffer, zstop, zconsumer, zdelivered>>

BadLine ==
    /\ zproducer = "read" /\ zcount < NLines /\ ~zstop
    /\ zproducer' = "done" /\ zcount' = zcount + 1
    /\ UNCHANGED <<zbuffer, zstop, zconsumer, zdelivered>>

LogsEnd ==
    /\ zproducer = "read" /\ (zcount = NLines \/ zstop)
    /\ zproducer' = "end"
    /\ UNCHANGED <<zcount, zbuffer, zstop, zconsumer, zdelivered>>

PutEnd ==
    /\ zproducer = "end" /\ Len(zbuffer) < ZBufferSize
    /\ zbuffer' = Append(zbuffer, EndMark) /\ zproducer' = "done"
    /\ UNCHANGED <<zcount, zstop, zconsumer, zdelivered>>

GetFlow ==
    /\ zconsumer = "loop" /\ zbuffer # <<>>
    /\ zbuffer' = Tail(zbuffer)
    /\ zdelivered' = IF Head(zbuffer) = EndMark THEN zdelivered
                     ELSE Append(zdelivered, Head(zbuffer))
    /\ UNCHANGED <<zproducer, zcount, zstop, zconsumer>>

(* stop(): the event, then a join without a limit.                         *)
StopZeek ==
    /\ zconsumer = "loop" /\ zconsumer' = "joining" /\ zstop' = TRUE
    /\ UNCHANGED <<zproducer, zcount, zbuffer, zdelivered>>

ZeekJoined ==
    /\ zconsumer = "joining" /\ zproducer = "done" /\ zconsumer' = "stopped"
    /\ UNCHANGED <<zproducer, zcount, zbuffer, zstop, zdelivered>>

ZeekThread == RunZeek \/ ReadLine \/ LogsEnd \/ PutEnd
ZeekNext == ZeekThread \/ NoDocker \/ BadLine \/ GetFlow \/ StopZeek \/ ZeekJoined

-----------------------------------------------------------------------------
Lines(q) == IF q # <<>> /\ q[Len(q)] = EndMark THEN SubSeq(q, 1, Len(q) - 1) ELSE q

ZFifo == INSTANCE LossyFifo
         WITH N <- NLines, Cap <- ZBufferSize, taken <- zcount,
              waiting <- Lines(zbuffer), out <- zdelivered

(* zeek_reader.py 56-105: the reader is a lossy FIFO: over the three logs, *)
(* full queues, bad lines and early stops, lines come out in the order of  *)
(* the logs, each at most once, and none is lost once it is queued.        *)
ZeekIsLossyFifo == ZFifo!FifoSpec

(* zeek_reader.py 27-30, 99: stop() returns, unless the thread waits to    *)
(* put its end mark into a full queue, which nobody empties any more.      *)
ZeekStopReturns ==
    (zconsumer = "joining") ~>
        (zconsumer = "stopped" \/ (zproducer = "end" /\ Len(zbuffer) = ZBufferSize))

=============================================================================
