----------------------------- MODULE PcapReader -----------------------------
(***************************************************************************)
(* BoundedPcapReader of ingest/pcap_reader.py: the producer thread reads   *)
(* packets from a file into a bounded queue, samples them under pressure   *)
(* and ends with a sentinel; the consumer loop takes them out until it     *)
(* sees the sentinel, or gives up and calls stop().                        *)
(***************************************************************************)
EXTENDS Integers, Sequences

CONSTANTS NPackets,     \* packets in the file, numbered from 1
          BufferSize,   \* max_buffer_size
          KeepEvery     \* int(1.0 / sample_rate_on_pressure)

ASSUME PcapAssumption ==
    /\ NPackets \in Nat
    /\ BufferSize \in Nat \ {0}   \* a queue of maxsize 0 would be unbounded
    /\ KeepEvery \in Nat \ {0}    \* a rate of at most 1

Sentinel == 0

VARIABLES
    producer,   \* where _ingest_loop is
    count,      \* packet_count: the packet in hand
    buffer,     \* the queue
    dropped,    \* dropped_packets
    stopEvent,  \* _stop_event
    consumer,   \* where the consumer's loop is
    \* History:
    delivered,  \* the packets the consumer got, in order
    gaveUp      \* whether the sentinel was given up

vars == <<producer, count, buffer, dropped, stopEvent, consumer, delivered, gaveUp>>

Init == /\ producer = "read" /\ count = 0
        /\ buffer = <<>>
        /\ dropped = 0
        /\ stopEvent = FALSE
        /\ consumer = "loop" /\ delivered = <<>> /\ gaveUp = FALSE

-----------------------------------------------------------------------------
(* qsize() > max_buffer_size * 0.8                                         *)
UnderPressure == 10 * Len(buffer) > 8 * BufferSize

SampledOut(n) == UnderPressure /\ n % KeepEvery # 0

(* One packet from the file: dropped by sampling, or kept for the put.     *)
ReadPacket ==
    /\ producer = "read" /\ count < NPackets /\ ~stopEvent
    /\ count' = count + 1
    /\ \/ SampledOut(count + 1) /\ dropped' = dropped + 1 /\ UNCHANGED producer
       \/ ~SampledOut(count + 1) /\ producer' = "put" /\ UNCHANGED dropped
    /\ UNCHANGED <<buffer, stopEvent, consumer, delivered, gaveUp>>

BugPutPacket ==       \* the hard drop not counted
    /\ producer = "put"
    /\ producer' = "read"
    /\ buffer' = IF Len(buffer) < BufferSize THEN Append(buffer, count) ELSE buffer
    /\ UNCHANGED <<count, dropped, stopEvent, consumer, delivered, gaveUp>>

(* put_nowait, whose Full is counted as a drop.                            *)
PutPacket ==
    /\ producer = "put"
    /\ producer' = "read"
    /\ \/ /\ Len(buffer) < BufferSize
          /\ buffer' = Append(buffer, count) /\ UNCHANGED dropped
       \/ /\ Len(buffer) = BufferSize
          /\ dropped' = dropped + 1 /\ UNCHANGED buffer
    /\ UNCHANGED <<count, stopEvent, consumer, delivered, gaveUp>>

(* The file ends, or the stop event is seen (with one packet already read  *)
(* from the file and left).                                                *)
EndOfFile ==
    /\ producer = "read" /\ (count = NPackets \/ stopEvent)
    /\ producer' = "eof"
    /\ UNCHANGED <<count, buffer, dropped, stopEvent, consumer, delivered, gaveUp>>

BugReadError ==       \* the sentinel not in the finally clause
    /\ producer = "read"
    /\ producer' = "done"
    /\ UNCHANGED <<count, buffer, dropped, stopEvent, consumer, delivered, gaveUp>>

(* An error while reading is logged and ends the loop.                     *)
ReadError ==
    /\ producer = "read"
    /\ producer' = "eof"
    /\ UNCHANGED <<count, buffer, dropped, stopEvent, consumer, delivered, gaveUp>>

BugPutSentinel ==     \* the limit of the queue ignored
    /\ producer = "eof"
    /\ buffer' = Append(buffer, Sentinel)
    /\ producer' = "done"
    /\ UNCHANGED <<count, dropped, stopEvent, consumer, delivered, gaveUp>>

(* The sentinel waits one second for room, ...                             *)
PutSentinel ==
    /\ producer = "eof" /\ Len(buffer) < BufferSize
    /\ buffer' = Append(buffer, Sentinel)
    /\ producer' = "done"
    /\ UNCHANGED <<count, dropped, stopEvent, consumer, delivered, gaveUp>>

BugSentinelTimeout == FALSE /\ UNCHANGED vars   \* a put without a timeout

(* ... and is given up without a word.                                     *)
SentinelTimeout ==
    /\ producer = "eof" /\ Len(buffer) = BufferSize
    /\ producer' = "done" /\ gaveUp' = TRUE
    /\ UNCHANGED <<count, buffer, dropped, stopEvent, consumer, delivered>>

-----------------------------------------------------------------------------
BugGetNewest ==       \* a LIFO queue
    LET p == buffer[Len(buffer)] IN
    /\ consumer = "loop" /\ buffer # <<>>
    /\ buffer' = SubSeq(buffer, 1, Len(buffer) - 1)
    /\ IF p = Sentinel THEN consumer' = "eof" /\ UNCHANGED delivered
       ELSE delivered' = Append(delivered, p) /\ UNCHANGED consumer
    /\ UNCHANGED <<producer, count, dropped, stopEvent, gaveUp>>

(* get_packet and the consumer's loop: (None, None) ends it; queue.Empty   *)
(* is tried again, which changes nothing.                                  *)
GetPacket ==
    /\ consumer = "loop" /\ buffer # <<>>
    /\ buffer' = Tail(buffer)
    /\ IF Head(buffer) = Sentinel
       THEN consumer' = "eof" /\ UNCHANGED delivered
       ELSE delivered' = Append(delivered, Head(buffer)) /\ UNCHANGED consumer
    /\ UNCHANGED <<producer, count, dropped, stopEvent, gaveUp>>

(* stop(): set the event, then join the producer.  The consumer calls it   *)
(* after the sentinel, or before it when it has had enough.                *)
Stop(from) ==
    /\ consumer = from
    /\ stopEvent' = TRUE
    /\ consumer' = "joining"
    /\ UNCHANGED <<producer, count, buffer, dropped, delivered, gaveUp>>

Joined ==
    /\ consumer = "joining" /\ producer = "done"
    /\ consumer' = "stopped"
    /\ UNCHANGED <<producer, count, buffer, dropped, stopEvent, delivered, gaveUp>>

Producer == ReadPacket \/ PutPacket \/ EndOfFile \/ PutSentinel \/ SentinelTimeout

Next == Producer \/ ReadError \/ GetPacket \/ Stop("loop") \/ Stop("eof") \/ Joined

Spec == Init /\ [][Next]_vars

(* Both threads keep running: the producer has no wait without a timeout,  *)
(* and the consumer polls until the end.                                   *)
FairSpec == /\ Spec
            /\ WF_vars(Producer)
            /\ WF_vars(GetPacket) /\ WF_vars(Stop("eof")) /\ WF_vars(Joined)

-----------------------------------------------------------------------------
(* Every variable holds the kind of value the code gives it.               *)
TypeOK ==
    /\ producer \in {"read", "put", "eof", "done"}
    /\ count \in 0..NPackets
    /\ buffer \in Seq(0..NPackets)
    /\ dropped \in Nat
    /\ stopEvent \in BOOLEAN
    /\ consumer \in {"loop", "eof", "joining", "stopped"}
    /\ delivered \in Seq(1..NPackets) /\ gaveUp \in BOOLEAN

SentinelPut == \E i \in 1..Len(buffer) : buffer[i] = Sentinel
Waiting == Len(buffer) - (IF SentinelPut THEN 1 ELSE 0)
InHand == IF producer = "put" THEN 1 ELSE 0

(* pcap_reader.py 42-56: every packet read is delivered, waiting, in hand  *)
(* or counted in dropped_packets, whatever the interleaving.               *)
PacketsAccountedFor ==
    count = Len(delivered) + Waiting + InHand + dropped

(* pcap_reader.py 53, 63: the queue never holds more than max_buffer_size, *)
(* and the sentinel is behind every packet: none can follow it.            *)
SentinelIsLast ==
    /\ Len(buffer) <= BufferSize
    /\ \A i \in 1..Len(buffer) :
          buffer[i] = Sentinel => i = Len(buffer) /\ producer = "done"
    /\ consumer = "eof" => buffer = <<>> /\ producer = "done"

(* The packets in the queue, without the sentinel behind them.             *)
Packets(q) == IF q # <<>> /\ q[Len(q)] = Sentinel THEN SubSeq(q, 1, Len(q) - 1) ELSE q

Fifo == INSTANCE LossyFifo
        WITH N <- NPackets, Cap <- BufferSize, taken <- count - InHand,
             waiting <- Packets(buffer), out <- delivered

(* pcap_reader.py 33-72: the reader is a lossy FIFO: whatever is sampled   *)
(* out, dropped or cut short, it only ever queues the next packet, loses   *)
(* it before it is queued, or hands over the oldest.                       *)
ReaderIsLossyFifo == Fifo!FifoSpec

(* pcap_reader.py 28-31, 61-65: stop() returns even when nobody empties a  *)
(* full queue, because the sentinel is given up after its timeout.         *)
StopReturns == (consumer = "joining") ~> (consumer = "stopped")

(* pcap_reader.py 61-65, 70: a consumer that keeps polling learns of the   *)
(* end of the file, unless the sentinel was given up on a full queue: then *)
(* it polls for ever.                                                      *)
EofUnlessGivenUp == (producer = "done" /\ ~gaveUp) ~> (consumer # "loop")

=============================================================================
