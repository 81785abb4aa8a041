---------------------------- MODULE Aggregators ----------------------------
(***************************************************************************)
(* The two aggregators of the repository on the same packets: the          *)
(* FeatureScheduler of the local pipeline and the FlowTracker of the Kafka *)
(* one.  Both replay the same captures; the models are trained on what the *)
(* first one emits and fed by either.  Every packet also goes to the       *)
(* sketch of destinations (dst_fan_in_cms) of the beaconing extractor.     *)
(***************************************************************************)
EXTENDS FeatureScheduler, FlowTracker, CountMinSketch

(* Both see the same hosts.  Their windows need not be of one length: the  *)
(* pipeline makes the scheduler's 0.1 s long and the ingestor its own 1 s. *)
ASSUME AggAssumption == FlowKeys = Hosts /\ Items = Hosts

VARIABLES \* History:
          tracked,     \* packets the tracker was given
          rolledPkts,  \* packets in the records it emitted
          rolledSyns,  \* SYNs in them
          synAcks      \* SYN-ACKs among the packets

aggHistory == <<tracked, rolledPkts, rolledSyns, synAcks>>
aggVars == <<vars, trackerVars, sketchVars, aggHistory>>

AggInit == /\ Init /\ TrackerInit /\ SketchInit
           /\ tracked = 0 /\ rolledPkts = 0 /\ rolledSyns = 0 /\ synAcks = 0

Tracked(kind) == kind \notin {"icmp", "other"}   \* Rust parse_packet: TCP and UDP

(* tcp_flags & 0x02, which a SYN-ACK has too; the scheduler's extractor    *)
(* asks for flags == 2 and counts SYN-ACKs apart.                          *)
HasSyn(kind) == kind \in {"syn", "synack"}

(* One packet to both.                                                     *)
Packet(kind, h, t) ==
    /\ ProcessPacket(kind, h, t)
    /\ \/ Tracked(kind) /\ Update(h, HasSyn(kind), t)
       \/ ~Tracked(kind) /\ NotTracked
    /\ Add(h)
    /\ tracked' = IF Tracked(kind) THEN tracked + 1 ELSE tracked
    /\ rolledPkts' = rolledPkts + emitted'.pkts
    /\ rolledSyns' = rolledSyns + emitted'.syns
    /\ synAcks' = IF kind = "synack" THEN synAcks + 1 ELSE synAcks

AggNext == \E kind \in Kinds, h \in Hosts, t \in Times : Packet(kind, h, t)

AggSpec == AggInit /\ [][AggNext]_aggVars

(* main.rs 231-278: every packet and every segment with the SYN bit is in  *)
(* exactly one record or still counted, also the packet that closes the    *)
(* window and those whose timestamp lies before its start.  Over a run the *)
(* tracker so counts the SYNs the scheduler counts (scheduler.py 78-102)   *)
(* and the SYN-ACKs on top, however the two cut their windows.             *)
TrackerCountsOnce ==
    /\ tracked = rolledPkts + windowPkts
    /\ rolledSyns + windowSyns = synRolled + syn + synAcks

=============================================================================
