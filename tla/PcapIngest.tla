----------------------------- MODULE PcapIngest -----------------------------
(***************************************************************************)
(* The ingest loop of tests/test_phase2_pcap_ingest.py: a PcapReader whose *)
(* consumer parses every packet and hands it to the FlowTable.  What a     *)
(* packet of the file parses to is chosen when it is parsed.  A capture is *)
(* given to this reader or to the ZeekReader.                              *)
(***************************************************************************)
EXTENDS PcapReader, FlowTable, ZeekReader

VARIABLE reader   \* which reader is given the capture

IngestInit == Init /\ FlowInit /\ ZeekInit /\ reader \in {"pcap", "zeek"}

(* get_packet, then parse_packet and process_packet_meta.  A packet that   *)
(* does not parse, or is none of TCP, UDP and ICMP, is left out.           *)
Ingest ==
    /\ GetPacket
    /\ \/ UNCHANGED flowVars
       \/ Head(buffer) # Sentinel /\ \E m \in Metas : ProcessMeta(m)

WithPcap(A) == reader = "pcap" /\ A /\ UNCHANGED <<zeekVars, reader>>
WithZeek(A) == reader = "zeek" /\ A /\ UNCHANGED <<vars, flowVars, reader>>

IngestNext ==
    \/ WithPcap(Ingest)
    \/ WithPcap(UNCHANGED flowVars
                /\ (Producer \/ ReadError \/ Stop("loop") \/ Stop("eof") \/ Joined))
    \/ WithZeek(ZeekNext)

ingestVars == <<vars, flowVars, zeekVars, reader>>

(* The threads of both readers run on and Zeek comes to its end; the       *)
(* consumer of packets polls until the end.                                *)
IngestSpec ==
    /\ IngestInit /\ [][IngestNext]_ingestVars
    /\ WF_ingestVars(WithPcap(Producer /\ UNCHANGED flowVars))
    /\ WF_ingestVars(WithPcap(Ingest))
    /\ WF_ingestVars(WithPcap(Stop("eof") /\ UNCHANGED flowVars))
    /\ WF_ingestVars(WithPcap(Joined /\ UNCHANGED flowVars))
    /\ WF_ingestVars(WithZeek(ZeekThread)) /\ WF_ingestVars(WithZeek(ZeekJoined))

=============================================================================
