------------------------------ MODULE Streams ------------------------------
(***************************************************************************)
(* The reading side of the dashboard server: the event streams with the    *)
(* three sources an event_generator can have, and the summary cache.  A    *)
(* server is in kafka mode or not for its whole life; otherwise the mode   *)
(* of its data source decides.  A behaviour exercises one source, or the   *)
(* cache.  The cache shares nothing with the streams; the sources share    *)
(* last_ts and sent_alert_ids of every stream, and a request may switch    *)
(* between the simulated and the dataset mode while streams are open: such *)
(* a switch is left out here.                                              *)
(***************************************************************************)
EXTENDS DatasetFeed, KafkaFeed, SummaryCache

CONSTANT Solo   \* the dashboards of a simulated replay, whose streams share only the table

ASSUME SoloAssumption == Solo \subseteq Clients

VARIABLE source

streamsVars == <<vars, feedVars, kafkaVars, cacheVars, source>>

StreamsInit ==
    /\ Init /\ FeedInit /\ KafkaInit /\ CacheInit
    /\ source \in {"simulated", "dataset", "kafka", "summary"}

Simulated == source = "simulated" /\ LiveNext(Solo)
             /\ UNCHANGED <<feedVars, kafkaVars, cacheVars, source>>
Dataset == source = "dataset" /\ FeedNext /\ UNCHANGED <<kafkaVars, cacheVars, source>>
Kafka == source = "kafka" /\ KafkaNext /\ UNCHANGED <<feedVars, cacheVars, source>>
Summary == source = "summary" /\ CacheNext /\ UNCHANGED <<vars, feedVars, kafkaVars, source>>

StreamsNext == Simulated \/ Dataset \/ Kafka \/ Summary

(* Every open stream takes its turn each 0.8 s; nothing else need happen.  *)
StreamsSpec ==
    /\ StreamsInit /\ [][StreamsNext]_streamsVars
    /\ \A c \in Solo : /\ WF_streamsVars(Push(c) /\ Simulated)
                       /\ WF_streamsVars(Idle(c) /\ Simulated)
    /\ \A c \in Clients : WF_streamsVars(KafkaPush(c) /\ Kafka)

-----------------------------------------------------------------------------
(* server.py 289-301: although all streams drain one queue and each knows  *)
(* only the ids it has sent itself, an alert that was queued is pushed on  *)
(* some stream if any dashboard stays connected, also when it came twice,  *)
(* unless it was in the hand of a stream when that one's link broke.       *)
KafkaDelivered ==
    \A a \in Alerts, c \in Clients :
        (a \in accepted /\ c \in open) ~> (a \in reached \cup cut \/ c \notin open)

=============================================================================
