-------------------------- MODULE FeatureScheduler --------------------------
(***************************************************************************)
(* FeatureScheduler of features/scheduler.py and the state of the feature  *)
(* extractors it drives: tumbling windows that packets, not a clock, move  *)
(* on.  Packet timestamps come from a capture and may go back.  The        *)
(* numeric features (EWMA, Welford, sketches, entropy) are left out; what  *)
(* is kept is which packets a window counts and which state is swept.  The *)
(* four counters of the DDoS extractor are treated alike; syn_count stands *)
(* for them.                                                               *)
(***************************************************************************)
EXTENDS Integers, FiniteSets

CONSTANTS Hosts,        \* destinations; the source is one, so also the pairs
          Times,        \* packet timestamps
          W1, W5, W60,  \* window_1s, window_5s, window_60s
          DDoSTtl,      \* ttl of the DDoS sweep (60.0)
          BeaconTtl,    \* ttl of the beaconing sweep (120.0)
          MaxPackets    \* bound on the packets processed

ASSUME SchedulerAssumption ==
    /\ W1 \in Nat \ {0} /\ W5 \in Nat \ {0} /\ W60 \in Nat \ {0} /\ W1 <= W60
    /\ DDoSTtl \in Nat /\ BeaconTtl \in Nat /\ MaxPackets \in Nat
    /\ Times \subseteq Nat
    /\ \A t \in Times : t > W60 /\ t > 0   \* seconds since 1970

Never == 0   \* the initial last_*, and the last_time of an absent entry

(* What a packet is to the extractors: a TCP SYN, a SYN-ACK, other TCP or  *)
(* UDP, a DNS packet with a TXT or CNAME query or without one, ICMP, or    *)
(* none of these.  To what is modelled here a SYN-ACK is other TCP.        *)
Kinds == {"syn", "synack", "data", "txt", "lookup", "icmp", "other"}

VARIABLES
    last1, last5, last60,  \* last_1s, last_5s, last_60s
    syn,        \* syn_count of the DDoS extractor
    dstSeen,    \* last_time of each destination in dst_state
    pairSeen,   \* last_time of each pair in flow_iats
    dnsCount,   \* txt_cname_queries_1m
    \* History:
    packets,    \* packets processed
    synTotal,   \* SYNs fed to the extractor
    synRolled,  \* SYNs in the 1 s rollups emitted
    prev60,     \* last_60s when the last 60 s rollup was emitted
    queries,    \* the TXT and CNAME queries: <<packet number, timestamp>>
    report      \* the last 5 s rollup: its DNS rate, and the true one

windows == <<last1, last5, last60>>
vars == <<windows, syn, dstSeen, pairSeen, dnsCount, packets, synTotal,
          synRolled, prev60, queries, report>>

Init ==
    /\ last1 = Never /\ last5 = Never /\ last60 = Never
    /\ syn = 0 /\ dnsCount = 0
    /\ dstSeen = [h \in Hosts |-> Never]
    /\ pairSeen = [h \in Hosts |-> Never]
    /\ packets = 0 /\ synTotal = 0 /\ synRolled = 0 /\ prev60 = Never
    /\ queries = {} /\ report = [rate |-> 0, true |-> 0]

-----------------------------------------------------------------------------
(* _check_windows: the first packet and a packet older than the 1 s window *)
(* restart all three windows; nothing is emitted then.                     *)
Restarts(t) == last1 = Never \/ t < last1

Fires1(t)  == ~Restarts(t) /\ t - last1 >= W1
Fires5(t)  == ~Restarts(t) /\ t - last5 >= W5
Fires60(t) == ~Restarts(t) /\ t - last60 >= W60

Moved(last, fires, t) == IF Restarts(t) \/ fires THEN t ELSE last

(* The DDoS extractor counts the packet, and the 1 s rollup resets its     *)
(* counters after reading them.                                            *)
SynsSeen(kind) == IF kind = "syn" THEN syn + 1 ELSE syn

BugSynAfter(kind, t) == SynsSeen(kind)   \* the counters never reset
SynAfter(kind, t) == IF Fires1(t) THEN 0 ELSE SynsSeen(kind)

(* sweep_stale_state at the 60 s rollup, given last_60s from before it is  *)
(* moved to the current packet.                                            *)
BugSweep(seen, t, ttl) ==                \* swept against the moved last_60s
    IF Fires60(t) THEN [h \in Hosts |-> IF t - seen[h] > ttl THEN Never ELSE seen[h]]
    ELSE seen

BugNoSweep(seen, t, ttl) == seen

Sweep(seen, t, ttl) ==
    IF Fires60(t) THEN [h \in Hosts |-> IF last60 - seen[h] > ttl THEN Never ELSE seen[h]]
    ELSE seen

(* DNSExfiltrationFeatures.update, which only a DNS packet reaches, with   *)
(* is_new_minute taken before the windows move.                            *)
NewMinute(t) == t - last60 >= W60

DnsAfter(kind, t) ==
    IF kind \notin {"txt", "lookup"} THEN dnsCount
    ELSE (IF NewMinute(t) THEN 0 ELSE dnsCount) + (IF kind = "txt" THEN 1 ELSE 0)

InLastMinute(qs, t) == Cardinality({q \in qs : t - W60 <= q[2] /\ q[2] <= t})

ProcessPacket(kind, h, t) ==
    /\ packets < MaxPackets
    /\ packets' = packets + 1
    /\ dstSeen' = Sweep(IF kind = "other" THEN dstSeen ELSE [dstSeen EXCEPT ![h] = t],
                        t, DDoSTtl)
    /\ pairSeen' = Sweep([pairSeen EXCEPT ![h] = t], t, BeaconTtl)
    /\ syn' = SynAfter(kind, t)
    /\ synTotal' = IF kind = "syn" THEN synTotal + 1 ELSE synTotal
    /\ synRolled' = IF Fires1(t) THEN synRolled + SynsSeen(kind) ELSE synRolled
    /\ dnsCount' = DnsAfter(kind, t)
    /\ queries' = IF kind = "txt" THEN queries \cup {<<packets + 1, t>>} ELSE queries
    /\ report' = IF Fires5(t) THEN [rate |-> dnsCount', true |-> InLastMinute(queries', t)]
                 ELSE report
    /\ last1' = Moved(last1, Fires1(t), t)
    /\ last5' = Moved(last5, Fires5(t), t)
    /\ last60' = Moved(last60, Fires60(t), t)
    /\ prev60' = IF Restarts(t) THEN Never ELSE IF Fires60(t) THEN last60 ELSE prev60

Next == \E kind \in Kinds, h \in Hosts, t \in Times : ProcessPacket(kind, h, t)

Spec == Init /\ [][Next]_vars

-----------------------------------------------------------------------------
(* Every variable holds the kind of value the code gives it.               *)
TypeOK ==
    /\ last1 \in Times \cup {Never} /\ last5 \in Times \cup {Never}
    /\ last60 \in Times \cup {Never} /\ prev60 \in Times \cup {Never}
    /\ syn \in Nat /\ synTotal \in Nat /\ synRolled \in Nat
    /\ dnsCount \in Nat /\ packets \in 0..MaxPackets
    /\ dstSeen \in [Hosts -> Times \cup {Never}]
    /\ pairSeen \in [Hosts -> Times \cup {Never}]
    /\ queries \subseteq (1..MaxPackets) \X Times
    /\ report \in [rate : Nat, true : Nat]

(* scheduler.py 73-79, 93-102: every SYN is in exactly one 1 s rollup or   *)
(* still counted for the next, also when timestamps go back and the        *)
(* windows restart with the counters as they are.                          *)
SynsCountedOnce == synTotal = synRolled + syn

(* scheduler.py 113-125: a sweep only forgets a destination or a pair that *)
(* has been silent for more than its ttl and the 60 s window that ends,    *)
(* which is what sweeping against the old last_60s gives; so never one     *)
(* heard of in that window, nor the one whose packet ended it.             *)
OnlySilentAreSwept ==
    [][\A t \in Times : last60' = t =>
          \A h \in Hosts :
            /\ dstSeen[h] # Never /\ dstSeen'[h] = Never => t - dstSeen[h] > DDoSTtl + W60
            /\ pairSeen[h] # Never /\ pairSeen'[h] = Never => t - pairSeen[h] > BeaconTtl + W60]_vars

(* scheduler.py 121-123: the state is bounded by the traffic of the ttl    *)
(* before the previous 60 s rollup: nothing older survives a sweep.        *)
StaleStateSwept ==
    prev60 # Never => \A h \in Hosts :
        /\ dstSeen[h] # Never => prev60 - dstSeen[h] <= DDoSTtl
        /\ pairSeen[h] # Never => prev60 - pairSeen[h] <= BeaconTtl

(* dns_exfil_features.py 5-7 says the extractor is tracking the "query     *)
(* rate per minute": no 5 s rollup reports more TXT and CNAME queries than *)
(* there were in the last minute.                                          *)
DnsRateIsPerMinute == report.rate <= report.true

=============================================================================
