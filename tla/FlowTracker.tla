---------------------------- MODULE FlowTracker ----------------------------
(***************************************************************************)
(* FlowTracker of ingest/rust-ingestor/src/main.rs: the flows and the 1 s  *)
(* window from which the ingestor makes the feature records it publishes.  *)
(* Rates and byte counts are left out; the counts of packets and of SYNs   *)
(* stand for the window's counters.                                        *)
(***************************************************************************)
EXTENDS Integers

CONSTANTS FlowKeys,     \* 5-tuples
          WindowSize,   \* window_size_secs (1.0)
          IdleLimit     \* seconds after which a flow is stale (60.0)

ASSUME TrackerAssumption == WindowSize \in Nat \ {0} /\ IdleLimit \in Nat \ {0}

Unset == 0   \* the initial window_start, and the last_seen of no flow

VARIABLES flowSeen,     \* last_seen of each flow
          flowPkts,     \* pkt_count of each flow
          windowStart,  \* window_start
          windowPkts,   \* window_pkts
          windowSyns,   \* window_syns
          emitted       \* the record the last update returned, if any

trackerVars == <<flowSeen, flowPkts, windowStart, windowPkts, windowSyns, emitted>>

NoRecord == [pkts |-> 0, syns |-> 0, flowPkts |-> 0]

TrackerInit ==
    /\ flowSeen = [k \in FlowKeys |-> Unset] /\ flowPkts = [k \in FlowKeys |-> 0]
    /\ windowStart = Unset /\ windowPkts = 0 /\ windowSyns = 0
    /\ emitted = NoRecord

(* The window a packet falls into starts with the first packet of all.     *)
StartOf(t) == IF windowStart = Unset THEN t ELSE windowStart

WindowCloses(t) == t - StartOf(t) >= WindowSize

(* A counter of the window after the packet: a record resets it.           *)
BugReset(count, t) == count
Reset(count, t) == IF WindowCloses(t) THEN 0 ELSE count

(* retain: the flows that stay when a window closes.                       *)
Retained(seen, t) == {k \in FlowKeys : seen[k] # Unset /\ t - seen[k] < IdleLimit}

(* update(): count the packet in its flow and its window; when the window  *)
(* closes, emit a record with the packet included, reset and evict.        *)
Update(k, hasSyn, t) ==
    LET seen == [flowSeen EXCEPT ![k] = t]
        pkts == [flowPkts EXCEPT ![k] = @ + 1]
        syns == windowSyns + (IF hasSyn THEN 1 ELSE 0)
        kept == IF WindowCloses(t) THEN Retained(seen, t) ELSE FlowKeys
    IN
    /\ flowSeen' = [x \in FlowKeys |-> IF x \in kept THEN seen[x] ELSE Unset]
    /\ flowPkts' = [x \in FlowKeys |-> IF x \in kept THEN pkts[x] ELSE 0]
    /\ windowStart' = IF WindowCloses(t) THEN t ELSE StartOf(t)
    /\ windowPkts' = Reset(windowPkts + 1, t)
    /\ windowSyns' = Reset(syns, t)
    /\ emitted' = IF WindowCloses(t)
                  THEN [pkts |-> windowPkts + 1, syns |-> syns, flowPkts |-> pkts[k]]
                  ELSE NoRecord

(* A packet that parse_packet returns None for never reaches update().     *)
NotTracked == UNCHANGED <<flowSeen, flowPkts, windowStart, windowPkts, windowSyns>>
              /\ emitted' = NoRecord

=============================================================================
