----------------------------- MODULE FlowTable -----------------------------
(***************************************************************************)
(* FlowAssembler and BoundedTable of assembler/flow_session_tables.py: the *)
(* flow table in LRU order, keyed by the 5-tuple of a packet without its   *)
(* direction.  Only the table of flows is fed by the code; the DNS and TLS *)
(* tables of the same class stay empty, and _evict_expired is not called.  *)
(***************************************************************************)
EXTENDS Naturals, Sequences, FiniteSets, Functions

CONSTANTS Metas,      \* parsed packets: [src, dst, sport, dport, proto]
          MaxFlows    \* max_size of the table of flows

ASSUME FlowAssumption == MaxFlows \in Nat \ {0}

(* _make_5tuple sorts the addresses and the ports, each pair on its own:   *)
(* the key is the unordered pair of each.                                  *)
Make5Tuple(m) == <<{m.src, m.dst}, {m.sport, m.dport}, m.proto>>

Keys == {Make5Tuple(m) : m \in Metas}

VARIABLES
    table,      \* the keys of the table, least recently used first
    pkts,       \* packet_count of each flow, 0 when it has no entry
    \* History:
    assembled,  \* packets the assembler was given
    evicted,    \* packets of the flows that were evicted
    lastUse     \* the number of the last packet of each flow

flowVars == <<table, pkts, assembled, evicted, lastUse>>

FlowInit ==
    /\ table = <<>> /\ assembled = 0 /\ evicted = 0
    /\ pkts = [k \in Keys |-> 0] /\ lastUse = [k \in Keys |-> 0]

Present(k) == \E i \in 1..Len(table) : table[i] = k

(* The table without its least recently used entry, if it is full.         *)
EvictLru == IF Len(table) >= MaxFlows THEN Tail(table) ELSE table

(* get_or_create: move_to_end, or evict and create.                        *)
BugMoveToEnd(k) == table
MoveToEnd(k) ==
    LET i == CHOOSE j \in 1..Len(table) : table[j] = k
    IN Append(SubSeq(table, 1, i - 1) \o SubSeq(table, i + 1, Len(table)), k)

ProcessMeta(m) ==
    LET k == Make5Tuple(m)
        evicts == ~Present(k) /\ EvictLru # table
    IN
    /\ table' = IF Present(k) THEN MoveToEnd(k) ELSE Append(EvictLru, k)
    /\ pkts' = [x \in Keys |-> IF x = k THEN pkts[x] + 1
                               ELSE IF evicts /\ x = Head(table) THEN 0 ELSE pkts[x]]
    /\ assembled' = assembled + 1
    /\ evicted' = IF evicts THEN evicted + pkts[Head(table)] ELSE evicted
    /\ lastUse' = [lastUse EXCEPT ![k] = assembled + 1]

-----------------------------------------------------------------------------
(* flow_session_tables.py 20-24, 43-62: every flow that the table keeps    *)
(* has had a packet since the last one of each flow it does not have.      *)
KeepsMostRecent ==
    /\ \A k \in Keys : ~Present(k) =>
          \A i \in 1..Len(table) : lastUse[k] < lastUse[table[i]]
    /\ Len(table) <= MaxFlows

(* The packets that packet_count of some flow in the table stands for.     *)
Counted == UNION {{k} \X (1..pkts[k]) : k \in Range(table)}

(* flow_session_tables.py 20-24, 43-62, 85-106: at its limit the table     *)
(* gives up a flow only when every flow it keeps has had a packet since,   *)
(* and every packet it was given is counted in its flow or went with an    *)
(* evicted one.                                                            *)
EvictsLeastRecent ==
    /\ KeepsMostRecent
    /\ assembled = evicted + Cardinality(Counted)

=============================================================================
