----------------------------- MODULE Correlator -----------------------------
(***************************************************************************)
(* AlertCorrelator of alerting/correlator.py: the deque of recent alerts,  *)
(* the index from an IP to the alerts it took part in, and process().      *)
(* Alerts are numbered in the order in which they are processed; their     *)
(* timestamps need not follow that order, since the worker hands over one  *)
(* detector's batch after another.                                         *)
(***************************************************************************)
EXTENDS Integers, Sequences, FiniteSets

CONSTANTS IPs,        \* addresses
          NoIP,       \* an empty src_ip or dst_ip, which is not indexed
          AlertTimes, \* timestamps
          Window,     \* time_window_seconds
          Cap,        \* at most this many related ids (20 in the code)
          MaxAlerts   \* bound on the alerts processed

ASSUME CorrelatorAssumption ==
    /\ NoIP \notin IPs
    /\ AlertTimes \subseteq Int
    /\ Window \in Nat /\ Cap \in Nat /\ MaxAlerts \in Nat

VARIABLES recent,   \* recent_alerts: <<timestamp, id, src, dst>> records
          index,    \* ip_to_alerts: <<timestamp, id>> records; <<>> is no key
          log       \* history: every alert processed and its related ids

corrVars == <<recent, index, log>>

Elems(s) == {s[i] : i \in 1..Len(s)}

CorrInit == /\ recent = <<>>
            /\ index = [ip \in IPs |-> <<>>]
            /\ log = <<>>

(* The popleft loops: how many entries at the head are older than cutoff,  *)
(* and what is left of the deque.                                          *)
OldPrefix(q, cutoff) ==
    CHOOSE k \in 0..Len(q) : /\ \A i \in 1..k : q[i].ts < cutoff
                             /\ k < Len(q) => q[k + 1].ts >= cutoff

DropOld(q, cutoff) == SubSeq(q, OldPrefix(q, cutoff) + 1, Len(q))

BugEvictSrc(cutoff) ==      \* only the source's deque trimmed
    LET touched == {recent[i].src : i \in 1..OldPrefix(recent, cutoff)}
    IN [ip \in IPs |-> IF ip \in touched THEN DropOld(index[ip], cutoff) ELSE index[ip]]

(* The index deques trimmed are those of the addresses of a popped alert.  *)
EvictIndex(cutoff) ==
    LET popped == {recent[i] : i \in 1..OldPrefix(recent, cutoff)}
        touched == UNION {{e.src, e.dst} : e \in popped}
    IN [ip \in IPs |-> IF ip \in touched THEN DropOld(index[ip], cutoff)
                                         ELSE index[ip]]

BugRelatedIds(idx, src, dst, cutoff) ==   \* the window not checked again
    {e.id : e \in UNION {Elems(idx[ip]) : ip \in {src, dst} \ {NoIP}}}

BugRelatedLater(idx, src, dst, cutoff) ==   \* the edge of the window left out
    {e.id : e \in {x \in UNION {Elems(idx[ip]) : ip \in {src, dst} \ {NoIP}} :
                      x.ts > cutoff}}

RelatedIds(idx, src, dst, cutoff) ==
    {e.id : e \in {x \in UNION {Elems(idx[ip]) : ip \in {src, dst} \ {NoIP}} :
                      x.ts >= cutoff}}

(* list(related_ids)[-20:] of a set: any Cap of them.                      *)
Capped(ids) == IF Cardinality(ids) <= Cap THEN {ids}
               ELSE {c \in SUBSET ids : Cardinality(c) = Cap}

(* The new alert is indexed once under src and once under dst.             *)
Indexed(idx, entry, src, dst) ==
    [ip \in IPs |-> idx[ip] \o (IF ip = src THEN <<entry>> ELSE <<>>)
                            \o (IF ip = dst THEN <<entry>> ELSE <<>>)]

Process(ts, src, dst) ==
    LET cutoff == ts - Window
        id     == Len(log) + 1
        idx    == EvictIndex(cutoff)
    IN
    /\ \E related \in Capped(RelatedIds(idx, src, dst, cutoff)) :
          log' = Append(log, [ts |-> ts, src |-> src, dst |-> dst, related |-> related])
    /\ recent' = Append(DropOld(recent, cutoff),
                        [ts |-> ts, id |-> id, src |-> src, dst |-> dst])
    /\ index' = Indexed(idx, [ts |-> ts, id |-> id], src, dst)

CorrNext == /\ Len(log) < MaxAlerts
            /\ \E ts \in AlertTimes, src, dst \in IPs \cup {NoIP} : Process(ts, src, dst)

CorrSpec == CorrInit /\ [][CorrNext]_corrVars

-----------------------------------------------------------------------------
(* The definition of correlation, over the whole history: the alerts       *)
(* before the n-th that share an address with it and are not older than    *)
(* its window.                                                             *)
Reference(n) ==
    {m \in 1..(n - 1) :
        /\ log[m].ts >= log[n].ts - Window
        /\ ({log[m].src, log[m].dst} \cap {log[n].src, log[n].dst}) \ {NoIP} # {}}

(* correlator.py 34-51: an alert is related only to earlier alerts that    *)
(* share an address and lie in its window, and to at most 20.              *)
RelatedAreCorrelated ==
    \A n \in 1..Len(log) :
        log[n].related \subseteq Reference(n) /\ Cardinality(log[n].related) <= Cap

(* correlator.py 20-51: eviction never hides an alert from one that is at  *)
(* least as late as all before it: it gets all its related ids, up to 20.  *)
LatestSeesWholeWindow ==
    \A n \in 1..Len(log) :
        (\A m \in 1..(n - 1) : log[m].ts <= log[n].ts) =>
            \/ log[n].related = Reference(n)
            \/ Cardinality(log[n].related) = Cap

(* correlator.py 21-32: an alert that leaves the deque also leaves the     *)
(* index, whatever the order of the timestamps: the index does not leak.   *)
IndexWithinRecent ==
    \A ip \in IPs : \A e \in Elems(index[ip]) :
        \E r \in Elems(recent) : r.id = e.id /\ r.ts = e.ts /\ ip \in {r.src, r.dst}

=============================================================================
