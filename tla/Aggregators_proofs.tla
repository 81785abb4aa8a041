------------------------- MODULE Aggregators_proofs -------------------------
(***************************************************************************)
(* The aggregators for every set of hosts, all timestamps in any order,    *)
(* all window lengths with the 1 s one no longer than the 60 s one, all    *)
(* ttls and every hash function.  FeatureScheduler: types, the account of  *)
(* SYNs and both halves of the sweep.  CountMinSketch: it never            *)
(* undercounts; the bound on the estimate is not inductive, as the         *)
(* estimate is a minimum over the rows, so the invariant bounds every      *)
(* cell.  Aggregators: the composition implements both, and the tracker    *)
(* accounts for its packets.                                               *)
(***************************************************************************)
EXTENDS Aggregators, FiniteSetTheorems, WellFoundedInduction, TLAPS

(* The 60 s rollup before the last one is not ahead of the 1 s window.     *)
(* last60 itself may be: a packet can close the 60 s window without        *)
(* closing the 1 s one.  The next 60 s rollup then closes both.            *)
PrevBehind == prev60 # Never => prev60 <= last1

SchedulerInv ==
    TypeOK /\ IsFiniteSet(queries) /\ SynsCountedOnce /\ PrevBehind /\ StaleStateSwept

(* Timestamps are numbers and never the mark of an absent entry.           *)
LEMMA TimesPositive == \A t \in Times : t \in Nat /\ t # Never /\ t > 0
  BY SchedulerAssumption DEF Never

(* What a sweep leaves of one entry.                                       *)
LEMMA SweepEntry ==
    ASSUME NEW seen \in [Hosts -> Times \cup {Never}], NEW t, NEW ttl
    PROVE  /\ Sweep(seen, t, ttl) \in [Hosts -> Times \cup {Never}]
           /\ \A h \in Hosts :
                /\ ~Fires60(t) => Sweep(seen, t, ttl)[h] = seen[h]
                /\ Fires60(t) =>
                     Sweep(seen, t, ttl)[h] = IF last60 - seen[h] > ttl THEN Never ELSE seen[h]
  BY DEF Sweep

(* sweep_stale_state on a table in which the packet at t has touched at    *)
(* most the entry of its own host: it keeps what StaleStateSwept says and  *)
(* forgets only what OnlySilentAreSwept allows.                            *)
LEMMA SweepStale ==
    ASSUME SchedulerInv, NEW t \in Times, NEW ttl \in Nat,
           NEW seen \in [Hosts -> Times \cup {Never}],
           NEW upd \in [Hosts -> Times \cup {Never}],
           \A h \in Hosts : upd[h] = seen[h] \/ upd[h] = t,
           prev60 # Never => \A h \in Hosts : seen[h] # Never => prev60 - seen[h] <= ttl,
           prev60' = IF Restarts(t) THEN Never ELSE IF Fires60(t) THEN last60 ELSE prev60,
           NEW h \in Hosts
    PROVE  /\ prev60' # Never /\ Sweep(upd, t, ttl)[h] # Never
                => prev60' - Sweep(upd, t, ttl)[h] <= ttl
           /\ seen[h] # Never /\ Sweep(upd, t, ttl)[h] = Never
                => Fires60(t) /\ t - seen[h] > ttl + W60
<1>1. /\ t \in Nat /\ t # Never /\ t > 0 /\ W60 \in Nat
      /\ last60 \in Nat /\ last1 \in Nat /\ prev60 \in Nat
      /\ seen[h] \in Nat /\ upd[h] \in Nat
      /\ prev60 # Never => prev60 <= last1
  <2>1. t \in Nat /\ t # Never /\ t > 0 /\ W60 \in Nat
    BY TimesPositive, SchedulerAssumption
  <2>2. \A x \in Times \cup {Never} : x \in Nat
    BY TimesPositive DEF Never
  <2>3. last60 \in Nat /\ last1 \in Nat /\ prev60 \in Nat
    BY <2>2 DEF SchedulerInv, TypeOK
  <2>4. seen[h] \in Nat /\ upd[h] \in Nat
    BY <2>2
  <2>5. prev60 # Never => prev60 <= last1
    BY DEF SchedulerInv, PrevBehind
  <2> QED
    BY <2>1, <2>3, <2>4, <2>5
<1>2. /\ ~Fires60(t) => Sweep(upd, t, ttl)[h] = upd[h]
      /\ Fires60(t) => Sweep(upd, t, ttl)[h] = IF last60 - upd[h] > ttl THEN Never ELSE upd[h]
  BY SweepEntry
<1>3. CASE Restarts(t)
  <2>1. ~Fires60(t) /\ prev60' = Never
    BY <1>3 DEF Fires60
  <2> QED
    BY <1>1, <1>2, <2>1
<1>4. CASE ~Restarts(t) /\ ~Fires60(t)
  <2>1. t >= last1 /\ prev60' = prev60
    BY <1>1, <1>4 DEF Restarts
  <2>2. prev60 # Never => prev60 - t <= ttl
    BY <1>1, <2>1
  <2> QED
    BY <1>1, <1>2, <1>4, <2>1, <2>2
<1>5. CASE Fires60(t)
  <2>1. prev60' = last60 /\ t - last60 >= W60 /\ t >= last60
    BY <1>1, <1>5 DEF Fires60
  <2>2. last60 - t <= ttl /\ ~(last60 - t > ttl)
    BY <1>1, <2>1
  <2>3. CASE upd[h] = t
    BY <1>1, <1>2, <1>5, <2>1, <2>2, <2>3
  <2>4. CASE upd[h] = seen[h] /\ last60 - seen[h] > ttl
    <3>1. t - seen[h] > ttl + W60
      BY <1>1, <2>1, <2>4
    <3> QED
      BY <1>2, <1>5, <2>4, <3>1
  <2>5. CASE upd[h] = seen[h] /\ ~(last60 - seen[h] > ttl)
    <3>1. last60 - seen[h] <= ttl
      BY <1>1, <2>5
    <3> QED
      BY <1>2, <1>5, <2>1, <2>5, <3>1
  <2> QED
    BY <2>3, <2>4, <2>5
<1> QED
  BY <1>3, <1>4, <1>5

-----------------------------------------------------------------------------
(* The constructor establishes the invariant ...                           *)
LEMMA SchedulerInvInit == Init => SchedulerInv
<1> SUFFICES ASSUME Init PROVE SchedulerInv
  OBVIOUS
<1>1. TypeOK
  BY SchedulerAssumption DEF Init, TypeOK
<1>2. IsFiniteSet(queries)
  BY FS_EmptySet DEF Init
<1> QED
  BY <1>1, <1>2 DEF Init, SchedulerInv, SynsCountedOnce, PrevBehind, StaleStateSwept

(* ... and every packet keeps it.                                          *)
LEMMA PacketKeepsInv ==
    ASSUME SchedulerInv, NEW kind \in Kinds, NEW h \in Hosts, NEW t \in Times,
           ProcessPacket(kind, h, t)
    PROVE  SchedulerInv'
<1>0. /\ TypeOK /\ IsFiniteSet(queries) /\ SynsCountedOnce /\ PrevBehind /\ StaleStateSwept
      /\ W1 \in Nat /\ W60 \in Nat /\ W1 <= W60
      /\ DDoSTtl \in Nat /\ BeaconTtl \in Nat /\ MaxPackets \in Nat
  BY SchedulerAssumption DEF SchedulerInv
<1>a. /\ t \in Nat /\ t # Never
      /\ \A x \in Times \cup {Never} : x \in Nat
      /\ last1 \in Nat /\ last60 \in Nat /\ prev60 \in Nat
  <2>1. t \in Nat /\ t # Never /\ \A x \in Times \cup {Never} : x \in Nat
    BY TimesPositive DEF Never
  <2> QED
    BY <1>0, <2>1 DEF TypeOK
<1>b. prev60' = IF Restarts(t) THEN Never ELSE IF Fires60(t) THEN last60 ELSE prev60
  BY DEF ProcessPacket
<1> DEFINE dst == IF kind = "other" THEN dstSeen ELSE [dstSeen EXCEPT ![h] = t]
           pair == [pairSeen EXCEPT ![h] = t]
<1>c. /\ dst \in [Hosts -> Times \cup {Never}]
      /\ \A x \in Hosts : dst[x] = dstSeen[x] \/ dst[x] = t
      /\ dstSeen' = Sweep(dst, t, DDoSTtl)
  BY <1>0 DEF ProcessPacket, TypeOK
<1>d. /\ pair \in [Hosts -> Times \cup {Never}]
      /\ \A x \in Hosts : pair[x] = pairSeen[x] \/ pair[x] = t
      /\ pairSeen' = Sweep(pair, t, BeaconTtl)
  BY <1>0 DEF ProcessPacket, TypeOK
<1> HIDE DEF dst, pair
<1>1. IsFiniteSet(queries')
  <2>1. IsFiniteSet(queries \cup {<<packets + 1, t>>})
    BY <1>0, FS_AddElement
  <2> QED
    BY <1>0, <2>1 DEF ProcessPacket
<1>2. TypeOK'
  <2>1. /\ last1' \in Times \cup {Never} /\ last5' \in Times \cup {Never}
        /\ last60' \in Times \cup {Never} /\ prev60' \in Times \cup {Never}
    BY <1>0, <1>b DEF ProcessPacket, Moved, TypeOK
  <2>2. dnsCount' \in Nat
    BY <1>0 DEF ProcessPacket, DnsAfter, TypeOK
  <2>3. syn' \in Nat /\ synTotal' \in Nat /\ synRolled' \in Nat
    BY <1>0 DEF ProcessPacket, SynAfter, SynsSeen, TypeOK
  <2>4. packets' \in 0..MaxPackets /\ packets + 1 \in 1..MaxPackets
    BY <1>0 DEF ProcessPacket, TypeOK
  <2>5. queries' \subseteq (1..MaxPackets) \X Times
    BY <1>0, <2>4 DEF ProcessPacket, TypeOK
  <2>6. report' \in [rate : Nat, true : Nat]
    <3>1. InLastMinute(queries', t) \in Nat
      BY <1>1, FS_Subset, FS_CardinalityType DEF InLastMinute
    <3> QED
      BY <1>0, <2>2, <3>1 DEF ProcessPacket, TypeOK
  <2>7. dstSeen' \in [Hosts -> Times \cup {Never}] /\ pairSeen' \in [Hosts -> Times \cup {Never}]
    BY <1>c, <1>d, SweepEntry
  <2> QED
    BY <2>1, <2>2, <2>3, <2>4, <2>5, <2>6, <2>7 DEF TypeOK
<1>3. SynsCountedOnce'
  BY <1>0 DEF ProcessPacket, SynsCountedOnce, SynAfter, SynsSeen, TypeOK
<1>4. PrevBehind'
  <2>1. last1' = IF Restarts(t) \/ Fires1(t) THEN t ELSE last1
    BY DEF ProcessPacket, Moved
  <2>2. CASE Restarts(t)
    BY <1>b, <2>2 DEF PrevBehind
  <2>3. CASE ~Restarts(t) /\ ~Fires60(t)
    <3>1. last1 <= t /\ prev60' = prev60
      BY <1>a, <1>b, <2>3 DEF Restarts
    <3>2. prev60 # Never => prev60 <= last1
      BY <1>0 DEF PrevBehind
    <3> QED
      BY <1>a, <2>1, <3>1, <3>2 DEF PrevBehind
  <2>4. CASE Fires60(t)
    <3>1. prev60' = last60 /\ t - last60 >= W60 /\ ~Restarts(t) /\ last1 <= t
      BY <1>a, <1>b, <2>4 DEF Fires60, Restarts
    <3>2. CASE last60 <= last1
      BY <1>a, <1>0, <2>1, <3>1, <3>2 DEF PrevBehind
    <3>3. CASE last60 > last1
      <4>1. Fires1(t)
        BY <1>0, <1>a, <3>1, <3>3 DEF Fires1
      <4> QED
        BY <1>0, <1>a, <2>1, <3>1, <4>1 DEF PrevBehind
    <3> QED
      BY <1>a, <3>2, <3>3
  <2> QED
    BY <2>2, <2>3, <2>4
<1>5. StaleStateSwept'
  <2> SUFFICES ASSUME prev60' # Never, NEW x \in Hosts
               PROVE  /\ dstSeen'[x] # Never => prev60' - dstSeen'[x] <= DDoSTtl
                      /\ pairSeen'[x] # Never => prev60' - pairSeen'[x] <= BeaconTtl
    BY DEF StaleStateSwept
  <2>1. dstSeen'[x] # Never => prev60' - dstSeen'[x] <= DDoSTtl
    BY <1>0, <1>b, <1>c, SweepStale DEF TypeOK, StaleStateSwept
  <2>2. pairSeen'[x] # Never => prev60' - pairSeen'[x] <= BeaconTtl
    BY <1>0, <1>b, <1>d, SweepStale DEF TypeOK, StaleStateSwept
  <2> QED
    BY <2>1, <2>2
<1> QED
  BY <1>1, <1>2, <1>3, <1>4, <1>5 DEF SchedulerInv

(* Every step keeps it: a packet (scheduler.py 36-91) or a stutter.        *)
LEMMA SchedulerInvNext == SchedulerInv /\ [Next]_vars => SchedulerInv'
<1> SUFFICES ASSUME SchedulerInv, [Next]_vars PROVE SchedulerInv'
  OBVIOUS
<1>1. CASE Next
  BY <1>1, PacketKeepsInv DEF Next
<1>2. CASE UNCHANGED vars
  BY <1>2 DEF vars, windows, SchedulerInv, TypeOK, SynsCountedOnce, PrevBehind, StaleStateSwept
<1> QED
  BY <1>1, <1>2

(* The windows, the counters and the swept tables keep their types for     *)
(* packets in any order (scheduler.py 36-125).                             *)
THEOREM SchedulerTypeCorrect == Spec => []TypeOK
  BY SchedulerInvInit, SchedulerInvNext, PTL DEF Spec, SchedulerInv

(* Every SYN is counted in exactly one 1 s rollup, or will be in the next  *)
(* (scheduler.py 73-102), also across restarts of the windows.             *)
THEOREM EverySynCountedOnce == Spec => []SynsCountedOnce
  BY SchedulerInvInit, SchedulerInvNext, PTL DEF Spec, SchedulerInv

(* The sweep bounds the state (scheduler.py 121-123): nothing older than   *)
(* the ttl before the last but one 60 s rollup survives, whatever order    *)
(* the timestamps come in.                                                 *)
THEOREM SweepBoundsState == Spec => []StaleStateSwept
  BY SchedulerInvInit, SchedulerInvNext, PTL DEF Spec, SchedulerInv

(* The sweep only forgets what has been silent for longer than its ttl and *)
(* the window that ends (scheduler.py 113-125), so not the flow of the     *)
(* packet that caused it.                                                  *)
THEOREM SweepForgetsOnlySilent == Spec => OnlySilentAreSwept
<1> DEFINE Swept == \A t \in Times : last60' = t =>
              \A h \in Hosts :
                /\ dstSeen[h] # Never /\ dstSeen'[h] = Never => t - dstSeen[h] > DDoSTtl + W60
                /\ pairSeen[h] # Never /\ pairSeen'[h] = Never => t - pairSeen[h] > BeaconTtl + W60
<1>1. ASSUME SchedulerInv, Next PROVE Swept
  <2>1. PICK kind \in Kinds, h0 \in Hosts, t0 \in Times : ProcessPacket(kind, h0, t0)
    BY <1>1 DEF Next
  <2> SUFFICES ASSUME NEW h \in Hosts
               PROVE  /\ dstSeen[h] # Never /\ dstSeen'[h] = Never
                           => last60' - dstSeen[h] > DDoSTtl + W60
                      /\ pairSeen[h] # Never /\ pairSeen'[h] = Never
                           => last60' - pairSeen[h] > BeaconTtl + W60
    OBVIOUS
  <2> DEFINE dst == IF kind = "other" THEN dstSeen ELSE [dstSeen EXCEPT ![h0] = t0]
             pair == [pairSeen EXCEPT ![h0] = t0]
  <2>2. /\ dstSeen \in [Hosts -> Times \cup {Never}] /\ pairSeen \in [Hosts -> Times \cup {Never}]
        /\ DDoSTtl \in Nat /\ BeaconTtl \in Nat
    BY <1>1, SchedulerAssumption DEF SchedulerInv, TypeOK
  <2>3. /\ dst \in [Hosts -> Times \cup {Never}]
        /\ \A x \in Hosts : dst[x] = dstSeen[x] \/ dst[x] = t0
        /\ dstSeen' = Sweep(dst, t0, DDoSTtl)
    BY <2>1, <2>2 DEF ProcessPacket
  <2>4. /\ pair \in [Hosts -> Times \cup {Never}]
        /\ \A x \in Hosts : pair[x] = pairSeen[x] \/ pair[x] = t0
        /\ pairSeen' = Sweep(pair, t0, BeaconTtl)
    BY <2>1, <2>2 DEF ProcessPacket
  <2> HIDE DEF dst, pair
  <2>5. prev60' = IF Restarts(t0) THEN Never ELSE IF Fires60(t0) THEN last60 ELSE prev60
    BY <2>1 DEF ProcessPacket
  <2>6. Fires60(t0) => last60' = t0
    BY <2>1 DEF ProcessPacket, Moved
  <2>7. dstSeen[h] # Never /\ dstSeen'[h] = Never => Fires60(t0) /\ t0 - dstSeen[h] > DDoSTtl + W60
    BY <1>1, <2>2, <2>3, <2>5, SweepStale DEF SchedulerInv, StaleStateSwept
  <2>8. pairSeen[h] # Never /\ pairSeen'[h] = Never => Fires60(t0) /\ t0 - pairSeen[h] > BeaconTtl + W60
    BY <1>1, <2>2, <2>4, <2>5, SweepStale DEF SchedulerInv, StaleStateSwept
  <2> QED
    BY <2>6, <2>7, <2>8
<1>2. SchedulerInv /\ [Next]_vars => [Swept]_vars
  BY <1>1
<1> QED
  BY <1>2, SchedulerInvInit, SchedulerInvNext, PTL DEF Spec, OnlySilentAreSwept

-----------------------------------------------------------------------------
(* The sketch of destinations.                                             *)
SketchTypeOK ==
    /\ table \in [Rows -> [Cells -> Nat]]
    /\ totalCount \in Nat
    /\ truth \in [Items -> Nat]

(* Every cell of an item holds at least the item's count, and no cell more *)
(* than everything added.                                                  *)
SketchInv ==
    /\ SketchTypeOK
    /\ \A r \in Rows : /\ \A x \in Items : truth[x] <= table[r][Hash[r][x]]
                       /\ \A c \in Cells : table[r][c] <= totalCount

(* A nonempty set of naturals has a least element.                         *)
LEMMA LeastExists ==
    ASSUME NEW S \in SUBSET Nat, S # {}
    PROVE  \E m \in S : \A n \in S : m <= n
<1> DEFINE R == {p \in Nat \X Nat : p[1] < p[2]}
<1>1. IsWellFoundedOn(R, Nat)
  BY NatLessThanWellFounded DEF OpToRel
<1> HIDE DEF R
<1>2. PICK m \in S : \A n \in S : ~(<<n, m>> \in R)
  BY <1>1, WFMin
<1>3. \A n \in S : ~(n < m)
  BY <1>2 DEF R
<1> QED
  BY <1>3

(* The estimate is one of the item's cells (online_stats.py 52-57).        *)
LEMMA EstimateIsACell ==
    ASSUME SketchTypeOK, NEW x \in Items
    PROVE  \E r \in Rows : Estimate(x) = table[r][Hash[r][x]]
<1> DEFINE S == {table[r][Hash[r][x]] : r \in Rows}
<1>1. S \in SUBSET Nat /\ S # {}
  BY SketchAssumption DEF SketchTypeOK, Rows
<1>2. \E m \in S : \A n \in S : m <= n
  BY <1>1, LeastExists
<1>3. Estimate(x) \in S
  BY <1>2 DEF Estimate, Min
<1> QED
  BY <1>3

LEMMA SketchInvInit == SketchInit => SketchInv
BY SketchAssumption DEF SketchInit, SketchInv, SketchTypeOK

LEMMA SketchInvNext == SketchInv /\ [SketchNext]_sketchVars => SketchInv'
<1> SUFFICES ASSUME SketchInv, [SketchNext]_sketchVars PROVE SketchInv'
  OBVIOUS
<1>1. CASE UNCHANGED sketchVars
  BY <1>1 DEF SketchInv, SketchTypeOK, sketchVars
<1>2. CASE SketchNext
  <2>1. PICK y \in Items : Add(y)
    BY <1>2 DEF SketchNext
  <2>2. \A r \in Rows : Hash[r][y] \in Cells
    BY SketchAssumption
  <2>3. SketchTypeOK'
    BY <2>1, <2>2 DEF Add, SketchInv, SketchTypeOK
  <2>4. ASSUME NEW r \in Rows
        PROVE  /\ \A x \in Items : truth'[x] <= table'[r][Hash[r][x]]
               /\ \A c \in Cells : table'[r][c] <= totalCount'
    <3>1. \A c \in Cells :
             table'[r][c] = IF c = Hash[r][y] THEN table[r][c] + 1 ELSE table[r][c]
      BY <2>1, <2>2 DEF Add, SketchInv, SketchTypeOK
    <3>2. \A x \in Items : Hash[r][x] \in Cells
      BY SketchAssumption
    <3>3. \A x \in Items : truth'[x] = IF x = y THEN truth[x] + 1 ELSE truth[x]
      BY <2>1 DEF Add, SketchInv, SketchTypeOK
    <3>4. \A c \in Cells : table[r][c] \in Nat
      BY DEF SketchInv, SketchTypeOK
    <3>5. ASSUME NEW x \in Items PROVE truth'[x] <= table'[r][Hash[r][x]]
      BY <3>1, <3>2, <3>3, <3>4, <3>5 DEF SketchInv, SketchTypeOK
    <3>6. ASSUME NEW c \in Cells PROVE table'[r][c] <= totalCount'
      BY <2>1, <3>1, <3>4, <3>6 DEF Add, SketchInv, SketchTypeOK
    <3> QED
      BY <3>5, <3>6
  <2> QED
    BY <2>3, <2>4 DEF SketchInv
<1> QED
  BY <1>1, <1>2

(* online_stats.py 46-57: an item is never estimated below its count, nor  *)
(* above the number of items added, whatever collides.                     *)
THEOREM SketchNeverUndercounts == SketchSpec => []NeverUndercounts
<1>1. SketchInv => NeverUndercounts
  <2> SUFFICES ASSUME SketchInv, NEW x \in Items
               PROVE  truth[x] <= Estimate(x) /\ Estimate(x) <= totalCount
    BY DEF NeverUndercounts
  <2>1. PICK r \in Rows : Estimate(x) = table[r][Hash[r][x]]
    BY EstimateIsACell DEF SketchInv
  <2>2. Hash[r][x] \in Cells
    BY SketchAssumption
  <2> QED
    BY <2>1, <2>2 DEF SketchInv
<1> QED
  BY <1>1, SketchInvInit, SketchInvNext, PTL DEF SketchSpec

-----------------------------------------------------------------------------
(* The tracker's counters are numbers, and account for all it was given.   *)
TrackerInv ==
    /\ windowPkts \in Nat /\ windowSyns \in Nat
    /\ tracked \in Nat /\ rolledPkts \in Nat /\ rolledSyns \in Nat /\ synAcks \in Nat
    /\ TrackerCountsOnce

AggInv == SchedulerInv /\ TrackerInv

(* A packet to the composition is a packet to the scheduler and one item   *)
(* for the sketch.                                                         *)
LEMMA AggStep == [AggNext]_aggVars => [Next]_vars /\ [SketchNext]_sketchVars
<1> SUFFICES ASSUME [AggNext]_aggVars PROVE [Next]_vars /\ [SketchNext]_sketchVars
  OBVIOUS
<1>1. CASE UNCHANGED aggVars
  BY <1>1 DEF aggVars
<1>2. CASE AggNext
  <2>1. PICK kind \in Kinds, h \in Hosts, t \in Times : Packet(kind, h, t)
    BY <1>2 DEF AggNext
  <2>2. Next
    BY <2>1 DEF Packet, Next
  <2>3. SketchNext
    BY <2>1, AggAssumption DEF Packet, SketchNext
  <2> QED
    BY <2>2, <2>3
<1> QED
  BY <1>1, <1>2

(* The composition implements the scheduler and the sketch by themselves:  *)
(* feeding the tracker as well (main.rs 233-278) changes neither           *)
(* (scheduler.py 36-91, online_stats.py 46-50).                            *)
THEOREM AggregatorsImplement == AggSpec => Spec /\ SketchSpec
<1>1. AggInit => Init /\ SketchInit
  BY DEF AggInit
<1> QED
  BY <1>1, AggStep, PTL DEF AggSpec, Spec, SketchSpec

LEMMA AggInvInit == AggInit => AggInv
<1> SUFFICES ASSUME AggInit PROVE AggInv
  OBVIOUS
<1>1. SchedulerInv
  BY SchedulerInvInit DEF AggInit
<1>2. TrackerInv
  BY DEF AggInit, Init, TrackerInit, TrackerInv, TrackerCountsOnce
<1> QED
  BY <1>1, <1>2 DEF AggInv

(* What one packet does to the scheduler's account of SYNs.                *)
LEMMA SchedulerSyns ==
    ASSUME SchedulerInv, NEW kind, NEW h, NEW t, ProcessPacket(kind, h, t)
    PROVE  /\ kind = "syn" => synRolled' + syn' = synRolled + syn + 1
           /\ kind # "syn" => synRolled' + syn' = synRolled + syn
<1>1. syn \in Nat /\ synRolled \in Nat
  BY DEF SchedulerInv, TypeOK
<1>2. /\ syn' = SynAfter(kind, t)
      /\ synRolled' = IF Fires1(t) THEN synRolled + SynsSeen(kind) ELSE synRolled
  BY DEF ProcessPacket
<1> QED
  BY <1>1, <1>2 DEF SynAfter, SynsSeen

LEMMA AggInvNext == AggInv /\ [AggNext]_aggVars => AggInv'
<1> SUFFICES ASSUME AggInv, [AggNext]_aggVars PROVE AggInv'
  OBVIOUS
<1>1. SchedulerInv'
  BY AggStep, SchedulerInvNext DEF AggInv
<1>2. CASE UNCHANGED aggVars
  BY <1>1, <1>2 DEF aggVars, aggHistory, vars, trackerVars, AggInv, TrackerInv, TrackerCountsOnce
<1>3. CASE AggNext
  <2>1. PICK kind \in Kinds, h \in Hosts, t \in Times : Packet(kind, h, t)
    BY <1>3 DEF AggNext
  <2>2. /\ syn \in Nat /\ synRolled \in Nat /\ syn' \in Nat /\ synRolled' \in Nat
        /\ windowPkts \in Nat /\ windowSyns \in Nat /\ tracked \in Nat
        /\ rolledPkts \in Nat /\ rolledSyns \in Nat /\ synAcks \in Nat
        /\ tracked = rolledPkts + windowPkts
        /\ rolledSyns + windowSyns = synRolled + syn + synAcks
    BY <1>1 DEF AggInv, SchedulerInv, TypeOK, TrackerInv, TrackerCountsOnce
  <2>3. /\ kind = "syn" => synRolled' + syn' = synRolled + syn + 1
        /\ kind # "syn" => synRolled' + syn' = synRolled + syn
    BY <2>1, SchedulerSyns DEF AggInv, Packet
  <2>4. /\ tracked' = IF Tracked(kind) THEN tracked + 1 ELSE tracked
        /\ rolledPkts' = rolledPkts + emitted'.pkts
        /\ rolledSyns' = rolledSyns + emitted'.syns
        /\ synAcks' = IF kind = "synack" THEN synAcks + 1 ELSE synAcks
    BY <2>1 DEF Packet
  <2>5. PICK n \in Nat, s \in Nat :
             /\ n = (IF Tracked(kind) THEN 1 ELSE 0)
             /\ s = (IF HasSyn(kind) THEN 1 ELSE 0)
    OBVIOUS
  <2>6. HasSyn(kind) => Tracked(kind)
    BY DEF HasSyn, Tracked
  <2>7. /\ WindowCloses(t) /\ Tracked(kind) =>
             /\ windowPkts' = 0 /\ windowSyns' = 0
             /\ emitted'.pkts = windowPkts + n /\ emitted'.syns = windowSyns + s
        /\ ~(WindowCloses(t) /\ Tracked(kind)) =>
             /\ windowPkts' = windowPkts + n /\ windowSyns' = windowSyns + s
             /\ emitted'.pkts = 0 /\ emitted'.syns = 0
    <3>1. CASE Tracked(kind)
      <4>1. Update(h, HasSyn(kind), t)
        BY <2>1, <3>1 DEF Packet
      <4> QED
        BY <2>5, <3>1, <4>1 DEF Update, Reset, NoRecord
    <3>2. CASE ~Tracked(kind)
      <4>1. NotTracked /\ n = 0 /\ s = 0
        BY <2>1, <2>5, <2>6, <3>2 DEF Packet
      <4> QED
        BY <2>2, <3>2, <4>1 DEF NotTracked, NoRecord
    <3> QED
      BY <3>1, <3>2
  <2>8. /\ windowPkts' \in Nat /\ windowSyns' \in Nat
        /\ rolledPkts' \in Nat /\ rolledSyns' \in Nat
        /\ rolledPkts' + windowPkts' = rolledPkts + windowPkts + n
        /\ rolledSyns' + windowSyns' = rolledSyns + windowSyns + s
    BY <2>2, <2>4, <2>7
  <2>9. tracked' = tracked + n /\ synAcks' \in Nat
    BY <2>2, <2>4, <2>5
  <2>10. synRolled' + syn' + synAcks' = synRolled + syn + synAcks + s
    <3>a. PICK x \in Nat, y \in Nat : x = synRolled' /\ y = syn'
      BY <2>2
    <3> DEFINE X == x + y
               Y == synRolled + syn
    <3> SUFFICES X + synAcks' = Y + synAcks + s
      BY <3>a
    <3>0. X \in Nat /\ Y \in Nat /\ synAcks \in Nat /\ synAcks' \in Nat
      BY <2>2, <2>9
    <3>1. CASE kind = "syn"
      <4>1. HasSyn(kind) = TRUE
        BY <3>1 DEF HasSyn
      <4>2. s = 1 /\ synAcks' = synAcks /\ X = Y + 1
        BY <2>3, <2>4, <2>5, <3>a, <3>1, <4>1
      <4> HIDE DEF X, Y
      <4> QED
        BY <3>0, <4>2
    <3>2. CASE kind = "synack"
      <4>1. HasSyn(kind) = TRUE
        BY <3>2 DEF HasSyn
      <4>2. s = 1 /\ synAcks' = synAcks + 1 /\ X = Y
        BY <2>3, <2>4, <2>5, <3>a, <3>2, <4>1
      <4> HIDE DEF X, Y
      <4> QED
        BY <3>0, <4>2
    <3>3. CASE kind # "syn" /\ kind # "synack"
      <4>1. HasSyn(kind) = FALSE
        BY <3>3 DEF HasSyn
      <4>2. s = 0 /\ synAcks' = synAcks /\ X = Y
        BY <2>3, <2>4, <2>5, <3>a, <3>3, <4>1
      <4> HIDE DEF X, Y
      <4> QED
        BY <3>0, <4>2
    <3> QED
      BY <3>1, <3>2, <3>3
  <2>11. TrackerCountsOnce'
    BY <2>2, <2>8, <2>9, <2>10 DEF TrackerCountsOnce
  <2>12. tracked' \in Nat
    BY <2>2, <2>9
  <2> QED
    BY <1>1, <2>8, <2>9, <2>11, <2>12 DEF AggInv, TrackerInv
<1> QED
  BY <1>2, <1>3

(* main.rs 231-278: every packet and every segment with the SYN bit is in  *)
(* one record or in the open window, and the SYNs so counted are those of  *)
(* the scheduler (scheduler.py 78-102) and the SYN-ACKs, for windows of    *)
(* any two lengths and timestamps in any order.                            *)
THEOREM TrackerCountsEverything == AggSpec => []TrackerCountsOnce
  BY AggInvInit, AggInvNext, PTL DEF AggSpec, AggInv, TrackerInv

=============================================================================
