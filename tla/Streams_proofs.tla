--------------------------- MODULE Streams_proofs ---------------------------
(***************************************************************************)
(* The reading side of the dashboard server, for every set of dashboards,  *)
(* alerts and requests: the answers of the summary cache are current, the  *)
(* stream of a simulated replay skips nothing, a dataset replay keeps the  *)
(* spacing of its records, and the queue of the topic loses no alert.      *)
(***************************************************************************)
EXTENDS Streams, FiniteSetTheorems, SequenceTheorems, WellFoundedInduction, TLAPS

(* The types of the cache.                                                 *)
Data == [ver : Int, at : Nat]

CacheTypes ==
    /\ clock \in Nat /\ changes \in Nat /\ cached \in Data /\ lastTime \in Nat
    /\ getter \in [Getters -> {"idle", "lock", "fetch", "fill"}]
    /\ askedAt \in [Getters -> Nat] /\ fetched \in [Getters -> Data]
    /\ invalidated \in Nat /\ since \in [Getters -> Nat]
    /\ answer \in [data : Data, asked : Nat, since : Nat]

(* SummaryIsCurrent speaks of the answers only.  It is kept because the    *)
(* lock is held from the question to the store until the cache is filled,  *)
(* so that no invalidation comes between; because what is in the cache was *)
(* read at lastTime or later; and because it was read since the last       *)
(* invalidation, which a call waiting for the lock may be older than.      *)
HolderInside == \A t \in Getters : holder = t <=> getter[t] \in {"fetch", "fill"}
FetchedIsCurrent ==
    \A t \in Getters :
        getter[t] = "fill" => fetched[t].ver >= invalidated /\ fetched[t].at >= askedAt[t]
CachedIsCurrent ==
    cached # NoData => cached.ver >= invalidated /\ cached.at >= lastTime
TimesInOrder ==
    /\ invalidated <= changes
    /\ \A t \in Getters : since[t] <= invalidated /\ askedAt[t] <= clock

CacheInv ==
    /\ CacheTypes /\ HolderInside /\ FetchedIsCurrent /\ CachedIsCurrent /\ TimesInOrder
    /\ SummaryIsCurrent

LEMMA CacheInitInv == CacheInit => CacheInv
<1> SUFFICES ASSUME CacheInit PROVE CacheInv
  OBVIOUS
<1>1. NoData \in Data /\ [ver |-> 0, at |-> 0] \in Data
  BY DEF NoData, Data
<1>2. CacheTypes
  BY <1>1 DEF CacheInit, CacheTypes
<1>3. HolderInside
  BY CacheAssumption DEF CacheInit, HolderInside
<1>4. FetchedIsCurrent /\ CachedIsCurrent /\ TimesInOrder
  BY DEF CacheInit, FetchedIsCurrent, CachedIsCurrent, TimesInOrder
<1>5. SummaryIsCurrent
  BY CacheAssumption DEF CacheInit, SummaryIsCurrent
<1> QED
  BY <1>2, <1>3, <1>4, <1>5 DEF CacheInv

LEMMA CacheStepInv == CacheInv /\ [CacheNext]_cacheVars => CacheInv'
<1> SUFFICES ASSUME CacheInv, [CacheNext]_cacheVars PROVE CacheInv'
  OBVIOUS
<1>0. /\ CacheTypes /\ HolderInside /\ FetchedIsCurrent /\ CachedIsCurrent /\ TimesInOrder
      /\ SummaryIsCurrent
  BY DEF CacheInv
<1>1. CASE UNCHANGED cacheVars
  BY <1>0, <1>1 DEF cacheVars, CacheInv, CacheTypes, HolderInside, FetchedIsCurrent,
                    CachedIsCurrent, TimesInOrder, SummaryIsCurrent
<1>2. CASE CacheTick
  BY <1>0, <1>2 DEF CacheTick, CacheInv, CacheTypes, HolderInside, FetchedIsCurrent,
                    CachedIsCurrent, TimesInOrder, SummaryIsCurrent
<1>3. CASE StoreChanges
  BY <1>0, <1>3 DEF StoreChanges, CacheInv, CacheTypes, HolderInside, FetchedIsCurrent,
                    CachedIsCurrent, TimesInOrder, SummaryIsCurrent
<1>4. CASE Invalidate
  <2>1. /\ holder = NoHolder /\ cached' = NoData /\ lastTime' = 0 /\ invalidated' = changes
        /\ UNCHANGED <<clock, changes, holder, getter, askedAt, fetched, since, answer>>
    BY <1>4 DEF Invalidate
  <2>2. \A t \in Getters : getter[t] \notin {"fetch", "fill"}
    BY <1>0, <2>1, CacheAssumption DEF HolderInside
  <2>3. CacheTypes'
    BY <1>0, <2>1 DEF CacheTypes, NoData, Data
  <2>4. HolderInside' /\ FetchedIsCurrent' /\ CachedIsCurrent'
    BY <1>0, <2>1, <2>2 DEF HolderInside, FetchedIsCurrent, CachedIsCurrent
  <2>5. TimesInOrder' /\ SummaryIsCurrent'
    BY <1>0, <2>1 DEF TimesInOrder, SummaryIsCurrent, CacheTypes
  <2> QED
    BY <2>3, <2>4, <2>5 DEF CacheInv
<1>5. ASSUME NEW t \in Getters, GetSummary(t) PROVE CacheInv'
  <2>1. /\ getter[t] = "idle" /\ getter' = [getter EXCEPT ![t] = "lock"]
        /\ askedAt' = [askedAt EXCEPT ![t] = clock]
        /\ since' = [since EXCEPT ![t] = invalidated]
        /\ UNCHANGED <<clock, changes, cached, lastTime, holder, fetched, invalidated, answer>>
    BY <1>5 DEF GetSummary, Moves
  <2>2. CacheTypes'
    BY <1>0, <2>1 DEF CacheTypes
  <2>3. HolderInside' /\ FetchedIsCurrent' /\ CachedIsCurrent'
    BY <1>0, <2>1 DEF HolderInside, FetchedIsCurrent, CachedIsCurrent, CacheTypes
  <2>4. TimesInOrder' /\ SummaryIsCurrent'
    BY <1>0, <2>1 DEF TimesInOrder, SummaryIsCurrent, CacheTypes
  <2> QED
    BY <2>2, <2>3, <2>4 DEF CacheInv
<1>6. ASSUME NEW t \in Getters, Lock(t) PROVE CacheInv'
  <2>0. holder = NoHolder /\ UNCHANGED <<clock, changes, cached, lastTime, invalidated>>
    BY <1>6 DEF Lock
  <2>1. CASE Fresh(t) /\ Moves(t, "lock", "idle") /\ Returns(t, cached) /\ UNCHANGED holder
    <3>1. /\ getter[t] = "lock" /\ getter' = [getter EXCEPT ![t] = "idle"]
          /\ cached # NoData /\ askedAt[t] - lastTime < Ttl
          /\ answer' = [data |-> cached, asked |-> askedAt[t], since |-> since[t]]
          /\ askedAt' = [askedAt EXCEPT ![t] = 0] /\ since' = [since EXCEPT ![t] = 0]
          /\ fetched' = [fetched EXCEPT ![t] = NoData] /\ holder' = holder
      BY <2>1 DEF Fresh, Moves, Returns
    <3>2. CacheTypes'
      BY <1>0, <2>0, <3>1 DEF CacheTypes, NoData, Data
    <3>3. HolderInside' /\ FetchedIsCurrent' /\ CachedIsCurrent'
      BY <1>0, <2>0, <3>1 DEF HolderInside, FetchedIsCurrent, CachedIsCurrent, CacheTypes
    <3>4. TimesInOrder'
      BY <1>0, <2>0, <3>1 DEF TimesInOrder, CacheTypes
    <3>5. cached.ver >= invalidated /\ cached.at >= lastTime /\ since[t] <= invalidated
      BY <1>0, <3>1 DEF CachedIsCurrent, TimesInOrder
    <3>6. /\ cached.ver \in Int /\ cached.at \in Nat /\ lastTime \in Nat /\ Ttl \in Nat
          /\ askedAt[t] \in Nat /\ since[t] \in Nat /\ invalidated \in Nat
      BY <1>0, CacheAssumption DEF CacheTypes, Data
    <3>7. SummaryIsCurrent'
      BY <3>1, <3>5, <3>6 DEF SummaryIsCurrent
    <3> QED
      BY <3>2, <3>3, <3>4, <3>7 DEF CacheInv
  <2>2. CASE /\ Moves(t, "lock", "fetch") /\ holder' = t
             /\ UNCHANGED <<answer, askedAt, since, fetched>>
    <3>1. getter[t] = "lock" /\ getter' = [getter EXCEPT ![t] = "fetch"] /\ holder' = t
      BY <2>2 DEF Moves
    <3>2. CacheTypes'
      BY <1>0, <2>0, <2>2, <3>1 DEF CacheTypes
    <3>3. \A u \in Getters : getter[u] \notin {"fetch", "fill"}
      BY <1>0, <2>0, CacheAssumption DEF HolderInside
    <3>4. HolderInside'
      BY <1>0, <3>1, <3>3 DEF HolderInside, CacheTypes
    <3>5. FetchedIsCurrent' /\ CachedIsCurrent' /\ TimesInOrder' /\ SummaryIsCurrent'
      BY <1>0, <2>0, <2>2, <3>1 DEF FetchedIsCurrent, CachedIsCurrent, CacheTypes,
                                    TimesInOrder, SummaryIsCurrent
    <3> QED
      BY <3>2, <3>4, <3>5 DEF CacheInv
  <2> QED
    BY <1>6, <2>1, <2>2 DEF Lock
<1>7. ASSUME NEW t \in Getters, Fetch(t) PROVE CacheInv'
  <2>0. UNCHANGED <<clock, changes, cached, lastTime, askedAt, invalidated, since, answer>>
    BY <1>7 DEF Fetch
  <2>1. CASE /\ Moves(t, "fetch", "fill") /\ UNCHANGED holder
             /\ fetched' = [fetched EXCEPT ![t] = [ver |-> changes, at |-> clock]]
    <3>1. /\ getter[t] = "fetch" /\ getter' = [getter EXCEPT ![t] = "fill"] /\ holder' = holder
          /\ fetched' = [fetched EXCEPT ![t] = [ver |-> changes, at |-> clock]]
      BY <2>1 DEF Moves
    <3>2. CacheTypes'
      BY <1>0, <2>0, <3>1 DEF CacheTypes, Data
    <3>3. HolderInside' /\ FetchedIsCurrent' /\ CachedIsCurrent'
      BY <1>0, <2>0, <3>1 DEF HolderInside, FetchedIsCurrent, CachedIsCurrent, CacheTypes, TimesInOrder
    <3>4. TimesInOrder' /\ SummaryIsCurrent'
      BY <1>0, <2>0 DEF TimesInOrder, SummaryIsCurrent
    <3> QED
      BY <3>2, <3>3, <3>4 DEF CacheInv
  <2>2. CASE Moves(t, "fetch", "idle") /\ holder' = NoHolder /\ UNCHANGED fetched
    <3>1. /\ getter[t] = "fetch" /\ getter' = [getter EXCEPT ![t] = "idle"] /\ holder' = NoHolder
          /\ fetched' = fetched
      BY <2>2 DEF Moves
    <3>2. CacheTypes'
      BY <1>0, <2>0, <3>1 DEF CacheTypes
    <3>3. HolderInside'
      BY <1>0, <3>1, CacheAssumption DEF HolderInside, CacheTypes
    <3>4. FetchedIsCurrent' /\ CachedIsCurrent' /\ TimesInOrder' /\ SummaryIsCurrent'
      BY <1>0, <2>0, <3>1 DEF FetchedIsCurrent, CachedIsCurrent, CacheTypes,
                              TimesInOrder, SummaryIsCurrent
    <3> QED
      BY <3>2, <3>3, <3>4 DEF CacheInv
  <2> QED
    BY <1>7, <2>1, <2>2 DEF Fetch
<1>8. ASSUME NEW t \in Getters, Fill(t) PROVE CacheInv'
  <2>1. /\ getter[t] = "fill" /\ getter' = [getter EXCEPT ![t] = "idle"] /\ holder' = NoHolder
        /\ cached' = fetched[t] /\ lastTime' = askedAt[t]
        /\ answer' = [data |-> fetched[t], asked |-> askedAt[t], since |-> since[t]]
        /\ askedAt' = [askedAt EXCEPT ![t] = 0] /\ since' = [since EXCEPT ![t] = 0]
        /\ fetched' = [fetched EXCEPT ![t] = NoData]
        /\ UNCHANGED <<clock, changes, invalidated>>
    BY <1>8 DEF Fill, Moves, Returns
  <2>2. CacheTypes'
    BY <1>0, <2>1 DEF CacheTypes, NoData, Data
  <2>3. HolderInside'
    BY <1>0, <2>1, CacheAssumption DEF HolderInside, CacheTypes
  <2>4. FetchedIsCurrent' /\ TimesInOrder'
    BY <1>0, <2>1 DEF FetchedIsCurrent, TimesInOrder, CacheTypes
  <2>5. /\ fetched[t].ver >= invalidated /\ fetched[t].at >= askedAt[t]
        /\ since[t] <= invalidated
    BY <1>0, <2>1 DEF FetchedIsCurrent, TimesInOrder
  <2>6. /\ fetched[t].ver \in Int /\ fetched[t].at \in Nat /\ Ttl \in Nat
        /\ askedAt[t] \in Nat /\ since[t] \in Nat /\ invalidated \in Nat
    BY <1>0, CacheAssumption DEF CacheTypes, Data
  <2>7. CachedIsCurrent' /\ SummaryIsCurrent'
    BY <2>1, <2>5, <2>6 DEF CachedIsCurrent, SummaryIsCurrent
  <2> QED
    BY <2>2, <2>3, <2>4, <2>7 DEF CacheInv
<1> QED
  BY <1>1, <1>2, <1>3, <1>4, <1>5, <1>6, <1>7, <1>8 DEF CacheNext


-----------------------------------------------------------------------------
(* The stream of a simulated replay.  NothingSkipped needs that a stream   *)
(* remembers as sent only what it pushed, also after pruning; that the     *)
(* clock of the replay has passed every row; and that no stream which was  *)
(* not ahead when the replay began gets ahead of that clock, behind which  *)
(* no further alert comes.                                                 *)
LiveTypes ==
    /\ now \in Nat /\ simClock \in Nat /\ rows \subseteq Alerts /\ open \subseteq Clients
    /\ lastTs \in [Clients -> Nat] /\ floor \in [Clients -> Nat]
    /\ sent \in [Clients -> SUBSET Alerts] /\ pushed \in [Clients -> SUBSET Alerts]

SentWerePushed == \A c \in Clients : sent[c] \subseteq pushed[c]
RowsBehindClock == \A a \in rows : Ts[a] <= simClock
StreamsBehindClock == replay = "on" => \A c \in open \ stale : lastTs[c] <= simClock

LiveInv == LiveTypes /\ SentWerePushed /\ RowsBehindClock /\ StreamsBehindClock /\ NothingSkipped

(* A bounded set of times has a latest one.                                *)
LEMMA LatestExists ==
    ASSUME NEW S \in SUBSET Nat, S # {}, NEW n \in Nat, \A s \in S : s <= n
    PROVE  Latest(S) \in S /\ \A u \in S : u <= Latest(S)
<1> DEFINE R == {p \in Nat \X Nat : p[1] < p[2]}
           D == {k \in Nat : k <= n /\ n - k \in S}
<1>1. IsWellFoundedOn(R, Nat)
  BY NatLessThanWellFounded DEF OpToRel
<1>2. PICK s \in S : TRUE
  OBVIOUS
<1>3. n - s \in D
  <2>1. s \in Nat /\ s <= n
    BY <1>2
  <2>2. n - s \in Nat /\ n - s <= n /\ n - (n - s) = s
    BY <2>1
  <2> QED
    BY <1>2, <2>2
<1>4. D # {} /\ D \subseteq Nat
  BY <1>3
<1> HIDE DEF R
<1>5. PICK m \in D : \A k \in D : ~(<<k, m>> \in R)
  <2> HIDE DEF D
  <2> QED
    BY <1>1, <1>4, WFMin
<1>6. n - m \in S /\ m \in Nat
  BY <1>5
<1>7. ASSUME NEW u \in S PROVE u <= n - m
  <2>1. u \in Nat /\ u <= n
    OBVIOUS
  <2>2. n - u \in Nat /\ n - u <= n /\ n - (n - u) = u
    BY <2>1
  <2>3. n - u \in D
    BY <2>2
  <2>4. ~(n - u < m)
    BY <1>5, <1>6, <2>2, <2>3 DEF R
  <2> QED
    BY <1>6, <2>1, <2>2, <2>4
<1> HIDE DEF D
<1>8. \E t \in S : \A u \in S : u <= t
  BY <1>6, <1>7
<1> QED
  BY <1>8 DEF Latest

LEMMA LiveInitInv == Init => LiveInv
<1> SUFFICES ASSUME Init PROVE LiveInv
  OBVIOUS
<1>1. LiveTypes
  BY DEF Init, LiveTypes
<1>2. SentWerePushed /\ RowsBehindClock /\ StreamsBehindClock /\ NothingSkipped
  BY DEF Init, SentWerePushed, RowsBehindClock, StreamsBehindClock, NothingSkipped
<1> QED
  BY <1>1, <1>2 DEF LiveInv

(* One turn of a stream while a replay runs (server.py 317-332).           *)
LEMMA PushInv == \A c \in Clients : LiveInv /\ Push(c) => LiveInv'
<1> SUFFICES ASSUME NEW c \in Clients, LiveInv, Push(c) PROVE LiveInv'
  OBVIOUS
<1>0. LiveTypes /\ SentWerePushed /\ RowsBehindClock /\ StreamsBehindClock /\ NothingSkipped
  BY DEF LiveInv
<1>1. PICK b \in TurnBatch(c) :
        /\ b # {}
        /\ pushed' = [pushed EXCEPT ![c] = @ \cup b]
        /\ lastTs' = [lastTs EXCEPT ![c] = Latest({Ts[a] : a \in b} \cup {lastTs[c]})]
        /\ \E ids \in Pruned(sent[c] \cup b) : sent' = [sent EXCEPT ![c] = ids]
  BY DEF Push
<1>2. PICK ids \in Pruned(sent[c] \cup b) : sent' = [sent EXCEPT ![c] = ids]
  BY <1>1
<1>3. ids \subseteq sent[c] \cup b
  BY DEF Pruned
<1>4. /\ b \subseteq Unsent(c) /\ b \subseteq rows
      /\ \A a \in b, x \in Unsent(c) \ b : Ts[a] <= Ts[x]
  BY DEF TurnBatch, Unsent
<1>5. UNCHANGED <<now, replay, simClock, rows, open, floor, stale>>
  BY DEF Push, replayVars
<1> DEFINE T == {Ts[a] : a \in b} \cup {lastTs[c]}
           L == Latest(T)
<1>6. /\ lastTs[c] \in Nat /\ simClock \in Nat /\ rows \subseteq Alerts
      /\ \A a \in Alerts : Ts[a] \in Nat
  BY <1>0, StreamAssumption DEF LiveTypes
<1>7. T \in SUBSET Nat /\ T # {} /\ \A t \in T : t <= simClock + lastTs[c]
  <2>1. \A a \in b : Ts[a] \in Nat /\ Ts[a] <= simClock
    BY <1>0, <1>4, <1>6 DEF RowsBehindClock
  <2> QED
    BY <1>6, <2>1
<1>8. L \in T /\ L \in Nat /\ \A t \in T : t <= L
  <2>1. simClock + lastTs[c] \in Nat
    BY <1>6
  <2> HIDE DEF T
  <2> QED
    BY <1>7, <2>1, LatestExists
<1>9. lastTs' = [lastTs EXCEPT ![c] = L]
  BY <1>1
<1> HIDE DEF L
<1>10. LiveTypes'
  BY <1>0, <1>1, <1>2, <1>3, <1>4, <1>5, <1>8, <1>9 DEF LiveTypes
<1>11. SentWerePushed'
  BY <1>0, <1>1, <1>2, <1>3 DEF SentWerePushed, LiveTypes
<1>12. RowsBehindClock'
  BY <1>0, <1>5 DEF RowsBehindClock
<1>13. StreamsBehindClock'
  <2> SUFFICES ASSUME replay = "on", NEW d \in open \ stale PROVE lastTs'[d] <= simClock
    BY <1>5 DEF StreamsBehindClock
  <2>1. lastTs[d] <= simClock /\ d \in Clients
    BY <1>0 DEF StreamsBehindClock, LiveTypes
  <2>2. CASE d = c
    <3>1. L = lastTs[c] \/ \E a \in b : L = Ts[a]
      BY <1>8
    <3>2. L <= simClock
      BY <1>0, <1>4, <2>1, <2>2, <3>1 DEF RowsBehindClock
    <3> QED
      BY <1>0, <1>9, <2>2, <3>2 DEF LiveTypes
  <2>3. CASE d # c
    BY <1>0, <1>9, <2>1, <2>3 DEF LiveTypes
  <2> QED
    BY <2>2, <2>3
<1>14. NothingSkipped'
  <2> SUFFICES ASSUME NEW d \in open \ stale, NEW a \in rows, Ts[a] >= floor[d]
               PROVE  a \in pushed'[d] \/ Ts[a] >= lastTs'[d]
    BY <1>5 DEF NothingSkipped, Reached
  <2>1. (a \in pushed[d] \/ Ts[a] >= lastTs[d]) /\ d \in Clients
    BY <1>0 DEF NothingSkipped, Reached, LiveTypes
  <2>2. CASE d # c
    BY <1>0, <1>1, <1>9, <2>1, <2>2 DEF LiveTypes
  <2>3. CASE d = c
    <3>1. pushed'[c] = pushed[c] \cup b /\ lastTs'[c] = L
      BY <1>0, <1>1, <1>9 DEF LiveTypes
    <3>2. CASE a \in pushed[c] \/ a \in b \/ a \in sent[c]
      BY <1>0, <2>3, <3>1, <3>2 DEF SentWerePushed
    <3>3. CASE a \notin pushed[c] /\ a \notin b /\ a \notin sent[c]
      <4>1. a \in Unsent(c) \ b /\ Ts[a] >= lastTs[c]
        BY <2>1, <2>3, <3>3 DEF Unsent
      <4>2. \A t \in T : Ts[a] >= t
        BY <1>4, <1>6, <4>1
      <4> QED
        BY <1>8, <2>3, <3>1, <4>2
    <3> QED
      BY <3>2, <3>3
  <2> QED
    BY <2>2, <2>3
<1> QED
  BY <1>10, <1>11, <1>12, <1>13, <1>14 DEF LiveInv

LEMMA LiveStepInv == LiveInv /\ [LiveNext(Clients)]_vars => LiveInv'
<1> SUFFICES ASSUME LiveInv, [LiveNext(Clients)]_vars PROVE LiveInv'
  OBVIOUS
<1>0. LiveTypes /\ SentWerePushed /\ RowsBehindClock /\ StreamsBehindClock /\ NothingSkipped
  BY DEF LiveInv
<1>1. ASSUME UNCHANGED <<simClock, rows, streamVars, stale>>, now' \in Nat,
             replay' = "on" => replay = "on"
      PROVE  LiveInv'
  BY <1>0, <1>1 DEF streamVars, LiveInv, LiveTypes, SentWerePushed, RowsBehindClock,
                    StreamsBehindClock, NothingSkipped, Reached
<1>2. CASE UNCHANGED vars
  BY <1>0, <1>1, <1>2 DEF vars, replayVars, LiveTypes
<1>3. CASE StartReplay
  BY <1>0, <1>1, <1>3 DEF StartReplay, LiveTypes
<1>4. CASE EndReplay
  BY <1>0, <1>1, <1>4 DEF EndReplay, LiveTypes
<1>5. CASE Tick
  BY <1>0, <1>1, <1>5 DEF Tick, LiveTypes, replayVars
<1>6. CASE ClearTable
  <2>1. /\ rows' = {} /\ simClock' = now /\ now' = now /\ stale' = {c \in open : lastTs[c] > now}
        /\ UNCHANGED <<open, lastTs, sent, pushed, floor>>
    BY <1>6 DEF ClearTable, streamVars
  <2>2. StreamsBehindClock'
    BY <1>0, <2>1 DEF StreamsBehindClock, LiveTypes
  <2> QED
    BY <1>0, <2>1, <2>2 DEF LiveInv, LiveTypes, SentWerePushed, RowsBehindClock,
                            NothingSkipped, Reached
<1>7. ASSUME NEW a \in Alerts, Commit(a) PROVE LiveInv'
  <2>1. /\ replay = "on" /\ Ts[a] >= simClock /\ rows' = rows \cup {a} /\ simClock' = Ts[a]
        /\ UNCHANGED <<now, replay, open, lastTs, sent, pushed, floor, stale>>
    BY <1>7 DEF Commit, streamVars
  <2>2. Ts[a] \in Nat /\ simClock \in Nat /\ \A x \in rows : Ts[x] \in Nat
    BY <1>0, StreamAssumption DEF LiveTypes
  <2>3. \A c \in open \ stale : lastTs[c] \in Nat /\ lastTs[c] <= simClock
    BY <1>0, <2>1 DEF StreamsBehindClock, LiveTypes
  <2>4. LiveTypes' /\ SentWerePushed'
    BY <1>0, <2>1, <2>2 DEF LiveTypes, SentWerePushed
  <2>5. RowsBehindClock' /\ StreamsBehindClock'
    BY <1>0, <2>1, <2>2, <2>3 DEF RowsBehindClock, StreamsBehindClock
  <2>6. NothingSkipped'
    BY <1>0, <2>1, <2>2, <2>3 DEF NothingSkipped, Reached
  <2> QED
    BY <2>4, <2>5, <2>6 DEF LiveInv
<1>8. ASSUME NEW c \in Clients, Connect(c) PROVE LiveInv'
  <2>1. /\ open' = open \cup {c} /\ stale' = stale \ {c}
        /\ lastTs' = [lastTs EXCEPT ![c] = 0] /\ floor' = [floor EXCEPT ![c] = 0]
        /\ sent' = [sent EXCEPT ![c] = {}] /\ pushed' = [pushed EXCEPT ![c] = {}]
        /\ UNCHANGED <<now, replay, simClock, rows>>
    BY <1>8 DEF Connect, replayVars
  <2>2. LiveTypes' /\ SentWerePushed' /\ RowsBehindClock'
    BY <1>0, <2>1 DEF LiveTypes, SentWerePushed, RowsBehindClock
  <2>3. StreamsBehindClock'
    BY <1>0, <2>1 DEF StreamsBehindClock, LiveTypes
  <2>4. NothingSkipped'
    <3>1. \A a \in rows : Ts[a] >= 0
      BY <1>0, StreamAssumption DEF LiveTypes
    <3> QED
      BY <1>0, <2>1, <3>1 DEF NothingSkipped, Reached, LiveTypes
  <2> QED
    BY <2>2, <2>3, <2>4 DEF LiveInv
<1>9. ASSUME NEW c \in Clients, Disconnect(c) PROVE LiveInv'
  BY <1>0, <1>9 DEF Disconnect, replayVars, LiveInv, LiveTypes, SentWerePushed,
                    RowsBehindClock, StreamsBehindClock, NothingSkipped, Reached
<1>10. ASSUME NEW c \in Clients, Idle(c) PROVE LiveInv'
  <2>1. /\ replay = "off" /\ lastTs' = [lastTs EXCEPT ![c] = now]
        /\ floor' = [floor EXCEPT ![c] = now]
        /\ UNCHANGED <<now, replay, simClock, rows, open, sent, pushed, stale>>
    BY <1>10 DEF Idle, replayVars
  <2>2. LiveTypes' /\ SentWerePushed' /\ RowsBehindClock' /\ StreamsBehindClock'
    BY <1>0, <2>1 DEF LiveTypes, SentWerePushed, RowsBehindClock, StreamsBehindClock
  <2>3. NothingSkipped'
    BY <1>0, <2>1 DEF NothingSkipped, Reached, LiveTypes
  <2> QED
    BY <2>2, <2>3 DEF LiveInv
<1> QED
  BY <1>2, <1>3, <1>4, <1>5, <1>6, <1>7, <1>8, <1>9, <1>10, PushInv DEF LiveNext

-----------------------------------------------------------------------------
(* The replay of a dataset.  The thread's records, and what it holds of    *)
(* each: stamp is what the code has, loaded what the files had.            *)
FeedTypes ==
    /\ schedule \in Seq(DOMAIN loaded) /\ pos \in 1..(Len(schedule) + 1)
    /\ stamp \in [DOMAIN loaded -> Int] /\ loaded \in [DOMAIN loaded -> Int]
    /\ refTs \in Int /\ wall0 \in Int /\ now \in Nat

NoneRepeats == \A i, j \in 1..Len(schedule) : schedule[i] = schedule[j] => i = j
Offset(j) == loaded[schedule[j]] - loaded[schedule[1]]

(* PassesKeepSpacing speaks of the records replayed in this pass.  It is   *)
(* kept because the others still lie as far apart as in the files, counted *)
(* from the reference: where the pass before, or the files, put them.      *)
StampsInOrder ==
    NoneRepeats /\ dsPhase = "on" =>
        \A j \in 1..Len(schedule) :
            stamp[schedule[j]] = (IF j < pos THEN wall0 ELSE refTs) + Offset(j)

FeedInv == FeedTypes /\ StampsInOrder

LEMMA FeedInvImplies == FeedInv => PassesKeepSpacing
<1> SUFFICES ASSUME FeedInv, NoneRepeats, dsPhase = "on", NEW i \in 1..(pos - 1)
             PROVE  stamp[schedule[i]] = wall0 + loaded[schedule[i]] - loaded[schedule[1]]
  BY DEF PassesKeepSpacing, RemapsToWallClock, NoneRepeats
<1>1. FeedTypes /\ StampsInOrder
  BY DEF FeedInv
<1>2. i \in 1..Len(schedule) /\ 1 \in 1..Len(schedule) /\ i < pos /\ wall0 \in Int
  BY <1>1 DEF FeedTypes
<1>3. loaded[schedule[i]] \in Int /\ loaded[schedule[1]] \in Int
  BY <1>1, <1>2 DEF FeedTypes
<1> QED
  BY <1>1, <1>2, <1>3 DEF StampsInOrder, Offset

(* Facts about what is replayed: the filter gives whole numbers, so that   *)
(* a schedule is a sequence.                                               *)
LEMMA RecordsFinite ==
    /\ Len(Family) \in Nat \ {0} /\ IsFiniteSet(DOMAIN Family)
    /\ \A f : IsFiniteSet(Pool(f)) /\ Cardinality(Pool(f)) \in Nat
    /\ \A f : Pool(f) # {} => Cardinality(Pool(f)) > 0
<1>1. Len(Family) \in Nat \ {0} /\ DOMAIN Family = 1..Len(Family)
  BY FeedAssumption
<1>2. IsFiniteSet(DOMAIN Family)
  BY <1>1, FS_Interval
<1>3. ASSUME NEW f PROVE IsFiniteSet(Pool(f))
  BY <1>2, FS_Subset DEF Pool
<1> QED
  BY <1>1, <1>2, <1>3, FS_CardinalityType, FS_EmptySet

LEMMA FamiliesFinite ==
    ASSUME NEW S, S \subseteq {Family[r] : r \in DOMAIN Family}
    PROVE  /\ IsFiniteSet(S) /\ Cardinality(S) \in Nat
           /\ S # {} => Cardinality(S) > 0
<1> DEFINE all == {Family[r] : r \in DOMAIN Family}
           g == [r \in DOMAIN Family |-> Family[r]]
<1>1. g \in Surjection(DOMAIN Family, all)
  BY DEF Surjection
<1>2. IsFiniteSet(all)
  BY <1>1, RecordsFinite, FS_Surjection
<1>3. IsFiniteSet(S)
  BY <1>2, FS_Subset
<1> QED
  BY <1>3, FS_CardinalityType, FS_EmptySet

LEMMA RepeatedFinite ==
    ASSUME NEW S, IsFiniteSet(S), NEW n \in [S -> Int]
    PROVE  IsFiniteSet(Repeated(n)) /\ Cardinality(Repeated(n)) \in Nat
<1> DEFINE blocks == {{x} \X (1..n[x]) : x \in S}
           g == [x \in S |-> {x} \X (1..n[x])]
<1>1. g \in Surjection(S, blocks)
  BY DEF Surjection
<1>2. IsFiniteSet(blocks)
  BY <1>1, FS_Surjection
<1>3. ASSUME NEW T \in blocks PROVE IsFiniteSet(T)
  <2>1. PICK x \in S : T = {x} \X (1..n[x])
    OBVIOUS
  <2>2. n[x] \in Int /\ 1 \in Int
    OBVIOUS
  <2>3. IsFiniteSet(1..n[x])
    BY <2>2, FS_Interval
  <2>4. IsFiniteSet({x})
    BY FS_Singleton
  <2> QED
    BY <2>1, <2>3, <2>4, FS_Product
<1>4. IsFiniteSet(UNION blocks)
  BY <1>2, <1>3, FS_UNION
<1>5. Repeated(n) = UNION blocks
  BY DEF Repeated
<1> QED
  BY <1>4, <1>5, FS_CardinalityType

LEMMA SharesAreInt ==
    ASSUME NEW sc \in Scenarios, NEW f \in DOMAIN sc PROVE Share(sc, f) \in Int
<1>1. Len(Family) \in Nat /\ sc[f] \in Nat
  BY RecordsFinite, FeedAssumption
<1>2. Len(Family) * sc[f] \in Int
  BY <1>1
<1> HIDE <1>1
<1> QED
  BY <1>2 DEF Share

LEMMA CopiesAreInt ==
    ASSUME NEW sc \in Scenarios, NEW r \in DOMAIN Family PROVE Copies(sc, r) \in Int
<1> DEFINE f == Family[r]
           m == Cardinality(Pool(f))
           t == Target(sc, f)
<1>1. m \in Nat /\ m > 0
  <2>1. r \in Pool(f)
    BY DEF Pool
  <2> QED
    BY <2>1, RecordsFinite
<1>2. t \in Int
  <2>1. CASE f \in DOMAIN sc
    BY <2>1, SharesAreInt DEF Target
  <2>2. CASE f \notin DOMAIN sc
    <3>1. Residual(sc) \in Int
      <4> DEFINE n == [x \in Listed(sc) |-> Share(sc, x)]
      <4>1. Listed(sc) \subseteq {Family[q] : q \in DOMAIN Family}
        BY DEF Listed, Pool
      <4>2. n \in [Listed(sc) -> Int]
        BY SharesAreInt DEF Listed
      <4>3. Cardinality(Repeated(n)) \in Nat
        BY <4>1, <4>2, FamiliesFinite, RepeatedFinite
      <4> HIDE DEF n
      <4> QED
        BY <4>3, RecordsFinite DEF Residual, n
    <3>2. Unlisted(sc) # {} /\ Unlisted(sc) \subseteq {Family[q] : q \in DOMAIN Family}
      BY <2>2 DEF Unlisted
    <3>3. Cardinality(Unlisted(sc)) \in Nat /\ Cardinality(Unlisted(sc)) > 0
      BY <3>2, FamiliesFinite
    <3>4. t = Residual(sc) \div Cardinality(Unlisted(sc))
      BY <2>2 DEF Target
    <3> QED
      BY <3>1, <3>3, <3>4
  <2> QED
    BY <2>1, <2>2
<1>3. t \div m \in Int
  BY <1>1, <1>2
<1> HIDE DEF t, m
<1>4. Copies(sc, r) = t \div m \/ Copies(sc, r) = t \div m + 1
  <2>1. \E b : Copies(sc, r) = t \div m + (IF b THEN 1 ELSE 0)
    BY DEF Copies, t, m
  <2> QED
    BY <1>3, <2>1
<1> QED
  BY <1>3, <1>4

LEMMA SchedulesAreSequences ==
    ASSUME NEW S, IsFiniteSet(S), NEW times \in [S -> Int], NEW ts, NEW shuffled,
           NEW s \in Schedules(ts, times, shuffled)
    PROVE  s \in Seq(S)
<1> DEFINE total == Cardinality(Repeated(times))
<1>1. total \in Nat
  BY RepeatedFinite
<1>2. s \in [1..total -> S]
  BY DEF Schedules
<1> HIDE DEF total
<1> QED
  BY <1>1, <1>2

LEMMA FeedInitInv == Init /\ FeedInit => FeedInv
<1> SUFFICES ASSUME Init, FeedInit PROVE FeedInv
  OBVIOUS
<1>1. FeedTypes
  BY DEF Init, FeedInit, FeedTypes
<1> QED
  BY <1>1 DEF FeedInit, FeedInv, StampsInOrder

(* The loop begins: the reference is the first record's own timestamp.     *)
LEMMA BeginsInv ==
    ASSUME FeedInv, NEW S, IsFiniteSet(S), NEW ts \in [S -> Int], NEW times \in [S -> Int],
           NEW fam, NEW shuffled, Begins(ts, fam, Schedules(ts, times, shuffled))
    PROVE  FeedInv'
<1>1. PICK s \in Schedules(ts, times, shuffled) :
        schedule' = s /\ refTs' = IF s = <<>> THEN now ELSE ts[s[1]]
  BY DEF Begins
<1>2. /\ now' = now + 1 /\ stamp' = ts /\ loaded' = ts /\ pos' = 1 /\ wall0' = now + 1
      /\ now \in Nat
  BY DEF Begins, FeedInv, FeedTypes
<1>3. s \in Seq(S) /\ DOMAIN ts = S
  BY SchedulesAreSequences
<1>4. \A j \in 1..Len(s) : s[j] \in S /\ ts[s[j]] \in Int /\ s # <<>> /\ 1 \in 1..Len(s)
  BY <1>3
<1>5. refTs' \in Int
  <2>1. CASE s = <<>>
    BY <1>1, <1>2, <2>1
  <2>2. CASE s # <<>>
    <3>1. 1 \in 1..Len(s)
      BY <1>3, <2>2
    <3> QED
      BY <1>1, <1>4, <2>2, <3>1
  <2> QED
    BY <2>1, <2>2
<1>6. FeedTypes'
  BY <1>1, <1>2, <1>3, <1>5 DEF FeedTypes
<1>7. StampsInOrder'
  <2> SUFFICES ASSUME NEW j \in 1..Len(s) PROVE ts[s[j]] = refTs' + (ts[s[j]] - ts[s[1]])
    BY <1>1, <1>2 DEF StampsInOrder, Offset
  <2>1. refTs' = ts[s[1]] /\ ts[s[1]] \in Int /\ ts[s[j]] \in Int
    BY <1>1, <1>4
  <2> QED
    BY <2>1
<1> QED
  BY <1>6, <1>7 DEF FeedInv

LEMMA LoadRecordsInv == FeedInv /\ LoadRecords => FeedInv'
<1> SUFFICES ASSUME FeedInv, LoadRecords PROVE FeedInv'
  OBVIOUS
<1>1. PICK ts \in Captures, sc \in Scenarios :
        Begins(ts, Family, Schedules(ts, FilterByScenario(sc), PicksAny(sc)))
  BY DEF LoadRecords
<1>2. ts \in [DOMAIN Family -> Int]
  BY FeedAssumption
<1>3. FilterByScenario(sc) \in [DOMAIN Family -> Int]
  BY CopiesAreInt DEF FilterByScenario
<1> QED
  BY <1>1, <1>2, <1>3, RecordsFinite, BeginsInv

LEMMA LoadFallbackInv == FeedInv /\ LoadFallback => FeedInv'
<1> SUFFICES ASSUME FeedInv, LoadFallback PROVE FeedInv'
  OBVIOUS
<1>1. PICK sc \in Scenarios :
        LET recs == Synthesized(sc)
            ts   == [r \in recs |-> now + r[2] - 1]
        IN Begins(ts, [r \in recs |-> r[1]], Schedules(ts, [r \in recs |-> 1], TRUE))
  BY DEF LoadFallback
<1> DEFINE recs == Synthesized(sc)
           ts == [r \in recs |-> now + r[2] - 1]
           times == [r \in recs |-> 1]
           many == [f \in DOMAIN sc |-> IF FallbackCount * sc[f] < 100 THEN 1
                                        ELSE (FallbackCount * sc[f]) \div 100]
<1>2. many \in [DOMAIN sc -> Int]
  <2>1. ASSUME NEW f \in DOMAIN sc PROVE FallbackCount * sc[f] \in Int
    <3>1. FallbackCount \in Nat /\ sc[f] \in Nat
      BY FeedAssumption
    <3>2. \A a, b \in Nat : a * b \in Int
      OBVIOUS
    <3> QED
      BY <3>1, <3>2
  <2>2. \A x \in Int : x \div 100 \in Int
    OBVIOUS
  <2> QED
    BY <2>1, <2>2
<1>3. IsFiniteSet(recs)
  <2>1. IsFiniteSet(DOMAIN sc)
    BY FeedAssumption
  <2>2. recs = Repeated(many)
    BY DEF Synthesized
  <2> HIDE DEF many, recs
  <2> QED
    BY <1>2, <2>1, <2>2, RepeatedFinite
<1>4. ts \in [recs -> Int]
  <2>1. ASSUME NEW r \in recs PROVE r[2] \in Int
    <3>1. recs = UNION {{x} \X (1..many[x]) : x \in DOMAIN many}
      BY DEF Synthesized, Repeated
    <3> HIDE DEF recs, many
    <3>2. PICK x \in DOMAIN many : r \in {x} \X (1..many[x])
      BY <3>1
    <3>3. r[2] \in 1..many[x]
      BY <3>2
    <3> QED
      BY <3>3
  <2>2. now \in Int
    BY DEF FeedInv, FeedTypes
  <2> HIDE DEF recs
  <2> QED
    BY <2>1, <2>2
<1>5. times \in [recs -> Int]
  <2> HIDE DEF recs
  <2> QED
    OBVIOUS
<1>6. Begins(ts, [r \in recs |-> r[1]], Schedules(ts, times, TRUE))
  BY <1>1
<1> HIDE DEF recs, ts, times
<1> QED
  BY <1>3, <1>4, <1>5, <1>6, BeginsInv

(* A record is replayed in its place: as no other turn of the pass has the *)
(* same one, it still had the timestamp the reference belongs to.          *)
LEMMA EmitRecordInv == FeedInv /\ EmitRecord => FeedInv'
<1> SUFFICES ASSUME FeedInv, EmitRecord PROVE FeedInv'
  OBVIOUS
<1> DEFINE r == schedule[pos]
           at == wall0 + stamp[r] - refTs
<1>0. FeedTypes /\ StampsInOrder
  BY DEF FeedInv
<1>1. /\ dsPhase = "on" /\ pos <= Len(schedule) /\ pos' = pos + 1
      /\ stamp' = [stamp EXCEPT ![r] = at]
      /\ UNCHANGED <<now, dsPhase, schedule, refTs, wall0, loaded>>
  BY DEF EmitRecord
<1>2. /\ schedule \in Seq(DOMAIN loaded) /\ pos \in 1..Len(schedule) /\ Len(schedule) \in Nat
      /\ stamp \in [DOMAIN loaded -> Int] /\ wall0 \in Int /\ refTs \in Int
  BY <1>0, <1>1 DEF FeedTypes
<1>3. r \in DOMAIN loaded /\ stamp[r] \in Int /\ at \in Int
  BY <1>2
<1>4. FeedTypes'
  <2>1. stamp' \in [DOMAIN loaded -> Int]
    BY <1>1, <1>2, <1>3
  <2>2. pos' \in 1..(Len(schedule) + 1)
    BY <1>1, <1>2
  <2> QED
    BY <1>0, <1>1, <2>1, <2>2 DEF FeedTypes
<1>5. StampsInOrder'
  <2> SUFFICES ASSUME NoneRepeats, NEW j \in 1..Len(schedule)
               PROVE  stamp'[schedule[j]] = (IF j < pos + 1 THEN wall0 ELSE refTs) + Offset(j)
    BY <1>1 DEF StampsInOrder, NoneRepeats, Offset
  <2>1. Offset(j) \in Int
    <3>1. loaded[schedule[j]] \in Int /\ loaded[schedule[1]] \in Int
      BY <1>0, <1>2 DEF FeedTypes
    <3> QED
      BY <3>1 DEF Offset
  <2>2. stamp[schedule[j]] = (IF j < pos THEN wall0 ELSE refTs) + Offset(j)
    BY <1>0, <1>1 DEF StampsInOrder
  <2>3. CASE j = pos
    <3>1. stamp[r] = refTs + Offset(j)
      BY <1>2, <2>2, <2>3
    <3>2. at = wall0 + Offset(j)
      BY <1>2, <2>1, <3>1
    <3>3. stamp'[schedule[j]] = at
      BY <1>1, <1>2, <1>3, <2>3
    <3> QED
      BY <1>2, <2>3, <3>2, <3>3
  <2>4. CASE j # pos
    <3>1. schedule[j] # r
      BY <1>2, <2>4 DEF NoneRepeats
    <3>2. stamp'[schedule[j]] = stamp[schedule[j]]
      BY <1>1, <1>2, <3>1
    <3>3. j < pos + 1 <=> j < pos
      BY <1>2, <2>4
    <3> QED
      BY <2>2, <3>2, <3>3
  <2> QED
    BY <2>3, <2>4
<1> QED
  BY <1>4, <1>5 DEF FeedInv

(* All are where this pass put them, and the next takes its reference from *)
(* there.                                                                  *)
LEMMA NextPassInv == FeedInv /\ NextPass => FeedInv'
<1> SUFFICES ASSUME FeedInv, NextPass PROVE FeedInv'
  OBVIOUS
<1>0. FeedTypes /\ StampsInOrder
  BY DEF FeedInv
<1>1. /\ dsPhase = "on" /\ schedule # <<>> /\ pos > Len(schedule)
      /\ now' = now + 1 /\ wall0' = now + 1 /\ refTs' = stamp[schedule[1]] /\ pos' = 1
      /\ UNCHANGED <<dsPhase, schedule, stamp, loaded>>
  BY DEF NextPass, Reference
<1>2. /\ 1 \in 1..Len(schedule) /\ Len(schedule) \in Nat /\ pos \in Nat
      /\ \A j \in 1..Len(schedule) : j < pos /\ ~(j < 1)
  BY <1>0, <1>1 DEF FeedTypes
<1>3. stamp[schedule[1]] \in Int /\ now \in Nat /\ wall0 \in Int
  BY <1>0, <1>2 DEF FeedTypes
<1>4. FeedTypes'
  BY <1>0, <1>1, <1>3 DEF FeedTypes
<1>5. StampsInOrder'
  <2> SUFFICES ASSUME NoneRepeats, NEW j \in 1..Len(schedule)
               PROVE  stamp[schedule[j]] = stamp[schedule[1]] + Offset(j)
    BY <1>1, <1>2 DEF StampsInOrder, NoneRepeats, Offset
  <2>1. stamp[schedule[j]] = wall0 + Offset(j) /\ stamp[schedule[1]] = wall0 + Offset(1)
    BY <1>0, <1>1, <1>2 DEF StampsInOrder
  <2>2. Offset(1) = 0
    <3>1. loaded[schedule[1]] \in Int
      BY <1>0, <1>2 DEF FeedTypes
    <3> QED
      BY <3>1 DEF Offset
  <2> QED
    BY <1>3, <2>1, <2>2
<1> QED
  BY <1>4, <1>5 DEF FeedInv

(* What leaves the loop's records alone.                                   *)
LEMMA OtherFeedInv ==
    ASSUME FeedInv, UNCHANGED threadVars, now' \in Nat, dsPhase' = "on" => dsPhase = "on"
    PROVE  FeedInv'
<1>1. UNCHANGED <<schedule, pos, stamp, refTs, wall0, loaded>>
  BY DEF threadVars
<1>2. FeedTypes' /\ StampsInOrder'
  BY <1>1 DEF FeedInv, FeedTypes, StampsInOrder, NoneRepeats, Offset
<1> QED
  BY <1>2 DEF FeedInv

LEMMA FeedStepInv == FeedInv /\ [FeedNext]_<<vars, feedVars>> => FeedInv'
<1> SUFFICES ASSUME FeedInv, [FeedNext]_<<vars, feedVars>> PROVE FeedInv'
  OBVIOUS
<1>0. now \in Nat /\ now + 1 \in Nat
  BY DEF FeedInv, FeedTypes
<1>1. CASE UNCHANGED <<vars, feedVars>> \/ FeedTick
  <2>1. UNCHANGED <<threadVars, dsPhase>> /\ (now' = now \/ now' = now + 1)
    BY <1>1 DEF FeedTick, vars, feedVars
  <2> QED
    BY <1>0, <2>1, OtherFeedInv
<1>2. CASE StartDataset \/ ThreadEnds
  <2>1. UNCHANGED <<threadVars, now>> /\ dsPhase' # "on"
    BY <1>2 DEF StartDataset, ThreadEnds
  <2> QED
    BY <1>0, <2>1, OtherFeedInv
<1>3. CASE StopDataset
  <2>1. /\ schedule' = <<>> /\ pos' = 1 /\ stamp' = <<>> /\ loaded' = <<>>
        /\ refTs' = 0 /\ wall0' = 0 /\ now' = now /\ dsPhase' = "off"
    BY <1>3 DEF StopDataset
  <2>2. FeedTypes'
    BY <1>0, <2>1 DEF FeedTypes
  <2> QED
    BY <2>1, <2>2 DEF FeedInv, StampsInOrder
<1>4. ASSUME NEW c \in Clients,
             \/ (Connect(c) \/ Disconnect(c) \/ Idle(c)) /\ UNCHANGED feedVars
             \/ DatasetTurn(c)
      PROVE  FeedInv'
  <2>1. UNCHANGED <<threadVars, dsPhase, now>>
    BY <1>4 DEF Connect, Disconnect, Idle, DatasetTurn, feedVars
  <2> QED
    BY <1>0, <2>1, OtherFeedInv
<1> QED
  BY <1>1, <1>2, <1>3, <1>4, LoadRecordsInv, LoadFallbackInv, EmitRecordInv, NextPassInv
  DEF FeedNext

-----------------------------------------------------------------------------
(* The queue of the kafka mode, which all streams share.                   *)
KafkaTypes ==
    /\ kafkaQueue \in Seq(Alerts) /\ sent \in [Clients -> SUBSET Alerts] /\ open \subseteq Clients

(* server.py 289-301: of the alerts that found room in the queue, those    *)
(* pushed on no stream yet still wait in it, unless a stream had one in    *)
(* hand when its link broke.  A stream that otherwise takes an alert off   *)
(* the queue without pushing it had taken it before.                       *)
KafkaLosesNothing ==
    \A a \in accepted :
        a \in reached \cup cut \/ \E i \in 1..Len(kafkaQueue) : kafkaQueue[i] = a
SentWereReached == \A c \in Clients : sent[c] \subseteq reached \cup cut

KafkaInv == KafkaTypes /\ SentWereReached /\ KafkaLosesNothing

LEMMA KafkaStepInv == KafkaInv /\ [KafkaNext]_<<vars, kafkaVars>> => KafkaInv'
<1> SUFFICES ASSUME KafkaInv, [KafkaNext]_<<vars, kafkaVars>> PROVE KafkaInv'
  OBVIOUS
<1>0. KafkaTypes /\ SentWereReached /\ KafkaLosesNothing
  BY DEF KafkaInv
<1>1. CASE UNCHANGED <<vars, kafkaVars>>
  BY <1>0, <1>1 DEF vars, streamVars, kafkaVars, KafkaInv, KafkaTypes, SentWereReached,
                    KafkaLosesNothing
<1>2. ASSUME NEW a \in Alerts, Consume(a) PROVE KafkaInv'
  <2>1. UNCHANGED <<open, sent, reached, cut>>
    BY <1>2 DEF Consume, streamVars
  <2>2. CASE UNCHANGED <<kafkaQueue, accepted>>
    BY <1>0, <2>1, <2>2 DEF KafkaInv, KafkaTypes, SentWereReached, KafkaLosesNothing
  <2>3. CASE kafkaQueue' = Append(kafkaQueue, a) /\ accepted' = accepted \cup {a}
    <3>1. kafkaQueue \in Seq(Alerts)
      BY <1>0 DEF KafkaTypes
    <3>2. /\ kafkaQueue' \in Seq(Alerts)
          /\ \A i \in 1..Len(kafkaQueue) : i \in 1..Len(kafkaQueue') /\ kafkaQueue'[i] = kafkaQueue[i]
          /\ Len(kafkaQueue) + 1 \in 1..Len(kafkaQueue') /\ kafkaQueue'[Len(kafkaQueue) + 1] = a
      BY <2>3, <3>1
    <3>3. KafkaLosesNothing'
      BY <1>0, <2>1, <2>3, <3>2 DEF KafkaLosesNothing
    <3> QED
      BY <1>0, <2>1, <3>2, <3>3 DEF KafkaInv, KafkaTypes, SentWereReached
  <2> QED
    BY <1>2, <2>2, <2>3 DEF Consume
<1>3. ASSUME NEW c \in Clients, KafkaPush(c) \/ KafkaCut(c) PROVE KafkaInv'
  <2> DEFINE a == Head(kafkaQueue)
             done == reached \cup cut
  <2>1. /\ kafkaQueue # <<>> /\ kafkaQueue' = Tail(kafkaQueue) /\ accepted' = accepted
        /\ open' \subseteq open
        /\ \/ a \in sent[c] /\ UNCHANGED <<sent, reached, cut>>
           \/ sent' = [sent EXCEPT ![c] = @ \cup {a}] /\ done' = done \cup {a}
    BY <1>3 DEF KafkaPush, KafkaCut, Taken, Seen
  <2>2. kafkaQueue \in Seq(Alerts) /\ sent \in [Clients -> SUBSET Alerts]
    BY <1>0 DEF KafkaTypes
  <2>3. /\ kafkaQueue' \in Seq(Alerts) /\ a \in Alerts /\ kafkaQueue[1] = a
        /\ \A i \in 1..Len(kafkaQueue) :
              i = 1 \/ (i - 1 \in 1..Len(kafkaQueue') /\ kafkaQueue'[i - 1] = kafkaQueue[i])
    BY <2>1, <2>2
  <2> HIDE DEF a
  <2>4. a \in done' /\ done \subseteq done'
    BY <1>0, <2>1 DEF SentWereReached
  <2>5. KafkaTypes'
    BY <1>0, <2>1, <2>2, <2>3 DEF KafkaTypes
  <2>6. SentWereReached'
    BY <1>0, <2>1, <2>2 DEF SentWereReached
  <2>7. KafkaLosesNothing'
    <3> SUFFICES ASSUME NEW x \in accepted, x \notin done'
                 PROVE  \E k \in 1..Len(kafkaQueue') : kafkaQueue'[k] = x
      BY <2>1 DEF KafkaLosesNothing
    <3>1. PICK i \in 1..Len(kafkaQueue) : kafkaQueue[i] = x
      BY <1>0, <2>4 DEF KafkaLosesNothing
    <3>2. i # 1
      BY <2>3, <2>4, <3>1
    <3> QED
      BY <2>3, <3>1, <3>2
  <2> QED
    BY <2>5, <2>6, <2>7 DEF KafkaInv
<1>4. ASSUME NEW c \in Clients, Connect(c) \/ Disconnect(c), UNCHANGED kafkaVars PROVE KafkaInv'
  BY <1>0, <1>4 DEF Connect, Disconnect, kafkaVars, KafkaInv, KafkaTypes, SentWereReached,
                    KafkaLosesNothing
<1> QED
  BY <1>1, <1>2, <1>3, <1>4 DEF KafkaNext

-----------------------------------------------------------------------------
(* The server as a whole: what only another source uses is as it was at    *)
(* the start.                                                              *)
StreamsInv ==
    /\ CacheInv
    /\ IF source = "simulated" THEN LiveInv ELSE rows = {}
    /\ IF source = "dataset" THEN FeedInv ELSE dsPhase = "off"
    /\ IF source = "kafka" THEN KafkaInv ELSE accepted = {}

LEMMA StreamsStepInv == StreamsInv /\ [StreamsNext]_streamsVars => StreamsInv'
<1> SUFFICES ASSUME StreamsInv, [StreamsNext]_streamsVars PROVE StreamsInv'
  OBVIOUS
<1>1. [CacheNext]_cacheVars /\ source' = source
  BY DEF StreamsNext, streamsVars, Simulated, Dataset, Kafka, Summary
<1>2. CacheInv'
  BY <1>1, CacheStepInv DEF StreamsInv
<1>3. ASSUME source # "simulated" PROVE rows' = rows
  <2>1. CASE UNCHANGED streamsVars
    BY <2>1 DEF streamsVars, vars, replayVars
  <2>2. CASE Dataset
    BY <2>2 DEF Dataset, FeedNext, StartDataset, LoadRecords, LoadFallback, Begins, EmitRecord,
                NextPass, ThreadEnds, StopDataset, FeedTick, Connect, Disconnect, Idle,
                DatasetTurn, replayVars
  <2>3. CASE Kafka
    BY <2>3 DEF Kafka, KafkaNext, Consume, KafkaPush, KafkaCut, Connect, Disconnect,
                replayVars
  <2>4. CASE Summary
    BY <2>4 DEF Summary, vars, replayVars
  <2> QED
    BY <1>3, <2>1, <2>2, <2>3, <2>4 DEF StreamsNext, Simulated
<1>4. source # "dataset" => dsPhase' = dsPhase
  BY DEF StreamsNext, streamsVars, Simulated, Dataset, Kafka, Summary, feedVars
<1>5. source # "kafka" => accepted' = accepted
  BY DEF StreamsNext, streamsVars, Simulated, Dataset, Kafka, Summary, kafkaVars
<1>6. ASSUME source = "simulated" PROVE LiveInv'
  <2>1. [LiveNext(Clients)]_vars
    BY <1>6, SoloAssumption DEF StreamsNext, streamsVars, Simulated, Dataset, Kafka, Summary, LiveNext
  <2> QED
    BY <1>6, <2>1, LiveStepInv DEF StreamsInv
<1>7. ASSUME source = "dataset" PROVE FeedInv'
  <2>1. [FeedNext]_<<vars, feedVars>>
    BY <1>7 DEF StreamsNext, streamsVars, Simulated, Dataset, Kafka, Summary
  <2> QED
    BY <1>7, <2>1, FeedStepInv DEF StreamsInv
<1>8. ASSUME source = "kafka" PROVE KafkaInv'
  <2>1. [KafkaNext]_<<vars, kafkaVars>>
    BY <1>8 DEF StreamsNext, streamsVars, Simulated, Dataset, Kafka, Summary
  <2> QED
    BY <1>8, <2>1, KafkaStepInv DEF StreamsInv
<1> QED
  BY <1>1, <1>2, <1>3, <1>4, <1>5, <1>6, <1>7, <1>8 DEF StreamsInv

(* The inductive invariant of the reading side: server.py 79-93 and        *)
(* 262-340, with the dataset replay thread behind it.                      *)
THEOREM StreamsInvariant == StreamsSpec => []StreamsInv
<1>1. StreamsInit => StreamsInv
  <2> SUFFICES ASSUME StreamsInit PROVE StreamsInv
    OBVIOUS
  <2>1. CacheInv /\ LiveInv /\ FeedInv
    BY CacheInitInv, LiveInitInv, FeedInitInv DEF StreamsInit
  <2>2. KafkaInv
    BY DEF StreamsInit, Init, KafkaInit, KafkaInv, KafkaTypes, SentWereReached, KafkaLosesNothing
  <2>3. rows = {} /\ dsPhase = "off" /\ accepted = {}
    BY DEF StreamsInit, Init, FeedInit, KafkaInit
  <2> QED
    BY <2>1, <2>2, <2>3 DEF StreamsInv
<1> QED
  BY <1>1, StreamsStepInv, PTL DEF StreamsSpec

(* server.py 79-93, 452, 470, 496: whatever the threads that wait for each *)
(* other's lock, no answer is older than the ttl, and none was read before *)
(* an invalidation that came before the call.                              *)
THEOREM AnswersAreCurrent == StreamsSpec => []SummaryIsCurrent
<1>1. StreamsInv => SummaryIsCurrent
  BY DEF StreamsInv, CacheInv
<1> QED
  BY <1>1, StreamsInvariant, PTL

(* server.py 317-332: a stream that was not ahead of the replay when it    *)
(* began skips no alert, whatever the batch size, the ties and the pruning *)
(* of the sent ids.                                                        *)
THEOREM StreamsSkipNothing == StreamsSpec => []NothingSkipped
<1>1. StreamsInv => NothingSkipped
  BY DEF StreamsInv, LiveInv, NothingSkipped, Reached
<1> QED
  BY <1>1, StreamsInvariant, PTL

(* dataset_replay.py 272-322: for every dataset and scenario, any number   *)
(* of passes, and however late the threads run, the timestamps overwritten *)
(* in place keep the distances of the files and start at the clock of      *)
(* their pass, as long as the scenario repeats no record.                  *)
THEOREM RestampingKeepsSpacing == StreamsSpec => []PassesKeepSpacing
<1>1. StreamsInv => PassesKeepSpacing
  <2>1. dsPhase = "off" => PassesKeepSpacing
    BY DEF PassesKeepSpacing, RemapsToWallClock
  <2> QED
    BY <2>1, FeedInvImplies DEF StreamsInv
<1> QED
  BY <1>1, StreamsInvariant, PTL

(* server.py 289-301: an alert that found room in the kafka queue is lost  *)
(* by no interleaving of the streams that drain it, duplicates included:   *)
(* it waits there, was pushed on one of them, or was in the hand of one    *)
(* whose link broke.                                                       *)
THEOREM QueuedAlertsAreKept == StreamsSpec => []KafkaLosesNothing
<1>1. StreamsInv => KafkaLosesNothing
  BY DEF StreamsInv, KafkaInv, KafkaLosesNothing
<1> QED
  BY <1>1, StreamsInvariant, PTL

=============================================================================
