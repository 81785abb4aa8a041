----------------------- MODULE InferenceWorker_proofs -----------------------
(***************************************************************************)
(* The inference worker and its ClickHouse store, for every topic, batch   *)
(* size, list of models, number of crashes and of failing INSERTs.  First  *)
(* the store by itself: types, at-least-once storage, and where duplicates *)
(* come from; all of that rests on what one _flush_locked does to the      *)
(* batch, the lemma FlushKeeps.  Then the worker: where every record and   *)
(* every anomaly is, from the topic to the table.                          *)
(***************************************************************************)
EXTENDS InferenceWorker, FiniteSetTheorems, TLAPS

(* A list with an alert more holds the old ones and that one.              *)
LEMMA AppendElems ==
    ASSUME NEW S, NEW s \in Seq(S), NEW e \in S
    PROVE  /\ Append(s, e) \in Seq(S)
           /\ Elems(Append(s, e)) = Elems(s) \cup {e}
<1>1. Append(s, e) \in Seq(S) /\ Len(Append(s, e)) = Len(s) + 1
  OBVIOUS
<1>2. \A i \in 1..Len(s) : Append(s, e)[i] = s[i]
  OBVIOUS
<1>3. Append(s, e)[Len(s) + 1] = e
  OBVIOUS
<1>4. Len(s) \in Nat
  OBVIOUS
<1>5. 1..(Len(s) + 1) = (1..Len(s)) \cup {Len(s) + 1}
  BY <1>4
<1>6. Elems(Append(s, e)) = {Append(s, e)[i] : i \in (1..Len(s)) \cup {Len(s) + 1}}
  BY <1>1, <1>5 DEF Elems
<1>7. \A x : x \in Elems(Append(s, e)) <=> x \in Elems(s) \cup {e}
  BY <1>2, <1>3, <1>6 DEF Elems
<1> QED
  BY <1>1, <1>7

(* One _flush_locked of the batch p: clickhouse_store.py 128-184.  Types   *)
(* are kept, no row is taken away, and what was in the batch is pending or *)
(* in the table; a row added to an alert either took it out of the batch   *)
(* or is an INSERT that raised after writing.                              *)
LEMMA FlushKeeps ==
    ASSUME TypeOK, NEW p \in Seq(Alerts), FlushLocked(p)
    PROVE  /\ pending' \in Seq(Alerts) /\ copies' \in [Alerts -> Nat]
           /\ faults' \in Nat /\ unsure' \in Nat /\ unsure <= unsure' /\ faults <= faults'
           /\ connected /\ faults' = 0 => pending' = <<>>
           /\ Elems(pending') \subseteq Elems(p)
           /\ \A a \in Alerts :
                /\ copies[a] <= copies'[a]
                /\ a \in Elems(p) \ Malformed => a \in Elems(pending') \/ copies'[a] > 0
                /\ \/ copies'[a] = copies[a]
                   \/ a \in Elems(p) /\ copies'[a] = copies[a] + 1
                      /\ (a \notin Elems(pending') \/ unsure' = unsure + 1)
<1> USE DEF TypeOK, Kept, AfterInsert, Inserted, Rows
<1>0. Elems(<<>>) = {} /\ <<>> \in Seq(Alerts)
  BY DEF Elems
<1>1. CASE ~connected \/ p = <<>>
  BY <1>0, <1>1 DEF FlushLocked
<1>2. CASE connected /\ p # <<>> /\ Rows(p) = {} /\ pending' = <<>> /\ UNCHANGED <<copies, faults, unsure>>
  BY <1>0, <1>2
<1>3. CASE pending' = AfterInsert(p) /\ copies' = Inserted(p) /\ UNCHANGED <<faults, unsure>>
  BY <1>0, <1>3
<1>4. CASE faults' = faults + 1 /\ pending' = Kept(p) /\ UNCHANGED <<copies, unsure>>
  BY <1>4
<1>5. CASE faults' = faults + 1 /\ pending' = Kept(p) /\ copies' = Inserted(p) /\ unsure' = unsure + 1
  BY <1>5
<1> QED
  BY <1>1, <1>2, <1>3, <1>4, <1>5 DEF FlushLocked

-----------------------------------------------------------------------------
(* The inductive invariant.  AtLeastOnce is inductive next to the types;   *)
(* the bound on copies is not: it also takes that an alert which waits in  *)
(* the batch has only rows of INSERTs that raised after writing, and that  *)
(* one never appended has none.                                            *)
PendingNotStored == \A a \in Alerts : a \in Elems(pending) => copies[a] <= unsure
OnlyAppended == \A a \in Alerts \ appended : a \notin Elems(pending) /\ copies[a] = 0

StoreInv == TypeOK /\ AtLeastOnce /\ PendingNotStored /\ OnlyAppended /\ DuplicatesNeedFailure

(* A flush of the batch p, which holds what was pending and perhaps one    *)
(* alert that is being appended, keeps the invariant.                      *)
LEMMA FlushInv ==
    ASSUME StoreInv, NEW p \in Seq(Alerts), FlushLocked(p),
           appended \subseteq appended', appended' \subseteq Alerts,
           Elems(pending) \subseteq Elems(p),
           Elems(p) \subseteq appended',
           appended' \subseteq appended \cup Elems(p),
           \A a \in Elems(p) : copies[a] <= unsure,
           connected' \in BOOLEAN, stop' \in BOOLEAN,
           writer' \in {"check", "sleep", "done"},
           closer' \in {"open", "joining", "flush", "closed"}
    PROVE  StoreInv'
<1> USE DEF StoreInv
<1>1. /\ pending' \in Seq(Alerts) /\ copies' \in [Alerts -> Nat]
      /\ faults' \in Nat /\ unsure' \in Nat /\ unsure <= unsure'
      /\ Elems(pending') \subseteq Elems(p)
      /\ \A a \in Alerts :
           /\ copies[a] <= copies'[a]
           /\ a \in Elems(p) \ Malformed => a \in Elems(pending') \/ copies'[a] > 0
           /\ \/ copies'[a] = copies[a]
              \/ a \in Elems(p) /\ copies'[a] = copies[a] + 1
                 /\ (a \notin Elems(pending') \/ unsure' = unsure + 1)
  BY FlushKeeps
<1>2. copies \in [Alerts -> Nat] /\ unsure \in Nat /\ appended \subseteq Alerts
  BY DEF TypeOK
<1>3. TypeOK'
  BY <1>1 DEF TypeOK
<1>4. AtLeastOnce'
  <2> SUFFICES ASSUME NEW a \in appended' \ Malformed
               PROVE  a \in Elems(pending') \/ copies'[a] > 0
    BY DEF AtLeastOnce, Elems
  <2>1. CASE a \in Elems(p)
    BY <1>1, <2>1
  <2>2. CASE a \notin Elems(p)
    <3>1. a \in appended /\ a \notin Elems(pending)
      BY <2>2
    <3>2. copies[a] > 0
      BY <3>1 DEF AtLeastOnce
    <3> QED
      BY <1>1, <1>2, <3>2
  <2> QED
    BY <2>1, <2>2
<1>5. PendingNotStored'
  <2> SUFFICES ASSUME NEW a \in Alerts, a \in Elems(pending')
               PROVE  copies'[a] <= unsure'
    BY DEF PendingNotStored, Elems
  <2>1. copies[a] <= unsure
    BY <1>1
  <2> QED
    BY <1>1, <1>2, <2>1
<1>6. OnlyAppended'
  <2> SUFFICES ASSUME NEW a \in Alerts \ appended'
               PROVE  a \notin Elems(pending') /\ copies'[a] = 0
    BY DEF OnlyAppended, Elems
  <2>1. a \notin Elems(p) /\ copies[a] = 0
    BY DEF OnlyAppended
  <2> QED
    BY <1>1, <2>1
<1>7. DuplicatesNeedFailure'
  <2> SUFFICES ASSUME NEW a \in Alerts
               PROVE  copies'[a] <= 1 + unsure'
    BY DEF DuplicatesNeedFailure
  <2>1. /\ copies[a] \in Nat /\ copies[a] <= 1 + unsure
        /\ a \in Elems(p) => copies[a] <= unsure
    BY <1>2 DEF DuplicatesNeedFailure
  <2>2. copies'[a] = copies[a] \/ (a \in Elems(p) /\ copies'[a] = copies[a] + 1)
    BY <1>1
  <2> QED
    BY <1>1, <1>2, <2>1, <2>2
<1> QED
  BY <1>3, <1>4, <1>5, <1>6, <1>7

(* The constructor establishes the invariant ...                           *)
LEMMA StoreInvInit == Init => StoreInv
<1> SUFFICES ASSUME Init PROVE StoreInv
  OBVIOUS
<1>1. pending \in Seq(Alerts) /\ Elems(pending) = {}
  BY DEF Init, Elems
<1>2. copies \in [Alerts -> Nat] /\ \A a \in Alerts : copies[a] = 0 /\ copies[a] <= 1 + unsure
  BY DEF Init
<1> QED
  BY <1>1, <1>2 DEF Init, StoreInv, TypeOK, AtLeastOnce, PendingNotStored,
                    OnlyAppended, DuplicatesNeedFailure

(* ... and every operation of the store keeps it.                          *)
LEMMA StoreInvNext == StoreInv /\ [Next]_vars => StoreInv'
<1> SUFFICES ASSUME StoreInv, [Next]_vars
             PROVE  StoreInv'
  OBVIOUS
<1>0. /\ pending \in Seq(Alerts) /\ appended \subseteq Alerts
      /\ copies \in [Alerts -> Nat] /\ unsure \in Nat
      /\ connected \in BOOLEAN /\ stop \in BOOLEAN
      /\ writer \in {"check", "sleep", "done"}
      /\ closer \in {"open", "joining", "flush", "closed"}
  BY DEF StoreInv, TypeOK
<1>a. Elems(pending) \subseteq appended
  <2> SUFFICES ASSUME NEW a \in Elems(pending) PROVE a \in appended
    OBVIOUS
  <2>1. a \in Alerts
    BY <1>0 DEF Elems
  <2> QED
    BY <2>1 DEF StoreInv, OnlyAppended
<1>b. \A a \in Elems(pending) : copies[a] <= unsure
  BY <1>0, <1>a DEF StoreInv, PendingNotStored
<1>1. ASSUME NEW a \in Alerts \ appended, AppendAlert(a)
      PROVE  StoreInv'
  <2> DEFINE p == Queued(a)
  <2>1. p \in Seq(Alerts) /\ Elems(p) = Elems(pending) \cup {a}
    BY <1>0, AppendElems DEF Queued
  <2>2. copies[a] = 0
    BY DEF StoreInv, OnlyAppended
  <2>3. /\ appended' = appended \cup {a}
        /\ UNCHANGED <<connected, stop, writer, closer>>
    BY <1>1 DEF AppendAlert
  <2>4. CASE FlushLocked(p)
    <3> HIDE DEF p
    <3>1. \A x \in Elems(p) : copies[x] <= unsure
      BY <1>0, <1>b, <2>1, <2>2
    <3>2. /\ appended \subseteq appended' /\ appended' \subseteq Alerts
          /\ Elems(pending) \subseteq Elems(p) /\ Elems(p) \subseteq appended'
          /\ appended' \subseteq appended \cup Elems(p)
      BY <1>0, <1>a, <2>1, <2>3
    <3> QED
      BY <1>0, <2>1, <2>3, <2>4, <3>1, <3>2, FlushInv
  <2>5. CASE pending' = p /\ UNCHANGED <<copies, faults, unsure>>
    <3>1. Elems(pending') = Elems(pending) \cup {a}
      BY <2>1, <2>5
    <3> HIDE DEF p
    <3>2. TypeOK'
      BY <1>0, <2>1, <2>3, <2>5 DEF StoreInv, TypeOK
    <3>3. AtLeastOnce'
      <4> SUFFICES ASSUME NEW x \in appended' \ Malformed
                   PROVE  x \in Elems(pending') \/ copies'[x] > 0
        BY DEF AtLeastOnce, Elems
      <4> QED
        BY <2>3, <2>5, <3>1 DEF StoreInv, AtLeastOnce
    <3>4. PendingNotStored'
      <4> SUFFICES ASSUME NEW x \in Alerts, x \in Elems(pending')
                   PROVE  copies'[x] <= unsure'
        BY DEF PendingNotStored, Elems
      <4> QED
        BY <1>0, <1>b, <2>2, <2>5, <3>1
    <3>5. OnlyAppended'
      <4> SUFFICES ASSUME NEW x \in Alerts \ appended'
                   PROVE  x \notin Elems(pending') /\ copies'[x] = 0
        BY DEF OnlyAppended, Elems
      <4> QED
        BY <2>3, <2>5, <3>1 DEF StoreInv, OnlyAppended
    <3>6. DuplicatesNeedFailure'
      BY <2>5 DEF StoreInv, DuplicatesNeedFailure
    <3> QED
      BY <3>2, <3>3, <3>4, <3>5, <3>6 DEF StoreInv
  <2> QED
    BY <1>1, <2>4, <2>5 DEF AppendAlert
<1>2. ASSUME FlushLocked(pending), UNCHANGED appended,
             connected' \in BOOLEAN, stop' \in BOOLEAN,
             writer' \in {"check", "sleep", "done"},
             closer' \in {"open", "joining", "flush", "closed"}
      PROVE  StoreInv'
  BY <1>0, <1>a, <1>b, <1>2, FlushInv
<1>3. CASE Flush
  BY <1>0, <1>2, <1>3 DEF Flush
<1>4. CASE WriterFlush
  BY <1>0, <1>2, <1>4 DEF WriterFlush
<1>5. CASE CloseFlush
  BY <1>0, <1>2, <1>5 DEF CloseFlush
<1>6. ASSUME UNCHANGED <<pending, copies, faults, appended, unsure>>,
             connected' \in BOOLEAN, stop' \in BOOLEAN,
             writer' \in {"check", "sleep", "done"},
             closer' \in {"open", "joining", "flush", "closed"}
      PROVE  StoreInv'
  BY <1>6 DEF StoreInv, TypeOK, AtLeastOnce, PendingNotStored, OnlyAppended,
              DuplicatesNeedFailure, Elems
<1>7. CASE WriterCheck
  BY <1>0, <1>6, <1>7 DEF WriterCheck
<1>8. CASE CloseBegin
  BY <1>0, <1>6, <1>8 DEF CloseBegin
<1>9. CASE CloseJoined
  BY <1>0, <1>6, <1>9 DEF CloseJoined
<1>10. CASE UNCHANGED vars
  BY <1>0, <1>6, <1>10 DEF vars
<1> QED
  BY <1>1, <1>3, <1>4, <1>5, <1>7, <1>8, <1>9, <1>10 DEF Next

(* The batch, the table and the three places that flush keep their types,  *)
(* whatever is appended and however INSERTs fail (clickhouse_store.py      *)
(* 113-193).                                                               *)
THEOREM StoreTypeCorrect == Spec => []TypeOK
  BY StoreInvInit, StoreInvNext, PTL DEF Spec, StoreInv

(* At-least-once storage (clickhouse_store.py 163-184): no INSERT that     *)
(* raises, and no race of appenders, writer and close(), loses an alert.   *)
THEOREM StoresAtLeastOnce == Spec => []AtLeastOnce
  BY StoreInvInit, StoreInvNext, PTL DEF Spec, StoreInv

(* Duplicates (clickhouse_store.py 182-184): an alert has more than one    *)
(* row only for INSERTs that raised after they had written.                *)
THEOREM DuplicatesOnlyFromFailures == Spec => []DuplicatesNeedFailure
  BY StoreInvInit, StoreInvNext, PTL DEF Spec, StoreInv


-----------------------------------------------------------------------------
(* The worker.  Its types, and what run() and close() keep of their        *)
(* locals.                                                                 *)
Records == (1..NRecords) \ Undecodable

WorkerTypes ==
    /\ TypeOK
    /\ worker \in {"poll", "predict", "emit", "closing", "closed"} /\ stopping \in BOOLEAN
    /\ position \in 0..NRecords /\ committed \in 0..position
    /\ batch \in Seq(Records) /\ model \in 1..Len(Models)
    /\ todo \subseteq Elems(batch) /\ restarts \in Nat
    /\ lost \subseteq 1..NRecords

LoopInv ==
    /\ worker # "emit" => todo = {}
    /\ \A r \in todo : <<r, Models[model]>> \in Alerts
    /\ worker \in {"poll", "closing", "closed"} => model = 1
    /\ worker \in {"closing", "closed"} => batch = <<>>
    /\ Len(batch) <= InferenceBatch
    /\ worker = "poll" => Len(batch) < InferenceBatch
    /\ Elems(batch) \subseteq 1..position
    /\ worker = "closed" <=> closer # "open"

(* An anomaly this process has yet to give to the store, its record polled *)
(* or not.                                                                 *)
Unseen(a) == a[1] > position \/ Waits(a)

(* An anomaly that nothing excuses from being stored.                      *)
Owed(a) ==
    /\ a \notin Malformed \cup skipped \cup forgotten
    /\ a[1] \in (1..position) \ (lost \cup jumped)

(* Every process gives an anomaly to the store once, so a further row      *)
(* takes an INSERT that raised, or a process more.                         *)
CopiesInv ==
    \A a \in Alerts :
        /\ copies[a] <= 1 + unsure + restarts
        /\ (Unseen(a) \/ a \in Elems(pending)) => copies[a] <= unsure + restarts
        /\ Unseen(a) => a \notin Elems(pending)

OwedIsHeld ==
    \A a \in Alerts : Owed(a) => copies[a] > 0 \/ a \in Elems(pending) \/ Waits(a)

(* While INSERTs succeed, whoever fills a batch also empties it.           *)
ShortPending == connected /\ faults = 0 => Len(pending) < BatchSize

(* What failures and crashes have cost so far, in alerts.                  *)
Budget ==
    /\ failures \in Nat /\ IsFiniteSet(skipped)
    /\ Cardinality(skipped) <= failures * InferenceBatch
    /\ offline \in BOOLEAN /\ (~offline => connected) /\ IsFiniteSet(forgotten)
    /\ ~offline /\ faults = 0 => Cardinality(forgotten) <= restarts * (BatchSize - 1)

WorkerInv ==
    /\ WorkerTypes /\ LoopInv /\ CopiesInv /\ OwedIsHeld /\ ShortPending
    /\ AtLeastOnce /\ RecordsAccountedFor /\ Budget

(* What a step did with the batch p: as FlushKeeps, or p just waits on.    *)
Carried(p) ==
    /\ pending' \in Seq(Alerts) /\ copies' \in [Alerts -> Nat]
    /\ faults' \in Nat /\ unsure' \in Nat /\ unsure <= unsure'
    /\ Elems(pending') \subseteq Elems(p)
    /\ \A a \in Alerts :
         /\ copies[a] <= copies'[a]
         /\ a \in Elems(p) \ Malformed => a \in Elems(pending') \/ copies'[a] > 0
         /\ \/ copies'[a] = copies[a]
            \/ a \in Elems(p) /\ copies'[a] = copies[a] + 1
               /\ (a \notin Elems(pending') \/ unsure' = unsure + 1)

(* A step that leaves the table alone carries what is pending after it.    *)
LEMMA QuietCarries ==
    ASSUME TypeOK, pending' \in Seq(Alerts), UNCHANGED <<copies, faults, unsure>>
    PROVE  Carried(pending')
<1>1. copies \in [Alerts -> Nat] /\ faults \in Nat /\ unsure \in Nat
  BY DEF TypeOK
<1> QED
  BY <1>1 DEF Carried

LEMMA FlushCarries ==
    ASSUME TypeOK, NEW p \in Seq(Alerts), FlushLocked(p)
    PROVE  Carried(p)
  BY FlushKeeps DEF Carried

(* Whatever a step does to the worker, the anomalies stay accounted for if *)
(* the batch it leaves to the store holds none it has stored too often,    *)
(* none that is yet to be emitted, and all it still owes.                  *)
LEMMA Carries ==
    ASSUME TypeOK, restarts' \in Nat, NEW p \in Seq(Alerts), Carried(p),
           \A a \in Alerts : copies[a] <= 1 + unsure + restarts',
           \A a \in Elems(p) : copies[a] <= unsure + restarts',
           \A a \in Alerts : Unseen(a)' => a \notin Elems(p) /\ copies[a] <= unsure + restarts',
           \A a \in Alerts : Owed(a)' => copies[a] > 0 \/ a \in Elems(p) \/ Waits(a)',
           \A a \in appended' \ Malformed : a \in Elems(p) \/ copies[a] > 0,
           appended' \subseteq Alerts
    PROVE  CopiesInv' /\ OwedIsHeld' /\ AtLeastOnce'
<1>1. copies \in [Alerts -> Nat] /\ unsure \in Nat
  BY DEF TypeOK
<1>2. copies' \in [Alerts -> Nat] /\ unsure' \in Nat /\ unsure <= unsure'
  BY DEF Carried
<1>3. Elems(pending') \subseteq Elems(p)
  BY DEF Carried
<1>4. \A a \in Alerts :
         /\ copies[a] \in Nat /\ copies'[a] \in Nat /\ copies[a] <= copies'[a]
         /\ a \in Elems(p) \ Malformed => a \in Elems(pending') \/ copies'[a] > 0
         /\ \/ copies'[a] = copies[a]
            \/ a \in Elems(p) /\ copies'[a] = copies[a] + 1
               /\ (a \notin Elems(pending') \/ unsure' = unsure + 1)
  BY <1>1, <1>2 DEF Carried
<1>5. CopiesInv'
  <2> SUFFICES ASSUME NEW a \in Alerts
               PROVE  /\ copies'[a] <= 1 + unsure' + restarts'
                      /\ (Unseen(a)' \/ a \in Elems(pending')) => copies'[a] <= unsure' + restarts'
                      /\ Unseen(a)' => a \notin Elems(pending')
    BY DEF CopiesInv, Elems
  <2>1. CASE a \in Elems(p)
    <3>1. copies[a] <= unsure + restarts' /\ ~Unseen(a)'
      BY <2>1
    <3> QED
      BY <1>1, <1>2, <1>4, <3>1
  <2>2. CASE a \notin Elems(p)
    <3>1. copies'[a] = copies[a] /\ a \notin Elems(pending')
      BY <1>3, <1>4, <2>2
    <3>2. copies[a] <= 1 + unsure + restarts' /\ (Unseen(a)' => copies[a] <= unsure + restarts')
      OBVIOUS
    <3> QED
      BY <1>1, <1>2, <1>4, <3>1, <3>2
  <2> QED
    BY <2>1, <2>2
<1>6. OwedIsHeld'
  <2> SUFFICES ASSUME NEW a \in Alerts, Owed(a)'
               PROVE  copies'[a] > 0 \/ a \in Elems(pending') \/ Waits(a)'
    BY DEF OwedIsHeld, Elems
  <2>1. a \notin Malformed
    BY DEF Owed
  <2> QED
    BY <1>4, <2>1
<1>7. AtLeastOnce'
  <2> SUFFICES ASSUME NEW a \in appended' \ Malformed
               PROVE  a \in Elems(pending') \/ copies'[a] > 0
    BY DEF AtLeastOnce, Elems
  <2> QED
    BY <1>4
<1> QED
  BY <1>5, <1>6, <1>7

(* A list is in the set of its elements' type, and has no more different   *)
(* ones than its length.                                                   *)
LEMMA ElemsFacts ==
    ASSUME NEW S, NEW s \in Seq(S)
    PROVE  /\ Elems(s) \subseteq S /\ Len(s) \in Nat
           /\ IsFiniteSet(Elems(s)) /\ Cardinality(Elems(s)) <= Len(s)
<1>1. Len(s) \in Nat /\ s \in [1..Len(s) -> S] /\ Elems(s) \subseteq S
  BY DEF Elems
<1>2. s \in Surjection(1..Len(s), Elems(s))
  BY <1>1 DEF Surjection, Elems
<1>3. IsFiniteSet(1..Len(s)) /\ Cardinality(1..Len(s)) = Len(s)
  BY <1>1, FS_Interval
<1> QED
  BY <1>1, <1>2, <1>3, FS_Surjection


-----------------------------------------------------------------------------
(* An anomaly is of a record that was decoded, and of a model.             *)
LEMMA AlertShape ==
    ASSUME NEW a \in Alerts
    PROVE  /\ a[1] \in Records /\ a = <<a[1], a[2]>> /\ a[1] \in 1..NRecords
           /\ \E i \in 1..Len(Models) : a[2] = Models[i]
           /\ Taken(a[1])
<1>1. a \in Records \X {m \in Elems(Models) : Takes(m)}
  BY WorkerAssumption DEF Records
<1>2. PICK i \in 1..Len(Models) : a[2] = Models[i]
  BY <1>1 DEF Elems
<1> QED
  BY <1>1, <1>2 DEF Records, Taken

LEMMA ModelFacts ==
    Len(Models) \in Nat \ {0} /\ \A i, j \in 1..Len(Models) : Models[i] = Models[j] => i = j
  BY WorkerAssumption

(* The budget is kept by a step that loses nothing ...                     *)
LEMMA SameBudget ==
    ASSUME Budget, faults \in Nat, faults' \in Nat, faults <= faults',
           UNCHANGED <<skipped, failures, forgotten, offline, connected, restarts>>
    PROVE  Budget'
<1>1. faults' = 0 => faults = 0
  OBVIOUS
<1> QED
  BY <1>1 DEF Budget

(* ... and by one that skips some anomalies of the batch for one model.    *)
LEMMA SkipBudget ==
    ASSUME WorkerTypes, LoopInv, Budget, NEW D, D \subseteq Elems(batch), NEW m,
           skipped' = skipped \cup AlertsOf(D, m), failures' = failures + 1,
           faults \in Nat, faults' \in Nat, faults <= faults',
           UNCHANGED <<forgotten, offline, connected, restarts>>
    PROVE  Budget'
<1> DEFINE A == AlertsOf(D, m)
<1>1. /\ IsFiniteSet(Elems(batch)) /\ Cardinality(Elems(batch)) <= Len(batch)
      /\ Len(batch) \in Nat /\ Len(batch) <= InferenceBatch
  BY ElemsFacts DEF WorkerTypes, LoopInv
<1>2. /\ IsFiniteSet(D) /\ Cardinality(D) <= Cardinality(Elems(batch))
      /\ Cardinality(D) \in Nat /\ Cardinality(Elems(batch)) \in Nat
  BY <1>1, FS_Subset, FS_CardinalityType
<1>3. IsFiniteSet({m}) /\ Cardinality({m}) = 1
  BY FS_Singleton
<1>4. IsFiniteSet(A) /\ Cardinality(A) = Cardinality(D)
  <2>1. A = D \X {m}
    BY DEF AlertsOf
  <2>2. IsFiniteSet(A) /\ Cardinality(A) = Cardinality(D) * Cardinality({m})
    BY <1>2, <1>3, <2>1, FS_Product
  <2> QED
    BY <1>2, <1>3, <2>2
<1>5. IsFiniteSet(skipped) /\ Cardinality(skipped) \in Nat
  BY FS_CardinalityType DEF Budget
<1>6. IsFiniteSet(skipped \cap A) /\ Cardinality(skipped \cap A) \in Nat
  BY <1>5, FS_Subset, FS_CardinalityType
<1> HIDE DEF A
<1>7. /\ IsFiniteSet(skipped') 
      /\ Cardinality(skipped') = Cardinality(skipped) + Cardinality(A) - Cardinality(skipped \cap A)
  BY <1>4, <1>5, FS_Union DEF A
<1>8. /\ InferenceBatch \in Nat /\ failures \in Nat
      /\ Cardinality(skipped) <= failures * InferenceBatch
      /\ (failures + 1) * InferenceBatch = failures * InferenceBatch + InferenceBatch
      /\ failures * InferenceBatch \in Nat
  BY WorkerAssumption DEF Budget
<1>9. Cardinality(skipped') <= failures' * InferenceBatch
  BY <1>1, <1>2, <1>4, <1>5, <1>6, <1>7, <1>8
<1>10. faults' = 0 => faults = 0
  OBVIOUS
<1> QED
  BY <1>7, <1>8, <1>9, <1>10 DEF Budget

(* A step of run() that leaves the store alone.                            *)
LEMMA LoopKeeps ==
    ASSUME WorkerInv, UNCHANGED <<storeVars, restarts>>,
           \A a \in Alerts : Unseen(a)' => Unseen(a),
           \A a \in Alerts : Owed(a)' => (Owed(a) /\ (Waits(a) => Waits(a)')) \/ Waits(a)'
    PROVE  TypeOK' /\ CopiesInv' /\ OwedIsHeld' /\ AtLeastOnce' /\ ShortPending'
<1>0. TypeOK /\ restarts \in Nat /\ CopiesInv /\ OwedIsHeld /\ ShortPending /\ AtLeastOnce
  BY DEF WorkerInv, WorkerTypes
<1>1. /\ UNCHANGED <<connected, pending, copies, stop, writer, closer, faults, appended, unsure>>
      /\ restarts' = restarts
  BY DEF storeVars
<1>2. TypeOK' /\ ShortPending'
  BY <1>0, <1>1 DEF TypeOK, ShortPending
<1>3. pending \in Seq(Alerts) /\ appended \subseteq Alerts
  BY <1>0 DEF TypeOK
<1>4. Carried(pending)
  BY <1>0, <1>1, <1>3, QuietCarries
<1>5. Elems(pending) \subseteq Alerts
  BY <1>3, ElemsFacts
<1>6. CopiesInv' /\ OwedIsHeld' /\ AtLeastOnce'
  <2>1. \A a \in Alerts : copies[a] <= 1 + unsure + restarts'
    BY <1>0, <1>1 DEF CopiesInv
  <2>2. \A a \in Elems(pending) : copies[a] <= unsure + restarts'
    BY <1>0, <1>1, <1>5 DEF CopiesInv
  <2>3. \A a \in Alerts : Unseen(a)' =>
            a \notin Elems(pending) /\ copies[a] <= unsure + restarts'
    BY <1>0, <1>1 DEF CopiesInv
  <2>4. \A a \in Alerts : Owed(a)' => copies[a] > 0 \/ a \in Elems(pending) \/ Waits(a)'
    BY <1>0 DEF OwedIsHeld
  <2>5. \A a \in appended' \ Malformed : a \in Elems(pending) \/ copies[a] > 0
    BY <1>0, <1>1 DEF AtLeastOnce
  <2> QED
    BY <1>0, <1>1, <1>3, <1>4, <2>1, <2>2, <2>3, <2>4, <2>5, Carries
<1> QED
  BY <1>2, <1>6

LEMMA PollInv == WorkerInv /\ Poll => WorkerInv'
<1> SUFFICES ASSUME WorkerInv, Poll PROVE WorkerInv'
  OBVIOUS
<1>0. WorkerTypes /\ LoopInv /\ RecordsAccountedFor /\ Budget
  BY DEF WorkerInv
<1>1. /\ worker = "poll" /\ model = 1 /\ todo = {} /\ position < NRecords
      /\ position' = position + 1 /\ batch' = Accumulated(position + 1)
      /\ worker' = IF Len(batch') >= InferenceBatch THEN "predict" ELSE "poll"
      /\ UNCHANGED <<storeVars, stopping, committed, model, todo, restarts, history>>
      /\ UNCHANGED <<closer, connected, faults>>
  BY <1>0 DEF Poll, LoopInv, storeVars
<1>2. /\ position \in Nat /\ NRecords \in Nat /\ position \in 0..NRecords
      /\ committed \in 0..position /\ batch \in Seq(Records) /\ InferenceBatch \in Nat \ {0}
      /\ Elems(batch) \subseteq 1..position /\ Len(batch) < InferenceBatch /\ Len(batch) \in Nat
  BY <1>0, <1>1, WorkerAssumption DEF WorkerTypes, LoopInv
<1>3. position + 1 \in 1..NRecords
  BY <1>1, <1>2
<1>4. /\ batch' \in Seq(Records) /\ Len(batch') \in Nat /\ Len(batch') <= InferenceBatch
      /\ Elems(batch') = Elems(batch) \cup {r \in {position + 1} : Taken(r)}
  <2>1. CASE ~Taken(position + 1)
    BY <1>1, <1>2, <2>1 DEF Accumulated
  <2>2. CASE Taken(position + 1)
    <3>1. batch' = Append(batch, position + 1) /\ position + 1 \in Records
      BY <1>1, <1>3, <2>2 DEF Accumulated, Records, Taken
    <3>2. Len(batch') = Len(batch) + 1
      BY <1>2, <3>1
    <3> QED
      BY <1>2, <2>2, <3>1, <3>2, AppendElems
  <2> QED
    BY <2>1, <2>2
<1>5. /\ lost' = lost /\ examined' = examined /\ jumped' = jumped /\ skipped' = skipped
      /\ restarts' = restarts
      /\ UNCHANGED <<failures, forgotten, offline>>
  BY <1>1 DEF history
<1>6. \A a \in Alerts : Waits(a)' <=> a[1] \in Elems(batch')
  <2> SUFFICES ASSUME NEW a \in Alerts, a[1] \in Elems(batch') PROVE Waits(a)'
    BY DEF Waits, Elems
  <2>1. PICK i \in 1..Len(Models) : a[2] = Models[i]
    BY AlertShape
  <2>2. worker' # "emit" /\ model' = 1
    BY <1>1
  <2> QED
    BY <2>1, <2>2 DEF Waits, Elems
<1>7. \A a \in Alerts : Waits(a) <=> a[1] \in Elems(batch)
  <2> SUFFICES ASSUME NEW a \in Alerts, a[1] \in Elems(batch) PROVE Waits(a)
    BY DEF Waits
  <2>1. PICK i \in 1..Len(Models) : a[2] = Models[i]
    BY AlertShape
  <2> QED
    BY <1>1, <2>1 DEF Waits
<1>8. ASSUME NEW a \in Alerts
      PROVE  /\ Unseen(a)' => Unseen(a)
             /\ Owed(a)' => (Owed(a) /\ (Waits(a) => Waits(a)')) \/ Waits(a)'
  <2>1. a[1] \in Nat /\ Taken(a[1])
    BY AlertShape, WorkerAssumption DEF Records
  <2>2. CASE a[1] = position + 1
    <3>1. Waits(a)' /\ a[1] > position
      BY <1>2, <1>4, <1>6, <2>1, <2>2
    <3> QED
      BY <3>1 DEF Unseen
  <2>3. CASE a[1] # position + 1
    <3>1. a[1] \in Elems(batch') <=> a[1] \in Elems(batch)
      BY <1>4, <2>3
    <3>2. Waits(a)' <=> Waits(a)
      BY <1>6, <1>7, <3>1
    <3>3. a[1] > position' => a[1] > position
      BY <1>1, <1>2, <2>1
    <3>4. a[1] \in 1..position' => a[1] \in 1..position
      BY <1>1, <1>2, <2>1, <2>3
    <3> QED
      BY <1>5, <3>2, <3>3, <3>4 DEF Unseen, Owed
  <2> QED
    BY <2>2, <2>3
<1>9. TypeOK' /\ CopiesInv' /\ OwedIsHeld' /\ AtLeastOnce' /\ ShortPending'
  BY <1>1, <1>8, LoopKeeps
<1>10. WorkerTypes' /\ LoopInv'
  <2>1. WorkerTypes'
    <3>1. position' \in 0..NRecords /\ committed' \in 0..position'
      BY <1>1, <1>2
    <3>2. todo' \subseteq Elems(batch')
      BY <1>1
    <3> QED
      BY <1>0, <1>1, <1>4, <1>5, <1>9, <3>1, <3>2 DEF WorkerTypes, Elems
  <2>2. LoopInv'
    <3>1. Elems(batch') \subseteq 1..position'
      BY <1>1, <1>2, <1>4
    <3> QED
      BY <1>0, <1>1, <1>2, <1>4, <3>1 DEF LoopInv, Elems
  <2> QED
    BY <2>1, <2>2
<1>11. RecordsAccountedFor'
  <2>1. (1..position') = (1..position) \cup {position + 1}
    BY <1>1, <1>2
  <2>2. {r \in 1..position' : Taken(r)} \subseteq examined' \cup Elems(batch') \cup lost' \cup jumped'
    BY <1>0, <1>4, <1>5, <2>1 DEF RecordsAccountedFor
  <2> QED
    BY <1>0, <1>5, <2>2 DEF RecordsAccountedFor, Elems, Taken
<1>12. Budget'
  BY <1>0, <1>1, <1>5, SameBudget DEF WorkerTypes, TypeOK
<1> QED
  BY <1>9, <1>10, <1>11, <1>12 DEF WorkerInv


(* A step that moves neither the batch nor the offsets keeps the account   *)
(* of the records.                                                         *)
LEMMA SameRecords ==
    ASSUME RecordsAccountedFor, UNCHANGED <<position, batch, restarts, examined, lost, jumped>>
    PROVE  RecordsAccountedFor'
  BY DEF RecordsAccountedFor, Elems, Taken

LEMMA PredictedInv == WorkerInv /\ (Predicted \/ PredictFails) => WorkerInv'
<1> SUFFICES ASSUME WorkerInv, Predicted \/ PredictFails PROVE WorkerInv'
  OBVIOUS
<1> DEFINE M == Models[model]
<1>0. WorkerTypes /\ LoopInv /\ RecordsAccountedFor /\ Budget
  BY DEF WorkerInv
<1>1. /\ worker = "predict" /\ worker' = "emit" /\ todo = {}
      /\ UNCHANGED <<storeVars, stopping, position, committed, batch, model, restarts>>
      /\ UNCHANGED <<examined, lost, jumped, forgotten, offline>> /\ UNCHANGED <<storeVars, restarts>>
      /\ UNCHANGED <<closer, connected, faults>>
  BY <1>0 DEF Predicted, PredictFails, LoopInv, history, storeVars
<1>2. /\ todo' \subseteq Elems(batch) /\ skipped \subseteq skipped'
      /\ \/ todo' = Anomalies(Elems(batch), M) /\ UNCHANGED <<skipped, failures>>
         \/ /\ todo' = {} /\ skipped' = skipped \cup AlertsOf(Elems(batch), M)
            /\ failures' = failures + 1
  BY <1>1 DEF Predicted, PredictFails, history, Anomalies
<1>3. ASSUME NEW a \in Alerts
      PROVE  /\ Unseen(a)' => Unseen(a)
             /\ Owed(a)' => (Owed(a) /\ (Waits(a) => Waits(a)')) \/ Waits(a)'
  <2>1. Waits(a)' => Waits(a)
    <3> SUFFICES ASSUME Waits(a)' PROVE Waits(a)
      OBVIOUS
    <3>1. a[1] \in Elems(batch)
      BY <1>1 DEF Waits, Elems
    <3>2. PICK i \in model..Len(Models) : a[2] = Models[i]
      BY <1>1 DEF Waits
    <3> QED
      BY <1>1, <3>1, <3>2 DEF Waits
  <2>2. Owed(a)' => Owed(a)
    BY <1>1, <1>2 DEF Owed
  <2>3. ASSUME Owed(a)', Waits(a) PROVE Waits(a)'
    <3>1. PICK i \in model..Len(Models) : a[2] = Models[i]
      BY <2>3 DEF Waits
    <3>2. a[1] \in Elems(batch) /\ a = <<a[1], a[2]>> /\ a \notin skipped'
      BY <2>3, AlertShape DEF Waits, Owed
    <3>3. ASSUME i = model PROVE a[1] \in todo'
      <4>1. a[2] = M
        BY <3>1, <3>3
      <4>2. a \in AlertsOf(Elems(batch), M)
        BY <3>2, <4>1 DEF AlertsOf
      <4>3. todo' = Anomalies(Elems(batch), M)
        BY <1>2, <3>2, <4>2
      <4> QED
        BY <3>2, <4>1, <4>3 DEF Anomalies
    <3> QED
      BY <1>1, <3>1, <3>2, <3>3 DEF Waits, Elems
  <2> QED
    BY <1>1, <2>1, <2>2, <2>3 DEF Unseen
<1>4. TypeOK' /\ CopiesInv' /\ OwedIsHeld' /\ AtLeastOnce' /\ ShortPending'
  BY <1>1, <1>3, LoopKeeps
<1>5. WorkerTypes' /\ LoopInv'
  <2>1. \A r \in todo' : <<r, Models[model']>> \in Alerts
    BY <1>1, <1>2 DEF Anomalies
  <2> QED
    BY <1>0, <1>1, <1>2, <1>4, <2>1 DEF WorkerTypes, LoopInv, Elems
<1>6. Budget'
  <2>0. faults \in Nat /\ faults' = faults
    BY <1>0, <1>1 DEF WorkerTypes, TypeOK
  <2>1. CASE UNCHANGED <<skipped, failures>>
    BY <1>0, <1>1, <2>0, <2>1, SameBudget
  <2>2. CASE skipped' = skipped \cup AlertsOf(Elems(batch), M) /\ failures' = failures + 1
    BY <1>0, <1>1, <2>0, <2>2, SkipBudget
  <2> QED
    BY <1>2, <2>1, <2>2
<1> QED
  BY <1>0, <1>1, <1>4, <1>5, <1>6, SameRecords DEF WorkerInv

LEMMA NextModelInv == WorkerInv /\ NextModel => WorkerInv'
<1> SUFFICES ASSUME WorkerInv, NextModel PROVE WorkerInv'
  OBVIOUS
<1>0. WorkerTypes /\ LoopInv /\ RecordsAccountedFor /\ Budget
  BY DEF WorkerInv
<1>1. /\ worker = "emit" /\ todo = {} /\ model < Len(Models)
      /\ worker' = "predict" /\ model' = model + 1
      /\ UNCHANGED <<storeVars, stopping, position, committed, batch, todo, restarts>>
      /\ UNCHANGED <<examined, lost, jumped, skipped>> /\ UNCHANGED <<storeVars, restarts>>
      /\ UNCHANGED <<closer, connected, faults, failures, forgotten, offline>>
  BY DEF NextModel, history, storeVars
<1>2. model \in Nat /\ Len(Models) \in Nat /\ model' \in 1..Len(Models)
  BY <1>0, <1>1, ModelFacts DEF WorkerTypes
<1>3. ASSUME NEW a \in Alerts
      PROVE  Waits(a)' <=> Waits(a)
  <2>1. Waits(a) <=> a[1] \in Elems(batch) /\ \E i \in (model + 1)..Len(Models) : a[2] = Models[i]
    BY <1>1, <1>2 DEF Waits
  <2>2. Waits(a)' <=> a[1] \in Elems(batch) /\ \E i \in (model + 1)..Len(Models) : a[2] = Models[i]
    BY <1>1 DEF Waits, Elems
  <2> QED
    BY <2>1, <2>2
<1>4. \A a \in Alerts : (Unseen(a)' <=> Unseen(a)) /\ (Owed(a)' <=> Owed(a))
  BY <1>1, <1>3 DEF Unseen, Owed
<1>5. TypeOK' /\ CopiesInv' /\ OwedIsHeld' /\ AtLeastOnce' /\ ShortPending'
  BY <1>1, <1>3, <1>4, LoopKeeps
<1>6. WorkerTypes' /\ LoopInv'
  BY <1>0, <1>1, <1>2, <1>5 DEF WorkerTypes, LoopInv, Elems
<1>7. Budget'
  BY <1>0, <1>1, SameBudget DEF WorkerTypes, TypeOK
<1> QED
  BY <1>0, <1>1, <1>5, <1>6, <1>7, SameRecords DEF WorkerInv

LEMMA BatchDoneInv == WorkerInv /\ BatchDone => WorkerInv'
<1> SUFFICES ASSUME WorkerInv, BatchDone PROVE WorkerInv'
  OBVIOUS
<1>0. WorkerTypes /\ LoopInv /\ RecordsAccountedFor /\ Budget
  BY DEF WorkerInv
<1>1. /\ worker = "emit" /\ todo = {} /\ model = Len(Models)
      /\ worker' = "poll" /\ model' = 1 /\ batch' = <<>>
      /\ examined' = examined \cup Elems(batch)
      /\ UNCHANGED <<storeVars, stopping, position, committed, todo, restarts>>
      /\ UNCHANGED <<lost, jumped, skipped>> /\ UNCHANGED <<storeVars, restarts>>
      /\ UNCHANGED <<closer, connected, faults, failures, forgotten, offline>>
  BY DEF BatchDone, storeVars
<1>2. Elems(<<>>) = {} /\ <<>> \in Seq(Records) /\ Len(<<>>) = 0
  BY DEF Elems
<1>3. \A a \in Alerts : ~Waits(a) /\ ~Waits(a)'
  <2>1. \A i \in model..Len(Models) : i = model
    BY <1>0, <1>1, ModelFacts DEF WorkerTypes
  <2>2. \A a \in Alerts : ~Waits(a)
    BY <1>1, <2>1 DEF Waits
  <2>3. \A a \in Alerts : ~Waits(a)'
    BY <1>1, <1>2 DEF Waits, Elems
  <2> QED
    BY <2>2, <2>3
<1>4. \A a \in Alerts : (Unseen(a)' <=> Unseen(a)) /\ (Owed(a)' <=> Owed(a))
  BY <1>1, <1>3 DEF Unseen, Owed
<1>5. TypeOK' /\ CopiesInv' /\ OwedIsHeld' /\ AtLeastOnce' /\ ShortPending'
  BY <1>1, <1>3, <1>4, LoopKeeps
<1>6. WorkerTypes' /\ LoopInv'
  <2>1. Elems(batch') = {} /\ batch' \in Seq(Records) /\ Len(batch') = 0
    BY <1>1, <1>2
  <2>2. model' \in 1..Len(Models)
    BY <1>1, ModelFacts
  <2> QED
    BY <1>0, <1>1, <1>5, <2>1, <2>2, WorkerAssumption DEF WorkerTypes, LoopInv, Elems
<1>7. RecordsAccountedFor'
  <2>1. {r \in 1..position' : Taken(r)} \subseteq examined' \cup Elems(batch') \cup lost' \cup jumped'
    BY <1>0, <1>1 DEF RecordsAccountedFor
  <2> QED
    BY <1>0, <1>1, <2>1 DEF RecordsAccountedFor, Elems, Taken
<1>8. Budget'
  BY <1>0, <1>1, SameBudget DEF WorkerTypes, TypeOK
<1> QED
  BY <1>5, <1>6, <1>7, <1>8 DEF WorkerInv

(* stop(), the end of the loop and the consumer's commits move no record   *)
(* and no anomaly.                                                         *)
LEMMA ControlInv == WorkerInv /\ (StopWorker \/ LoopEnds \/ AutoCommit) => WorkerInv'
<1> SUFFICES ASSUME WorkerInv, StopWorker \/ LoopEnds \/ AutoCommit PROVE WorkerInv'
  OBVIOUS
<1>0. WorkerTypes /\ LoopInv /\ RecordsAccountedFor /\ Budget
  BY DEF WorkerInv
<1>1. /\ UNCHANGED <<storeVars, position, batch, model, todo, restarts>>
      /\ UNCHANGED <<examined, lost, jumped, skipped>> /\ UNCHANGED <<storeVars, restarts>>
      /\ UNCHANGED <<closer, connected, faults, failures, forgotten, offline>>
      /\ stopping' \in BOOLEAN /\ committed' \in 0..position
      /\ \/ worker' = worker
         \/ /\ worker = "poll" /\ (worker' = "predict" \/ worker' = "closing")
            /\ worker' = "closing" => batch = <<>>
  <2>0. stopping \in BOOLEAN /\ committed \in 0..position /\ position \in 0..position
    BY <1>0, WorkerAssumption DEF WorkerTypes
  <2>1. CASE StopWorker
    BY <2>0, <2>1 DEF StopWorker, history, storeVars
  <2>2. CASE LoopEnds
    BY <2>0, <2>2 DEF LoopEnds, history, storeVars
  <2>3. CASE AutoCommit
    BY <2>0, <2>3 DEF AutoCommit, history, storeVars
  <2> QED
    BY <2>1, <2>2, <2>3
<1>2. worker' = "emit" <=> worker = "emit"
  BY <1>1
<1>3. \A a \in Alerts : Waits(a)' <=> Waits(a)
  BY <1>1, <1>2 DEF Waits, Elems
<1>4. \A a \in Alerts : (Unseen(a)' <=> Unseen(a)) /\ (Owed(a)' <=> Owed(a))
  BY <1>1, <1>3 DEF Unseen, Owed
<1>5. TypeOK' /\ CopiesInv' /\ OwedIsHeld' /\ AtLeastOnce' /\ ShortPending'
  BY <1>1, <1>3, <1>4, LoopKeeps
<1>6. WorkerTypes' /\ LoopInv'
  BY <1>0, <1>1, <1>5 DEF WorkerTypes, LoopInv, Elems
<1>7. Budget'
  BY <1>0, <1>1, SameBudget DEF WorkerTypes, TypeOK
<1> QED
  BY <1>0, <1>1, <1>5, <1>6, <1>7, SameRecords DEF WorkerInv


(* consumer.close() and the first step of store.close().                   *)
LEMMA CloseWorkerInv == WorkerInv /\ CloseWorker => WorkerInv'
<1> SUFFICES ASSUME WorkerInv, CloseWorker PROVE WorkerInv'
  OBVIOUS
<1>0. WorkerTypes /\ LoopInv /\ RecordsAccountedFor /\ Budget
  BY DEF WorkerInv
<1>1. /\ worker = "closing" /\ worker' = "closed" /\ committed' = position
      /\ UNCHANGED <<stopping, position, batch, model, todo, restarts>>
      /\ UNCHANGED <<examined, lost, jumped, skipped, failures, forgotten, offline>>
      /\ stop' = TRUE /\ closer' = "joining"
      /\ UNCHANGED <<connected, pending, copies, writer, faults, appended, unsure>>
  BY DEF CloseWorker, CloseBegin, history
<1>2. \A a \in Alerts : Waits(a)' <=> Waits(a)
  BY <1>1 DEF Waits, Elems
<1>3. \A a \in Alerts : (Unseen(a)' <=> Unseen(a)) /\ (Owed(a)' <=> Owed(a))
  BY <1>1, <1>2 DEF Unseen, Owed
<1>4. CopiesInv' /\ OwedIsHeld' /\ AtLeastOnce' /\ ShortPending'
  BY <1>1, <1>2, <1>3 DEF WorkerInv, CopiesInv, OwedIsHeld, AtLeastOnce, ShortPending, Elems
<1>5. WorkerTypes' /\ LoopInv'
  <2>1. TypeOK'
    BY <1>0, <1>1 DEF WorkerTypes, TypeOK
  <2>2. committed' \in 0..position'
    BY <1>0, <1>1, WorkerAssumption DEF WorkerTypes
  <2> QED
    BY <1>0, <1>1, <2>1, <2>2 DEF WorkerTypes, LoopInv, Elems
<1>6. Budget'
  BY <1>0, <1>1, SameBudget DEF WorkerTypes, TypeOK
<1> QED
  BY <1>0, <1>1, <1>4, <1>5, <1>6, SameRecords DEF WorkerInv

(* The writer thread and the rest of close().                              *)
LEMMA StoreStepInv == WorkerInv /\ StoreStep => WorkerInv'
<1> SUFFICES ASSUME WorkerInv, StoreStep PROVE WorkerInv'
  OBVIOUS
<1>0. /\ WorkerTypes /\ LoopInv /\ RecordsAccountedFor /\ TypeOK /\ ShortPending
      /\ CopiesInv /\ OwedIsHeld /\ AtLeastOnce /\ restarts \in Nat /\ Budget
  BY DEF WorkerInv, WorkerTypes
<1>1. /\ UNCHANGED <<worker, stopping, position, committed, batch, model, todo, restarts>>
      /\ UNCHANGED <<examined, lost, jumped, skipped, failures, forgotten, offline>>
  BY DEF StoreStep, workerVars, history
<1>2. pending \in Seq(Alerts) /\ Elems(pending) \subseteq Alerts
  BY <1>0, ElemsFacts DEF TypeOK
<1>3. /\ Carried(pending) /\ TypeOK' /\ ShortPending' /\ appended' = appended
      /\ closer' # "open" <=> closer # "open"
      /\ connected' = connected /\ faults' \in Nat /\ faults <= faults'
  <2>1. ASSUME FlushLocked(pending), UNCHANGED <<connected, stop, appended>>,
               writer' \in {"check", "sleep", "done"},
               closer' \in {"open", "joining", "flush", "closed"},
               closer' = closer \/ (closer = "flush" /\ closer' = "closed")
        PROVE  /\ Carried(pending) /\ TypeOK' /\ ShortPending' /\ appended' = appended
               /\ closer' # "open" <=> closer # "open"
               /\ connected' = connected /\ faults' \in Nat /\ faults <= faults'
    <3>1. Carried(pending)
      BY <1>0, <1>2, <2>1, FlushCarries
    <3>2. /\ connected /\ faults' = 0 => pending' = <<>>
          /\ faults' \in Nat /\ faults <= faults'
      BY <1>0, <1>2, <2>1, FlushKeeps
    <3>4. Len(<<>>) < BatchSize
      BY ClickHouseAssumption
    <3>3. TypeOK'
      BY <1>0, <2>1, <3>1 DEF TypeOK, Carried
    <3> QED
      BY <2>1, <3>1, <3>2, <3>3, <3>4 DEF ShortPending
  <2>2. ASSUME UNCHANGED <<connected, pending, copies, stop, faults, appended, unsure>>,
               writer' \in {"check", "sleep", "done"},
               closer' = closer \/ (closer = "joining" /\ closer' = "flush")
        PROVE  /\ Carried(pending) /\ TypeOK' /\ ShortPending' /\ appended' = appended
               /\ closer' # "open" <=> closer # "open"
               /\ connected' = connected /\ faults' \in Nat /\ faults <= faults'
    <3>1. Carried(pending)
      BY <1>0, <1>2, <2>2, QuietCarries
    <3>2. TypeOK'
      BY <1>0, <2>2 DEF TypeOK
    <3> QED
      BY <1>0, <2>2, <3>1, <3>2 DEF ShortPending, TypeOK
  <2>3. CASE WriterCheck
    BY <2>2, <2>3 DEF WriterCheck
  <2>4. CASE WriterFlush
    BY <1>0, <2>1, <2>4 DEF WriterFlush, TypeOK
  <2>5. CASE CloseJoined
    BY <1>0, <2>2, <2>5 DEF CloseJoined, TypeOK
  <2>6. CASE CloseFlush
    BY <1>0, <2>1, <2>6 DEF CloseFlush, TypeOK
  <2> QED
    BY <2>3, <2>4, <2>5, <2>6 DEF StoreStep
<1>4. \A a \in Alerts : (Waits(a)' <=> Waits(a))
  BY <1>1 DEF Waits, Elems
<1>5. \A a \in Alerts : (Unseen(a)' <=> Unseen(a)) /\ (Owed(a)' <=> Owed(a))
  BY <1>1, <1>4 DEF Unseen, Owed
<1>6. CopiesInv' /\ OwedIsHeld' /\ AtLeastOnce'
  <2>1. \A a \in Alerts : copies[a] <= 1 + unsure + restarts'
    BY <1>0, <1>1 DEF CopiesInv
  <2>2. \A a \in Elems(pending) : copies[a] <= unsure + restarts'
    BY <1>0, <1>1, <1>2 DEF CopiesInv
  <2>3. \A a \in Alerts : Unseen(a)' =>
            a \notin Elems(pending) /\ copies[a] <= unsure + restarts'
    BY <1>0, <1>1, <1>5 DEF CopiesInv
  <2>4. \A a \in Alerts : Owed(a)' => copies[a] > 0 \/ a \in Elems(pending) \/ Waits(a)'
    BY <1>0, <1>4, <1>5 DEF OwedIsHeld
  <2>5. \A a \in appended' \ Malformed : a \in Elems(pending) \/ copies[a] > 0
    BY <1>0, <1>3 DEF AtLeastOnce
  <2>6. appended' \subseteq Alerts /\ restarts' \in Nat
    BY <1>0, <1>1, <1>3 DEF TypeOK
  <2> QED
    BY <1>0, <1>2, <1>3, <2>1, <2>2, <2>3, <2>4, <2>5, <2>6, Carries
<1>7. WorkerTypes' /\ LoopInv'
  BY <1>0, <1>1, <1>3 DEF WorkerTypes, LoopInv, Elems
<1>8. Budget'
  <2>1. faults \in Nat
    BY <1>0 DEF TypeOK
  <2> QED
    BY <1>0, <1>1, <1>3, <2>1, SameBudget
<1> QED
  BY <1>0, <1>1, <1>3, <1>6, <1>7, <1>8, SameRecords DEF WorkerInv

(* One anomaly goes to the store, and perhaps the rest of its model's are  *)
(* given up.                                                               *)
LEMMA EmitInv == \A r \in 1..NRecords : WorkerInv /\ Emit(r) => WorkerInv'
<1> SUFFICES ASSUME NEW r \in 1..NRecords, WorkerInv, Emit(r) PROVE WorkerInv'
  OBVIOUS
<1> DEFINE e == <<r, Models[model]>>
           p == Append(pending, e)
<1>0. /\ WorkerTypes /\ LoopInv /\ RecordsAccountedFor /\ TypeOK
      /\ CopiesInv /\ OwedIsHeld /\ AtLeastOnce /\ restarts \in Nat /\ Budget
  BY DEF WorkerInv, WorkerTypes
<1>1. /\ worker = "emit" /\ r \in todo /\ r \in Elems(batch) /\ closer = "open"
      /\ UNCHANGED <<worker, stopping, position, committed, batch, model, restarts>>
      /\ UNCHANGED <<examined, lost, jumped, forgotten, offline>>
      /\ UNCHANGED <<connected, stop, writer, closer>>
      /\ appended' = appended \cup {e}
  BY <1>0 DEF Emit, AppendAlert, WorkerTypes
<1>2. /\ todo' \subseteq todo \ {r} /\ skipped \subseteq skipped'
      /\ \A q \in todo \ {r} : q \in todo' \/ <<q, Models[model]>> \in skipped'
  BY <1>1 DEF Emit, AlertsOf
<1>3. e \in Alerts /\ e[1] = r /\ e[2] = Models[model]
  BY <1>0, <1>1 DEF LoopInv
<1>4. /\ pending \in Seq(Alerts) /\ Elems(pending) \subseteq Alerts
      /\ p \in Seq(Alerts) /\ Elems(p) = Elems(pending) \cup {e}
  <2>1. pending \in Seq(Alerts)
    BY <1>0 DEF TypeOK
  <2> QED
    BY <1>3, <2>1, AppendElems, ElemsFacts
<1>5. Carried(p) /\ faults <= faults' /\ (connected /\ faults' = 0 => Len(pending') < BatchSize)
  <2>0. Len(<<>>) < BatchSize /\ Len(p) \in Nat /\ BatchSize \in Nat /\ faults \in Nat
    BY <1>0, <1>4, ClickHouseAssumption, ElemsFacts DEF TypeOK
  <2>1. CASE FlushLocked(p)
    <3>1. faults <= faults' /\ (connected /\ faults' = 0 => pending' = <<>>)
      BY <1>0, <1>4, <2>1, FlushKeeps
    <3> QED
      BY <1>0, <1>4, <2>0, <2>1, <3>1, FlushCarries
  <2>2. CASE ~BatchFull(p) /\ pending' = p /\ UNCHANGED <<copies, faults, unsure>>
    <3>1. pending' \in Seq(Alerts)
      BY <1>4, <2>2
    <3>2. Carried(pending')
      BY <1>0, <2>2, <3>1, QuietCarries
    <3>3. Len(pending') < BatchSize
      BY <2>0, <2>2 DEF BatchFull
    <3> QED
      BY <2>0, <2>2, <3>2, <3>3
  <2> QED
    BY <2>1, <2>2 DEF Emit, AppendAlert, Queued
<1>6. Waits(e)
  <2>1. model \in model..Len(Models)
    BY <1>0, ModelFacts DEF WorkerTypes
  <2> QED
    BY <1>1, <1>3, <2>1 DEF Waits
<1> HIDE DEF p
<1>7. ASSUME NEW a \in Alerts, Waits(a)'
      PROVE  Waits(a) /\ a # e
  <2>1. PICK i \in model..Len(Models) :
              a[2] = Models[i] /\ (i = model => a[1] \in todo')
    BY <1>1, <1>7 DEF Waits
  <2>2. a[1] \in Elems(batch)
    BY <1>1, <1>7 DEF Waits, Elems
  <2>3. Waits(a)
    BY <1>2, <2>1, <2>2 DEF Waits
  <2>4. ASSUME a = e PROVE FALSE
    <3>1. a[1] = r /\ a[2] = Models[model]
      BY <1>3, <2>4
    <3>2. i \in 1..Len(Models) /\ model \in 1..Len(Models)
      BY <1>0, <2>1, ModelFacts DEF WorkerTypes
    <3>3. Models[i] = Models[model]
      BY <2>1, <3>1
    <3>4. i = model
      BY <3>2, <3>3, ModelFacts
    <3> QED
      BY <1>2, <2>1, <3>1, <3>4
  <2> QED
    BY <2>3, <2>4
<1>8. ASSUME NEW a \in Alerts, Waits(a), a # e, a \notin skipped'
      PROVE  Waits(a)'
  <2>1. PICK i \in model..Len(Models) :
              a[2] = Models[i] /\ (i = model => a[1] \in todo)
    BY <1>1, <1>8 DEF Waits
  <2>2. a[1] \in Elems(batch) /\ a = <<a[1], a[2]>>
    BY <1>8, AlertShape DEF Waits
  <2>3. ASSUME i = model PROVE a[1] \in todo'
    <3>1. a[1] \in todo /\ a = <<a[1], Models[model]>>
      BY <2>1, <2>2, <2>3
    <3>2. a[1] # r
      BY <1>8, <3>1
    <3> QED
      BY <1>2, <1>8, <3>1, <3>2
  <2> QED
    BY <1>1, <2>1, <2>2, <2>3 DEF Waits, Elems
<1>9. ~(e[1] > position)
  <2>1. r \in 1..position /\ position \in Nat
    BY <1>0, <1>1, WorkerAssumption DEF LoopInv, WorkerTypes
  <2> QED
    BY <1>3, <2>1
<1>10. CopiesInv' /\ OwedIsHeld' /\ AtLeastOnce'
  <2>1. \A a \in Alerts : copies[a] <= 1 + unsure + restarts'
    BY <1>0, <1>1 DEF CopiesInv
  <2>2. \A a \in Elems(p) : copies[a] <= unsure + restarts'
    BY <1>0, <1>1, <1>3, <1>4, <1>6 DEF CopiesInv, Unseen
  <2>3. \A a \in Alerts : Unseen(a)' => Unseen(a) /\ a # e
    BY <1>1, <1>7, <1>9 DEF Unseen
  <2>4. \A a \in Alerts : Unseen(a)' =>
            a \notin Elems(p) /\ copies[a] <= unsure + restarts'
    BY <1>0, <1>1, <1>4, <2>3 DEF CopiesInv
  <2>5. ASSUME NEW a \in Alerts, Owed(a)'
        PROVE  copies[a] > 0 \/ a \in Elems(p) \/ Waits(a)'
    <3>1. Owed(a) /\ a \notin skipped'
      BY <1>1, <1>2, <2>5 DEF Owed
    <3>2. copies[a] > 0 \/ a \in Elems(pending) \/ Waits(a)
      BY <1>0, <3>1 DEF OwedIsHeld
    <3> QED
      BY <1>4, <1>8, <3>1, <3>2
  <2>6. \A a \in appended' \ Malformed : a \in Elems(p) \/ copies[a] > 0
    BY <1>0, <1>1, <1>4 DEF AtLeastOnce
  <2>7. appended' \subseteq Alerts /\ restarts' \in Nat
    BY <1>0, <1>1, <1>3 DEF TypeOK
  <2> QED
    BY <1>0, <1>4, <1>5, <2>1, <2>2, <2>4, <2>5, <2>6, <2>7, Carries
<1>11. TypeOK' /\ ShortPending'
  <2>1. appended' \subseteq Alerts
    BY <1>0, <1>1, <1>3 DEF TypeOK
  <2> QED
    BY <1>0, <1>1, <1>5, <2>1 DEF TypeOK, Carried, ShortPending
<1>12. WorkerTypes' /\ LoopInv'
  BY <1>0, <1>1, <1>2, <1>11 DEF WorkerTypes, LoopInv, Elems
<1>13. Budget'
  <2>0. /\ faults \in Nat /\ faults' \in Nat /\ faults <= faults'
        /\ todo \ {r} \subseteq Elems(batch)
    BY <1>0, <1>5 DEF TypeOK, Carried, WorkerTypes
  <2>1. CASE UNCHANGED <<skipped, failures>>
    BY <1>0, <1>1, <2>0, <2>1, SameBudget
  <2>2. CASE skipped' = skipped \cup AlertsOf(todo \ {r}, Models[model]) /\ failures' = failures + 1
    BY <1>0, <1>1, <2>0, <2>2, SkipBudget
  <2> QED
    BY <2>1, <2>2 DEF Emit
<1> QED
  BY <1>0, <1>1, <1>10, <1>11, <1>12, <1>13, SameRecords DEF WorkerInv

(* A process dies and the next begins: the batch up to the new position is *)
(* lost, what was pending is forgotten, and the anomalies of the records    *)
(* polled again may get a row more, which restarts allows for.             *)
LEMMA RestartInv == WorkerInv /\ Restart => WorkerInv'
<1> SUFFICES ASSUME WorkerInv, Restart PROVE WorkerInv'
  OBVIOUS
<1>0. /\ WorkerTypes /\ LoopInv /\ RecordsAccountedFor /\ TypeOK
      /\ CopiesInv /\ OwedIsHeld /\ AtLeastOnce /\ restarts \in Nat
      /\ ShortPending /\ Budget
      /\ position \in 0..NRecords /\ committed \in 0..position
      /\ batch \in Seq(Records) /\ NRecords \in Nat
  BY WorkerAssumption DEF WorkerInv, WorkerTypes
<1>1. /\ restarts' = restarts + 1 /\ connected' \in BOOLEAN
      /\ pending' = <<>> /\ appended' = {}
      /\ stop' = FALSE /\ writer' = "check" /\ closer' = "open"
      /\ worker' = "poll" /\ stopping' = FALSE
      /\ batch' = <<>> /\ model' = 1 /\ todo' = {}
      /\ lost' = lost \cup (Elems(batch) \cap (1..position'))
      /\ jumped' = jumped \cup ((position + 1)..position')
      /\ forgotten' = forgotten \cup Elems(pending)
      /\ offline' = (offline \/ ~connected')
      /\ UNCHANGED <<copies, faults, unsure, committed, examined, skipped, failures>>
  BY DEF Restart
<1>2. position' \in 0..NRecords /\ committed' \in 0..position'
  <2>1. CASE position' = committed
    BY <1>0, <1>1, <2>1
  <2>2. CASE committed = 0 /\ position' \in position..NRecords
    BY <1>0, <1>1, <2>2
  <2> QED
    BY <2>1, <2>2 DEF Restart
<1>3. /\ Elems(<<>>) = {} /\ <<>> \in Seq(Records) /\ <<>> \in Seq(Alerts) /\ Len(<<>>) = 0
      /\ Elems(batch') = {} /\ Elems(pending') = {}
  BY <1>1 DEF Elems
<1>4. TypeOK' /\ ShortPending'
  <2>1. stop' \in BOOLEAN
    BY <1>1
  <2> QED
    BY <1>0, <1>1, <1>3, <2>1, ClickHouseAssumption DEF TypeOK, ShortPending
<1>5. Carried(<<>>)
  <2>1. pending' \in Seq(Alerts)
    BY <1>1, <1>3
  <2>2. Carried(pending')
    BY <1>0, <1>1, <2>1, QuietCarries
  <2> QED
    BY <1>1, <2>2
<1>6. CopiesInv' /\ OwedIsHeld' /\ AtLeastOnce'
  <2>0. copies \in [Alerts -> Nat] /\ unsure \in Nat
    BY <1>0 DEF TypeOK
  <2>1. \A a \in Alerts : copies[a] <= unsure + restarts'
    BY <1>0, <1>1, <2>0 DEF CopiesInv
  <2>2. \A a \in Alerts : copies[a] <= 1 + unsure + restarts'
    BY <1>0, <1>1, <2>0, <2>1
  <2>3. ASSUME NEW a \in Alerts, Owed(a)'
        PROVE  copies[a] > 0
    <3>1. /\ a \notin Malformed \cup skipped \cup forgotten /\ a \notin Elems(pending)
          /\ a[1] \in 1..position' /\ a[1] \notin lost \cup jumped
          /\ a[1] \notin Elems(batch) /\ a[1] \notin (position + 1)..position'
      BY <1>1, <2>3 DEF Owed
    <3>2. a[1] \in 1..position
      BY <1>0, <1>2, <3>1
    <3>3. Owed(a) /\ ~Waits(a)
      BY <3>1, <3>2 DEF Owed, Waits
    <3> QED
      BY <1>0, <3>1, <3>3 DEF OwedIsHeld
  <2>4. restarts' \in Nat
    BY <1>0, <1>1
  <2> QED
    BY <1>0, <1>1, <1>3, <1>5, <2>1, <2>2, <2>3, <2>4, Carries
<1>7. WorkerTypes' /\ LoopInv'
  <2>1. model' \in 1..Len(Models) /\ InferenceBatch > 0 /\ InferenceBatch \in Nat
    BY <1>1, ModelFacts, WorkerAssumption
  <2>2. stopping' \in BOOLEAN /\ restarts' \in Nat /\ lost' \subseteq 1..NRecords
    <3>1. lost \subseteq 1..NRecords /\ Elems(batch) \subseteq Records
      BY <1>0, ElemsFacts DEF WorkerTypes
    <3>2. lost' \subseteq 1..NRecords
      BY <1>1, <3>1 DEF Records
    <3>3. restarts' \in Nat
      BY <1>0, <1>1
    <3> QED
      BY <1>1, <3>2, <3>3
  <2>3. WorkerTypes'
    BY <1>1, <1>2, <1>3, <1>4, <2>1, <2>2 DEF WorkerTypes, Elems
  <2>4. LoopInv'
    BY <1>1, <1>3, <2>1 DEF LoopInv, Elems
  <2> QED
    BY <2>3, <2>4
<1>8. RecordsAccountedFor'
  <2>1. {r \in 1..position' : Taken(r)} \subseteq examined' \cup Elems(batch') \cup lost' \cup jumped'
    <3> SUFFICES ASSUME NEW x \in 1..position', Taken(x)
                 PROVE  x \in examined' \cup lost' \cup jumped'
      OBVIOUS
    <3>1. CASE x \in 1..position
      BY <1>0, <1>1, <3>1 DEF RecordsAccountedFor
    <3>2. CASE x \notin 1..position
      <4>1. x \in (position + 1)..position'
        BY <1>0, <1>2, <3>2
      <4> QED
        BY <1>1, <4>1
    <3> QED
      BY <3>1, <3>2
  <2>2. Cardinality(lost') <= restarts' * InferenceBatch
    <3> DEFINE new == Elems(batch) \cap (1..position')
    <3>1. IsFiniteSet(lost) /\ Cardinality(lost) \in Nat
      <4>1. IsFiniteSet(1..NRecords) /\ lost \in SUBSET (1..NRecords)
        BY <1>0, FS_Interval DEF WorkerTypes
      <4> QED
        BY <4>1, FS_Subset, FS_CardinalityType
    <3>2. IsFiniteSet(Elems(batch)) /\ Cardinality(Elems(batch)) <= Len(batch) /\ Len(batch) \in Nat
      BY <1>0, ElemsFacts
    <3>3. IsFiniteSet(new) /\ Cardinality(new) <= Cardinality(Elems(batch))
      BY <3>2, FS_Subset
    <3>4. /\ Cardinality(new) \in Nat /\ Cardinality(Elems(batch)) \in Nat
          /\ Cardinality(lost \cap new) \in Nat
      <4>1. IsFiniteSet(lost \cap new)
        BY <3>1, FS_Subset
      <4> QED
        BY <3>2, <3>3, <4>1, FS_CardinalityType
    <3>5. Cardinality(lost') = Cardinality(lost) + Cardinality(new) - Cardinality(lost \cap new)
      BY <1>1, <3>1, <3>3, FS_Union
    <3>6. Len(batch) <= InferenceBatch /\ InferenceBatch \in Nat
      BY <1>0, WorkerAssumption DEF LoopInv
    <3>7. Cardinality(new) <= InferenceBatch
      BY <3>2, <3>3, <3>4, <3>6
    <3>8. Cardinality(lost) <= restarts * InferenceBatch
      BY <1>0 DEF RecordsAccountedFor
    <3>9. restarts' * InferenceBatch = restarts * InferenceBatch + InferenceBatch
      BY <1>0, <1>1, <3>6
    <3>10. restarts * InferenceBatch \in Nat
      BY <1>0, <3>6
    <3> HIDE DEF new
    <3> QED
      BY <3>1, <3>4, <3>5, <3>6, <3>7, <3>8, <3>9, <3>10
  <2> QED
    BY <2>1, <2>2 DEF RecordsAccountedFor, Elems, Taken
<1>9. Budget'
  <2>1. /\ IsFiniteSet(Elems(pending)) /\ Cardinality(Elems(pending)) <= Len(pending)
        /\ Len(pending) \in Nat /\ Cardinality(Elems(pending)) \in Nat
    BY <1>0, ElemsFacts, FS_CardinalityType DEF TypeOK
  <2>2. IsFiniteSet(forgotten) /\ Cardinality(forgotten) \in Nat
    BY <1>0, FS_CardinalityType DEF Budget
  <2>3. /\ IsFiniteSet(forgotten')
        /\ Cardinality(forgotten') = Cardinality(forgotten) + Cardinality(Elems(pending))
                                        - Cardinality(forgotten \cap Elems(pending))
    BY <1>1, <2>1, <2>2, FS_Union
  <2>4. Cardinality(forgotten \cap Elems(pending)) \in Nat
    BY <2>2, FS_Subset, FS_CardinalityType
  <2>5. ASSUME ~offline', faults' = 0
        PROVE  Cardinality(forgotten') <= restarts' * (BatchSize - 1)
    <3>1. ~offline /\ faults = 0 /\ connected
      BY <1>0, <1>1, <2>5 DEF Budget
    <3>2. Len(pending) < BatchSize /\ Cardinality(forgotten) <= restarts * (BatchSize - 1)
      BY <1>0, <3>1 DEF ShortPending, Budget
    <3>3. BatchSize \in Nat /\ BatchSize > 0
      BY ClickHouseAssumption
    <3>4. /\ restarts' * (BatchSize - 1) = restarts * (BatchSize - 1) + (BatchSize - 1)
          /\ restarts * (BatchSize - 1) \in Nat
      BY <1>0, <1>1, <3>3
    <3> QED
      BY <2>1, <2>2, <2>3, <2>4, <3>2, <3>3, <3>4
  <2>6. offline' \in BOOLEAN /\ (~offline' => connected')
    BY <1>0, <1>1 DEF Budget
  <2> QED
    BY <1>0, <1>1, <2>3, <2>5, <2>6 DEF Budget
<1> QED
  BY <1>4, <1>6, <1>7, <1>8, <1>9 DEF WorkerInv

-----------------------------------------------------------------------------
LEMMA WorkerInitInv == WorkerInit => WorkerInv
<1> SUFFICES ASSUME WorkerInit PROVE WorkerInv
  OBVIOUS
<1>1. TypeOK /\ AtLeastOnce /\ Elems(pending) = {} /\ \A a \in Alerts : copies[a] = 0
  BY StoreInvInit DEF WorkerInit, Init, StoreInv, Elems
<1>2. Elems(batch) = {} /\ batch \in Seq(Records) /\ Len(batch) = 0
  BY DEF WorkerInit, Elems
<1>3. WorkerTypes
  <2>1. position \in 0..NRecords /\ committed \in 0..position /\ restarts \in Nat
    BY WorkerAssumption DEF WorkerInit
  <2>2. model \in 1..Len(Models)
    BY ModelFacts DEF WorkerInit
  <2>3. stopping \in BOOLEAN
    BY DEF WorkerInit
  <2> QED
    BY <1>1, <1>2, <2>1, <2>2, <2>3 DEF WorkerInit, WorkerTypes
<1>4. LoopInv /\ ShortPending
  BY <1>2, WorkerAssumption, ClickHouseAssumption DEF WorkerInit, Init, LoopInv, ShortPending
<1>5. CopiesInv /\ OwedIsHeld
  <2>1. unsure = 0 /\ restarts = 0 /\ position = 0
    BY DEF WorkerInit, Init
  <2>2. \A a \in Alerts : ~Owed(a)
    BY <2>1 DEF Owed
  <2> QED
    BY <1>1, <2>1, <2>2 DEF CopiesInv, OwedIsHeld
<1>6. RecordsAccountedFor
  <2>1. (1..position) = {} /\ Cardinality(lost) = 0 /\ restarts = 0 /\ InferenceBatch \in Nat
    BY FS_EmptySet, WorkerAssumption DEF WorkerInit
  <2>2. restarts * InferenceBatch = 0
    BY <2>1
  <2> QED
    BY <2>1, <2>2 DEF RecordsAccountedFor
<1>7. Budget
  <2>1. /\ failures = 0 /\ restarts = 0 /\ skipped = {} /\ forgotten = {}
        /\ offline = ~connected /\ connected \in BOOLEAN
        /\ InferenceBatch \in Nat /\ BatchSize \in Nat
    BY WorkerAssumption, ClickHouseAssumption DEF WorkerInit, Init
  <2>2. IsFiniteSet({}) /\ Cardinality({}) = 0
    BY FS_EmptySet
  <2>3. failures * InferenceBatch = 0 /\ restarts * (BatchSize - 1) = 0
    BY <2>1
  <2>4. offline \in BOOLEAN /\ (~offline => connected)
    BY <2>1
  <2>5. /\ failures \in Nat /\ IsFiniteSet(skipped) /\ IsFiniteSet(forgotten)
        /\ Cardinality(skipped) <= failures * InferenceBatch
        /\ Cardinality(forgotten) <= restarts * (BatchSize - 1)
    BY <2>1, <2>2, <2>3
  <2> QED
    BY <2>4, <2>5 DEF Budget
<1> QED
  BY <1>1, <1>3, <1>4, <1>5, <1>6, <1>7 DEF WorkerInv

LEMMA WorkerStepInv == WorkerInv /\ [WorkerNext]_wvars => WorkerInv'
<1> SUFFICES ASSUME WorkerInv, [WorkerNext]_wvars PROVE WorkerInv'
  OBVIOUS
<1>1. CASE UNCHANGED wvars
  <2>1. /\ UNCHANGED <<worker, stopping, position, committed, batch, model, todo, restarts>>
        /\ UNCHANGED <<examined, lost, jumped, skipped, failures, forgotten, offline>>
        /\ UNCHANGED <<connected, pending, copies, stop, writer, closer, faults, appended, unsure>>
    BY <1>1 DEF wvars, storeVars, workerVars, history
  <2>2. \A a \in Alerts : Waits(a)' <=> Waits(a)
    BY <2>1 DEF Waits, Elems
  <2>3. \A a \in Alerts : (Unseen(a)' <=> Unseen(a)) /\ (Owed(a)' <=> Owed(a))
    BY <2>1, <2>2 DEF Unseen, Owed
  <2>4. CopiesInv' /\ OwedIsHeld' /\ AtLeastOnce' /\ ShortPending'
    BY <2>1, <2>2, <2>3 DEF WorkerInv, CopiesInv, OwedIsHeld, AtLeastOnce, ShortPending, Elems
  <2>5. WorkerTypes' /\ LoopInv'
    BY <2>1 DEF WorkerInv, WorkerTypes, TypeOK, LoopInv, Elems
  <2>6. Budget'
    BY <2>1, SameBudget DEF WorkerInv, WorkerTypes, TypeOK
  <2> QED
    BY <2>1, <2>4, <2>5, <2>6, SameRecords DEF WorkerInv
<1> QED
  BY <1>1, PollInv, PredictedInv, EmitInv, NextModelInv, BatchDoneInv, ControlInv, CloseWorkerInv,
     RestartInv, StoreStepInv DEF WorkerNext

(* The worker's inductive invariant.                                       *)
THEOREM WorkerInvariant == WorkerSpec => []WorkerInv
  BY WorkerInitInv, WorkerStepInv, PTL DEF WorkerSpec

(* worker.py 172-221: an offset may be committed before its record was     *)
(* examined, but of the records polled a crash costs at most one batch;    *)
(* what lay before the first commit of a process is not bounded.           *)
THEOREM CrashCostsOneBatch == WorkerSpec => []RecordsAccountedFor
  BY WorkerInvariant, PTL DEF WorkerInv

(* worker.py 232-278 and clickhouse_store.py 113-118: of the records that  *)
(* were not lost, every anomaly is stored or on its way, but for at most a *)
(* batch for each failure of a model or of produce, and, while ClickHouse  *)
(* takes INSERTs, less than a batch of the store for each crash.           *)
THEOREM AnomalyLossIsBounded == WorkerSpec => []LossesBounded
<1>1. WorkerInv => LossesBounded
  BY DEF WorkerInv, Budget, OwedIsHeld, Owed, LossesBounded
<1> QED
  BY <1>1, WorkerInvariant, PTL

(* worker.py 264-275: a row too many takes an INSERT that raised after     *)
(* writing or a process that polled the record again.                      *)
THEOREM WorkerStoresOnce == WorkerSpec => []DuplicatesNeedRestart
<1>1. WorkerInv => DuplicatesNeedRestart
  BY DEF WorkerInv, CopiesInv, DuplicatesNeedRestart
<1> QED
  BY <1>1, WorkerInvariant, PTL

(* clickhouse_store.py 163-184 inside the worker: no race of its emits,    *)
(* the writer thread, close() and failing INSERTs loses what this process  *)
(* has given to the store.                                                 *)
THEOREM WorkerStoresAtLeastOnce == WorkerSpec => []AtLeastOnce
  BY WorkerInvariant, PTL DEF WorkerInv

=============================================================================
