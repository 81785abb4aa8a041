------------------------- MODULE AlertStore_proofs --------------------------
(***************************************************************************)
(* AlertStore for every set of stores, threads and alerts, every batch     *)
(* size and every choice of failing sqlite calls: no alert is lost without *)
(* a trace, a flush that raised leaves nothing behind, a reader's count    *)
(* and rows agree, and a reader sees what its store had accepted.          *)
(*                                                                         *)
(* The argument has two halves.  About the data, every method is a change  *)
(* of the connection (Connects) together with one fate of a batch (Fate);  *)
(* the lemma BatchKeeps treats them all at once.  About the threads, the   *)
(* lock keeps everyone else from the store a reader is in.                 *)
(***************************************************************************)
EXTENDS AlertStore, FiniteSetTheorems, TLAPS

PcValues == {"idle", "count", "select", "recreate", "reinit"}

(* The types of the store's state.                                         *)
TypeOK ==
    /\ lock \in [Stores -> Threads \cup {NoOne}]
    /\ buffer \in [Stores -> Seq(Alerts)]
    /\ conn \in [Stores -> Nat]
    /\ path \in Nat
    /\ created \in 0..MaxFiles
    /\ rows \in [Files -> SUBSET Alerts]
    /\ schema \subseteq {f \in Files : f <= created}
    /\ ready \subseteq Stores
    /\ pc \in [Threads -> PcValues]
    /\ hooks \subseteq Alerts /\ sent \subseteq Alerts
    /\ offered \subseteq Alerts /\ dropped \subseteq Alerts
    /\ cleared \subseteq Alerts
    /\ accepted \in [Stores -> SUBSET Alerts]
    /\ seen \in [Threads -> SUBSET Alerts]
    /\ total \in [Threads -> Nat]

-----------------------------------------------------------------------------
(* The data half of the inductive invariant.                               *)

(* Files are numbered as they are created, and the path names the newest   *)
(* or nothing: a file not yet created has no row.                          *)
FilesInOrder ==
    /\ path \in {0, created}
    /\ \A s \in Stores : conn[s] <= created
    /\ \A f \in Files : f > created => rows[f] = {}

(* What a store holds, wrote, accepted or dropped was handed to it.        *)
OnlyOffered ==
    /\ \A s \in Stores : AlertsIn(buffer[s]) \subseteq offered /\ accepted[s] \subseteq offered
    /\ \A f \in Files : rows[f] \subseteq offered
    /\ dropped \subseteq offered /\ IsFiniteSet(offered)

(* A buffered alert is in no file, in no other store's buffer, and no      *)
(* other store has accepted it.                                            *)
BufferedOnce ==
    \A s \in Stores :
        /\ \A f \in Files : AlertsIn(buffer[s]) \cap rows[f] = {}
        /\ \A x \in Stores \ {s} : /\ AlertsIn(buffer[s]) \cap AlertsIn(buffer[x]) = {}
                                   /\ AlertsIn(buffer[s]) \cap accepted[x] = {}

(* NoSilentLoss and FailedFlushLeavesNothing, file by file.                *)
Settled(a) == a \in dropped \/ a \in cleared \/ \E f \in Files : a \in rows[f]
Kept == \A s \in Stores : \A a \in accepted[s] : a \in AlertsIn(buffer[s]) \/ Settled(a)
DroppedIsGone ==
    /\ \A f \in Files : dropped \cap rows[f] = {}
    /\ \A s \in Stores : dropped \cap AlertsIn(buffer[s]) = {}

(* A store connected to a file other than the one at the path has written  *)
(* nothing to the one at the path.                                         *)
WrittenWhereOpen ==
    \A s \in Stores :
        path # 0 /\ conn[s] \notin {0, path} => accepted[s] \cap rows[path] = {}

DataInv == FilesInOrder /\ OnlyOffered /\ BufferedOnce /\ Kept /\ DroppedIsGone /\ WrittenWhereOpen

-----------------------------------------------------------------------------
(* The thread half.                                                        *)

(* A thread between two steps of one method holds its store's lock.  A     *)
(* reader before its second SELECT is connected and has counted the rows   *)
(* it will get; while a read lasts, what its store had accepted when it    *)
(* began has left the buffer.                                              *)
ThreadOK(t) ==
    /\ pc[t] \in {"select", "recreate", "reinit"} => lock[Home[t]] = t
    /\ pc[t] = "select" =>
        /\ conn[Home[t]] # 0
        /\ ready = {Home[t]} => total[t] = Cardinality(rows[conn[Home[t]]])
    /\ pc[t] \in {"count", "select"} =>
        /\ Home[t] \in ready
        /\ seen[t] \subseteq accepted[Home[t]] /\ \A a \in seen[t] : Settled(a)

ThreadInv == \A t \in Threads : ThreadOK(t)

StoreInv == TypeOK /\ DataInv /\ ThreadInv

-----------------------------------------------------------------------------
(* Facts about buffers.                                                    *)
LEMMA EmptyBuffer == AlertsIn(<<>>) = {} /\ <<>> \in Seq(Alerts)
  BY DEF AlertsIn

LEMMA RecordsAreElems ==
    ASSUME NEW b PROVE Records(b) = AlertsIn(b)
  BY DEF Records, AlertsIn

LEMMA ElemsType ==
    ASSUME NEW b \in Seq(Alerts) PROVE AlertsIn(b) \subseteq Alerts
  BY DEF AlertsIn

LEMMA ElemsAppend ==
    ASSUME NEW b \in Seq(Alerts), NEW a \in Alerts
    PROVE  Append(b, a) \in Seq(Alerts) /\ AlertsIn(Append(b, a)) = AlertsIn(b) \cup {a}
<1>1. Append(b, a) \in Seq(Alerts) /\ Len(Append(b, a)) = Len(b) + 1 /\ Len(b) \in Nat
  OBVIOUS
<1>2. \A i \in 1..Len(b) : Append(b, a)[i] = b[i]
  OBVIOUS
<1>3. Append(b, a)[Len(b) + 1] = a
  OBVIOUS
<1>4. 1..(Len(b) + 1) = (1..Len(b)) \cup {Len(b) + 1}
  BY <1>1
<1>5. AlertsIn(Append(b, a)) = {Append(b, a)[i] : i \in (1..Len(b)) \cup {Len(b) + 1}}
  BY <1>1, <1>4 DEF AlertsIn
<1>6. \A x : x \in AlertsIn(Append(b, a)) <=> x \in AlertsIn(b) \cup {a}
  BY <1>2, <1>3, <1>5 DEF AlertsIn
<1> QED
  BY <1>1, <1>6

LEMMA ElemsPair ==
    ASSUME NEW b \in Seq(Alerts), NEW a1 \in Alerts, NEW a2 \in Alerts
    PROVE  /\ b \o <<a1, a2>> \in Seq(Alerts)
           /\ AlertsIn(b \o <<a1, a2>>) = AlertsIn(b) \cup {a1, a2}
<1>1. b \o <<a1, a2>> = Append(Append(b, a1), a2)
  OBVIOUS
<1>2. Append(b, a1) \in Seq(Alerts) /\ AlertsIn(Append(b, a1)) = AlertsIn(b) \cup {a1}
  BY ElemsAppend
<1>3. /\ Append(Append(b, a1), a2) \in Seq(Alerts)
      /\ AlertsIn(Append(Append(b, a1), a2)) = AlertsIn(Append(b, a1)) \cup {a2}
  BY <1>2, ElemsAppend
<1> QED
  BY <1>1, <1>2, <1>3

-----------------------------------------------------------------------------
(* What any method may do to the connection of its store s: nothing, open  *)
(* the file at the path, create it, or close and perhaps delete it.        *)
Connects(s) ==
    /\ conn' \in [Stores -> Nat] /\ path' \in Nat /\ created' \in 0..MaxFiles
    /\ \A x \in Stores \ {s} : conn'[x] = conn[x]
    /\ conn'[s] \in {0, conn[s], path'}
    /\ \/ created' = created /\ path' \in {0, path}
       \/ created' = created + 1 /\ path' = created + 1

(* What becomes of the batch b of s: it stays in the buffer, it is written *)
(* to file f, or it is dropped.                                            *)
Fate(s, b, f) ==
    /\ buffer' \in [Stores -> Seq(Alerts)] /\ rows' \in [Files -> SUBSET Alerts]
    /\ \A x \in Stores \ {s} : buffer'[x] = buffer[x]
    /\ \A g \in Files \ {f} : rows'[g] = rows[g]
    /\ \/ AlertsIn(buffer'[s]) = AlertsIn(b) /\ rows' = rows /\ dropped' = dropped
       \/ /\ f \in Files /\ f <= created' /\ conn'[s] \in {0, f}
          /\ AlertsIn(buffer'[s]) = {} /\ rows'[f] = rows[f] \cup AlertsIn(b) /\ dropped' = dropped
       \/ AlertsIn(buffer'[s]) = {} /\ rows' = rows /\ dropped' = dropped \cup AlertsIn(b)

(* _get_connection, store.py 115-133, whether it returns or raises.        *)
LEMMA GetConnectionConnects ==
    ASSUME StoreAssumption, TypeOK, FilesInOrder, NEW s \in Stores,
           GetConnection(s) \/ GetConnectionFails(s)
    PROVE  /\ Connects(s)
           /\ GetConnection(s) => conn'[s] = Opened(s) /\ Opened(s) \in Files
                                  /\ Opened(s) <= created'
<1> USE DEF StoreAssumption, TypeOK, FilesInOrder, Files, Opened, Connects
<1>1. CASE GetConnection(s)
  BY <1>1 DEF GetConnection
<1>2. CASE UNCHANGED <<conn, path, created>>
  <2>1. Connects(s)
    BY <1>2
  <2>2. ASSUME GetConnection(s) PROVE FALSE \/ (conn'[s] = Opened(s) /\ Opened(s) \in Files /\ Opened(s) <= created')
    BY <2>2 DEF GetConnection
  <2> QED
    BY <2>1, <2>2
<1> QED
  BY <1>1, <1>2 DEF GetConnectionFails

(* The files stay in order.                                                *)
LEMMA ConnectsInOrder ==
    ASSUME StoreAssumption, TypeOK, FilesInOrder, NEW s \in Stores, Connects(s)
    PROVE  /\ path' \in {0, created'} /\ created \in Nat /\ created' \in Nat
           /\ created <= created'
           /\ \A x \in Stores : conn'[x] <= created'
<1>1. created \in Nat /\ created' \in Nat /\ created <= created' /\ path' \in {0, created'}
  BY DEF StoreAssumption, TypeOK, FilesInOrder, Connects
<1>2. \A x \in Stores : conn[x] \in Nat /\ conn[x] <= created
  BY DEF TypeOK, FilesInOrder
<1>3. \A x \in Stores : conn'[x] \in {0, conn[x], path'}
  BY DEF Connects
<1> QED
  BY <1>1, <1>2, <1>3

(* Tables stay in created files.                                           *)
LEMMA TablesStay ==
    ASSUME StoreAssumption, TypeOK, FilesInOrder, NEW s \in Stores, Connects(s)
    PROVE  \A f \in schema : f \in Files /\ f <= created'
<1>1. \A f \in schema : f \in Nat /\ f \in Files /\ f <= created
  BY DEF TypeOK, Files
<1> QED
  BY <1>1, ConnectsInOrder

(* _flush_locked, store.py 137-178.                                        *)
LEMMA FlushFate ==
    ASSUME StoreAssumption, TypeOK, FilesInOrder, NEW s \in Stores,
           NEW b \in Seq(Alerts), FlushDone(s, b) \/ FlushRaises(s, b)
    PROVE  /\ Connects(s) /\ Fate(s, b, conn'[s]) /\ schema' = schema
           /\ FlushDone(s, b) => AlertsIn(buffer'[s]) = {}
           /\ dropped' \subseteq Alerts
<1> USE EmptyBuffer, RecordsAreElems, ElemsType DEF TypeOK
<1>u. ASSUME UNCHANGED <<conn, path, created>> PROVE Connects(s)
  BY <1>u DEF Connects
<1>1. ASSUME FlushDone(s, b), b = <<>>
      PROVE  Connects(s) /\ Fate(s, b, conn'[s]) /\ schema' = schema /\ AlertsIn(buffer'[s]) = {}
             /\ dropped' \subseteq Alerts
  <2>1. /\ UNCHANGED <<conn, path, created, rows, schema, dropped>>
        /\ buffer' = [buffer EXCEPT ![s] = b]
    BY <1>1 DEF FlushDone
  <2>2. buffer' \in [Stores -> Seq(Alerts)] /\ buffer'[s] = b
        /\ \A x \in Stores \ {s} : buffer'[x] = buffer[x]
    BY <2>1
  <2>3. AlertsIn(b) = {}
    BY <1>1
  <2> QED
    BY <2>1, <2>2, <2>3, <1>u DEF Fate
<1>2. ASSUME FlushDone(s, b), b # <<>>
      PROVE  Connects(s) /\ Fate(s, b, conn'[s]) /\ schema' = schema /\ AlertsIn(buffer'[s]) = {}
             /\ dropped' \subseteq Alerts
  <2>1. GetConnection(s)
    BY <1>2 DEF FlushDone
  <2>2. Connects(s) /\ conn'[s] = Opened(s) /\ Opened(s) \in Files /\ Opened(s) <= created'
    BY <2>1, GetConnectionConnects
  <2>3. /\ rows' = [rows EXCEPT ![Opened(s)] = @ \cup AlertsIn(b)]
        /\ buffer' = [buffer EXCEPT ![s] = <<>>]
        /\ schema' = schema /\ dropped' = dropped
    BY <1>2 DEF FlushDone
  <2>4. rows' \in [Files -> SUBSET Alerts]
    BY <2>2, <2>3
  <2>5. buffer' \in [Stores -> Seq(Alerts)]
    BY <2>3
  <2> QED
    BY <2>2, <2>3, <2>4, <2>5 DEF Fate
<1>3. ASSUME FlushRaises(s, b)
      PROVE  Connects(s) /\ Fate(s, b, conn'[s]) /\ schema' = schema /\ dropped' \subseteq Alerts
  <2>1. Connects(s)
    BY <1>3, GetConnectionConnects DEF FlushRaises
  <2>2. rows' = rows /\ rows' \in [Files -> SUBSET Alerts] /\ schema' = schema
    BY <1>3 DEF FlushRaises, RolledBack
  <2>3. CASE buffer' = [buffer EXCEPT ![s] = b] /\ dropped' = dropped
    BY <2>1, <2>2, <2>3 DEF Fate
  <2>4. CASE buffer' = [buffer EXCEPT ![s] = <<>>] /\ dropped' = dropped \cup AlertsIn(b)
    <3>1. buffer' \in [Stores -> Seq(Alerts)] /\ buffer'[s] = <<>>
          /\ \A x \in Stores \ {s} : buffer'[x] = buffer[x]
      BY <2>4
    <3>2. dropped' \subseteq Alerts
      BY <2>4
    <3> QED
      BY <2>1, <2>2, <2>4, <3>1, <3>2 DEF Fate
  <2> QED
    BY <1>3, <2>3, <2>4 DEF FlushRaises
<1>4. FlushDone(s, b) => AlertsIn(buffer'[s]) = {}
  BY <1>1, <1>2
<1> QED
  BY <1>1, <1>2, <1>3, <1>4

-----------------------------------------------------------------------------
(* A method of store s that is handed the new alerts N keeps the data half *)
(* of the invariant, whatever becomes of its batch, and what is settled    *)
(* stays so.                                                               *)
LEMMA BatchKeeps ==
    ASSUME StoreAssumption, TypeOK, DataInv,
           NEW s \in Stores, NEW N \in SUBSET Alerts, IsFiniteSet(N), N \cap offered = {},
           NEW b, AlertsIn(b) = AlertsIn(buffer[s]) \cup N, NEW f,
           Connects(s), Fate(s, b, f),
           offered' = offered \cup N, cleared' = cleared,
           \/ accepted' = accepted
           \/ accepted' = [accepted EXCEPT ![s] = @ \cup N]
    PROVE  DataInv' /\ \A a : Settled(a) => Settled(a)'
<1> USE DEF TypeOK, DataInv
<1>a. /\ accepted' \in [Stores -> SUBSET Alerts]
      /\ \A x \in Stores \ {s} : accepted'[x] = accepted[x]
      /\ accepted[s] \subseteq accepted'[s] /\ accepted'[s] \subseteq accepted[s] \cup N
  <2>1. CASE accepted' = accepted
    BY <2>1
  <2>2. CASE accepted' = [accepted EXCEPT ![s] = @ \cup N]
    BY <2>2
  <2> QED
    BY <2>1, <2>2
<1>b. /\ AlertsIn(buffer'[s]) \subseteq AlertsIn(b)
      /\ \A x \in Stores \ {s} : buffer'[x] = buffer[x]
      /\ \A g \in Files : rows[g] \subseteq rows'[g]
      /\ \A g \in Files : rows'[g] \subseteq rows[g] \cup AlertsIn(b)
      /\ dropped \subseteq dropped' /\ dropped' \subseteq dropped \cup AlertsIn(b)
  BY DEF Fate
<1>c. \/ AlertsIn(buffer'[s]) = AlertsIn(b) /\ rows' = rows /\ dropped' = dropped
      \/ f \in Files /\ AlertsIn(buffer'[s]) = {} /\ rows'[f] = rows[f] \cup AlertsIn(b) /\ dropped' = dropped
      \/ AlertsIn(buffer'[s]) = {} /\ rows' = rows /\ dropped' = dropped \cup AlertsIn(b)
  BY DEF Fate
<1>1. FilesInOrder'
  <2>1. path' \in {0, created'} /\ created <= created' /\ \A x \in Stores : conn'[x] <= created'
    BY ConnectsInOrder
  <2>2. ASSUME NEW g \in Files, g > created' PROVE rows'[g] = {}
    <3>1. rows[g] = {}
      BY <2>1, <2>2 DEF FilesInOrder, Files, Connects
    <3>2. rows'[g] = rows[g]
      BY <2>2, <3>1 DEF Fate, Files, Connects
    <3> QED
      BY <3>1, <3>2
  <2> QED
    BY <2>1, <2>2 DEF FilesInOrder
<1>2. OnlyOffered'
  <2>1. IsFiniteSet(offered')
    BY FS_Union DEF OnlyOffered
  <2>2. AlertsIn(b) \subseteq offered'
    BY DEF OnlyOffered
  <2> QED
    BY <1>a, <1>b, <2>1, <2>2 DEF OnlyOffered
<1>3. BufferedOnce'
  <2>1. ASSUME NEW g \in Files, NEW x \in Stores PROVE AlertsIn(buffer'[x]) \cap rows'[g] = {}
    <3>1. AlertsIn(b) \cap rows[g] = {} /\ AlertsIn(buffer[x]) \cap rows[g] = {}
      BY DEF BufferedOnce, OnlyOffered
    <3>2. CASE x = s
      BY <1>b, <1>c, <3>1, <3>2 DEF Fate
    <3>3. CASE x # s
      <4>1. AlertsIn(b) \cap AlertsIn(buffer[x]) = {}
        BY <3>3 DEF BufferedOnce, OnlyOffered
      <4> QED
        BY <1>b, <3>1, <3>3, <4>1
    <3> QED
      BY <3>2, <3>3
  <2>2. ASSUME NEW x \in Stores, NEW y \in Stores \ {x}
        PROVE  /\ AlertsIn(buffer'[x]) \cap AlertsIn(buffer'[y]) = {}
               /\ AlertsIn(buffer'[x]) \cap accepted'[y] = {}
    <3>1. /\ AlertsIn(buffer[x]) \cap AlertsIn(buffer[y]) = {}
          /\ AlertsIn(buffer[x]) \cap accepted[y] = {}
          /\ AlertsIn(buffer[x]) \subseteq offered /\ AlertsIn(buffer[y]) \subseteq offered
          /\ accepted[y] \subseteq offered
      BY DEF BufferedOnce, OnlyOffered
    <3>2. CASE x = s
      BY <1>a, <1>b, <3>1, <3>2
    <3>3. CASE y = s
      BY <1>a, <1>b, <3>1, <3>3
    <3>4. CASE x # s /\ y # s
      BY <1>a, <1>b, <3>1, <3>4
    <3> QED
      BY <3>2, <3>3, <3>4
  <2> QED
    BY <2>1, <2>2 DEF BufferedOnce
<1>4. \A a : Settled(a) => Settled(a)'
  BY <1>b DEF Settled
<1>5. Kept'
  <2>1. ASSUME NEW a \in AlertsIn(b) PROVE a \in AlertsIn(buffer'[s]) \/ Settled(a)'
    BY <1>c DEF Settled
  <2> QED
    BY <1>a, <1>b, <1>4, <2>1 DEF Kept
<1>6. DroppedIsGone'
  <2>1. AlertsIn(b) \cap dropped = {} /\ \A g \in Files : AlertsIn(b) \cap rows[g] = {}
    BY DEF DroppedIsGone, BufferedOnce, OnlyOffered
  <2>2. \A x \in Stores \ {s} : AlertsIn(b) \cap AlertsIn(buffer[x]) = {}
    BY DEF BufferedOnce, OnlyOffered
  <2>3. \A g \in Files : dropped' \cap rows'[g] = {}
    BY <1>b, <1>c, <2>1 DEF DroppedIsGone
  <2>4. \A x \in Stores : dropped' \cap AlertsIn(buffer'[x]) = {}
    <3>1. dropped' \cap AlertsIn(buffer'[s]) = {}
      BY <1>b, <1>c, <2>1
    <3>2. ASSUME NEW x \in Stores \ {s} PROVE dropped' \cap AlertsIn(buffer'[x]) = {}
      <4>1. buffer'[x] = buffer[x] /\ dropped' \subseteq dropped \cup AlertsIn(b)
        BY <1>b
      <4>2. dropped \cap AlertsIn(buffer[x]) = {} /\ AlertsIn(b) \cap AlertsIn(buffer[x]) = {}
        BY <2>2 DEF DroppedIsGone
      <4> QED
        BY <4>1, <4>2
    <3> QED
      BY <3>1, <3>2
  <2> QED
    BY <2>3, <2>4 DEF DroppedIsGone
<1>7. WrittenWhereOpen'
  <2>1. SUFFICES ASSUME NEW x \in Stores, path' # 0, conn'[x] \notin {0, path'}
                 PROVE  accepted'[x] \cap rows'[path'] = {}
    BY DEF WrittenWhereOpen
  <2>2. path' \in Files
    BY <2>1, <1>1 DEF FilesInOrder, Connects, Files
  <2>3. conn'[x] = conn[x]
    BY <2>1 DEF Connects
  <2>4. accepted[x] \cap rows[path'] = {}
    <3>1. CASE path' = path
      BY <2>1, <2>3, <3>1 DEF WrittenWhereOpen
    <3>2. CASE path' = created + 1
      BY <2>2, <3>2 DEF FilesInOrder
    <3> QED
      BY <2>1, <3>1, <3>2 DEF Connects
  <2>5. CASE x = s
    <3>1. path' # f \/ rows' = rows
      BY <2>1, <2>5 DEF Fate
    <3>2. rows'[path'] = rows[path']
      BY <2>2, <3>1 DEF Fate
    <3>3. N \cap rows[path'] = {}
      BY <2>2 DEF OnlyOffered
    <3> QED
      BY <1>a, <2>4, <2>5, <3>2, <3>3
  <2>6. CASE x # s
    <3>1. AlertsIn(b) \cap accepted[x] = {}
      BY <2>6 DEF BufferedOnce, OnlyOffered
    <3> QED
      BY <1>a, <1>b, <2>2, <2>4, <2>6, <3>1
  <2> QED
    BY <2>5, <2>6
<1> QED
  BY <1>1, <1>2, <1>3, <1>4, <1>5, <1>6, <1>7

(* A method that hands nothing over and leaves buffers and rows alone.     *)
LEMMA ConnectionKeeps ==
    ASSUME StoreAssumption, TypeOK, DataInv, NEW s \in Stores, Connects(s),
           UNCHANGED <<buffer, rows, offered, accepted, dropped, cleared>>
    PROVE  DataInv' /\ \A a : Settled(a) => Settled(a)'
<1>1. Fate(s, buffer[s], 0)
  BY DEF TypeOK, Fate
<1>2. IsFiniteSet({})
  BY FS_EmptySet
<1> QED
  BY <1>1, <1>2, BatchKeeps

(* clear (store.py 102-126) takes the store's buffer, and the rows G of    *)
(* the file it has open or none.                                           *)
LEMMA ClearKeeps ==
    ASSUME StoreAssumption, TypeOK, DataInv, NEW s \in Stores, Connects(s),
           NEW G, \A f \in Files : rows'[f] = IF f = G THEN {} ELSE rows[f],
           rows' \in [Files -> SUBSET Alerts],
           buffer' = [buffer EXCEPT ![s] = <<>>],
           cleared' = cleared \cup AlertsIn(buffer[s])
                        \cup (IF G \in Files THEN rows[G] ELSE {}),
           UNCHANGED <<offered, accepted, dropped>>
    PROVE  DataInv' /\ \A a : Settled(a) => Settled(a)'
<1> USE DEF TypeOK, DataInv
<1>1. buffer'[s] = <<>> /\ \A x \in Stores \ {s} : buffer'[x] = buffer[x]
  OBVIOUS
<1>2. \A x \in Stores : AlertsIn(buffer'[x]) \subseteq AlertsIn(buffer[x])
  BY <1>1, EmptyBuffer
<1>3. \A f \in Files : rows'[f] \subseteq rows[f]
  OBVIOUS
<1>4. FilesInOrder'
  <2>1. path' \in {0, created'} /\ created <= created' /\ \A x \in Stores : conn'[x] <= created'
    BY ConnectsInOrder
  <2>2. ASSUME NEW g \in Files, g > created' PROVE rows'[g] = {}
    <3>1. g > created
      BY <2>2, ConnectsInOrder DEF Files, StoreAssumption
    <3>2. rows[g] = {}
      BY <3>1 DEF FilesInOrder
    <3> QED
      BY <1>3, <3>2
  <2> QED
    BY <2>1, <2>2 DEF FilesInOrder
<1>5. OnlyOffered' /\ BufferedOnce' /\ DroppedIsGone'
  BY <1>2, <1>3 DEF OnlyOffered, BufferedOnce, DroppedIsGone
<1>6. \A a : Settled(a) => Settled(a)'
  BY DEF Settled
<1>7. Kept'
  <2>1. ASSUME NEW a \in AlertsIn(buffer[s]) PROVE Settled(a)'
    BY DEF Settled
  <2> QED
    BY <1>1, <1>6, <2>1 DEF Kept
<1>8. WrittenWhereOpen'
  <2>1. SUFFICES ASSUME NEW x \in Stores, path' # 0, conn'[x] \notin {0, path'}
                 PROVE  accepted[x] \cap rows[path'] = {}
    <3>1. path' # 0 => path' \in Files
      BY <1>4 DEF FilesInOrder, Connects, Files
    <3> QED
      BY <1>3, <3>1 DEF WrittenWhereOpen
  <2>2. path' \in Files
    BY <2>1, <1>4 DEF FilesInOrder, Connects, Files
  <2>3. conn'[x] = conn[x]
    BY <2>1 DEF Connects
  <2>4. CASE path' = path
    BY <2>1, <2>3, <2>4 DEF WrittenWhereOpen
  <2>5. CASE path' = created + 1
    BY <2>2, <2>5 DEF FilesInOrder
  <2> QED
    BY <2>1, <2>4, <2>5 DEF Connects
<1> QED
  BY <1>4, <1>5, <1>6, <1>7, <1>8

-----------------------------------------------------------------------------
(* A step of thread t that holds or takes the lock of its store leaves     *)
(* every other thread's half of the invariant alone.                       *)
LEMMA OthersKeep ==
    ASSUME StoreAssumption, TypeOK, ThreadInv, NEW t \in Threads,
           lock[Home[t]] \in {NoOne, t},
           \A u \in Threads \ {t} : pc'[u] = pc[u] /\ seen'[u] = seen[u] /\ total'[u] = total[u],
           \A x \in Stores \ {Home[t]} : lock'[x] = lock[x] /\ conn'[x] = conn[x],
           ready \subseteq ready',
           \A x \in Stores : accepted[x] \subseteq accepted'[x],
           \A a : Settled(a) => Settled(a)',
           rows' = rows \/ Home[t] \in ready
    PROVE  \A u \in Threads \ {t} : ThreadOK(u)'
<1> SUFFICES ASSUME NEW u \in Threads \ {t} PROVE ThreadOK(u)'
  OBVIOUS
<1>0. ThreadOK(u) /\ Home[u] \in Stores /\ Home[t] \in Stores /\ u # NoOne
  BY DEF ThreadInv, StoreAssumption
<1>1. pc'[u] = pc[u] /\ seen'[u] = seen[u] /\ total'[u] = total[u]
  OBVIOUS
<1>2. ASSUME pc[u] \in {"select", "recreate", "reinit"}
      PROVE  Home[u] # Home[t] /\ lock'[Home[u]] = u /\ conn'[Home[u]] = conn[Home[u]]
  BY <1>0, <1>2 DEF ThreadOK
<1>3. ASSUME pc[u] = "select", ready' = {Home[u]}
      PROVE  total'[u] = Cardinality(rows'[conn'[Home[u]]])
  <2>1. ready = {Home[u]}
    BY <1>0, <1>3 DEF ThreadOK
  <2>2. rows' = rows
    BY <1>2, <1>3, <2>1
  <2> QED
    BY <1>0, <1>1, <1>2, <1>3, <2>1, <2>2 DEF ThreadOK
<1>4. pc[u] \in {"count", "select"} =>
        seen'[u] \subseteq accepted'[Home[u]] /\ \A a \in seen'[u] : Settled(a)'
  <2>1. ASSUME pc[u] \in {"count", "select"}
        PROVE  seen[u] \subseteq accepted[Home[u]] /\ \A a \in seen[u] : Settled(a)
    BY <1>0, <2>1 DEF ThreadOK
  <2> QED
    BY <1>0, <1>1, <2>1
<1>5. /\ pc[u] = "select" => conn'[Home[u]] # 0
      /\ pc[u] \in {"count", "select"} => Home[u] \in ready'
  BY <1>0, <1>2 DEF ThreadOK
<1> QED
  BY <1>1, <1>2, <1>3, <1>4, <1>5 DEF ThreadOK

(* A thread that is idle after its step has nothing to keep.               *)
LEMMA IdleOK ==
    ASSUME NEW t \in Threads, pc'[t] = "idle" PROVE ThreadOK(t)'
  BY DEF ThreadOK

(* The invariant of a step of t from its parts.                            *)
LEMMA ThreadInvFrom ==
    ASSUME NEW t \in Threads, ThreadOK(t)', \A u \in Threads \ {t} : ThreadOK(u)'
    PROVE  ThreadInv'
  BY DEF ThreadInv

(* The files, once opened, have countable rows.                            *)
LEMMA CountIsNat ==
    ASSUME TypeOK, OnlyOffered, NEW f \in Files PROVE Cardinality(rows[f]) \in Nat
  BY FS_Subset, FS_CardinalityType DEF OnlyOffered

-----------------------------------------------------------------------------
(* One lemma per method.                                                   *)

LEMMA InitDbInv ==
    ASSUME StoreAssumption, StoreInv, NEW t \in Threads, InitDb(t)
    PROVE  StoreInv'
<1> DEFINE s == Home[t]
<1>0. s \in Stores
  BY DEF StoreAssumption
<1> HIDE DEF s
<1>1. /\ GetConnection(s) /\ lock[s] = NoOne /\ lock' = lock
      /\ schema' = schema \cup {Opened(s)} /\ ready' = ready \cup {s}
      /\ pc' = [pc EXCEPT ![t] = "idle"]
      /\ UNCHANGED <<buffer, rows, hooks, offered, accepted, dropped, cleared, sent, seen, total>>
  BY DEF InitDb, s
<1>2. Connects(s) /\ Opened(s) \in Files /\ Opened(s) <= created'
  BY <1>0, <1>1, GetConnectionConnects DEF StoreInv, DataInv
<1>3. DataInv' /\ \A a : Settled(a) => Settled(a)'
  BY <1>0, <1>1, <1>2, ConnectionKeeps DEF StoreInv
<1>4. TypeOK'
  <2>1. schema' \subseteq {f \in Files : f <= created'}
    BY <1>0, <1>1, <1>2, TablesStay DEF StoreInv, DataInv
  <2> QED
    BY <1>0, <1>1, <1>2, <2>1 DEF StoreInv, TypeOK, Connects, PcValues
<1>5. ThreadOK(t)'
  BY <1>1, IdleOK DEF StoreInv, TypeOK
<1>6. \A u \in Threads \ {t} : ThreadOK(u)'
  <2>1. \A u \in Threads \ {t} : pc'[u] = pc[u]
    BY <1>1 DEF StoreInv, TypeOK
  <2>2. \A x \in Stores \ {s} : conn'[x] = conn[x]
    BY <1>2 DEF Connects
  <2> QED
    BY <1>1, <1>3, <2>1, <2>2, OthersKeep DEF StoreInv, s
<1> QED
  BY <1>3, <1>4, <1>5, <1>6, ThreadInvFrom DEF StoreInv

LEMMA InitDbFailsInv ==
    ASSUME StoreAssumption, StoreInv, NEW t \in Threads, InitDbFails(t)
    PROVE  StoreInv'
<1> DEFINE s == Home[t]
<1>0. s \in Stores
  BY DEF StoreAssumption
<1> HIDE DEF s
<1>1. /\ conn' = [conn EXCEPT ![s] = 0] /\ path' \in {path, 0} /\ created' = created
      /\ lock[s] = NoOne /\ lock' = [lock EXCEPT ![s] = t]
      /\ pc' = [pc EXCEPT ![t] = "recreate"]
      /\ UNCHANGED <<buffer, rows, schema, ready, hooks, offered, accepted, dropped, cleared,
                     sent, seen, total>>
  BY DEF InitDbFails, Recover, s
<1>2. Connects(s)
  BY <1>0, <1>1 DEF Connects, StoreInv, TypeOK
<1>3. DataInv' /\ \A a : Settled(a) => Settled(a)'
  BY <1>0, <1>1, <1>2, ConnectionKeeps DEF StoreInv
<1>4. TypeOK'
  BY <1>0, <1>1, <1>2 DEF StoreInv, TypeOK, Connects, PcValues
<1>5. ThreadOK(t)'
  <2>1. pc'[t] = "recreate" /\ lock'[s] = t
    BY <1>0, <1>1 DEF StoreInv, TypeOK
  <2> QED
    BY <2>1 DEF ThreadOK, s
<1>6. \A u \in Threads \ {t} : ThreadOK(u)'
  <2>1. \A u \in Threads \ {t} : pc'[u] = pc[u]
    BY <1>1 DEF StoreInv, TypeOK
  <2>2. \A x \in Stores \ {s} : conn'[x] = conn[x] /\ lock'[x] = lock[x]
    BY <1>1, <1>2 DEF Connects, StoreInv, TypeOK
  <2> QED
    BY <1>1, <1>3, <2>1, <2>2, OthersKeep DEF StoreInv, s
<1> QED
  BY <1>3, <1>4, <1>5, <1>6, ThreadInvFrom DEF StoreInv

LEMMA RecreateInv ==
    ASSUME StoreAssumption, StoreInv, NEW t \in Threads, Recreate(t)
    PROVE  StoreInv'
<1> DEFINE s == Home[t]
<1>0. s \in Stores
  BY DEF StoreAssumption
<1> HIDE DEF s
<1>1. /\ GetConnection(s) \/ GetConnectionFails(s)
      /\ pc[t] = "recreate" /\ lock' = [lock EXCEPT ![s] = NoOne]
      /\ pc' = [pc EXCEPT ![t] = "idle"]
      /\ UNCHANGED <<buffer, rows, hooks, offered, accepted, dropped, cleared, sent, seen, total>>
  BY DEF Recreate, s
<1>2. \/ GetConnection(s) /\ schema' = schema \cup {Opened(s)} /\ ready' = ready \cup {s}
      \/ schema' = schema /\ ready' = ready
  BY DEF Recreate, s
<1>3. Connects(s) /\ (GetConnection(s) => Opened(s) \in Files /\ Opened(s) <= created')
  BY <1>0, <1>1, GetConnectionConnects DEF StoreInv, DataInv
<1>4. DataInv' /\ \A a : Settled(a) => Settled(a)'
  BY <1>0, <1>1, <1>3, ConnectionKeeps DEF StoreInv
<1>5. /\ schema' \subseteq {f \in Files : f <= created'}
      /\ ready' \subseteq Stores /\ ready \subseteq ready'
  <2>1. \A f \in schema : f \in Files /\ f <= created'
    BY <1>0, <1>3, TablesStay DEF StoreInv, DataInv
  <2> QED
    BY <1>0, <1>2, <1>3, <2>1 DEF StoreInv, TypeOK
<1>6. TypeOK'
  BY <1>0, <1>1, <1>3, <1>5 DEF StoreInv, TypeOK, Connects, PcValues
<1>7. ThreadOK(t)'
  BY <1>1, IdleOK DEF StoreInv, TypeOK
<1>8. lock[s] = t
  BY <1>1 DEF StoreInv, ThreadInv, ThreadOK, s
<1>9. \A u \in Threads \ {t} : ThreadOK(u)'
  <2>1. \A u \in Threads \ {t} : pc'[u] = pc[u]
    BY <1>1 DEF StoreInv, TypeOK
  <2>2. \A x \in Stores \ {s} : conn'[x] = conn[x] /\ lock'[x] = lock[x]
    BY <1>1, <1>3 DEF Connects, StoreInv, TypeOK
  <2> QED
    BY <1>1, <1>4, <1>5, <1>8, <2>1, <2>2, OthersKeep DEF StoreInv, s
<1> QED
  BY <1>4, <1>6, <1>7, <1>9, ThreadInvFrom DEF StoreInv

(* The methods that hand a batch on: append, append_batch, flush, close.   *)
LEMMA WriterInv ==
    ASSUME StoreAssumption, StoreInv, NEW t \in Threads, Enters(t),
           NEW N \in SUBSET Alerts, IsFiniteSet(N), N \cap offered = {},
           NEW b, AlertsIn(b) = AlertsIn(buffer[Home[t]]) \cup N, NEW f,
           Connects(Home[t]), Fate(Home[t], b, f),
           schema' = schema, dropped' \subseteq Alerts, hooks' \subseteq Alerts,
           offered' = offered \cup N,
           \/ accepted' = accepted
           \/ accepted' = [accepted EXCEPT ![Home[t]] = @ \cup N],
           UNCHANGED <<lock, ready, pc, cleared, sent, seen, total>>
    PROVE  StoreInv'
<1> DEFINE s == Home[t]
<1>0. s \in Stores
  BY DEF StoreAssumption
<1>1. DataInv' /\ \A a : Settled(a) => Settled(a)'
  BY <1>0, BatchKeeps DEF StoreInv
<1>2. lock[s] = NoOne /\ pc'[t] = "idle" /\ s \in ready
  BY DEF Enters
<1>3. accepted' \in [Stores -> SUBSET Alerts] /\ \A x \in Stores : accepted[x] \subseteq accepted'[x]
  <2>1. CASE accepted' = accepted
    BY <2>1 DEF StoreInv, TypeOK
  <2>2. CASE accepted' = [accepted EXCEPT ![s] = @ \cup N]
    BY <1>0, <2>2 DEF StoreInv, TypeOK
  <2> QED
    BY <2>1, <2>2
<1>4. TypeOK'
  <2>1. schema' \subseteq {g \in Files : g <= created'}
    BY <1>0, TablesStay DEF StoreInv, DataInv
  <2> QED
    BY <1>3, <2>1 DEF StoreInv, TypeOK, Connects, Fate
<1>5. ThreadOK(t)'
  BY <1>2, IdleOK
<1>6. \A u \in Threads \ {t} : ThreadOK(u)'
  <2>1. \A x \in Stores \ {s} : conn'[x] = conn[x]
    BY DEF Connects
  <2> QED
    BY <1>1, <1>2, <1>3, <2>1, OthersKeep DEF StoreInv
<1> QED
  BY <1>1, <1>4, <1>5, <1>6, ThreadInvFrom DEF StoreInv

LEMMA Append1Inv ==
    ASSUME StoreAssumption, StoreInv, NEW t \in Threads, NEW a \in Alerts, Append1(t, a)
    PROVE  StoreInv'
<1> DEFINE s == Home[t]
           b == Append(buffer[s], a)
<1>0. s \in Stores /\ buffer[s] \in Seq(Alerts) /\ TypeOK /\ FilesInOrder
  BY DEF StoreAssumption, StoreInv, DataInv, TypeOK
<1>1. b \in Seq(Alerts) /\ AlertsIn(b) = AlertsIn(buffer[s]) \cup {a}
  BY <1>0, ElemsAppend
<1>2. IsFiniteSet({a}) /\ {a} \cap offered = {} /\ {a} \in SUBSET Alerts
  <2>1. IsFiniteSet({a})
    BY FS_Singleton
  <2>2. a \notin offered
    BY DEF Append1
  <2> QED
    BY <2>1, <2>2
<1>3. /\ Enters(t) /\ offered' = offered \cup {a} /\ hooks' \subseteq Alerts
      /\ accepted' = accepted \/ accepted' = [accepted EXCEPT ![s] = @ \cup {a}]
      /\ UNCHANGED <<lock, ready, pc, cleared, sent, seen, total>>
  BY <1>0 DEF Append1, Webhook, TypeOK
<1>4. \/ FlushDone(s, b) \/ FlushRaises(s, b)
      \/ /\ buffer' = [buffer EXCEPT ![s] = b]
         /\ UNCHANGED <<conn, path, created, rows, schema, dropped>>
  BY DEF Append1
<1> HIDE DEF b, s
<1>5. CASE FlushDone(s, b) \/ FlushRaises(s, b)
  <2>1. Connects(s) /\ Fate(s, b, conn'[s]) /\ schema' = schema /\ dropped' \subseteq Alerts
    BY <1>0, <1>1, <1>5, FlushFate
  <2> QED
    BY <1>1, <1>2, <1>3, <2>1, WriterInv DEF s
<1>6. CASE /\ buffer' = [buffer EXCEPT ![s] = b]
           /\ UNCHANGED <<conn, path, created, rows, schema, dropped>>
  <2>1. buffer' \in [Stores -> Seq(Alerts)] /\ buffer'[s] = b
        /\ \A x \in Stores \ {s} : buffer'[x] = buffer[x]
    BY <1>0, <1>1, <1>6 DEF TypeOK
  <2>2. Connects(s) /\ Fate(s, b, 0) /\ schema' = schema /\ dropped' \subseteq Alerts
    BY <1>0, <1>6, <2>1 DEF Connects, Fate, TypeOK
  <2> QED
    BY <1>1, <1>2, <1>3, <2>2, WriterInv DEF s
<1> QED
  BY <1>4, <1>5, <1>6

LEMMA AppendBatchInv ==
    ASSUME StoreAssumption, StoreInv, NEW t \in Threads,
           NEW a1 \in Alerts, NEW a2 \in Alerts, AppendBatch(t, a1, a2)
    PROVE  StoreInv'
<1> DEFINE s == Home[t]
           b == buffer[s] \o <<a1, a2>>
<1>0. s \in Stores /\ buffer[s] \in Seq(Alerts) /\ TypeOK /\ FilesInOrder
  BY DEF StoreAssumption, StoreInv, DataInv, TypeOK
<1>1. b \in Seq(Alerts) /\ AlertsIn(b) = AlertsIn(buffer[s]) \cup {a1, a2}
  BY <1>0, ElemsPair
<1>2. IsFiniteSet({a1, a2}) /\ {a1, a2} \cap offered = {} /\ {a1, a2} \in SUBSET Alerts
  <2>1. IsFiniteSet({a1}) /\ {a1, a2} = {a1} \cup {a2}
    BY FS_Singleton
  <2>2. IsFiniteSet({a1} \cup {a2})
    BY <2>1, FS_AddElement
  <2>3. {a1, a2} \cap offered = {}
    BY DEF AppendBatch
  <2> QED
    BY <2>1, <2>2, <2>3
<1>3. /\ Enters(t) /\ offered' = offered \cup {a1, a2} /\ hooks' \subseteq Alerts
      /\ accepted' = accepted \/ accepted' = [accepted EXCEPT ![s] = @ \cup {a1, a2}]
      /\ UNCHANGED <<lock, ready, pc, cleared, sent, seen, total>>
  BY <1>0 DEF AppendBatch, TypeOK
<1>4. FlushDone(s, b) \/ FlushRaises(s, b)
  BY DEF AppendBatch
<1> HIDE DEF b, s
<1>5. Connects(s) /\ Fate(s, b, conn'[s]) /\ schema' = schema /\ dropped' \subseteq Alerts
  BY <1>0, <1>1, <1>4, FlushFate
<1> QED
  BY <1>1, <1>2, <1>3, <1>5, WriterInv DEF s

LEMMA FlushInv ==
    ASSUME StoreAssumption, StoreInv, NEW t \in Threads, Flush(t)
    PROVE  StoreInv'
<1> DEFINE s == Home[t]
<1>0. s \in Stores /\ buffer[s] \in Seq(Alerts) /\ TypeOK /\ FilesInOrder
  BY DEF StoreAssumption, StoreInv, DataInv, TypeOK
<1>1. FlushDone(s, buffer[s]) \/ FlushRaises(s, buffer[s])
  BY DEF Flush
<1>2. /\ Enters(t) /\ hooks' \subseteq Alerts
      /\ UNCHANGED <<lock, ready, pc, offered, accepted, cleared, sent, seen, total>>
  BY <1>0 DEF Flush, TypeOK
<1> HIDE DEF s
<1>3. Connects(s) /\ Fate(s, buffer[s], conn'[s]) /\ schema' = schema /\ dropped' \subseteq Alerts
  BY <1>0, <1>1, FlushFate
<1>4. IsFiniteSet({}) /\ offered' = offered \cup {}
  BY <1>2, FS_EmptySet
<1> QED
  BY <1>2, <1>3, <1>4, WriterInv DEF s

LEMMA CloseInv ==
    ASSUME StoreAssumption, StoreInv, NEW t \in Threads, Close(t)
    PROVE  StoreInv'
<1> DEFINE s == Home[t]
           b == buffer[s]
<1>0. s \in Stores /\ b \in Seq(Alerts) /\ TypeOK /\ FilesInOrder
  BY DEF StoreAssumption, StoreInv, DataInv, TypeOK
<1>1. /\ Enters(t) /\ hooks' \subseteq Alerts
      /\ UNCHANGED <<lock, ready, pc, offered, accepted, cleared, sent, seen, total>>
  BY <1>0 DEF Close, TypeOK
<1>2. IsFiniteSet({}) /\ offered' = offered \cup {}
  BY <1>1, FS_EmptySet
<1>3. \/ /\ b = <<>> \/ Opened(s) \in Files \cap schema
         /\ rows' = IF b = <<>> THEN rows ELSE [rows EXCEPT ![Opened(s)] = @ \cup AlertsIn(b)]
         /\ buffer' = [buffer EXCEPT ![s] = <<>>]
         /\ conn' = [conn EXCEPT ![s] = 0]
         /\ UNCHANGED <<path, created, schema, dropped>>
      \/ FlushRaises(s, b)
  BY RecordsAreElems DEF Close
<1>b. b = buffer[s]
  OBVIOUS
<1> HIDE DEF b, s
<1>4. CASE FlushRaises(s, b)
  <2>1. Connects(s) /\ Fate(s, b, conn'[s]) /\ schema' = schema /\ dropped' \subseteq Alerts
    BY <1>0, <1>4, FlushFate
  <2> QED
    BY <1>1, <1>2, <1>b, <2>1, WriterInv DEF s
<1>5. CASE /\ b = <<>> \/ Opened(s) \in Files \cap schema
           /\ rows' = IF b = <<>> THEN rows ELSE [rows EXCEPT ![Opened(s)] = @ \cup AlertsIn(b)]
           /\ buffer' = [buffer EXCEPT ![s] = <<>>]
           /\ conn' = [conn EXCEPT ![s] = 0]
           /\ UNCHANGED <<path, created, schema, dropped>>
  <2>1. Connects(s)
    BY <1>0, <1>5 DEF Connects, TypeOK
  <2>2. /\ buffer' \in [Stores -> Seq(Alerts)] /\ AlertsIn(buffer'[s]) = {}
        /\ \A x \in Stores \ {s} : buffer'[x] = buffer[x]
    BY <1>0, <1>5, EmptyBuffer DEF TypeOK
  <2>3. CASE b = <<>>
    <3>1. AlertsIn(b) = {} /\ rows' = rows /\ dropped' = dropped
      BY <1>5, <2>3, EmptyBuffer
    <3>2. Fate(s, b, 0)
      BY <1>0, <2>2, <3>1 DEF Fate, TypeOK
    <3> QED
      BY <1>0, <1>1, <1>2, <1>5, <1>b, <2>1, <3>2, WriterInv DEF s, TypeOK
  <2>4. CASE b # <<>>
    <3> DEFINE f == Opened(s)
    <3>1. f \in Files /\ f <= created' /\ conn'[s] = 0
      BY <1>0, <1>5, <2>4 DEF TypeOK
    <3>2. rows' = [rows EXCEPT ![f] = @ \cup AlertsIn(b)] /\ dropped' = dropped /\ schema' = schema
      BY <1>5, <2>4
    <3> HIDE DEF f
    <3>3. AlertsIn(b) \subseteq Alerts
      BY <1>0, ElemsType
    <3>4. rows' \in [Files -> SUBSET Alerts] /\ rows'[f] = rows[f] \cup AlertsIn(b)
          /\ \A g \in Files \ {f} : rows'[g] = rows[g]
      BY <1>0, <3>1, <3>2, <3>3 DEF TypeOK
    <3>5. Fate(s, b, f)
      BY <2>2, <3>1, <3>2, <3>4 DEF Fate
    <3> QED
      BY <1>0, <1>1, <1>2, <1>b, <2>1, <3>2, <3>5, WriterInv DEF s, TypeOK
  <2> QED
    BY <2>3, <2>4
<1> QED
  BY <1>3, <1>4, <1>5

LEMMA ClearInv ==
    ASSUME StoreAssumption, StoreInv, NEW t \in Threads, Clear(t)
    PROVE  StoreInv'
<1> DEFINE s == Home[t]
           f == Opened(s)
<1>0. s \in Stores /\ TypeOK /\ DataInv /\ FilesInOrder
  BY DEF StoreAssumption, StoreInv, DataInv
<1>1. /\ Enters(t) /\ GetConnection(s)
      /\ buffer' = [buffer EXCEPT ![s] = <<>>]
      /\ cleared' = cleared \cup AlertsIn(buffer[s]) \cup rows[f]
      /\ rows' = [rows EXCEPT ![f] = {}]
      /\ UNCHANGED <<lock, schema, ready, pc, hooks, offered, accepted, dropped, sent, seen, total>>
  BY DEF Clear
<1>2. Connects(s) /\ f \in Files
  BY <1>0, <1>1, GetConnectionConnects
<1> HIDE DEF f, s
<1>3. /\ rows' \in [Files -> SUBSET Alerts]
      /\ \A g \in Files : rows'[g] = IF g = f THEN {} ELSE rows[g]
  BY <1>0, <1>1 DEF TypeOK
<1>4. DataInv' /\ \A a : Settled(a) => Settled(a)'
  <2>1. cleared' = cleared \cup AlertsIn(buffer[s]) \cup (IF f \in Files THEN rows[f] ELSE {})
    BY <1>1, <1>2
  <2> QED
    BY <1>0, <1>1, <1>2, <1>3, <2>1, ClearKeeps
<1>5. TypeOK'
  <2>1. schema' \subseteq {g \in Files : g <= created'}
    BY <1>0, <1>1, <1>2, TablesStay
  <2>2. AlertsIn(buffer[s]) \subseteq Alerts
    BY <1>0, ElemsType DEF TypeOK
  <2>3. cleared' \subseteq Alerts
    BY <1>0, <1>1, <1>2, <2>2 DEF TypeOK
  <2>4. buffer' \in [Stores -> Seq(Alerts)]
    BY <1>0, <1>1, EmptyBuffer DEF TypeOK
  <2> QED
    BY <1>0, <1>1, <1>2, <1>3, <2>1, <2>3, <2>4 DEF TypeOK, Connects
<1>6. lock[s] = NoOne /\ pc'[t] = "idle" /\ s \in ready
  BY <1>1 DEF Enters, s
<1>7. ThreadOK(t)'
  BY <1>6, IdleOK
<1>8. \A u \in Threads \ {t} : ThreadOK(u)'
  <2>1. \A x \in Stores \ {s} : conn'[x] = conn[x]
    BY <1>2 DEF Connects
  <2> QED
    BY <1>1, <1>4, <1>6, <2>1, OthersKeep DEF StoreInv, s
<1> QED
  BY <1>4, <1>5, <1>7, <1>8, ThreadInvFrom DEF StoreInv

LEMMA ClearFailsInv ==
    ASSUME StoreAssumption, StoreInv, NEW t \in Threads, ClearFails(t)
    PROVE  StoreInv'
<1> DEFINE s == Home[t]
<1>0. s \in Stores /\ TypeOK /\ DataInv /\ FilesInOrder
  BY DEF StoreAssumption, StoreInv, DataInv
<1>1. /\ Enters(t)
      /\ conn' = [conn EXCEPT ![s] = 0] /\ path' \in {path, 0}
      /\ buffer' = [buffer EXCEPT ![s] = <<>>]
      /\ cleared' = cleared \cup AlertsIn(buffer[s])
      /\ lock' = [lock EXCEPT ![s] = t]
      /\ pc' = [pc EXCEPT ![t] = "reinit"]
      /\ UNCHANGED <<created, rows, schema, ready, hooks, offered, accepted, dropped, sent, seen, total>>
  BY DEF ClearFails, Recover
<1> HIDE DEF s
<1>2. Connects(s)
  BY <1>0, <1>1 DEF Connects, TypeOK
<1>3. DataInv' /\ \A a : Settled(a) => Settled(a)'
  <2>1. cleared' = cleared \cup AlertsIn(buffer[s]) \cup (IF 0 \in Files THEN rows[0] ELSE {})
    BY <1>1 DEF Files
  <2>2. \A g \in Files : rows'[g] = IF g = 0 THEN {} ELSE rows[g]
    BY <1>1 DEF Files
  <2>3. rows' \in [Files -> SUBSET Alerts]
    BY <1>0, <1>1 DEF TypeOK
  <2> QED
    BY <1>0, <1>1, <1>2, <2>1, <2>2, <2>3, ClearKeeps
<1>4. TypeOK'
  <2>1. AlertsIn(buffer[s]) \subseteq Alerts
    BY <1>0, ElemsType DEF TypeOK
  <2>2. buffer' \in [Stores -> Seq(Alerts)]
    BY <1>0, <1>1, EmptyBuffer DEF TypeOK
  <2> QED
    BY <1>0, <1>1, <1>2, <2>1, <2>2 DEF TypeOK, Connects, PcValues
<1>5. lock[s] = NoOne /\ s \in ready /\ pc'[t] = "reinit" /\ lock'[s] = t
  BY <1>0, <1>1 DEF Enters, TypeOK, s
<1>6. ThreadOK(t)'
  BY <1>5 DEF ThreadOK, s
<1>7. \A u \in Threads \ {t} : ThreadOK(u)'
  <2>1. \A x \in Stores \ {s} : conn'[x] = conn[x] /\ lock'[x] = lock[x]
    BY <1>0, <1>1 DEF TypeOK
  <2>2. \A u \in Threads \ {t} : pc'[u] = pc[u]
    BY <1>0, <1>1 DEF TypeOK
  <2> QED
    BY <1>1, <1>3, <1>5, <2>1, <2>2, OthersKeep DEF StoreInv, s
<1> QED
  BY <1>3, <1>4, <1>6, <1>7, ThreadInvFrom DEF StoreInv

(* A reader's flush empties the buffer: what was accepted is settled.      *)
LEMMA ReadFlushInv ==
    ASSUME StoreAssumption, StoreInv, NEW t \in Threads, ReadFlush(t)
    PROVE  StoreInv'
<1> DEFINE s == Home[t]
<1>0. s \in Stores /\ buffer[s] \in Seq(Alerts) /\ TypeOK /\ DataInv /\ FilesInOrder
  BY DEF StoreAssumption, StoreInv, DataInv, TypeOK
<1>1. /\ Enters(t)
      /\ UNCHANGED <<lock, ready, hooks, offered, accepted, cleared, sent, total>>
      /\ FlushDone(s, buffer[s]) \/ FlushRaises(s, buffer[s])
  BY DEF ReadFlush
<1>2. \/ /\ FlushDone(s, buffer[s])
         /\ pc' = [pc EXCEPT ![t] = "count"]
         /\ seen' = [seen EXCEPT ![t] = accepted[s]]
      \/ UNCHANGED <<pc, seen>>
  BY DEF ReadFlush
<1> HIDE DEF s
<1>3. /\ Connects(s) /\ Fate(s, buffer[s], conn'[s]) /\ schema' = schema /\ dropped' \subseteq Alerts
      /\ FlushDone(s, buffer[s]) => AlertsIn(buffer'[s]) = {}
  BY <1>0, <1>1, FlushFate
<1>4. DataInv' /\ \A a : Settled(a) => Settled(a)'
  <2>1. IsFiniteSet({}) /\ offered' = offered \cup {}
    BY <1>1, FS_EmptySet
  <2> QED
    BY <1>0, <1>1, <1>3, <2>1, BatchKeeps
<1>5. TypeOK'
  <2>1. schema' \subseteq {g \in Files : g <= created'}
    BY <1>0, <1>3, TablesStay
  <2>2. pc' \in [Threads -> PcValues] /\ seen' \in [Threads -> SUBSET Alerts]
    BY <1>0, <1>2 DEF TypeOK, PcValues
  <2> QED
    BY <1>0, <1>1, <1>3, <2>1, <2>2 DEF TypeOK, Connects, Fate
<1>6. lock[s] = NoOne /\ s \in ready /\ pc[t] = "idle"
  BY <1>1 DEF Enters, s
<1>7. ThreadOK(t)'
  <2>1. CASE UNCHANGED <<pc, seen>>
    BY <1>6, <2>1, IdleOK
  <2>2. CASE /\ FlushDone(s, buffer[s])
             /\ pc' = [pc EXCEPT ![t] = "count"]
             /\ seen' = [seen EXCEPT ![t] = accepted[s]]
    <3>1. pc'[t] = "count" /\ seen'[t] = accepted'[s]
      BY <1>0, <1>1, <2>2 DEF TypeOK
    <3>2. \A a \in accepted'[s] : Settled(a)'
      BY <1>0, <1>3, <1>4, <2>2 DEF DataInv, Kept
    <3> QED
      BY <1>1, <1>6, <3>1, <3>2 DEF ThreadOK, s
  <2> QED
    BY <1>2, <2>1, <2>2
<1>8. \A u \in Threads \ {t} : ThreadOK(u)'
  <2>1. \A x \in Stores \ {s} : conn'[x] = conn[x]
    BY <1>3 DEF Connects
  <2>2. \A u \in Threads \ {t} : pc'[u] = pc[u] /\ seen'[u] = seen[u]
    BY <1>0, <1>2 DEF TypeOK
  <2> QED
    BY <1>1, <1>4, <1>6, <2>1, <2>2, OthersKeep DEF StoreInv, s
<1> QED
  BY <1>4, <1>5, <1>7, <1>8, ThreadInvFrom DEF StoreInv

LEMMA ReadCountInv ==
    ASSUME StoreAssumption, StoreInv, NEW t \in Threads, ReadCount(t)
    PROVE  StoreInv'
<1> DEFINE s == Home[t]
           f == Opened(s)
<1>0. s \in Stores /\ TypeOK /\ DataInv /\ FilesInOrder
  BY DEF StoreAssumption, StoreInv, DataInv
<1>1. /\ pc[t] = "count" /\ lock[s] = NoOne /\ GetConnection(s)
      /\ total' = [total EXCEPT ![t] = Cardinality(rows[f])]
      /\ lock' = [lock EXCEPT ![s] = t]
      /\ pc' = [pc EXCEPT ![t] = "select"]
      /\ UNCHANGED <<buffer, rows, schema, ready, hooks, offered, accepted, dropped, cleared, sent, seen>>
  BY DEF ReadCount
<1>2. Connects(s) /\ f \in Files /\ conn'[s] = f
  BY <1>0, <1>1, GetConnectionConnects
<1> HIDE DEF f, s
<1>3. DataInv' /\ \A a : Settled(a) => Settled(a)'
  BY <1>0, <1>1, <1>2, ConnectionKeeps
<1>4. TypeOK'
  <2>1. schema' \subseteq {g \in Files : g <= created'}
    BY <1>0, <1>1, <1>2, TablesStay
  <2>2. Cardinality(rows[f]) \in Nat
    BY <1>0, <1>2, CountIsNat DEF DataInv
  <2>3. total' \in [Threads -> Nat]
    BY <1>0, <1>1, <2>2 DEF TypeOK
  <2>4. lock' \in [Stores -> Threads \cup {NoOne}] /\ pc' \in [Threads -> PcValues]
    BY <1>0, <1>1 DEF TypeOK, PcValues
  <2> QED
    BY <1>0, <1>1, <1>2, <2>1, <2>3, <2>4 DEF TypeOK, Connects
<1>5. ThreadOK(t)'
  <2>1. pc'[t] = "select" /\ lock'[s] = t /\ total'[t] = Cardinality(rows'[conn'[s]]) /\ conn'[s] # 0
    BY <1>0, <1>1, <1>2 DEF TypeOK, Files
  <2>2. s \in ready'
    BY <1>1 DEF StoreInv, ThreadInv, ThreadOK, s
  <2>3. seen'[t] \subseteq accepted'[s] /\ \A a \in seen'[t] : Settled(a)'
    BY <1>1, <1>3 DEF StoreInv, ThreadInv, ThreadOK, s
  <2> QED
    BY <2>1, <2>2, <2>3 DEF ThreadOK, s
<1>6. \A u \in Threads \ {t} : ThreadOK(u)'
  <2>1. \A x \in Stores \ {s} : conn'[x] = conn[x] /\ lock'[x] = lock[x]
    BY <1>0, <1>1, <1>2 DEF Connects, TypeOK
  <2>2. \A u \in Threads \ {t} : pc'[u] = pc[u] /\ total'[u] = total[u]
    BY <1>0, <1>1 DEF TypeOK
  <2> QED
    BY <1>1, <1>3, <2>1, <2>2, OthersKeep DEF StoreInv, s
<1> QED
  BY <1>3, <1>4, <1>5, <1>6, ThreadInvFrom DEF StoreInv

LEMMA ReadSelectInv ==
    ASSUME StoreAssumption, StoreInv, NEW t \in Threads, ReadSelect(t)
    PROVE  StoreInv'
<1> DEFINE s == Home[t]
<1>0. s \in Stores /\ TypeOK /\ DataInv
  BY DEF StoreAssumption, StoreInv
<1>1. /\ pc[t] = "select"
      /\ seen' = [seen EXCEPT ![t] = {}] /\ total' = [total EXCEPT ![t] = 0]
      /\ lock' = [lock EXCEPT ![s] = NoOne]
      /\ pc' = [pc EXCEPT ![t] = "idle"]
      /\ UNCHANGED <<buffer, conn, path, created, rows, schema, offered, accepted, dropped>>
      /\ UNCHANGED <<ready, hooks, cleared, sent>>
  BY DEF ReadSelect, ReadEnds, data
<1> HIDE DEF s
<1>2. Connects(s)
  BY <1>0, <1>1 DEF Connects, TypeOK
<1>3. DataInv' /\ \A a : Settled(a) => Settled(a)'
  BY <1>0, <1>1, <1>2, ConnectionKeeps
<1>4. TypeOK'
  BY <1>0, <1>1 DEF TypeOK, PcValues
<1>5. ThreadOK(t)'
  BY <1>0, <1>1, IdleOK DEF TypeOK
<1>6. lock[s] = t
  BY <1>1 DEF StoreInv, ThreadInv, ThreadOK, s
<1>7. \A u \in Threads \ {t} : ThreadOK(u)'
  <2>1. \A x \in Stores \ {s} : conn'[x] = conn[x] /\ lock'[x] = lock[x]
    BY <1>0, <1>1 DEF TypeOK
  <2>2. \A u \in Threads \ {t} : pc'[u] = pc[u] /\ total'[u] = total[u] /\ seen'[u] = seen[u]
    BY <1>0, <1>1 DEF TypeOK
  <2> QED
    BY <1>1, <1>3, <1>6, <2>1, <2>2, OthersKeep DEF StoreInv, s
<1> QED
  BY <1>3, <1>4, <1>5, <1>7, ThreadInvFrom DEF StoreInv

LEMMA ReadRaisesInv ==
    ASSUME StoreAssumption, StoreInv, NEW t \in Threads, ReadRaises(t)
    PROVE  StoreInv'
<1> DEFINE s == Home[t]
<1>0. s \in Stores /\ TypeOK /\ DataInv /\ FilesInOrder
  BY DEF StoreAssumption, StoreInv, DataInv
<1>1. /\ lock[s] = NoOne
      /\ GetConnection(s) \/ GetConnectionFails(s)
      /\ seen' = [seen EXCEPT ![t] = {}] /\ total' = [total EXCEPT ![t] = 0]
      /\ pc' = [pc EXCEPT ![t] = "idle"]
      /\ UNCHANGED <<lock, buffer, rows, schema, ready, hooks, offered, accepted, dropped, cleared, sent>>
  BY DEF ReadRaises, ReadEnds
<1> HIDE DEF s
<1>2. Connects(s)
  BY <1>0, <1>1, GetConnectionConnects
<1>3. DataInv' /\ \A a : Settled(a) => Settled(a)'
  BY <1>0, <1>1, <1>2, ConnectionKeeps
<1>4. TypeOK'
  <2>1. schema' \subseteq {g \in Files : g <= created'}
    BY <1>0, <1>1, <1>2, TablesStay
  <2> QED
    BY <1>0, <1>1, <1>2, <2>1 DEF TypeOK, PcValues, Connects
<1>5. ThreadOK(t)'
  BY <1>0, <1>1, IdleOK DEF TypeOK
<1>6. \A u \in Threads \ {t} : ThreadOK(u)'
  <2>1. \A x \in Stores \ {s} : conn'[x] = conn[x]
    BY <1>2 DEF Connects
  <2>2. \A u \in Threads \ {t} : pc'[u] = pc[u] /\ total'[u] = total[u] /\ seen'[u] = seen[u]
    BY <1>0, <1>1 DEF TypeOK
  <2> QED
    BY <1>1, <1>3, <2>1, <2>2, OthersKeep DEF StoreInv, s
<1> QED
  BY <1>3, <1>4, <1>5, <1>6, ThreadInvFrom DEF StoreInv

LEMMA NotifyInv ==
    ASSUME StoreInv, NEW a \in Alerts, Notify(a)
    PROVE  StoreInv'
<1>1. /\ UNCHANGED <<buffer, conn, path, created, rows, schema, offered, accepted, dropped>>
      /\ UNCHANGED <<lock, ready, pc, cleared, seen, total>>
      /\ hooks' \subseteq hooks /\ sent' \subseteq sent \cup {a}
  BY DEF Notify, data
<1>2. TypeOK'
  BY <1>1 DEF StoreInv, TypeOK
<1>3. DataInv'
  BY <1>1 DEF StoreInv, DataInv, FilesInOrder, OnlyOffered, BufferedOnce, Kept, Settled,
              DroppedIsGone, WrittenWhereOpen
<1>4. ThreadInv'
  BY <1>1 DEF StoreInv, ThreadInv, ThreadOK, Settled
<1> QED
  BY <1>2, <1>3, <1>4 DEF StoreInv

-----------------------------------------------------------------------------
(* The invariant holds at the start, and every step keeps it.              *)
LEMMA StoreInitInv ==
    ASSUME StoreAssumption, StoreInit PROVE StoreInv
<1>1. TypeOK
  BY EmptyBuffer DEF StoreAssumption, StoreInit, TypeOK, PcValues, NoOne
<1>2. DataInv
  BY EmptyBuffer, FS_EmptySet
     DEF StoreAssumption, StoreInit, DataInv, FilesInOrder, OnlyOffered, BufferedOnce, Kept, Settled,
         DroppedIsGone, WrittenWhereOpen
<1>3. ThreadInv
  BY DEF StoreInit, ThreadInv, ThreadOK
<1> QED
  BY <1>1, <1>2, <1>3 DEF StoreInv

LEMMA StoreStepInv ==
    ASSUME StoreAssumption, StoreInv, [StoreNext]_storeVars PROVE StoreInv'
<1>1. CASE StoreNext
  BY <1>1, InitDbInv, InitDbFailsInv, RecreateInv, Append1Inv, AppendBatchInv, FlushInv, CloseInv,
     ClearInv, ClearFailsInv, ReadFlushInv, ReadCountInv, ReadSelectInv, ReadRaisesInv, NotifyInv
     DEF StoreNext
<1>2. CASE UNCHANGED storeVars
  <2>1. /\ UNCHANGED <<buffer, conn, path, created, rows, schema, offered, accepted, dropped>>
        /\ UNCHANGED <<lock, ready, pc, hooks, cleared, sent, seen, total>>
    BY <1>2 DEF storeVars, data
  <2> QED
    BY <2>1 DEF StoreInv, TypeOK, DataInv, FilesInOrder, OnlyOffered, BufferedOnce, Kept, Settled,
                DroppedIsGone, WrittenWhereOpen, ThreadInv, ThreadOK
<1> QED
  BY <1>1, <1>2

(* Every reachable state of the store satisfies the inductive invariant:   *)
(* what the lock and the write buffer (store.py 20-160) say about the rows *)
(* of each file and about every thread's place in its method.              *)
THEOREM StoreInvariant == StoreSpec => []StoreInv
<1>1. StoreInit => StoreInv
  BY StoreAssumption, StoreInitInv
<1>2. StoreInv /\ [StoreNext]_storeVars => StoreInv'
  BY StoreAssumption, StoreStepInv
<1> QED
  BY <1>1, <1>2, PTL DEF StoreSpec

(* store.py, class AlertStore: the state keeps its types, for every number *)
(* of threads, stores and database files.                                  *)
THEOREM StoreTypes == StoreSpec => []TypeOK
  BY StoreInvariant, PTL DEF StoreInv

-----------------------------------------------------------------------------
(* What a deleted file holds was wiped with it or written to it later.     *)
GoneIsCounted == \A f \in Files : f # path => rows[f] \subseteq wiped \cup stray

(* A step keeps the account if it counts what it unlinks and what it       *)
(* writes to a file that is not at the path.                               *)
LEMMA GoneKeeps ==
    ASSUME GoneIsCounted, wiped \subseteq wiped', stray \subseteq stray',
           \/ path' = path \/ path = 0
           \/ path \in Files => rows[path] \subseteq wiped',
           \A f \in Files : f # path' => rows'[f] \subseteq rows[f] \cup stray'
    PROVE  GoneIsCounted'
<1> SUFFICES ASSUME NEW f \in Files, f # path' PROVE rows'[f] \subseteq wiped' \cup stray'
  BY DEF GoneIsCounted
<1>1. f # 0
  BY DEF Files
<1>2. rows[f] \subseteq wiped' \cup stray'
  <2>1. CASE f # path
    BY <2>1 DEF GoneIsCounted
  <2>2. CASE f = path
    BY <1>1, <2>2
  <2> QED
    BY <2>1, <2>2
<1> QED
  BY <1>2

(* _get_connection links a file only where none was.                       *)
LEMMA LinksOnlyFree ==
    ASSUME NEW s, GetConnection(s) \/ GetConnectionFails(s) PROVE path' = path \/ path = 0
  BY DEF GetConnection, GetConnectionFails

(* _flush_locked and close write to the file at the path, or count a stray *)
(* (store.py 145-178, 343-349).                                            *)
LEMMA WritesAreCounted ==
    ASSUME StoreInv, GoneIsCounted, NEW s \in Stores, NEW b,
           rows' = rows \/ (/\ Opened(s) \in Files
                            /\ rows' = [rows EXCEPT ![Opened(s)] = @ \cup Records(b)]
                            /\ stray' = Strays(s, b)),
           wiped' = wiped, stray \subseteq stray',
           path' = path \/ path = 0,
           conn[s] = 0 /\ path # 0 => path' = path,
           conn[s] = 0 /\ path = 0 => path' = created + 1 \/ rows' = rows
    PROVE  GoneIsCounted'
<1>1. ASSUME NEW f \in Files, f # path' PROVE rows'[f] \subseteq rows[f] \cup stray'
  <2>1. CASE rows' = rows
    BY <2>1
  <2>2. CASE rows' # rows
    <3>1. rows \in [Files -> SUBSET Alerts] /\ conn[s] \in Nat /\ path \in Nat
      BY DEF StoreInv, TypeOK
    <3>2. CASE f # Opened(s)
      BY <2>2, <3>1, <3>2
    <3>3. CASE f = Opened(s)
      <4>1. conn[s] \notin {0, path}
        <5>1. ASSUME conn[s] = 0 PROVE FALSE
          BY <1>1, <2>2, <3>3, <5>1 DEF Opened
        <5>2. ASSUME conn[s] = path, conn[s] # 0 PROVE FALSE
          BY <1>1, <3>3, <5>2 DEF Opened
        <5> QED
          BY <5>1, <5>2
      <4>2. stray' = stray \cup Records(b)
        BY <2>2, <4>1 DEF Strays
      <4>3. rows'[f] = rows[f] \cup Records(b)
        BY <2>2, <3>1, <3>3
      <4> QED
        BY <4>2, <4>3
    <3> QED
      BY <3>2, <3>3
  <2> QED
    BY <2>1, <2>2
<1> QED
  BY <1>1, GoneKeeps

LEMMA FlushIsCounted ==
    ASSUME StoreInv, GoneIsCounted, NEW s \in Stores, NEW b,
           FlushDone(s, b) \/ FlushRaises(s, b)
    PROVE  GoneIsCounted'
<1>1. wiped' = wiped /\ stray \subseteq stray'
  BY DEF FlushDone, FlushRaises, losses, Strays
<1>2. CASE FlushDone(s, b) /\ b # <<>>
  <2>1. /\ GetConnection(s) /\ stray' = Strays(s, b)
        /\ rows' = [rows EXCEPT ![Opened(s)] = @ \cup Records(b)]
    BY <1>2 DEF FlushDone
  <2>2. /\ Opened(s) \in Files /\ (path' = path \/ path = 0)
        /\ conn[s] = 0 /\ path # 0 => path' = path
        /\ conn[s] = 0 /\ path = 0 => path' = created + 1
    BY <2>1 DEF GetConnection
  <2> QED
    BY <1>1, <2>1, <2>2, WritesAreCounted
<1>3. CASE ~(FlushDone(s, b) /\ b # <<>>)
  <2>1. rows' = rows /\ (path' = path \/ path = 0)
    BY <1>3, LinksOnlyFree DEF FlushDone, FlushRaises, RolledBack
  <2> QED
    BY <1>1, <2>1, GoneKeeps
<1> QED
  BY <1>2, <1>3

LEMMA CloseIsCounted ==
    ASSUME StoreAssumption, StoreInv, GoneIsCounted, NEW t \in Threads, Close(t)
    PROVE  GoneIsCounted'
<1> DEFINE s == Home[t]
           b == buffer[s]
<1>0. s \in Stores
  BY DEF StoreAssumption
<1>1. CASE FlushRaises(s, b)
  BY <1>0, <1>1, FlushIsCounted
<1>2. CASE ~FlushRaises(s, b)
  <2>1. /\ b = <<>> \/ Opened(s) \in Files \cap schema
        /\ rows' = IF b = <<>> THEN rows ELSE [rows EXCEPT ![Opened(s)] = @ \cup Records(b)]
        /\ stray' = Strays(s, b) /\ wiped' = wiped /\ path' = path
    BY <1>2 DEF Close
  <2>2. stray \subseteq stray'
    BY <2>1 DEF Strays
  <2>3. conn[s] = 0 /\ path = 0 => rows' = rows
    <3>1. ASSUME conn[s] = 0, path = 0, b # <<>> PROVE FALSE
      <4>1. Opened(s) = created + 1 /\ Opened(s) \in schema
        BY <2>1, <3>1 DEF Opened
      <4>2. schema \subseteq {f \in Files : f <= created} /\ created \in Nat
        BY DEF StoreInv, TypeOK
      <4> QED
        BY <4>1, <4>2
    <3> QED
      BY <2>1, <3>1
  <2>4. \/ rows' = rows
        \/ /\ Opened(s) \in Files /\ stray' = Strays(s, b)
           /\ rows' = [rows EXCEPT ![Opened(s)] = @ \cup Records(b)]
    BY <2>1
  <2> QED
    BY <1>0, <2>1, <2>2, <2>3, <2>4, WritesAreCounted
<1> QED
  BY <1>1, <1>2

(* Every step keeps the account of the deleted files.                      *)
LEMMA GoneStep ==
    ASSUME StoreAssumption, StoreInv, GoneIsCounted, StoreNext PROVE GoneIsCounted'
<1>1. ASSUME NEW t \in Threads, InitDb(t) \/ Recreate(t) \/ ReadCount(t) \/ ReadRaises(t)
      PROVE  GoneIsCounted'
  <2>1. wiped' = wiped /\ stray' = stray /\ rows' = rows /\ (path' = path \/ path = 0)
    BY <1>1, LinksOnlyFree DEF InitDb, Recreate, ReadCount, ReadRaises, losses
  <2> QED
    BY <2>1, GoneKeeps
<1>2. ASSUME NEW t \in Threads, InitDbFails(t) \/ ClearFails(t) PROVE GoneIsCounted'
  <2>1. Recover(Home[t]) /\ rows' = rows
    BY <1>2 DEF InitDbFails, ClearFails
  <2>2. /\ wiped \subseteq wiped' /\ stray' = stray
        /\ path' = path \/ (path \in Files => rows[path] \subseteq wiped')
    BY <2>1 DEF Recover
  <2> QED
    BY <2>1, <2>2, GoneKeeps
<1>3. ASSUME NEW t \in Threads, NEW a \in Alerts, Append1(t, a) PROVE GoneIsCounted'
  <2> DEFINE b == Append(buffer[Home[t]], a)
  <2>0. Home[t] \in Stores
    BY DEF StoreAssumption
  <2>1. CASE FlushDone(Home[t], b) \/ FlushRaises(Home[t], b)
    BY <2>0, <2>1, FlushIsCounted
  <2>2. CASE UNCHANGED <<path, rows, losses>>
    BY <2>2, GoneKeeps DEF losses
  <2> QED
    BY <1>3, <2>1, <2>2 DEF Append1
<1>4. ASSUME NEW t \in Threads, NEW a1 \in Alerts, NEW a2 \in Alerts, AppendBatch(t, a1, a2)
      PROVE  GoneIsCounted'
  <2>1. Home[t] \in Stores
    BY DEF StoreAssumption
  <2> QED
    BY <1>4, <2>1, FlushIsCounted DEF AppendBatch
<1>5. ASSUME NEW t \in Threads, Flush(t) \/ ReadFlush(t) PROVE GoneIsCounted'
  <2>1. Home[t] \in Stores
    BY DEF StoreAssumption
  <2>2. FlushDone(Home[t], buffer[Home[t]]) \/ FlushRaises(Home[t], buffer[Home[t]])
    BY <1>5 DEF Flush, ReadFlush
  <2> QED
    BY <2>1, <2>2, FlushIsCounted
<1>6. ASSUME NEW t \in Threads, Clear(t) PROVE GoneIsCounted'
  <2>1. /\ wiped' = wiped /\ stray' = stray
        /\ rows' = [rows EXCEPT ![Opened(Home[t])] = {}]
        /\ path' = path \/ path = 0
    BY <1>6, LinksOnlyFree DEF Clear, losses
  <2>2. rows \in [Files -> SUBSET Alerts]
    BY DEF StoreInv, TypeOK
  <2>3. \A f \in Files : rows'[f] \subseteq rows[f]
    BY <2>1, <2>2
  <2> QED
    BY <2>1, <2>3, GoneKeeps
<1>7. ASSUME NEW t \in Threads, ReadSelect(t) PROVE GoneIsCounted'
  BY <1>7 DEF ReadSelect, data, losses, GoneIsCounted
<1>8. ASSUME NEW a \in Alerts, Notify(a) PROVE GoneIsCounted'
  BY <1>8 DEF Notify, data, losses, GoneIsCounted
<1> QED
  BY <1>1, <1>2, <1>3, <1>4, <1>5, <1>6, <1>7, <1>8, CloseIsCounted DEF StoreNext

(* store.py _flush_locked, clear, close, _recover_corrupt_db: an alert     *)
(* whose append returned is in the buffer or in the file at db_path, or a  *)
(* flush raised on it, clear took it, or a recovery deleted the file it    *)
(* was in or was still to be written to.                                   *)
THEOREM AlertsAreNotLost == StoreSpec => []NoSilentLoss
<1>1. ASSUME StoreInv, GoneIsCounted PROVE NoSilentLoss
  <2> SUFFICES ASSUME NEW s \in Stores, NEW a \in accepted[s], a \notin AlertsIn(buffer[s]),
                      a \notin dropped, a \notin cleared, a \notin wiped, a \notin stray
               PROVE  a \in Live
    BY DEF NoSilentLoss
  <2>1. PICK f \in Files : a \in rows[f]
    BY <1>1 DEF StoreInv, DataInv, Kept, Settled
  <2>2. f = path /\ f # 0
    BY <1>1, <2>1 DEF GoneIsCounted, Files
  <2> QED
    BY <2>1, <2>2 DEF Live
<1>2. StoreInit => GoneIsCounted
  BY DEF StoreInit, GoneIsCounted
<1>3. StoreInv /\ GoneIsCounted /\ [StoreNext]_storeVars => GoneIsCounted'
  <2>1. ASSUME GoneIsCounted, UNCHANGED storeVars PROVE GoneIsCounted'
    BY <2>1 DEF storeVars, data, losses, GoneIsCounted
  <2> QED
    BY <2>1, GoneStep, StoreAssumption
<1> QED
  BY <1>1, <1>2, <1>3, StoreInvariant, PTL DEF StoreSpec

(* store.py 174-178: nothing of a batch whose flush raised is in a file or *)
(* in a buffer, now or after any later flush.                              *)
THEOREM FailedFlushIsClean == StoreSpec => []FailedFlushLeavesNothing
<1>1. StoreInv => FailedFlushLeavesNothing
  BY DEF StoreInv, DataInv, DroppedIsGone, FailedFlushLeavesNothing
<1> QED
  BY <1>1, StoreInvariant, PTL

(* store.py 281-290, 319-324: while one process alone has the database,    *)
(* the count a reader returns is the number of rows it selects.            *)
THEOREM CountsMatchRows == StoreSpec => []TotalsMatchRows
<1>1. StoreInv => TotalsMatchRows
  BY DEF StoreInv, ThreadInv, ThreadOK, TotalsMatchRows
<1> QED
  BY <1>1, StoreInvariant, PTL

(* store.py 186-190: a reader sees every alert its store had accepted when *)
(* the read began, unless a flush raised on it, clear took it or its file  *)
(* was deleted from the path.                                              *)
THEOREM ReadersSeeTheirWrites == StoreSpec => []ReadYourWrites
<1>1. ASSUME StoreInv, StoreAssumption PROVE ReadYourWrites
  <2> SUFFICES ASSUME NEW t \in Threads, pc[t] = "select",
                      NEW a \in seen[t], a \notin dropped, a \notin cleared, a \notin Unlinked
               PROVE  a \in rows[conn[Home[t]]]
    BY DEF ReadYourWrites
  <2>1. a \in accepted[Home[t]] /\ Settled(a) /\ conn[Home[t]] # 0 /\ Home[t] \in Stores
    BY <1>1 DEF StoreInv, ThreadInv, ThreadOK, StoreAssumption
  <2>2. PICK f \in Files : a \in rows[f]
    BY <2>1 DEF Settled
  <2>3. f = path
    BY <2>2 DEF Unlinked
  <2>4. path # 0
    BY <2>2, <2>3 DEF Files
  <2>5. conn[Home[t]] \in {0, path}
    BY <1>1, <2>1, <2>2, <2>3, <2>4 DEF StoreInv, DataInv, WrittenWhereOpen
  <2> QED
    BY <2>1, <2>2, <2>3, <2>5
<1> QED
  BY <1>1, StoreAssumption, StoreInvariant, PTL

(* store.py 114-116: a clear whose DELETE raised never gets past _init_db, *)
(* which waits for the lock clear itself holds: from that step on neither  *)
(* the thread nor the lock moves again.                                    *)
ClearHangs ==
    [][\A t \in Threads : pc[t] = "reinit" => pc'[t] = "reinit" /\ lock'[Home[t]] = t]_storeVars

(* ClearHangs holds of the store: after a DELETE that raised, clear()      *)
(* (store.py 101-116) keeps its thread and the store's lock for ever.      *)
THEOREM FailedClearNeverReturns == StoreSpec => ClearHangs
<1>1. ASSUME StoreAssumption, StoreInv, StoreInv', StoreNext, NEW t \in Threads, pc[t] = "reinit"
      PROVE  pc'[t] = "reinit" /\ lock'[Home[t]] = t
  <2>1. lock[Home[t]] = t /\ t # NoOne
    BY <1>1 DEF StoreInv, ThreadInv, ThreadOK, StoreAssumption
  <2>2. pc'[t] = "reinit"
    <3>1. ASSUME NEW u \in Threads, NEW v, u # t, pc' = [pc EXCEPT ![u] = v] PROVE pc'[t] = pc[t]
      BY <1>1, <3>1 DEF StoreInv, TypeOK
    <3>2. ASSUME NEW u \in Threads, InitDb(u) \/ InitDbFails(u) \/ Recreate(u) PROVE pc'[t] = pc[t]
      BY <1>1, <2>1, <3>1, <3>2 DEF InitDb, InitDbFails, Recreate
    <3>3. ASSUME NEW u \in Threads, ClearFails(u) \/ ReadFlush(u) \/ ReadCount(u) \/ ReadSelect(u) \/ ReadRaises(u)
          PROVE pc'[t] = pc[t]
      BY <1>1, <3>1, <3>3 DEF ClearFails, ReadFlush, ReadCount, ReadSelect, ReadRaises, Enters
    <3>4. ASSUME NEW u \in Threads,
                 \/ Flush(u) \/ Close(u) \/ Clear(u)
                 \/ \E a \in Alerts : Append1(u, a)
                 \/ \E a1, a2 \in Alerts : AppendBatch(u, a1, a2)
          PROVE pc' = pc
      BY <3>4 DEF Flush, Close, Clear, Append1, AppendBatch
    <3>5. ASSUME NEW a \in Alerts, Notify(a) PROVE pc' = pc
      BY <3>5 DEF Notify
    <3> QED
      BY <1>1, <3>2, <3>3, <3>4, <3>5 DEF StoreNext
  <2>3. lock'[Home[t]] = t
    BY <1>1, <2>2 DEF StoreInv, ThreadInv, ThreadOK
  <2> QED
    BY <2>2, <2>3
<1>2. StoreInv /\ StoreInv' /\ [StoreNext]_storeVars =>
        [\A t \in Threads : pc[t] = "reinit" => pc'[t] = "reinit" /\ lock'[Home[t]] = t]_storeVars
  BY <1>1, StoreAssumption
<1> QED
  BY <1>2, StoreInvariant, PTL DEF StoreSpec, ClearHangs

=============================================================================
