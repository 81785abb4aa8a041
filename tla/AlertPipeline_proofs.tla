------------------------ MODULE AlertPipeline_proofs ------------------------
(***************************************************************************)
(* The correlator for all addresses, timestamps in any order, every window *)
(* and every cap, and the scoring in front of it for every feature vector  *)
(* and every answer of a model.                                            *)
(***************************************************************************)
EXTENDS AlertPipeline, SequenceTheorems, FiniteSetTheorems, WellFoundedInduction, TLAPS

Addresses == IPs \cup {NoIP}
Entry == [ts : AlertTimes, id : Nat]
Recorded == [ts : AlertTimes, id : Nat, src : Addresses, dst : Addresses]
Logged == [ts : AlertTimes, src : Addresses, dst : Addresses, related : SUBSET Nat]

CorrelatorTypes ==
    /\ log \in Seq(Logged)
    /\ recent \in Seq(Recorded)
    /\ index \in [IPs -> Seq(Entry)]

(* How many alerts have left the deque.                                    *)
Gone == Len(log) - Len(recent)

(* popleft takes from the head only: the deque is the end of the history.  *)
RecentIsSuffix ==
    /\ Gone \in Nat
    /\ \A i \in 1..Len(recent) :
          /\ recent[i].id = Gone + i /\ recent[i].ts = log[Gone + i].ts
          /\ recent[i].src = log[Gone + i].src /\ recent[i].dst = log[Gone + i].dst

(* An index deque holds alerts of its address that are still in the deque, *)
(* in the order in which they came: what makes popping from its head reach *)
(* each of them.                                                           *)
IndexInOrder ==
    \A ip \in IPs :
        /\ \A j \in 1..Len(index[ip]) :
              LET e == index[ip][j] IN
              /\ e.id \in Gone + 1 .. Len(log)
              /\ e.ts = log[e.id].ts /\ ip \in {log[e.id].src, log[e.id].dst}
        /\ \A j, l \in 1..Len(index[ip]) : j <= l => index[ip][j].id <= index[ip][l].id

(* An alert that an index deque no longer has is out of the window of some *)
(* alert processed since.                                                  *)
OnlyOldAreMissing ==
    \A m \in 1..Len(log) : \A ip \in {log[m].src, log[m].dst} \ {NoIP} :
        \/ \E j \in 1..Len(index[ip]) : index[ip][j].id = m
        \/ \E n \in 1..Len(log) : log[m].ts < log[n].ts - Window

CorrelatorInv ==
    /\ CorrelatorTypes /\ RecentIsSuffix /\ IndexInOrder /\ OnlyOldAreMissing
    /\ RelatedAreCorrelated /\ LatestSeesWholeWindow

-----------------------------------------------------------------------------
(* A nonempty set of naturals has a least element.                         *)
LEMMA LeastExists ==
    ASSUME NEW S \in SUBSET Nat, S # {}
    PROVE  \E m \in S : \A n \in S : m <= n
<1> DEFINE R == {p \in Nat \X Nat : p[1] < p[2]}
<1>1. IsWellFoundedOn(R, Nat)
  BY NatLessThanWellFounded DEF OpToRel
<1> HIDE DEF R
<1>2. PICK m \in S : \A n \in S : ~(<<n, m>> \in R)
  BY <1>1, WFMin
<1>3. \A n \in S : ~(n < m)
  BY <1>2 DEF R
<1> QED
  BY <1>3

(* The popleft loop stops (correlator.py 23-32): what it takes is old, and *)
(* what is then at the head is not.                                        *)
LEMMA OldPrefixIsOld ==
    ASSUME NEW S, NEW q \in Seq(S), NEW cutoff \in Int,
           \A i \in 1..Len(q) : q[i].ts \in Int
    PROVE  /\ OldPrefix(q, cutoff) \in 0..Len(q)
           /\ \A i \in 1..OldPrefix(q, cutoff) : q[i].ts < cutoff
           /\ OldPrefix(q, cutoff) < Len(q) => q[OldPrefix(q, cutoff) + 1].ts >= cutoff
<1> DEFINE Stops == {k \in 0..Len(q) : k < Len(q) => q[k + 1].ts >= cutoff}
<1>1. Len(q) \in Nat /\ Len(q) \in Stops /\ Stops \in SUBSET Nat
  BY LenProperties
<1>2. PICK k \in Stops : \A n \in Stops : k <= n
  BY <1>1, LeastExists
<1>3. k \in 0..Len(q) /\ (k < Len(q) => q[k + 1].ts >= cutoff)
  BY <1>2
<1>4. ASSUME NEW i \in 1..k PROVE q[i].ts < cutoff
  <2>1. i - 1 \in 0..Len(q) /\ i - 1 < k /\ i \in 1..Len(q) /\ (i - 1) + 1 = i
    BY <1>1, <1>3
  <2>2. i - 1 \notin Stops
    <3> HIDE DEF Stops
    <3> QED
      BY <1>2, <1>3, <2>1
  <2>3. q[i].ts \in Int /\ ~(q[(i - 1) + 1].ts >= cutoff)
    BY <2>1, <2>2
  <2> QED
    BY <2>1, <2>3
<1>5. \E x \in 0..Len(q) : /\ \A i \in 1..x : q[i].ts < cutoff
                           /\ x < Len(q) => q[x + 1].ts >= cutoff
  BY <1>3, <1>4
<1> QED
  BY <1>5 DEF OldPrefix

(* What is left of a deque.                                                *)
LEMMA DropOldEntries ==
    ASSUME NEW S, NEW q \in Seq(S), NEW cutoff, OldPrefix(q, cutoff) \in 0..Len(q)
    PROVE  /\ DropOld(q, cutoff) \in Seq(S)
           /\ Len(DropOld(q, cutoff)) = Len(q) - OldPrefix(q, cutoff)
           /\ \A i \in 1..Len(DropOld(q, cutoff)) :
                 DropOld(q, cutoff)[i] = q[OldPrefix(q, cutoff) + i]
<1> DEFINE k == OldPrefix(q, cutoff)
<1>1. Len(q) \in Nat /\ k \in 0..Len(q) /\ \A i \in 1..Len(q) : q[i] \in S
  BY LenProperties, ElementOfSeq
<1> HIDE DEF k
<1>2. \A i \in k + 1 .. Len(q) : q[i] \in S
  BY <1>1
<1>3. /\ SubSeq(q, k + 1, Len(q)) \in Seq(S)
      /\ Len(SubSeq(q, k + 1, Len(q))) = IF k + 1 <= Len(q) THEN Len(q) - (k + 1) + 1 ELSE 0
      /\ \A i \in 1..Len(q) - (k + 1) + 1 : SubSeq(q, k + 1, Len(q))[i] = q[(k + 1) + i - 1]
  <2>1. k + 1 \in Int /\ Len(q) \in Int
    BY <1>1
  <2> QED
    BY <1>2, <2>1, SubSeqProperties
<1>4. Len(SubSeq(q, k + 1, Len(q))) = Len(q) - k
  BY <1>1, <1>3
<1>5. \A i \in 1..Len(q) - k : SubSeq(q, k + 1, Len(q))[i] = q[k + i]
  BY <1>1, <1>3
<1> QED
  BY <1>3, <1>4, <1>5 DEF DropOld, k

(* An alert is put at the end of the deques of its addresses.              *)
LEMMA IndexedEntries ==
    ASSUME NEW idx \in [IPs -> Seq(Entry)], NEW e \in Entry, NEW src, NEW dst, NEW ip \in IPs
    PROVE  LET s == idx[ip]
               t == Indexed(idx, e, src, dst)[ip]
           IN  /\ t \in Seq(Entry) /\ Len(t) >= Len(s)
               /\ \A j \in 1..Len(s) : t[j] = s[j]
               /\ \A j \in 1..Len(t) : j > Len(s) => t[j] = e /\ ip \in {src, dst}
               /\ ip \in {src, dst} => Len(t) > Len(s)
<1> DEFINE s == idx[ip]
           a == IF ip = src THEN <<e>> ELSE <<>>
           b == IF ip = dst THEN <<e>> ELSE <<>>
<1>1. Indexed(idx, e, src, dst)[ip] = s \o a \o b
  BY DEF Indexed
<1>2. s \in Seq(Entry) /\ Len(s) \in Nat
  BY LenProperties
<1>3. /\ a \in Seq(Entry) /\ Len(a) = (IF ip = src THEN 1 ELSE 0)
      /\ \A j \in 1..Len(a) : a[j] = e /\ ip = src
  OBVIOUS
<1>4. /\ b \in Seq(Entry) /\ Len(b) = (IF ip = dst THEN 1 ELSE 0)
      /\ \A j \in 1..Len(b) : b[j] = e /\ ip = dst
  OBVIOUS
<1> HIDE DEF s, a, b
<1>5. /\ s \o a \in Seq(Entry) /\ Len(s \o a) = Len(s) + Len(a)
      /\ \A j \in 1..Len(s) + Len(a) : (s \o a)[j] = IF j <= Len(s) THEN s[j] ELSE a[j - Len(s)]
  BY <1>2, <1>3, ConcatProperties
<1> DEFINE c == s \o a
<1>6. c \in Seq(Entry) /\ Len(c) = Len(s) + Len(a)
      /\ \A j \in 1..Len(c) : c[j] = IF j <= Len(s) THEN s[j] ELSE a[j - Len(s)]
  BY <1>5
<1> HIDE DEF c
<1>a. c \in Seq(Entry) /\ b \in Seq(Entry)
  BY <1>4, <1>6
<1>b. Len(s) \in Nat /\ Len(a) \in {0, 1} /\ Len(b) \in {0, 1} /\ Len(c) \in Nat
      /\ (ip \in {src, dst} => Len(a) + Len(b) > 0)
  BY <1>2, <1>3, <1>4, <1>6
<1>7. /\ c \o b \in Seq(Entry) /\ Len(c \o b) = Len(c) + Len(b)
      /\ \A j \in 1..Len(c) + Len(b) : (c \o b)[j] = IF j <= Len(c) THEN c[j] ELSE b[j - Len(c)]
  BY <1>a, ConcatProperties
<1> DEFINE t == c \o b
<1>8. t \in Seq(Entry) /\ Len(t) = Len(c) + Len(b)
      /\ \A j \in 1..Len(t) : t[j] = IF j <= Len(c) THEN c[j] ELSE b[j - Len(c)]
  BY <1>7
<1>9. Indexed(idx, e, src, dst)[ip] = t
  BY <1>1 DEF c
<1> HIDE DEF t
<1>10. Len(t) >= Len(s) /\ (ip \in {src, dst} => Len(t) > Len(s))
  BY <1>b, <1>6, <1>8
<1>11. ASSUME NEW j \in 1..Len(s) PROVE t[j] = s[j]
  <2>1. j \in 1..Len(c) /\ j \in 1..Len(t) /\ j <= Len(s) /\ j <= Len(c)
    BY <1>b, <1>6, <1>8
  <2> QED
    BY <1>6, <1>8, <2>1
<1>12. ASSUME NEW j \in 1..Len(t), j > Len(s) PROVE t[j] = e /\ ip \in {src, dst}
  <2>1. CASE j <= Len(c)
    <3>1. j - Len(s) \in 1..Len(a) /\ t[j] = a[j - Len(s)]
      BY <1>2, <1>3, <1>6, <1>8, <1>12, <2>1
    <3> QED
      BY <1>3, <3>1
  <2>2. CASE j > Len(c)
    <3>1. j - Len(c) \in 1..Len(b) /\ t[j] = b[j - Len(c)]
      <4>1. j - Len(c) \in 1..Len(b) /\ ~(j <= Len(c))
        BY <1>b, <1>8, <2>2
      <4> QED
        BY <1>8, <4>1
    <3> QED
      BY <1>4, <3>1
  <2> QED
    BY <1>2, <1>3, <1>6, <2>1, <2>2
<1> QED
  BY <1>8, <1>9, <1>10, <1>11, <1>12 DEF s

-----------------------------------------------------------------------------
(* Timestamps are integers, also as the deques hold them.                  *)
LEMMA TimesAreIntegers ==
    ASSUME CorrelatorTypes
    PROVE  /\ \A t \in AlertTimes : t \in Int
           /\ Len(log) \in Nat /\ Len(recent) \in Nat
           /\ \A m \in 1..Len(log) : log[m] \in Logged /\ log[m].ts \in Int
           /\ \A i \in 1..Len(recent) : recent[i] \in Recorded /\ recent[i].ts \in Int
           /\ \A ip \in IPs : /\ index[ip] \in Seq(Entry) /\ Len(index[ip]) \in Nat
                              /\ \A j \in 1..Len(index[ip]) :
                                    index[ip][j] \in Entry /\ index[ip][j].ts \in Int
<1>1. \A t \in AlertTimes : t \in Int
  BY CorrelatorAssumption
<1>2. Len(log) \in Nat /\ \A m \in 1..Len(log) : log[m] \in Logged
  BY LenProperties, ElementOfSeq DEF CorrelatorTypes
<1>3. Len(recent) \in Nat /\ \A i \in 1..Len(recent) : recent[i] \in Recorded
  BY LenProperties, ElementOfSeq DEF CorrelatorTypes
<1>4. ASSUME NEW ip \in IPs
      PROVE  /\ index[ip] \in Seq(Entry) /\ Len(index[ip]) \in Nat
             /\ \A j \in 1..Len(index[ip]) : index[ip][j] \in Entry
  <2>1. index[ip] \in Seq(Entry)
    BY DEF CorrelatorTypes
  <2> QED
    BY <2>1, LenProperties, ElementOfSeq
<1>5. /\ \A x \in Logged : x.ts \in AlertTimes
      /\ \A x \in Recorded : x.ts \in AlertTimes
      /\ \A x \in Entry : x.ts \in AlertTimes
  BY DEF Logged, Recorded, Entry
<1> QED
  BY <1>1, <1>2, <1>3, <1>4, <1>5

(* Evicting trims the front of some index deques, by old entries only, and *)
(* leaves in none an alert that was popped (correlator.py 21-32).          *)
LEMMA EvictedIndex ==
    ASSUME CorrelatorInv, NEW cutoff \in Int, NEW ip \in IPs
    PROVE  LET s == index[ip]
               t == EvictIndex(cutoff)[ip]
           IN  /\ t \in Seq(Entry)
               /\ \E d \in 0..Len(s) :
                     /\ Len(t) = Len(s) - d
                     /\ \A j \in 1..Len(t) : t[j] = s[d + j]
                     /\ \A i \in 1..d : s[i].ts < cutoff
               /\ \A j \in 1..Len(t) : t[j].id > Gone + OldPrefix(recent, cutoff)
<1> DEFINE s == index[ip]
           t == EvictIndex(cutoff)[ip]
           k == OldPrefix(recent, cutoff)
           touched == UNION {{e.src, e.dst} : e \in {recent[i] : i \in 1..k}}
<1>0. CorrelatorTypes /\ RecentIsSuffix /\ IndexInOrder
  BY DEF CorrelatorInv
<1>1. /\ s \in Seq(Entry) /\ Len(s) \in Nat
      /\ \A j \in 1..Len(s) : s[j] \in Entry /\ s[j].ts \in Int /\ s[j].id \in Nat
  <2>1. \A x \in Entry : x.id \in Nat
    BY DEF Entry
  <2> QED
    BY <1>0, <2>1, TimesAreIntegers
<1>2. k \in 0..Len(recent) /\ \A i \in 1..k : recent[i].ts < cutoff
  <2>1. recent \in Seq(Recorded) /\ \A i \in 1..Len(recent) : recent[i].ts \in Int
    BY <1>0, TimesAreIntegers DEF CorrelatorTypes
  <2> QED
    BY <2>1, OldPrefixIsOld
<1>3. t = IF ip \in touched THEN DropOld(s, cutoff) ELSE s
  BY DEF EvictIndex
<1>4. /\ OldPrefix(s, cutoff) \in 0..Len(s)
      /\ \A i \in 1..OldPrefix(s, cutoff) : s[i].ts < cutoff
      /\ OldPrefix(s, cutoff) < Len(s) => s[OldPrefix(s, cutoff) + 1].ts >= cutoff
  <2> HIDE DEF s
  <2> QED
    BY <1>1, OldPrefixIsOld
<1>5. /\ DropOld(s, cutoff) \in Seq(Entry)
      /\ Len(DropOld(s, cutoff)) = Len(s) - OldPrefix(s, cutoff)
      /\ \A i \in 1..Len(DropOld(s, cutoff)) :
            DropOld(s, cutoff)[i] = s[OldPrefix(s, cutoff) + i]
  <2> HIDE DEF s
  <2> QED
    BY <1>1, <1>4, DropOldEntries
<1>6. /\ Gone \in Nat /\ Len(recent) \in Nat
      /\ \A j \in 1..Len(s) : /\ s[j].id >= Gone + 1 /\ s[j].ts = log[s[j].id].ts
                              /\ ip \in {log[s[j].id].src, log[s[j].id].dst}
      /\ \A j, l \in 1..Len(s) : j <= l => s[j].id <= s[l].id
  BY <1>0, TimesAreIntegers DEF IndexInOrder, RecentIsSuffix
<1>7. ASSUME NEW j \in 1..Len(s), s[j].id <= Gone + k
      PROVE  s[j].ts < cutoff /\ ip \in touched
  <2> DEFINE i == s[j].id - Gone
  <2>1. i \in 1..k /\ i \in 1..Len(recent) /\ Gone + i = s[j].id
    BY <1>1, <1>2, <1>6, <1>7
  <2> HIDE DEF i, k
  <2>2. /\ recent[i].ts = log[s[j].id].ts
        /\ recent[i].src = log[s[j].id].src /\ recent[i].dst = log[s[j].id].dst
    BY <1>0, <2>1 DEF RecentIsSuffix
  <2>3. s[j].ts < cutoff
    BY <1>2, <1>6, <2>1, <2>2
  <2>4. ip \in {recent[i].src, recent[i].dst}
    BY <1>6, <2>2
  <2> QED
    BY <2>1, <2>3, <2>4
<1>8. CASE ip \in touched
  <2> DEFINE d == OldPrefix(s, cutoff)
  <2>1. t = DropOld(s, cutoff)
    BY <1>3, <1>8
  <2> HIDE DEF s, t, k
  <2>2. ASSUME NEW j \in 1..Len(t) PROVE t[j].id > Gone + k
    <3>1. /\ d \in 0..Len(s) /\ d < Len(s) /\ d + 1 \in 1..Len(s) /\ d + j \in 1..Len(s)
          /\ d + 1 <= d + j /\ t[j] = s[d + j]
      BY <1>1, <1>4, <1>5, <2>1
    <3>2. s[d + 1].ts >= cutoff /\ s[d + 1].ts \in Int /\ s[d + 1].id \in Nat
      BY <1>1, <1>4, <3>1
    <3>3. ~(s[d + 1].id <= Gone + k)
      BY <1>7, <3>1, <3>2
    <3>4. s[d + 1].id <= s[d + j].id /\ s[d + j].id \in Nat /\ k \in Nat
      BY <1>1, <1>2, <1>6, <3>1
    <3> HIDE DEF d
    <3>5. s[d + j].id > Gone + k
      <4> DEFINE first == s[d + 1].id
                 this == s[d + j].id
      <4>1. first \in Nat /\ this \in Nat /\ first <= this /\ ~(first <= Gone + k)
        BY <3>2, <3>3, <3>4
      <4> HIDE DEF first, this
      <4>2. this > Gone + k
        BY <1>6, <3>4, <4>1
      <4> QED
        BY <4>2 DEF this
    <3> QED
      BY <3>1, <3>5
  <2>3. /\ d \in 0..Len(s) /\ Len(t) = Len(s) - d
        /\ \A j \in 1..Len(t) : t[j] = s[d + j]
        /\ \A i \in 1..d : s[i].ts < cutoff
    BY <1>4, <1>5, <2>1
  <2> HIDE DEF d
  <2>4. t \in Seq(Entry)
    BY <1>5, <2>1
  <2> QED
    BY <2>2, <2>3, <2>4 DEF s, t, k
<1>9. CASE ip \notin touched
  <2>1. t = s
    BY <1>3, <1>9
  <2> HIDE DEF s, t, k
  <2>2. ASSUME NEW j \in 1..Len(s) PROVE s[j].id > Gone + k
    BY <1>1, <1>2, <1>6, <1>7, <1>9
  <2>3. /\ 0 \in 0..Len(s) /\ Len(t) = Len(s) - 0
        /\ \A j \in 1..Len(t) : t[j] = s[0 + j]
        /\ \A i \in 1..0 : s[i].ts < cutoff
    BY <1>1, <2>1
  <2> QED
    BY <1>1, <2>1, <2>2, <2>3 DEF s, t, k
<1> QED
  BY <1>8, <1>9

-----------------------------------------------------------------------------
(* What process() finds in the index it has just trimmed: only alerts that *)
(* are related by the definition, and all of them for an alert that is as  *)
(* late as those before it.                                                *)
LEMMA FoundAreRelated ==
    ASSUME CorrelatorInv, NEW ts \in AlertTimes, NEW src \in Addresses, NEW dst \in Addresses
    PROVE  LET ids == RelatedIds(EvictIndex(ts - Window), src, dst, ts - Window)
               shares(m) == ({log[m].src, log[m].dst} \cap {src, dst}) \ {NoIP} # {}
               ref == {m \in 1..Len(log) : log[m].ts >= ts - Window /\ shares(m)}
           IN  ids \subseteq ref /\ ((\A m \in 1..Len(log) : log[m].ts <= ts) => ids = ref)
<1> DEFINE cutoff == ts - Window
           idx == EvictIndex(cutoff)
           ids == RelatedIds(idx, src, dst, cutoff)
           shares(m) == ({log[m].src, log[m].dst} \cap {src, dst}) \ {NoIP} # {}
           ref == {m \in 1..Len(log) : log[m].ts >= cutoff /\ shares(m)}
           asked == {src, dst} \ {NoIP}
<1>0. CorrelatorTypes /\ RecentIsSuffix /\ IndexInOrder /\ OnlyOldAreMissing
  BY DEF CorrelatorInv
<1>1. ts \in Int /\ Window \in Nat /\ cutoff \in Int
  BY <1>0, TimesAreIntegers, CorrelatorAssumption
<1>2. asked \subseteq IPs
  BY DEF Addresses
<1>3. ASSUME NEW ip \in IPs
      PROVE  \E d \in 0..Len(index[ip]) :
               /\ Len(idx[ip]) = Len(index[ip]) - d
               /\ \A j \in 1..Len(idx[ip]) : idx[ip][j] = index[ip][d + j]
               /\ \A i \in 1..d : index[ip][i].ts < cutoff
  <2> HIDE DEF cutoff
  <2> QED
    BY <1>1, EvictedIndex
<1>4. ids = {e.id : e \in {x \in UNION {Elems(idx[ip]) : ip \in asked} : x.ts >= cutoff}}
  BY DEF RelatedIds
<1>5. /\ Gone \in Nat
      /\ \A ip \in IPs : \A j \in 1..Len(index[ip]) :
            /\ index[ip][j].id \in 1..Len(log)
            /\ index[ip][j].ts = log[index[ip][j].id].ts
            /\ ip \in {log[index[ip][j].id].src, log[index[ip][j].id].dst}
  <2>1. Gone \in Nat /\ Len(log) \in Nat
    BY <1>0, TimesAreIntegers DEF RecentIsSuffix
  <2>2. \A x \in Gone + 1 .. Len(log) : x \in 1..Len(log)
    BY <2>1
  <2> QED
    BY <1>0, <2>1, <2>2 DEF IndexInOrder
<1> HIDE DEF ids, idx, cutoff
<1>6. ASSUME NEW m \in ids PROVE m \in ref
  <2>0. PICK ip \in asked :
          \E x \in 1..Len(idx[ip]) : idx[ip][x].id = m /\ idx[ip][x].ts >= cutoff
    BY <1>4 DEF Elems
  <2>1. PICK j \in 1..Len(idx[ip]) : idx[ip][j].id = m /\ idx[ip][j].ts >= cutoff
    BY <2>0
  <2>2. ip \in IPs /\ ip \in {src, dst} /\ ip # NoIP
    BY <1>2, <2>1
  <2>3. PICK d \in 0..Len(index[ip]) :
               /\ Len(idx[ip]) = Len(index[ip]) - d
               /\ \A i \in 1..Len(idx[ip]) : idx[ip][i] = index[ip][d + i]
    BY <1>3, <2>2
  <2>4. d + j \in 1..Len(index[ip]) /\ idx[ip][j] = index[ip][d + j]
    <3>1. Len(index[ip]) \in Nat
      BY <1>0, <2>2, TimesAreIntegers
    <3> QED
      BY <2>1, <2>3, <3>1
  <2>5. m \in 1..Len(log) /\ log[m].ts >= cutoff /\ ip \in {log[m].src, log[m].dst}
    BY <1>5, <2>1, <2>2, <2>4
  <2> QED
    BY <2>2, <2>5
<1>7. ASSUME \A m \in 1..Len(log) : log[m].ts <= ts, NEW m \in ref PROVE m \in ids
  <2>1. m \in 1..Len(log) /\ log[m].ts >= cutoff /\ shares(m)
    BY <1>7
  <2>2. PICK ip \in {log[m].src, log[m].dst} \ {NoIP} : ip \in {src, dst}
    BY <2>1
  <2>3. ip \in asked /\ ip \in IPs
    BY <1>2, <2>2
  <2>4. log[m].ts \in Int /\ \A n \in 1..Len(log) : log[n].ts \in Int
    BY <1>0, <2>1, TimesAreIntegers
  <2>5. ~ \E n \in 1..Len(log) : log[m].ts < log[n].ts - Window
    BY <1>1, <1>7, <2>1, <2>4 DEF cutoff
  <2>6. PICK j \in 1..Len(index[ip]) : index[ip][j].id = m
    BY <1>0, <2>1, <2>2, <2>5 DEF OnlyOldAreMissing
  <2>7. index[ip][j].ts = log[m].ts
    BY <1>5, <2>3, <2>6
  <2>8. PICK d \in 0..Len(index[ip]) :
               /\ Len(idx[ip]) = Len(index[ip]) - d
               /\ \A i \in 1..Len(idx[ip]) : idx[ip][i] = index[ip][d + i]
               /\ \A i \in 1..d : index[ip][i].ts < cutoff
    BY <1>3, <2>3
  <2>9. j \notin 1..d
    BY <1>1, <2>1, <2>4, <2>7, <2>8
  <2>10. j - d \in 1..Len(idx[ip]) /\ d + (j - d) = j
    <3>1. Len(index[ip]) \in Nat
      BY <1>0, <2>3, TimesAreIntegers
    <3> QED
      BY <2>6, <2>8, <2>9, <3>1
  <2>11. idx[ip][j - d] = index[ip][j]
    BY <2>8, <2>10
  <2>12. /\ idx[ip][j - d] \in Elems(idx[ip])
         /\ idx[ip][j - d].id = m /\ idx[ip][j - d].ts >= cutoff
    BY <2>1, <2>6, <2>7, <2>10, <2>11 DEF Elems
  <2> QED
    BY <1>4, <2>3, <2>12
<1>8. ids \subseteq ref
  BY <1>6
<1>9. (\A m \in 1..Len(log) : log[m].ts <= ts) => ids = ref
  <2> HIDE DEF ref
  <2> QED
    BY <1>7, <1>8
<1> QED
  BY <1>8, <1>9 DEF ids, idx, cutoff

(* list(related_ids)[-20:] keeps some of them, and all up to the cap.      *)
LEMMA CappedIds ==
    ASSUME NEW ids, IsFiniteSet(ids), NEW rel \in Capped(ids)
    PROVE  rel \subseteq ids /\ Cardinality(rel) <= Cap
           /\ (rel = ids \/ Cardinality(rel) = Cap)
<1>1. Cardinality(ids) \in Nat /\ Cap \in Nat
  BY FS_CardinalityType, CorrelatorAssumption
<1>2. CASE Cardinality(ids) <= Cap
  BY <1>1, <1>2 DEF Capped
<1>3. CASE ~(Cardinality(ids) <= Cap)
  BY <1>1, <1>3 DEF Capped
<1> QED
  BY <1>2, <1>3

LEMMA CorrelatorInvInit == CorrInit => CorrelatorInv
<1> SUFFICES ASSUME CorrInit PROVE CorrelatorInv
  OBVIOUS
<1>1. /\ log = <<>> /\ recent = <<>> /\ index = [ip \in IPs |-> <<>>]
      /\ Len(log) = 0 /\ Len(recent) = 0 /\ \A ip \in IPs : Len(index[ip]) = 0
  BY DEF CorrInit
<1>2. CorrelatorTypes
  BY <1>1 DEF CorrelatorTypes
<1>3. RecentIsSuffix /\ IndexInOrder /\ OnlyOldAreMissing
  BY <1>1 DEF RecentIsSuffix, Gone, IndexInOrder, OnlyOldAreMissing
<1>4. RelatedAreCorrelated /\ LatestSeesWholeWindow
  BY <1>1 DEF RelatedAreCorrelated, LatestSeesWholeWindow
<1> QED
  BY <1>2, <1>3, <1>4 DEF CorrelatorInv

(* process() (correlator.py 17-60) keeps the invariant, whatever the       *)
(* timestamp and the addresses of the alert.                               *)
LEMMA ProcessKeepsInv ==
    ASSUME CorrelatorInv, NEW ts \in AlertTimes, NEW src \in Addresses, NEW dst \in Addresses,
           Process(ts, src, dst)
    PROVE  CorrelatorInv'
<1> DEFINE cutoff == ts - Window
           idx == EvictIndex(cutoff)
           k == OldPrefix(recent, cutoff)
           n == Len(log) + 1
           new == [ts |-> ts, id |-> n]
           shares(m) == ({log[m].src, log[m].dst} \cap {src, dst}) \ {NoIP} # {}
           ref == {m \in 1..Len(log) : log[m].ts >= cutoff /\ shares(m)}
<1>0. /\ CorrelatorTypes /\ RecentIsSuffix /\ IndexInOrder /\ OnlyOldAreMissing
      /\ RelatedAreCorrelated /\ LatestSeesWholeWindow
  BY DEF CorrelatorInv
<1>1. /\ ts \in Int /\ Window \in Nat /\ cutoff \in Int
      /\ Len(log) \in Nat /\ Len(recent) \in Nat /\ Gone \in Nat /\ n \in Nat
  BY <1>0, TimesAreIntegers, CorrelatorAssumption DEF RecentIsSuffix
<1>2. PICK rel \in Capped(RelatedIds(idx, src, dst, cutoff)) :
          log' = Append(log, [ts |-> ts, src |-> src, dst |-> dst, related |-> rel])
  BY DEF Process
<1>3. /\ RelatedIds(idx, src, dst, cutoff) \subseteq ref
      /\ (\A m \in 1..Len(log) : log[m].ts <= ts) => RelatedIds(idx, src, dst, cutoff) = ref
  BY FoundAreRelated
<1>4. /\ rel \subseteq ref /\ Cardinality(rel) <= Cap
      /\ (\A m \in 1..Len(log) : log[m].ts <= ts) => rel = ref \/ Cardinality(rel) = Cap
  <2> DEFINE ids == RelatedIds(idx, src, dst, cutoff)
  <2>1. ref \subseteq 1..Len(log)
    OBVIOUS
  <2> HIDE DEF ids, ref
  <2>2. ids \subseteq ref /\ rel \in Capped(ids)
    BY <1>2, <1>3 DEF ids
  <2>3. IsFiniteSet(ids)
    <3>1. IsFiniteSet(1..Len(log))
      BY <1>1, FS_Interval
    <3> QED
      BY <2>1, <2>2, <3>1, FS_Subset
  <2>4. rel \subseteq ids /\ Cardinality(rel) <= Cap /\ (rel = ids \/ Cardinality(rel) = Cap)
    BY <2>2, <2>3, CappedIds
  <2> QED
    BY <1>3, <2>2, <2>4 DEF ids
<1> DEFINE entry == [ts |-> ts, src |-> src, dst |-> dst, related |-> rel]
<1>5. entry \in Logged
  <2>1. rel \in SUBSET Nat
    BY <1>1, <1>4
  <2> QED
    BY <2>1 DEF Logged
<1>6. /\ log' \in Seq(Logged) /\ Len(log') = n /\ log'[n] = entry
      /\ \A m \in 1..Len(log) : log'[m] = log[m]
  <2> HIDE DEF entry
  <2>1. log \in Seq(Logged)
    BY <1>0 DEF CorrelatorTypes
  <2>2. log' = Append(log, entry)
    BY <1>2 DEF entry
  <2> QED
    BY <1>5, <2>1, <2>2, AppendProperties
<1>7. /\ log'[n].ts = ts /\ log'[n].src = src /\ log'[n].dst = dst /\ log'[n].related = rel
      /\ \A m \in 1..Len(log') : m = n \/ m \in 1..Len(log)
  BY <1>1, <1>6
<1> HIDE DEF entry
<1>8. /\ k \in 0..Len(recent) /\ DropOld(recent, cutoff) \in Seq(Recorded)
      /\ Len(DropOld(recent, cutoff)) = Len(recent) - k
      /\ \A i \in 1..Len(recent) - k : DropOld(recent, cutoff)[i] = recent[k + i]
  <2>1. recent \in Seq(Recorded) /\ \A i \in 1..Len(recent) : recent[i].ts \in Int
    BY <1>0, TimesAreIntegers DEF CorrelatorTypes
  <2> HIDE DEF cutoff
  <2>2. k \in 0..Len(recent)
    BY <1>1, <2>1, OldPrefixIsOld
  <2> QED
    BY <2>1, <2>2, DropOldEntries
<1>9. /\ recent' \in Seq(Recorded) /\ Len(recent') = Len(recent) - k + 1
      /\ \A i \in 1..Len(recent) - k : recent'[i] = recent[k + i]
      /\ recent'[Len(recent) - k + 1] = [ts |-> ts, id |-> n, src |-> src, dst |-> dst]
  <2> DEFINE q == DropOld(recent, cutoff)
             x == [ts |-> ts, id |-> n, src |-> src, dst |-> dst]
  <2>1. x \in Recorded
    BY <1>1 DEF Recorded
  <2>2. recent' = Append(q, x)
    BY DEF Process
  <2> HIDE DEF q, x, k
  <2>3. q \in Seq(Recorded) /\ Len(q) = Len(recent) - k
    BY <1>8 DEF q
  <2>4. /\ recent' \in Seq(Recorded) /\ Len(recent') = Len(q) + 1
        /\ \A i \in 1..Len(q) : recent'[i] = q[i]
        /\ recent'[Len(q) + 1] = x
    BY <2>1, <2>2, <2>3, AppendProperties
  <2> QED
    BY <1>8, <2>3, <2>4 DEF q, x
<1>10. Gone' = Gone + k
  <2> HIDE DEF k
  <2> QED
    BY <1>1, <1>6, <1>8, <1>9 DEF Gone
<1>11. idx \in [IPs -> Seq(Entry)]
  <2>1. \A ip \in IPs : idx[ip] \in Seq(Entry)
    <3> HIDE DEF cutoff
    <3> QED
      BY <1>1, EvictedIndex
  <2>2. idx = [ip \in IPs |-> idx[ip]]
    BY DEF EvictIndex
  <2> HIDE DEF idx
  <2> QED
    BY <2>1, <2>2
<1>12. new \in Entry
  BY <1>1 DEF Entry
<1>13. index' = Indexed(idx, new, src, dst)
  BY DEF Process
<1>14. ASSUME NEW ip \in IPs
       PROVE  /\ index'[ip] \in Seq(Entry) /\ Len(index'[ip]) \in Nat
              /\ Len(idx[ip]) \in Nat /\ Len(index'[ip]) >= Len(idx[ip])
              /\ \A j \in 1..Len(idx[ip]) : index'[ip][j] = idx[ip][j]
              /\ \A j \in 1..Len(index'[ip]) :
                    j > Len(idx[ip]) => index'[ip][j] = new /\ ip \in {src, dst}
              /\ ip \in {src, dst} => Len(index'[ip]) > Len(idx[ip])
  <2> HIDE DEF idx, new
  <2>1. index'[ip] \in Seq(Entry) /\ idx[ip] \in Seq(Entry)
    BY <1>11, <1>12, <1>13, IndexedEntries
  <2>2. Len(index'[ip]) \in Nat /\ Len(idx[ip]) \in Nat
    BY <2>1, LenProperties
  <2> QED
    BY <1>11, <1>12, <1>13, <2>1, <2>2, IndexedEntries
<1>15. ASSUME NEW ip \in IPs
       PROVE  /\ \E d \in 0..Len(index[ip]) :
                    /\ Len(idx[ip]) = Len(index[ip]) - d
                    /\ \A j \in 1..Len(idx[ip]) : idx[ip][j] = index[ip][d + j]
                    /\ \A i \in 1..d : index[ip][i].ts < cutoff
              /\ \A j \in 1..Len(idx[ip]) : idx[ip][j].id > Gone + k
  <2> HIDE DEF cutoff
  <2> QED
    BY <1>1, EvictedIndex
<1> HIDE DEF k, idx
<1>16. CorrelatorTypes'
  <2>1. index' = [ip \in IPs |-> index'[ip]]
    BY <1>13 DEF Indexed
  <2>2. index' \in [IPs -> Seq(Entry)]
    BY <1>14, <2>1
  <2> QED
    BY <1>6, <1>9, <2>2 DEF CorrelatorTypes
<1>17. RecentIsSuffix'
  <2>1. /\ Gone' \in Nat /\ k \in 0..Len(recent) /\ Gone = Len(log) - Len(recent)
        /\ Len(recent) \in Nat /\ Len(log) \in Nat
    BY <1>1, <1>8, <1>10 DEF Gone
  <2>2. ASSUME NEW i \in 1..Len(recent')
        PROVE  /\ recent'[i].id = Gone' + i /\ recent'[i].ts = log'[Gone' + i].ts
               /\ recent'[i].src = log'[Gone' + i].src /\ recent'[i].dst = log'[Gone' + i].dst
    <3>1. CASE i \in 1..Len(recent) - k
      <4>1. /\ k + i \in 1..Len(recent) /\ Gone' + i = Gone + (k + i)
            /\ Gone + (k + i) \in 1..Len(log)
        BY <1>10, <2>1, <3>1
      <4>2. /\ recent[k + i].id = Gone + (k + i) /\ recent[k + i].ts = log[Gone + (k + i)].ts
            /\ recent[k + i].src = log[Gone + (k + i)].src
            /\ recent[k + i].dst = log[Gone + (k + i)].dst
        BY <1>0, <4>1 DEF RecentIsSuffix
      <4>3. log'[Gone + (k + i)] = log[Gone + (k + i)]
        BY <1>6, <4>1
      <4> QED
        BY <1>9, <3>1, <4>1, <4>2, <4>3
    <3>2. CASE i = Len(recent) - k + 1
      <4>1. Gone' + i = n
        BY <1>10, <2>1, <3>2
      <4> QED
        BY <1>7, <1>9, <3>2, <4>1
    <3> QED
      BY <1>1, <1>8, <1>9, <3>1, <3>2
  <2> QED
    BY <2>1, <2>2 DEF RecentIsSuffix
<1>18. IndexInOrder'
  <2> SUFFICES ASSUME NEW ip \in IPs
               PROVE  /\ \A j \in 1..Len(index'[ip]) :
                           /\ index'[ip][j].id \in Gone' + 1 .. Len(log')
                           /\ index'[ip][j].ts = log'[index'[ip][j].id].ts
                           /\ ip \in {log'[index'[ip][j].id].src, log'[index'[ip][j].id].dst}
                      /\ \A j, l \in 1..Len(index'[ip]) :
                            j <= l => index'[ip][j].id <= index'[ip][l].id
    BY DEF IndexInOrder
  <2>1. PICK d \in 0..Len(index[ip]) :
          /\ Len(idx[ip]) = Len(index[ip]) - d
          /\ \A j \in 1..Len(idx[ip]) : idx[ip][j] = index[ip][d + j]
    BY <1>15
  <2>2. Len(index[ip]) \in Nat /\ Gone \in Nat /\ k \in Nat /\ Gone' = Gone + k
        /\ Len(log') = Len(log) + 1 /\ Gone + k <= Len(log)
    BY <1>0, <1>1, <1>6, <1>8, <1>10, TimesAreIntegers DEF Gone
  <2>3. ASSUME NEW j \in 1..Len(idx[ip])
        PROVE  /\ d + j \in 1..Len(index[ip]) /\ index'[ip][j] = index[ip][d + j]
               /\ index[ip][d + j].id \in Gone + k + 1 .. Len(log)
    <3>1. d + j \in 1..Len(index[ip]) /\ index'[ip][j] = index[ip][d + j]
      <4>1. d + j \in 1..Len(index[ip])
        BY <2>1, <2>2
      <4> QED
        BY <1>14, <2>1, <4>1
    <3>2. index[ip][d + j].id > Gone + k
      BY <1>15, <2>1, <3>1
    <3>3. index[ip][d + j].id \in Gone + 1 .. Len(log)
      BY <1>0, <3>1 DEF IndexInOrder
    <3>4. \A x \in Gone + 1 .. Len(log) : x > Gone + k => x \in Gone + k + 1 .. Len(log)
      BY <1>1, <2>2
    <3> QED
      BY <3>1, <3>2, <3>3, <3>4
  <2>4. ASSUME NEW j \in 1..Len(index'[ip])
        PROVE  /\ index'[ip][j].id \in Gone' + 1 .. Len(log')
               /\ index'[ip][j].ts = log'[index'[ip][j].id].ts
               /\ ip \in {log'[index'[ip][j].id].src, log'[index'[ip][j].id].dst}
    <3>1. CASE j <= Len(idx[ip])
      <4> DEFINE e == index[ip][d + j]
      <4>1. j \in 1..Len(idx[ip])
        BY <1>14, <3>1
      <4>2. index'[ip][j] = e /\ d + j \in 1..Len(index[ip]) /\ e.id \in Gone + k + 1 .. Len(log)
        BY <2>3, <4>1
      <4>3. e.id \in 1..Len(log) /\ e.id \in Gone' + 1 .. Len(log')
        <5>1. \A x \in Gone + k + 1 .. Len(log) :
                x \in 1..Len(log) /\ x \in Gone' + 1 .. Len(log')
          BY <1>1, <2>2
        <5> QED
          BY <4>2, <5>1
      <4>4. e.ts = log[e.id].ts /\ ip \in {log[e.id].src, log[e.id].dst}
        BY <1>0, <4>2 DEF IndexInOrder
      <4>5. log'[e.id] = log[e.id]
        BY <1>6, <4>3
      <4> QED
        BY <4>2, <4>3, <4>4, <4>5
    <3>2. CASE j > Len(idx[ip])
      <4>1. index'[ip][j] = new /\ ip \in {src, dst}
        BY <1>14, <3>2
      <4>2. n \in Gone' + 1 .. Len(log')
        BY <1>1, <1>6, <2>2
      <4> QED
        BY <1>7, <4>1, <4>2
    <3> QED
      BY <1>14, <3>1, <3>2
  <2>5. ASSUME NEW j \in 1..Len(index'[ip]), NEW l \in 1..Len(index'[ip]), j <= l
        PROVE  index'[ip][j].id <= index'[ip][l].id
    <3>1. CASE l <= Len(idx[ip])
      <4>1. j \in 1..Len(idx[ip]) /\ l \in 1..Len(idx[ip])
        BY <1>14, <2>5, <3>1
      <4>2. d + j \in 1..Len(index[ip]) /\ d + l \in 1..Len(index[ip]) /\ d + j <= d + l
        BY <2>2, <2>3, <2>5, <4>1
      <4>3. index[ip][d + j].id <= index[ip][d + l].id
        BY <1>0, <4>2 DEF IndexInOrder
      <4> QED
        BY <2>3, <4>1, <4>3
    <3>2. CASE l > Len(idx[ip])
      <4>1. index'[ip][l].id = n
        BY <1>14, <3>2
      <4>2. index'[ip][j].id \in Gone' + 1 .. n
        BY <1>6, <2>4
      <4> QED
        BY <1>1, <2>2, <4>1, <4>2
    <3> QED
      BY <1>14, <3>1, <3>2
  <2> QED
    BY <2>4, <2>5
<1>19. OnlyOldAreMissing'
  <2> SUFFICES ASSUME NEW m \in 1..Len(log'), NEW ip \in {log'[m].src, log'[m].dst} \ {NoIP}
               PROVE  \/ \E j \in 1..Len(index'[ip]) : index'[ip][j].id = m
                      \/ \E x \in 1..Len(log') : log'[m].ts < log'[x].ts - Window
    BY DEF OnlyOldAreMissing
  <2>0. n \in 1..Len(log') /\ \A x \in 1..Len(log) : x \in 1..Len(log')
    BY <1>1, <1>6
  <2>1. CASE m = n
    <3>1. ip \in IPs /\ ip \in {src, dst}
      BY <1>7, <2>1 DEF Addresses
    <3>2. /\ Len(index'[ip]) \in 1..Len(index'[ip]) /\ Len(index'[ip]) > Len(idx[ip])
      BY <1>14, <3>1
    <3>3. index'[ip][Len(index'[ip])].id = n
      BY <1>14, <3>1, <3>2
    <3> QED
      BY <2>1, <3>2, <3>3
  <2>2. CASE m \in 1..Len(log)
    <3>1. log'[m] = log[m] /\ ip \in {log[m].src, log[m].dst} \ {NoIP}
      BY <1>6, <2>2
    <3>2. ip \in IPs
      <4>1. log[m] \in Logged
        BY <1>0, <2>2, TimesAreIntegers
      <4> QED
        BY <3>1, <4>1 DEF Logged, Addresses
    <3>3. CASE \E x \in 1..Len(log) : log[m].ts < log[x].ts - Window
      <4>1. PICK x \in 1..Len(log) : log[m].ts < log[x].ts - Window
        BY <3>3
      <4>2. log'[x] = log[x]
        BY <1>6
      <4> QED
        BY <2>0, <3>1, <4>1, <4>2
    <3>4. CASE \E j \in 1..Len(index[ip]) : index[ip][j].id = m
      <4>1. PICK j \in 1..Len(index[ip]) : index[ip][j].id = m
        BY <3>4
      <4>2. PICK d \in 0..Len(index[ip]) :
              /\ Len(idx[ip]) = Len(index[ip]) - d
              /\ \A i \in 1..Len(idx[ip]) : idx[ip][i] = index[ip][d + i]
              /\ \A i \in 1..d : index[ip][i].ts < cutoff
        BY <1>15, <3>2
      <4>3. CASE j \in 1..d
        <5>1. log[m].ts < cutoff
          BY <1>0, <3>2, <4>1, <4>2, <4>3 DEF IndexInOrder
        <5> QED
          BY <1>7, <2>0, <3>1, <5>1
      <4>4. CASE j \notin 1..d
        <5>1. Len(index[ip]) \in Nat
          BY <1>0, <3>2, TimesAreIntegers
        <5>2. j - d \in 1..Len(idx[ip]) /\ d + (j - d) = j
          BY <4>1, <4>2, <4>4, <5>1
        <5>3. j - d \in 1..Len(index'[ip]) /\ index'[ip][j - d] = idx[ip][j - d]
          BY <1>14, <3>2, <5>2
        <5>4. idx[ip][j - d] = index[ip][j]
          BY <4>2, <5>2
        <5> QED
          BY <4>1, <5>3, <5>4
      <4> QED
        BY <4>3, <4>4
    <3> QED
      BY <1>0, <2>2, <3>1, <3>3, <3>4 DEF OnlyOldAreMissing
  <2> QED
    BY <1>7, <2>1, <2>2
<1>20. ASSUME NEW m \in 1..Len(log) PROVE Reference(m)' = Reference(m)
  <2>1. \A x \in 1..(m - 1) : x \in 1..Len(log) /\ log'[x] = log[x]
    BY <1>1, <1>6
  <2>2. log'[m] = log[m]
    BY <1>6
  <2> QED
    BY <2>1, <2>2 DEF Reference
<1>21. ASSUME NEW m, m = n PROVE Reference(m)' = ref
  <2>1. 1..(m - 1) = 1..Len(log)
    BY <1>1, <1>21
  <2>2. log'[m].ts = ts /\ log'[m].src = src /\ log'[m].dst = dst
    BY <1>7, <1>21
  <2>3. \A x \in 1..Len(log) : log'[x] = log[x]
    BY <1>6
  <2> QED
    BY <2>1, <2>2, <2>3 DEF Reference
<1>22. RelatedAreCorrelated'
  <2> SUFFICES ASSUME NEW m \in 1..Len(log')
               PROVE  log'[m].related \subseteq Reference(m)' /\ Cardinality(log'[m].related) <= Cap
    BY DEF RelatedAreCorrelated
  <2>1. CASE m = n
    <3>1. Reference(m)' = ref
      BY <1>21, <2>1
    <3> HIDE DEF ref
    <3> QED
      BY <1>4, <1>7, <2>1, <3>1
  <2>2. CASE m \in 1..Len(log)
    BY <1>0, <1>6, <1>20, <2>2 DEF RelatedAreCorrelated
  <2> QED
    BY <1>7, <2>1, <2>2
<1>23. LatestSeesWholeWindow'
  <2> SUFFICES ASSUME NEW m \in 1..Len(log'),
                      \A x \in 1..(m - 1) : log'[x].ts <= log'[m].ts
               PROVE  \/ log'[m].related = Reference(m)'
                      \/ Cardinality(log'[m].related) = Cap
    BY DEF LatestSeesWholeWindow
  <2>1. CASE m = n
    <3>1. \A x \in 1..Len(log) : log[x].ts <= ts
      <4>1. 1..(n - 1) = 1..Len(log)
        BY <1>1
      <4> QED
        BY <1>6, <1>7, <2>1, <4>1
    <3>2. Reference(m)' = ref
      BY <1>21, <2>1
    <3>3. rel = ref \/ Cardinality(rel) = Cap
      BY <1>4, <3>1
    <3> HIDE DEF ref
    <3> QED
      BY <1>7, <2>1, <3>2, <3>3
  <2>2. CASE m \in 1..Len(log)
    <3>1. \A x \in 1..(m - 1) : x \in 1..Len(log) /\ log'[x] = log[x]
      BY <1>1, <1>6, <2>2
    <3>2. \A x \in 1..(m - 1) : log[x].ts <= log[m].ts
      BY <1>6, <2>2, <3>1
    <3> QED
      BY <1>0, <1>6, <1>20, <2>2, <3>2 DEF LatestSeesWholeWindow
  <2> QED
    BY <1>7, <2>1, <2>2
<1> QED
  BY <1>16, <1>17, <1>18, <1>19, <1>22, <1>23 DEF CorrelatorInv

(* Every step of the correlator keeps the invariant.                       *)
LEMMA CorrelatorInvNext == CorrelatorInv /\ [CorrNext]_corrVars => CorrelatorInv'
<1> SUFFICES ASSUME CorrelatorInv, [CorrNext]_corrVars PROVE CorrelatorInv'
  OBVIOUS
<1>1. CASE CorrNext
  BY <1>1, ProcessKeepsInv DEF CorrNext, Addresses
<1>2. CASE UNCHANGED corrVars
  BY <1>2 DEF corrVars, CorrelatorInv, CorrelatorTypes, RecentIsSuffix, Gone, IndexInOrder,
              OnlyOldAreMissing, RelatedAreCorrelated, LatestSeesWholeWindow, Reference
<1> QED
  BY <1>1, <1>2

(* A step of the worker is a step of its correlator, or none.              *)
LEMMA PipeStep == [PipeNext]_pipeVars => [CorrNext]_corrVars
<1> SUFFICES ASSUME [PipeNext]_pipeVars PROVE [CorrNext]_corrVars
  OBVIOUS
<1>1. CASE FileChanges \/ Score \/ ScoreBatch \/ NextTask
  BY <1>1 DEF FileChanges, Score, ScoreBatch, NextTask
<1>2. CASE Correlate
  BY <1>2 DEF Correlate, CorrNext
<1>3. CASE UNCHANGED pipeVars
  BY <1>3 DEF pipeVars
<1> QED
  BY <1>1, <1>2, <1>3 DEF PipeNext

(* The deque is the end of the history and the index deques run in the     *)
(* order of processing (correlator.py 17-60), in the worker as by          *)
(* themselves.                                                             *)
THEOREM CorrelatorInvariant == PipeSpec => []CorrelatorInv
<1>1. PipeInit => CorrelatorInv
  BY CorrelatorInvInit DEF PipeInit
<1>2. CorrelatorInv /\ [PipeNext]_pipeVars => CorrelatorInv'
  BY PipeStep, CorrelatorInvNext
<1> QED
  BY <1>1, <1>2, PTL DEF PipeSpec

(* An alert is related only to earlier alerts that share an address and    *)
(* lie in its window, and to at most 20 (correlator.py 34-51), for         *)
(* timestamps in any order.                                                *)
THEOREM RelatedAreTrulyCorrelated == PipeSpec => []RelatedAreCorrelated
<1>1. CorrelatorInv => RelatedAreCorrelated
  BY DEF CorrelatorInv
<1> QED
  BY <1>1, CorrelatorInvariant, PTL

(* Eviction hides nothing from an alert that is as late as those before it *)
(* (correlator.py 20-51), however out of order they came.                  *)
THEOREM EvictionHidesNothing == PipeSpec => []LatestSeesWholeWindow
<1>1. CorrelatorInv => LatestSeesWholeWindow
  BY DEF CorrelatorInv
<1> QED
  BY <1>1, CorrelatorInvariant, PTL

(* The index does not leak (correlator.py 21-32): what leaves the deque    *)
(* leaves it too.                                                          *)
THEOREM IndexDoesNotLeak == PipeSpec => []IndexWithinRecent
<1>1. CorrelatorInv => IndexWithinRecent
  <2> SUFFICES ASSUME CorrelatorInv, NEW ip \in IPs, NEW j \in 1..Len(index[ip])
               PROVE  \E i \in 1..Len(recent) :
                         /\ recent[i].id = index[ip][j].id /\ recent[i].ts = index[ip][j].ts
                         /\ ip \in {recent[i].src, recent[i].dst}
    BY DEF IndexWithinRecent, Elems
  <2> DEFINE e == index[ip][j]
             i == e.id - Gone
  <2>1. RecentIsSuffix /\ IndexInOrder /\ CorrelatorTypes
    BY DEF CorrelatorInv
  <2>2. /\ e.id \in Gone + 1 .. Len(log) /\ e.ts = log[e.id].ts
        /\ ip \in {log[e.id].src, log[e.id].dst}
    BY <2>1 DEF IndexInOrder
  <2>3. Gone \in Nat /\ Len(log) \in Nat /\ Len(recent) \in Nat
        /\ Gone = Len(log) - Len(recent)
    BY <2>1, TimesAreIntegers DEF RecentIsSuffix, Gone
  <2>4. i \in 1..Len(recent) /\ Gone + i = e.id
    BY <2>2, <2>3
  <2> HIDE DEF i
  <2>5. /\ recent[i].id = e.id /\ recent[i].ts = log[e.id].ts
        /\ recent[i].src = log[e.id].src /\ recent[i].dst = log[e.id].dst
    BY <2>1, <2>4 DEF RecentIsSuffix
  <2> QED
    BY <2>2, <2>4, <2>5
<1> QED
  BY <1>1, CorrelatorInvariant, PTL

-----------------------------------------------------------------------------
(* predict_batch: the k-th vector put to the model is the one whose answer *)
(* is the k-th, since counting those up to a vector tells them apart.      *)
LEMMA RowsAreDistinct ==
    ASSUME NEW queue, IsFiniteSet(queue), queue \subseteq Nat,
           NEW i \in queue, NEW j \in queue,
           Cardinality({x \in queue : x <= i}) = Cardinality({x \in queue : x <= j})
    PROVE  i = j
<1>1. ASSUME NEW a \in queue, NEW b \in queue, a < b
      PROVE  Cardinality({x \in queue : x <= a}) # Cardinality({x \in queue : x <= b})
  <2> DEFINE A == {x \in queue : x <= a}
             B == {x \in queue : x <= b}
  <2>1. a \in Nat /\ b \in Nat /\ \A x \in queue : x \in Nat
    OBVIOUS
  <2>2. A \subseteq B /\ b \in B /\ b \notin A /\ B \subseteq queue
    <3>1. \A x \in Nat : x <= a => x <= b
      BY <1>1, <2>1
    <3>2. b <= b /\ ~(b <= a)
      BY <1>1, <2>1
    <3> QED
      BY <2>1, <3>1, <3>2
  <2>3. IsFiniteSet(B) /\ A # B
    BY <2>2, FS_Subset
  <2> HIDE DEF A, B
  <2>4. Cardinality(A) # Cardinality(B)
    <3>1. A \in SUBSET B
      BY <2>2
    <3> QED
      BY <2>3, <3>1, FS_Subset
  <2> QED
    BY <2>4 DEF A, B
<1>2. i \in Nat /\ j \in Nat
  OBVIOUS
<1>3. ~(i < j) /\ ~(j < i)
  BY <1>1
<1> QED
  BY <1>2, <1>3

(* The rules decide the same with and without a model.                     *)
LEMMA TriagedIgnoresModel ==
    ASSUME NEW f, NEW m
    PROVE  /\ Triaged(f) => DDoS(f, m) = DDoS(f, NoModel)
           /\ ~Triaged(f) => DDoS(f, m) = DDoSModel(m)
<1>1. Triaged(f) => DDoS(f, m) = DDoS(f, NoModel)
  BY Zenon DEF Triaged, DDoS
<1>2. ~Triaged(f) => DDoS(f, m) = DDoSModel(m)
  BY Zenon DEF Triaged, DDoS
<1> QED
  BY <1>1, <1>2

(* The answers of the model get back to the vectors they belong to         *)
(* (ddos_detector.py 100-136).                                             *)
LEMMA BatchInPlace ==
    ASSUME NEW S, NEW fs \in Seq(S), NEW model, NEW i \in 1..Len(fs)
    PROVE  DDoSBatch(fs, model)[i] = IF Triaged(fs[i]) THEN DDoS(fs[i], NoModel)
                                     ELSE DDoSModel(model[fs[i]])
<1> DEFINE queue == Queued(fs)
           Row(x) == Cardinality({j \in queue : j <= x})
           indices == [k \in 1..Cardinality(queue) |-> CHOOSE x \in queue : Row(x) = k]
           answers == [k \in 1..Cardinality(queue) |-> model[fs[indices[k]]]]
<1>1. DDoSBatch(fs, model) = [x \in 1..Len(fs) |-> IF x \in queue THEN DDoSModel(answers[Row(x)])
                                                    ELSE DDoS(fs[x], NoModel)]
  BY DEF DDoSBatch
<1>2. Len(fs) \in Nat /\ queue \subseteq 1..Len(fs) /\ (i \in queue <=> ~Triaged(fs[i]))
  BY LenProperties DEF Queued
<1>3. IsFiniteSet(queue) /\ queue \subseteq Nat
  <2>1. IsFiniteSet(1..Len(fs))
    BY <1>2, FS_Interval
  <2> HIDE DEF queue
  <2> QED
    <3>1. IsFiniteSet(queue)
      BY <1>2, <2>1, FS_Subset
    <3> QED
      BY <1>2, <3>1
<1>4. ASSUME i \in queue PROVE answers[Row(i)] = model[fs[i]]
  <2> HIDE DEF queue
  <2>1. Row(i) \in 1..Cardinality(queue)
    <3> DEFINE R == {j \in queue : j <= i}
    <3>1. R \subseteq queue /\ i \in R
      BY <1>3, <1>4
    <3> HIDE DEF R
    <3>2. IsFiniteSet(R) /\ Cardinality(R) <= Cardinality(queue)
      BY <1>3, <3>1, FS_Subset
    <3>3. Cardinality(R) \in Nat /\ Cardinality(queue) \in Nat /\ Cardinality(R) # 0
      BY <1>3, <3>1, <3>2, FS_CardinalityType, FS_EmptySet
    <3>4. Cardinality(R) \in 1..Cardinality(queue)
      BY <3>2, <3>3
    <3> QED
      BY <3>4 DEF R
  <2>2. ASSUME NEW x \in queue, Row(x) = Row(i) PROVE x = i
    BY <1>3, <1>4, <2>2, RowsAreDistinct
  <2>3. (CHOOSE x \in queue : Row(x) = Row(i)) = i
    <3> HIDE DEF Row
    <3> QED
      BY <1>4, <2>2
  <2>4. indices[Row(i)] = i
    <3> HIDE DEF Row
    <3> QED
      BY <2>1, <2>3
  <2> HIDE DEF indices, Row
  <2> QED
    BY <2>1, <2>4
<1> HIDE DEF answers, Row, queue
<1> QED
  BY <1>1, <1>2, <1>4

(* What predict_batch of the ddos detector answers is what predict answers *)
(* for each vector (base_detector.py 25-33, ddos_detector.py 74-136), for  *)
(* batches of any length.                                                  *)
THEOREM BatchIsPredictEach == PipeSpec => []BatchAgreesWithSingle
<1>1. PipeInit => BatchAgreesWithSingle
  BY DEF PipeInit, BatchAgreesWithSingle, NoBatch
<1>2. ASSUME BatchAgreesWithSingle, [PipeNext]_pipeVars PROVE BatchAgreesWithSingle'
  <2>1. CASE UNCHANGED batch
    BY <1>2, <2>1 DEF BatchAgreesWithSingle
  <2>2. CASE NextTask
    BY <2>2 DEF NextTask, BatchAgreesWithSingle, NoBatch
  <2>3. CASE ScoreBatch
    <3>1. PICK n \in 1..MaxBatch :
            \E fs \in [1..n -> BatchPoints], says \in [1..n -> Answers["ddos"] \cup {NoModel}] :
              LET model == [f \in {fs[i] : i \in 1..n} |-> says[CHOOSE i \in 1..n : fs[i] = f]] IN
              /\ Consistent(fs, says)
              /\ batch' = [feats |-> fs, says |-> says, results |-> DDoSBatch(fs, model)]
      BY <2>3 DEF ScoreBatch
    <3>2. PICK fs \in [1..n -> BatchPoints], says \in [1..n -> Answers["ddos"] \cup {NoModel}] :
              LET model == [f \in {fs[i] : i \in 1..n} |-> says[CHOOSE i \in 1..n : fs[i] = f]] IN
              /\ Consistent(fs, says)
              /\ batch' = [feats |-> fs, says |-> says, results |-> DDoSBatch(fs, model)]
      BY <3>1
    <3> DEFINE model == [f \in {fs[i] : i \in 1..n} |-> says[CHOOSE i \in 1..n : fs[i] = f]]
    <3>3. /\ Consistent(fs, says) /\ batch'.feats = fs /\ batch'.says = says
          /\ batch'.results = DDoSBatch(fs, model)
      <4> HIDE DEF model
      <4>1. /\ Consistent(fs, says)
            /\ batch' = [feats |-> fs, says |-> says, results |-> DDoSBatch(fs, model)]
        BY <3>2 DEF model
      <4> QED
        BY <4>1
    <3>4. n \in Nat /\ fs \in Seq(BatchPoints) /\ Len(fs) = n /\ DOMAIN fs = 1..n
      <4>1. MaxBatch \in Nat
        BY PipelineAssumption
      <4>2. n \in Nat
        BY <4>1
      <4> QED
        BY <4>2
    <3>5. ASSUME NEW i \in 1..n PROVE model[fs[i]] = says[i]
      <4> DEFINE j == CHOOSE x \in 1..n : fs[x] = fs[i]
      <4>1. j \in 1..n /\ fs[j] = fs[i]
        OBVIOUS
      <4>2. model[fs[i]] = says[j]
        OBVIOUS
      <4> HIDE DEF j, model
      <4>3. says[j] = says[i]
        BY <3>3, <3>4, <4>1 DEF Consistent
      <4> QED
        BY <4>2, <4>3
    <3> HIDE DEF model
    <3>6. ASSUME NEW i \in 1..n PROVE DDoSBatch(fs, model)[i] = DDoS(fs[i], says[i])
      <4>1. DDoSBatch(fs, model)[i] = IF Triaged(fs[i]) THEN DDoS(fs[i], NoModel)
                                      ELSE DDoSModel(model[fs[i]])
        BY <3>4, BatchInPlace
      <4> QED
        BY <3>5, <4>1, TriagedIgnoresModel
    <3> QED
      BY <3>3, <3>4, <3>6 DEF BatchAgreesWithSingle
  <2> QED
    BY <1>2, <2>1, <2>2, <2>3
       DEF PipeNext, FileChanges, Score, Correlate, scoreVars, pipeVars
<1> QED
  BY <1>1, <1>2, PTL DEF PipeSpec

-----------------------------------------------------------------------------
(* Where the scoring of a detector can be: dns_exfil has no model files,   *)
(* so no fast path and no fallback detector of its own.                    *)
ScoreInv ==
    /\ det \in Dets /\ onnx \in FileStates /\ pickled \in FileStates
    /\ fallback \in {"no", "rules", "full"}
    /\ det = "dns_exfil" => onnx = "missing" /\ pickled = "missing" /\ fallback = "no"
    /\ PathsAgree

Classifiers == {"ddos", "dga", "encrypted"}
Probability == [kind : {"prob"}, value : 0..100]
Outlier == [kind : {"label"}, value : {-1, 1}]

(* What a model answers.                                                   *)
LEMMA AnswersAreTyped ==
    ASSUME NEW d \in Dets, NEW m \in Answers[d]
    PROVE  /\ d \in Classifiers => m \in Probability /\ m.kind = "prob" /\ m.value \in 0..100
           /\ d \notin Classifiers => m \in Outlier /\ m.kind = "label"
<1>1. Answers[d] \subseteq IF d \in Classifiers THEN Probability ELSE Outlier
  BY PipelineAssumption DEF Classifiers, Probability, Outlier
<1> QED
  BY <1>1 DEF Probability, Outlier

(* The ddos detector against its fast path: no gate, no spoofed rule.      *)
LEMMA FastDDoSAgrees ==
    ASSUME NEW f \in Points["ddos"], NEW m \in Probability, NEW a \in Probability,
           a = m \/ a.value = 0, ~DDoSGate(f), DDoS(f, m).expl # "spoofed",
           ~(Raises(FastDDoS(f, a)) <=> Raises(DDoS(f, m)))
    PROVE  a # m /\ Raises(DDoS(f, m)) /\ DDoS(f, m).expl = "model"
<1>1. m.kind = "prob" /\ m.value \in 0..100 /\ a.kind = "prob" /\ a.value \in 0..100
  BY DEF Probability
<1>2. CASE f.syn > 100
  BY <1>2 DEF DDoS, FastDDoS, Verdict, Raises
<1>3. CASE ~(f.syn > 100) /\ f.amp > 100
  BY <1>3 DEF DDoS, FastDDoS, Verdict, Raises
<1>4. CASE ~(f.syn > 100) /\ ~(f.amp > 100)
  <2>1. ~(f.ent > 30 /\ (f.pkt > 50 \/ f.byte > 1000))
    BY <1>4 DEF DDoS, Verdict
  <2>2. DDoS(f, m) = Probable(m) /\ FastDDoS(f, a) = Probable(a)
    BY <1>1, <1>4, <2>1 DEF DDoS, FastDDoS, DDoSModel
  <2>3. /\ Raises(Probable(m)) <=> m.value > 50
        /\ Raises(Probable(a)) <=> a.value > 50
        /\ m.value > 50 => Probable(m).expl = "model"
    BY <1>1 DEF Probable, Raises, Flagged, Verdict
  <2> QED
    BY <1>1, <2>2, <2>3
<1> QED
  BY <1>2, <1>3, <1>4

(* The dga classifier against its fast path: no pre-filter.                *)
LEMMA FastDGAAgrees ==
    ASSUME NEW f \in Points["dga"], NEW m \in Probability, NEW a \in Probability,
           a = m \/ a.value = 0, DGA(f, m).expl # "prefilter",
           ~(Raises(FastDGA(f, a)) <=> Raises(DGA(f, m)))
    PROVE  a # m /\ Raises(DGA(f, m)) /\ DGA(f, m).expl = "model"
<1>1. m.kind = "prob" /\ m.value \in 0..100 /\ a.kind = "prob" /\ a.value \in 0..100
  BY DEF Probability
<1>2. f.len \in Nat
  BY PipelineAssumption
<1>3. CASE f.len = 0
  BY <1>3 DEF DGA, FastDGA, Nothing, Verdict, Raises
<1>4. CASE f.len # 0 /\ Flagged(m)
  <2>1. m.value > 50 /\ DGA(f, m).expl = "model" /\ Raises(DGA(f, m))
    <3> DEFINE base == IF f.ent > 35 /\ f.len > 15 THEN 70 ELSE 0
               score == IF m.value > base THEN m.value ELSE base
    <3>1. m.value > 50
      BY <1>4 DEF Flagged
    <3>2. base \in {0, 70} /\ DGA(f, m) = Verdict(score, "model")
      BY <1>4 DEF DGA
    <3> HIDE DEF base
    <3>3. score \in Int /\ score > 50
      BY <1>1, <3>1, <3>2
    <3> HIDE DEF score
    <3>4. DGA(f, m).expl = "model" /\ DGA(f, m).score = score
      BY <3>2 DEF Verdict
    <3> QED
      BY <3>1, <3>3, <3>4 DEF Raises
  <2>2. a = m => Raises(FastDGA(f, a))
    <3>1. f.len > 0
      BY <1>2, <1>4
    <3>2. FastDGA(f, m) = Verdict(m.value, "model")
      BY <1>4, <3>1, Zenon DEF FastDGA, Probable
    <3>3. FastDGA(f, m).expl = "model" /\ FastDGA(f, m).score = m.value
      BY <3>2 DEF Verdict
    <3>4. Raises(FastDGA(f, m))
      BY <2>1, <3>3 DEF Raises
    <3> QED
      BY <3>4
  <2> QED
    BY <2>1, <2>2
<1>5. CASE f.len # 0 /\ ~Flagged(m)
  <2>1. ~Raises(DGA(f, m))
    BY <1>5 DEF DGA, Nothing, Verdict, Raises
  <2>2. ~(a.value > 50)
    BY <1>1, <1>5 DEF Flagged
  <2>3. ~Raises(FastDGA(f, a))
    BY <2>2 DEF FastDGA, Probable, Flagged, Nothing, Verdict, Raises
  <2> QED
    BY <2>1, <2>3
<1> QED
  BY <1>3, <1>4, <1>5

LEMMA FastEncryptedAgrees ==
    ASSUME NEW f, NEW m \in Probability, NEW a \in Probability, a = m \/ a.value = 0,
           ~(Raises(FastEncrypted(f, a)) <=> Raises(Encrypted(f, m)))
    PROVE  a # m /\ Raises(Encrypted(f, m)) /\ Encrypted(f, m).expl = "model"
<1>1. m.kind = "prob" /\ m.value \in 0..100 /\ a.kind = "prob" /\ a.value \in 0..100
  BY DEF Probability
<1>2. CASE ~f.seen
  BY <1>2 DEF Encrypted, FastEncrypted, Nothing, Verdict, Raises
<1>3. CASE f.seen
  <2>1. /\ Raises(Encrypted(f, m)) <=> m.value > 50
        /\ m.value > 50 => Encrypted(f, m).expl = "model"
    BY <1>1, <1>3 DEF Encrypted, Flagged, Nothing, Verdict, Raises
  <2>2. Raises(FastEncrypted(f, a)) <=> a.value > 50
    BY <1>1, <1>3 DEF FastEncrypted, Probable, Flagged, Verdict, Raises
  <2> QED
    BY <1>1, <2>1, <2>2
<1> QED
  BY <1>2, <1>3

(* The detectors with an isolation forest, whose fast path has the same    *)
(* rules: only an answer of the model tells them apart.                    *)
LEMMA ForestAgrees ==
    ASSUME NEW f, NEW m, NEW a, a = m \/ ~IsOutlier(a)
    PROVE  /\ ~(Raises(Beaconing(f, a)) <=> Raises(Beaconing(f, m)))
                => a # m /\ Raises(Beaconing(f, m)) /\ Beaconing(f, m).expl = "model"
           /\ ~(Raises(Recon(f, a)) <=> Raises(Recon(f, m)))
                => a # m /\ Raises(Recon(f, m)) /\ Recon(f, m).expl = "model"
           /\ ~(Raises(Exfil(f, a)) <=> Raises(Exfil(f, m)))
                => a # m /\ Raises(Exfil(f, m)) /\ Exfil(f, m).expl = "model"
<1>1. /\ Verdict(90, "periodic").expl = "periodic" /\ ~Raises(Nothing)
      /\ Verdict(85, "model").expl = "model" /\ Raises(Verdict(85, "model"))
      /\ Verdict(75, "model").expl = "model" /\ Raises(Verdict(75, "model"))
  BY DEF Verdict, Raises, Nothing
<1>2. CASE a = m
  BY <1>2
<1>3. CASE ~IsOutlier(a)
  <2>1. ~(Raises(Beaconing(f, a)) <=> Raises(Beaconing(f, m)))
                => a # m /\ Raises(Beaconing(f, m)) /\ Beaconing(f, m).expl = "model"
    BY <1>1, <1>3, Zenon DEF Beaconing
  <2>2. ~(Raises(Recon(f, a)) <=> Raises(Recon(f, m)))
                => a # m /\ Raises(Recon(f, m)) /\ Recon(f, m).expl = "model"
    BY <1>1, <1>3, Zenon DEF Recon
  <2>3. ~(Raises(Exfil(f, a)) <=> Raises(Exfil(f, m)))
                => a # m /\ Raises(Exfil(f, m)) /\ Exfil(f, m).expl = "model"
    <3>1. CASE f.out = 0 /\ f.in = 0
      BY <3>1 DEF Exfil
    <3>2. CASE ~(f.out = 0 /\ f.in = 0)
      <4>1. CASE f.ratio > 100 /\ f.out > 5000
        BY <3>2, <4>1 DEF Exfil
      <4>2. CASE ~(f.ratio > 100 /\ f.out > 5000)
        BY <1>1, <1>3, <3>2, <4>2 DEF Exfil
      <4> QED
        BY <4>1, <4>2
    <3> QED
      BY <3>1, <3>2
  <2> QED
    BY <2>1, <2>2, <2>3
<1> QED
  BY <1>2, <1>3

(* The fast path of inference_worker against the detector itself, with the *)
(* model's answer or with none.                                            *)
LEMMA FastAgrees ==
    ASSUME NEW d \in Dets, d # "dns_exfil", NEW f \in Points[d], NEW m \in Answers[d],
           NEW a \in {m, Absent(d)},
           ~(Raises(FastPredict(d, f, a)) <=> Raises(Predict(d, f, m)))
    PROVE  \/ d = "ddos" /\ Predict(d, f, m).expl = "spoofed"
           \/ d = "dga" /\ Predict(d, f, m).expl = "prefilter"
           \/ d = "ddos" /\ DDoSGate(f)
           \/ a # m /\ Raises(Predict(d, f, m)) /\ Predict(d, f, m).expl = "model"
<1>1. d \in {"ddos", "beaconing", "dga", "encrypted", "recon", "exfil"}
  BY PipelineAssumption
<1>2. ASSUME d \in Classifiers
      PROVE  m \in Probability /\ a \in Probability /\ (a = m \/ a.value = 0)
  BY <1>2, AnswersAreTyped DEF Absent, Classifiers, Probability
<1>3. ASSUME d \notin Classifiers PROVE a = m \/ ~IsOutlier(a)
  BY <1>3 DEF Absent, Classifiers, IsOutlier
<1>4. CASE d = "ddos"
  <2>1. FastPredict(d, f, a) = FastDDoS(f, a) /\ Predict(d, f, m) = DDoS(f, m)
    BY <1>4 DEF FastPredict, Predict
  <2> QED
    BY <1>2, <1>4, <2>1, FastDDoSAgrees DEF Classifiers
<1>5. CASE d = "dga"
  <2>1. FastPredict(d, f, a) = FastDGA(f, a) /\ Predict(d, f, m) = DGA(f, m)
    BY <1>5 DEF FastPredict, Predict
  <2> QED
    BY <1>2, <1>5, <2>1, FastDGAAgrees DEF Classifiers
<1>6. CASE d = "encrypted"
  <2>1. FastPredict(d, f, a) = FastEncrypted(f, a) /\ Predict(d, f, m) = Encrypted(f, m)
    BY <1>6 DEF FastPredict, Predict
  <2> QED
    BY <1>2, <1>6, <2>1, FastEncryptedAgrees DEF Classifiers
<1>7. CASE d = "recon"
  <2>1. f.act \in Nat
    BY <1>7, PipelineAssumption
  <2>2. FastPredict(d, f, a) = FastRecon(f, a) /\ Predict(d, f, m) = Recon(f, m)
    BY <1>7 DEF FastPredict, Predict
  <2>3. FastRecon(f, a) = Recon(f, a)
    <3>1. f.act = 0 <=> ~(f.act > 0)
      BY <2>1
    <3> QED
      BY <3>1, Zenon DEF FastRecon, Recon
  <2>4. a = m \/ ~IsOutlier(a)
    BY <1>3, <1>7 DEF Classifiers
  <2> QED
    BY <2>2, <2>3, <2>4, ForestAgrees
<1>8. CASE d = "beaconing"
  <2>1. FastPredict(d, f, a) = FastBeaconing(f, a) /\ Predict(d, f, m) = Beaconing(f, m)
    BY <1>8 DEF FastPredict, Predict
  <2>2. a = m \/ ~IsOutlier(a)
    BY <1>3, <1>8 DEF Classifiers
  <2>3. FastBeaconing(f, a) = Beaconing(f, a)
    <3>1. f.iat \in Nat
      BY <1>8, PipelineAssumption
    <3>2. f.iat = 0 <=> ~(f.iat > 0)
      BY <3>1
    <3> QED
      BY <3>2, Zenon DEF FastBeaconing, Beaconing
  <2> QED
    BY <2>1, <2>2, <2>3, ForestAgrees
<1>9. CASE d = "exfil"
  <2>1. FastPredict(d, f, a) = FastExfil(f, a) /\ Predict(d, f, m) = Exfil(f, m)
    BY <1>9 DEF FastPredict, Predict
  <2>2. a = m \/ ~IsOutlier(a)
    BY <1>3, <1>9 DEF Classifiers
  <2>3. FastExfil(f, a) = Exfil(f, a)
    <3>1. f.out \in Nat /\ f.in \in Nat
      BY <1>9, PipelineAssumption
    <3>2. (f.out = 0 /\ f.in = 0) <=> ~(f.out > 0 \/ f.in > 0)
      BY <3>1
    <3>3. CASE f.out = 0 /\ f.in = 0
      BY <3>2, <3>3 DEF FastExfil, Exfil
    <3>4. CASE ~(f.out = 0 /\ f.in = 0)
      <4> DEFINE E == IF f.ratio > 100 /\ f.out > 5000 THEN Verdict(85, "exfil")
                      ELSE IF IsOutlier(a) THEN Verdict(75, "model") ELSE Nothing
      <4>1. f.out > 0 \/ f.in > 0
        BY <3>2, <3>4
      <4>2. FastExfil(f, a) = E
        BY <4>1 DEF FastExfil
      <4>3. Exfil(f, a) = E
        BY <3>4 DEF Exfil
      <4> QED
        BY <4>2, <4>3
    <3> QED
      BY <3>3, <3>4
  <2> QED
    BY <2>1, <2>2, <2>3, ForestAgrees
<1> QED
  BY <1>1, <1>4, <1>5, <1>6, <1>7, <1>8, <1>9

(* A detector without its model misses only what the model says.           *)
LEMMA RulesAgree ==
    ASSUME NEW d \in Dets, NEW f, NEW m \in Answers[d],
           ~(Raises(Predict(d, f, NoModel)) <=> Raises(Predict(d, f, m)))
    PROVE  Predict(d, f, m).expl = "model"
<1>0. /\ ~IsOutlier(NoModel) /\ ~Flagged(NoModel) /\ ~Raises(Nothing)
      /\ DDoSModel(NoModel) = Nothing
  BY DEF NoModel, IsOutlier, Flagged, Raises, Nothing, Verdict, DDoSModel
<1>1. d \in {"ddos", "beaconing", "dga", "encrypted", "recon", "exfil", "dns_exfil"}
  BY PipelineAssumption
<1>2. CASE d = "ddos"
  <2>1. Predict(d, f, NoModel) = DDoS(f, NoModel) /\ Predict(d, f, m) = DDoS(f, m)
    BY <1>2 DEF Predict
  <2>2. ~Triaged(f)
    BY <2>1, TriagedIgnoresModel
  <2>3. DDoS(f, NoModel) = Nothing /\ DDoS(f, m) = DDoSModel(m)
    BY <1>0, <2>2, TriagedIgnoresModel
  <2>4. m.kind = "prob"
    BY <1>2, AnswersAreTyped DEF Classifiers
  <2>5. DDoSModel(m) = Probable(m)
    BY <2>4 DEF DDoSModel
  <2>6. Raises(Probable(m)) => Probable(m).expl = "model"
    BY DEF Raises, Probable, Verdict
  <2> QED
    BY <1>0, <2>1, <2>3, <2>5, <2>6
<1>3. CASE d = "dga"
  <2>1. Predict(d, f, NoModel) = DGA(f, NoModel) /\ Predict(d, f, m) = DGA(f, m)
    BY <1>3 DEF Predict
  <2>2. Flagged(m) /\ f.len # 0
    BY <1>0, <2>1, Zenon DEF DGA
  <2>3. DGA(f, m).expl = "model"
    BY <2>2 DEF DGA, Verdict
  <2> QED
    BY <2>1, <2>3
<1>4. CASE d = "encrypted"
  <2>1. Predict(d, f, NoModel) = Encrypted(f, NoModel) /\ Predict(d, f, m) = Encrypted(f, m)
    BY <1>4 DEF Predict
  <2>2. Flagged(m) /\ f.seen
    BY <1>0, <2>1, Zenon DEF Encrypted
  <2>3. Encrypted(f, m).expl = "model"
    BY <2>2 DEF Encrypted, Verdict
  <2> QED
    BY <2>1, <2>3
<1>5. CASE d \in {"beaconing", "recon", "exfil"}
  <2>1. \/ d = "beaconing" /\ \A x \in {m, NoModel} : Predict(d, f, x) = Beaconing(f, x)
        \/ d = "recon" /\ \A x \in {m, NoModel} : Predict(d, f, x) = Recon(f, x)
        \/ d = "exfil" /\ \A x \in {m, NoModel} : Predict(d, f, x) = Exfil(f, x)
    BY <1>5 DEF Predict
  <2> QED
    BY <1>0, <2>1, ForestAgrees
<1>6. CASE d = "dns_exfil"
  BY <1>6 DEF Predict, DNSExfil
<1> QED
  BY <1>1, <1>2, <1>3, <1>4, <1>5, <1>6

(* An alert comes out exactly when the verdict raises one.                 *)
LEMMA DecidedRaises ==
    ASSUME NEW path, NEW v, Decided(path, v)
    PROVE  verdict'.path = path /\ (verdict'.severity # "none" <=> Raises(v))
<1>1. PICK s \in IF Raises(v) THEN Severities(v.score) ELSE {"none"} :
        verdict' = [path |-> path, score |-> v.score, expl |-> v.expl, severity |-> s]
  BY DEF Decided
<1>2. verdict'.path = path /\ verdict'.severity = s
  BY <1>1
<1>3. \A c : GetSeverity(c) # "none"
  BY DEF GetSeverity
<1>4. Raises(v) => s # "none"
  BY <1>1, <1>3 DEF Severities
<1> QED
  BY <1>1, <1>2, <1>4

(* Scoring a task keeps the promise of PathsAgree.                         *)
LEMMA ScorePathsAgree ==
    ASSUME ScoreInv, NEW f \in Points[det], NEW m \in Answers[det], UNCHANGED det,
           task' = [feats |-> f, says |-> m], ScoreFast(f, m) \/ ScoreFallback(f, m)
    PROVE  PathsAgree'
<1> DEFINE D == Predict(det, f, m)
<1>1. DetectorSays' = D /\ task'.feats = f /\ det' = det
  BY DEF DetectorSays
<1>2. det \in Dets /\ fallback \in {"no", "rules", "full"} /\ onnx \in FileStates
      /\ pickled \in FileStates
      /\ (det = "dns_exfil" => onnx = "missing" /\ pickled = "missing" /\ fallback = "no")
  BY DEF ScoreInv
<1> SUFFICES ASSUME ~(Raises(D) <=> verdict'.severity # "none")
             PROVE  \/ verdict'.path = "skipped"
                    \/ verdict'.path = "rules" /\ D.expl = "model"
                    \/ verdict'.path = "fast" /\ ~session' /\ D.expl = "model"
                    \/ verdict'.path = "fast" /\ det = "ddos" /\ D.expl = "spoofed"
                    \/ verdict'.path = "fast" /\ det = "dga" /\ D.expl = "prefilter"
                    \/ verdict'.path = "fast" /\ det = "ddos" /\ DDoSGate(f)
  <2> HIDE DEF D
  <2>1. Raises(D) \in BOOLEAN
    BY DEF Raises
  <2> QED
    BY <1>1, <2>1 DEF PathsAgree
<1>3. CASE ScoreFast(f, m)
  <2> DEFINE a == IF SessionAfter THEN m ELSE Absent(det)
  <2>1. /\ det # "dns_exfil" /\ (session' = SessionAfter \/ session' = session)
        /\ Decided("fast", FastPredict(det, f, a))
    BY <1>2, <1>3 DEF ScoreFast, FastPath
  <2>2. /\ verdict'.path = "fast"
        /\ verdict'.severity # "none" <=> Raises(FastPredict(det, f, a))
    <3> HIDE DEF a
    <3> QED
      BY <2>1, DecidedRaises
  <2>3. a \in {m, Absent(det)} /\ (a # m => ~session')
    <3>1. a \in {m, Absent(det)} /\ (a # m => ~SessionAfter)
      OBVIOUS
    <3>2. ~SessionAfter => ~session
      BY DEF SessionAfter
    <3>3. ~SessionAfter => ~session'
      BY <2>1, <3>2, Zenon
    <3> QED
      BY <3>1, <3>3
  <2> HIDE DEF a
  <2>4. \/ det = "ddos" /\ D.expl = "spoofed"
        \/ det = "dga" /\ D.expl = "prefilter"
        \/ det = "ddos" /\ DDoSGate(f)
        \/ a # m /\ Raises(D) /\ D.expl = "model"
    BY <1>2, <2>1, <2>2, <2>3, FastAgrees
  <2> HIDE DEF D
  <2> QED
    BY <2>2, <2>3, <2>4
<1>4. CASE ScoreFallback(f, m)
  <2>1. CASE det # "dns_exfil" /\ FallbackAfter = "no"
    BY <1>4, <2>1 DEF ScoreFallback, NoVerdict
  <2>d. CASE det = "dns_exfil"
    <3>1. Decided("rules", WorkerDNSExfil(f))
      BY <1>4, <2>d DEF ScoreFallback
    <3>2. verdict'.severity # "none" <=> Raises(WorkerDNSExfil(f))
      BY <3>1, DecidedRaises
    <3>3. D = WorkerDNSExfil(f)
      BY <2>d DEF Predict, DNSExfil, WorkerDNSExfil
    <3> QED
      BY <3>2, <3>3
  <2>2. CASE det # "dns_exfil" /\ FallbackAfter # "no"
    <3> DEFINE V == Predict(det, f, IF FallbackAfter = "full" THEN m ELSE NoModel)
    <3>1. Decided(FallbackAfter, V)
      BY <1>4, <2>2 DEF ScoreFallback
    <3>2. verdict'.path = FallbackAfter /\ (verdict'.severity # "none" <=> Raises(V))
      <4> HIDE DEF V
      <4> QED
        BY <3>1, DecidedRaises
    <3>3. FallbackAfter \in {"rules", "full"}
      BY <1>2, <2>2 DEF FallbackAfter, FileStates
    <3>4. CASE FallbackAfter = "full"
      BY <3>2, <3>4
    <3>5. CASE FallbackAfter = "rules"
      <4>1. V = Predict(det, f, NoModel)
        BY <3>5
      <4>2. D.expl = "model"
        <5> HIDE DEF V
        <5> QED
          BY <1>2, <3>2, <4>1, RulesAgree
      <4> QED
        BY <3>2, <3>5, <4>2
    <3> QED
      BY <3>3, <3>4, <3>5
  <2> QED
    BY <2>1, <2>2, <2>d
<1> QED
  BY <1>3, <1>4

LEMMA ScoreInvInit == PipeInit => ScoreInv
<1> SUFFICES ASSUME PipeInit PROVE ScoreInv
  OBVIOUS
<1>1. det \in Dets
  BY PipelineAssumption DEF PipeInit
<1>2. onnx \in FileStates /\ pickled \in FileStates
  BY DEF PipeInit, FileStates
<1>3. det = "dns_exfil" => onnx = "missing" /\ pickled = "missing"
  BY DEF PipeInit
<1> QED
  BY <1>1, <1>2, <1>3 DEF PipeInit, ScoreInv, PathsAgree

LEMMA ScoreInvNext == ScoreInv /\ [PipeNext]_pipeVars => ScoreInv'
<1> SUFFICES ASSUME ScoreInv, [PipeNext]_pipeVars PROVE ScoreInv'
  OBVIOUS
<1>0. /\ det \in Dets /\ onnx \in FileStates /\ pickled \in FileStates
      /\ fallback \in {"no", "rules", "full"}
      /\ det = "dns_exfil" => onnx = "missing" /\ pickled = "missing" /\ fallback = "no"
  BY DEF ScoreInv
<1>1. CASE FileChanges
  <2>1. UNCHANGED <<det, fallback, task>> /\ task = NoTask /\ det # "dns_exfil"
    BY <1>1 DEF FileChanges
  <2>2. onnx' \in FileStates /\ pickled' \in FileStates
    BY <1>0, <1>1 DEF FileChanges
  <2> QED
    BY <1>0, <2>1, <2>2 DEF ScoreInv, PathsAgree
<1>2. CASE Score
  <2>1. PICK f \in Points[det], m \in Answers[det] :
          task' = [feats |-> f, says |-> m] /\ (ScoreFast(f, m) \/ ScoreFallback(f, m))
    BY <1>2 DEF Score
  <2>2. UNCHANGED <<det, onnx, pickled>>
    BY <1>2 DEF Score
  <2>3. PathsAgree'
    BY <2>1, <2>2, ScorePathsAgree
  <2>4. fallback' \in {"no", "rules", "full"}
    <3>1. FallbackAfter \in {"no", "rules", "full"}
      BY <1>0 DEF FallbackAfter, FileStates
    <3> QED
      BY <1>0, <2>1, <3>1 DEF ScoreFast, ScoreFallback
  <2>5. det = "dns_exfil" => fallback' = fallback
    BY <2>1 DEF ScoreFast, ScoreFallback
  <2> QED
    BY <1>0, <2>2, <2>3, <2>4, <2>5 DEF ScoreInv
<1>3. CASE ScoreBatch
  <2>1. UNCHANGED <<det, onnx, pickled, fallback, task>> /\ task = NoTask
    BY <1>3 DEF ScoreBatch
  <2> QED
    BY <1>0, <2>1 DEF ScoreInv, PathsAgree
<1>4. CASE NextTask
  <2>1. UNCHANGED <<det, onnx, pickled, fallback>> /\ task' = NoTask
    BY <1>4 DEF NextTask
  <2> QED
    BY <1>0, <2>1 DEF ScoreInv, PathsAgree
<1>5. CASE Correlate \/ UNCHANGED pipeVars
  <2>1. UNCHANGED scoreVars
    BY <1>5 DEF Correlate, pipeVars
  <2> QED
    BY <2>1 DEF scoreVars, ScoreInv, PathsAgree, DetectorSays
<1> QED
  BY <1>1, <1>2, <1>3, <1>4, <1>5 DEF PipeNext

(* The worker's two paths decide alike (inference_worker of                *)
(* test_phase5_e2e.py 149-260), for every feature vector and every answer  *)
(* of a model, but for the exceptions that PathsAgree lists.               *)
THEOREM FastPathAgrees == PipeSpec => []PathsAgree
<1>1. ScoreInv => PathsAgree
  BY DEF ScoreInv
<1> QED
  BY <1>1, ScoreInvInit, ScoreInvNext, PTL DEF PipeSpec

=============================================================================
