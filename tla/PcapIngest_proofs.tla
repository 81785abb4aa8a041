-------------------------- MODULE PcapIngest_proofs --------------------------
(***************************************************************************)
(* The readers for every capture, buffer size and sample rate.  PcapReader:*)
(* types, the sentinel behind every packet, the account of every packet    *)
(* read.  Both readers implement LossyFifo, by themselves and in the       *)
(* ingest loop, and LossyFifo keeps its order.  The FlowTable behind the   *)
(* PcapReader gives up the least recently used flow only.                  *)
(***************************************************************************)
EXTENDS PcapIngest, LossyFifo, FiniteSetTheorems, SequenceTheorems, TLAPS

(* Order over what was handed over and what waits together is inductive    *)
(* with the types alone: handing over moves the boundary between them and  *)
(* nothing else.  It is stated of the three values, t items taken, w that  *)
(* wait and o that are out, so that it serves the abstract FIFO and both   *)
(* readers.                                                                *)
Ordered(t, w, o) ==
    LET seen == o \o w
    IN \A i \in 1..Len(seen) : /\ seen[i] \in 1..t
                               /\ \A j \in 1..Len(seen) : i < j => seen[i] < seen[j]

OrderInv(t, w, o) == t \in Nat /\ w \in Seq(Nat) /\ o \in Seq(Nat) /\ Ordered(t, w, o)

FifoMove(t, w, o, t1, w1, o1) ==
    \/ t1 = t + 1 /\ w1 = Append(w, t + 1) /\ o1 = o
    \/ (t1 = t \/ t1 = t + 1) /\ w1 = w /\ o1 = o
    \/ w # <<>> /\ t1 = t /\ w1 = Tail(w) /\ o1 = Append(o, Head(w))

(* Moving the head of one sequence to the end of another leaves their      *)
(* concatenation as it was.                                                *)
LEMMA HandingOverKeepsAll ==
    ASSUME NEW s \in Seq(Nat), NEW w \in Seq(Nat), w # <<>>
    PROVE  Append(s, Head(w)) \o Tail(w) = s \o w
<1> DEFINE h == Append(s, Head(w))
           t == Tail(w)
<1>1. /\ Head(w) \in Nat /\ t \in Seq(Nat) /\ Len(t) = Len(w) - 1
      /\ \A i \in 1..Len(t) : t[i] = w[i + 1]
  BY HeadTailProperties
<1>2. Head(w) = w[1] /\ Len(w) \in Nat \ {0} /\ Len(s) \in Nat
  BY EmptySeq
<1>3. /\ h \in Seq(Nat) /\ Len(h) = Len(s) + 1
      /\ \A i \in 1..Len(s) : h[i] = s[i]
      /\ h[Len(s) + 1] = w[1]
  BY <1>1, <1>2, AppendProperties
<1> HIDE DEF h, t
<1>4. /\ h \o t \in Seq(Nat) /\ Len(h \o t) = Len(h) + Len(t)
      /\ \A i \in 1..Len(h) + Len(t) : (h \o t)[i] = IF i <= Len(h) THEN h[i] ELSE t[i - Len(h)]
  BY <1>1, <1>3, ConcatProperties
<1>5. /\ s \o w \in Seq(Nat) /\ Len(s \o w) = Len(s) + Len(w)
      /\ \A i \in 1..Len(s) + Len(w) : (s \o w)[i] = IF i <= Len(s) THEN s[i] ELSE w[i - Len(s)]
  BY ConcatProperties
<1>6. Len(h \o t) = Len(s \o w)
  BY <1>1, <1>2, <1>3, <1>4, <1>5
<1>7. ASSUME NEW i \in 1..Len(h \o t) PROVE (h \o t)[i] = (s \o w)[i]
  <2>1. i \in 1..Len(h) + Len(t) /\ i \in 1..Len(s) + Len(w)
    BY <1>4, <1>5, <1>6
  <2>2. CASE i <= Len(s)
    <3>1. i <= Len(h) /\ i \in 1..Len(s)
      BY <1>2, <1>3, <2>1, <2>2
    <3> QED
      BY <1>3, <1>4, <1>5, <2>1, <2>2, <3>1
  <2>3. CASE i = Len(s) + 1
    <3>1. i <= Len(h) /\ ~(i <= Len(s)) /\ i - Len(s) = 1
      BY <1>2, <1>3, <2>3
    <3>2. (h \o t)[i] = h[i] /\ (s \o w)[i] = w[1]
      BY <1>4, <1>5, <2>1, <3>1
    <3> QED
      BY <1>3, <2>3, <3>2
  <2>4. CASE i > Len(s) + 1
    <3>0. Len(h) = Len(s) + 1 /\ Len(s) \in Nat /\ Len(t) \in Nat
      BY <1>1, <1>2, <1>3
    <3>1. /\ ~(i <= Len(h)) /\ ~(i <= Len(s))
          /\ i - Len(h) \in 1..Len(t) /\ (i - Len(h)) + 1 = i - Len(s)
      BY <2>1, <2>4, <3>0
    <3>2. (h \o t)[i] = t[i - Len(h)] /\ (s \o w)[i] = w[i - Len(s)]
      BY <1>4, <1>5, <2>1, <3>1
    <3>3. t[i - Len(h)] = w[(i - Len(h)) + 1]
      BY <1>1, <3>1
    <3> QED
      BY <3>1, <3>2, <3>3
  <2> QED
    BY <1>2, <2>1, <2>2, <2>3, <2>4
<1>8. h \o t = s \o w
  BY <1>4, <1>5, <1>6, <1>7, SeqEqual
<1> QED
  BY <1>8 DEF h, t

LEMMA NothingIsOrdered == OrderInv(0, <<>>, <<>>)
<1>1. <<>> \in Seq(Nat) /\ Len(<<>> \o <<>>) = 0
  OBVIOUS
<1> QED
  BY <1>1 DEF OrderInv, Ordered

LEMMA FifoMoveKeepsOrder ==
    ASSUME NEW t, NEW w, NEW o, NEW t1, NEW w1, NEW o1,
           OrderInv(t, w, o), FifoMove(t, w, o, t1, w1, o1)
    PROVE  OrderInv(t1, w1, o1)
<1> DEFINE seen == o \o w
           new == o1 \o w1
<1>1. /\ t \in Nat /\ w \in Seq(Nat) /\ o \in Seq(Nat)
      /\ seen \in Seq(Nat) /\ Len(seen) \in Nat
  BY ConcatProperties DEF OrderInv
<1>2. \A i \in 1..Len(seen) : /\ seen[i] \in 1..t
                              /\ \A j \in 1..Len(seen) : i < j => seen[i] < seen[j]
  BY DEF OrderInv, Ordered
<1>3. CASE t1 = t + 1 /\ w1 = Append(w, t + 1) /\ o1 = o
  <2>1. w1 \in Seq(Nat) /\ t + 1 \in Nat
    BY <1>1, <1>3
  <2>2. new = Append(seen, t + 1)
    BY <1>1, <1>3
  <2> HIDE DEF seen, new
  <2>3. /\ Len(new) = Len(seen) + 1 /\ new[Len(seen) + 1] = t + 1
        /\ \A i \in 1..Len(seen) : new[i] = seen[i]
    BY <1>1, <2>1, <2>2, AppendProperties
  <2>4. ASSUME NEW i \in 1..Len(new)
        PROVE  /\ new[i] \in 1..t1
               /\ \A j \in 1..Len(new) : i < j => new[i] < new[j]
    <3>1. \A k \in 1..Len(new) : k \in 1..Len(seen) \/ k = Len(seen) + 1
      BY <1>1, <2>3
    <3>2. \A k \in 1..Len(seen) : new[k] \in 1..t
      BY <1>2, <2>3
    <3>3. CASE i \in 1..Len(seen)
      <4>1. new[i] \in 1..t
        BY <3>2, <3>3
      <4>2. new[i] \in 1..t1
        BY <1>1, <1>3, <4>1
      <4>3. ASSUME NEW j \in 1..Len(new), i < j PROVE new[i] < new[j]
        <5>1. CASE j \in 1..Len(seen)
          BY <1>2, <2>3, <3>3, <4>3, <5>1
        <5>2. CASE j = Len(seen) + 1
          <6>1. new[j] = t + 1
            BY <2>3, <5>2
          <6> QED
            BY <1>1, <4>1, <6>1
        <5> QED
          BY <3>1, <5>1, <5>2
      <4> QED
        BY <4>2, <4>3
    <3>4. CASE i = Len(seen) + 1
      BY <1>1, <1>3, <2>3, <3>1, <3>4
    <3> QED
      BY <3>1, <3>3, <3>4
  <2> QED
    BY <1>1, <1>3, <2>1, <2>4 DEF OrderInv, Ordered, new
\* Moves that keep all items where they are seen.
<1>4. ASSUME t1 \in Nat, t <= t1, w1 \in Seq(Nat), o1 \in Seq(Nat), new = seen
      PROVE  OrderInv(t1, w1, o1)
  <2>1. ASSUME NEW i \in 1..Len(seen) PROVE seen[i] \in 1..t1
    BY <1>1, <1>2, <1>4, <2>1
  <2> QED
    BY <1>2, <1>4, <2>1 DEF OrderInv, Ordered
<1>5. CASE (t1 = t \/ t1 = t + 1) /\ w1 = w /\ o1 = o
  BY <1>1, <1>4, <1>5
<1>6. CASE w # <<>> /\ t1 = t /\ w1 = Tail(w) /\ o1 = Append(o, Head(w))
  <2>1. Head(w) \in Nat /\ w1 \in Seq(Nat)
    BY <1>1, <1>6, HeadTailProperties
  <2>2. o1 \in Seq(Nat)
    BY <1>1, <1>6, <2>1, AppendProperties
  <2>3. new = seen
    BY <1>1, <1>6, HandingOverKeepsAll
  <2>4. t1 \in Nat /\ t <= t1
    BY <1>1, <1>6
  <2> QED
    BY <1>4, <2>1, <2>2, <2>3, <2>4
<1> QED
  BY <1>3, <1>5, <1>6 DEF FifoMove

(* What a lossy FIFO hands over, and what waits behind it, is in the order *)
(* of reading, each item once: the promise that both readers are shown to  *)
(* keep (pcap_reader.py 33-72, zeek_reader.py 56-105).                     *)
THEOREM LossyFifoKeepsOrder == FifoSpec => []InOrder
<1> DEFINE Inv == OrderInv(taken, waiting, out)
<1>1. FifoInit => Inv
  BY NothingIsOrdered DEF FifoInit
<1>2. Inv /\ [FifoNext]_fifoVars => Inv'
  <2> SUFFICES ASSUME Inv, [FifoNext]_fifoVars PROVE Inv'
    OBVIOUS
  <2>1. FifoMove(taken, waiting, out, taken', waiting', out')
    BY DEF FifoNext, Admit, Lose, HandOver, fifoVars, FifoMove
  <2> QED
    BY <2>1, FifoMoveKeepsOrder
<1>3. Inv => InOrder
  BY DEF OrderInv, Ordered, InOrder
<1> QED
  BY <1>1, <1>2, <1>3, PTL DEF FifoSpec

-----------------------------------------------------------------------------
(* The packet in the producer's hand is numbered from 1, so it is not      *)
(* taken for the sentinel.                                                 *)
InHandIsPacket == producer = "put" => count >= 1

(* The sentinel's place needs InHandIsPacket, and the account of packets   *)
(* needs the sentinel's place: no packet may be put behind it.             *)
ReaderInv == TypeOK /\ InHandIsPacket /\ SentinelIsLast /\ PacketsAccountedFor

(* What a put at the end of the queue does to its entries.                 *)
LEMMA PutEntries ==
    ASSUME NEW S, NEW s \in Seq(S), NEW e \in S
    PROVE  /\ Append(s, e) \in Seq(S)
           /\ Len(Append(s, e)) = Len(s) + 1
           /\ \A i \in 1..Len(s) : Append(s, e)[i] = s[i]
           /\ Append(s, e)[Len(s) + 1] = e
  OBVIOUS

(* What a get at its head does.                                            *)
LEMMA GetEntries ==
    ASSUME NEW S, NEW s \in Seq(S), s # <<>>
    PROVE  /\ Tail(s) \in Seq(S) /\ Head(s) \in S
           /\ Head(s) = s[1] /\ Len(s) \in Nat /\ Len(s) >= 1
           /\ Len(Tail(s)) = Len(s) - 1
           /\ \A i \in 1..(Len(s) - 1) : Tail(s)[i] = s[i + 1]
<1>1. Len(s) \in Nat /\ Len(s) >= 1
  BY EmptySeq
<1>2. /\ Tail(s) \in Seq(S) /\ Head(s) \in S
      /\ Len(Tail(s)) = Len(s) - 1
      /\ \A i \in 1..Len(Tail(s)) : Tail(s)[i] = s[i + 1]
  BY HeadTailProperties
<1>3. Head(s) = s[1]
  OBVIOUS
<1> QED
  BY <1>1, <1>2, <1>3

(* start() establishes the invariant.                                      *)
LEMMA ReaderInvInit == Init => ReaderInv
<1> SUFFICES ASSUME Init PROVE ReaderInv
  OBVIOUS
<1>1. buffer \in Seq(0..NPackets) /\ Len(buffer) = 0 /\ delivered \in Seq(1..NPackets)
      /\ Len(delivered) = 0 /\ 0 \in 0..NPackets
  BY PcapAssumption DEF Init
<1>2. TypeOK /\ InHandIsPacket /\ InHand = 0
  BY <1>1 DEF Init, TypeOK, InHandIsPacket, InHand
<1>3. SentinelIsLast /\ Waiting = 0
  <2>1. 1..Len(buffer) = {} /\ Len(buffer) <= BufferSize
    BY <1>1, PcapAssumption
  <2> QED
    BY <1>1, <2>1 DEF Init, SentinelIsLast, Waiting, SentinelPut
<1>4. PacketsAccountedFor
  BY <1>1, <1>2, <1>3 DEF Init, PacketsAccountedFor
<1> QED
  BY <1>2, <1>3, <1>4 DEF ReaderInv

(* Every step of either thread keeps it.                                   *)
LEMMA ReaderInvNext == ReaderInv /\ [Next]_vars => ReaderInv'
<1> SUFFICES ASSUME ReaderInv, [Next]_vars PROVE ReaderInv'
  OBVIOUS
<1> USE PcapAssumption
<1>0. /\ TypeOK /\ InHandIsPacket /\ SentinelIsLast /\ PacketsAccountedFor
      /\ Len(buffer) \in Nat /\ Len(delivered) \in Nat /\ dropped \in Nat /\ count \in Nat
  BY DEF ReaderInv, TypeOK
\* Steps that leave the queue alone.
<1>1. ASSUME buffer' = buffer, delivered' = delivered, TypeOK', InHandIsPacket',
             (producer = "done" => producer' = "done"),
             consumer' = "eof" => consumer = "eof",
             count' - InHand' - dropped' = count - InHand - dropped
      PROVE  ReaderInv'
  <2>1. SentinelIsLast'
    BY <1>0, <1>1 DEF SentinelIsLast
  <2>2. PacketsAccountedFor'
    <3>1. count' \in Nat /\ dropped' \in Nat /\ InHand \in Nat /\ InHand' \in Nat
      BY <1>1 DEF TypeOK, InHand
    <3>2. Waiting' = Waiting /\ Waiting \in Int
      BY <1>0, <1>1 DEF Waiting, SentinelPut
    <3>3. count = Len(delivered) + Waiting + InHand + dropped
      BY <1>0 DEF PacketsAccountedFor
    <3>4. count' = Len(delivered) + Waiting + InHand' + dropped'
      <4>1. count' - InHand' - dropped' = count - InHand - dropped
        BY <1>1
      <4>2. /\ count \in Int /\ count' \in Int /\ dropped \in Int /\ dropped' \in Int
            /\ InHand \in Int /\ InHand' \in Int /\ Waiting \in Int /\ Len(delivered) \in Int
        BY <1>0, <3>1, <3>2
      <4> QED
        BY <3>3, <4>1, <4>2 DEF InHand
    <3> QED
      BY <1>1, <3>2, <3>4 DEF PacketsAccountedFor
  <2> QED
    BY <1>1, <2>1, <2>2 DEF ReaderInv
<1>2. CASE ReadPacket
  <2>1. TypeOK'
    BY <1>0, <1>2 DEF ReadPacket, TypeOK
  <2>2. InHandIsPacket'
    BY <1>0, <1>2 DEF ReadPacket, InHandIsPacket
  <2>3. count' = count + 1 /\ InHand = 0
    BY <1>2 DEF ReadPacket, InHand
  <2>4. (InHand' = 0 /\ dropped' = dropped + 1) \/ (InHand' = 1 /\ dropped' = dropped)
    BY <1>2 DEF ReadPacket, InHand
  <2>5. count' - InHand' - dropped' = count - InHand - dropped
    BY <1>0, <2>3, <2>4
  <2> QED
    BY <1>1, <1>2, <2>1, <2>2, <2>5 DEF ReadPacket
<1>3. CASE PutPacket
  <2>1. CASE Len(buffer) = BufferSize /\ dropped' = dropped + 1 /\ UNCHANGED buffer
    <3>1. TypeOK' /\ InHandIsPacket' /\ count' - InHand' - dropped' = count - InHand - dropped
      BY <1>0, <1>3, <2>1 DEF PutPacket, TypeOK, InHandIsPacket, InHand
    <3> QED
      BY <1>1, <1>3, <2>1, <3>1 DEF PutPacket
  <2>2. CASE Len(buffer) < BufferSize /\ buffer' = Append(buffer, count) /\ UNCHANGED dropped
    <3>1. /\ buffer \in Seq(0..NPackets) /\ count \in 0..NPackets /\ count # Sentinel
          /\ producer = "put" /\ producer' = "read"
          /\ UNCHANGED <<count, stopEvent, consumer, delivered, gaveUp>>
      BY <1>0, <1>3 DEF PutPacket, TypeOK, InHandIsPacket, Sentinel
    <3>2. /\ buffer' \in Seq(0..NPackets) /\ Len(buffer') = Len(buffer) + 1
          /\ \A i \in 1..Len(buffer) : buffer'[i] = buffer[i]
          /\ buffer'[Len(buffer) + 1] = count
      BY <2>2, <3>1, PutEntries
    <3>3. consumer # "eof" /\ \A i \in 1..Len(buffer) : buffer[i] # Sentinel
      BY <1>0, <3>1 DEF SentinelIsLast
    <3>4. \A i \in 1..Len(buffer') : buffer'[i] # Sentinel
      <4> TAKE i \in 1..Len(buffer')
      <4>1. i \in 1..Len(buffer) \/ i = Len(buffer) + 1
        BY <1>0, <3>2
      <4> QED
        BY <3>1, <3>2, <3>3, <4>1
    <3>5. TypeOK' /\ InHandIsPacket'
      BY <1>0, <2>2, <3>1, <3>2 DEF TypeOK, InHandIsPacket
    <3>6. SentinelIsLast'
      BY <1>0, <2>2, <3>1, <3>2, <3>3, <3>4 DEF SentinelIsLast
    <3>7. PacketsAccountedFor'
      BY <1>0, <2>2, <3>1, <3>2, <3>3, <3>4 DEF PacketsAccountedFor, Waiting, SentinelPut, InHand
    <3> QED
      BY <3>5, <3>6, <3>7 DEF ReaderInv
  <2> QED
    BY <1>3, <2>1, <2>2 DEF PutPacket
<1>4. CASE EndOfFile \/ ReadError
  <2>1. TypeOK' /\ InHandIsPacket' /\ count' - InHand' - dropped' = count - InHand - dropped
    BY <1>0, <1>4 DEF EndOfFile, ReadError, TypeOK, InHandIsPacket, InHand
  <2> QED
    BY <1>1, <1>4, <2>1 DEF EndOfFile, ReadError
<1>5. CASE PutSentinel
  <2>1. /\ buffer \in Seq(0..NPackets) /\ Sentinel \in 0..NPackets
        /\ producer = "eof" /\ producer' = "done" /\ buffer' = Append(buffer, Sentinel)
        /\ Len(buffer) < BufferSize
        /\ UNCHANGED <<count, dropped, stopEvent, consumer, delivered, gaveUp>>
    BY <1>0, <1>5 DEF PutSentinel, TypeOK, Sentinel
  <2>2. /\ buffer' \in Seq(0..NPackets) /\ Len(buffer') = Len(buffer) + 1
        /\ \A i \in 1..Len(buffer) : buffer'[i] = buffer[i]
        /\ buffer'[Len(buffer) + 1] = Sentinel
    BY <2>1, PutEntries
  <2>3. consumer # "eof" /\ \A i \in 1..Len(buffer) : buffer[i] # Sentinel
    BY <1>0, <2>1 DEF SentinelIsLast
  <2>4. \A i \in 1..Len(buffer') : buffer'[i] = Sentinel => i = Len(buffer')
    <3> SUFFICES ASSUME NEW i \in 1..Len(buffer'), buffer'[i] = Sentinel
                 PROVE  i = Len(buffer')
      OBVIOUS
    <3>1. i \in 1..Len(buffer) \/ i = Len(buffer) + 1
      BY <1>0, <2>2
    <3> QED
      BY <2>2, <2>3, <3>1
  <2>5. TypeOK' /\ InHandIsPacket'
    BY <1>0, <2>1, <2>2 DEF TypeOK, InHandIsPacket
  <2>6. SentinelIsLast'
    BY <1>0, <2>1, <2>2, <2>3, <2>4 DEF SentinelIsLast
  <2>7. SentinelPut' /\ ~SentinelPut
    <3>1. Len(buffer) + 1 \in 1..Len(buffer')
      BY <1>0, <2>2
    <3> QED
      BY <2>2, <2>3, <3>1 DEF SentinelPut
  <2>8. PacketsAccountedFor'
    BY <1>0, <2>1, <2>2, <2>7 DEF PacketsAccountedFor, Waiting, InHand
  <2> QED
    BY <2>5, <2>6, <2>8 DEF ReaderInv
<1>6. CASE SentinelTimeout
  <2>1. TypeOK' /\ InHandIsPacket' /\ count' - InHand' - dropped' = count - InHand - dropped
    BY <1>0, <1>6 DEF SentinelTimeout, TypeOK, InHandIsPacket, InHand
  <2> QED
    BY <1>1, <1>6, <2>1 DEF SentinelTimeout
<1>7. CASE GetPacket
  <2>1. /\ buffer \in Seq(0..NPackets) /\ buffer # <<>> /\ buffer' = Tail(buffer)
        /\ consumer = "loop"
        /\ UNCHANGED <<producer, count, dropped, stopEvent, gaveUp>>
    BY <1>0, <1>7 DEF GetPacket, TypeOK
  <2>2. /\ buffer' \in Seq(0..NPackets) /\ Head(buffer) \in 0..NPackets
        /\ Head(buffer) = buffer[1] /\ Len(buffer) >= 1
        /\ Len(buffer') = Len(buffer) - 1
        /\ \A i \in 1..(Len(buffer) - 1) : buffer'[i] = buffer[i + 1]
    BY <2>1, GetEntries
  <2>3. InHandIsPacket' /\ InHand' = InHand
    BY <1>0, <2>1 DEF InHandIsPacket, InHand
  <2>4. CASE Head(buffer) = Sentinel /\ consumer' = "eof" /\ UNCHANGED delivered
    <3>1. Len(buffer) = 1 /\ producer = "done" /\ SentinelPut
      <4>1. 1 \in 1..Len(buffer)
        BY <1>0, <2>2
      <4> QED
        BY <1>0, <2>2, <2>4, <4>1 DEF SentinelIsLast, SentinelPut
    <3>2. Len(buffer') = 0 /\ buffer' = <<>>
      BY <2>2, <3>1, EmptySeq
    <3>3. TypeOK'
      BY <1>0, <2>1, <2>2, <2>4 DEF TypeOK
    <3>4. SentinelIsLast'
      <4>1. Len(buffer') <= BufferSize
        BY <3>2
      <4>2. \A i \in 1..Len(buffer') : FALSE
        BY <3>2
      <4>3. producer' = "done"
        BY <2>1, <3>1
      <4> QED
        BY <3>2, <4>1, <4>2, <4>3 DEF SentinelIsLast
    <3>5. PacketsAccountedFor'
      <4>1. ~SentinelPut'
        BY <3>2 DEF SentinelPut
      <4>2. Waiting = 0 /\ Waiting' = 0
        <5>1. Waiting = Len(buffer) - 1 /\ Waiting' = Len(buffer') - 0
          BY <3>1, <4>1, Zenon DEF Waiting
        <5> QED
          BY <3>1, <3>2, <5>1
      <4> QED
        <5>1. /\ count' = count /\ dropped' = dropped /\ delivered' = delivered
              /\ InHand' = InHand
          BY <2>1, <2>3, <2>4
        <5>2. count = Len(delivered) + Waiting + InHand + dropped
          BY <1>0 DEF PacketsAccountedFor
        <5> QED
          BY <4>2, <5>1, <5>2 DEF PacketsAccountedFor
    <3> QED
      BY <2>3, <3>3, <3>4, <3>5 DEF ReaderInv
  <2>5. CASE Head(buffer) # Sentinel /\ delivered' = Append(delivered, Head(buffer)) /\ UNCHANGED consumer
    <3>1. Head(buffer) \in 1..NPackets
      BY <2>2, <2>5 DEF Sentinel
    <3>2. delivered' \in Seq(1..NPackets) /\ Len(delivered') = Len(delivered) + 1
      BY <1>0, <2>5, <3>1 DEF TypeOK
    <3>3. TypeOK'
      BY <1>0, <2>1, <2>2, <2>5, <3>2 DEF TypeOK
    <3>4. \A i \in 1..Len(buffer') : i + 1 \in 1..Len(buffer) /\ buffer'[i] = buffer[i + 1]
      BY <1>0, <2>2
    <3>5. SentinelIsLast'
      <4>1. /\ Len(buffer') <= BufferSize
            /\ consumer' # "eof" /\ producer' = producer
        <5>1. Len(buffer) <= BufferSize
          BY <1>0 DEF SentinelIsLast
        <5>2. Len(buffer') <= BufferSize
          BY <1>0, <2>2, <5>1
        <5> QED
          BY <2>1, <2>5, <5>2
      <4>2. ASSUME NEW i \in 1..Len(buffer'), buffer'[i] = Sentinel
            PROVE  i = Len(buffer') /\ producer' = "done"
        <5>1. i + 1 \in 1..Len(buffer) /\ buffer[i + 1] = Sentinel
          BY <3>4, <4>2
        <5>2. i + 1 = Len(buffer) /\ producer = "done"
          BY <1>0, <5>1 DEF SentinelIsLast
        <5> QED
          BY <1>0, <2>2, <4>1, <5>2
      <4> QED
        BY <4>1, <4>2 DEF SentinelIsLast
    <3>6. SentinelPut' = SentinelPut
      <4>1. SentinelPut => SentinelPut'
        <5> SUFFICES ASSUME NEW i \in 1..Len(buffer), buffer[i] = Sentinel PROVE SentinelPut'
          BY DEF SentinelPut
        <5>1. i # 1
          BY <2>2, <2>5
        <5>2. i - 1 \in 1..Len(buffer') /\ buffer'[i - 1] = buffer[i]
          BY <1>0, <2>2, <5>1
        <5> QED
          BY <5>2 DEF SentinelPut
      <4>2. SentinelPut' => SentinelPut
        BY <3>4 DEF SentinelPut
      <4> QED
        BY <4>1, <4>2 DEF SentinelPut
    <3>7. PacketsAccountedFor'
      BY <1>0, <2>1, <2>2, <2>3, <3>2, <3>6 DEF PacketsAccountedFor, Waiting, InHand
    <3> QED
      BY <2>3, <3>3, <3>5, <3>7 DEF ReaderInv
  <2> QED
    BY <1>7, <2>4, <2>5 DEF GetPacket
<1>8. ASSUME NEW from \in {"loop", "eof"}, Stop(from) PROVE ReaderInv'
  <2>1. TypeOK' /\ InHandIsPacket' /\ count' - InHand' - dropped' = count - InHand - dropped
    BY <1>0, <1>8 DEF Stop, TypeOK, InHandIsPacket, InHand
  <2> QED
    BY <1>1, <1>8, <2>1 DEF Stop
<1>9. CASE Joined
  <2>1. TypeOK' /\ InHandIsPacket' /\ count' - InHand' - dropped' = count - InHand - dropped
    BY <1>0, <1>9 DEF Joined, TypeOK, InHandIsPacket, InHand
  <2> QED
    BY <1>1, <1>9, <2>1 DEF Joined
<1>10. CASE UNCHANGED vars
  <2>1. TypeOK' /\ InHandIsPacket' /\ count' - InHand' - dropped' = count - InHand - dropped
    BY <1>0, <1>10 DEF vars, TypeOK, InHandIsPacket, InHand
  <2> QED
    BY <1>1, <1>10, <2>1 DEF vars
<1> QED
  BY <1>2, <1>3, <1>4, <1>5, <1>6, <1>7, <1>8, <1>9, <1>10 DEF Next, Producer

(* The queue, the counters and both threads keep their types               *)
(* (pcap_reader.py 15-92); in particular what the consumer is handed is    *)
(* always a packet of the file.                                            *)
THEOREM ReaderTypeCorrect == Spec => []TypeOK
  BY ReaderInvInit, ReaderInvNext, PTL DEF Spec, ReaderInv

(* The queue keeps its limit and nothing follows the sentinel              *)
(* (pcap_reader.py 53, 63): a consumer that stops at it misses nothing.    *)
THEOREM SentinelIsAlwaysLast == Spec => []SentinelIsLast
  BY ReaderInvInit, ReaderInvNext, PTL DEF Spec, ReaderInv

(* Every packet read is delivered, waiting, in hand or counted as dropped  *)
(* (pcap_reader.py 42-56), for every rate, buffer size and interleaving.   *)
THEOREM EveryPacketAccountedFor == Spec => []PacketsAccountedFor
  BY ReaderInvInit, ReaderInvNext, PTL DEF Spec, ReaderInv

-----------------------------------------------------------------------------
(* The packets of the queue are its entries but for a sentinel at its end. *)
LEMMA PacketsEntries ==
    ASSUME NEW S, NEW s \in Seq(S)
    PROVE  /\ Packets(s) \in Seq(S)
           /\ Len(Packets(s)) = IF s # <<>> /\ s[Len(s)] = Sentinel THEN Len(s) - 1 ELSE Len(s)
           /\ \A i \in 1..Len(Packets(s)) : Packets(s)[i] = s[i]
<1>1. CASE s # <<>> /\ s[Len(s)] = Sentinel
  <2>1. Len(s) \in Nat \ {0}
    BY <1>1, EmptySeq
  <2>4. \A i \in 1..(Len(s) - 1) : s[i] \in S
    <3> TAKE i \in 1..(Len(s) - 1)
    <3>1. i \in 1..Len(s)
      BY <2>1
    <3> QED
      BY <3>1, ElementOfSeq
  <2>2. Packets(s) = SubSeq(s, 1, Len(s) - 1)
    BY <1>1 DEF Packets
  <2>3. /\ Packets(s) \in Seq(S) /\ Len(Packets(s)) = Len(s) - 1
        /\ \A i \in 1..(Len(s) - 1) : Packets(s)[i] = s[i]
    <3> DEFINE n == Len(s) - 1
    <3>1. n \in Nat /\ 1 \in Int /\ n \in Int /\ n - 1 + 1 = n /\ \A i \in 1..n : 1 + i - 1 = i
      BY <2>1
    <3>2. \A i \in 1..n : s[i] \in S
      BY <2>4
    <3> HIDE DEF n
    <3>3. /\ SubSeq(s, 1, n) \in Seq(S)
          /\ Len(SubSeq(s, 1, n)) = IF 1 <= n THEN n - 1 + 1 ELSE 0
          /\ \A i \in 1..(n - 1 + 1) : SubSeq(s, 1, n)[i] = s[1 + i - 1]
      BY <3>1, <3>2, SubSeqProperties
    <3>4. Len(SubSeq(s, 1, n)) = n
      BY <3>1, <3>3
    <3>5. \A i \in 1..n : SubSeq(s, 1, n)[i] = s[i]
      BY <3>1, <3>3
    <3> QED
      BY <2>2, <3>3, <3>4, <3>5 DEF n
  <2> QED
    BY <1>1, <2>1, <2>3
<1>2. CASE ~(s # <<>> /\ s[Len(s)] = Sentinel)
  BY <1>2 DEF Packets
<1> QED
  BY <1>1, <1>2

(* A put into a queue without a sentinel is a put into its packets, or,    *)
(* when the sentinel is put, leaves them alone.                            *)
LEMMA PutPackets ==
    ASSUME NEW S, NEW s \in Seq(S), NEW e \in S,
           \A i \in 1..Len(s) : s[i] # Sentinel
    PROVE  /\ Packets(s) = s
           /\ e # Sentinel => Packets(Append(s, e)) = Append(s, e)
           /\ e = Sentinel => Packets(Append(s, e)) = s
<1>1. Packets(s) = s
  <2>1. s # <<>> => Len(s) \in 1..Len(s)
    BY EmptySeq
  <2> QED
    BY <2>1 DEF Packets
<1>2. /\ Append(s, e) \in Seq(S) /\ Len(Append(s, e)) = Len(s) + 1
      /\ \A i \in 1..Len(s) : Append(s, e)[i] = s[i]
      /\ Append(s, e)[Len(s) + 1] = e /\ Append(s, e) # <<>>
  <2>1. Append(s, e) # <<>>
    BY AppendProperties
  <2> QED
    BY <2>1, PutEntries
<1>3. ASSUME e # Sentinel PROVE Packets(Append(s, e)) = Append(s, e)
  BY <1>2, <1>3 DEF Packets
<1>4. ASSUME e = Sentinel PROVE Packets(Append(s, e)) = s
  <2> DEFINE q == Packets(Append(s, e))
  <2>1. Append(s, e)[Len(Append(s, e))] = Sentinel
    BY <1>2, <1>4
  <2>2. /\ q \in Seq(S) /\ Len(q) = Len(s) + 1 - 1
        /\ \A i \in 1..Len(q) : q[i] = Append(s, e)[i]
    <3>1. Append(s, e) # <<>> /\ Append(s, e) \in Seq(S)
      BY <1>2
    <3>2. Len(q) = Len(Append(s, e)) - 1
      BY <2>1, <3>1, PacketsEntries
    <3>3. q \in Seq(S) /\ \A i \in 1..Len(q) : q[i] = Append(s, e)[i]
      BY <3>1, PacketsEntries
    <3> QED
      BY <1>2, <3>2, <3>3
  <2>3. Len(q) = Len(s) /\ \A i \in 1..Len(q) : q[i] = s[i]
    BY <1>2, <2>2
  <2> HIDE DEF q
  <2>4. q = s
    BY <2>2, <2>3, SeqEqual
  <2> QED
    BY <2>4 DEF q
<1> QED
  BY <1>1, <1>3, <1>4

(* A get of a packet takes the first of the packets.                       *)
LEMMA GetPackets ==
    ASSUME NEW S, NEW s \in Seq(S), s # <<>>, Head(s) # Sentinel
    PROVE  /\ Packets(s) # <<>> /\ Head(Packets(s)) = Head(s)
           /\ Packets(Tail(s)) = Tail(Packets(s))
<1> DEFINE t == Tail(s)
           p == Packets(s)
           q == Packets(t)
<1>1. /\ t \in Seq(S) /\ Head(s) = s[1]
      /\ Len(s) \in Nat /\ Len(s) >= 1 /\ Len(t) = Len(s) - 1
      /\ \A i \in 1..(Len(s) - 1) : t[i] = s[i + 1]
  BY GetEntries
<1> HIDE DEF t
<1>2. /\ p \in Seq(S) /\ \A i \in 1..Len(p) : p[i] = s[i]
      /\ Len(p) = IF s[Len(s)] = Sentinel THEN Len(s) - 1 ELSE Len(s)
  BY PacketsEntries
<1>3. /\ q \in Seq(S) /\ \A i \in 1..Len(q) : q[i] = t[i]
      /\ Len(q) = IF t # <<>> /\ t[Len(t)] = Sentinel THEN Len(t) - 1 ELSE Len(t)
  BY <1>1, PacketsEntries
<1> HIDE DEF p, q
<1>4. Len(p) >= 1 /\ Len(p) <= Len(s) /\ Len(p) \in Nat
  <2>1. CASE s[Len(s)] = Sentinel
    <3>1. Len(s) # 1 /\ Len(p) = Len(s) - 1
      BY <1>1, <1>2, <2>1
    <3> QED
      BY <1>1, <3>1
  <2>2. CASE s[Len(s)] # Sentinel
    <3>1. Len(p) = Len(s)
      BY <1>2, <2>2
    <3> QED
      BY <1>1, <3>1
  <2> QED
    BY <2>1, <2>2
<1>5. p # <<>> /\ p[1] = s[1]
  BY <1>2, <1>4
<1>6. /\ Tail(p) \in Seq(S) /\ Head(p) = p[1] /\ Len(Tail(p)) = Len(p) - 1
      /\ \A i \in 1..(Len(p) - 1) : Tail(p)[i] = p[i + 1]
  BY <1>2, <1>5, GetEntries
<1>7. Len(q) = Len(p) - 1
  <2>1. CASE t = <<>>
    <3>1. Len(t) = 0 /\ Len(q) = 0
      BY <1>3, <2>1, EmptySeq
    <3>2. Len(s) = 1
      BY <1>1, <3>1
    <3>3. Len(p) = 1
      <4>1. s[Len(s)] # Sentinel
        BY <1>1, <3>2
      <4> QED
        BY <1>2, <3>2, <4>1
    <3> QED
      BY <3>1, <3>3
  <2>2. CASE t # <<>>
    <3>1. Len(t) \in Nat \ {0}
      BY <1>1, <2>2, EmptySeq
    <3>2. Len(t) \in 1..(Len(s) - 1) /\ Len(t) + 1 = Len(s)
      BY <1>1, <3>1
    <3>3. t[Len(t)] = s[Len(s)]
      BY <1>1, <3>2
    <3> QED
      BY <1>1, <1>2, <1>3, <2>2, <3>3
  <2> QED
    BY <2>1, <2>2
<1>8. \A i \in 1..Len(q) : q[i] = Tail(p)[i]
  <2> TAKE i \in 1..Len(q)
  <2>1. i \in 1..(Len(p) - 1)
    BY <1>7
  <2>2. i + 1 \in 1..Len(p) /\ i \in 1..(Len(s) - 1)
    BY <1>1, <1>4, <2>1
  <2> QED
    BY <1>1, <1>2, <1>3, <1>6, <2>1, <2>2
<1>9. q = Tail(p)
  <2>1. Len(q) = Len(Tail(p))
    BY <1>6, <1>7
  <2> QED
    BY <1>3, <1>6, <1>8, <2>1, SeqEqual
<1> QED
  BY <1>1, <1>5, <1>6, <1>9 DEF p, q, t

(* Every step of the reader is a step of the lossy FIFO or leaves it alone.*)
LEMMA ReaderStepIsFifoStep ==
    ReaderInv /\ [Next]_vars => [Fifo!FifoNext]_(Fifo!fifoVars)
<1> SUFFICES ASSUME ReaderInv, [Next]_vars PROVE [Fifo!FifoNext]_(Fifo!fifoVars)
  OBVIOUS
<1> USE PcapAssumption
<1> DEFINE read == count - InHand
           queued == Packets(buffer)
<1>0. /\ TypeOK /\ InHandIsPacket /\ SentinelIsLast
      /\ buffer \in Seq(0..NPackets) /\ Len(buffer) \in Nat /\ count \in 0..NPackets
  BY DEF ReaderInv, TypeOK
<1>1. ASSUME read' = read, queued' = queued, delivered' = delivered
      PROVE  [Fifo!FifoNext]_(Fifo!fifoVars)
  BY <1>1 DEF Fifo!fifoVars
<1>2. ASSUME read < NPackets, read' = read + 1, queued' = queued, delivered' = delivered
      PROVE  [Fifo!FifoNext]_(Fifo!fifoVars)
  BY <1>2 DEF Fifo!FifoNext, Fifo!Lose
<1>3. CASE ReadPacket
  <2>1. buffer' = buffer /\ delivered' = delivered /\ count' = count + 1
        /\ count < NPackets /\ InHand = 0
    BY <1>3 DEF ReadPacket, InHand
  <2>2. InHand' = 0 \/ InHand' = 1
    BY DEF InHand
  <2>3. (read' = read \/ read' = read + 1) /\ read < NPackets
    BY <1>0, <2>1, <2>2
  <2> QED
    BY <1>1, <1>2, <2>1, <2>3
<1>4. CASE PutPacket
  <2>1. /\ delivered' = delivered /\ count' = count /\ InHand = 1 /\ InHand' = 0
        /\ count \in 0..NPackets /\ count # Sentinel
        /\ \A i \in 1..Len(buffer) : buffer[i] # Sentinel
    BY <1>0, <1>4 DEF PutPacket, InHand, InHandIsPacket, SentinelIsLast, Sentinel
  <2>2. read' = read + 1 /\ read < NPackets /\ read + 1 = count
    BY <1>0, <2>1
  <2>3. CASE UNCHANGED buffer
    BY <1>2, <2>1, <2>2, <2>3
  <2>4. CASE Len(buffer) < BufferSize /\ buffer' = Append(buffer, count)
    <3>1. queued = buffer /\ queued' = Append(buffer, count)
      BY <1>0, <2>1, <2>4, PutPackets
    <3> QED
      BY <2>1, <2>2, <2>4, <3>1 DEF Fifo!FifoNext, Fifo!Admit
  <2> QED
    BY <1>4, <2>3, <2>4 DEF PutPacket
<1>5. CASE PutSentinel
  <2>1. /\ delivered' = delivered /\ count' = count /\ InHand' = InHand
        /\ buffer' = Append(buffer, Sentinel) /\ Sentinel \in 0..NPackets
        /\ \A i \in 1..Len(buffer) : buffer[i] # Sentinel
    BY <1>0, <1>5 DEF PutSentinel, InHand, SentinelIsLast, Sentinel
  <2>2. queued = buffer /\ queued' = buffer
    BY <1>0, <2>1, PutPackets
  <2> QED
    BY <1>1, <2>1, <2>2
<1>6. CASE GetPacket
  <2>1. count' = count /\ InHand' = InHand /\ buffer # <<>> /\ buffer' = Tail(buffer)
    BY <1>6 DEF GetPacket, InHand
  <2>2. CASE Head(buffer) = Sentinel
    <3>1. Len(buffer) \in Nat /\ Len(buffer) >= 1 /\ Head(buffer) = buffer[1]
          /\ buffer' \in Seq(0..NPackets) /\ Len(buffer') = Len(buffer) - 1
      BY <1>0, <2>1, GetEntries
    <3>2. Len(buffer) = 1 /\ buffer[Len(buffer)] = Sentinel
      <4>1. 1 \in 1..Len(buffer)
        BY <3>1
      <4> QED
        BY <1>0, <2>2, <3>1, <4>1 DEF SentinelIsLast
    <3>3. buffer' = <<>>
      BY <3>1, <3>2, EmptySeq
    <3>4. queued' = <<>>
      BY <3>3 DEF Packets
    <3>5. queued = <<>>
      <4>1. queued \in Seq(0..NPackets) /\ Len(queued) = 0
        BY <1>0, <2>1, <3>1, <3>2, PacketsEntries
      <4> QED
        BY <4>1, EmptySeq
    <3>6. delivered' = delivered
      BY <1>6, <2>2 DEF GetPacket
    <3> QED
      BY <1>1, <2>1, <3>4, <3>5, <3>6
  <2>3. CASE Head(buffer) # Sentinel
    <3>1. /\ queued # <<>> /\ Head(queued) = Head(buffer) /\ queued' = Tail(queued)
      BY <1>0, <2>1, <2>3, GetPackets
    <3>2. delivered' = Append(delivered, Head(buffer))
      BY <1>6, <2>3 DEF GetPacket
    <3> QED
      BY <2>1, <3>1, <3>2 DEF Fifo!FifoNext, Fifo!HandOver
  <2> QED
    BY <2>2, <2>3
<1>7. CASE EndOfFile \/ ReadError \/ SentinelTimeout \/ Joined \/ UNCHANGED vars
           \/ \E from \in {"loop", "eof"} : Stop(from)
  <2>1. buffer' = buffer /\ delivered' = delivered /\ count' = count /\ InHand' = InHand
    BY <1>7 DEF EndOfFile, ReadError, SentinelTimeout, Joined, vars, Stop, InHand
  <2> QED
    BY <1>1, <2>1
<1> QED
  BY <1>3, <1>4, <1>5, <1>6, <1>7 DEF Next, Producer

(* The reader implements the lossy FIFO (pcap_reader.py 33-72), for every  *)
(* capture, buffer size, rate and interleaving: packets are lost only      *)
(* before they are queued and come out in the order of the file.           *)
THEOREM ReaderImplementsLossyFifo == Spec => ReaderIsLossyFifo
<1>1. Init => Fifo!FifoInit
  <2> SUFFICES ASSUME Init PROVE Fifo!FifoInit
    OBVIOUS
  <2>1. buffer = <<>> /\ Packets(buffer) = <<>> /\ InHand = 0
    BY DEF Init, Packets, InHand
  <2> QED
    BY <2>1 DEF Init, Fifo!FifoInit
<1> QED
  BY <1>1, ReaderInvInit, ReaderInvNext, ReaderStepIsFifoStep, PTL
     DEF Spec, ReaderIsLossyFifo, Fifo!FifoSpec

(* pcap_reader.py 33-72: the packets the consumer gets, followed by those  *)
(* in the queue, are in the order of the file, each once, whatever was     *)
(* sampled out, dropped or cut short.                                      *)
THEOREM PacketsComeInOrder == Spec => []Fifo!InOrder
<1> DEFINE Inv == OrderInv(count - InHand, Packets(buffer), delivered)
<1>1. Fifo!FifoInit => Inv
  BY NothingIsOrdered DEF Fifo!FifoInit
<1>2. Inv /\ [Fifo!FifoNext]_(Fifo!fifoVars) => Inv'
  <2> SUFFICES ASSUME Inv, [Fifo!FifoNext]_(Fifo!fifoVars) PROVE Inv'
    OBVIOUS
  <2> DEFINE t == count - InHand
             w == Packets(buffer)
  <2>1. FifoMove(t, w, delivered, t', w', delivered')
    BY DEF Fifo!FifoNext, Fifo!Admit, Fifo!Lose, Fifo!HandOver, Fifo!fifoVars, FifoMove
  <2>2. OrderInv(t, w, delivered)
    OBVIOUS
  <2>3. OrderInv(t', w', delivered')
    <3> HIDE DEF t, w
    <3> QED
      BY <2>1, <2>2, FifoMoveKeepsOrder
  <2> QED
    BY <2>3 DEF OrderInv, Ordered
<1>3. Inv => Fifo!InOrder
  BY DEF OrderInv, Ordered, Fifo!InOrder
<1> QED
  BY <1>1, <1>2, <1>3, ReaderImplementsLossyFifo, PTL DEF ReaderIsLossyFifo, Fifo!FifoSpec

-----------------------------------------------------------------------------
(* The ZeekReader.  Its end mark is behind every line: the thread puts it  *)
(* and is done, so it finds the queue without one whenever it puts.        *)
ZeekInv ==
    /\ zproducer \in {"zeek", "read", "end", "done"}
    /\ zcount \in 0..NLines /\ zbuffer \in Seq(0..NLines)
    /\ \A i \in 1..Len(zbuffer) :
          zbuffer[i] = EndMark => i = Len(zbuffer) /\ zproducer = "done"

(* Both readers end with the same mark.                                    *)
LEMMA LinesArePackets == \A q : Lines(q) = Packets(q)
  BY DEF Lines, Packets, EndMark, Sentinel

LEMMA ZeekInvInit == ZeekInit => ZeekInv /\ ZFifo!FifoInit
<1> SUFFICES ASSUME ZeekInit PROVE ZeekInv /\ ZFifo!FifoInit
  OBVIOUS
<1>1. zbuffer = <<>> /\ zbuffer \in Seq(0..NLines) /\ Len(zbuffer) = 0 /\ zcount \in 0..NLines
  BY ZeekAssumption DEF ZeekInit
<1>2. Lines(zbuffer) = <<>>
  BY <1>1 DEF Lines
<1>3. ZeekInv
  BY <1>1 DEF ZeekInit, ZeekInv
<1>4. ZFifo!FifoInit
  BY <1>2 DEF ZeekInit, ZFifo!FifoInit
<1> QED
  BY <1>3, <1>4

(* Every step keeps the end mark behind the lines and is a step of the     *)
(* lossy FIFO, or leaves it alone (zeek_reader.py 56-105).                 *)
LEMMA ZeekStep ==
    ASSUME ZeekInv, [ZeekNext]_zeekVars
    PROVE  ZeekInv' /\ [ZFifo!FifoNext]_(ZFifo!fifoVars)
<1> USE ZeekAssumption
<1>0. /\ zproducer \in {"zeek", "read", "end", "done"}
      /\ zcount \in 0..NLines /\ zbuffer \in Seq(0..NLines) /\ Len(zbuffer) \in Nat
      /\ \A i \in 1..Len(zbuffer) :
            zbuffer[i] = EndMark => i = Len(zbuffer) /\ zproducer = "done"
  BY DEF ZeekInv
<1>1. CASE RunZeek \/ NoDocker \/ LogsEnd \/ StopZeek \/ ZeekJoined \/ UNCHANGED zeekVars
  <2>1. /\ UNCHANGED <<zcount, zbuffer, zdelivered>>
        /\ zproducer' \in {"zeek", "read", "end", "done"}
        /\ zproducer = "done" => zproducer' = "done"
    BY <1>0, <1>1 DEF RunZeek, NoDocker, LogsEnd, StopZeek, ZeekJoined, zeekVars
  <2>2. ZeekInv'
    BY <1>0, <2>1 DEF ZeekInv
  <2>3. UNCHANGED ZFifo!fifoVars
    BY <2>1 DEF ZFifo!fifoVars
  <2> QED
    BY <2>2, <2>3
<1>2. ASSUME UNCHANGED <<zbuffer, zdelivered>>, zcount' = zcount + 1, zcount < NLines,
             zproducer' \in {"read", "done"}, zproducer = "read"
      PROVE  ZeekInv' /\ ZFifo!Lose
  <2>1. ZeekInv'
    BY <1>0, <1>2 DEF ZeekInv
  <2>2. ZFifo!Lose
    BY <1>2 DEF ZFifo!Lose
  <2> QED
    BY <2>1, <2>2
<1>3. CASE BadLine
  <2>1. ZeekInv' /\ ZFifo!Lose
    BY <1>2, <1>3 DEF BadLine
  <2> QED
    BY <2>1 DEF ZFifo!FifoNext
<1>4. CASE ReadLine
  <2>1. /\ zproducer = "read" /\ zproducer' = "read" /\ zcount < NLines /\ zcount' = zcount + 1
        /\ UNCHANGED zdelivered
    BY <1>4 DEF ReadLine
  <2>2. CASE Len(zbuffer) < ZBufferSize
    <3> DEFINE e == zcount + 1
    <3>1. e \in 1..NLines /\ e \in 0..NLines /\ e # EndMark
      BY <1>0, <2>1 DEF EndMark
    <3>2. \A i \in 1..Len(zbuffer) : zbuffer[i] # EndMark
      BY <1>0, <2>1
    <3>3. zbuffer' = Append(zbuffer, e)
      BY <1>4, <2>2 DEF ReadLine
    <3> HIDE DEF e
    <3>4. /\ zbuffer' \in Seq(0..NLines) /\ Len(zbuffer') = Len(zbuffer) + 1
          /\ \A i \in 1..Len(zbuffer) : zbuffer'[i] = zbuffer[i]
          /\ zbuffer'[Len(zbuffer) + 1] = e
      BY <1>0, <3>1, <3>3, PutEntries
    <3>5. \A i \in 1..Len(zbuffer') : zbuffer'[i] # EndMark
      BY <1>0, <3>1, <3>2, <3>4
    <3>6. ZeekInv'
      BY <1>0, <2>1, <3>1, <3>4, <3>5 DEF ZeekInv, e
    <3>7. Packets(zbuffer) = zbuffer /\ Packets(zbuffer') = Append(zbuffer, e)
      BY <1>0, <3>1, <3>2, <3>3, PutPackets DEF EndMark, Sentinel
    <3>8. Lines(zbuffer) = zbuffer /\ Lines(zbuffer') = Append(zbuffer, e)
      BY <3>7, LinesArePackets
    <3>9. ZFifo!Admit
      BY <2>1, <2>2, <3>8 DEF ZFifo!Admit, e
    <3> QED
      BY <3>6, <3>9 DEF ZFifo!FifoNext
  <2>3. CASE ~(Len(zbuffer) < ZBufferSize)
    <3>1. UNCHANGED zbuffer
      BY <1>4, <2>3 DEF ReadLine
    <3>2. ZeekInv' /\ ZFifo!Lose
      BY <1>2, <2>1, <3>1
    <3> QED
      BY <3>2 DEF ZFifo!FifoNext
  <2> QED
    BY <2>2, <2>3
<1>5. CASE PutEnd
  <2>1. /\ zproducer = "end" /\ zproducer' = "done" /\ zbuffer' = Append(zbuffer, EndMark)
        /\ UNCHANGED <<zcount, zdelivered>> /\ EndMark \in 0..NLines
    BY <1>5 DEF PutEnd, EndMark
  <2>2. \A i \in 1..Len(zbuffer) : zbuffer[i] # EndMark
    BY <1>0, <2>1
  <2>3. /\ zbuffer' \in Seq(0..NLines) /\ Len(zbuffer') = Len(zbuffer) + 1
        /\ \A i \in 1..Len(zbuffer) : zbuffer'[i] = zbuffer[i]
    BY <1>0, <2>1, PutEntries
  <2>4. ZeekInv'
    <3>1. \A i \in 1..Len(zbuffer') : zbuffer'[i] = EndMark => i = Len(zbuffer')
      <4>1. \A i \in 1..Len(zbuffer') : i \in 1..Len(zbuffer) \/ i = Len(zbuffer')
        BY <1>0, <2>3
      <4> QED
        BY <2>2, <2>3, <4>1
    <3> QED
      BY <1>0, <2>1, <2>3, <3>1 DEF ZeekInv
  <2>5. Packets(zbuffer) = zbuffer /\ Packets(zbuffer') = zbuffer
    BY <1>0, <2>1, <2>2, PutPackets DEF EndMark, Sentinel
  <2>6. Lines(zbuffer') = Lines(zbuffer)
    BY <2>5, LinesArePackets
  <2> QED
    BY <2>1, <2>4, <2>6 DEF ZFifo!fifoVars
<1>6. CASE GetFlow
  <2>1. zbuffer # <<>> /\ zbuffer' = Tail(zbuffer) /\ UNCHANGED <<zproducer, zcount>>
    BY <1>6 DEF GetFlow
  <2>2. /\ zbuffer' \in Seq(0..NLines) /\ Head(zbuffer) = zbuffer[1] /\ Len(zbuffer) >= 1
        /\ Len(zbuffer') = Len(zbuffer) - 1
        /\ \A i \in 1..(Len(zbuffer) - 1) : zbuffer'[i] = zbuffer[i + 1]
    BY <1>0, <2>1, GetEntries
  <2>3. ZeekInv'
    <3>1. ASSUME NEW i \in 1..Len(zbuffer'), zbuffer'[i] = EndMark
          PROVE  i = Len(zbuffer') /\ zproducer = "done"
      <4>1. i \in 1..(Len(zbuffer) - 1) /\ i + 1 \in 1..Len(zbuffer)
        BY <1>0, <2>2
      <4>2. i + 1 = Len(zbuffer) /\ zproducer = "done"
        BY <1>0, <2>2, <3>1, <4>1
      <4> QED
        BY <1>0, <2>2, <4>2
    <3> QED
      BY <1>0, <2>1, <2>2, <3>1 DEF ZeekInv
  <2>4. CASE Head(zbuffer) = EndMark
    <3>1. 1 \in 1..Len(zbuffer)
      BY <1>0, <2>2
    <3>2. Len(zbuffer) = 1 /\ zbuffer[Len(zbuffer)] = Sentinel /\ Len(zbuffer') = 0
      BY <1>0, <2>2, <2>4, <3>1 DEF EndMark, Sentinel
    <3>3. Packets(zbuffer) \in Seq(0..NLines) /\ Len(Packets(zbuffer)) = 0
      BY <1>0, <2>1, <3>2, PacketsEntries
    <3>4. Packets(zbuffer) = <<>> /\ zbuffer' = <<>>
      BY <2>2, <3>2, <3>3, EmptySeq
    <3>5. Packets(zbuffer') = <<>>
      BY <3>4 DEF Packets
    <3>6. Lines(zbuffer') = Lines(zbuffer)
      BY <3>4, <3>5, LinesArePackets
    <3>7. UNCHANGED zdelivered
      BY <1>6, <2>4 DEF GetFlow
    <3> QED
      BY <2>1, <2>3, <3>6, <3>7 DEF ZFifo!fifoVars
  <2>5. CASE Head(zbuffer) # EndMark
    <3>1. /\ Packets(zbuffer) # <<>> /\ Head(Packets(zbuffer)) = Head(zbuffer)
          /\ Packets(zbuffer') = Tail(Packets(zbuffer))
      BY <1>0, <2>1, <2>5, GetPackets DEF EndMark, Sentinel
    <3>2. zdelivered' = Append(zdelivered, Head(zbuffer))
      BY <1>6, <2>5 DEF GetFlow
    <3>3. ZFifo!HandOver
      BY <2>1, <3>1, <3>2, LinesArePackets DEF ZFifo!HandOver
    <3> QED
      BY <2>3, <3>3 DEF ZFifo!FifoNext
  <2> QED
    BY <2>4, <2>5
<1> QED
  BY <1>1, <1>3, <1>4, <1>5, <1>6 DEF ZeekNext, ZeekThread

-----------------------------------------------------------------------------
(* The ingest loop takes a step of each of its parts, or leaves it alone.  *)
LEMMA IngestStep ==
    ASSUME [IngestNext]_ingestVars
    PROVE  /\ [Next]_vars /\ [ZeekNext]_zeekVars
           /\ UNCHANGED flowVars \/ \E m \in Metas : ProcessMeta(m)
<1>1. CASE WithPcap(Ingest)
  BY <1>1 DEF WithPcap, Ingest, Next
<1>2. CASE WithPcap(UNCHANGED flowVars
                /\ (Producer \/ ReadError \/ Stop("loop") \/ Stop("eof") \/ Joined))
  BY <1>2 DEF WithPcap, Next
<1>3. CASE WithZeek(ZeekNext)
  BY <1>3 DEF WithZeek
<1>4. CASE UNCHANGED ingestVars
  BY <1>4 DEF ingestVars
<1> QED
  BY <1>1, <1>2, <1>3, <1>4 DEF IngestNext

(* The queue keeps its limit, nothing follows the sentinel and every       *)
(* packet is accounted for (pcap_reader.py 42-63) also when the flow table *)
(* is fed by the consumer: the ingest loop is a PcapReader.                *)
THEOREM IngestIsPcapReader == IngestSpec => Spec
<1>1. IngestInit => Init
  BY DEF IngestInit
<1>2. [IngestNext]_ingestVars => [Next]_vars
  BY IngestStep
<1> QED
  BY <1>1, <1>2, PTL DEF IngestSpec, Spec

(* Over the three logs, full queues, bad lines and early stops, the        *)
(* ZeekReader is a lossy FIFO (zeek_reader.py 56-105), for every number of *)
(* lines and every size of its queue.                                      *)
THEOREM ZeekImplementsLossyFifo == IngestSpec => ZeekIsLossyFifo
<1>1. IngestInit => ZeekInv /\ ZFifo!FifoInit
  BY ZeekInvInit DEF IngestInit
<1>2. ZeekInv /\ [IngestNext]_ingestVars => ZeekInv' /\ [ZFifo!FifoNext]_(ZFifo!fifoVars)
  BY IngestStep, ZeekStep
<1> QED
  BY <1>1, <1>2, PTL DEF IngestSpec, ZeekIsLossyFifo, ZFifo!FifoSpec

(* zeek_reader.py 56-105: the lines handed over, followed by those in the  *)
(* queue, are in the order of the logs, each once.                         *)
THEOREM LinesComeInOrder == IngestSpec => []ZFifo!InOrder
<1> DEFINE Inv == OrderInv(zcount, Lines(zbuffer), zdelivered)
<1>1. ZFifo!FifoInit => Inv
  BY NothingIsOrdered DEF ZFifo!FifoInit
<1>2. Inv /\ [ZFifo!FifoNext]_(ZFifo!fifoVars) => Inv'
  <2> SUFFICES ASSUME Inv, [ZFifo!FifoNext]_(ZFifo!fifoVars) PROVE Inv'
    OBVIOUS
  <2> DEFINE w == Lines(zbuffer)
  <2>1. FifoMove(zcount, w, zdelivered, zcount', w', zdelivered')
    BY DEF ZFifo!FifoNext, ZFifo!Admit, ZFifo!Lose, ZFifo!HandOver, ZFifo!fifoVars, FifoMove
  <2>2. OrderInv(zcount, w, zdelivered)
    OBVIOUS
  <2>3. OrderInv(zcount', w', zdelivered')
    <3> HIDE DEF w
    <3> QED
      BY <2>1, <2>2, FifoMoveKeepsOrder
  <2> QED
    BY <2>3 DEF OrderInv, Ordered
<1>3. Inv => ZFifo!InOrder
  BY DEF OrderInv, Ordered, ZFifo!InOrder
<1> QED
  BY <1>1, <1>2, <1>3, ZeekImplementsLossyFifo, PTL DEF ZeekIsLossyFifo, ZFifo!FifoSpec

-----------------------------------------------------------------------------
(* The flow table.  Its keys are in the order of their last packets, which *)
(* makes the head the least recently used and all keys different; the      *)
(* packets are numbered, so the flow of a new one is the latest.           *)
FlowInv ==
    /\ table \in Seq(Keys) /\ lastUse \in [Keys -> Nat] /\ assembled \in Nat
    /\ \A k \in Keys : lastUse[k] <= assembled
    /\ \A i, j \in 1..Len(table) : i < j => lastUse[table[i]] < lastUse[table[j]]
    /\ KeepsMostRecent

(* move_to_end: the same keys without the moved one, in the same order,    *)
(* and then it.                                                            *)
LEMMA MovedToEnd ==
    ASSUME NEW S, table \in Seq(S), NEW k \in S, NEW i \in 1..Len(table), table[i] = k,
           \A j \in 1..Len(table) : table[j] = k => j = i
    PROVE  /\ MoveToEnd(k) \in Seq(S) /\ Len(MoveToEnd(k)) = Len(table)
           /\ MoveToEnd(k)[Len(table)] = k
           /\ \A j \in 1..(Len(table) - 1) :
                 MoveToEnd(k)[j] = table[IF j < i THEN j ELSE j + 1]
<1> DEFINE n == Len(table)
           a == SubSeq(table, 1, i - 1)
           b == SubSeq(table, i + 1, n)
<1>1. n \in Nat /\ i \in 1..n /\ \A j \in 1..n : table[j] \in S
  BY LenProperties, ElementOfSeq
<1>2. (CHOOSE j \in 1..Len(table) : table[j] = k) = i
  OBVIOUS
<1>3. MoveToEnd(k) = Append(a \o b, k)
  BY <1>2 DEF MoveToEnd
<1> HIDE DEF n
<1>4. /\ a \in Seq(S) /\ Len(a) = i - 1 /\ \A j \in 1..(i - 1) : a[j] = table[j]
  <2>1. 1 \in Int /\ i - 1 \in Int /\ \A j \in 1..(i - 1) : table[j] \in S
    BY <1>1
  <2>2. /\ a \in Seq(S) /\ Len(a) = (IF 1 <= i - 1 THEN (i - 1) - 1 + 1 ELSE 0)
        /\ \A j \in 1..((i - 1) - 1 + 1) : a[j] = table[1 + j - 1]
    BY <2>1, SubSeqProperties
  <2> HIDE DEF a
  <2> QED
    BY <1>1, <2>2
<1>5. /\ b \in Seq(S) /\ Len(b) = n - i /\ \A j \in 1..(n - i) : b[j] = table[i + j]
  <2>1. i + 1 \in Int /\ n \in Int /\ \A j \in (i + 1)..n : table[j] \in S
    BY <1>1
  <2>2. /\ b \in Seq(S) /\ Len(b) = (IF i + 1 <= n THEN n - (i + 1) + 1 ELSE 0)
        /\ \A j \in 1..(n - (i + 1) + 1) : b[j] = table[(i + 1) + j - 1]
    BY <2>1, SubSeqProperties
  <2> HIDE DEF b
  <2> QED
    BY <1>1, <2>2
<1> HIDE DEF a, b
<1> DEFINE c == a \o b
<1>6. /\ c \in Seq(S) /\ Len(c) = Len(a) + Len(b)
      /\ \A j \in 1..Len(a) + Len(b) : c[j] = IF j <= Len(a) THEN a[j] ELSE b[j - Len(a)]
  BY <1>4, <1>5, ConcatProperties
<1> HIDE DEF c
<1>7. Len(c) = n - 1 /\ Len(a) + Len(b) = n - 1
  BY <1>1, <1>4, <1>5, <1>6
<1>8. ASSUME NEW j \in 1..(n - 1) PROVE c[j] = table[IF j < i THEN j ELSE j + 1]
  <2>1. c[j] = IF j <= Len(a) THEN a[j] ELSE b[j - Len(a)]
    BY <1>6, <1>7
  <2>2. CASE j < i
    <3>1. j <= Len(a) /\ j \in 1..(i - 1)
      BY <1>1, <1>4, <2>2
    <3> QED
      BY <1>4, <2>1, <2>2, <3>1
  <2>3. CASE ~(j < i)
    <3>1. ~(j <= Len(a)) /\ j - Len(a) \in 1..(n - i) /\ i + (j - Len(a)) = j + 1
      BY <1>1, <1>4, <2>3
    <3> QED
      BY <1>5, <2>1, <2>3, <3>1
  <2> QED
    BY <2>2, <2>3
<1>9. /\ Append(c, k) \in Seq(S) /\ Len(Append(c, k)) = Len(c) + 1
      /\ \A j \in 1..Len(c) : Append(c, k)[j] = c[j]
      /\ Append(c, k)[Len(c) + 1] = k
  BY <1>6, AppendProperties
<1>10. MoveToEnd(k) = Append(c, k) /\ Len(c) + 1 = n
  BY <1>1, <1>3, <1>7 DEF c
<1> QED
  BY <1>7, <1>8, <1>9, <1>10 DEF n

(* A table in order with the flow of the latest packet put at its end is   *)
(* in order again.  q is what is left of the table in front of it: some of *)
(* its keys, in their order.                                               *)
LEMMA LatestAtEnd ==
    ASSUME FlowInv, NEW k \in Keys, NEW q \in Seq(Keys), Len(q) < MaxFlows,
           table' = Append(q, k), assembled' = assembled + 1,
           lastUse' = [lastUse EXCEPT ![k] = assembled + 1],
           \A j \in 1..Len(q) : q[j] # k,
           \A i, j \in 1..Len(q) : i < j => lastUse[q[i]] < lastUse[q[j]],
           \A x \in Keys : \A j \in 1..Len(q) :
              x # k /\ (\A i \in 1..Len(q) : q[i] # x) => lastUse[x] < lastUse[q[j]]
    PROVE  FlowInv'
<1>1. /\ lastUse \in [Keys -> Nat] /\ assembled \in Nat /\ Len(q) \in Nat /\ MaxFlows \in Nat
      /\ \A x \in Keys : lastUse[x] \in Nat /\ lastUse[x] <= assembled
      /\ \A j \in 1..Len(q) : q[j] \in Keys
  BY LenProperties, ElementOfSeq, FlowAssumption DEF FlowInv
<1>2. /\ lastUse' \in [Keys -> Nat] /\ assembled' \in Nat
      /\ lastUse'[k] = assembled + 1
      /\ \A x \in Keys : x # k => lastUse'[x] = lastUse[x]
  BY <1>1
<1>3. /\ table' \in Seq(Keys) /\ Len(table') = Len(q) + 1
      /\ \A j \in 1..Len(q) : table'[j] = q[j]
      /\ table'[Len(q) + 1] = k
  BY AppendProperties
<1>4. \A j \in 1..Len(table') : j \in 1..Len(q) \/ j = Len(q) + 1
  BY <1>1, <1>3
<1>5. \A x \in Keys : lastUse'[x] <= assembled'
  BY <1>1, <1>2
<1>6. ASSUME NEW i \in 1..Len(table'), NEW j \in 1..Len(table'), i < j
      PROVE  lastUse'[table'[i]] < lastUse'[table'[j]]
  <2>1. i \in 1..Len(q) /\ lastUse'[table'[i]] = lastUse[q[i]] /\ q[i] \in Keys
    BY <1>1, <1>2, <1>3, <1>4, <1>6
  <2>2. CASE j \in 1..Len(q)
    BY <1>1, <1>2, <1>3, <1>6, <2>1, <2>2
  <2>3. CASE j = Len(q) + 1
    BY <1>1, <1>2, <1>3, <2>1, <2>3
  <2> QED
    BY <1>4, <2>2, <2>3
<1>7. KeepsMostRecent'
  <2>1. ASSUME NEW x \in Keys, ~Present(x)', NEW j \in 1..Len(table')
        PROVE  lastUse'[x] < lastUse'[table'[j]]
    <3>1. \A i \in 1..Len(table') : table'[i] # x
      BY <2>1 DEF Present
    <3>2. x # k /\ \A i \in 1..Len(q) : q[i] # x
      <4>1. Len(q) + 1 \in 1..Len(table') /\ \A i \in 1..Len(q) : i \in 1..Len(table')
        BY <1>1, <1>3
      <4> QED
        BY <1>3, <3>1, <4>1
    <3>3. CASE j \in 1..Len(q)
      BY <1>1, <1>2, <1>3, <3>2, <3>3
    <3>4. CASE j = Len(q) + 1
      BY <1>1, <1>2, <1>3, <3>2, <3>4
    <3> QED
      BY <1>4, <3>3, <3>4
  <2>2. Len(table') <= MaxFlows
    BY <1>1, <1>3
  <2> QED
    BY <2>1, <2>2 DEF KeepsMostRecent
<1> QED
  BY <1>2, <1>3, <1>5, <1>6, <1>7 DEF FlowInv

(* get_or_create and update (flow_session_tables.py 43-62, 85-106).        *)
LEMMA ProcessMetaInv ==
    ASSUME FlowInv, NEW m \in Metas, ProcessMeta(m)
    PROVE  FlowInv'
<1> DEFINE k == Make5Tuple(m)
           n == Len(table)
<1>1. /\ k \in Keys /\ table \in Seq(Keys) /\ n \in Nat /\ MaxFlows \in Nat \ {0} /\ n <= MaxFlows
      /\ \A j \in 1..n : table[j] \in Keys /\ lastUse[table[j]] \in Nat
      /\ \A x \in Keys : lastUse[x] \in Nat
  <2>1. k \in Keys /\ table \in Seq(Keys) /\ lastUse \in [Keys -> Nat] /\ n <= MaxFlows
    BY DEF FlowInv, Keys, KeepsMostRecent
  <2>2. n \in Nat /\ \A j \in 1..n : table[j] \in Keys
    BY <2>1, LenProperties, ElementOfSeq
  <2> QED
    BY <2>1, <2>2, FlowAssumption
<1>2. /\ assembled' = assembled + 1 /\ lastUse' = [lastUse EXCEPT ![k] = assembled + 1]
      /\ table' = IF Present(k) THEN MoveToEnd(k) ELSE Append(EvictLru, k)
  BY DEF ProcessMeta
<1>3. /\ \A i, j \in 1..n : i < j => lastUse[table[i]] < lastUse[table[j]]
      /\ \A i, j \in 1..n : table[i] = table[j] => i = j
      /\ \A x \in Keys : (\A i \in 1..n : table[i] # x) =>
            \A j \in 1..n : lastUse[x] < lastUse[table[j]]
  <2>1. \A i, j \in 1..n : i < j => lastUse[table[i]] < lastUse[table[j]]
    BY DEF FlowInv
  <2>2. ASSUME NEW i \in 1..n, NEW j \in 1..n, table[i] = table[j] PROVE i = j
    <3>1. ~(i < j) /\ ~(j < i)
      BY <1>1, <2>1, <2>2
    <3> QED
      BY <1>1, <3>1
  <2>3. \A x \in Keys : (\A i \in 1..n : table[i] # x) =>
          \A j \in 1..n : lastUse[x] < lastUse[table[j]]
    BY DEF FlowInv, KeepsMostRecent, Present
  <2> QED
    BY <2>1, <2>2, <2>3
<1> HIDE DEF k
<1>4. CASE Present(k)
  <2>1. PICK i \in 1..n : table[i] = k
    BY <1>4 DEF Present
  <2> DEFINE new == MoveToEnd(k)
             Was(j) == IF j < i THEN j ELSE j + 1
             q == SubSeq(new, 1, n - 1)
  <2>2. /\ new \in Seq(Keys) /\ Len(new) = n /\ new[n] = k
        /\ \A j \in 1..(n - 1) : new[j] = table[Was(j)]
    <3>1. \A j \in 1..Len(table) : table[j] = k => j = i
      BY <1>3, <2>1
    <3>2. /\ new \in Seq(Keys) /\ Len(new) = Len(table) /\ new[Len(table)] = k
          /\ \A j \in 1..(Len(table) - 1) :
                new[j] = IF j < i THEN table[j] ELSE table[j + 1]
      BY <1>1, <2>1, <3>1, MovedToEnd
    <3> HIDE DEF new
    <3> QED
      BY <3>2
  <2>3. /\ \A j \in 1..(n - 1) : Was(j) \in 1..n /\ Was(j) # i
        /\ \A j, l \in 1..(n - 1) : j < l => Was(j) < Was(l)
    BY <1>1, <2>1
  <2>4. \A l \in 1..n : l # i => \E j \in 1..(n - 1) : Was(j) = l
    <3> TAKE l \in 1..n
    <3>1. CASE l < i
      <4>1. l \in 1..(n - 1) /\ Was(l) = l
        BY <1>1, <2>1, <3>1
      <4> QED
        BY <4>1
    <3>2. CASE l > i
      <4>1. l - 1 \in 1..(n - 1) /\ Was(l - 1) = l
        BY <1>1, <2>1, <3>2
      <4> QED
        BY <4>1
    <3> QED
      BY <1>1, <3>1, <3>2
  <2> HIDE DEF new, Was
  <2>5. /\ q \in Seq(Keys) /\ Len(q) = n - 1 /\ \A j \in 1..(n - 1) : q[j] = new[j]
    <3>1. n \in Nat \ {0} /\ \A j \in 1..(n - 1) : new[j] \in Keys
      BY <1>1, <2>1, <2>2, <2>3
    <3>2. 1 \in Int /\ n - 1 \in Int
      BY <3>1
    <3>3. /\ q \in Seq(Keys) /\ Len(q) = (IF 1 <= n - 1 THEN (n - 1) - 1 + 1 ELSE 0)
          /\ \A j \in 1..((n - 1) - 1 + 1) : q[j] = new[1 + j - 1]
      BY <3>1, <3>2, SubSeqProperties
    <3> HIDE DEF q, n
    <3>4. Len(q) = n - 1
      BY <3>1, <3>3
    <3>5. \A j \in 1..(n - 1) : j \in 1..((n - 1) - 1 + 1) /\ 1 + j - 1 = j
      BY <3>1
    <3> QED
      BY <3>3, <3>4, <3>5
  <2>6. table' = Append(q, k)
    <3> HIDE DEF q
    <3>1. n \in Nat \ {0}
      BY <1>1, <2>1
    <3>2. /\ Append(q, k) \in Seq(Keys) /\ Len(Append(q, k)) = Len(q) + 1
          /\ \A j \in 1..Len(q) : Append(q, k)[j] = q[j]
          /\ Append(q, k)[Len(q) + 1] = k
      BY <1>1, <2>5, AppendProperties
    <3>3. Len(Append(q, k)) = Len(new)
      BY <2>2, <2>5, <3>1, <3>2
    <3>4. ASSUME NEW j \in 1..Len(new) PROVE Append(q, k)[j] = new[j]
      <4>1. j \in 1..(n - 1) \/ j = n
        BY <2>2, <3>1
      <4> QED
        BY <2>2, <2>5, <3>1, <3>2, <4>1
    <3>5. new = Append(q, k)
      BY <2>2, <3>2, <3>3, <3>4, SeqEqual
    <3> QED
      BY <1>2, <1>4, <3>5 DEF new
  <2> HIDE DEF q
  <2>7. \A j \in 1..Len(q) : q[j] = table[Was(j)] /\ Was(j) \in 1..n /\ Was(j) # i
    BY <2>2, <2>3, <2>5
  <2>8. \A j \in 1..Len(q) : q[j] # k
    BY <1>3, <2>1, <2>7
  <2>9. \A j, l \in 1..Len(q) : j < l => lastUse[q[j]] < lastUse[q[l]]
    BY <1>3, <2>3, <2>5, <2>7
  <2>10. ASSUME NEW x \in Keys, NEW j \in 1..Len(q), x # k, \A l \in 1..Len(q) : q[l] # x
         PROVE  lastUse[x] < lastUse[q[j]]
    <3>1. ASSUME NEW l \in 1..n PROVE table[l] # x
      <4>1. CASE l = i
        BY <2>1, <2>10, <4>1
      <4>2. CASE l # i
        <5>1. PICK h \in 1..(n - 1) : Was(h) = l
          BY <2>4, <4>2
        <5>2. h \in 1..Len(q)
          BY <2>5
        <5>3. q[h] = table[l]
          BY <2>7, <5>1, <5>2
        <5> QED
          BY <2>10, <5>2, <5>3
      <4> QED
        BY <4>1, <4>2
    <3> QED
      BY <1>3, <2>7, <3>1
  <2>11. Len(q) < MaxFlows
    BY <1>1, <2>1, <2>5
  <2> QED
    BY <1>1, <1>2, <2>5, <2>6, <2>8, <2>9, <2>10, <2>11, LatestAtEnd
<1>5. CASE ~Present(k)
  <2>0. table' = Append(EvictLru, k) /\ \A j \in 1..n : table[j] # k
    BY <1>2, <1>5 DEF Present
  <2>1. CASE n < MaxFlows
    <3>1. EvictLru = table
      BY <1>1, <2>1 DEF EvictLru
    <3> QED
      BY <1>1, <1>2, <1>3, <2>0, <2>1, <3>1, LatestAtEnd
  <2>2. CASE n = MaxFlows
    <3> DEFINE q == Tail(table)
    <3>1. EvictLru = q /\ table # <<>>
      BY <1>1, <2>2, EmptySeq DEF EvictLru
    <3>2. /\ q \in Seq(Keys) /\ Len(q) = n - 1
          /\ \A j \in 1..(n - 1) : q[j] = table[j + 1]
      BY <1>1, <3>1, GetEntries
    <3> HIDE DEF q
    <3>3. \A j \in 1..Len(q) : j + 1 \in 1..n /\ j + 1 # 1 /\ q[j] = table[j + 1]
      BY <1>1, <3>2
    <3>4. \A j \in 1..Len(q) : q[j] # k
      BY <2>0, <3>3
    <3>5. ASSUME NEW i \in 1..Len(q), NEW j \in 1..Len(q), i < j
          PROVE  lastUse[q[i]] < lastUse[q[j]]
      <4>1. i + 1 \in 1..n /\ j + 1 \in 1..n /\ i + 1 < j + 1
        BY <3>3, <3>5
      <4> QED
        BY <1>3, <3>3, <4>1
    <3>6. ASSUME NEW x \in Keys, NEW j \in 1..Len(q), x # k, \A l \in 1..Len(q) : q[l] # x
          PROVE  lastUse[x] < lastUse[q[j]]
      <4>1. j + 1 \in 1..n /\ q[j] = table[j + 1] /\ 1 \in 1..n /\ 1 < j + 1
        BY <1>1, <2>2, <3>3
      <4>2. CASE x = table[1]
        BY <1>3, <4>1, <4>2
      <4>3. CASE x # table[1]
        <5>1. ASSUME NEW l \in 1..n PROVE table[l] # x
          <6>1. CASE l = 1
            BY <4>3, <6>1
          <6>2. CASE l # 1
            <7>1. l - 1 \in 1..Len(q) /\ (l - 1) + 1 = l
              BY <1>1, <3>2, <6>2
            <7> QED
              BY <3>3, <3>6, <7>1
          <6> QED
            BY <6>1, <6>2
        <5> QED
          BY <1>3, <4>1, <5>1
      <4> QED
        BY <4>2, <4>3
    <3>7. Len(q) < MaxFlows
      BY <1>1, <2>2, <3>2
    <3> QED
      BY <1>1, <1>2, <2>0, <3>1, <3>2, <3>4, <3>5, <3>6, <3>7, LatestAtEnd
  <2> QED
    BY <1>1, <2>1, <2>2
<1> QED
  BY <1>4, <1>5

(* Only the evicted flow leaves the table.                                 *)
LEMMA OthersStay ==
    ASSUME FlowInv, NEW m \in Metas, ProcessMeta(m), NEW x \in Keys, Present(x), ~Present(x)'
    PROVE  /\ ~Present(Make5Tuple(m)) /\ EvictLru # table /\ x = Head(table)
<1> DEFINE k == Make5Tuple(m)
           n == Len(table)
<1>1. /\ k \in Keys /\ table \in Seq(Keys) /\ lastUse \in [Keys -> Nat]
      /\ table' = IF Present(k) THEN MoveToEnd(k) ELSE Append(EvictLru, k)
  BY DEF FlowInv, Keys, ProcessMeta
<1>2. n \in Nat /\ \A j \in 1..n : table[j] \in Keys /\ lastUse[table[j]] \in Nat
  BY <1>1, LenProperties, ElementOfSeq
<1>3. ASSUME NEW i \in 1..n, NEW j \in 1..n, table[i] = table[j] PROVE i = j
  <2>1. ~(i < j) /\ ~(j < i)
    BY <1>2, <1>3 DEF FlowInv
  <2> QED
    BY <1>2, <2>1
<1>4. PICK l \in 1..n : table[l] = x
  BY DEF Present
<1>5. \A j \in 1..Len(table') : table'[j] # x
  BY DEF Present
<1> HIDE DEF k
<1>6. ~Present(k)
  <2> SUFFICES ASSUME Present(k) PROVE FALSE
    OBVIOUS
  <2> DEFINE new == MoveToEnd(k)
  <2>1. PICK i \in 1..n : table[i] = k
    BY DEF Present
  <2>2. /\ new \in Seq(Keys) /\ Len(new) = n /\ new[n] = k
        /\ \A j \in 1..(n - 1) : new[j] = table[IF j < i THEN j ELSE j + 1]
    <3>1. \A j \in 1..Len(table) : table[j] = k => j = i
      BY <1>3, <2>1
    <3> HIDE DEF new
    <3> QED
      BY <1>1, <2>1, <3>1, MovedToEnd DEF new
  <2>3. table' = new
    BY <1>1
  <2> HIDE DEF new, n
  <2>4. CASE l = i
    <3>1. n \in 1..n
      BY <1>2, <2>1
    <3> QED
      BY <1>4, <1>5, <2>1, <2>2, <2>3, <2>4, <3>1
  <2>5. CASE l < i
    <3>1. l \in 1..(n - 1) /\ l \in 1..n
      BY <1>2, <2>1, <2>5
    <3> QED
      BY <1>4, <1>5, <2>2, <2>3, <2>5, <3>1
  <2>6. CASE l > i
    <3>1. l - 1 \in 1..(n - 1) /\ l - 1 \in 1..n /\ ~(l - 1 < i) /\ (l - 1) + 1 = l
      BY <1>2, <2>1, <2>6
    <3> QED
      BY <1>4, <1>5, <2>2, <2>3, <3>1
  <2> QED
    BY <1>2, <2>4, <2>5, <2>6
<1>7. table' = Append(EvictLru, k)
  BY <1>1, <1>6
<1>8. EvictLru # table
  <2> SUFFICES ASSUME EvictLru = table PROVE FALSE
    OBVIOUS
  <2>1. table' = Append(table, k)
    BY <1>7
  <2>2. Len(Append(table, k)) = n + 1 /\ \A j \in 1..n : Append(table, k)[j] = table[j]
    BY <1>1, AppendProperties
  <2>3. l \in 1..(n + 1)
    BY <1>2
  <2> QED
    BY <1>4, <1>5, <2>1, <2>2, <2>3
<1>9. l = 1
  <2> SUFFICES ASSUME l # 1 PROVE FALSE
    OBVIOUS
  <2> DEFINE q == Tail(table)
  <2>1. EvictLru = q /\ table # <<>>
    BY <1>2, <1>8, EmptySeq DEF EvictLru
  <2>2. q \in Seq(Keys) /\ Len(q) = n - 1 /\ \A j \in 1..(n - 1) : q[j] = table[j + 1]
    BY <1>1, <2>1, GetEntries
  <2> HIDE DEF q
  <2>3. Len(Append(q, k)) = Len(q) + 1 /\ \A j \in 1..Len(q) : Append(q, k)[j] = q[j]
    BY <1>1, <2>2, AppendProperties
  <2>4. l - 1 \in 1..(n - 1) /\ (l - 1) + 1 = l /\ l - 1 \in 1..((n - 1) + 1)
    BY <1>2
  <2>5. table' = Append(q, k)
    BY <1>7, <2>1
  <2> HIDE DEF n
  <2> QED
    BY <1>4, <1>5, <2>2, <2>3, <2>4, <2>5
<1> QED
  BY <1>1, <1>4, <1>6, <1>8, <1>9 DEF k

LEMMA NewestIsPresent ==
    ASSUME FlowInv, NEW m \in Metas, ProcessMeta(m) PROVE Present(Make5Tuple(m))'
<1> DEFINE k == Make5Tuple(m)
<1>1. /\ k \in Keys /\ table \in Seq(Keys)
      /\ table' = IF Present(k) THEN MoveToEnd(k) ELSE Append(EvictLru, k)
  BY DEF FlowInv, Keys, ProcessMeta
<1>2. Len(table) \in Nat
  BY <1>1, LenProperties
<1>3. \E s \in Seq(Keys) : table' = Append(s, k)
  <2>1. CASE Present(k)
    <3> DEFINE i == CHOOSE j \in 1..Len(table) : table[j] = k
               s == SubSeq(table, 1, i - 1) \o SubSeq(table, i + 1, Len(table))
    <3>1. i \in 1..Len(table)
      BY <2>1 DEF Present
    <3> HIDE DEF i
    <3>2. /\ \A j \in 1..(i - 1) : j \in 1..Len(table)
          /\ \A j \in (i + 1)..Len(table) : j \in 1..Len(table)
      BY <1>2, <3>1
    <3>3. \A j \in 1..Len(table) : table[j] \in Keys
      BY <1>1, ElementOfSeq
    <3>4. SubSeq(table, 1, i - 1) \in Seq(Keys)
      BY <1>2, <3>1, <3>2, <3>3, SubSeqProperties
    <3>5. SubSeq(table, i + 1, Len(table)) \in Seq(Keys)
      BY <1>2, <3>1, <3>2, <3>3, SubSeqProperties
    <3>6. s \in Seq(Keys)
      BY <3>4, <3>5, ConcatProperties
    <3>7. table' = Append(s, k)
      BY <1>1, <2>1 DEF MoveToEnd, i
    <3> HIDE DEF s
    <3> QED
      BY <3>6, <3>7
  <2>2. CASE ~Present(k)
    <3>1. EvictLru \in Seq(Keys)
      BY <1>1, <1>2, FlowAssumption DEF EvictLru
    <3> QED
      BY <1>1, <2>2, <3>1
  <2> QED
    BY <2>1, <2>2
<1>4. PICK s \in Seq(Keys) : table' = Append(s, k)
  BY <1>3
<1>5. Len(s) \in Nat /\ Len(table') = Len(s) + 1 /\ table'[Len(s) + 1] = k
  BY <1>1, <1>4, AppendProperties, LenProperties
<1>6. Len(s) + 1 \in 1..Len(table')
  BY <1>5
<1> QED
  BY <1>5, <1>6 DEF Present

(* The packets are counted by flow.  A flow without an entry has no count, *)
(* so that one created for it starts from zero.                            *)
CountInv ==
    /\ pkts \in [Keys -> Nat] /\ evicted \in Nat
    /\ \A x \in Keys : ~Present(x) => pkts[x] = 0
    /\ IsFiniteSet(Counted) /\ assembled = evicted + Cardinality(Counted)

Pairs(f) == {p \in Keys \X Nat : p[2] \in 1..f[p[1]]}

LEMMA CountedPairs ==
    ASSUME NEW t \in Seq(Keys), NEW f \in [Keys -> Nat],
           \A x \in Keys : (\A i \in 1..Len(t) : t[i] # x) => f[x] = 0
    PROVE  UNION {{x} \X (1..f[x]) : x \in Range(t)} = Pairs(f)
<1> DEFINE counted == UNION {{x} \X (1..f[x]) : x \in Range(t)}
<1>1. DOMAIN t = 1..Len(t) /\ \A i \in 1..Len(t) : t[i] \in Keys
  BY LenProperties, ElementOfSeq
<1>2. Range(t) = {x \in Keys : \E i \in 1..Len(t) : t[i] = x}
  BY <1>1 DEF Range
<1>3. counted \subseteq Pairs(f)
  <2> SUFFICES ASSUME NEW p \in counted PROVE p \in Pairs(f)
    OBVIOUS
  <2>1. PICK x \in Keys : p \in {x} \X (1..f[x])
    BY <1>2
  <2>2. f[x] \in Nat /\ \A i \in 1..f[x] : i \in Nat
    OBVIOUS
  <2> QED
    BY <2>1, <2>2 DEF Pairs
<1>4. Pairs(f) \subseteq counted
  <2> SUFFICES ASSUME NEW p \in Pairs(f) PROVE p \in counted
    OBVIOUS
  <2>1. p = <<p[1], p[2]>> /\ p[1] \in Keys /\ p[2] \in 1..f[p[1]]
    BY DEF Pairs
  <2>2. f[p[1]] # 0
    BY <2>1
  <2>3. p[1] \in Range(t)
    BY <1>2, <2>1, <2>2
  <2> QED
    BY <2>1, <2>3
<1> QED
  BY <1>3, <1>4

(* A packet counted in its flow, and the count of the evicted one given    *)
(* up (flow_session_tables.py 43-62, 101-104).                             *)
LEMMA ProcessMetaCounts ==
    ASSUME FlowInv, FlowInv', CountInv, NEW m \in Metas, ProcessMeta(m)
    PROVE  CountInv'
<1> DEFINE k == Make5Tuple(m)
           h == Head(table)
           evicts == ~Present(k) /\ EvictLru # table
           block == {h} \X (1..pkts[h])
           left == IF evicts THEN Pairs(pkts) \ block ELSE Pairs(pkts)
           new == <<k, pkts[k] + 1>>
<1>1. /\ k \in Keys /\ table \in Seq(Keys) /\ table' \in Seq(Keys) /\ assembled \in Nat
      /\ assembled' = assembled + 1
      /\ pkts' = [x \in Keys |-> IF x = k THEN pkts[x] + 1
                                 ELSE IF evicts /\ x = h THEN 0 ELSE pkts[x]]
      /\ evicted' = IF evicts THEN evicted + pkts[h] ELSE evicted
  BY DEF FlowInv, Keys, ProcessMeta
<1>2. /\ pkts \in [Keys -> Nat] /\ evicted \in Nat
      /\ \A x \in Keys : ~Present(x) => pkts[x] = 0
      /\ IsFiniteSet(Counted) /\ assembled = evicted + Cardinality(Counted)
  BY DEF CountInv
<1>3. evicts => h \in Keys /\ h # k /\ pkts[h] \in Nat
  <2> SUFFICES ASSUME evicts PROVE h \in Keys /\ h # k /\ pkts[h] \in Nat
    OBVIOUS
  <2>1. Len(table) \in Nat /\ MaxFlows \in Nat \ {0} /\ Len(table) >= MaxFlows
    BY <1>1, FlowAssumption, LenProperties DEF EvictLru
  <2>2. 1 \in 1..Len(table) /\ h = table[1]
    BY <1>1, <2>1
  <2> QED
    BY <1>1, <1>2, <2>2, ElementOfSeq DEF Present
<1>4. pkts' \in [Keys -> Nat] /\ evicted' \in Nat
  BY <1>1, <1>2, <1>3
<1>5. ASSUME NEW x \in Keys, ~Present(x)' PROVE pkts'[x] = 0
  <2>1. x # k
    BY <1>5, NewestIsPresent
  <2>2. CASE Present(x)
    BY <1>1, <1>5, <2>1, <2>2, OthersStay
  <2>3. CASE ~Present(x)
    BY <1>1, <1>2, <2>1, <2>3
  <2> QED
    BY <2>2, <2>3
<1>6. Counted = Pairs(pkts) /\ Counted' = Pairs(pkts')
  <2>1. Counted = Pairs(pkts)
    BY <1>1, <1>2, CountedPairs DEF Counted, Present
  <2>2. \A x \in Keys : (\A i \in 1..Len(table') : table'[i] # x) => pkts'[x] = 0
    BY <1>5 DEF Present
  <2>3. Counted' = UNION {{x} \X (1..pkts'[x]) : x \in Range(table')}
    BY DEF Counted
  <2>4. Counted' = Pairs(pkts')
    BY <1>1, <1>4, <2>2, <2>3, CountedPairs
  <2> QED
    BY <2>1, <2>4
<1>7. Pairs(pkts') = left \cup {new}
  <2> SUFFICES ASSUME NEW x \in Keys, NEW i \in Nat
               PROVE  <<x, i>> \in Pairs(pkts') <=> <<x, i>> \in left \/ <<x, i>> = new
    <3>1. new \in Keys \X Nat
      BY <1>1, <1>2
    <3>2. \A z \in Keys \X Nat : \E x \in Keys, i \in Nat : z = <<x, i>>
      OBVIOUS
    <3>3. Pairs(pkts') \subseteq Keys \X Nat /\ left \subseteq Keys \X Nat
      BY DEF Pairs
    <3> HIDE DEF left, new
    <3> QED
      BY <3>1, <3>2, <3>3
  <2>1. <<x, i>> \in Pairs(pkts') <=> i \in 1..pkts'[x]
    BY DEF Pairs
  <2>2. <<x, i>> \in left <=> i \in 1..pkts[x] /\ ~(evicts /\ x = h /\ i \in 1..pkts[h])
    BY DEF Pairs
  <2>3. <<x, i>> = new <=> x = k /\ i = pkts[k] + 1
    OBVIOUS
  <2>4. CASE x = k
    <3>1. pkts'[x] = pkts[k] + 1 /\ pkts[k] \in Nat
      BY <1>1, <1>2, <2>4
    <3>2. i \in 1..(pkts[k] + 1) <=> i \in 1..pkts[k] \/ i = pkts[k] + 1
      BY <3>1
    <3> HIDE DEF evicts, h
    <3> QED
      BY <1>3, <2>1, <2>2, <2>3, <2>4, <3>1, <3>2
  <2>5. CASE x # k
    <3> HIDE DEF h, k
    <3>1. pkts'[x] = IF evicts /\ x = h THEN 0 ELSE pkts[x]
      BY <1>1, <2>5
    <3>2. i \notin 1..0
      OBVIOUS
    <3> HIDE DEF evicts
    <3> QED
      BY <2>1, <2>2, <2>3, <2>5, <3>1, <3>2
  <2> QED
    BY <2>4, <2>5
<1>8. new \notin left
  BY <1>2 DEF Pairs
<1> HIDE DEF evicts, h, k
<1>9. /\ IsFiniteSet(left) /\ Cardinality(left) \in Nat
      /\ assembled = evicted' + Cardinality(left)
  <2>1. IsFiniteSet(Pairs(pkts)) /\ Cardinality(Pairs(pkts)) \in Nat
        /\ assembled = evicted + Cardinality(Pairs(pkts))
    BY <1>2, <1>6, FS_CardinalityType
  <2>2. CASE ~evicts
    BY <1>1, <2>1, <2>2
  <2>3. CASE evicts
    <3>1. h \in Keys /\ pkts[h] \in Nat
      BY <1>3, <2>3
    <3>2. Pairs(pkts) \cap block = block
      BY <3>1 DEF Pairs
    <3>3. Cardinality(block) = pkts[h]
      <4>1. IsFiniteSet({h}) /\ Cardinality({h}) = 1
        BY FS_Singleton
      <4>2. IsFiniteSet(1..pkts[h]) /\ Cardinality(1..pkts[h]) = IF 1 > pkts[h] THEN 0 ELSE pkts[h] - 1 + 1
        BY <3>1, FS_Interval
      <4>3. Cardinality(1..pkts[h]) = pkts[h]
        BY <3>1, <4>2
      <4>4. Cardinality(block) = Cardinality({h}) * Cardinality(1..pkts[h])
        BY <4>1, <4>2, FS_Product
      <4> QED
        BY <3>1, <4>1, <4>3, <4>4
    <3>4. left = Pairs(pkts) \ block
      BY <2>3
    <3> HIDE DEF block, left
    <3>5. IsFiniteSet(left) /\ Cardinality(left) = Cardinality(Pairs(pkts)) - pkts[h]
      <4>1. /\ IsFiniteSet(Pairs(pkts) \ block)
            /\ Cardinality(Pairs(pkts) \ block)
                  = Cardinality(Pairs(pkts)) - Cardinality(Pairs(pkts) \cap block)
        BY <2>1, FS_Difference
      <4> QED
        BY <3>2, <3>3, <3>4, <4>1
    <3>6. Cardinality(left) \in Nat
      BY <3>5, FS_CardinalityType
    <3>7. evicted' = evicted + pkts[h]
      BY <1>1, <2>3
    <3> QED
      BY <1>1, <1>2, <2>1, <3>1, <3>5, <3>6, <3>7
  <2> QED
    BY <2>2, <2>3
<1> HIDE DEF left, new
<1>10. IsFiniteSet(Counted') /\ Cardinality(Counted') = Cardinality(left) + 1
  BY <1>6, <1>7, <1>8, <1>9, FS_AddElement
<1>11. assembled' = evicted' + Cardinality(Counted')
  <2>1. \A a, b, c \in Nat : a = b + c => a + 1 = b + (c + 1)
    OBVIOUS
  <2>2. assembled \in Nat /\ assembled' = assembled + 1
    BY <1>1
  <2> QED
    BY <1>4, <1>9, <1>10, <2>1, <2>2
<1> QED
  BY <1>4, <1>5, <1>10, <1>11 DEF CountInv

(* At its limit the table gives up the flow whose last packet is the       *)
(* oldest, keeps its limit, and loses no packet but those of the flows it  *)
(* gives up (flow_session_tables.py 20-24, 43-62, 85-106), for every limit *)
(* and every set of flows.                                                 *)
THEOREM FlowTableEvictsLeastRecent == IngestSpec => []EvictsLeastRecent
<1> DEFINE Inv == FlowInv /\ CountInv
<1>1. IngestInit => Inv
  <2> SUFFICES ASSUME FlowInit PROVE Inv
    BY DEF IngestInit
  <2>1. table = <<>> /\ table \in Seq(Keys) /\ Len(table) = 0 /\ Range(table) = {}
    BY DEF FlowInit, Range
  <2>2. FlowInv
    BY <2>1, FlowAssumption DEF FlowInit, FlowInv, KeepsMostRecent
  <2>3. Counted = {}
    BY <2>1 DEF Counted
  <2>4. IsFiniteSet(Counted) /\ Cardinality(Counted) = 0
    BY <2>3, FS_EmptySet
  <2> QED
    BY <2>2, <2>4 DEF FlowInit, CountInv
<1>2. Inv /\ [IngestNext]_ingestVars => Inv'
  <2> SUFFICES ASSUME FlowInv, CountInv, [IngestNext]_ingestVars PROVE Inv'
    OBVIOUS
  <2>1. CASE UNCHANGED flowVars
    BY <2>1 DEF flowVars, FlowInv, KeepsMostRecent, Present, CountInv, Counted
  <2> QED
    BY <2>1, IngestStep, ProcessMetaInv, ProcessMetaCounts
<1>3. Inv => EvictsLeastRecent
  BY DEF FlowInv, CountInv, EvictsLeastRecent
<1> QED
  BY <1>1, <1>2, <1>3, PTL DEF IngestSpec

=============================================================================
