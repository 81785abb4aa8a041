------------------------- MODULE E2EPipeline_proofs -------------------------
(***************************************************************************)
(* E2EPipeline for every number of tasks, batch size and size of the alert *)
(* queue: a shutdown, whenever it comes, costs the end of the replay and   *)
(* never its middle.                                                       *)
(***************************************************************************)
EXTENDS E2EPipeline, SequenceTheorems, TLAPS

MainStates == {"run", "put", "stop", "drain", "joinWorker", "stopDb", "joinDb", "done"}

(* The types of the pipeline's state.                                      *)
TypeOK ==
    /\ main \in MainStates
    /\ next \in Nat \ {0} /\ local \in Seq(Nat)
    /\ taskQ \in Seq(Seq(Nat)) /\ stopSet \in BOOLEAN
    /\ worker \in {"get", "waiting", "got", "work", "done"} /\ hand \in Seq(Nat)
    /\ alertQ \in Seq(Nat)
    /\ db \in {"clear", "get", "hung", "raised", "done"} /\ stored \in Seq(Nat)
    /\ missed \subseteq Nat /\ stopRefused \in BOOLEAN

-----------------------------------------------------------------------------
(* The inductive invariant.                                                *)

(* A batch of consecutive tasks, and the task that follows it.             *)
Block(b) == b # <<>> /\ b[1] # STOP /\ \A i \in 1..Len(b) : b[i] + 1 = b[1] + i
After(b) == b[1] + Len(b)

(* Every task before n that gives an alert has come out of the worker.     *)
DoneBefore(n) ==
    \A k \in Firing : k < n /\ k \notin missed => k \in Elems(stored) \cup Elems(alertQ)

(* The first task that is still on its way from main to the worker.        *)
LocalFrom == next - Len(local)
Front == IF taskQ # <<>> THEN taskQ[1][1] ELSE LocalFrom

(* local_batch holds the tasks fired last; the drain begins only after the *)
(* event is set, and a worker without a batch has nothing in hand.         *)
MainInOrder ==
    /\ Len(local) < next
    /\ \A i \in 1..Len(local) : local[i] + 1 = LocalFrom + i
    /\ main \in {"put"} => local # <<>>
    /\ main \in {"drain", "joinWorker", "stopDb", "joinDb", "done"} => stopSet
    /\ worker \in {"get", "waiting"} => hand = <<>>

(* Until the event is set the batches follow each other without a gap, and *)
(* all before them is done.                                                *)
QueueInOrder ==
    \A j \in 1..Len(taskQ) :
        /\ Block(taskQ[j])
        /\ After(taskQ[j]) = IF j < Len(taskQ) THEN taskQ[j + 1][1] ELSE LocalFrom

UntilStopped ==
    ~stopSet =>
        /\ QueueInOrder
        /\ hand # <<>> => Block(hand) /\ After(hand) = Front /\ DoneBefore(hand[1])
        /\ hand = <<>> => DoneBefore(Front)

(* The batch the worker is at goes on after that.                          *)
WorkInOrder == worker = "work" /\ hand # <<>> => Block(hand) /\ DoneBefore(hand[1])

(* StoredHasNoGaps, for the alerts that still wait for the writer.         *)
QueuedHasNoGaps ==
    \A i \in 1..Len(alertQ) :
        alertQ[i] # STOP =>
            \A k \in (Firing \cap 1..alertQ[i]) \ missed :
                k \in Elems(stored) \/ \E j \in 1..i : alertQ[j] = k

PipelineInv == TypeOK /\ MainInOrder /\ UntilStopped /\ WorkInOrder
               /\ QueuedHasNoGaps /\ StoredHasNoGaps

-----------------------------------------------------------------------------
(* Facts about sequences.                                                  *)
LEMMA TailFacts ==
    ASSUME NEW S, NEW s \in Seq(S), s # <<>>
    PROVE  /\ Head(s) = s[1] /\ s[1] \in S /\ Len(s) \in Nat \ {0}
           /\ Tail(s) \in Seq(S) /\ Len(Tail(s)) = Len(s) - 1
           /\ \A i \in 1..(Len(s) - 1) : Tail(s)[i] = s[i + 1]
           /\ Tail(s) = <<>> <=> Len(s) = 1
<1>1. Len(s) \in Nat \ {0} /\ Head(s) = s[1]
  BY EmptySeq
<1>2. /\ Head(s) \in S /\ Tail(s) \in Seq(S) /\ Len(Tail(s)) = Len(s) - 1
      /\ \A i \in 1..Len(Tail(s)) : Tail(s)[i] = s[i + 1]
  BY HeadTailProperties
<1>3. Tail(s) = <<>> <=> Len(Tail(s)) = 0
  BY <1>2, EmptySeq
<1> QED
  BY <1>1, <1>2, <1>3

LEMMA TailElems ==
    ASSUME NEW S, NEW s \in Seq(S), s # <<>>
    PROVE  Elems(s) = {Head(s)} \cup Elems(Tail(s))
<1>1. Len(s) \in Nat \ {0} /\ Head(s) = s[1] /\ Len(Tail(s)) = Len(s) - 1
  BY TailFacts
<1>2. \A i \in 1..(Len(s) - 1) : Tail(s)[i] = s[i + 1]
  BY TailFacts
<1>3. ASSUME NEW i \in 1..Len(s) PROVE s[i] \in {Head(s)} \cup Elems(Tail(s))
  <2>1. CASE i = 1
    BY <1>1, <2>1
  <2>2. CASE i # 1
    <3>1. i - 1 \in 1..(Len(s) - 1) /\ (i - 1) + 1 = i
      BY <1>1, <2>2
    <3>2. Tail(s)[i - 1] = s[i]
      BY <1>2, <3>1
    <3> QED
      BY <1>1, <3>1, <3>2 DEF Elems
  <2> QED
    BY <2>1, <2>2
<1>4. ASSUME NEW i \in 1..Len(Tail(s)) PROVE Tail(s)[i] \in Elems(s)
  <2>1. i + 1 \in 1..Len(s) /\ Tail(s)[i] = s[i + 1]
    BY <1>1, <1>2
  <2> QED
    BY <2>1 DEF Elems
<1>5. Head(s) \in Elems(s)
  BY <1>1 DEF Elems
<1>6. Elems(s) \subseteq {Head(s)} \cup Elems(Tail(s))
  BY <1>3 DEF Elems
<1>7. Elems(Tail(s)) \subseteq Elems(s)
  BY <1>4 DEF Elems
<1> QED
  BY <1>5, <1>6, <1>7

LEMMA AppendElems ==
    ASSUME NEW S, NEW s \in Seq(S), NEW e \in S
    PROVE  Elems(Append(s, e)) = Elems(s) \cup {e}
<1>1. Len(Append(s, e)) = Len(s) + 1 /\ Len(s) \in Nat
  BY AppendProperties
<1>2. /\ \A i \in 1..Len(s) : Append(s, e)[i] = s[i]
      /\ Append(s, e)[Len(s) + 1] = e
  BY AppendProperties
<1>3. 1..(Len(s) + 1) = (1..Len(s)) \cup {Len(s) + 1}
  BY <1>1
<1>4. Elems(Append(s, e)) = {Append(s, e)[i] : i \in (1..Len(s)) \cup {Len(s) + 1}}
  BY <1>1, <1>3 DEF Elems
<1> QED
  BY <1>2, <1>4 DEF Elems

(* A block without its first task is a block that begins one later.        *)
LEMMA BlockTail ==
    ASSUME NEW b \in Seq(Nat), Block(b)
    PROVE  /\ b # <<>> /\ b[1] \in Nat /\ Len(b) \in Nat \ {0}
           /\ Tail(b) = <<>> => After(b) = b[1] + 1
           /\ Tail(b) # <<>> => /\ Block(Tail(b)) /\ Tail(b)[1] = b[1] + 1
                                /\ After(Tail(b)) = After(b)
<1> DEFINE t == Tail(b)
<1>1. /\ b # <<>> /\ b[1] \in Nat /\ Len(b) \in Nat \ {0}
      /\ Len(t) = Len(b) - 1 /\ (t = <<>> <=> Len(b) = 1)
  BY TailFacts DEF Block
<1>2. \A i \in 1..(Len(b) - 1) : t[i] = b[i + 1]
  BY <1>1, TailFacts
<1> HIDE DEF t
<1>3. \A i \in 1..Len(b) : b[i] + 1 = b[1] + i /\ b[i] \in Nat
  BY ElementOfSeq DEF Block
<1>4. ASSUME t = <<>> PROVE After(b) = b[1] + 1
  BY <1>1, <1>4 DEF After
<1>5. ASSUME t # <<>> PROVE Block(t) /\ t[1] = b[1] + 1 /\ After(t) = After(b)
  <2>1. 1 \in 1..(Len(b) - 1) /\ 2 \in 1..Len(b)
    BY <1>1, <1>5
  <2>2. t[1] = b[2] /\ b[2] + 1 = b[1] + 2 /\ b[2] \in Nat
    BY <1>2, <1>3, <2>1
  <2>3. t[1] = b[1] + 1
    BY <1>1, <2>2
  <2>4. ASSUME NEW i \in 1..Len(t) PROVE t[i] + 1 = t[1] + i
    <3>1. i \in 1..(Len(b) - 1) /\ i + 1 \in 1..Len(b)
      BY <1>1
    <3>2. t[i] = b[i + 1] /\ b[i + 1] + 1 = b[1] + (i + 1) /\ b[i + 1] \in Nat
      BY <1>2, <1>3, <3>1
    <3>3. i \in Nat
      BY <3>1, <1>1
    <3>4. t[i] + 1 = b[1] + (i + 1)
      BY <3>2
    <3>5. t[1] + i = (b[1] + 1) + i
      BY <2>3
    <3>6. \A x, y \in Nat : x + (y + 1) = (x + 1) + y
      OBVIOUS
    <3>7. b[1] + (i + 1) = (b[1] + 1) + i
      BY <1>1, <3>3, <3>6
    <3> QED
      BY <3>4, <3>5, <3>7
  <2>5. After(t) = After(b)
    BY <1>1, <2>3 DEF After
  <2> QED
    BY <1>1, <1>5, <2>3, <2>4, <2>5 DEF Block, STOP
<1> QED
  BY <1>1, <1>4, <1>5 DEF t

(* The tasks of a block lie before the one that follows it.                *)
LEMMA BlockElems ==
    ASSUME NEW b \in Seq(Nat), Block(b), NEW k \in Nat, b[1] <= k, k < After(b)
    PROVE  k \in Elems(b)
<1>1. b[1] \in Nat /\ Len(b) \in Nat \ {0}
  BY BlockTail
<1> DEFINE i == k - b[1] + 1
<1>2. i \in 1..Len(b)
  BY <1>1 DEF After
<1>3. b[i] + 1 = b[1] + i /\ b[i] \in Nat
  BY <1>2, ElementOfSeq DEF Block
<1>4. b[i] = k
  BY <1>1, <1>3
<1> QED
  BY <1>2, <1>4 DEF Elems

-----------------------------------------------------------------------------
(* Main puts local_batch on task_queue.                                    *)
LEMMA PutBatch ==
    ASSUME TypeOK, MainInOrder, local # <<>>,
           taskQ' = Append(taskQ, local), local' = <<>>, next' = next
    PROVE  /\ taskQ' \in Seq(Seq(Nat)) /\ local' \in Seq(Nat)
           /\ LocalFrom' = next /\ Len(local') = 0
           /\ QueueInOrder => QueueInOrder' /\ Front' = Front
<1>1. /\ taskQ \in Seq(Seq(Nat)) /\ local \in Seq(Nat) /\ next \in Nat \ {0}
      /\ Len(taskQ) \in Nat /\ Len(local) \in Nat \ {0} /\ local[1] \in Nat
  BY TailFacts DEF TypeOK
<1>2. /\ taskQ' \in Seq(Seq(Nat)) /\ Len(taskQ') = Len(taskQ) + 1 /\ taskQ' # <<>>
      /\ \A j \in 1..Len(taskQ) : taskQ'[j] = taskQ[j]
      /\ taskQ'[Len(taskQ) + 1] = local
  BY <1>1, AppendProperties
<1>3. Len(local') = 0 /\ local' \in Seq(Nat) /\ LocalFrom' = next
  BY <1>1, EmptySeq DEF LocalFrom
<1>4. LocalFrom \in Nat /\ LocalFrom + Len(local) = next
  BY <1>1 DEF LocalFrom, MainInOrder
<1>5. local[1] = LocalFrom
  <2>1. 1 \in 1..Len(local)
    BY <1>1
  <2>2. local[1] + 1 = LocalFrom + 1
    BY <2>1 DEF MainInOrder
  <2> QED
    BY <1>1, <1>4, <2>2
<1>6. Block(local) /\ After(local) = next
  <2>1. After(local) = next
    BY <1>4, <1>5 DEF After
  <2>2. local[1] # STOP
    BY <1>1, <1>4, <1>5 DEF MainInOrder, STOP
  <2> QED
    BY <1>5, <2>1, <2>2 DEF Block, MainInOrder
<1>8. Front' = taskQ'[1][1]
  BY <1>2 DEF Front
<1>7. ASSUME QueueInOrder PROVE QueueInOrder' /\ Front' = Front
  <2>1. ASSUME NEW j \in 1..Len(taskQ')
        PROVE  /\ Block(taskQ'[j])
               /\ After(taskQ'[j]) = IF j < Len(taskQ') THEN taskQ'[j + 1][1] ELSE LocalFrom'
    <3>1. CASE j = Len(taskQ) + 1
      <4>1. ~(j < Len(taskQ')) /\ taskQ'[j] = local
        BY <1>1, <1>2, <3>1
      <4> QED
        BY <1>3, <1>6, <4>1
    <3>2. CASE j = Len(taskQ)
      <4>1. j \in 1..Len(taskQ) /\ j < Len(taskQ') /\ ~(j < Len(taskQ)) /\ taskQ'[j] = taskQ[j]
            /\ taskQ'[j + 1] = local
        BY <1>1, <1>2, <3>2
      <4>2. Block(taskQ[j]) /\ After(taskQ[j]) = LocalFrom
        BY <1>7, <4>1 DEF QueueInOrder
      <4> QED
        BY <1>5, <4>1, <4>2
    <3>3. CASE j < Len(taskQ)
      <4>1. j \in 1..Len(taskQ) /\ j + 1 \in 1..Len(taskQ) /\ j < Len(taskQ')
        BY <1>1, <1>2, <3>3
      <4>2. taskQ'[j] = taskQ[j] /\ taskQ'[j + 1] = taskQ[j + 1]
        BY <1>2, <4>1
      <4>3. Block(taskQ[j]) /\ After(taskQ[j]) = taskQ[j + 1][1]
        BY <1>7, <3>3, <4>1 DEF QueueInOrder
      <4> QED
        BY <4>1, <4>2, <4>3
    <3> QED
      BY <1>1, <1>2, <3>1, <3>2, <3>3
  <2>2. QueueInOrder'
    BY <2>1 DEF QueueInOrder, Block, After
  <2>3. CASE taskQ = <<>>
    <3>1. Len(taskQ) = 0 /\ taskQ'[1] = local
      BY <1>2, <2>3
    <3>2. Front = LocalFrom
      BY <2>3 DEF Front
    <3> QED
      BY <1>5, <2>2, <3>1, <3>2, <1>8
  <2>4. CASE taskQ # <<>>
    <3>1. 1 \in 1..Len(taskQ)
      BY <1>1, <2>4, TailFacts
    <3>2. Front = taskQ[1][1]
      BY <2>4 DEF Front
    <3> QED
      BY <1>2, <1>8, <2>2, <3>1, <3>2
  <2> QED
    BY <2>2, <2>3, <2>4
<1> QED
  BY <1>2, <1>3, <1>7

(* The worker takes the first batch of task_queue.                         *)
LEMMA TakeBatch ==
    ASSUME TypeOK, QueueInOrder, taskQ # <<>>, taskQ' = Tail(taskQ),
           UNCHANGED <<local, next>>
    PROVE  QueueInOrder' /\ Block(taskQ[1]) /\ After(taskQ[1]) = Front'
<1>1. /\ taskQ[1] \in Seq(Nat) /\ Len(taskQ) \in Nat \ {0} /\ Len(taskQ') = Len(taskQ) - 1
      /\ taskQ' = <<>> <=> Len(taskQ) = 1
  BY TailFacts DEF TypeOK
<1>2. \A j \in 1..(Len(taskQ) - 1) : taskQ'[j] = taskQ[j + 1]
  BY TailFacts DEF TypeOK
<1>3. LocalFrom' = LocalFrom
  BY DEF LocalFrom
<1>4. ASSUME NEW j \in 1..Len(taskQ')
      PROVE  /\ Block(taskQ'[j])
             /\ After(taskQ'[j]) = IF j < Len(taskQ') THEN taskQ'[j + 1][1] ELSE LocalFrom'
  <2>1. j \in 1..(Len(taskQ) - 1) /\ j + 1 \in 1..Len(taskQ)
    BY <1>1
  <2>2. taskQ'[j] = taskQ[j + 1]
    BY <1>2, <2>1
  <2>3. /\ Block(taskQ[j + 1])
        /\ After(taskQ[j + 1]) = IF j + 1 < Len(taskQ) THEN taskQ[(j + 1) + 1][1] ELSE LocalFrom
    BY <2>1 DEF QueueInOrder
  <2>4. CASE j < Len(taskQ')
    <3>1. j + 1 < Len(taskQ) /\ j + 1 \in 1..(Len(taskQ) - 1)
      BY <1>1, <2>1, <2>4
    <3>2. taskQ'[j + 1] = taskQ[(j + 1) + 1]
      BY <1>2, <3>1
    <3> QED
      BY <2>2, <2>3, <2>4, <3>1, <3>2
  <2>5. CASE ~(j < Len(taskQ'))
    <3>1. ~(j + 1 < Len(taskQ))
      BY <1>1, <2>1, <2>5
    <3> QED
      BY <1>3, <2>2, <2>3, <2>5, <3>1
  <2> QED
    BY <2>4, <2>5
<1>5. QueueInOrder'
  BY <1>4 DEF QueueInOrder, Block, After
<1>6. Block(taskQ[1]) /\ After(taskQ[1]) = IF 1 < Len(taskQ) THEN taskQ[2][1] ELSE LocalFrom
  <2>1. 1 \in 1..Len(taskQ) /\ 1 + 1 = 2
    BY <1>1
  <2> QED
    BY <2>1 DEF QueueInOrder
<1>7. After(taskQ[1]) = Front'
  <2>1. CASE Len(taskQ) = 1
    BY <1>1, <1>3, <1>6, <2>1 DEF Front
  <2>2. CASE Len(taskQ) # 1
    <3>1. 1 < Len(taskQ) /\ 1 \in 1..(Len(taskQ) - 1) /\ taskQ' # <<>>
      BY <1>1, <2>2
    <3>2. taskQ'[1] = taskQ[2]
      BY <1>2, <3>1
    <3> QED
      BY <1>6, <3>1, <3>2 DEF Front
  <2> QED
    BY <2>1, <2>2
<1> QED
  BY <1>5, <1>6, <1>7

(* What is done stays done while alerts only move on.                      *)
LEMMA DoneStays ==
    ASSUME \A k \in Firing : k \in Elems(stored) \cup Elems(alertQ)
                               => k \in Elems(stored') \cup Elems(alertQ'),
           missed \subseteq missed'
    PROVE  \A n : DoneBefore(n) => DoneBefore(n)'
  BY DEF DoneBefore, Elems

-----------------------------------------------------------------------------
(* The steps that move no task and no alert.                               *)
LEMMA QuietStep ==
    ASSUME PipelineInv, UNCHANGED <<next, local, taskQ, hand, alertQ, stored, missed>>,
           TypeOK', MainInOrder', ~stopSet' => ~stopSet,
           worker' = "work" => worker = "work" \/ ~stopSet
    PROVE  PipelineInv'
<1>1. \A n : DoneBefore(n) => DoneBefore(n)'
  BY DoneStays
<1>2. Front' = Front /\ (QueueInOrder => QueueInOrder')
  BY DEF Front, LocalFrom, QueueInOrder, Block, After
<1>3. UntilStopped'
  BY <1>1, <1>2 DEF PipelineInv, UntilStopped, Block, After
<1>4. WorkInOrder'
  BY <1>1 DEF PipelineInv, UntilStopped, WorkInOrder, Block
<1>5. QueuedHasNoGaps' /\ StoredHasNoGaps'
  BY DEF PipelineInv, QueuedHasNoGaps, StoredHasNoGaps, Elems
<1> QED
  BY <1>3, <1>4, <1>5 DEF PipelineInv

(* The steps of main that move tasks: alerts and the worker stay as they   *)
(* are, and before the stop the front of the queue does too.               *)
LEMMA MainMoves ==
    ASSUME PipelineInv, UNCHANGED <<worker, hand, alertQ, stored, missed, stopSet>>,
           TypeOK', MainInOrder',
           ~stopSet => Front' = Front /\ QueueInOrder'
    PROVE  PipelineInv'
<1>1. \A n : DoneBefore(n) => DoneBefore(n)'
  BY DoneStays
<1>2. UntilStopped'
  BY <1>1 DEF PipelineInv, UntilStopped, Block, After
<1>3. WorkInOrder'
  BY <1>1 DEF PipelineInv, WorkInOrder, Block
<1>4. QueuedHasNoGaps' /\ StoredHasNoGaps'
  BY DEF PipelineInv, QueuedHasNoGaps, StoredHasNoGaps, Elems
<1> QED
  BY <1>2, <1>3, <1>4 DEF PipelineInv

LEMMA FireTaskInv == ASSUME PipelineInv, FireTask PROVE PipelineInv'
<1>1. /\ main = "run" /\ next' = next + 1 /\ local' = Append(local, next)
      /\ main' \in {"run", "put"}
      /\ UNCHANGED <<taskQ, stopSet, worker, hand, alertQ, db, stored, missed, stopRefused>>
  BY DEF FireTask, workVars, dbVars, history
<1>2. TypeOK /\ MainInOrder
  BY DEF PipelineInv
<1>3. /\ local' \in Seq(Nat) /\ local' # <<>> /\ Len(local') = Len(local) + 1
      /\ \A i \in 1..Len(local) : local'[i] = local[i]
      /\ local'[Len(local) + 1] = next
      /\ Len(local) \in Nat /\ next \in Nat
  <2>1. local \in Seq(Nat) /\ next \in Nat /\ Len(local) \in Nat
    BY <1>2 DEF TypeOK
  <2> QED
    BY <1>1, <2>1, AppendProperties
<1>4. LocalFrom' = LocalFrom /\ LocalFrom \in Nat /\ LocalFrom + Len(local) = next
  BY <1>1, <1>2, <1>3 DEF LocalFrom, MainInOrder
<1>5. TypeOK'
  <2>1. next' \in Nat \ {0}
    BY <1>1, <1>3
  <2> QED
    BY <1>1, <1>2, <1>3, <2>1 DEF TypeOK, MainStates
<1>6. MainInOrder'
  <2>1. ASSUME NEW i \in 1..Len(local') PROVE local'[i] + 1 = LocalFrom' + i
    <3>1. CASE i \in 1..Len(local)
      BY <1>2, <1>3, <1>4, <3>1 DEF MainInOrder
    <3>2. CASE i = Len(local) + 1
      <4>1. local'[i] = next
        BY <1>3, <3>2
      <4>2. next + 1 = LocalFrom + (Len(local) + 1)
        BY <1>3, <1>4
      <4> QED
        BY <1>4, <3>2, <4>1, <4>2
    <3> QED
      BY <1>3, <3>1, <3>2
  <2>2. Len(local') < next'
    BY <1>1, <1>2, <1>3 DEF MainInOrder
  <2>3. (worker' \in {"get", "waiting"} => hand' = <<>>) /\ main' \in {"run", "put"}
    BY <1>1, <1>2 DEF MainInOrder
  <2> QED
    BY <1>3, <2>1, <2>2, <2>3 DEF MainInOrder
<1>7. Front' = Front /\ (QueueInOrder => QueueInOrder')
  BY <1>1, <1>4 DEF Front, QueueInOrder, Block, After
<1> QED
  BY <1>1, <1>5, <1>6, <1>7, MainMoves DEF PipelineInv, UntilStopped

(* PutLocal, and PlanEnds with a partly full batch.                        *)
LEMMA PutInv ==
    ASSUME PipelineInv, local # <<>>, taskQ' = Append(taskQ, local), local' = <<>>,
           main' \in {"run", "stop"},
           UNCHANGED <<next, stopSet, worker, hand, alertQ, db, stored, missed, stopRefused>>
    PROVE  PipelineInv'
<1>1. TypeOK /\ MainInOrder
  BY DEF PipelineInv
<1>2. /\ taskQ' \in Seq(Seq(Nat)) /\ local' \in Seq(Nat)
      /\ LocalFrom' = next /\ Len(local') = 0
      /\ QueueInOrder => QueueInOrder' /\ Front' = Front
  BY <1>1, PutBatch
<1>3. TypeOK'
  BY <1>1, <1>2 DEF TypeOK, MainStates
<1>4. MainInOrder'
  <2>1. Len(local') < next' /\ next' \in Nat \ {0}
    BY <1>1, <1>2 DEF TypeOK
  <2>2. 1..Len(local') = {}
    BY <1>2
  <2>3. worker' \in {"get", "waiting"} => hand' = <<>>
    BY <1>1 DEF MainInOrder
  <2> QED
    BY <2>1, <2>2, <2>3 DEF MainInOrder
<1> QED
  BY <1>2, <1>3, <1>4, MainMoves DEF PipelineInv, UntilStopped

LEMMA PutLocalInv == ASSUME PipelineInv, PutLocal PROVE PipelineInv'
<1>1. main = "put" /\ local # <<>>
  BY DEF PutLocal, PipelineInv, MainInOrder
<1> QED
  BY <1>1, PutInv DEF PutLocal, workVars, dbVars, history

LEMMA PlanEndsInv == ASSUME PipelineInv, PlanEnds PROVE PipelineInv'
<1>1. CASE local # <<>>
  BY <1>1, PutInv DEF PlanEnds, workVars, dbVars, history
<1>2. CASE local = <<>>
  <2>1. /\ main' = "stop"
        /\ UNCHANGED <<next, local, taskQ, hand, alertQ, stored, missed>>
        /\ UNCHANGED <<stopSet, worker, db, stopRefused>>
    BY <1>2 DEF PlanEnds, workVars, dbVars, history
  <2>2. TypeOK' /\ MainInOrder'
    BY <2>1 DEF PipelineInv, TypeOK, MainStates, MainInOrder, LocalFrom
  <2> QED
    BY <2>1, <2>2, QuietStep
<1> QED
  BY <1>1, <1>2

LEMMA SetStopInv == ASSUME PipelineInv, SetStop \/ StopSignal PROVE PipelineInv'
<1>1. /\ main' \in {main, "drain"} /\ stopSet' = TRUE
      /\ UNCHANGED <<next, local, taskQ, hand, alertQ, stored, missed>>
      /\ UNCHANGED <<worker, db, stopRefused>>
  BY DEF SetStop, StopSignal, mainVars, workVars, dbVars, history
<1>2. TypeOK'
  BY <1>1 DEF PipelineInv, TypeOK, MainStates
<1>3. MainInOrder'
  BY <1>1 DEF PipelineInv, MainInOrder, LocalFrom
<1> QED
  BY <1>1, <1>2, <1>3, QuietStep

(* After the event is set the queue may be emptied from its front.         *)
LEMMA DrainInv == ASSUME PipelineInv, Drain PROVE PipelineInv'
<1>1. /\ main = "drain" /\ main' \in {"drain", "joinWorker"}
      /\ UNCHANGED <<next, local, stopSet, worker, hand, alertQ, db, stored, missed, stopRefused>>
      /\ \/ taskQ # <<>> /\ taskQ' = Tail(taskQ)
         \/ taskQ' = <<<<STOP>>>>
  BY DEF Drain, workVars, dbVars, history
<1>2. stopSet
  BY <1>1 DEF PipelineInv, MainInOrder
<1>3. taskQ' \in Seq(Seq(Nat))
  <2>1. taskQ \in Seq(Seq(Nat))
    BY DEF PipelineInv, TypeOK
  <2>2. CASE taskQ # <<>> /\ taskQ' = Tail(taskQ)
    BY <2>1, <2>2, TailFacts
  <2>3. CASE taskQ' = <<<<STOP>>>>
    BY <2>3 DEF STOP
  <2> QED
    BY <1>1, <2>2, <2>3
<1>4. TypeOK' /\ MainInOrder'
  BY <1>1, <1>2, <1>3 DEF PipelineInv, TypeOK, MainStates, MainInOrder, LocalFrom
<1> QED
  BY <1>1, <1>2, <1>4, MainMoves

LEMMA JoinInv == ASSUME PipelineInv, JoinWorker \/ JoinDb PROVE PipelineInv'
<1>1. /\ main \in {"joinWorker", "joinDb"} /\ main' \in {"stopDb", "done"}
      /\ UNCHANGED <<next, local, taskQ, hand, alertQ, stored, missed>>
      /\ UNCHANGED <<stopSet, worker, db, stopRefused>>
  BY DEF JoinWorker, JoinDb, workVars, dbVars, history
<1>2. TypeOK' /\ MainInOrder'
  BY <1>1 DEF PipelineInv, TypeOK, MainStates, MainInOrder, LocalFrom
<1> QED
  BY <1>1, <1>2, QuietStep

-----------------------------------------------------------------------------
(* An item is put on alert_queue: the "STOP", or the alert of a task all   *)
(* before which is done.                                                   *)
LEMMA QueueGrows ==
    ASSUME TypeOK, QueuedHasNoGaps, StoredHasNoGaps, NEW x \in Nat,
           alertQ' = Append(alertQ, x), UNCHANGED <<stored, missed>>,
           x # STOP => DoneBefore(x)
    PROVE  /\ alertQ' \in Seq(Nat) /\ Elems(alertQ') = Elems(alertQ) \cup {x}
           /\ QueuedHasNoGaps' /\ StoredHasNoGaps'
<1>1. /\ alertQ' \in Seq(Nat) /\ Len(alertQ') = Len(alertQ) + 1 /\ Len(alertQ) \in Nat
      /\ \A i \in 1..Len(alertQ) : alertQ'[i] = alertQ[i]
      /\ alertQ'[Len(alertQ) + 1] = x
  BY AppendProperties DEF TypeOK
<1>2. Elems(alertQ') = Elems(alertQ) \cup {x}
  BY AppendElems DEF TypeOK
<1>3. StoredHasNoGaps'
  BY DEF StoredHasNoGaps
<1>4. ASSUME NEW i \in 1..Len(alertQ'), alertQ'[i] # STOP,
             NEW k \in (Firing \cap 1..alertQ'[i]) \ missed
      PROVE  k \in Elems(stored) \/ \E j \in 1..i : alertQ'[j] = k
  <2>1. CASE i \in 1..Len(alertQ)
    <3>1. k \in Elems(stored) \/ \E j \in 1..i : alertQ[j] = k
      BY <1>1, <1>4, <2>1 DEF QueuedHasNoGaps
    <3>2. \A j \in 1..i : alertQ'[j] = alertQ[j]
      BY <1>1, <2>1
    <3> QED
      BY <3>1, <3>2
  <2>2. CASE i = Len(alertQ) + 1
    <3>1. x # STOP /\ k <= x /\ k \in Nat /\ alertQ'[i] = x
      BY <1>1, <1>4, <2>2
    <3>2. CASE k = x
      BY <1>1, <2>2, <3>1, <3>2
    <3>3. CASE k # x
      <4>1. k \in Elems(stored) \cup Elems(alertQ)
        BY <1>4, <3>1, <3>3 DEF DoneBefore
      <4>2. ASSUME k \in Elems(alertQ) PROVE \E j \in 1..i : alertQ'[j] = k
        <5>1. PICK j \in 1..Len(alertQ) : alertQ[j] = k
          BY <4>2 DEF Elems
        <5>2. j \in 1..i /\ alertQ'[j] = k
          BY <1>1, <2>2, <5>1
        <5> QED
          BY <5>2
      <4> QED
        BY <4>1, <4>2
    <3> QED
      BY <3>2, <3>3
  <2> QED
    BY <1>1, <2>1, <2>2
<1>5. QueuedHasNoGaps'
  BY <1>4 DEF QueuedHasNoGaps, Elems
<1> QED
  BY <1>1, <1>2, <1>3, <1>5

LEMMA StopDbInv == ASSUME PipelineInv, StopDb PROVE PipelineInv'
<1>1. /\ main = "stopDb" /\ main' = "joinDb"
      /\ UNCHANGED <<next, local, taskQ, hand, stored, missed, stopSet, worker, db>>
      /\ alertQ' = Append(alertQ, STOP) \/ alertQ' = alertQ
      /\ stopRefused' \in {stopRefused, TRUE}
  BY DEF StopDb, workVars, dbVars
<1>2. stopSet
  BY <1>1 DEF PipelineInv, MainInOrder
<1>3. /\ alertQ' \in Seq(Nat) /\ Elems(alertQ) \subseteq Elems(alertQ')
      /\ QueuedHasNoGaps' /\ StoredHasNoGaps'
  <2>1. CASE alertQ' = alertQ
    BY <1>1, <2>1 DEF PipelineInv, TypeOK, QueuedHasNoGaps, StoredHasNoGaps, Elems
  <2>2. CASE alertQ' = Append(alertQ, STOP)
    BY <1>1, <2>2, QueueGrows DEF PipelineInv, STOP
  <2> QED
    BY <1>1, <2>1, <2>2
<1>4. TypeOK' /\ MainInOrder'
  BY <1>1, <1>2, <1>3 DEF PipelineInv, TypeOK, MainStates, MainInOrder, LocalFrom
<1>5. \A n : DoneBefore(n) => DoneBefore(n)'
  BY <1>1, <1>3, DoneStays
<1>6. UntilStopped' /\ WorkInOrder'
  BY <1>1, <1>2, <1>5 DEF PipelineInv, UntilStopped, WorkInOrder, Block
<1> QED
  BY <1>3, <1>4, <1>6 DEF PipelineInv

-----------------------------------------------------------------------------
(* The worker between batches.                                             *)
LEMMA WorkerGetInv == ASSUME PipelineInv, WorkerGet \/ BatchDone PROVE PipelineInv'
<1>1. /\ worker \in {"get", "work"} /\ hand = <<>> /\ worker' \in {"get", "waiting", "done"}
      /\ UNCHANGED <<next, local, taskQ, hand, alertQ, stored, missed>>
      /\ UNCHANGED <<main, stopSet, db, stopRefused>>
  BY DEF WorkerGet, BatchDone, mainVars, dbVars, history, PipelineInv, MainInOrder
<1>2. TypeOK' /\ MainInOrder'
  BY <1>1 DEF PipelineInv, TypeOK, MainInOrder, LocalFrom
<1> QED
  BY <1>1, <1>2, QuietStep

LEMMA WorkerGotInv == ASSUME PipelineInv, WorkerGot PROVE PipelineInv'
<1>1. /\ worker = "waiting" /\ hand = <<>>
      /\ UNCHANGED <<main, next, local, stopSet, alertQ, db, stored, missed, stopRefused>>
  BY DEF WorkerGot, mainVars, dbVars, history, PipelineInv, MainInOrder
<1>2. CASE worker' = "get" /\ UNCHANGED <<hand, taskQ>>
  <2>1. TypeOK' /\ MainInOrder'
    BY <1>1, <1>2 DEF PipelineInv, TypeOK, MainInOrder, LocalFrom
  <2> QED
    BY <1>1, <1>2, <2>1, QuietStep
<1>3. CASE taskQ # <<>> /\ hand' = Head(taskQ) /\ taskQ' = Tail(taskQ) /\ worker' = "got"
  <2>1. TypeOK /\ taskQ \in Seq(Seq(Nat)) /\ taskQ # <<>>
    BY <1>3 DEF PipelineInv, TypeOK
  <2>2. hand' = taskQ[1] /\ hand' \in Seq(Nat) /\ taskQ' \in Seq(Seq(Nat))
    BY <1>3, <2>1, TailFacts
  <2>3. TypeOK' /\ MainInOrder'
    BY <1>1, <1>3, <2>2 DEF PipelineInv, TypeOK, MainInOrder, LocalFrom
  <2>4. \A n : DoneBefore(n) => DoneBefore(n)'
    BY <1>1, DoneStays
  <2>5. UntilStopped'
    <3>1. SUFFICES ASSUME ~stopSet PROVE UntilStopped'
      BY <1>1 DEF UntilStopped
    <3>2. QueueInOrder /\ DoneBefore(Front)
      BY <1>1, <3>1 DEF PipelineInv, UntilStopped
    <3>3. QueueInOrder' /\ Block(taskQ[1]) /\ After(taskQ[1]) = Front'
      BY <1>1, <1>3, <2>1, <3>2, TakeBatch
    <3>4. Front = taskQ[1][1]
      BY <2>1 DEF Front
    <3>5. DoneBefore(taskQ[1][1])
      BY <3>2, <3>4
    <3>6. Block(hand') /\ After(hand') = Front' /\ DoneBefore(hand[1])'
      BY <2>2, <2>4, <3>3, <3>5
    <3>7. hand' # <<>>
      BY <3>6 DEF Block
    <3> QED
      BY <3>3, <3>6, <3>7 DEF UntilStopped, Block, After
  <2>6. WorkInOrder' /\ QueuedHasNoGaps' /\ StoredHasNoGaps'
    BY <1>1, <1>3 DEF PipelineInv, WorkInOrder, QueuedHasNoGaps, StoredHasNoGaps, Elems
  <2> QED
    BY <2>3, <2>5, <2>6 DEF PipelineInv
<1> QED
  BY <1>2, <1>3 DEF WorkerGot

(* A batch taken after the event was set is left undone.                   *)
LEMMA WorkerCheckInv == ASSUME PipelineInv, WorkerCheck PROVE PipelineInv'
<1>1. /\ worker = "got"
      /\ UNCHANGED <<main, next, local, taskQ, stopSet, alertQ, db, stored, missed, stopRefused>>
  BY DEF WorkerCheck, mainVars, dbVars, history
<1>2. CASE ~WorkerBreaks
  <2>1. worker' = "work" /\ hand' = hand /\ ~stopSet
    BY <1>2 DEF WorkerCheck, WorkerBreaks
  <2>2. TypeOK' /\ MainInOrder'
    BY <1>1, <2>1 DEF PipelineInv, TypeOK, MainInOrder, LocalFrom
  <2> QED
    BY <1>1, <2>1, <2>2, QuietStep
<1>3. CASE WorkerBreaks
  <2>1. worker' = "done" /\ hand' = <<>>
    BY <1>3 DEF WorkerCheck
  <2>2. TypeOK' /\ MainInOrder'
    BY <1>1, <2>1, EmptySeq DEF PipelineInv, TypeOK, MainInOrder, LocalFrom
  <2>3. stopSet
    <3>1. SUFFICES ASSUME ~stopSet, hand = <<STOP>> PROVE FALSE
      BY <1>3 DEF WorkerBreaks, IsStop
    <3>2. Block(hand)
      BY <3>1 DEF PipelineInv, UntilStopped
    <3> QED
      BY <3>1, <3>2 DEF Block
  <2>4. UntilStopped' /\ WorkInOrder' /\ QueuedHasNoGaps' /\ StoredHasNoGaps'
    BY <1>1, <2>1, <2>3 DEF PipelineInv, UntilStopped, WorkInOrder, QueuedHasNoGaps,
                            StoredHasNoGaps, Elems
  <2> QED
    BY <2>2, <2>4 DEF PipelineInv
<1> QED
  BY <1>2, <1>3

(* The step from one task to the next of the batch in hand.                *)
LEMMA HandMoves ==
    ASSUME PipelineInv, worker = "work", hand # <<>>, hand' = Tail(hand),
           UNCHANGED <<main, next, local, taskQ, stopSet, worker, db, stored, stopRefused>>,
           alertQ' \in Seq(Nat), missed' \subseteq Nat, missed \subseteq missed',
           Elems(alertQ) \subseteq Elems(alertQ'),
           hand[1] \in Firing \ missed' => hand[1] \in Elems(alertQ'),
           QueuedHasNoGaps', StoredHasNoGaps'
    PROVE  PipelineInv'
<1>1. Block(hand) /\ DoneBefore(hand[1]) /\ hand \in Seq(Nat)
  BY DEF PipelineInv, WorkInOrder, TypeOK
<1>2. /\ hand[1] \in Nat /\ hand' \in Seq(Nat)
      /\ hand' = <<>> => After(hand) = hand[1] + 1
      /\ hand' # <<>> => Block(hand') /\ hand'[1] = hand[1] + 1 /\ After(hand') = After(hand)
  BY <1>1, BlockTail, TailFacts
<1>4. \A k \in Firing : k < hand[1] + 1 /\ k \notin missed' => k \in Elems(stored') \cup Elems(alertQ')
  <2>1. SUFFICES ASSUME NEW k \in Firing, k < hand[1] + 1, k \notin missed'
                 PROVE  k \in Elems(stored') \cup Elems(alertQ')
    OBVIOUS
  <2>2. k \in Nat
    BY PipelineAssumption
  <2>3. k = hand[1] \/ k < hand[1]
    BY <1>2, <2>1, <2>2
  <2> QED
    BY <1>1, <2>1, <2>3 DEF DoneBefore
<1>5. TypeOK' /\ MainInOrder'
  BY <1>2 DEF PipelineInv, TypeOK, MainInOrder, LocalFrom
<1>6. Front' = Front /\ (QueueInOrder => QueueInOrder')
  BY DEF Front, LocalFrom, QueueInOrder, Block, After
<1>7. ASSUME hand' # <<>> PROVE Block(hand') /\ DoneBefore(hand[1])'
  BY <1>2, <1>4, <1>7 DEF DoneBefore, Elems
<1>8. UntilStopped'
  <2>1. SUFFICES ASSUME ~stopSet PROVE UntilStopped'
    BY DEF UntilStopped
  <2>2. QueueInOrder /\ After(hand) = Front
    BY <2>1 DEF PipelineInv, UntilStopped
  <2>3. CASE hand' = <<>>
    <3>1. Front' = hand[1] + 1
      BY <1>2, <1>6, <2>2, <2>3
    <3>2. DoneBefore(Front)'
      BY <1>4, <3>1 DEF DoneBefore, Elems
    <3> QED
      BY <1>6, <2>2, <2>3, <3>2 DEF UntilStopped
  <2>4. CASE hand' # <<>>
    <3>1. After(hand') = Front'
      BY <1>2, <1>6, <2>2, <2>4
    <3> QED
      BY <1>6, <1>7, <2>2, <2>4, <3>1 DEF UntilStopped, Block, After
  <2> QED
    BY <2>3, <2>4
<1>9. WorkInOrder'
  BY <1>7 DEF WorkInOrder, Block
<1> QED
  BY <1>5, <1>8, <1>9 DEF PipelineInv

(* Dropping more tasks asks for less.                                      *)
LEMMA DropKeeps ==
    ASSUME PipelineInv, UNCHANGED <<stored, alertQ>>, missed \subseteq missed'
    PROVE  QueuedHasNoGaps' /\ StoredHasNoGaps'
  BY DEF PipelineInv, QueuedHasNoGaps, StoredHasNoGaps, Elems

LEMMA WorkTaskInv == ASSUME PipelineInv, WorkTask PROVE PipelineInv'
<1>1. /\ worker = "work" /\ hand # <<>> /\ hand' = Tail(hand)
      /\ UNCHANGED <<main, next, local, taskQ, stopSet, worker, db, stored, stopRefused>>
  BY DEF WorkTask, mainVars, dbVars
<1>2. /\ Head(hand) = hand[1] /\ hand[1] \in Nat
      /\ TypeOK /\ QueuedHasNoGaps /\ StoredHasNoGaps /\ alertQ \in Seq(Nat) /\ missed \subseteq Nat
      /\ Block(hand) /\ DoneBefore(hand[1])
  BY <1>1, TailFacts DEF PipelineInv, TypeOK, WorkInOrder
<1>3. CASE hand[1] \notin Firing /\ UNCHANGED <<alertQ, missed>>
  <2>1. QueuedHasNoGaps' /\ StoredHasNoGaps'
    BY <1>1, <1>3, DropKeeps
  <2> QED
    BY <1>1, <1>2, <1>3, <2>1, HandMoves
<1>4. CASE alertQ' = Append(alertQ, hand[1]) /\ missed' = missed
  <2>1. /\ alertQ' \in Seq(Nat) /\ Elems(alertQ') = Elems(alertQ) \cup {hand[1]}
        /\ QueuedHasNoGaps' /\ StoredHasNoGaps'
    BY <1>1, <1>2, <1>4, QueueGrows
  <2> QED
    BY <1>1, <1>2, <1>4, <2>1, HandMoves
<1>5. CASE missed' = missed \cup {hand[1]} /\ alertQ' = alertQ
  <2>1. QueuedHasNoGaps' /\ StoredHasNoGaps'
    BY <1>1, <1>5, DropKeeps
  <2> QED
    BY <1>1, <1>2, <1>5, <2>1, HandMoves
<1> QED
  BY <1>2, <1>3, <1>4, <1>5 DEF WorkTask

LEMMA WorkErrorInv == ASSUME PipelineInv, WorkError PROVE PipelineInv'
<1>1. /\ worker = "work" /\ hand # <<>> /\ hand' = <<>> /\ missed' = missed \cup Elems(hand)
      /\ UNCHANGED <<main, next, local, taskQ, stopSet, worker, alertQ, db, stored, stopRefused>>
  BY DEF WorkError, mainVars, dbVars
<1>2. Block(hand) /\ DoneBefore(hand[1]) /\ hand \in Seq(Nat) /\ hand[1] \in Nat
  BY <1>1, TailFacts DEF PipelineInv, WorkInOrder, TypeOK
<1>3. Elems(hand) \subseteq Nat
  BY <1>2, ElementOfSeq DEF Elems
<1>4. QueuedHasNoGaps' /\ StoredHasNoGaps'
  BY <1>1, DropKeeps
<1>5. TypeOK' /\ MainInOrder'
  BY <1>1, <1>3, EmptySeq DEF PipelineInv, TypeOK, MainInOrder, LocalFrom
<1>6. Front' = Front /\ (QueueInOrder => QueueInOrder')
  BY <1>1 DEF Front, LocalFrom, QueueInOrder, Block, After
<1>7. \A k \in Firing : k < After(hand) /\ k \notin missed' => k \in Elems(stored) \cup Elems(alertQ)
  <2>1. SUFFICES ASSUME NEW k \in Firing, k < After(hand), k \notin missed'
                 PROVE  k \in Elems(stored) \cup Elems(alertQ)
    OBVIOUS
  <2>2. k \in Nat
    BY PipelineAssumption
  <2>3. k < hand[1]
    <3>1. SUFFICES ASSUME hand[1] <= k PROVE FALSE
      BY <1>2, <2>2
    <3>2. k \in Elems(hand)
      BY <1>2, <2>1, <2>2, <3>1, BlockElems
    <3> QED
      BY <1>1, <2>1, <3>2
  <2> QED
    BY <1>1, <1>2, <2>1, <2>3 DEF DoneBefore
<1>8. UntilStopped'
  <2>1. SUFFICES ASSUME ~stopSet PROVE UntilStopped'
    BY <1>1 DEF UntilStopped
  <2>2. QueueInOrder /\ After(hand) = Front
    BY <1>1, <2>1 DEF PipelineInv, UntilStopped
  <2>3. DoneBefore(Front)'
    BY <1>1, <1>6, <1>7, <2>2 DEF DoneBefore, Elems
  <2> QED
    BY <1>1, <1>6, <2>2, <2>3 DEF UntilStopped
<1>9. WorkInOrder'
  BY <1>1 DEF WorkInOrder
<1> QED
  BY <1>4, <1>5, <1>8, <1>9 DEF PipelineInv

-----------------------------------------------------------------------------
(* The writer.                                                             *)
LEMMA DbClearInv == ASSUME PipelineInv, DbClear PROVE PipelineInv'
<1>1. /\ db' \in {"get", "hung"}
      /\ UNCHANGED <<next, local, taskQ, hand, alertQ, stored, missed>>
      /\ UNCHANGED <<main, stopSet, worker, stopRefused>>
  BY DEF DbClear, mainVars, workVars, history
<1>2. TypeOK' /\ MainInOrder'
  BY <1>1 DEF PipelineInv, TypeOK, MainInOrder, LocalFrom
<1> QED
  BY <1>1, <1>2, QuietStep

LEMMA DbGetInv == ASSUME PipelineInv, DbGet PROVE PipelineInv'
<1>1. /\ alertQ # <<>> /\ alertQ' = Tail(alertQ)
      /\ UNCHANGED <<main, next, local, taskQ, stopSet, worker, hand, missed, stopRefused>>
      /\ \/ Head(alertQ) = STOP /\ db' = "done" /\ stored' = stored
         \/ Head(alertQ) # STOP /\ stored' = Append(stored, Head(alertQ)) /\ db' \in {"get", "raised"}
  BY DEF DbGet, mainVars, workVars, history
<1>2. /\ alertQ \in Seq(Nat) /\ stored \in Seq(Nat) /\ QueuedHasNoGaps /\ StoredHasNoGaps
  BY DEF PipelineInv, TypeOK
<1>3. /\ Head(alertQ) = alertQ[1] /\ alertQ[1] \in Nat /\ Len(alertQ) \in Nat \ {0}
      /\ alertQ' \in Seq(Nat) /\ Len(alertQ') = Len(alertQ) - 1
      /\ \A i \in 1..(Len(alertQ) - 1) : alertQ'[i] = alertQ[i + 1]
  BY <1>1, <1>2, TailFacts
<1>4. Elems(alertQ) = {alertQ[1]} \cup Elems(alertQ')
  BY <1>1, <1>2, <1>3, TailElems
<1>5. /\ stored' \in Seq(Nat) /\ Elems(stored) \subseteq Elems(stored')
      /\ alertQ[1] # STOP => alertQ[1] \in Elems(stored')
  <2>1. CASE stored' = stored /\ alertQ[1] = STOP
    BY <1>2, <2>1
  <2>2. CASE stored' = Append(stored, alertQ[1])
    <3>1. stored' \in Seq(Nat) /\ Elems(stored') = Elems(stored) \cup {alertQ[1]}
      BY <1>2, <1>3, <2>2, AppendElems, AppendProperties
    <3> QED
      BY <3>1
  <2> QED
    BY <1>1, <1>3, <2>1, <2>2
<1>6. \A k \in Firing : k # STOP
  BY PipelineAssumption DEF STOP
<1>7. \A n : DoneBefore(n) => DoneBefore(n)'
  BY <1>1, <1>4, <1>5, <1>6, DoneStays
<1>8. TypeOK' /\ MainInOrder'
  BY <1>1, <1>3, <1>5 DEF PipelineInv, TypeOK, MainInOrder, LocalFrom
<1>9. UntilStopped' /\ WorkInOrder'
  <2>1. Front' = Front /\ (QueueInOrder => QueueInOrder')
    BY <1>1 DEF Front, LocalFrom, QueueInOrder, Block, After
  <2>2. UntilStopped'
    BY <1>1, <1>7, <2>1 DEF PipelineInv, UntilStopped, Block, After
  <2>3. WorkInOrder'
    BY <1>1, <1>7 DEF PipelineInv, WorkInOrder, Block
  <2> QED
    BY <2>2, <2>3
<1>10. QueuedHasNoGaps'
  <2>1. ASSUME NEW i \in 1..Len(alertQ'), alertQ'[i] # STOP,
               NEW k \in (Firing \cap 1..alertQ'[i]) \ missed
        PROVE  k \in Elems(stored') \/ \E j \in 1..i : alertQ'[j] = k
    <3>1. i \in 1..(Len(alertQ) - 1) /\ i + 1 \in 1..Len(alertQ) /\ i \in Nat
      BY <1>3
    <3>2. alertQ'[i] = alertQ[i + 1]
      BY <1>3, <3>1
    <3>3. k \in Elems(stored) \/ \E j \in 1..(i + 1) : alertQ[j] = k
      BY <1>2, <2>1, <3>1, <3>2 DEF QueuedHasNoGaps
    <3>4. ASSUME NEW j \in 1..(i + 1), alertQ[j] = k
          PROVE  k \in Elems(stored') \/ \E m \in 1..i : alertQ'[m] = k
      <4>1. CASE j = 1
        BY <1>5, <1>6, <3>4, <4>1
      <4>2. CASE j # 1
        <5>1. j - 1 \in 1..i /\ j - 1 \in 1..(Len(alertQ) - 1) /\ (j - 1) + 1 = j
          BY <1>3, <3>1, <4>2
        <5>2. alertQ'[j - 1] = k
          BY <1>3, <3>4, <5>1
        <5> QED
          BY <5>1, <5>2
      <4> QED
        BY <4>1, <4>2
    <3> QED
      BY <1>5, <3>3, <3>4
  <2> QED
    BY <1>1, <2>1 DEF QueuedHasNoGaps, Elems
<1>11. StoredHasNoGaps'
  <2>1. CASE stored' = stored
    BY <1>1, <1>2, <2>1 DEF StoredHasNoGaps
  <2>2. CASE alertQ[1] # STOP /\ stored' = Append(stored, alertQ[1])
    <3>1. /\ Len(stored') = Len(stored) + 1 /\ Len(stored) \in Nat
          /\ \A i \in 1..Len(stored) : stored'[i] = stored[i]
          /\ stored'[Len(stored) + 1] = alertQ[1]
      BY <1>2, <1>3, <2>2, AppendProperties
    <3>2. ASSUME NEW i \in 1..Len(stored'), NEW k \in (Firing \cap 1..stored'[i]) \ missed
          PROVE  \E j \in 1..i : stored'[j] = k
      <4>1. CASE i \in 1..Len(stored)
        <5>1. \E j \in 1..i : stored[j] = k
          BY <1>2, <3>1, <3>2, <4>1 DEF StoredHasNoGaps
        <5>2. \A j \in 1..i : stored'[j] = stored[j]
          BY <3>1, <4>1
        <5> QED
          BY <5>1, <5>2
      <4>2. CASE i = Len(stored) + 1
        <5>1. 1 \in 1..Len(alertQ) /\ k \in (Firing \cap 1..alertQ[1]) \ missed
          BY <1>3, <3>1, <3>2, <4>2
        <5>2. k \in Elems(stored) \/ \E j \in 1..1 : alertQ[j] = k
          BY <1>2, <2>2, <5>1 DEF QueuedHasNoGaps
        <5>3. CASE k = alertQ[1]
          BY <3>1, <4>2, <5>3
        <5>4. CASE k \in Elems(stored)
          <6>1. PICK j \in 1..Len(stored) : stored[j] = k
            BY <5>4 DEF Elems
          <6>2. j \in 1..i /\ stored'[j] = k
            BY <3>1, <4>2, <6>1
          <6> QED
            BY <6>2
        <5> QED
          BY <5>2, <5>3, <5>4
      <4> QED
        BY <3>1, <4>1, <4>2
    <3> QED
      BY <1>1, <3>2 DEF StoredHasNoGaps
  <2> QED
    BY <1>1, <1>3, <2>1, <2>2
<1> QED
  BY <1>8, <1>9, <1>10, <1>11 DEF PipelineInv

-----------------------------------------------------------------------------
LEMMA PipelineInitInv == E2EInit => PipelineInv
<1> SUFFICES ASSUME E2EInit PROVE PipelineInv
  OBVIOUS
<1>1. TypeOK
  <2>1. <<>> \in Seq(Nat) /\ <<>> \in Seq(Seq(Nat))
    BY EmptySeq
  <2>2. taskQ \in Seq(Seq(Nat)) /\ local \in Seq(Nat) /\ hand \in Seq(Nat)
    BY <2>1 DEF E2EInit
  <2>3. alertQ \in Seq(Nat) /\ stored \in Seq(Nat)
    BY <2>1 DEF E2EInit
  <2>4. /\ main \in MainStates /\ next \in Nat \ {0} /\ worker = "get" /\ db = "clear"
        /\ stopSet = FALSE /\ stopRefused = FALSE /\ missed \subseteq Nat
    BY DEF E2EInit, MainStates
  <2>5. stopSet \in BOOLEAN /\ stopRefused \in BOOLEAN
    BY <2>4
  <2> QED
    BY <2>2, <2>3, <2>4, <2>5 DEF TypeOK
<1>2. Len(local) = 0 /\ Len(taskQ) = 0 /\ Len(alertQ) = 0 /\ Len(stored) = 0
  BY EmptySeq DEF E2EInit
<1>3. LocalFrom = 1 /\ Front = 1
  BY <1>2 DEF E2EInit, LocalFrom, Front
<1>4. DoneBefore(1)
  BY PipelineAssumption DEF DoneBefore
<1>5. MainInOrder
  BY <1>2 DEF E2EInit, MainInOrder
<1>6. UntilStopped
  BY <1>2, <1>3, <1>4 DEF E2EInit, UntilStopped, QueueInOrder
<1>7. WorkInOrder /\ QueuedHasNoGaps /\ StoredHasNoGaps
  BY <1>2 DEF E2EInit, WorkInOrder, QueuedHasNoGaps, StoredHasNoGaps
<1> QED
  BY <1>1, <1>5, <1>6, <1>7 DEF PipelineInv

LEMMA PipelineStepInv == PipelineInv /\ [E2ENext]_e2eVars => PipelineInv'
<1> SUFFICES ASSUME PipelineInv, [E2ENext]_e2eVars PROVE PipelineInv'
  OBVIOUS
<1>1. CASE MainStep
  BY <1>1, FireTaskInv, PutLocalInv, PlanEndsInv, SetStopInv, DrainInv, JoinInv, StopDbInv DEF MainStep
<1>2. CASE StopSignal
  BY <1>2, SetStopInv
<1>3. CASE WorkerStep
  BY <1>3, WorkerGetInv, WorkerGotInv, WorkerCheckInv, WorkTaskInv, WorkErrorInv DEF WorkerStep
<1>4. CASE DbStep
  BY <1>4, DbClearInv, DbGetInv DEF DbStep
<1>5. CASE UNCHANGED e2eVars
  <2>1. /\ UNCHANGED <<next, local, taskQ, hand, alertQ, stored, missed>>
        /\ UNCHANGED <<main, stopSet, worker, db, stopRefused>>
    BY <1>5 DEF e2eVars
  <2>2. TypeOK' /\ MainInOrder'
    BY <2>1 DEF PipelineInv, TypeOK, MainInOrder, LocalFrom
  <2> QED
    BY <2>1, <2>2, QuietStep
<1> QED
  BY <1>1, <1>2, <1>3, <1>4, <1>5 DEF E2ENext

(* Every reachable state of the replay pipeline satisfies the inductive    *)
(* invariant: where each task is between the plan, the two queues and the  *)
(* table (test_phase5_e2e.py, the three threads and their shutdown).       *)
THEOREM PipelineInvariant == E2ESpec => []PipelineInv
  BY PipelineInitInv, PipelineStepInv, PTL DEF E2ESpec

(* test_phase5_e2e.py: the state of the pipeline keeps its types.          *)
THEOREM PipelineTypes == E2ESpec => []TypeOK
  BY PipelineInvariant, PTL DEF PipelineInv

(* test_phase5_e2e.py 186, 484-492: whenever the shutdown comes, and with  *)
(* however many batches waiting, no alert is stored while an earlier one   *)
(* that was not missed is missing.                                        *)
THEOREM ShutdownLeavesNoGap == E2ESpec => []StoredHasNoGaps
  BY PipelineInvariant, PTL DEF PipelineInv

-----------------------------------------------------------------------------
(* The order of the alerts.  What has come out of the worker is in the     *)
(* order of the tasks, through the queue and into the table, and comes     *)
(* before every task that is still on its way.                             *)
StoredInOrder == \A i, j \in 1..Len(stored) : i < j => stored[i] < stored[j]

Emitted == Elems(stored) \cup (Elems(alertQ) \ {STOP})
Below(n) == \A e \in Emitted : e < n
Start == IF hand # <<>> THEN hand[1] ELSE Front

OutInOrder ==
    /\ StoredInOrder
    /\ \A i, j \in 1..Len(alertQ) :
          i < j /\ alertQ[i] # STOP /\ alertQ[j] # STOP => alertQ[i] < alertQ[j]
    /\ \A i \in 1..Len(stored), j \in 1..Len(alertQ) : alertQ[j] # STOP => stored[i] < alertQ[j]

AheadInOrder ==
    /\ ~stopSet => Below(Start)
    /\ worker = "work" /\ hand # <<>> => Below(hand[1])

OrderInv == OutInOrder /\ AheadInOrder

LEMMA EmittedTypes == ASSUME TypeOK PROVE Emitted \subseteq Nat
  BY ElementOfSeq DEF TypeOK, Emitted, Elems

(* The steps that leave the alerts alone.                                  *)
LEMMA QuietOrder ==
    ASSUME TypeOK, OrderInv, UNCHANGED <<alertQ, stored>>,
           ~stopSet' => ~stopSet /\ \A e \in Nat : e < Start => e < Start',
           worker' = "work" /\ hand' # <<>> => hand' = hand /\ (worker = "work" \/ ~stopSet)
    PROVE  OrderInv'
<1>1. OutInOrder'
  BY DEF OrderInv, OutInOrder, StoredInOrder
<1>2. Emitted' = Emitted /\ Emitted \subseteq Nat
  BY EmittedTypes DEF Emitted, Elems
<1>3. ~stopSet' => Below(Start)'
  BY <1>2 DEF OrderInv, AheadInOrder, Below
<1>4. worker' = "work" /\ hand' # <<>> => Below(hand[1])' /\ hand'[1] = hand[1]
  BY <1>2 DEF OrderInv, AheadInOrder, Below, Start
<1> QED
  BY <1>1, <1>3, <1>4 DEF OrderInv, AheadInOrder, Below

LEMMA MainOrder == ASSUME PipelineInv, OrderInv, MainStep \/ StopSignal PROVE OrderInv'
<1>0. TypeOK /\ MainInOrder /\ UntilStopped
  BY DEF PipelineInv
<1>1. CASE FireTask
  <2>1. /\ next' = next + 1 /\ local' = Append(local, next)
        /\ UNCHANGED <<taskQ, stopSet, worker, hand, alertQ, stored>>
    BY <1>1 DEF FireTask, workVars, dbVars
  <2>2. next \in Nat /\ local \in Seq(Nat)
    BY <1>0 DEF TypeOK
  <2>3. Len(local') = Len(local) + 1 /\ Len(local) \in Nat
    BY <2>1, <2>2, AppendProperties
  <2>4. LocalFrom' = LocalFrom
    BY <2>1, <2>2, <2>3 DEF LocalFrom
  <2>5. Start' = Start
    BY <2>1, <2>4 DEF Start, Front
  <2> QED
    BY <1>0, <2>1, <2>5, QuietOrder
<1>2. CASE PutLocal \/ PlanEnds
  <2>1. /\ UNCHANGED <<next, stopSet, worker, hand, alertQ, stored>>
        /\ local' = <<>>
        /\ \/ taskQ' = Append(taskQ, local) /\ local # <<>>
           \/ taskQ' = taskQ /\ local = <<>>
    BY <1>0, <1>2 DEF PutLocal, PlanEnds, workVars, dbVars, MainInOrder
  <2>2. ~stopSet => Front' = Front
    <3>1. CASE taskQ' = Append(taskQ, local) /\ local # <<>>
      BY <1>0, <2>1, <3>1, PutBatch DEF UntilStopped
    <3>2. CASE taskQ' = taskQ /\ local = <<>>
      BY <2>1, <3>2 DEF Front, LocalFrom
    <3> QED
      BY <2>1, <3>1, <3>2
  <2>3. ~stopSet => Start' = Start
    BY <2>1, <2>2 DEF Start
  <2> QED
    BY <1>0, <2>1, <2>3, QuietOrder
<1>3. CASE SetStop \/ StopSignal
  <2>1. stopSet' /\ UNCHANGED <<worker, hand, alertQ, stored>>
    BY <1>3 DEF SetStop, StopSignal, workVars, dbVars
  <2> QED
    BY <1>0, <2>1, QuietOrder
<1>4. CASE Drain \/ JoinWorker \/ JoinDb
  <2>1. stopSet /\ UNCHANGED <<stopSet, worker, hand, alertQ, stored>>
    BY <1>0, <1>4 DEF Drain, JoinWorker, JoinDb, workVars, dbVars, MainInOrder
  <2> QED
    BY <1>0, <2>1, QuietOrder
<1>5. CASE StopDb
  <2>1. /\ stopSet /\ UNCHANGED <<stopSet, worker, hand, stored>>
        /\ alertQ' = Append(alertQ, STOP) \/ alertQ' = alertQ
    BY <1>0, <1>5 DEF StopDb, workVars, dbVars, MainInOrder
  <2>2. CASE alertQ' = alertQ
    BY <1>0, <2>1, <2>2, QuietOrder
  <2>3. CASE alertQ' = Append(alertQ, STOP)
    <3>1. alertQ \in Seq(Nat) /\ STOP \in Nat
      BY <1>0 DEF TypeOK, STOP
    <3>2. /\ Len(alertQ') = Len(alertQ) + 1 /\ Len(alertQ) \in Nat
          /\ \A i \in 1..Len(alertQ) : alertQ'[i] = alertQ[i]
          /\ alertQ'[Len(alertQ) + 1] = STOP
      BY <2>3, <3>1, AppendProperties
    <3>3. \A i \in 1..Len(alertQ') : alertQ'[i] # STOP => i \in 1..Len(alertQ)
      BY <3>2
    <3>4. Emitted' = Emitted
      <4>1. Elems(alertQ') = Elems(alertQ) \cup {STOP}
        BY <2>3, <3>1, AppendElems
      <4>2. Emitted' = Elems(stored') \cup (Elems(alertQ') \ {STOP})
        BY DEF Emitted, Elems
      <4> QED
        BY <2>1, <4>1, <4>2 DEF Emitted
    <3>5. OutInOrder'
      BY <2>1, <3>2, <3>3 DEF OrderInv, OutInOrder, StoredInOrder
    <3>6. AheadInOrder'
      BY <2>1, <3>4 DEF OrderInv, AheadInOrder, Below
    <3> QED
      BY <3>5, <3>6 DEF OrderInv
  <2> QED
    BY <2>1, <2>2, <2>3
<1> QED
  BY <1>1, <1>2, <1>3, <1>4, <1>5 DEF MainStep

LEMMA WorkerOrder == ASSUME PipelineInv, OrderInv, WorkerStep PROVE OrderInv'
<1>0. TypeOK /\ MainInOrder /\ UntilStopped /\ WorkInOrder
  BY DEF PipelineInv
<1>1. CASE WorkerGet \/ BatchDone
  <2>1. UNCHANGED <<next, local, taskQ, stopSet, hand, alertQ, stored>> /\ worker' # "work"
    BY <1>1 DEF WorkerGet, BatchDone, mainVars, dbVars
  <2>2. Start' = Start
    BY <2>1 DEF Start, Front, LocalFrom
  <2> QED
    BY <1>0, <2>1, <2>2, QuietOrder
<1>2. CASE WorkerGot
  <2>1. /\ UNCHANGED <<next, local, stopSet, alertQ, stored>>
        /\ worker = "waiting" /\ worker' # "work"
        /\ \/ taskQ # <<>> /\ hand' = Head(taskQ) /\ taskQ' = Tail(taskQ)
           \/ taskQ = <<>> /\ UNCHANGED <<hand, taskQ>>
    BY <1>2 DEF WorkerGot, mainVars, dbVars
  <2>2. ASSUME ~stopSet PROVE Start' = Start
    <3>1. hand = <<>> /\ QueueInOrder
      BY <1>0, <2>1, <2>2 DEF MainInOrder, UntilStopped
    <3>2. CASE taskQ # <<>> /\ hand' = Head(taskQ)
      <4>1. Len(taskQ) \in Nat \ {0} /\ Head(taskQ) = taskQ[1]
        BY <1>0, <3>2, TailFacts DEF TypeOK
      <4>2. taskQ[1] # <<>>
        BY <3>1, <4>1 DEF QueueInOrder, Block
      <4> QED
        BY <3>1, <3>2, <4>1, <4>2 DEF Start, Front
    <3>3. CASE UNCHANGED <<hand, taskQ>>
      BY <2>1, <3>3 DEF Start, Front, LocalFrom
    <3> QED
      BY <2>1, <3>2, <3>3
  <2> QED
    BY <1>0, <2>1, <2>2, QuietOrder
<1>3. CASE WorkerCheck
  <2>1. /\ UNCHANGED <<next, local, taskQ, stopSet, alertQ, stored>>
        /\ worker' = IF WorkerBreaks THEN "done" ELSE "work"
        /\ hand' = IF WorkerBreaks THEN <<>> ELSE hand
    BY <1>3 DEF WorkerCheck, mainVars, dbVars
  <2>2. ASSUME ~stopSet PROVE Start' = Start
    <3>1. ~IsStop(hand) \/ hand = <<>>
      <4>1. <<STOP>>[1] = STOP
        OBVIOUS
      <4> QED
        BY <1>0, <2>2, <4>1 DEF UntilStopped, Block, IsStop
    <3>2. hand' = hand
      BY <2>1, <2>2, <3>1 DEF WorkerBreaks
    <3> QED
      BY <2>1, <3>2 DEF Start, Front, LocalFrom
  <2>3. worker' = "work" => hand' = hand /\ ~stopSet
    BY <2>1 DEF WorkerBreaks
  <2> QED
    BY <1>0, <2>1, <2>2, <2>3, QuietOrder
<1>4. CASE WorkError
  <2>1. /\ worker = "work" /\ hand # <<>> /\ hand' = <<>>
        /\ UNCHANGED <<next, local, taskQ, stopSet, alertQ, stored>>
    BY <1>4 DEF WorkError, mainVars, dbVars
  <2>2. hand \in Seq(Nat) /\ Block(hand)
    BY <1>0, <2>1 DEF TypeOK, WorkInOrder
  <2>3. hand[1] \in Nat /\ Len(hand) \in Nat
    BY <2>2, BlockTail
  <2>4. ~stopSet => Start = hand[1] /\ Start' = hand[1] + Len(hand)
    <3>1. Front' = Front
      BY <2>1 DEF Front, LocalFrom
    <3> QED
      BY <1>0, <2>1, <3>1 DEF Start, UntilStopped, After
  <2>5. \A e \in Nat : e < hand[1] => e < hand[1] + Len(hand)
    BY <2>3
  <2> QED
    BY <1>0, <2>1, <2>4, <2>5, QuietOrder
<1>5. CASE WorkTask
  <2>1. /\ worker = "work" /\ hand # <<>> /\ hand' = Tail(hand)
        /\ UNCHANGED <<next, local, taskQ, stopSet, worker, stored>>
        /\ alertQ' = alertQ \/ alertQ' = Append(alertQ, Head(hand))
    BY <1>5 DEF WorkTask, mainVars, dbVars
  <2>2. /\ hand \in Seq(Nat) /\ Block(hand) /\ alertQ \in Seq(Nat)
    BY <1>0, <2>1 DEF TypeOK, WorkInOrder
  <2>3. /\ hand[1] \in Nat /\ Head(hand) = hand[1] /\ hand[1] # STOP
        /\ hand' = <<>> => After(hand) = hand[1] + 1
        /\ hand' # <<>> => hand'[1] = hand[1] + 1
    BY <2>1, <2>2, BlockTail, TailFacts DEF Block
  <2>4. Below(hand[1])
    BY <2>1 DEF OrderInv, AheadInOrder
  <2>5. Emitted' \subseteq Emitted \cup {hand[1]} /\ Emitted \subseteq Nat
    <3>1. Elems(alertQ') \subseteq Elems(alertQ) \cup {hand[1]}
      <4>1. CASE alertQ' = alertQ
        BY <4>1 DEF Elems
      <4>2. CASE alertQ' = Append(alertQ, hand[1])
        <5>1. Elems(Append(alertQ, hand[1])) = Elems(alertQ) \cup {hand[1]}
          BY <2>2, <2>3, AppendElems
        <5>2. Elems(alertQ') = Elems(Append(alertQ, hand[1]))
          BY <4>2 DEF Elems
        <5> QED
          BY <5>1, <5>2
      <4> QED
        BY <2>1, <2>3, <4>1, <4>2
    <3>2. Emitted' = Elems(stored') \cup (Elems(alertQ') \ {STOP})
      BY DEF Emitted, Elems
    <3> QED
      BY <1>0, <2>1, <3>1, <3>2, EmittedTypes DEF Emitted
  <2>6. \A e \in Emitted' : e < hand[1] + 1
    BY <2>3, <2>4, <2>5 DEF Below
  <2>7. ~stopSet => Start' = hand[1] + 1
    <3>1. Front' = Front
      BY <2>1 DEF Front, LocalFrom
    <3> QED
      BY <1>0, <2>1, <2>3, <3>1 DEF Start, UntilStopped
  <2>8. AheadInOrder'
    BY <2>1, <2>3, <2>6, <2>7 DEF AheadInOrder, Below
  <2>9. OutInOrder'
    <3>1. CASE alertQ' = alertQ
      BY <2>1, <3>1 DEF OrderInv, OutInOrder, StoredInOrder
    <3>2. CASE alertQ' = Append(alertQ, hand[1])
      <4>1. /\ Len(alertQ') = Len(alertQ) + 1 /\ Len(alertQ) \in Nat
            /\ \A i \in 1..Len(alertQ) : alertQ'[i] = alertQ[i]
            /\ alertQ'[Len(alertQ) + 1] = hand[1]
        BY <2>2, <2>3, <3>2, AppendProperties
      <4>2. \A i \in 1..Len(alertQ) : alertQ[i] # STOP => alertQ[i] < hand[1]
        BY <2>4 DEF Below, Emitted, Elems
      <4>3. \A i \in 1..Len(stored) : stored[i] < hand[1]
        BY <2>4 DEF Below, Emitted, Elems
      <4>4. \A i \in 1..Len(alertQ') : i \in 1..Len(alertQ) \/ i = Len(alertQ) + 1
        BY <4>1
      <4>5. ASSUME NEW i \in 1..Len(alertQ'), NEW j \in 1..Len(alertQ'), i < j,
                   alertQ'[i] # STOP, alertQ'[j] # STOP
            PROVE  alertQ'[i] < alertQ'[j]
        <5>1. i \in 1..Len(alertQ)
          BY <4>1, <4>5
        <5>2. CASE j \in 1..Len(alertQ)
          BY <4>1, <4>5, <5>1, <5>2 DEF OrderInv, OutInOrder
        <5>3. CASE j = Len(alertQ) + 1
          BY <4>1, <4>2, <4>5, <5>1, <5>3
        <5> QED
          BY <4>4, <5>2, <5>3
      <4>6. ASSUME NEW i \in 1..Len(stored), NEW j \in 1..Len(alertQ'), alertQ'[j] # STOP
            PROVE  stored[i] < alertQ'[j]
        <5>1. CASE j \in 1..Len(alertQ)
          BY <4>1, <4>6, <5>1 DEF OrderInv, OutInOrder
        <5>2. CASE j = Len(alertQ) + 1
          BY <4>1, <4>3, <5>2
        <5> QED
          BY <4>4, <5>1, <5>2
      <4> QED
        BY <2>1, <4>5, <4>6 DEF OrderInv, OutInOrder, StoredInOrder
    <3> QED
      BY <2>1, <2>3, <3>1, <3>2
  <2> QED
    BY <2>8, <2>9 DEF OrderInv
<1> QED
  BY <1>1, <1>2, <1>3, <1>4, <1>5 DEF WorkerStep

LEMMA DbOrder == ASSUME PipelineInv, OrderInv, DbStep PROVE OrderInv'
<1>0. TypeOK
  BY DEF PipelineInv
<1>1. UNCHANGED <<next, local, taskQ, stopSet, worker, hand>>
  BY DEF DbStep, DbClear, DbGet, mainVars, workVars
<1>2. Start' = Start
  BY <1>1 DEF Start, Front, LocalFrom
<1>3. CASE UNCHANGED <<alertQ, stored>>
  BY <1>0, <1>1, <1>2, <1>3, QuietOrder
<1>4. CASE DbGet
  <2>1. /\ alertQ # <<>> /\ alertQ' = Tail(alertQ)
        /\ \/ Head(alertQ) = STOP /\ stored' = stored
           \/ Head(alertQ) # STOP /\ stored' = Append(stored, Head(alertQ))
    BY <1>4 DEF DbGet
  <2>2. alertQ \in Seq(Nat) /\ stored \in Seq(Nat)
    BY <1>0 DEF TypeOK
  <2>3. /\ Head(alertQ) = alertQ[1] /\ alertQ[1] \in Nat /\ Len(alertQ) \in Nat \ {0}
        /\ Len(alertQ') = Len(alertQ) - 1
        /\ \A i \in 1..(Len(alertQ) - 1) : alertQ'[i] = alertQ[i + 1]
    BY <2>1, <2>2, TailFacts
  <2>4. \A i \in 1..Len(alertQ') :
           /\ i + 1 \in 1..Len(alertQ) /\ 1 < i + 1 /\ alertQ'[i] = alertQ[i + 1]
    BY <2>3
  <2>5. /\ \A i, j \in 1..Len(alertQ') :
              i < j /\ alertQ'[i] # STOP /\ alertQ'[j] # STOP => alertQ'[i] < alertQ'[j]
        /\ \A i \in 1..Len(stored), j \in 1..Len(alertQ') :
              alertQ'[j] # STOP => stored[i] < alertQ'[j]
        /\ \A j \in 1..Len(alertQ') : alertQ[1] # STOP /\ alertQ'[j] # STOP => alertQ[1] < alertQ'[j]
        /\ \A i \in 1..Len(stored) : alertQ[1] # STOP => stored[i] < alertQ[1]
    <3>1. \A i, j \in 1..Len(alertQ') : i < j => i + 1 < j + 1
      BY <2>3
    <3>2. 1 \in 1..Len(alertQ)
      BY <2>3
    <3> QED
      BY <2>4, <3>1, <3>2 DEF OrderInv, OutInOrder
  <2>6. Elems(alertQ) = {alertQ[1]} \cup Elems(alertQ')
    BY <2>1, <2>2, <2>3, TailElems
  <2>7. CASE alertQ[1] = STOP /\ stored' = stored
    <3>1. OutInOrder'
      BY <2>5, <2>7 DEF OrderInv, OutInOrder, StoredInOrder
    <3>2. Emitted' = Emitted
      <4>1. Emitted' = Elems(stored') \cup (Elems(alertQ') \ {STOP})
        BY DEF Emitted, Elems
      <4> QED
        BY <2>6, <2>7, <4>1 DEF Emitted
    <3> QED
      BY <1>1, <1>2, <3>1, <3>2 DEF OrderInv, AheadInOrder, Below
  <2>8. CASE alertQ[1] # STOP /\ stored' = Append(stored, alertQ[1])
    <3>1. /\ Len(stored') = Len(stored) + 1 /\ Len(stored) \in Nat
          /\ \A i \in 1..Len(stored) : stored'[i] = stored[i]
          /\ stored'[Len(stored) + 1] = alertQ[1]
      BY <2>2, <2>3, <2>8, AppendProperties
    <3>2. \A i \in 1..Len(stored') : i \in 1..Len(stored) \/ i = Len(stored) + 1
      BY <3>1
    <3>3. ASSUME NEW i \in 1..Len(stored'), NEW j \in 1..Len(stored'), i < j
          PROVE  stored'[i] < stored'[j]
      <4>1. i \in 1..Len(stored)
        BY <3>1, <3>3
      <4>2. CASE j \in 1..Len(stored)
        BY <3>1, <3>3, <4>1, <4>2 DEF OrderInv, OutInOrder, StoredInOrder
      <4>3. CASE j = Len(stored) + 1
        BY <2>5, <2>8, <3>1, <4>1, <4>3
      <4> QED
        BY <3>2, <4>2, <4>3
    <3>4. ASSUME NEW i \in 1..Len(stored'), NEW j \in 1..Len(alertQ'), alertQ'[j] # STOP
          PROVE  stored'[i] < alertQ'[j]
      <4>1. CASE i \in 1..Len(stored)
        BY <2>5, <3>1, <3>4, <4>1
      <4>2. CASE i = Len(stored) + 1
        BY <2>5, <2>8, <3>1, <3>4, <4>2
      <4> QED
        BY <3>2, <4>1, <4>2
    <3>5. OutInOrder'
      BY <2>5, <3>3, <3>4 DEF OutInOrder, StoredInOrder
    <3>6. Emitted' = Emitted
      <4>1. Emitted' = Elems(stored') \cup (Elems(alertQ') \ {STOP})
        BY DEF Emitted, Elems
      <4>2. Elems(stored') = Elems(stored) \cup {alertQ[1]}
        BY <2>2, <2>3, <2>8, AppendElems
      <4> QED
        BY <2>6, <2>8, <4>1, <4>2 DEF Emitted
    <3> QED
      BY <1>1, <1>2, <3>5, <3>6 DEF OrderInv, AheadInOrder, Below
  <2> QED
    BY <2>1, <2>3, <2>7, <2>8
<1> QED
  BY <1>3, <1>4 DEF DbStep, DbClear

(* test_phase5_e2e.py 120-206: alerts are stored in the order of their     *)
(* tasks, each at most once, for every queue size and whenever the         *)
(* shutdown comes.  The event stream of the dashboard rests on that order. *)
THEOREM AlertsAreStoredInOrder == E2ESpec => []StoredInOrder
<1>1. E2EInit => OrderInv
  <2> SUFFICES ASSUME E2EInit PROVE OrderInv
    OBVIOUS
  <2>1. Len(stored) = 0 /\ Len(alertQ) = 0 /\ hand = <<>>
    BY DEF E2EInit
  <2>2. Emitted = {}
    BY <2>1 DEF Emitted, Elems
  <2> QED
    BY <2>1, <2>2 DEF OrderInv, OutInOrder, StoredInOrder, AheadInOrder, Below
<1>2. PipelineInv /\ OrderInv /\ [E2ENext]_e2eVars => OrderInv'
  <2> SUFFICES ASSUME PipelineInv, OrderInv, [E2ENext]_e2eVars PROVE OrderInv'
    OBVIOUS
  <2>1. CASE UNCHANGED e2eVars
    <3>1. UNCHANGED <<next, local, taskQ, stopSet, worker, hand, alertQ, stored>>
      BY <2>1 DEF e2eVars
    <3>2. Start' = Start
      BY <3>1 DEF Start, Front, LocalFrom
    <3> QED
      BY <3>1, <3>2, QuietOrder DEF PipelineInv
  <2> QED
    BY <2>1, MainOrder, WorkerOrder, DbOrder DEF E2ENext
<1>3. OrderInv => StoredInOrder
  BY DEF OrderInv, OutInOrder
<1> QED
  BY <1>1, <1>2, <1>3, PipelineInvariant, PTL DEF E2ESpec

-----------------------------------------------------------------------------
(* test_phase5_e2e.py 494-507: once main has told the writer to stop, and  *)
(* found room for that, "STOP" is in the queue until the writer is done:   *)
(* the safety half of ProcessEnds.                                         *)
WriterIsTold ==
    main \in {"joinDb", "done"} /\ ~stopRefused => db = "done" \/ STOP \in Elems(alertQ)

(* test_phase5_e2e.py 184-206, 494-507: whatever the worker still puts and *)
(* the writer takes, the shutdown's "STOP" is not lost.                    *)
THEOREM StopReachesWriter == E2ESpec => []WriterIsTold
<1>1. E2EInit => WriterIsTold
  BY DEF E2EInit, WriterIsTold
<1>2. TypeOK /\ WriterIsTold /\ [E2ENext]_e2eVars => WriterIsTold'
  <2> SUFFICES ASSUME TypeOK, WriterIsTold, [E2ENext]_e2eVars,
                      main' \in {"joinDb", "done"}, ~stopRefused', db' # "done"
               PROVE  STOP \in Elems(alertQ')
    BY DEF WriterIsTold, Elems
  <2>0. alertQ \in Seq(Nat) /\ hand \in Seq(Nat) /\ STOP \in Nat
    BY DEF TypeOK, STOP
  <2>1. CASE StopDb
    <3>1. alertQ' = Append(alertQ, STOP)
      BY <2>1 DEF StopDb
    <3> QED
      BY <2>0, <3>1, AppendElems
  <2>2. CASE ~StopDb
    <3>1. main \in {"joinDb", "done"} /\ ~stopRefused /\ db # "done"
      BY <2>2 DEF E2ENext, MainStep, WorkerStep, DbStep, FireTask, PutLocal, PlanEnds, SetStop, Drain,
                  JoinWorker, JoinDb, StopSignal, WorkerGet, WorkerGot, WorkerCheck, WorkTask,
                  WorkError, BatchDone, DbClear, DbGet, e2eVars, mainVars, dbVars, history
    <3>2. STOP \in Elems(alertQ)
      BY <3>1 DEF WriterIsTold
    <3>3. CASE UNCHANGED alertQ
      BY <3>2, <3>3
    <3>4. CASE WorkTask /\ alertQ' = Append(alertQ, Head(hand))
      <4>1. Head(hand) \in Nat
        BY <2>0, <3>4, TailFacts DEF WorkTask
      <4> QED
        BY <2>0, <3>2, <3>4, <4>1, AppendElems
    <3>5. CASE DbGet
      <4>1. alertQ # <<>> /\ alertQ' = Tail(alertQ) /\ Head(alertQ) # STOP
        BY <3>5 DEF DbGet
      <4>2. Elems(alertQ) = {Head(alertQ)} \cup Elems(Tail(alertQ))
        BY <2>0, <4>1, TailElems
      <4> QED
        BY <3>2, <4>1, <4>2
    <3> QED
      BY <2>2, <3>3, <3>4, <3>5 DEF E2ENext, MainStep, WorkerStep, DbStep, FireTask, PutLocal, PlanEnds,
                  SetStop, Drain, JoinWorker, JoinDb, StopSignal, WorkerGet, WorkerGot, WorkerCheck,
                  WorkTask, WorkError, BatchDone, DbClear, e2eVars
  <2> QED
    BY <2>1, <2>2
<1> QED
  BY <1>1, <1>2, PipelineTypes, PTL DEF E2ESpec

=============================================================================
