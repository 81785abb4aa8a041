----------------------------- MODULE LossyFifo -----------------------------
(***************************************************************************)
(* What a bounded reader promises: items come out in the order in which    *)
(* they were read, each at most once; an item may be lost before it is     *)
(* queued but not after, and the queue is bounded.                         *)
(***************************************************************************)
EXTENDS Integers, Sequences

CONSTANTS N,     \* items to read, numbered from 1
          Cap    \* places in the queue

VARIABLES taken,    \* items disposed of: queued or lost
          waiting,  \* the queue
          out       \* the items handed over, in order

fifoVars == <<taken, waiting, out>>

FifoInit == taken = 0 /\ waiting = <<>> /\ out = <<>>

Admit ==
    /\ taken < N /\ Len(waiting) < Cap
    /\ taken' = taken + 1
    /\ waiting' = Append(waiting, taken + 1)
    /\ UNCHANGED out

Lose ==
    /\ taken < N /\ taken' = taken + 1
    /\ UNCHANGED <<waiting, out>>

HandOver ==
    /\ waiting # <<>>
    /\ waiting' = Tail(waiting)
    /\ out' = Append(out, Head(waiting))
    /\ UNCHANGED taken

FifoNext == Admit \/ Lose \/ HandOver

FifoSpec == FifoInit /\ [][FifoNext]_fifoVars

(* The items handed over, and those still queued behind them, are in the   *)
(* order of reading, each once, and all have been read.                    *)
InOrder ==
    LET seen == out \o waiting
    IN \A i \in 1..Len(seen) : /\ seen[i] \in 1..taken
                               /\ \A j \in 1..Len(seen) : i < j => seen[i] < seen[j]

=============================================================================
