--------------------------- MODULE CountMinSketch ---------------------------
(***************************************************************************)
(* CountMinSketch of features/online_stats.py, as the beaconing extractor  *)
(* keeps it: a table of counters, one per row and cell, into which every   *)
(* packet's destination is hashed once per row.  Like the other sketches   *)
(* (the sources of the DDoS extractor, those of the scan extractor), it is *)
(* neither reset nor swept.  md5 modulo the width is any function from     *)
(* items to cells.                                                         *)
(***************************************************************************)
EXTENDS Integers, FiniteSetsExt

CONSTANTS Items,   \* what is counted
          Depth,   \* rows
          Width,   \* cells of a row
          Hash     \* the cell of each item in each row

Rows == 1..Depth
Cells == 0..Width - 1

ASSUME SketchAssumption ==
    /\ Depth \in Nat \ {0} /\ Width \in Nat \ {0}
    /\ Hash \in [Rows -> [Items -> Cells]]

VARIABLES table,       \* table[row][cell]
          totalCount,  \* total_count
          truth        \* history: how often each item was added

sketchVars == <<table, totalCount, truth>>

SketchInit ==
    /\ table = [r \in Rows |-> [c \in Cells |-> 0]]
    /\ totalCount = 0
    /\ truth = [x \in Items |-> 0]

BugAdd(x) ==              \* the loop over the rows left after the first
    /\ totalCount' = totalCount + 1
    /\ table' = [table EXCEPT ![1][Hash[1][x]] = @ + 1]
    /\ truth' = [truth EXCEPT ![x] = @ + 1]

Add(x) ==
    /\ totalCount' = totalCount + 1
    /\ table' = [r \in Rows |-> [table[r] EXCEPT ![Hash[r][x]] = @ + 1]]
    /\ truth' = [truth EXCEPT ![x] = @ + 1]

(* get: the least of the item's cells.                                     *)
Estimate(x) == Min({table[r][Hash[r][x]] : r \in Rows})

SketchNext == \E x \in Items : Add(x)

SketchSpec == SketchInit /\ [][SketchNext]_sketchVars

(* online_stats.py 46-57: whatever items share their cells, and over the   *)
(* whole run, an item is never estimated below its count, nor above the    *)
(* number of items added.                                                  *)
NeverUndercounts ==
    \A x \in Items : truth[x] <= Estimate(x) /\ Estimate(x) <= totalCount

=============================================================================
