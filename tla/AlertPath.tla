----------------------------- MODULE AlertPath -----------------------------
(***************************************************************************)
(* The way from a packet to a row of the table: aggregation into features, *)
(* scoring and correlation, and storage.  Each stage hands plain values to *)
(* the next and they share no state, so a behaviour exercises one stage on *)
(* every input it can be given.                                            *)
(***************************************************************************)
EXTENDS Aggregators, AlertPipeline, AlertStore

VARIABLE part

pathVars == <<aggVars, pipeVars, storeVars, part>>

PathInit ==
    /\ AggInit /\ PipeInit /\ StoreInit
    /\ part \in {"features", "alerts", "store"}
    /\ part # "alerts" => stage = "correlate"

Features == part = "features" /\ AggNext /\ UNCHANGED <<pipeVars, storeVars, part>>
Detection == part = "alerts" /\ PipeNext /\ UNCHANGED <<aggVars, storeVars, part>>
Storage == part = "store" /\ StoreNext /\ UNCHANGED <<aggVars, pipeVars, part>>

PathNext == Features \/ Detection \/ Storage

PathSpec == PathInit /\ [][PathNext]_pathVars

=============================================================================
