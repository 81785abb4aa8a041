---------------------------- MODULE MCAlertStore ----------------------------
(* Small instances of AlertStore: threads and alerts are model values.     *)
EXTENDS AlertStore, TLC

\* All threads use one store: the server, or the pipeline on its own.
OneHome == [t \in Threads |-> "server"]

\* The request threads of the server, and the pipeline process it starts.
CONSTANT PipelineThread
TwoHomes == [t \in Threads |-> IF t = PipelineThread THEN "pipeline" ELSE "server"]

\* Threads of one store are alike.
Symmetry == Permutations(Threads \ {PipelineThread})
=============================================================================
