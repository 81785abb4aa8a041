-------------------------- MODULE MCReplayControl --------------------------
(* Small instances of ReplayControl.                                       *)
EXTENDS ReplayControl, TLC

Symmetry == Permutations(Callers)
=============================================================================
