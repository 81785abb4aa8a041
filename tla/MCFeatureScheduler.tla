------------------------- MODULE MCFeatureScheduler -------------------------
(* A small instance of FeatureScheduler, with a minute of four ticks.      *)
EXTENDS FeatureScheduler

\* Packets in one minute and just beyond it.
MCMinute == 11..16
=============================================================================
