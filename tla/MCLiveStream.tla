---------------------------- MODULE MCLiveStream ----------------------------
(* Small instances of LiveStream: alerts are numbers, two of them with the *)
(* same timestamp.                                                         *)
EXTENDS LiveStream

MCTs == [a \in Alerts |-> IF a = 4 THEN 3 ELSE a]
=============================================================================
