----------------------------- MODULE MCStreams -----------------------------
(* Small instances of Streams: alerts are numbers, two of them with the    *)
(* same timestamp; three records, captures with and without a gap longer   *)
(* than a wait; scenarios that replay every record and that repeat one.    *)
EXTENDS Streams

MCTs == [a \in Alerts |-> IF a = 4 THEN 3 ELSE a]

MCFamily == <<"SYN_FLOOD", "BENIGN", "SYN_FLOOD">>
MCCaptures == {<<0, 1, 2>>, <<0, 4, 1>>}
MCScenarios == {<<>>, [f \in {"SYN_FLOOD", "BENIGN"} |-> IF f = "BENIGN" THEN 0 ELSE 100]}
=============================================================================
