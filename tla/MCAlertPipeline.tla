-------------------------- MODULE MCAlertPipeline --------------------------
(* Small instances of AlertPipeline: every feature takes a value on either *)
(* side of each of its thresholds.                                         *)
EXTENDS AlertPipeline, TLC

MCTimes == 0..3

MCPoints ==
    ("ddos" :> [syn : {0, 50, 110}, pkt : {0, 30, 60}, amp : {0, 60, 110}, ent : {0, 31},
                byte : {0, 2000}])
    @@ ("beaconing" :> [iat : {0, 5}, cv : {5, 10, 30, 50}])
    @@ ("dga" :> [len : {0, 10, 20}, ent : {35, 36}])
    @@ ("encrypted" :> [seen : BOOLEAN])
    @@ ("recon" :> [syn : {90, 91}, act : {0, 50, 51}])
    @@ ("exfil" :> [ratio : {100, 101}, out : {0, 5000, 5001}, in : {0, 1}])
    @@ ("dns_exfil" :> [ent : {45, 46}, len : {40, 41}, rate : {5, 6}])

(* One vector for the gate and for each rule, and three for the model.     *)
Point(s, p, a, e) == [syn |-> s, pkt |-> p, amp |-> a, ent |-> e, byte |-> 0]
MCBatchPoints == {Point(0, 0, 0, 0), Point(110, 0, 0, 0), Point(0, 0, 110, 0),
                  Point(0, 60, 0, 31), Point(50, 30, 0, 0), Point(50, 30, 60, 0),
                  Point(0, 30, 0, 0)}

Prob(p) == [kind |-> "prob", value |-> p]
Label(l) == [kind |-> "label", value |-> l]

MCAnswers ==
    [d \in DOMAIN MCPoints |->
        IF d \in {"ddos", "dga", "encrypted"} THEN {Prob(20), Prob(50), Prob(60)}
        ELSE {Label(-1), Label(1)}]

MCCalibrated == {-5, 45, 105}

Symmetry == Permutations(IPs)
=============================================================================
