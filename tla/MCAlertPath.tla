---------------------------- MODULE MCAlertPath ----------------------------
(* A small instance of AlertPath.  The aggregators count in ticks: the     *)
(* rollups come after 1, 2 and 4 of them, in the order of 1, 5 and 60 s,   *)
(* and the ttls are 4 and 8.  Every feature of a detector takes a value on *)
(* either side of each of its thresholds.                                  *)
EXTENDS AlertPath, TLC

\* Neighbouring packets, and gaps of one 60 s window and more.
MCTimes == {11, 12, 14, 20, 25}

\* The hosts share their cell in the first row of the sketch, not in the second.
CONSTANTS h1, h2
MCHash == << [h \in Hosts |-> 0], [h \in Hosts |-> IF h = h1 THEN 0 ELSE 1] >>

MCAlertTimes == 0..2

MCPoints ==
    ("ddos" :> [syn : {0, 50, 110}, pkt : {0, 30, 60}, amp : {0, 60, 110}, ent : {0, 31},
                byte : {0, 2000}])
    @@ ("beaconing" :> [iat : {0, 5}, cv : {5, 10, 30, 50}])
    @@ ("dga" :> [len : {0, 10, 20}, ent : {35, 36}])
    @@ ("encrypted" :> [seen : BOOLEAN])
    @@ ("recon" :> [syn : {90, 91}, act : {0, 50, 51}])
    @@ ("exfil" :> [ratio : {100, 101}, out : {0, 5000, 5001}, in : {0, 1}])
    @@ ("dns_exfil" :> [ent : {45, 46}, len : {40, 41}, rate : {5, 6}])

(* One vector for the gate and for each rule, and three for the model.     *)
Point(s, p, a, e) == [syn |-> s, pkt |-> p, amp |-> a, ent |-> e, byte |-> 0]
MCBatchPoints == {Point(0, 0, 0, 0), Point(110, 0, 0, 0), Point(0, 0, 110, 0),
                  Point(0, 60, 0, 31), Point(50, 30, 0, 0), Point(50, 30, 60, 0),
                  Point(0, 30, 0, 0)}

Prob(p) == [kind |-> "prob", value |-> p]
Label(l) == [kind |-> "label", value |-> l]

MCAnswers ==
    [d \in DOMAIN MCPoints |->
        IF d \in {"ddos", "dga", "encrypted"} THEN {Prob(20), Prob(50), Prob(60)}
        ELSE {Label(-1), Label(1)}]

MCCalibrated == {-5, 45, 105}

\* The request threads of the server, and the pipeline process it starts.
CONSTANT PipelineThread
TwoHomes == [t \in Threads |-> IF t = PipelineThread THEN "pipeline" ELSE "server"]

\* The addresses are alike, and so are the threads of one store.
Symmetry == Permutations(IPs) \cup Permutations(Threads \ {PipelineThread})
=============================================================================
