----------------------------- MODULE MCThreads -----------------------------
(* A small instance of Threads: three flows, one of them seen in both      *)
(* directions.                                                             *)
EXTENDS Threads

Packet(s, d, sp, dp) == [src |-> s, dst |-> d, sport |-> sp, dport |-> dp, proto |-> "TCP"]

MCMetas == {Packet(1, 2, 80, 443), Packet(2, 1, 443, 80), Packet(1, 3, 80, 443),
            Packet(2, 3, 80, 443)}
=============================================================================
