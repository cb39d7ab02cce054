--------------------------- MODULE MCFollowerNode ---------------------------
(* Instances of FollowerNode for TLC: the doubles are ranks, 0 for zero and *)
(* 1 < 2 for two positive values.                                          *)
EXTENDS FollowerNode

CONSTANTS m1, m2

MCValues == {0, 1, 2}
MCDefaults == [name \in GainNames |-> IF name = "Ir" THEN 2 ELSE 1]
MCTunables == {"Ir", "Ir_min"}
MCMaps == {m1, m2}
=============================================================================
