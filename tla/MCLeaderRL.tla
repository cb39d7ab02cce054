------------------------------ MODULE MCLeaderRL ------------------------------
(* Instances of LeaderRL for TLC.                                          *)
EXTENDS LeaderRL

\* A target that two robots reach together, and one that they straddle.
MCTargets == {1, 2}
=============================================================================
