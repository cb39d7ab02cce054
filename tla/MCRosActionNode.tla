---------------------------- MODULE MCRosActionNode ----------------------------
(* Instances of RosActionNode for TLC: the two action nodes of a mission   *)
(* on one client, the first of which may be run again.                     *)
EXTENDS RosActionNode, TLC

CONSTANTS a, b

MCMaxRuns == a :> 2 @@ b :> 1
=============================================================================
