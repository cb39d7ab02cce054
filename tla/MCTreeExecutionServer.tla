------------------------- MODULE MCTreeExecutionServer -------------------------
(* An instance of TreeExecutionServer for TLC.                            *)
EXTENDS TreeExecutionServer

MCGoals == {"first goal", "second goal"}
=============================================================================
