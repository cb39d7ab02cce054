--------------------------- MODULE MCRosTopicNodes ---------------------------
(* Instances of RosTopicNodes for TLC: subscribers with a remapped and with  *)
(* a fixed port, and a publisher that is remapped.                           *)
EXTENDS RosTopicNodes

MCSubs == {"a", "b"}
MCPubs == {"p"}
MCTopics == {"x", "y"}
MCRemapped == {"a", "p"}
=============================================================================
