--------------------------- MODULE MCRosServiceNode ---------------------------
(* Instances of RosServiceNode for TLC.                                    *)
EXTENDS RosServiceNode

\* A node that takes the name of its service from the blackboard, and one
\* with a fixed name.
MCNodes == {"a", "b"}
MCRemapped == {"a"}
MCServiceNames == {"x", "y"}
=============================================================================
