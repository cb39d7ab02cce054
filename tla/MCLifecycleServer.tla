-------------------------- MODULE MCLifecycleServer --------------------------
(* An instance of LifecycleServer for TLC: the states that a mission asks  *)
(* for, and the one that all three shutdown transitions lead to.           *)
EXTENDS LifecycleServer

MCTargets == {"inactive", "active", "finalized"}
=============================================================================
