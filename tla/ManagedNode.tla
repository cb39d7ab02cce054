----------------------------- MODULE ManagedNode -----------------------------
(***************************************************************************)
(* The state machine of a managed node as its clients see it: the primary  *)
(* states of rcl_lifecycle and the ways between them.  The lifecycle       *)
(* server models the transitions of its node by id, label and result; this *)
(* is what must be left of them when only the state is looked at.          *)
(***************************************************************************)
VARIABLE state

States == {"unconfigured", "inactive", "active", "finalized"}

Moves(from, to) == state \in from /\ state' = to

Configure == Moves({"unconfigured"}, "inactive")
Activate == Moves({"inactive"}, "active")
Deactivate == Moves({"active"}, "inactive")
Cleanup == Moves({"inactive"}, "unconfigured")
Shutdown == Moves(States \ {"finalized"}, "finalized")

\* An exception in a transition: on_error leads back to the first state.
Recover == Moves(States \ {"finalized"}, "unconfigured")

\* Clients find the node in any state but the last one.
Init == state \in States \ {"finalized"}

Next == Configure \/ Activate \/ Deactivate \/ Cleanup \/ Shutdown \/ Recover

\* The process may be launched again.
Relaunch == Moves(States, "unconfigured")

RelaunchedSpec == Init /\ [][Next \/ Relaunch]_state
=============================================================================
