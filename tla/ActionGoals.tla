----------------------------- MODULE ActionGoals -----------------------------
(***************************************************************************)
(* What a ROS 2 action server promises about its goals: the goal states of *)
(* rcl_action, which rclcpp_action enforces by throwing on any other       *)
(* transition.  The servers of this workspace accept with                  *)
(* ACCEPT_AND_DEFER and call execute() at once, so a goal goes from being  *)
(* unknown straight to executing.                                          *)
(***************************************************************************)
CONSTANT Goals

VARIABLE status     \* the state of each goal

Terminal == {"rejected", "succeeded", "aborted", "canceled"}
Statuses == {"unknown", "executing", "canceling"} \cup Terminal

Moves(g, from, to) ==
    /\ status[g] \in from
    /\ status' = [status EXCEPT ![g] = to]

Reject(g) == Moves(g, {"unknown"}, "rejected")
Accept(g) == Moves(g, {"unknown"}, "executing")
Cancel(g) == Moves(g, {"executing"}, "canceling")
Succeed(g) == Moves(g, {"executing", "canceling"}, "succeeded")
Abort(g) == Moves(g, {"executing", "canceling"}, "aborted")
Canceled(g) == Moves(g, {"canceling"}, "canceled")

Finish(g) == Succeed(g) \/ Abort(g) \/ Canceled(g)

Init == status = [g \in Goals |-> "unknown"]

Next == \E g \in Goals : Reject(g) \/ Accept(g) \/ Cancel(g) \/ Finish(g)

Spec == Init /\ [][Next]_status
=============================================================================
