--------------------------- MODULE LifecycleServer ---------------------------
(***************************************************************************)
(* The action server of inrof_bt/src/lifecycle_server.cpp, which asks a    *)
(* managed node for its available transitions and then for a change of    *)
(* state.  Three kinds of actors interleave:                               *)
(*   - the executor of main(): handle_goal (blocking, with a nested        *)
(*     executor), handle_accepted, handle_cancel;                          *)
(*   - one detached thread per accepted goal: execute();                   *)
(*   - the managed node, which serves its lifecycle services one by one,   *)
(*     may die and be launched again, and may be driven by other clients.  *)
(* A shutdown of the server (SIGINT) may come between any two steps: it    *)
(* ends the executor and the three waits for an answer, and its process    *)
(* may exit before its threads have gone on.                               *)
(* A wait with a time limit may always end without success: the limit may  *)
(* pass however fast the node is.                                          *)
(***************************************************************************)
EXTENDS FiniteSets, Naturals

CONSTANTS
    Goals,
    NoGoal,
    Targets,        \* the goal states that clients ask for
    MaxCrashes,     \* bound on the deaths of the managed node
    MaxOthers       \* bound on the transitions that other clients trigger

States == {"unconfigured", "inactive", "active", "finalized"}
Transitions == {"configure", "cleanup", "activate", "deactivate",
                "unconfigured_shutdown", "inactive_shutdown", "active_shutdown"}
NoTransition == "no_transition"

ASSUME NoGoalAssumption == NoGoal \notin Goals
ASSUME TargetsAssumption == Targets \subseteq States
ASSUME BoundsAssumption == MaxCrashes \in Nat /\ MaxOthers \in Nat

VARIABLES
    ok,         \* rclcpp::ok() of the server
    target,     \* state.id of each goal
    status,     \* goal state kept by rclcpp_action
    handling,   \* the goal handle_goal is blocked on
    offer,      \* the answer handle_goal waits for: "pending", "lost", or a
                \* set of transitions
    pc,         \* where execute() of each goal is
    found,      \* target_transition of each goal
    reply,      \* response of change_state to each goal
    node,       \* primary state of the managed node
    alive,      \* its process runs
    crashes,
    others,
    applied     \* history: the state a goal's change_state brought the node to

serverVars == <<status, handling, offer, pc, found>>
nodeVars == <<node, alive>>
boundVars == <<crashes, others>>
vars == <<ok, target, serverVars, reply, nodeVars, boundVars, applied>>

\* A thread whose wait for change_state was interrupted has ended; its request
\* is still at the node ("interrupted") or was answered unheard ("unheard").
Places == {"none", "start", "wait_query", "querying", "query_lost", "answered",
           "wait_change", "changing", "stuck", "responded", "interrupted", "unheard",
           "done"}
NotApplied == "not_applied"

TypeOK ==
    /\ ok \in BOOLEAN
    /\ target \in [Goals -> Targets]
    /\ status \in [Goals -> {"unknown", "executing", "canceling", "rejected",
                             "succeeded", "aborted", "canceled"}]
    /\ handling \in Goals \cup {NoGoal}
    /\ offer \in {{"pending"}, {"lost"}} \cup SUBSET Transitions
    /\ pc \in [Goals -> Places]
    /\ found \in [Goals -> Transitions \cup {NoTransition}]
    /\ reply \in [Goals -> {"none", "success", "failure"}]
    /\ node \in States
    /\ alive \in BOOLEAN
    /\ crashes \in 0..MaxCrashes
    /\ others \in 0..MaxOthers
    /\ applied \in [Goals -> States \cup {NotApplied}]

-----------------------------------------------------------------------------
(* The lifecycle state machine of the managed node (rcl_lifecycle).        *)

Available(s) ==
    CASE s = "unconfigured" -> {"configure", "unconfigured_shutdown"}
      [] s = "inactive"     -> {"cleanup", "activate", "inactive_shutdown"}
      [] s = "active"       -> {"deactivate", "active_shutdown"}
      [] s = "finalized"    -> {}

\* The goal state of a transition whose callback returns SUCCESS.
Leads == [t \in Transitions |->
            CASE t \in {"configure", "deactivate"} -> "inactive"
              [] t = "cleanup" -> "unconfigured"
              [] t = "activate" -> "active"
              [] OTHER -> "finalized"]

\* change_state looks the transition up by its label; the three shutdowns
\* share one, so a stale shutdown is carried out from the current state.
Label(t) ==
    IF t \in {"unconfigured_shutdown", "inactive_shutdown", "active_shutdown"}
    THEN "shutdown" ELSE t

\* Mutant of Resolved: the current state is not looked at.
ResolvedBlindly(t, s) == {t}

Resolved(t, s) == {u \in Available(s) : Label(u) = Label(t)}

\* transition_reaches_goal_state, the server's own copy of that knowledge.
ReachesGoalState(t, s) ==
    CASE t \in {"configure", "deactivate"} -> s = "inactive"
      [] t = "cleanup" -> s = "unconfigured"
      [] t = "activate" -> s = "active"
      [] t \in {"unconfigured_shutdown", "inactive_shutdown", "active_shutdown"}
            -> s = "finalized"

-----------------------------------------------------------------------------
Init ==
    /\ ok = TRUE
    /\ target \in [Goals -> Targets]
    /\ status = [g \in Goals |-> "unknown"]
    /\ handling = NoGoal
    /\ offer = {}
    /\ pc = [g \in Goals |-> "none"]
    /\ found = [g \in Goals |-> NoTransition]
    /\ reply = [g \in Goals |-> "none"]
    /\ node \in {"unconfigured", "inactive", "active"}
    /\ alive = TRUE
    /\ crashes = 0
    /\ others = 0
    /\ applied = [g \in Goals |-> NotApplied]

-----------------------------------------------------------------------------
(* The executor, which takes no new goal or cancel once rclcpp is shut     *)
(* down; the wait in handle_goal is then over, as after its time limit.    *)

\* wait_for_service gives up.
HandleGoalUnreachable(g) ==
    /\ ok
    /\ handling = NoGoal
    /\ status[g] = "unknown"
    /\ status' = [status EXCEPT ![g] = "rejected"]
    /\ UNCHANGED <<ok, target, handling, offer, pc, found, reply, nodeVars,
                   boundVars, applied>>

HandleGoalAsks(g) ==
    /\ ok
    /\ handling = NoGoal
    /\ status[g] = "unknown"
    /\ alive
    /\ handling' = g
    /\ offer' = {"pending"}
    /\ UNCHANGED <<ok, target, status, pc, found, reply, nodeVars, boundVars, applied>>

\* spin_until_future_complete gives up after 100 ms.
HandleGoalTimeout ==
    /\ handling # NoGoal
    /\ offer \in {{"pending"}, {"lost"}}
    /\ status' = [status EXCEPT ![handling] = "rejected"]
    /\ handling' = NoGoal
    /\ offer' = {}
    /\ UNCHANGED <<ok, target, pc, found, reply, nodeVars, boundVars, applied>>

\* A goal whose state some offered transition reaches is accepted, and
\* handle_accepted starts its thread.
HandleGoalDecides ==
    /\ handling # NoGoal
    /\ offer \subseteq Transitions
    /\ LET accept == \E t \in offer : ReachesGoalState(t, target[handling]) IN
       /\ status' = [status EXCEPT ![handling] =
                        IF accept THEN "executing" ELSE "rejected"]
       /\ pc' = [pc EXCEPT ![handling] = IF accept THEN "start" ELSE @]
    /\ handling' = NoGoal
    /\ offer' = {}
    /\ UNCHANGED <<ok, target, found, reply, nodeVars, boundVars, applied>>

\* Every cancel is accepted, once the executor is free to look at it.
HandleCancel(g) ==
    /\ ok
    /\ handling = NoGoal
    /\ status[g] = "executing"
    /\ status' = [status EXCEPT ![g] = "canceling"]
    /\ UNCHANGED <<ok, target, handling, offer, pc, found, reply, nodeVars,
                   boundVars, applied>>

-----------------------------------------------------------------------------
(* execute(), in the thread of goal g.                                     *)

Local == UNCHANGED <<ok, target, handling, offer, found, reply, nodeVars,
                     boundVars, applied>>

Goto(g, place) == pc' = [pc EXCEPT ![g] = place] /\ UNCHANGED status

Ends(g, how) ==
    /\ status' = [status EXCEPT ![g] = how]
    /\ pc' = [pc EXCEPT ![g] = "done"]

FirstCancelCheck(g) ==
    /\ pc[g] = "start"
    /\ IF status[g] = "canceling" THEN Ends(g, "canceled") ELSE Goto(g, "wait_query")
    /\ Local

\* wait_for_service, then the request; or fail(), as always after a shutdown.
Query(g) ==
    /\ pc[g] = "wait_query"
    /\ (alive /\ ok /\ Goto(g, "querying")) \/ Ends(g, "aborted")
    /\ Local

\* Mutant of QueryTimeout: the wait for the transitions has no limit.
QueryWithoutTimeout(g) == FALSE

QueryTimeout(g) ==
    /\ pc[g] \in {"querying", "query_lost"}
    /\ Ends(g, "aborted")
    /\ Local

\* Mutant of UseAnswer: the second cancel check is missing.
UseAnswerUncancelled(g) ==
    /\ pc[g] = "answered"
    /\ IF found[g] = NoTransition THEN Ends(g, "aborted") ELSE Goto(g, "wait_change")
    /\ Local

\* No transition to the target: fail().  Otherwise the second cancel check.
UseAnswer(g) ==
    /\ pc[g] = "answered"
    /\ IF found[g] = NoTransition THEN Ends(g, "aborted")
       ELSE IF status[g] = "canceling" THEN Ends(g, "canceled")
       ELSE Goto(g, "wait_change")
    /\ Local

\* change_state is sent, and waited for without a time limit ...
Change(g) ==
    /\ pc[g] = "wait_change"
    /\ (alive /\ ok /\ Goto(g, "changing")) \/ Ends(g, "aborted")
    /\ Local

\* Mutant of Conclude: any response is taken for a success.
ConcludeWithoutSuccess(g) == pc[g] = "responded" /\ Ends(g, "succeeded") /\ Local

Conclude(g) ==
    /\ pc[g] = "responded"
    /\ Ends(g, IF reply[g] = "success" THEN "succeeded" ELSE "aborted")
    /\ Local

\* ... but a shutdown ends the wait: the goal is aborted, whether the node still
\* has the request, has lost it, or has answered it meanwhile.
Interrupt(g) ==
    /\ ~ok
    /\ pc[g] \in {"changing", "stuck", "responded"}
    /\ status' = [status EXCEPT ![g] = "aborted"]
    /\ pc' = [pc EXCEPT ![g] = CASE @ = "changing" -> "interrupted"
                                [] @ = "stuck" -> "done"
                                [] OTHER -> "unheard"]
    /\ Local

Execute(g) ==
    FirstCancelCheck(g) \/ Query(g) \/ QueryTimeout(g) \/ UseAnswer(g)
        \/ Change(g) \/ Conclude(g) \/ Interrupt(g)

\* SIGINT: rclcpp::spin of main() returns, and so does every other spin.
Shutdown ==
    /\ ok
    /\ ok' = FALSE
    /\ UNCHANGED <<target, serverVars, reply, nodeVars, boundVars, applied>>

-----------------------------------------------------------------------------
(* The managed node.                                                       *)

\* It answers get_available_transitions for handle_goal ...
AnswerHandleGoal ==
    /\ alive
    /\ handling # NoGoal
    /\ offer = {"pending"}
    /\ offer' = Available(node)
    /\ UNCHANGED <<ok, target, status, handling, pc, found, reply, nodeVars,
                   boundVars, applied>>

\* ... and for execute(), which keeps the first transition to its target.
AnswerQuery(g) ==
    /\ alive
    /\ pc[g] = "querying"
    /\ LET usable == {t \in Available(node) : ReachesGoalState(t, target[g])} IN
       \/ usable = {} /\ found' = [found EXCEPT ![g] = NoTransition]
       \/ \E t \in usable : found' = [found EXCEPT ![g] = t]
    /\ Goto(g, "answered")
    /\ UNCHANGED <<ok, target, handling, offer, reply, nodeVars,
                   boundVars, applied>>

\* A transition t of the state machine: SUCCESS; FAILURE, which only
\* on_activate returns; or an exception, after which on_error leads to
\* unconfigured, or to finalized where it throws too.
Runs(t, outcome) ==
    \/ outcome = "success" /\ node' = Leads[t]
    \/ outcome = "failure" /\ t = "activate" /\ UNCHANGED node
    \/ outcome = "failure" /\ node' \in {"unconfigured", "finalized"}

\* It serves change_state: a label that its current state does not have is
\* refused.  It does not know whether the server still waits.
ServeChange(g) ==
    /\ alive
    /\ pc[g] \in {"changing", "interrupted"}
    /\ \/ /\ Resolved(found[g], node) = {}
          /\ reply' = [reply EXCEPT ![g] = "failure"]
          /\ UNCHANGED <<node, applied>>
       \/ \E t \in Resolved(found[g], node), outcome \in {"success", "failure"} :
             /\ Runs(t, outcome)
             /\ reply' = [reply EXCEPT ![g] = outcome]
             /\ applied' = IF outcome = "success"
                           THEN [applied EXCEPT ![g] = node'] ELSE applied
    /\ Goto(g, IF pc[g] = "changing" THEN "responded" ELSE "unheard")
    /\ UNCHANGED <<ok, target, handling, offer, found, alive, boundVars>>

\* Another client of the same node, such as ros2 lifecycle set.
OtherClient ==
    /\ alive
    /\ others < MaxOthers
    /\ others' = others + 1
    /\ \E t \in Available(node), outcome \in {"success", "failure"} : Runs(t, outcome)
    /\ UNCHANGED <<ok, target, serverVars, reply, alive, crashes, applied>>

\* The process dies with the requests it has not answered, and a process
\* launched later never sees them: the two waits with a time limit run into
\* it, the wait for change_state never ends.
NodeDies ==
    /\ alive
    /\ crashes < MaxCrashes
    /\ crashes' = crashes + 1
    /\ alive' = FALSE
    /\ offer' = IF offer = {"pending"} THEN {"lost"} ELSE offer
    /\ pc' = [g \in Goals |-> CASE pc[g] = "querying" -> "query_lost"
                                [] pc[g] = "changing" -> "stuck"
                                [] pc[g] = "interrupted" -> "done"
                                [] OTHER -> pc[g]]
    /\ UNCHANGED <<ok, target, status, handling, found, reply, node, others, applied>>

NodeRestarts ==
    /\ ~alive
    /\ alive' = TRUE
    /\ node' = "unconfigured"
    /\ UNCHANGED <<ok, target, serverVars, reply, boundVars, applied>>

-----------------------------------------------------------------------------
Executor ==
    \/ HandleGoalTimeout
    \/ HandleGoalDecides
    \/ \E g \in Goals : HandleGoalUnreachable(g) \/ HandleGoalAsks(g) \/ HandleCancel(g)

Node ==
    \/ AnswerHandleGoal
    \/ \E g \in Goals : AnswerQuery(g) \/ ServeChange(g)
    \/ OtherClient
    \/ NodeDies
    \/ NodeRestarts

Next == Executor \/ Shutdown \/ Node \/ \E g \in Goals : Execute(g)

Spec == Init /\ [][Next]_vars

\* Each thread is scheduled and the executor goes on with a goal it handles, as
\* long as the process is sure to live, which is until its shutdown; a node that
\* is alive serves change_state.
FairSpec ==
    /\ Spec
    /\ WF_vars(ok /\ (HandleGoalTimeout \/ HandleGoalDecides))
    /\ \A g \in Goals : WF_vars(ok /\ Execute(g)) /\ WF_vars(ServeChange(g))

-----------------------------------------------------------------------------
(* Properties.                                                             *)

\* The result tells the truth, although the node's state was read earlier and
\* other goals and clients may have changed it since: "succeeded" means that
\* this goal's change_state put the node in the state asked for, "aborted" and
\* "canceled" that it did not carry out a transition.  The one exception is a
\* goal that was aborted because a shutdown of the server interrupted its wait
\* for change_state: the node may have carried that request out, or do so later.
ResultIsTruthful ==
    \A g \in Goals :
        /\ status[g] = "succeeded" => applied[g] = target[g]
        /\ status[g] = "canceled" => applied[g] = NotApplied
        /\ status[g] = "aborted" =>
              \/ applied[g] = NotApplied
              \/ ~ok /\ pc[g] = "unheard" /\ applied[g] = target[g]

\* Goals that race for the same state are accepted together, and at most one
\* of them wins, as long as nobody else moves the node.
OneWinner ==
    (others = 0 /\ crashes = 0 /\ \A g, h \in Goals : target[g] = target[h]) =>
        Cardinality({g \in Goals : status[g] = "succeeded"}) <= 1

\* A cancel that the executor has taken before the thread of the goal looks at
\* the offered transitions is in time: that goal never moves the node.
CancelInTime ==
    \A g \in Goals :
        [](/\ status[g] = "canceling"
           /\ pc[g] \in {"start", "wait_query", "querying", "query_lost", "answered"}
           => [](applied[g] = NotApplied))

ActionServer == INSTANCE ActionGoals WITH Goals <- Goals, status <- status
Managed == INSTANCE ManagedNode WITH state <- node

\* However requests of two goals, of another client and of an earlier process
\* cross, the node only makes transitions of its state machine: a request is
\* carried out from the state it meets, not from the one it was meant for.
NodeIsManaged == Managed!RelaunchedSpec

\* Executor and threads together only take transitions that rcl_action allows;
\* any other would throw in a detached thread and end the process.
ImplementsActionGoals == ActionServer!Spec

\* Every goal that handle_goal has begun with is decided on, and ends if it is
\* accepted, although answers may be late or lost.  A death of the node costs at
\* most the goals that wait for change_state then: no other wait is without a
\* limit, neither a thread's nor that of the executor.  A server that is shut
\* down owes nothing more.
OnlyChangeIsUnbounded ==
    \A g \in Goals : handling = g \/ status[g] \in {"executing", "canceling"} ~>
        (status[g] \in ActionServer!Terminal \/ pc[g] = "stuck" \/ ~ok)
=============================================================================
