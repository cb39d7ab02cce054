-------------------------- MODULE TreeExecutionServer --------------------------
(***************************************************************************)
(* BT::TreeExecutionServer of BehaviorTree.ROS2: an action server that     *)
(* runs a behavior tree per goal, in one thread at a time.  The action     *)
(* callbacks share a mutually exclusive callback group, so handle_accepted *)
(* that joins the thread of the goal before keeps every other callback of  *)
(* the node waiting.                                                       *)
(***************************************************************************)
EXTENDS Naturals, FiniteSets, Sequences

CONSTANTS
    Goals,
    MaxVersion      \* bound on the changes of the node's parameters

ASSUME MaxVersionAssumption == MaxVersion \in Nat \ {0}

VARIABLES
    ok,             \* rclcpp::ok()
    version,        \* of the parameters behind param_listener
    params,         \* version copied into p_->params
    factory,        \* version registered in p_->factory, 0 if none yet
    known,          \* whether the XML files define the goal's target_tree
    status,         \* goal state kept by rclcpp_action
    pc,             \* where handle_accepted and execute() of a goal are
    tree,           \* p_->tree of the goal: its status, or "halted"
    report,         \* the calls of onTreeExecutionCompleted for each goal
    asked,          \* history: version when the goal was accepted
    built           \* history: version the goal's tree was built from

vars == <<ok, version, params, factory, known, status, pc, tree, report,
          asked, built>>

Versions == 0..MaxVersion
TreeStatuses == {"idle", "running", "success", "failure", "halted"}
Causes == {"completed", "client", "onLoopAfterTick", "shutdown"}
Calls == [was_cancelled : BOOLEAN, cause : Causes]

TypeOK ==
    /\ ok \in BOOLEAN
    /\ version \in Versions /\ params \in Versions /\ factory \in Versions
    /\ known \in [Goals -> BOOLEAN]
    /\ status \in [Goals -> {"unknown", "executing", "canceling", "rejected",
                             "succeeded", "aborted", "canceled"}]
    /\ pc \in [Goals -> {"none", "joining", "start", "registering", "create",
                         "loop", "ticked", "done", "thrown", "terminated"}]
    /\ tree \in [Goals -> TreeStatuses]
    /\ report \in [Goals -> Seq(Calls)]
    /\ asked \in [Goals -> Versions]
    /\ built \in [Goals -> Versions]

Init ==
    /\ ok = TRUE
    /\ version = 1 /\ params = 1 /\ factory = 0
    /\ known \in [Goals -> BOOLEAN]
    /\ status = [g \in Goals |-> "unknown"]
    /\ pc = [g \in Goals |-> "none"]
    /\ tree = [g \in Goals |-> "idle"]
    /\ report = [g \in Goals |-> <<>>]
    /\ asked = [g \in Goals |-> 0]
    /\ built = [g \in Goals |-> 0]

-----------------------------------------------------------------------------
(* The executor.                                                           *)

InThread == {g \in Goals : pc[g] \in {"start", "registering", "create", "loop", "ticked"}}
ExecutorFree == ok /\ \A g \in Goals : pc[g] # "joining"

\* The one-shot timer runs the first registration.
SingleShotTimer ==
    /\ ExecutorFree
    /\ factory = 0
    /\ factory' = version
    /\ params' = version
    /\ UNCHANGED <<ok, version, known, status, pc, tree, report, asked, built>>

ParametersChange ==
    /\ ExecutorFree
    /\ version < MaxVersion
    /\ version' = version + 1
    /\ UNCHANGED <<ok, params, factory, known, status, pc, tree, report,
                   asked, built>>

\* onGoalReceived returns false.
HandleGoalRejects(g) ==
    /\ ExecutorFree
    /\ status[g] = "unknown"
    /\ status' = [status EXCEPT ![g] = "rejected"]
    /\ UNCHANGED <<ok, version, params, factory, known, pc, tree, report,
                   asked, built>>

\* Mutant of HandleAccepted: the thread before is not joined.
HandleAcceptedWithoutJoin(g) ==
    /\ ExecutorFree
    /\ status[g] = "unknown"
    /\ status' = [status EXCEPT ![g] = "executing"]
    /\ pc' = [pc EXCEPT ![g] = "start"]
    /\ asked' = [asked EXCEPT ![g] = version]
    /\ UNCHANGED <<ok, version, params, factory, known, tree, report,
                   built>>

\* ACCEPT_AND_EXECUTE, and handle_accepted up to the join.
HandleAccepted(g) ==
    /\ ExecutorFree
    /\ status[g] = "unknown"
    /\ status' = [status EXCEPT ![g] = "executing"]
    /\ pc' = [pc EXCEPT ![g] = IF InThread = {} THEN "start" ELSE "joining"]
    /\ asked' = [asked EXCEPT ![g] = version]
    /\ UNCHANGED <<ok, version, params, factory, known, tree, report,
                   built>>

\* The thread of the goal before has ended.
Joined(g) ==
    /\ pc[g] = "joining"
    /\ InThread = {}
    /\ pc' = [pc EXCEPT ![g] = "start"]
    /\ UNCHANGED <<ok, version, params, factory, known, status, tree, report,
                   asked, built>>

\* handle_cancel accepts as long as the goal is active.
HandleCancel(g) ==
    /\ ExecutorFree
    /\ status[g] = "executing"
    /\ status' = [status EXCEPT ![g] = "canceling"]
    /\ UNCHANGED <<ok, version, params, factory, known, pc, tree, report,
                   asked, built>>

-----------------------------------------------------------------------------
(* execute(), in the thread.                                               *)

Goto(g, place) == pc' = [pc EXCEPT ![g] = place]

Ends(g, how) ==
    /\ status' = [status EXCEPT ![g] = how]
    /\ Goto(g, "done")

\* The call onTreeExecutionCompleted(status, cancelled).
Completed(g, cancelled, why) ==
    report' = [report EXCEPT ![g] = Append(@, [was_cancelled |-> cancelled, cause |-> why])]

\* An exception of the tree: abort, and no call of onTreeExecutionCompleted.
Throws(g) ==
    /\ status' = [status EXCEPT ![g] = "aborted"]
    /\ Goto(g, "thrown")
    /\ UNCHANGED report

\* Mutant of CheckParameters: is_old is not asked.
CheckNoParameters(g) ==
    /\ pc[g] = "start"
    /\ Goto(g, "create")
    /\ UNCHANGED <<ok, version, params, factory, known, status, tree, report,
                   asked, built>>

\* param_listener->is_old(params)
CheckParameters(g) ==
    /\ pc[g] = "start"
    /\ Goto(g, IF params # version THEN "registering" ELSE "create")
    /\ UNCHANGED <<ok, version, params, factory, known, status, tree, report,
                   asked, built>>

ExecuteRegistration(g) ==
    /\ pc[g] = "registering"
    /\ params' = version
    /\ factory' = version
    /\ Goto(g, "create")
    /\ UNCHANGED <<ok, version, known, status, tree, report, asked, built>>

\* Outside of the try of execute(), and in the timer, an exception of
\* executeRegistration (of a plugin or tree directory that does not exist, say)
\* ends the process, and every thread where it is.
RegistrationThrows ==
    /\ (ExecutorFree /\ factory = 0) \/ \E g \in Goals : pc[g] = "registering"
    /\ ok' = FALSE
    /\ pc' = [g \in Goals |-> IF pc[g] \in {"none", "done", "thrown"}
                              THEN pc[g] ELSE "terminated"]
    /\ UNCHANGED <<version, params, factory, known, status, tree, report,
                   asked, built>>

\* createTree throws if no registered file defines the tree, and the publisher
\* for Groot2 if it cannot have its port.
CreateTree(g) ==
    /\ pc[g] = "create"
    /\ \/ /\ known[g] /\ factory # 0
          /\ Goto(g, "loop")
          /\ tree' = [tree EXCEPT ![g] = "running"]
          /\ built' = [built EXCEPT ![g] = factory]
          /\ UNCHANGED <<status, report>>
       \/ Throws(g) /\ UNCHANGED <<tree, built>>
    /\ UNCHANGED <<ok, version, params, factory, known, asked>>

\* Top of the loop while the tree is running: the cancel check, or one tick.
StopOnCancel(g) ==
    /\ pc[g] = "loop"
    /\ ok
    /\ status[g] = "canceling"
    /\ tree' = [tree EXCEPT ![g] = "halted"]
    /\ Completed(g, TRUE, "client")
    /\ Ends(g, "canceled")
    /\ UNCHANGED <<ok, version, params, factory, known, asked, built>>

\* Mutant of Tick: the loop does not look for a cancel first.
TickBeforeCancel(g) ==
    /\ pc[g] = "loop"
    /\ ok
    /\ \/ /\ \E s \in {"running", "success", "failure"} : tree' = [tree EXCEPT ![g] = s]
          /\ Goto(g, "ticked")
          /\ UNCHANGED <<status, report>>
       \/ UNCHANGED tree /\ Throws(g)
    /\ UNCHANGED <<ok, version, params, factory, known, asked, built>>

Tick(g) ==
    /\ pc[g] = "loop"
    /\ ok
    /\ status[g] # "canceling"
    /\ \/ /\ \E s \in {"running", "success", "failure"} : tree' = [tree EXCEPT ![g] = s]
          /\ Goto(g, "ticked")
          /\ UNCHANGED <<status, report>>
       \/ UNCHANGED tree /\ Throws(g)
    /\ UNCHANGED <<ok, version, params, factory, known, asked, built>>

\* haltTree() throws, in one stop or the other: a node of the tree does in its
\* halt(), such as an action node whose goal handle the client has forgotten.
HaltThrows(g) ==
    /\ pc[g] = "ticked" \/ (pc[g] = "loop" /\ ok /\ status[g] = "canceling")
    /\ Throws(g)
    /\ UNCHANGED <<ok, version, params, factory, known, tree, asked, built>>

\* Mutant of StopAfterTick: the return after abort() is missing.
StopAfterTickGoesOn(g) ==
    /\ pc[g] = "ticked"
    /\ tree' = [tree EXCEPT ![g] = "halted"]
    /\ Completed(g, TRUE, "onLoopAfterTick")
    /\ status' = [status EXCEPT ![g] = "aborted"]
    /\ Goto(g, "loop")
    /\ UNCHANGED <<ok, version, params, factory, known, asked, built>>

\* onLoopAfterTick returns a status: the tree is halted and the goal aborted.
StopAfterTick(g) ==
    /\ pc[g] = "ticked"
    /\ tree' = [tree EXCEPT ![g] = "halted"]
    /\ Completed(g, TRUE, "onLoopAfterTick")
    /\ Ends(g, "aborted")
    /\ UNCHANGED <<ok, version, params, factory, known, asked, built>>

NextTurn(g) ==
    /\ pc[g] = "ticked"
    /\ tree[g] = "running"
    /\ Goto(g, "loop")
    /\ UNCHANGED <<ok, version, params, factory, known, status, tree, report,
                   asked, built>>

\* The loop ends: the tree has completed, or ROS is shut down.
Finish(g) ==
    /\ \/ pc[g] = "ticked" /\ tree[g] # "running"
       \/ pc[g] = "loop" /\ ~ok
    /\ Completed(g, FALSE, IF tree[g] = "running" THEN "shutdown" ELSE "completed")
    /\ Ends(g, IF tree[g] = "success" THEN "succeeded" ELSE "aborted")
    /\ UNCHANGED <<ok, version, params, factory, known, tree, asked, built>>

Execute(g) ==
    \/ CheckParameters(g)
    \/ ExecuteRegistration(g)
    \/ CreateTree(g)
    \/ StopOnCancel(g)
    \/ Tick(g)
    \/ HaltThrows(g)
    \/ StopAfterTick(g)
    \/ NextTurn(g)
    \/ Finish(g)

Shutdown ==
    /\ ok
    /\ ok' = FALSE
    /\ UNCHANGED <<version, params, factory, known, status, pc, tree, report,
                   asked, built>>

Next ==
    \/ SingleShotTimer
    \/ ParametersChange
    \/ RegistrationThrows
    \/ Shutdown
    \/ \E g \in Goals :
          \/ HandleGoalRejects(g)
          \/ HandleAccepted(g)
          \/ Joined(g)
          \/ HandleCancel(g)
          \/ Execute(g)

Spec == Init /\ [][Next]_vars

\* Threads are scheduled, each tick returns, and a join returns once its thread
\* has ended; all of it as long as the process is sure to live.
FairSpec ==
    Spec /\ \A g \in Goals : WF_vars(ok /\ Execute(g)) /\ WF_vars(ok /\ Joined(g))

-----------------------------------------------------------------------------
(* Properties.                                                             *)

\* One tree runs at a time: p_->tree, tree_name and payload belong to a single
\* thread, however many goals are accepted while it runs.
OneTreeAtATime == Cardinality(InThread) <= 1

\* However a goal ends, unless an exception of its tree ends it, there is one
\* call of onTreeExecutionCompleted, and it comes with the result it fits:
\* "canceled" only because the client asked for it, "succeeded" only because the
\* tree did.  And no node of the tree is left running, but by a shutdown.
EndedGoalIsReported ==
    \A g \in Goals :
        /\ Len(report[g]) <= 1
        /\ status[g] \in {"succeeded", "aborted", "canceled"} /\ pc[g] # "thrown" =>
              /\ Len(report[g]) = 1
              /\ LET cause == report[g][1].cause IN
                 /\ status[g] = "canceled" <=> cause = "client"
                 /\ status[g] = "succeeded" <=> cause = "completed" /\ tree[g] = "success"
                 /\ tree[g] = "running" => cause = "shutdown" /\ ~ok

\* A tree is built from the parameters, plugins and XML files that were in
\* force when its goal was accepted, or from later ones, although the goal may
\* have waited for another one to end and the timer may have come in between.
TreeIsUpToDate == \A g \in Goals : built[g] # 0 => built[g] >= asked[g]

ActionServer == INSTANCE ActionGoals WITH Goals <- Goals, status <- status

\* Executor and thread together only take transitions that rcl_action allows.
ImplementsActionGoals == ActionServer!Spec

\* A cancel that the server has accepted ends its goal however long the tree
\* would have run, even if another goal waits to be joined; unless the process
\* is shut down or ends before.
AcceptedCancelEnds ==
    \A g \in Goals :
        status[g] = "canceling" ~> (status[g] \in ActionServer!Terminal \/ ~ok)
=============================================================================
