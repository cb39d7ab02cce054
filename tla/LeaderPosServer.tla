---------------------------- MODULE LeaderPosServer ----------------------------
(***************************************************************************)
(* The action server of inrof_control/src/leader_pos_server.cpp, which     *)
(* plays the leader robot: it fetches a route from PathGenerateServer and  *)
(* publishes one pose of it per 50 ms on leader/odometry.  One detached    *)
(* thread per goal runs execute(), beside the executor that accepts goals  *)
(* and cancels; nothing keeps two goals from running at the same time.     *)
(***************************************************************************)
EXTENDS PathGenerate

CONSTANTS
    Goals,
    Requests    \* what clients may ask for: each a function from the goals they
                \* send to start, goal, waypoints and distance per cycle

ASSUME RequestsAssumption ==
    \A f \in Requests : \A g \in DOMAIN f :
        g \in Goals /\ f[g] \in PathRequest /\ AxisParallel(f[g])

VARIABLES
    ok,         \* rclcpp::ok()
    pathUp,     \* the path service has been launched
    request,    \* what each goal asks for
    status,     \* goal state kept by rclcpp_action
    pc,         \* where execute() of each goal is
    route,      \* response->route of each goal
    i,          \* poses each goal has published
    leader,     \* the last message on leader/odometry, with its publisher
    late        \* history: poses a goal has published since it was canceled

vars == <<ok, pathUp, request, status, pc, route, i, leader, late>>

Places == {"none", "waiting", "request_lost", "check", "publish", "sleep", "done"}
Silent == [by |-> {}, pose |-> <<>>]
Poses == UNION {Range(GenPath(req)) : req \in UNION {Range(f) : f \in Requests}}

TypeOK ==
    /\ ok \in BOOLEAN
    /\ pathUp \in BOOLEAN
    /\ request \in Requests
    /\ status \in [Goals -> {"unknown", "executing", "canceling", "succeeded",
                             "aborted", "canceled"}]
    /\ pc \in [Goals -> Places]
    /\ \A g \in Goals : route[g] # <<>> => route[g] = GenPath(request[g])
    /\ \A g \in Goals : i[g] \in 0..Len(route[g])
    /\ leader \in [by : {{g} : g \in Goals}, pose : Poses] \cup {Silent}
    /\ late \in [Goals -> Nat]

Init ==
    /\ ok = TRUE
    /\ pathUp \in BOOLEAN
    /\ request \in Requests
    /\ status = [g \in Goals |-> "unknown"]
    /\ pc = [g \in Goals |-> "none"]
    /\ route = [g \in Goals |-> <<>>]
    /\ i = [g \in Goals |-> 0]
    /\ leader = Silent
    /\ late = [g \in Goals |-> 0]

Goto(g, place) == pc' = [pc EXCEPT ![g] = place]

Ends(g, how) ==
    /\ status' = [status EXCEPT ![g] = how]
    /\ Goto(g, "done")

-----------------------------------------------------------------------------
(* The executor.                                                           *)

\* handle_goal refuses nothing (is_out_of_map is always false);
\* handle_accepted starts the thread, which sends the path request at once:
\* it waits neither for the service nor for its new client to discover it, so
\* the request may be lost.
HandleGoal(g) ==
    /\ ok
    /\ g \in DOMAIN request
    /\ status[g] = "unknown"
    /\ status' = [status EXCEPT ![g] = "executing"]
    /\ \/ pathUp /\ Goto(g, "waiting")
       \/ Goto(g, "request_lost")
    /\ UNCHANGED <<ok, pathUp, request, route, i, leader, late>>

HandleCancel(g) ==
    /\ ok
    /\ status[g] = "executing"
    /\ status' = [status EXCEPT ![g] = "canceling"]
    /\ UNCHANGED <<ok, pathUp, request, pc, route, i, leader, late>>

-----------------------------------------------------------------------------
(* execute(), in the thread of goal g.                                     *)

\* Mutant of CancelWhileWaiting: is_canceling() is not asked.
CancelWhileWaitingUnasked(g) ==
    /\ ok
    /\ pc[g] \in {"waiting", "request_lost"}
    /\ Ends(g, "canceled")
    /\ UNCHANGED <<ok, pathUp, request, route, i, leader, late>>

\* Mutant of CancelWhileWaiting: the check comes after a wait without a limit.
CancelAfterResponse(g) ==
    /\ ok
    /\ pc[g] = "waiting"
    /\ status[g] = "canceling"
    /\ Ends(g, "canceled")
    /\ UNCHANGED <<ok, pathUp, request, route, i, leader, late>>

\* A wait of 10 ms ends without a response: the cancel check.
CancelWhileWaiting(g) ==
    /\ ok
    /\ pc[g] \in {"waiting", "request_lost"}
    /\ status[g] = "canceling"
    /\ Ends(g, "canceled")
    /\ UNCHANGED <<ok, pathUp, request, route, i, leader, late>>

\* The response arrives.  An empty route would be answered with canceled(),
\* which rcl_action refuses unless the goal is canceling.
PathArrives(g) ==
    /\ ok
    /\ pc[g] = "waiting"
    /\ route' = [route EXCEPT ![g] = GenPath(request[g])]
    /\ IF route'[g] = <<>> THEN Ends(g, "canceled")
       ELSE Goto(g, "check") /\ UNCHANGED status
    /\ UNCHANGED <<ok, pathUp, request, i, leader, late>>

\* Mutant of CheckCancel: a cancel is not looked for.
CheckOnlyShutdown(g) ==
    /\ pc[g] = "check"
    /\ IF ~ok THEN Ends(g, "succeeded") ELSE Goto(g, "publish") /\ UNCHANGED status
    /\ UNCHANGED <<ok, pathUp, request, route, i, leader, late>>

\* Top of the publishing loop.
CheckCancel(g) ==
    /\ pc[g] = "check"
    /\ IF ~ok THEN Ends(g, "succeeded")
       ELSE IF status[g] = "canceling" THEN Ends(g, "canceled")
       ELSE Goto(g, "publish") /\ UNCHANGED status
    /\ UNCHANGED <<ok, pathUp, request, route, i, leader, late>>

\* Mutant of PublishPose: a pose that is late is skipped.
PublishPoseSkipping(g) ==
    /\ pc[g] = "publish"
    /\ i' = [i EXCEPT ![g] = IF @ + 2 <= Len(route[g]) THEN @ + 2 ELSE @ + 1]
    /\ leader' = IF ok THEN [by |-> {g}, pose |-> route[g][i'[g]]] ELSE leader
    /\ late' = [late EXCEPT ![g] = IF status[g] = "canceling" THEN @ + 1 ELSE @]
    /\ IF Len(route[g]) <= i'[g] THEN Ends(g, "succeeded")
       ELSE Goto(g, "sleep") /\ UNCHANGED status
    /\ UNCHANGED <<ok, pathUp, request, route>>

\* A pose is published; after the last one the loop is left and the goal
\* succeeds.
PublishPose(g) ==
    /\ pc[g] = "publish"
    /\ i' = [i EXCEPT ![g] = @ + 1]
    /\ leader' = IF ok THEN [by |-> {g}, pose |-> route[g][i'[g]]] ELSE leader
    /\ late' = [late EXCEPT ![g] = IF status[g] = "canceling" THEN @ + 1 ELSE @]
    /\ IF Len(route[g]) <= i'[g] THEN Ends(g, "succeeded")
       ELSE Goto(g, "sleep") /\ UNCHANGED status
    /\ UNCHANGED <<ok, pathUp, request, route>>

\* sleep_until ends on time, or early because of a shutdown.
Sleep(g) ==
    /\ pc[g] = "sleep"
    /\ \/ Goto(g, "check") /\ UNCHANGED status
       \/ ~ok /\ Ends(g, "aborted")
    /\ UNCHANGED <<ok, pathUp, request, route, i, leader, late>>

\* The wait for the path ends because of a shutdown.
ShutdownWhileWaiting(g) ==
    /\ ~ok
    /\ pc[g] \in {"waiting", "request_lost"}
    /\ Ends(g, "aborted")
    /\ UNCHANGED <<ok, pathUp, request, route, i, leader, late>>

Execute(g) ==
    \/ CancelWhileWaiting(g)
    \/ CheckCancel(g)
    \/ PublishPose(g)
    \/ Sleep(g)
    \/ ShutdownWhileWaiting(g)

-----------------------------------------------------------------------------
\* The path server is launched beside this one, in any order.
PathServerStarts ==
    /\ ~pathUp
    /\ pathUp' = TRUE
    /\ UNCHANGED <<ok, request, status, pc, route, i, leader, late>>

\* SIGINT: the threads run on until main() returns, however far they get.
Shutdown ==
    /\ ok
    /\ ok' = FALSE
    /\ UNCHANGED <<pathUp, request, status, pc, route, i, leader, late>>

Next ==
    \/ PathServerStarts
    \/ Shutdown
    \/ \E g \in Goals :
          HandleGoal(g) \/ HandleCancel(g) \/ PathArrives(g) \/ Execute(g)

Spec == Init /\ [][Next]_vars

\* The threads are scheduled, until the process may exit after a shutdown, and a
\* path service that has a request answers it.  Nothing is assumed of a service
\* that has not got it.
FairSpec ==
    Spec /\ \A g \in Goals : WF_vars(ok /\ Execute(g)) /\ WF_vars(PathArrives(g))

-----------------------------------------------------------------------------
(* Properties.                                                             *)

\* Within a route the leader moves by exactly one resolution per pose, except
\* for the last one: the remainders that truncation dropped, on every segment,
\* are made up there in a single step.  It stays below one resolution per
\* segment, and it is the only bound gen_path gives on the speed.
RouteSpacing ==
    \A g \in Goals : route[g] # <<>> =>
        LET req == request[g]
            n == Len(route[g])
            gap(k) == Distance(route[g][k], route[g][k + 1])
        IN  /\ Head(route[g]) = req.start
            /\ Last(route[g]) = req.goal
            /\ \A k \in 1..(n - 2) : gap(k) = req.resolution
            /\ gap(n - 1) < req.resolution * Cardinality(Segments(req))

\* The leader is never more than one goal step ahead of a cancel: at most one
\* pose is published between the moment a cancel is accepted and the end.
CancelStopsLeader == \A g \in Goals : late[g] <= 1

\* A goal's poses are those of its own route, in order, without a gap and to
\* the end: as long as no other goal publishes, no pose is skipped or repeated,
\* and before a shutdown nobody is told of a success earlier than at the last
\* pose, whatever the other goals do.
LeaderFollowsRoute ==
    [][\A g \in Goals :
          /\ leader.by = {g} /\ leader'.by = {g} /\ leader' # leader =>
                \E k \in 1..(Len(route[g]) - 1) :
                    leader.pose = route[g][k] /\ leader'.pose = route[g][k + 1]
          /\ ok /\ status[g] # "succeeded" /\ status'[g] = "succeeded" =>
                leader' = [by |-> {g}, pose |-> Last(route[g])]]_vars

ActionServer == INSTANCE ActionGoals WITH Goals <- Goals, status <- status

\* Executor and threads together only take transitions that rcl_action allows;
\* canceled() on an executing goal would end the process.
ImplementsActionGoals == ActionServer!Spec

\* Every goal that is accepted ends, but for one wait without a limit: a goal
\* whose request has not reached the path service waits for ever, until it is
\* canceled.  A server that is shut down may exit before its goals have ended.
OnlyLostRequestHangs ==
    \A g \in Goals : status[g] \in {"executing", "canceling"} ~>
        \/ status[g] \in ActionServer!Terminal
        \/ status[g] = "executing" /\ pc[g] = "request_lost"
        \/ ~ok
=============================================================================
