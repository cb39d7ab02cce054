------------------------------- MODULE Mission -------------------------------
(***************************************************************************)
(* The mission: the tree of inrof_bt/config/main_bt.xml, ticked by         *)
(* inrof_bt_node.cpp, composed with the two action servers it drives and   *)
(* with the managed node behind the first of them.                         *)
(*                                                                         *)
(*   step 1  follower inactive        step 3  leader along the route       *)
(*   step 2  follower active          step 4  follower inactive            *)
(*           (after a Delay)                                               *)
(*                                                                         *)
(* A step stands for its RosActionNode, of which only what it tells the    *)
(* tree is kept; RosActionNode has the details.  The servers are whole:    *)
(* LifecycleServer and LeaderPosServer, one goal per step, but for their   *)
(* shutdowns: only the client may be interrupted (GiveUp).                 *)
(***************************************************************************)
EXTENDS Integers, SequencesExt

CONSTANTS
    StatePorts,     \* the ports "state" of steps 1, 2 and 4, as lists of words
    WaypointPorts,  \* the ports "waypoints" of step 3, as lists of lists
    Route,          \* the path request of step 3
    MaxCrashes, MaxOthers

LifecycleSteps == {1, 2, 4}
LeaderStep == 3
Steps == 1..4
NoGoal == 0
States == {"unconfigured", "inactive", "active", "finalized"}

ASSUME PortsAssumption == StatePorts \subseteq [LifecycleSteps -> Seq(STRING)]
ASSUME BoundsAssumption == MaxCrashes \in Nat /\ MaxOthers \in Nat

VARIABLES
    ports, waypoints,                                   \* of the tree
    step, delayed, sent, verdict, gaveUp,               \* of the client
    target, status, handling, offer, pc, found, reply,  \* of LifecycleServer
    node, alive, crashes, others, applied,
    pathUp, request, leader_status, leader_pc,          \* of LeaderPosServer
    route, i, leader, late,
    ok                                                  \* of both servers

treeVars == <<ports, waypoints, step, delayed, sent, verdict, gaveUp>>
lifecycleVars == <<ok, target, status, handling, offer, pc, found, reply, node,
                   alive, crashes, others, applied>>
leaderVars == <<ok, pathUp, request, leader_status, leader_pc, route, i, leader, late>>
vars == <<treeVars, lifecycleVars, leaderVars>>

Lifecycle == INSTANCE LifecycleServer
    WITH Goals <- LifecycleSteps, Targets <- States

Leader == INSTANCE LeaderPosServer
    WITH Goals <- {LeaderStep}, Requests <- [{LeaderStep} -> {Route}],
         status <- leader_status, pc <- leader_pc

ASSUME RouteAssumption == Route \in Leader!PathRequest /\ Leader!AxisParallel(Route)

TypeOK ==
    /\ ports \in StatePorts /\ waypoints \in WaypointPorts
    /\ step \in Steps /\ sent \subseteq 1..step
    /\ delayed \in BOOLEAN /\ gaveUp \in BOOLEAN
    /\ verdict \in {"running", "success", "failure", "terminated"}
    /\ Lifecycle!TypeOK
    /\ Leader!TypeOK

-----------------------------------------------------------------------------
(* The ports.                                                              *)

\* The words of a port are what blanks, '-' and '_' separate, in lower case.
Normalized(words) ==
    IF Len(words) > 2 /\ words[1] = "primary" /\ words[2] = "state"
    THEN SubSeq(words, 3, Len(words)) ELSE words

Number == [w \in {"2", "3", "259"} |->
            CASE w = "2" -> 2 [] w = "3" -> 3 [] w = "259" -> 259]

StateOfId == <<"unconfigured", "inactive", "active", "finalized">>

\* assign_lifecycle_state; the id is a uint8_t.
OfId(n) == IF n % 256 \in DOMAIN StateOfId THEN StateOfId[n % 256] ELSE "none"

\* Mutant of ParseState: no test for the range of uint8_t.
ParseStateUnbounded(words) ==
    LET w == Normalized(words) IN
    IF Len(w) # 1 THEN "none"
    ELSE IF w[1] \in DOMAIN Number THEN OfId(Number[w[1]])
    ELSE IF w[1] = "shutdown" THEN "finalized"
    ELSE IF w[1] \in States THEN w[1] ELSE "none"

ParseState(words) ==
    LET w == Normalized(words) IN
    IF Len(w) # 1 THEN "none"
    ELSE IF w[1] \in DOMAIN Number
         THEN IF Number[w[1]] > 255 THEN "none" ELSE OfId(Number[w[1]])
    ELSE IF w[1] = "shutdown" THEN "finalized"
    ELSE IF w[1] \in States THEN w[1] ELSE "none"

\* setGoal of the leader: the first waypoint that is not a pair is refused,
\* a coordinate that is not a number throws.
WaypointsGoal ==
    LET bad == {k \in DOMAIN waypoints :
                   Len(waypoints[k]) # 2 \/ "word" \in Range(waypoints[k])}
    IN  IF bad = {} THEN "goal"
        ELSE IF Len(waypoints[Min(bad)]) # 2 THEN "invalid" ELSE "throws"

Goal(s) ==
    IF s = LeaderStep THEN WaypointsGoal
    ELSE IF ParseState(ports[s]) = "none" THEN "invalid" ELSE "goal"

-----------------------------------------------------------------------------
Init ==
    /\ ports \in StatePorts /\ waypoints \in WaypointPorts
    /\ step = 1 /\ delayed = FALSE /\ sent = {}
    /\ verdict = "running" /\ gaveUp = FALSE
    /\ Lifecycle!Init
    /\ \A s \in LifecycleSteps :
          target[s] = IF Goal(s) = "goal" THEN ParseState(ports[s]) ELSE "finalized"
    /\ Leader!Init

Ends(how) == verdict' = how /\ UNCHANGED <<ports, waypoints, step, delayed, sent>>

ServerStatus(s) == IF s = LeaderStep THEN leader_status[s] ELSE status[s]
Terminal == {"rejected", "succeeded", "aborted", "canceled"}

\* delay_msec, before the first tick of step 2.
DelayPasses ==
    /\ verdict = "running" /\ step = 2 /\ ~delayed
    /\ delayed' = TRUE
    /\ UNCHANGED <<ports, waypoints, step, sent, verdict, gaveUp, lifecycleVars,
                   leaderVars>>

\* The first tick of a step: setGoal, then the goal, unless the server is not
\* reachable.
SendGoal ==
    /\ verdict = "running" /\ step \notin sent
    /\ step = 2 => delayed
    /\ \/ Goal(step) = "throws" /\ Ends("terminated")
       \/ Goal(step) # "throws" /\ Ends("failure")
       \/ /\ Goal(step) = "goal"
          /\ sent' = sent \cup {step}
          /\ UNCHANGED <<ports, waypoints, step, delayed, verdict>>
    /\ UNCHANGED <<gaveUp, lifecycleVars, leaderVars>>

\* SEND_GOAL_TIMEOUT, or a SIGINT: the goal may be accepted later, and goes on.
GiveUp ==
    /\ verdict = "running" /\ step \in sent
    /\ gaveUp' = TRUE
    /\ Ends("failure")
    /\ UNCHANGED <<lifecycleVars, leaderVars>>

\* Mutant of Advance: as a Fallback would, any end of a step leads on.
AdvanceAnyhow ==
    IF step = 4 THEN Ends("success")
    ELSE step' = step + 1 /\ UNCHANGED <<ports, waypoints, delayed, sent, verdict>>

\* What the Sequence makes of the end of a step.
Advance ==
    IF ServerStatus(step) # "succeeded" THEN Ends("failure")
    ELSE IF step = 4 THEN Ends("success")
    ELSE step' = step + 1 /\ UNCHANGED <<ports, waypoints, delayed, sent, verdict>>

\* Mutant of StepEnds: the step ends with the acceptance of its goal.
StepEndsEarly ==
    /\ verdict = "running" /\ step \in sent
    /\ ServerStatus(step) # "unknown"
    /\ Advance
    /\ UNCHANGED <<gaveUp, lifecycleVars, leaderVars>>

\* Mutant of StepEnds: a goal that is rejected is waited for.
StepEndsUnlessRejected ==
    /\ verdict = "running" /\ step \in sent
    /\ ServerStatus(step) \in Terminal \ {"rejected"}
    /\ Advance
    /\ UNCHANGED <<gaveUp, lifecycleVars, leaderVars>>

\* GOAL_REJECTED_BY_SERVER, or onResultReceived: result.success is true of a
\* goal that has succeeded only.
StepEnds ==
    /\ verdict = "running" /\ step \in sent
    /\ ServerStatus(step) \in Terminal
    /\ Advance
    /\ UNCHANGED <<gaveUp, lifecycleVars, leaderVars>>

Tree == DelayPasses \/ SendGoal \/ StepEnds

\* The servers meet the goals that have been sent; a client that gave up may
\* have asked for their cancel.
LifecycleExecutes ==
    /\ \/ Lifecycle!HandleGoalTimeout \/ Lifecycle!HandleGoalDecides
       \/ \E s \in sent \cap LifecycleSteps :
             Lifecycle!HandleGoalUnreachable(s) \/ Lifecycle!HandleGoalAsks(s)
       \/ \E s \in LifecycleSteps :
             Lifecycle!Execute(s) \/ (gaveUp /\ Lifecycle!HandleCancel(s))
    /\ UNCHANGED <<treeVars, leaderVars>>

LeaderExecutes ==
    /\ \/ LeaderStep \in sent /\ Leader!HandleGoal(LeaderStep)
       \/ gaveUp /\ Leader!HandleCancel(LeaderStep)
       \/ Leader!PathArrives(LeaderStep) \/ Leader!Execute(LeaderStep)
    /\ UNCHANGED <<treeVars, lifecycleVars>>

ServeChange ==
    /\ \E s \in LifecycleSteps : Lifecycle!ServeChange(s)
    /\ UNCHANGED <<treeVars, leaderVars>>

Environment ==
    \/ Lifecycle!Node /\ UNCHANGED <<treeVars, leaderVars>>
    \/ Leader!PathServerStarts /\ UNCHANGED <<treeVars, lifecycleVars>>

Next ==
    Tree \/ GiveUp \/ LifecycleExecutes \/ LeaderExecutes \/ ServeChange \/ Environment

Spec == Init /\ [][Next]_vars

\* The tree is ticked, and the servers are fair as in their own modules.
FairSpec ==
    Spec /\ WF_vars(Tree) /\ WF_vars(LifecycleExecutes) /\ WF_vars(ServeChange)
         /\ WF_vars(LeaderExecutes)

-----------------------------------------------------------------------------
(* Properties.                                                             *)

Undisturbed == others = 0 /\ crashes = 0

\* What a port means, without the parser.
Denotes(words, s) ==
    \/ Last(words) = s
    \/ Last(words) = "shutdown" /\ s = "finalized"
    \/ \E n \in DOMAIN StateOfId :
          StateOfId[n] = s /\ Last(words) \in DOMAIN Number /\ Number[Last(words)] = n

\* The leader moves only ahead of robots that follow it: while its goal runs,
\* the node is in the state that the port of the step before names, and this
\* mission has brought it there.
LeaderLeadsActiveFollowers ==
    Undisturbed /\ leader_status[LeaderStep] = "executing" =>
        applied[2] = node /\ Denotes(ports[2], node)

\* A mission that succeeds has brought the leader to the end of its route and
\* each time put the follower in the state that the port of the step names; it
\* leaves it in that of its last step.
SuccessMeansDone ==
    verdict = "success" =>
        /\ i[LeaderStep] = Len(route[LeaderStep]) /\ route[LeaderStep] # <<>>
        /\ \A s \in LifecycleSteps : Denotes(ports[s], applied[s])
        /\ Undisturbed => node = applied[4]

\* The Sequence has no step that cleans up.  Once step 1 has been carried out,
\* a mission that fails leaves the follower active only if it fails between
\* the activation and the last step: because of the leader, or of step 4.
LeftActiveOnlyByTheLeader ==
    (/\ verdict \in {"failure", "terminated"} /\ ~gaveUp /\ Undisturbed
     /\ applied[1] = "inactive" /\ node = "active") =>
        /\ applied[2] = "active" /\ applied[4] = Lifecycle!NotApplied
        /\ step \in {3, 4}

\* A mission that has ended on what its servers answered leaves nothing
\* behind: neither the follower nor the leader moves any more.  One that gave
\* up may still have its follower activated, or its leader moved.
EndedMissionActsNoMore ==
    [][verdict # "running" /\ ~gaveUp /\ others' = others /\ crashes' = crashes
          /\ (alive' = alive) => UNCHANGED <<node, leader>>]_vars

\* To the servers, the mission is four action nodes with a goal each, one after
\* the other.  A step that the mission gave up is lost to them.
Phase(s) ==
    CASE s < step -> "success"
      [] s > step -> "idle"
      [] OTHER -> IF verdict = "running" THEN IF s \in sent THEN "running" ELSE "idle"
                  ELSE IF verdict = "success" THEN "success" ELSE "failure"

Client == INSTANCE ActionClient WITH
    Nodes <- Steps, Goals <- Steps \X {1}, Overlap <- FALSE,
    phase <- [s \in Steps |-> Phase(s)],
    run <- [s \in Steps |-> IF s \in sent THEN 1 ELSE 0],
    status <- [g \in Steps \X {1} |-> ServerStatus(g[1])],
    lost <- IF gaveUp THEN {step} ELSE {}

\* The tree goes on, or ends, only when the server of the present step has
\* ended its goal, by what that says; and a server deals only with goals that
\* have been sent.
ImplementsActionClient == Client!Spec

\* A mission ends, in whatever order its servers and the node fail, but for
\* two waits without a limit: for change_state of a node that died, and for a
\* path whose request was lost.  RosActionNode has no limit for a result.
MissionEnds ==
    verdict = "running" ~>
        (verdict # "running" \/ leader_pc[LeaderStep] = "request_lost"
            \/ \E s \in LifecycleSteps : pc[s] = "stuck")
=============================================================================
