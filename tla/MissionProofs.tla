----------------------------- MODULE MissionProofs -----------------------------
(***************************************************************************)
(* Proofs about Mission, for every set of state ports, every route that is *)
(* parallel to the axes, and any number of deaths of the node and of other *)
(* clients' transitions.  The theorems about the two servers are cited for *)
(* the goals of the mission; what is proved here is the order in which the *)
(* tree uses them.                                                         *)
(***************************************************************************)
EXTENDS Mission, TLAPS

LS == INSTANCE LifecycleServerProofs
    WITH Goals <- LifecycleSteps, Targets <- States

LL == INSTANCE LeaderPosServerProofs
    WITH Goals <- {LeaderStep}, Requests <- [{LeaderStep} -> {Route}],
         status <- leader_status, pc <- leader_pc

-----------------------------------------------------------------------------
(* The servers of the mission.                                             *)

\* What LifecycleServer assumes of its constants holds of the mission's.
LEMMA LifecycleAssumptions ==
    LS!NoGoalAssumption /\ LS!TargetsAssumption /\ LS!BoundsAssumption
  BY BoundsAssumption DEF NoGoal, LifecycleSteps, States, LS!States

\* So does what LeaderPosServer assumes.
LEMMA LeaderAssumptions == LL!RequestsAssumption
<1>1. Leader!PathRequest = LL!PathRequest
  BY DEF Leader!PathRequest, LL!PathRequest, Leader!Point, LL!Point
<1>2. Leader!AxisParallel(Route) <=> LL!AxisParallel(Route)
  BY DEF Leader!AxisParallel, LL!AxisParallel, Leader!Corners, LL!Corners,
     Leader!Segments, LL!Segments
<1>3. \A f \in [{LeaderStep} -> {Route}], g \in {LeaderStep} :
         DOMAIN f = {LeaderStep} /\ f[g] = Route
  OBVIOUS
<1>. QED
  BY RouteAssumption, <1>1, <1>2, <1>3

\* The actions.
LEMMA Same ==
    ASSUME NEW g
    PROVE  /\ Lifecycle!HandleGoalTimeout <=> LS!HandleGoalTimeout
           /\ Lifecycle!HandleGoalDecides <=> LS!HandleGoalDecides
           /\ Lifecycle!HandleGoalUnreachable(g) <=> LS!HandleGoalUnreachable(g)
           /\ Lifecycle!HandleGoalAsks(g) <=> LS!HandleGoalAsks(g)
           /\ Lifecycle!HandleCancel(g) <=> LS!HandleCancel(g)
           /\ Lifecycle!Execute(g) <=> LS!Execute(g)
           /\ Lifecycle!ServeChange(g) <=> LS!ServeChange(g)
           /\ Lifecycle!Node <=> LS!Node
<1>. USE DEF Lifecycle!nodeVars, LS!nodeVars, Lifecycle!boundVars, LS!boundVars,
   Lifecycle!serverVars, LS!serverVars
<1>1. Lifecycle!HandleGoalTimeout <=> LS!HandleGoalTimeout
  BY DEF Lifecycle!HandleGoalTimeout, LS!HandleGoalTimeout
<1>2. Lifecycle!HandleGoalDecides <=> LS!HandleGoalDecides
  BY DEF Lifecycle!HandleGoalDecides, LS!HandleGoalDecides,
       Lifecycle!ReachesGoalState, LS!ReachesGoalState, Lifecycle!Transitions, LS!Transitions
<1>3. Lifecycle!HandleGoalUnreachable(g) <=> LS!HandleGoalUnreachable(g)
  BY DEF Lifecycle!HandleGoalUnreachable, LS!HandleGoalUnreachable
<1>4. Lifecycle!HandleGoalAsks(g) <=> LS!HandleGoalAsks(g)
  BY DEF Lifecycle!HandleGoalAsks, LS!HandleGoalAsks
<1>5. Lifecycle!HandleCancel(g) <=> LS!HandleCancel(g)
  BY DEF Lifecycle!HandleCancel, LS!HandleCancel
<1>6. Lifecycle!Execute(g) <=> LS!Execute(g)
  <2>. USE DEF Lifecycle!Local, LS!Local, Lifecycle!Goto, LS!Goto, Lifecycle!Ends, LS!Ends
  <2>1. Lifecycle!FirstCancelCheck(g) <=> LS!FirstCancelCheck(g)
    BY DEF Lifecycle!FirstCancelCheck, LS!FirstCancelCheck
  <2>2. Lifecycle!Query(g) <=> LS!Query(g)
    BY DEF Lifecycle!Query, LS!Query
  <2>3. Lifecycle!QueryTimeout(g) <=> LS!QueryTimeout(g)
    BY DEF Lifecycle!QueryTimeout, LS!QueryTimeout
  <2>4. Lifecycle!UseAnswer(g) <=> LS!UseAnswer(g)
    BY DEF Lifecycle!UseAnswer, LS!UseAnswer, Lifecycle!NoTransition, LS!NoTransition
  <2>5. Lifecycle!Change(g) <=> LS!Change(g)
    BY DEF Lifecycle!Change, LS!Change
  <2>6. Lifecycle!Conclude(g) <=> LS!Conclude(g)
    BY DEF Lifecycle!Conclude, LS!Conclude
  <2>7. Lifecycle!Interrupt(g) <=> LS!Interrupt(g)
    BY DEF Lifecycle!Interrupt, LS!Interrupt
  <2>. QED
    BY <2>1, <2>2, <2>3, <2>4, <2>5, <2>6, <2>7 DEF Lifecycle!Execute, LS!Execute
<1>7. ASSUME NEW s PROVE Lifecycle!Available(s) = LS!Available(s)
  BY DEF Lifecycle!Available, LS!Available
<1>8. ASSUME NEW t, NEW outcome PROVE Lifecycle!Runs(t, outcome) <=> LS!Runs(t, outcome)
  BY DEF Lifecycle!Runs, LS!Runs, Lifecycle!Leads, LS!Leads, Lifecycle!Transitions,
     LS!Transitions
<1>9. ASSUME NEW h PROVE Lifecycle!ServeChange(h) <=> LS!ServeChange(h)
  <2>1. ASSUME NEW t, NEW s PROVE Lifecycle!Resolved(t, s) = LS!Resolved(t, s)
    BY <1>7 DEF Lifecycle!Resolved, LS!Resolved, Lifecycle!Label, LS!Label
  <2>. QED
    BY <1>8, <2>1 DEF Lifecycle!ServeChange, LS!ServeChange, Lifecycle!Goto, LS!Goto
<1>10. Lifecycle!Node <=> LS!Node
  <2>1. Lifecycle!AnswerHandleGoal <=> LS!AnswerHandleGoal
    BY <1>7 DEF Lifecycle!AnswerHandleGoal, LS!AnswerHandleGoal
  <2>2. ASSUME NEW h PROVE Lifecycle!AnswerQuery(h) <=> LS!AnswerQuery(h)
    <3>1. ASSUME NEW t, NEW s
          PROVE  Lifecycle!ReachesGoalState(t, s) <=> LS!ReachesGoalState(t, s)
      BY DEF Lifecycle!ReachesGoalState, LS!ReachesGoalState
    <3>. QED
      BY <1>7, <3>1 DEF Lifecycle!AnswerQuery, LS!AnswerQuery, Lifecycle!NoTransition,
         LS!NoTransition, Lifecycle!Goto, LS!Goto
  <2>3. Lifecycle!OtherClient <=> LS!OtherClient
    BY <1>7, <1>8 DEF Lifecycle!OtherClient, LS!OtherClient
  <2>4. Lifecycle!NodeDies <=> LS!NodeDies
    BY DEF Lifecycle!NodeDies, LS!NodeDies
  <2>5. Lifecycle!NodeRestarts <=> LS!NodeRestarts
    BY DEF Lifecycle!NodeRestarts, LS!NodeRestarts
  <2>. QED
    BY <1>9, <2>1, <2>2, <2>3, <2>4, <2>5 DEF Lifecycle!Node, LS!Node
<1>. QED
  BY <1>1, <1>2, <1>3, <1>4, <1>5, <1>6, <1>9, <1>10

\* The types and the beginning.
LEMMA SameStates ==
    /\ Lifecycle!TypeOK <=> LS!TypeOK
    /\ Lifecycle!Init <=> LS!Init
  BY DEF Lifecycle!TypeOK, LS!TypeOK, Lifecycle!Init, LS!Init, Lifecycle!Places, LS!Places,
     Lifecycle!Transitions, LS!Transitions, Lifecycle!NoTransition, LS!NoTransition,
     Lifecycle!NotApplied, LS!NotApplied, Lifecycle!States, LS!States

\* The path of a request.
LEMMA SamePath == ASSUME NEW req PROVE Leader!GenPath(req) = LL!GenPath(req)
  BY DEF Leader!GenPath, LL!GenPath, Leader!Walk, LL!Walk, Leader!AddSegment, LL!AddSegment,
     Leader!PointNum, LL!PointNum, Leader!SegmentLength, LL!SegmentLength, Leader!Corners,
     LL!Corners, Leader!Segments, LL!Segments, Leader!Along, LL!Along, Leader!Distance,
     LL!Distance, Leader!Abs, LL!Abs, Leader!Sign, LL!Sign, Leader!Last, LL!Last

\* The actions of the leader.
LEMMA SameLeader ==
    ASSUME NEW g
    PROVE  /\ Leader!HandleGoal(g) <=> LL!HandleGoal(g)
           /\ Leader!HandleCancel(g) <=> LL!HandleCancel(g)
           /\ Leader!PathArrives(g) <=> LL!PathArrives(g)
           /\ Leader!Execute(g) <=> LL!Execute(g)
           /\ Leader!PathServerStarts <=> LL!PathServerStarts
<1>. USE DEF Leader!Goto, LL!Goto, Leader!Ends, LL!Ends
<1>1. Leader!HandleGoal(g) <=> LL!HandleGoal(g)
  BY DEF Leader!HandleGoal, LL!HandleGoal
<1>2. Leader!HandleCancel(g) <=> LL!HandleCancel(g)
  BY DEF Leader!HandleCancel, LL!HandleCancel
<1>3. Leader!PathArrives(g) <=> LL!PathArrives(g)
  BY SamePath DEF Leader!PathArrives, LL!PathArrives
<1>4. Leader!Execute(g) <=> LL!Execute(g)
  BY DEF Leader!Execute, LL!Execute, Leader!CancelWhileWaiting, LL!CancelWhileWaiting,
     Leader!CheckCancel, LL!CheckCancel, Leader!PublishPose, LL!PublishPose, Leader!Sleep,
     LL!Sleep, Leader!ShutdownWhileWaiting, LL!ShutdownWhileWaiting
<1>5. Leader!PathServerStarts <=> LL!PathServerStarts
  BY DEF Leader!PathServerStarts, LL!PathServerStarts
<1>. QED
  BY <1>1, <1>2, <1>3, <1>4, <1>5

\* Its types and its beginning.
LEMMA SameLeaderStates ==
    /\ Leader!TypeOK <=> LL!TypeOK
    /\ Leader!Init <=> LL!Init
<1>1. Leader!Poses = LL!Poses
  BY SamePath DEF Leader!Poses, LL!Poses, Leader!Range, LL!Range
<1>. QED
  BY <1>1, SamePath DEF Leader!TypeOK, LL!TypeOK, Leader!Init, LL!Init, Leader!Places,
     LL!Places, Leader!Silent, LL!Silent

\* A step of the mission is one of its lifecycle server, or none of its.
LEMMA LifecycleServerSteps ==
    ASSUME [Next]_vars
    PROVE  [LS!Next]_(LS!vars)
<1>. USE DEF LS!vars, LS!serverVars, LS!nodeVars, LS!boundVars
<1>1. CASE LifecycleExecutes \/ ServeChange \/ Lifecycle!Node
  BY <1>1, Same DEF LifecycleExecutes, ServeChange, LS!Next, LS!Executor, LS!Node
<1>2. CASE UNCHANGED lifecycleVars
  BY <1>2 DEF lifecycleVars
<1>3. LifecycleExecutes \/ ServeChange \/ Lifecycle!Node \/ UNCHANGED lifecycleVars
  BY DEF Next, vars, Tree, DelayPasses, SendGoal, StepEnds, GiveUp, LeaderExecutes,
     Environment
<1>. QED
  BY <1>1, <1>2, <1>3

\* It is one of its leader server, or none of its.
LEMMA LeaderServerSteps ==
    ASSUME [Next]_vars
    PROVE  [LL!Next]_(LL!vars)
<1>. USE DEF LL!vars
<1>1. CASE LeaderExecutes \/ Leader!PathServerStarts
  BY <1>1, SameLeader DEF LeaderExecutes, LL!Next
<1>2. CASE UNCHANGED leaderVars
  BY <1>2 DEF leaderVars
<1>3. LeaderExecutes \/ Leader!PathServerStarts \/ UNCHANGED leaderVars
  BY DEF Next, vars, Tree, DelayPasses, SendGoal, StepEnds, GiveUp, LifecycleExecutes,
     ServeChange, Environment
<1>. QED
  BY <1>1, <1>2, <1>3

\* The servers cannot tell a mission from the clients of their own modules: what
\* is proved of them alone is true of them in a mission.
THEOREM ServersRunAsAlone == Spec => LS!Spec /\ LL!Spec
<1>1. Init => LS!Init /\ LL!Init
  BY SameStates, SameLeaderStates DEF Init
<1>. QED
  BY <1>1, LifecycleServerSteps, LeaderServerSteps, PTL DEF Spec, LS!Spec, LL!Spec

\* Of the lifecycle server, its invariant.
LEMMA LifecycleInvariant == Spec => []LS!IInv
  BY ServersRunAsAlone, LifecycleAssumptions, LS!Invariant, PTL

\* Of the leader server, its invariant.
LEMMA LeaderInvariant == Spec => []LL!IInv
  BY ServersRunAsAlone, LeaderAssumptions, LL!Invariance, PTL

\* Whatever the tree does while its servers run, the goals of a mission take the
\* transitions of rcl_action, its node those of a managed node; a result is true
\* of what the node did; a cancel that came early enough leaves the node where
\* it is, and the leader is led along the route in order.
THEOREM ServersKeepTheirPromises ==
    Spec => /\ LS!ImplementsActionGoals /\ LL!ImplementsActionGoals
            /\ LS!NodeIsManaged
            /\ []LS!ResultIsTruthful
            /\ LS!CancelInTime
            /\ []LL!RouteSpacing /\ []LL!CancelStopsLeader
            /\ LL!LeaderFollowsRoute
<1>1. LS!Spec => /\ LS!ImplementsActionGoals /\ LS!NodeIsManaged
                 /\ []LS!ResultIsTruthful /\ LS!CancelInTime
  BY LifecycleAssumptions, LS!GoalsFollowProtocol, LS!NodeStaysManaged, LS!ResultsAreTruthful,
     LS!EarlyCancelHolds
<1>2. LL!Spec => /\ LL!ImplementsActionGoals /\ []LL!RouteSpacing
                 /\ []LL!CancelStopsLeader /\ LL!LeaderFollowsRoute
  BY LeaderAssumptions, LL!LeaderGoalsFollowProtocol, LL!RoutesAreSpaced, LL!LeaderAlwaysStops,
     LL!LeaderAlwaysFollows
<1>. QED
  BY <1>1, <1>2, ServersRunAsAlone

-----------------------------------------------------------------------------
(* The order of the mission.                                               *)

TreeType ==
    /\ ports \in StatePorts /\ waypoints \in WaypointPorts
    /\ step \in Steps /\ sent \subseteq 1..step
    /\ delayed \in BOOLEAN /\ gaveUp \in BOOLEAN
    /\ verdict \in {"running", "success", "failure", "terminated"}

\* The servers know only goals that the tree has sent, and run on.
SentInv ==
    /\ ok
    /\ \A s \in LifecycleSteps \ sent : status[s] = "unknown"
    /\ handling # NoGoal => handling \in sent
    /\ LeaderStep \notin sent => leader_status[LeaderStep] = "unknown"
    /\ \A s \in sent : Goal(s) = "goal"
    /\ \A s \in LifecycleSteps : Goal(s) = "goal" => target[s] = ParseState(ports[s])

\* The steps before the present one have succeeded, and a mission that nobody
\* gave up has ended with the end of its step.
SequenceInv ==
    /\ \A s \in Steps : s < step => ServerStatus(s) = "succeeded"
    /\ verdict = "success" => step = 4 /\ ServerStatus(4) = "succeeded"
    /\ verdict \in {"failure", "terminated"} /\ ~gaveUp =>
          step \notin sent \/ ServerStatus(step) \in Terminal \ {"succeeded"}

\* A step of a server leaves goals that have ended alone, and begins none that
\* was not sent.
LEMMA ServerSteps ==
    ASSUME LS!IInv, LL!IInv, SentInv, [Next]_vars
    PROVE  /\ UNCHANGED target
           /\ \A s \in Steps : ServerStatus(s) \in Terminal
                  => ServerStatus(s)' = ServerStatus(s)
           /\ \A s \in Steps \ sent : ServerStatus(s)' = ServerStatus(s)
           /\ handling' # NoGoal => handling' \in sent
           /\ UNCHANGED ok
<1>1. /\ status \in [LifecycleSteps -> {"unknown", "executing", "canceling", "rejected",
                                       "succeeded", "aborted", "canceled"}]
      /\ pc \in [LifecycleSteps -> LS!Places]
      /\ handling \in LifecycleSteps \cup {NoGoal}
      /\ \A s \in LifecycleSteps :
            /\ pc[s] = "none" => status[s] \in {"unknown", "rejected"}
            /\ pc[s] = "done" => status[s] \in {"succeeded", "aborted", "canceled"}
            /\ pc[s] \notin {"none", "done"} => status[s] \in {"executing", "canceling"}
      /\ handling # NoGoal => status[handling] = "unknown"
  BY DEF SentInv, LS!IInv, LS!TypeOK, LS!GoalInv, LS!Running
<1>2. ASSUME NEW s \in LifecycleSteps
      PROVE  /\ UNCHANGED target
             /\ handling' # NoGoal => handling' \in sent
             /\ status[s] \in Terminal => status'[s] = status[s]
             /\ s \notin sent => status'[s] = status[s]
  <2>. USE DEF Terminal, SentInv, Lifecycle!serverVars
  <2>1. CASE Lifecycle!HandleGoalTimeout \/ Lifecycle!HandleGoalDecides
    BY <1>1, <2>1 DEF Lifecycle!HandleGoalTimeout, Lifecycle!HandleGoalDecides
  <2>2. ASSUME NEW g \in sent \cap LifecycleSteps,
               Lifecycle!HandleGoalUnreachable(g) \/ Lifecycle!HandleGoalAsks(g)
        PROVE  /\ UNCHANGED target
               /\ handling' # NoGoal => handling' \in sent
               /\ status[s] \in Terminal => status'[s] = status[s]
               /\ s \notin sent => status'[s] = status[s]
    BY <1>1, <2>2 DEF Lifecycle!HandleGoalUnreachable, Lifecycle!HandleGoalAsks
  <2>3. ASSUME NEW g \in LifecycleSteps, Lifecycle!Execute(g) \/ Lifecycle!HandleCancel(g)
        PROVE  /\ UNCHANGED <<target, handling>>
               /\ status[s] \in Terminal => status'[s] = status[s]
               /\ s \notin sent => status'[s] = status[s]
    <3>1. /\ UNCHANGED <<target, handling>>
          /\ status[g] \in {"executing", "canceling"}
          /\ status' = status \/ \E how : status' = [status EXCEPT ![g] = how]
      BY <1>1, <2>3 DEF Lifecycle!Execute, Lifecycle!FirstCancelCheck, Lifecycle!Query,
         Lifecycle!QueryTimeout, Lifecycle!UseAnswer, Lifecycle!Change, Lifecycle!Conclude,
         Lifecycle!Interrupt, Lifecycle!HandleCancel, Lifecycle!Local, Lifecycle!Goto, Lifecycle!Ends
    <3>. QED
      BY <1>1, <3>1
  <2>4. CASE Lifecycle!Node \/ ServeChange \/ UNCHANGED lifecycleVars
    BY <2>4 DEF Lifecycle!Node, ServeChange, lifecycleVars, Lifecycle!AnswerHandleGoal,
       Lifecycle!AnswerQuery, Lifecycle!ServeChange, Lifecycle!OtherClient,
       Lifecycle!NodeDies, Lifecycle!NodeRestarts, Lifecycle!Goto
  <2>. QED
    BY <2>1, <2>2, <2>3, <2>4 DEF Next, vars, Tree, DelayPasses, SendGoal, StepEnds, GiveUp,
       LeaderExecutes, LifecycleExecutes, Environment
<1>3. /\ leader_status[LeaderStep] \in Terminal
             => leader_status'[LeaderStep] = leader_status[LeaderStep]
      /\ LeaderStep \notin sent => leader_status'[LeaderStep] = leader_status[LeaderStep]
  <2>1. /\ leader_status[LeaderStep] = "unknown" <=> leader_pc[LeaderStep] = "none"
        /\ leader_status[LeaderStep] \in {"executing", "canceling"}
               <=> leader_pc[LeaderStep] \notin {"none", "done"}
    BY DEF LL!IInv, LL!GoalState, LL!Live
  <2>. USE DEF Terminal, SentInv
  <2>2. CASE LeaderExecutes
    <3>1. LeaderStep \in sent /\ leader_status[LeaderStep] \notin Terminal
      BY <2>1, <2>2 DEF LeaderExecutes, Leader!HandleGoal, Leader!HandleCancel,
         Leader!PathArrives, Leader!Execute, Leader!CancelWhileWaiting, Leader!CheckCancel,
         Leader!PublishPose, Leader!Sleep, Leader!ShutdownWhileWaiting
    <3>. QED
      BY <3>1
  <2>3. CASE UNCHANGED leader_status
    BY <2>3
  <2>. QED
    BY <2>2, <2>3 DEF Next, vars, Tree, DelayPasses, SendGoal, StepEnds, GiveUp,
       LifecycleExecutes, ServeChange, Environment, leaderVars, Leader!PathServerStarts
<1>4. /\ Steps = LifecycleSteps \cup {LeaderStep}
      /\ LeaderStep \notin LifecycleSteps /\ LifecycleSteps # {}
  BY DEF Steps, LifecycleSteps, LeaderStep
<1>5. UNCHANGED ok
  BY DEF Next, vars, Tree, DelayPasses, SendGoal, StepEnds, GiveUp, LifecycleExecutes,
     LeaderExecutes, ServeChange, Environment, leaderVars, Leader!HandleGoal,
     Leader!HandleCancel, Leader!PathArrives, Leader!Execute, Leader!CancelWhileWaiting,
     Leader!CheckCancel, Leader!PublishPose, Leader!Sleep, Leader!ShutdownWhileWaiting,
     Leader!PathServerStarts
<1>. QED
  BY <1>2, <1>3, <1>4, <1>5 DEF ServerStatus

\* What the tree does in a step, of the mission.
LEMMA TreeSteps ==
    ASSUME TreeType, [Next]_vars
    PROVE  /\ UNCHANGED <<ports, waypoints>>
           /\ \/ UNCHANGED <<step, sent, verdict>> /\ (gaveUp' = gaveUp)
              \/ /\ verdict = "running" /\ step \notin sent
                 /\ UNCHANGED <<step, gaveUp, lifecycleVars, leaderVars>>
                 /\ \/ Goal(step) = "goal" /\ sent' = sent \cup {step} /\ UNCHANGED verdict
                    \/ verdict' \in {"failure", "terminated"} /\ UNCHANGED sent
              \/ /\ verdict = "running" /\ verdict' = "failure" /\ gaveUp'
                 /\ UNCHANGED <<step, sent, lifecycleVars, leaderVars>>
              \/ /\ verdict = "running" /\ step \in sent /\ ServerStatus(step) \in Terminal
                 /\ UNCHANGED <<sent, gaveUp, lifecycleVars, leaderVars>>
                 /\ \/ /\ ServerStatus(step) # "succeeded"
                       /\ verdict' = "failure" /\ UNCHANGED step
                    \/ /\ ServerStatus(step) = "succeeded" /\ step = 4
                       /\ verdict' = "success" /\ UNCHANGED step
                    \/ /\ ServerStatus(step) = "succeeded" /\ step # 4
                       /\ step' = step + 1 /\ UNCHANGED verdict
           /\ delayed' \in BOOLEAN
<1>1. CASE DelayPasses
  BY <1>1 DEF DelayPasses, TreeType
<1>2. CASE SendGoal
  BY <1>2 DEF SendGoal, Ends, TreeType
<1>3. CASE GiveUp
  BY <1>3 DEF GiveUp, Ends, TreeType
<1>4. CASE StepEnds
  BY <1>4 DEF StepEnds, Advance, Ends, TreeType
<1>5. CASE UNCHANGED treeVars
  BY <1>5 DEF treeVars, TreeType
<1>. QED
  BY <1>1, <1>2, <1>3, <1>4, <1>5 DEF Next, Tree, vars, LifecycleExecutes, LeaderExecutes,
     ServeChange, Environment

\* The status of the steps is that of the servers.
LEMMA OrderStep ==
    ASSUME LS!IInv, LL!IInv, TreeType, SentInv, SequenceInv, [Next]_vars
    PROVE  TreeType' /\ SentInv' /\ SequenceInv'
<1>1. /\ UNCHANGED target
      /\ \A s \in Steps : ServerStatus(s) \in Terminal => ServerStatus(s)' = ServerStatus(s)
      /\ \A s \in Steps \ sent : ServerStatus(s)' = ServerStatus(s)
      /\ handling' # NoGoal => handling' \in sent
      /\ UNCHANGED ok
  BY ServerSteps
<1>0. step \in 1..4 /\ sent \subseteq 1..step
  BY DEF TreeType, Steps
<1>2. /\ UNCHANGED <<ports, waypoints>>
      /\ \/ sent' = sent
         \/ sent' = sent \cup {step} /\ step' = step /\ Goal(step) = "goal"
      /\ \/ step' = step
         \/ step' = step + 1 /\ step # 4 /\ sent' = sent /\ ServerStatus(step) = "succeeded"
  BY TreeSteps
<1>3. TreeType'
  <2>1. verdict' \in {"running", "success", "failure", "terminated"} /\ gaveUp' \in BOOLEAN
    BY TreeSteps DEF TreeType
  <2>2. delayed' \in BOOLEAN /\ ports' \in StatePorts /\ waypoints' \in WaypointPorts
    BY TreeSteps, <1>2 DEF TreeType
  <2>3. step' \in 1..4 /\ step <= step' /\ sent' \subseteq sent \cup {step}
    BY <1>0, <1>2
  <2>4. \A s \in sent \cup {step} : s \in 1..step'
    BY <1>0, <2>3
  <2>. QED
    BY <2>1, <2>2, <2>3, <2>4 DEF TreeType, Steps
<1>4. /\ \A s : Goal(s)' = Goal(s)
      /\ \A s : ParseState(ports[s])' = ParseState(ports[s])
  BY <1>2 DEF Goal, WaypointsGoal, ParseState, Normalized, OfId
<1>5. Steps = LifecycleSteps \cup {LeaderStep} /\ LeaderStep \notin LifecycleSteps
  BY DEF Steps, LifecycleSteps, LeaderStep
<1>6. SentInv'
  <2>1. ASSUME NEW s \in LifecycleSteps \ sent' PROVE status'[s] = "unknown"
    BY <1>1, <1>2, <1>5 DEF SentInv, ServerStatus
  <2>2. LeaderStep \notin sent' => leader_status'[LeaderStep] = "unknown"
    BY <1>1, <1>2, <1>5 DEF SentInv, ServerStatus
  <2>3. handling' # NoGoal => handling' \in sent'
    BY <1>1, <1>2
  <2>4. \A s \in sent' : Goal(s)' = "goal"
    BY <1>2, <1>4 DEF SentInv
  <2>5. \A s \in LifecycleSteps : Goal(s)' = "goal" => target'[s] = ParseState(ports[s])'
    BY <1>1, <1>4 DEF SentInv
  <2>6. ok'
    BY <1>1 DEF SentInv
  <2>. QED
    BY <2>1, <2>2, <2>3, <2>4, <2>5, <2>6 DEF SentInv
<1>7. SequenceInv'
  <2>1. ASSUME NEW s \in Steps, s < step' PROVE ServerStatus(s)' = "succeeded"
    <3>1. s < step \/ (s = step /\ ServerStatus(step) = "succeeded")
      BY <1>0, <1>2, <2>1 DEF Steps
    <3>2. ServerStatus(s) = "succeeded"
      BY <3>1 DEF SequenceInv
    <3>. QED
      BY <1>1, <3>2 DEF Terminal
  <2>2. ASSUME verdict' = "success" PROVE step' = 4 /\ ServerStatus(4)' = "succeeded"
    <3>1. step' = 4 /\ step = 4 /\ ServerStatus(4) = "succeeded"
      BY <2>2, TreeSteps DEF SequenceInv
    <3>. QED
      BY <1>1, <3>1 DEF Terminal, Steps
  <2>3. ASSUME verdict' \in {"failure", "terminated"}, ~gaveUp'
        PROVE  step' \notin sent' \/ ServerStatus(step)' \in Terminal \ {"succeeded"}
    <3>1. /\ step' = step /\ sent' = sent
          /\ step \notin sent \/ ServerStatus(step) \in Terminal \ {"succeeded"}
      BY <2>3, TreeSteps DEF SequenceInv
    <3>2. CASE step \notin sent
      BY <3>1, <3>2
    <3>3. CASE ServerStatus(step) \in Terminal \ {"succeeded"}
      <4>1. (IF step = LeaderStep THEN leader_status'[step] ELSE status'[step])
               = ServerStatus(step)
        <5>. SUFFICES ASSUME NEW r \in Steps, r = step
                      PROVE  (IF r = LeaderStep THEN leader_status'[r] ELSE status'[r])
                                 = ServerStatus(r)
          BY <1>0 DEF Steps
        <5>. QED
          BY <1>1, <3>3 DEF ServerStatus
      <4>. QED
        BY <3>1, <3>3, <4>1 DEF ServerStatus
    <3>. QED
      BY <3>1, <3>2, <3>3
  <2>. QED
    BY <2>1, <2>2, <2>3 DEF SequenceInv
<1>. QED
  BY <1>3, <1>6, <1>7

\* Nothing has been sent at the beginning.
LEMMA OrderInit == Init => TreeType /\ SentInv /\ SequenceInv
<1>. SUFFICES ASSUME Init PROVE TreeType /\ SentInv /\ SequenceInv
  OBVIOUS
<1>1. /\ step = 1 /\ sent = {} /\ verdict = "running" /\ gaveUp = FALSE /\ handling = NoGoal
      /\ ok
  BY DEF Init, Lifecycle!Init
<1>2. /\ \A s \in LifecycleSteps : status[s] = "unknown"
      /\ leader_status[LeaderStep] = "unknown"
  BY DEF Init, Lifecycle!Init, Leader!Init
<1>3. TreeType
  <2>1. ports \in StatePorts /\ waypoints \in WaypointPorts /\ delayed = FALSE
    BY DEF Init
  <2>2. step \in 1..4 /\ sent \subseteq 1..step
    BY <1>1
  <2>. QED
    BY <1>1, <2>1, <2>2, Zenon DEF TreeType, Steps
<1>4. \A s \in LifecycleSteps : Goal(s) = "goal" => target[s] = ParseState(ports[s])
  BY DEF Init
<1>. QED
  BY <1>1, <1>2, <1>3, <1>4 DEF SentInv, SequenceInv, Steps

\* The order holds throughout.
LEMMA Order == Spec => [](TreeType /\ SentInv /\ SequenceInv)
<1>1. Init => TreeType /\ SentInv /\ SequenceInv
  BY OrderInit
<1>2. LS!IInv /\ LL!IInv /\ TreeType /\ SentInv /\ SequenceInv /\ [Next]_vars
         => (TreeType /\ SentInv /\ SequenceInv)'
  BY OrderStep
<1>. QED
  BY <1>1, <1>2, LifecycleInvariant, LeaderInvariant, PTL DEF Spec

-----------------------------------------------------------------------------
(* What the goals of the mission have done.                                *)

Live == {"executing", "canceling"}

\* Only the goal of the present step can be running, and of a mission that has
\* ended none, unless it gave up.
LEMMA OnlyThisStepRuns ==
    ASSUME TreeType, SentInv, SequenceInv, NEW s \in Steps
    PROVE  /\ ServerStatus(s) \in Live =>
                 s = step /\ s \in sent /\ (verdict = "running" \/ gaveUp)
           /\ s > step => ServerStatus(s) = "unknown"
<1>1. step \in 1..4 /\ sent \subseteq 1..step /\ s \in 1..4
  BY DEF TreeType, Steps
<1>2. s \notin sent => ServerStatus(s) = "unknown"
  BY DEF SentInv, ServerStatus, Steps, LifecycleSteps, LeaderStep
<1>3. s > step => s \notin sent
  BY <1>1
<1>4. ASSUME ServerStatus(s) \in Live
      PROVE  s = step /\ s \in sent /\ (verdict = "running" \/ gaveUp)
  <2>1. s \in sent
    BY <1>2, <1>4 DEF Live
  <2>2. s = step
    BY <1>1, <1>4, <2>1 DEF Live, SequenceInv
  <2>3. verdict # "success"
    BY <1>4, <2>2 DEF Live, SequenceInv
  <2>4. verdict \in {"failure", "terminated"} => gaveUp
    BY <1>4, <2>1, <2>2 DEF Live, SequenceInv, Terminal
  <2>. QED
    BY <2>1, <2>2, <2>3, <2>4 DEF TreeType
<1>. QED
  BY <1>2, <1>3, <1>4

\* A goal has moved the node if it has succeeded, and then to the state that
\* its port is parsed to; or if it has yet to learn that it has.
LEMMA WhatGoalsDid ==
    ASSUME LS!IInv, SentInv, NEW s \in LifecycleSteps
    PROVE  /\ status[s] = "succeeded" =>
                 /\ pc[s] = "done" /\ applied[s] = target[s] /\ target[s] \in States
                 /\ s \in sent /\ target[s] = ParseState(ports[s])
           /\ status[s] \notin Live \cup {"succeeded"} => applied[s] = Lifecycle!NotApplied
           /\ pc[s] \in {"changing", "responded"} => status[s] \in Live
           /\ applied[s] # Lifecycle!NotApplied => pc[s] \in {"responded", "done"}
           /\ pc[s] = "done" => status[s] \in Terminal
           /\ status[s] = "unknown" => pc[s] = "none"
           /\ pc[s] = "changing" => applied[s] = Lifecycle!NotApplied
<1>1. /\ target[s] \in States /\ pc[s] \in LS!Places
      /\ status[s] \in {"unknown", "executing", "canceling", "rejected", "succeeded",
                         "aborted", "canceled"}
  BY DEF LS!IInv, LS!TypeOK
<1>2. /\ pc[s] = "none" => status[s] \in {"unknown", "rejected"}
      /\ pc[s] = "done" => status[s] \in {"succeeded", "aborted", "canceled"}
      /\ pc[s] \in LS!Running => status[s] \in Live
  BY DEF LS!IInv, LS!GoalInv, Live
<1>3. /\ pc[s] \notin {"interrupted", "unheard"}
      /\ pc[s] \notin {"responded", "done"} => applied[s] = "not_applied"
      /\ pc[s] = "done" =>
            applied[s] = IF status[s] = "succeeded" THEN target[s] ELSE "not_applied"
  BY DEF SentInv, LS!IInv, LS!GoalInv, LS!ResultInv, LS!NotApplied
<1>4. status[s] = "succeeded" => s \in sent /\ target[s] = ParseState(ports[s])
  BY DEF SentInv
<1>. QED
  BY <1>1, <1>2, <1>3, <1>4 DEF LS!Running, LS!Places, Live, Terminal, Lifecycle!NotApplied

\* Where a transition that throws leaves the node.
Lost == {"unconfigured", "finalized"}

\* As long as nobody else moves the node, it is where the last goal that moved
\* it has put it, or where a transition of the next goal that threw has left it.
FollowerInv ==
    Undisturbed =>
        /\ applied[4] # Lifecycle!NotApplied => node = applied[4]
        /\ applied[4] = Lifecycle!NotApplied /\ applied[2] # Lifecycle!NotApplied =>
              node = applied[2] \/ (pc[4] \in {"responded", "done"} /\ node \in Lost)
        /\ applied[2] = Lifecycle!NotApplied /\ applied[1] # Lifecycle!NotApplied =>
              node \in {applied[1]} \cup Lost

\* The leader is not shut down, and has succeeded at the end of its route only.
LeaderInv ==
    /\ ok
    /\ leader_status[LeaderStep] = "succeeded" =>
          i[LeaderStep] = Len(route[LeaderStep]) /\ route[LeaderStep] # <<>>

\* What change_state makes of the node.
LEMMA ServeMoves ==
    ASSUME LS!IInv, ok, NEW g \in LifecycleSteps, Lifecycle!ServeChange(g)
    PROVE  /\ pc[g] = "changing" /\ pc' = [pc EXCEPT ![g] = "responded"]
           /\ \/ applied' = applied /\ node' \in {node} \cup Lost
              \/ applied' = [applied EXCEPT ![g] = node']
           /\ node' \in States
<1>1. /\ pc[g] = "changing" /\ pc' = [pc EXCEPT ![g] = "responded"]
      /\ \/ applied' = applied /\ node' \in {node} \cup Lost
         \/ applied' = [applied EXCEPT ![g] = node']
  BY DEF LS!IInv, LS!GoalInv, Lifecycle!ServeChange, Lifecycle!Runs, Lifecycle!Goto, Lost
<1>2. LS!Next
  BY Same DEF LS!Next, LS!Node
<1>3. LS!TypeOK'
  BY <1>2, LifecycleAssumptions, LS!StepType DEF LS!IInv
<1>. QED
  BY <1>1, <1>3 DEF LS!TypeOK, LS!States, States

\* Nothing else moves it, unless somebody else does.
LEMMA NodeMoves ==
    ASSUME LS!IInv, ok, [Next]_vars, UNCHANGED <<crashes, others>>, alive \/ alive' = alive
    PROVE  \/ \E g \in LifecycleSteps : Lifecycle!ServeChange(g)
           \/ /\ UNCHANGED <<node, applied>>
              /\ pc[4] \in {"responded", "done"} => pc'[4] \in {"responded", "done"}
<1>. USE DEF Lifecycle!serverVars, Lifecycle!nodeVars, Lifecycle!boundVars,
     Lifecycle!Local, Lifecycle!Goto, Lifecycle!Ends
<1>1. /\ pc \in [LifecycleSteps -> LS!Places] /\ 4 \in LifecycleSteps
      /\ crashes \in Nat /\ others \in Nat
      /\ handling # NoGoal => handling \in LifecycleSteps /\ pc[handling] = "none"
      /\ \A s \in LifecycleSteps : status[s] = "unknown" => pc[s] = "none"
  BY DEF LS!IInv, LS!TypeOK, LS!GoalInv, LifecycleSteps, LS!Running, LS!Places
<1>2. CASE Lifecycle!HandleGoalTimeout
  BY <1>2 DEF Lifecycle!HandleGoalTimeout
<1>3. CASE Lifecycle!HandleGoalDecides
  BY <1>1, <1>3 DEF Lifecycle!HandleGoalDecides
<1>4. ASSUME NEW g \in LifecycleSteps,
             \/ Lifecycle!HandleGoalUnreachable(g) \/ Lifecycle!HandleGoalAsks(g)
             \/ Lifecycle!HandleCancel(g)
      PROVE  UNCHANGED <<node, applied, pc>>
  BY <1>4 DEF Lifecycle!HandleGoalUnreachable, Lifecycle!HandleGoalAsks, Lifecycle!HandleCancel
<1>5. ASSUME NEW g \in LifecycleSteps, Lifecycle!Execute(g)
      PROVE  /\ UNCHANGED <<node, applied>>
             /\ pc[4] \in {"responded", "done"} => pc'[4] \in {"responded", "done"}
  BY <1>1, <1>5 DEF Lifecycle!Execute, Lifecycle!FirstCancelCheck, Lifecycle!Query,
     Lifecycle!QueryTimeout, Lifecycle!UseAnswer, Lifecycle!Change, Lifecycle!Conclude,
     Lifecycle!Interrupt
<1>6. CASE Lifecycle!Node
  <2>1. ASSUME NEW g \in LifecycleSteps, Lifecycle!AnswerQuery(g)
        PROVE  /\ UNCHANGED <<node, applied>>
               /\ pc[4] \in {"responded", "done"} => pc'[4] \in {"responded", "done"}
    BY <1>1, <2>1 DEF Lifecycle!AnswerQuery
  <2>2. crashes' # crashes + 1 /\ others' # others + 1
    BY <1>1
  <2>4. /\ Lifecycle!OtherClient => others' = others + 1
        /\ Lifecycle!NodeDies => crashes' = crashes + 1
    BY Zenon DEF Lifecycle!OtherClient, Lifecycle!NodeDies
  <2>5. ~Lifecycle!NodeRestarts
    BY DEF Lifecycle!NodeRestarts
  <2>3. Lifecycle!AnswerHandleGoal => UNCHANGED <<node, applied, pc>>
    BY DEF Lifecycle!AnswerHandleGoal
  <2>. QED
    BY <1>6, <2>1, <2>2, <2>3, <2>4, <2>5 DEF Lifecycle!Node
<1>7. CASE UNCHANGED lifecycleVars
  BY <1>7 DEF lifecycleVars
<1>. QED
  BY <1>2, <1>3, <1>4, <1>5, <1>6, <1>7 DEF Next, vars, Tree, DelayPasses, SendGoal, StepEnds,
     GiveUp, LeaderExecutes, LifecycleExecutes, ServeChange, Environment

\* A mission that is undisturbed always was.
LEMMA StaysUndisturbed ==
    ASSUME LS!IInv, [Next]_vars, Undisturbed'
    PROVE  Undisturbed /\ UNCHANGED <<crashes, others>> /\ alive
<1>1. crashes \in Nat /\ others \in Nat /\ (alive \/ crashes > 0)
  BY DEF LS!IInv, LS!TypeOK, LS!WinnerInv
<1>2. UNCHANGED <<crashes, others>> \/ crashes' = crashes + 1 \/ others' = others + 1
  BY DEF Next, vars, Tree, DelayPasses, SendGoal, StepEnds, GiveUp, LeaderExecutes,
     LifecycleExecutes, ServeChange, Environment, lifecycleVars, Lifecycle!Node,
     Lifecycle!AnswerHandleGoal, Lifecycle!AnswerQuery, Lifecycle!ServeChange,
     Lifecycle!OtherClient, Lifecycle!NodeDies, Lifecycle!NodeRestarts,
     Lifecycle!HandleGoalTimeout, Lifecycle!HandleGoalDecides, Lifecycle!HandleGoalUnreachable,
     Lifecycle!HandleGoalAsks, Lifecycle!HandleCancel, Lifecycle!Execute,
     Lifecycle!FirstCancelCheck, Lifecycle!Query, Lifecycle!QueryTimeout,
     Lifecycle!UseAnswer, Lifecycle!Change, Lifecycle!Conclude, Lifecycle!Interrupt,
     Lifecycle!boundVars, Lifecycle!Local
<1>. QED
  BY <1>1, <1>2 DEF Undisturbed

\* Every step leaves the node where the goals have put it.
LEMMA FollowerStep ==
    ASSUME LS!IInv, LL!IInv, TreeType, SentInv, SequenceInv, FollowerInv, [Next]_vars
    PROVE  FollowerInv'
<1>. SUFFICES ASSUME Undisturbed'
              PROVE  (/\ applied[4] # Lifecycle!NotApplied => node = applied[4]
                      /\ applied[4] = Lifecycle!NotApplied /\ applied[2] # Lifecycle!NotApplied =>
                            \/ node = applied[2]
                            \/ pc[4] \in {"responded", "done"} /\ node \in Lost
                      /\ applied[2] = Lifecycle!NotApplied /\ applied[1] # Lifecycle!NotApplied =>
                            node \in {applied[1]} \cup Lost)'
  BY DEF FollowerInv
<1>. USE DEF Lifecycle!NotApplied
<1>1. Undisturbed /\ UNCHANGED <<crashes, others>> /\ alive
  BY StaysUndisturbed
<1>2. /\ applied[4] # "not_applied" => node = applied[4]
      /\ applied[4] = "not_applied" /\ applied[2] # "not_applied" =>
            node = applied[2] \/ (pc[4] \in {"responded", "done"} /\ node \in Lost)
      /\ applied[2] = "not_applied" /\ applied[1] # "not_applied" =>
            node \in {applied[1]} \cup Lost
  BY <1>1 DEF FollowerInv
<1>3. CASE /\ UNCHANGED <<node, applied>>
           /\ pc[4] \in {"responded", "done"} => pc'[4] \in {"responded", "done"}
  BY <1>2, <1>3
<1>4. ASSUME NEW g \in LifecycleSteps, Lifecycle!ServeChange(g)
      PROVE  /\ applied'[4] # "not_applied" => node' = applied'[4]
             /\ applied'[4] = "not_applied" /\ applied'[2] # "not_applied" =>
                   node' = applied'[2] \/ (pc'[4] \in {"responded", "done"} /\ node' \in Lost)
             /\ applied'[2] = "not_applied" /\ applied'[1] # "not_applied" =>
                   node' \in {applied'[1]} \cup Lost
  <2>. USE DEF LifecycleSteps
  <2>1. /\ pc \in [LifecycleSteps -> LS!Places]
        /\ applied \in [LifecycleSteps -> States \cup {"not_applied"}]
    BY DEF LS!IInv, LS!TypeOK, LS!NotApplied, States, LS!States
  <2>2. /\ pc[g] = "changing" /\ pc' = [pc EXCEPT ![g] = "responded"]
        /\ \/ applied' = applied /\ node' \in {node} \cup Lost
           \/ applied' = [applied EXCEPT ![g] = node']
        /\ node' # "not_applied"
    BY <1>4, ServeMoves DEF SentInv, States
  <2>3. g = step /\ applied[g] = "not_applied"
    BY <2>2, WhatGoalsDid, OnlyThisStepRuns DEF ServerStatus, Steps, LeaderStep
  <2>4. \A s \in LifecycleSteps :
           /\ s < g => applied[s] # "not_applied"
           /\ s > g => applied[s] = "not_applied"
    <3>. TAKE s \in LifecycleSteps
    <3>1. s < g => status[s] = "succeeded"
      BY <2>3 DEF SequenceInv, ServerStatus, Steps, LeaderStep
    <3>2. s > g => status[s] = "unknown"
      BY <2>3, OnlyThisStepRuns DEF ServerStatus, Steps, LeaderStep
    <3>. QED
      BY <3>1, <3>2, WhatGoalsDid DEF Live, States
  <2>5. CASE g = 1
    BY <2>1, <2>2, <2>3, <2>4, <2>5
  <2>6. CASE g = 2
    <3>1. applied[1] # "not_applied" /\ applied[2] = "not_applied" /\ applied[4] = "not_applied"
      BY <2>3, <2>4, <2>6
    <3>2. node \in {applied[1]} \cup Lost
      BY <1>2, <3>1
    <3>3. CASE applied' = applied /\ node' \in {node} \cup Lost
      BY <3>1, <3>2, <3>3
    <3>4. CASE applied' = [applied EXCEPT ![2] = node']
      <4>1. applied'[2] = node' /\ applied'[4] = "not_applied"
        BY <2>1, <3>1, <3>4
      <4>. QED
        BY <2>2, <4>1
    <3>. QED
      BY <2>2, <2>6, <3>3, <3>4
  <2>7. CASE g = 4
    <3>1. applied[2] # "not_applied" /\ applied[4] = "not_applied"
      BY <2>3, <2>4, <2>7
    <3>2. node = applied[2] /\ pc'[4] = "responded"
      BY <1>2, <2>1, <2>2, <2>7, <3>1
    <3>3. CASE applied' = applied /\ node' \in {node} \cup Lost
      BY <3>1, <3>2, <3>3
    <3>4. CASE applied' = [applied EXCEPT ![4] = node']
      BY <2>1, <2>2, <3>1, <3>4
    <3>. QED
      BY <2>2, <2>7, <3>3, <3>4
  <2>. QED
    BY <2>5, <2>6, <2>7
<1>. QED
  BY <1>1, <1>3, <1>4, NodeMoves DEF SentInv

\* Only the end of the route lets the goal of the leader succeed.
LEMMA LeaderStays ==
    ASSUME LL!IInv, LeaderInv, [Next]_vars
    PROVE  LeaderInv'
<1>1. /\ leader_status \in [{LeaderStep} -> LL!Statuses]
      /\ leader_pc \in [{LeaderStep} -> LL!Places]
      /\ route \in [{LeaderStep} -> Seq(LL!Point)] /\ i \in [{LeaderStep} -> Nat]
      /\ leader_status[LeaderStep] = "unknown" <=> leader_pc[LeaderStep] = "none"
      /\ leader_status[LeaderStep] \in {"executing", "canceling"} <=>
            leader_pc[LeaderStep] \notin {"none", "done"}
      /\ leader_pc[LeaderStep] \in {"check", "publish", "sleep"} =>
            i[LeaderStep] < Len(route[LeaderStep])
  BY DEF LL!IInv, LL!TypeOK, LL!Statuses, LL!GoalState, LL!Live, LL!Publishing
<1>. USE DEF LeaderInv, Leader!Ends, Leader!Goto, LL!Statuses
<1>2. CASE Leader!HandleGoal(LeaderStep) \/ Leader!HandleCancel(LeaderStep)
  BY <1>1, <1>2 DEF Leader!HandleGoal, Leader!HandleCancel
<1>3. CASE Leader!PathArrives(LeaderStep)
  BY <1>1, <1>3 DEF Leader!PathArrives
<1>4. CASE \/ Leader!CancelWhileWaiting(LeaderStep) \/ Leader!CheckCancel(LeaderStep)
           \/ Leader!Sleep(LeaderStep) \/ Leader!ShutdownWhileWaiting(LeaderStep)
  BY <1>1, <1>4 DEF Leader!CancelWhileWaiting, Leader!CheckCancel, Leader!Sleep,
     Leader!ShutdownWhileWaiting
<1>5. CASE Leader!PublishPose(LeaderStep)
  BY <1>1, <1>5 DEF Leader!PublishPose
<1>6. CASE UNCHANGED <<ok, leader_status, i, route>>
  BY <1>6
<1>. QED
  BY <1>2, <1>3, <1>4, <1>5, <1>6 DEF Next, vars, Tree, DelayPasses, SendGoal, StepEnds,
     GiveUp, LeaderExecutes, Leader!Execute, LifecycleExecutes, ServeChange, Environment,
     Leader!PathServerStarts, leaderVars

-----------------------------------------------------------------------------
(* The parser of the ports.                                                *)

\* The last word of a port decides.
LEMMA NormalizedWord ==
    ASSUME NEW words \in Seq(STRING), Len(Normalized(words)) = 1
    PROVE  Normalized(words)[1] = Last(words)
<1>1. CASE Len(words) > 2 /\ words[1] = "primary" /\ words[2] = "state"
  <2>1. Normalized(words) = SubSeq(words, 3, Len(words))
    BY <1>1 DEF Normalized
  <2>2. Len(words) = 3 /\ Normalized(words)[1] = words[3]
    BY <1>1, <2>1
  <2>. QED
    BY <2>2 DEF Last
<1>2. CASE ~(Len(words) > 2 /\ words[1] = "primary" /\ words[2] = "state")
  <2>1. Normalized(words) = words
    BY <1>2 DEF Normalized
  <2>. QED
    BY <2>1 DEF Last
<1>. QED
  BY <1>1, <1>2

\* A port that is parsed to a state means that state.
LEMMA ParsedDenotes ==
    ASSUME NEW words \in Seq(STRING), ParseState(words) # "none"
    PROVE  Denotes(words, ParseState(words))
<1>. DEFINE w == Last(words)
<1>1. Len(Normalized(words)) = 1
  BY DEF ParseState
<1>2. Normalized(words)[1] = w
  BY <1>1, NormalizedWord
<1>3. CASE w \in DOMAIN Number
  <2>1. ParseState(words) = IF Number[w] > 255 THEN "none" ELSE OfId(Number[w])
    BY <1>1, <1>2, <1>3 DEF ParseState
  <2>2. Number[w] \in {2, 3}
    BY <1>3, <2>1 DEF Number
  <2>3. Number[w] % 256 = Number[w]
    <3>1. 2 % 256 = 2 /\ 3 % 256 = 3
      OBVIOUS
    <3>. QED
      BY <3>1, <2>2
  <2>4. Number[w] \in DOMAIN StateOfId /\ ParseState(words) = StateOfId[Number[w]]
    BY <2>1, <2>2, <2>3 DEF OfId
  <2>. QED
    BY <1>3, <2>4 DEF Denotes
<1>4. CASE w \notin DOMAIN Number
  <2>1. ParseState(words) = IF w = "shutdown" THEN "finalized"
                            ELSE IF w \in States THEN w ELSE "none"
    BY <1>1, <1>2, <1>4 DEF ParseState
  <2>. QED
    BY <2>1 DEF Denotes
<1>. QED
  BY <1>3, <1>4

-----------------------------------------------------------------------------
(* Safety.                                                                 *)

\* The invariant of the mission, on top of those of its servers.
MissionInv ==
    /\ LS!IInv /\ LL!IInv
    /\ TreeType /\ SentInv /\ SequenceInv
    /\ FollowerInv /\ LeaderInv

\* The tree and its two servers keep the invariant, whatever the node, its other
\* clients and the path server do.
THEOREM MissionInvariant == Spec => []MissionInv
<1>1. Init => TreeType /\ SentInv /\ SequenceInv
  BY OrderInit
<1>2. Init => FollowerInv /\ LeaderInv
  BY DEF Init, FollowerInv, LeaderInv, Lifecycle!Init, Leader!Init, Lifecycle!NotApplied,
     LifecycleSteps
<1>3. LS!IInv /\ LL!IInv /\ TreeType /\ SentInv /\ SequenceInv /\ [Next]_vars
         => (TreeType /\ SentInv /\ SequenceInv)'
  BY OrderStep
<1>4. LS!IInv /\ LL!IInv /\ TreeType /\ SentInv /\ SequenceInv /\ FollowerInv /\ LeaderInv
      /\ [Next]_vars => (FollowerInv /\ LeaderInv)'
  BY FollowerStep, LeaderStays
<1>. QED
  BY <1>1, <1>2, <1>3, <1>4, LifecycleInvariant, LeaderInvariant, PTL DEF Spec, MissionInv

\* The variables of the tree and of its servers keep their types.
THEOREM TypeCorrect == Spec => []TypeOK
<1>1. MissionInv => TypeOK
  BY SameStates, SameLeaderStates DEF MissionInv, LS!IInv, LL!IInv, TreeType, TypeOK
<1>. QED
  BY <1>1, MissionInvariant, PTL

\* What a goal that succeeded has made of the port of its step.
LEMMA SucceededMeans ==
    ASSUME MissionInv, NEW s \in LifecycleSteps, status[s] = "succeeded"
    PROVE  /\ Denotes(ports[s], applied[s])
           /\ applied[s] \in States
<1>1. applied[s] \in States /\ applied[s] = ParseState(ports[s])
  BY WhatGoalsDid DEF MissionInv
<1>2. ports[s] \in Seq(STRING)
  BY PortsAssumption DEF MissionInv, TreeType
<1>3. ParseState(ports[s]) # "none"
  BY <1>1 DEF States
<1>. QED
  BY <1>1, <1>2, <1>3, ParsedDenotes

\* The leader moves only ahead of a follower that this mission has brought into
\* the state that the port of the step before names, whatever the servers have
\* done about the goals before, as long as nobody else moves the node.
THEOREM LeaderLeadsOnlyFollowers == Spec => []LeaderLeadsActiveFollowers
<1>1. MissionInv => LeaderLeadsActiveFollowers
  <2>. SUFFICES ASSUME MissionInv, Undisturbed, leader_status[LeaderStep] = "executing"
                PROVE  applied[2] = node /\ Denotes(ports[2], node)
    BY DEF LeaderLeadsActiveFollowers
  <2>. USE DEF LifecycleSteps, LeaderStep, Steps
  <2>1. step = 3
    BY OnlyThisStepRuns DEF MissionInv, Live, ServerStatus
  <2>2. status[2] = "succeeded"
    BY <2>1 DEF MissionInv, SequenceInv, ServerStatus
  <2>3. status[4] = "unknown"
    BY <2>1, OnlyThisStepRuns DEF MissionInv, ServerStatus
  <2>4. applied[4] = Lifecycle!NotApplied /\ pc[4] = "none"
    BY <2>3, WhatGoalsDid DEF MissionInv, Live
  <2>5. Denotes(ports[2], applied[2]) /\ applied[2] # Lifecycle!NotApplied
    BY <2>2, SucceededMeans DEF States, Lifecycle!NotApplied
  <2>6. node = applied[2]
    BY <2>4, <2>5 DEF MissionInv, FollowerInv
  <2>. QED
    BY <2>5, <2>6
<1>. QED
  BY <1>1, MissionInvariant, PTL

\* A mission that succeeds has done what its ports say, each time, and leaves
\* the follower in the state of its last step.
THEOREM SuccessIsDone == Spec => []SuccessMeansDone
<1>1. MissionInv => SuccessMeansDone
  <2>. SUFFICES ASSUME MissionInv, verdict = "success" PROVE SuccessMeansDone
    BY DEF SuccessMeansDone
  <2>. USE DEF LifecycleSteps, LeaderStep, Steps
  <2>1. \A s \in Steps : ServerStatus(s) = "succeeded"
    BY DEF MissionInv, SequenceInv
  <2>2. /\ leader_status[LeaderStep] = "succeeded"
        /\ \A s \in LifecycleSteps : status[s] = "succeeded"
    BY <2>1 DEF ServerStatus
  <2>3. \A s \in LifecycleSteps :
           Denotes(ports[s], applied[s]) /\ applied[s] # Lifecycle!NotApplied
    BY <2>2, SucceededMeans DEF States, Lifecycle!NotApplied
  <2>4. Undisturbed => node = applied[4]
    BY <2>3 DEF MissionInv, FollowerInv
  <2>. QED
    BY <2>2, <2>3, <2>4 DEF SuccessMeansDone, MissionInv, LeaderInv
<1>. QED
  BY <1>1, MissionInvariant, PTL

\* A mission that failed, and did not give up, has left the follower active
\* only because of the leader, or of the last step.
THEOREM OnlyTheLeaderLeavesItActive == Spec => []LeftActiveOnlyByTheLeader
<1>1. MissionInv => LeftActiveOnlyByTheLeader
  <2>. SUFFICES ASSUME MissionInv, verdict \in {"failure", "terminated"}, ~gaveUp, Undisturbed,
                       applied[1] = "inactive", node = "active"
                PROVE  /\ applied[2] = "active" /\ applied[4] = Lifecycle!NotApplied
                       /\ step \in {3, 4}
    BY DEF LeftActiveOnlyByTheLeader
  <2>. USE DEF LifecycleSteps, LeaderStep, Steps, Lifecycle!NotApplied
  <2>1. \A s \in LifecycleSteps : status[s] \notin Live
    BY OnlyThisStepRuns DEF MissionInv, Live, ServerStatus
  <2>2. \A s \in LifecycleSteps :
           applied[s] # "not_applied" => status[s] = "succeeded" /\ s < step
    <3>. SUFFICES ASSUME NEW s \in LifecycleSteps, applied[s] # "not_applied"
                  PROVE  status[s] = "succeeded" /\ s < step
      OBVIOUS
    <3>1. status[s] = "succeeded" /\ s \in sent
      BY <2>1, WhatGoalsDid DEF MissionInv
    <3>2. s <= step /\ step \in 1..4
      BY <3>1 DEF MissionInv, TreeType
    <3>3. s # step
      BY <3>1 DEF MissionInv, SequenceInv, ServerStatus
    <3>. QED
      BY <3>1, <3>2, <3>3
  <2>3. applied[4] = "not_applied"
    BY <2>2 DEF MissionInv, TreeType
  <2>4. applied[2] # "not_applied"
    BY DEF MissionInv, FollowerInv, Lost
  <2>5. step \in {3, 4}
    BY <2>2, <2>4 DEF MissionInv, TreeType
  <2>6. node = applied[2]
    BY <2>3, <2>4 DEF MissionInv, FollowerInv, Lost
  <2>. QED
    BY <2>3, <2>5, <2>6
<1>. QED
  BY <1>1, MissionInvariant, PTL

\* A mission that has ended on what its servers answered leaves nothing behind
\* that moves the follower or the leader.
THEOREM NothingIsLeftBehind == Spec => EndedMissionActsNoMore
<1>. DEFINE Quiet == verdict # "running" /\ ~gaveUp /\ others' = others /\ crashes' = crashes
                        /\ (alive' = alive) => UNCHANGED <<node, leader>>
<1>1. MissionInv /\ [Next]_vars => [Quiet]_vars
  <2>. SUFFICES ASSUME MissionInv, [Next]_vars, verdict # "running", ~gaveUp,
                       UNCHANGED <<crashes, others>>, alive' = alive
                PROVE  UNCHANGED <<node, leader>>
    OBVIOUS
  <2>. USE DEF LifecycleSteps, LeaderStep, Steps
  <2>1. \A s \in Steps : ServerStatus(s) \notin Live
    BY OnlyThisStepRuns DEF MissionInv
  <2>2. \A s \in LifecycleSteps : pc[s] # "changing"
    BY <2>1, WhatGoalsDid DEF MissionInv, ServerStatus
  <2>3. UNCHANGED node
    <3>1. \A s \in LifecycleSteps : pc[s] # "interrupted"
      BY DEF MissionInv, SentInv, LS!IInv, LS!GoalInv
    <3>. QED
      BY <2>2, <3>1, NodeMoves DEF MissionInv, SentInv, Lifecycle!ServeChange
  <2>4. leader_pc[LeaderStep] # "publish"
    BY <2>1 DEF MissionInv, LL!IInv, LL!GoalState, LL!Live, Live, ServerStatus
  <2>5. UNCHANGED leader
    BY <2>4 DEF Next, vars, Tree, DelayPasses, SendGoal, StepEnds, GiveUp, LeaderExecutes,
       Leader!HandleGoal, Leader!HandleCancel, Leader!PathArrives, Leader!Execute,
       Leader!CancelWhileWaiting, Leader!CheckCancel, Leader!PublishPose, Leader!Sleep,
       Leader!ShutdownWhileWaiting, Leader!PathServerStarts, LifecycleExecutes, ServeChange,
       Environment, leaderVars
  <2>. QED
    BY <2>3, <2>5
<1>. QED
  BY <1>1, MissionInvariant, PTL DEF Spec, EndedMissionActsNoMore

-----------------------------------------------------------------------------
(* The mission as ActionClient has it.                                     *)

\* What ActionClient sees of a mission.
phase == [s \in Steps |-> Phase(s)]
runs == [s \in Steps |-> IF s \in sent THEN 1 ELSE 0]
goals == [g \in Steps \X {1} |-> ServerStatus(g[1])]
lost == IF gaveUp THEN {step} ELSE {}

\* The step that the tree has come to.
LEMMA PresentStep ==
    ASSUME MissionInv
    PROVE  /\ step \in Steps /\ sent \subseteq 1..step
           /\ step \in sent /\ verdict = "running" => phase[step] = "running"
           /\ step \notin sent /\ verdict = "running" => phase[step] = "idle"
           /\ runs[step] = 1 <=> step \in sent
           /\ \A s \in Steps \ {step} : phase[s] # "running"
  BY DEF MissionInv, TreeType, phase, runs, Phase, Steps

\* The transitions of a goal.
Transition(from, to) ==
    \/ from = "unknown" /\ to \in {"rejected", "executing"}
    \/ from = "executing" /\ to = "canceling"
    \/ from \in {"executing", "canceling"} /\ to \in {"succeeded", "aborted"}
    \/ from = "canceling" /\ to = "canceled"

\* A step moves one goal, which has been sent, or none.
LEMMA GoalMoves ==
    ASSUME MissionInv, [Next]_vars
    PROVE  \/ goals' = goals
           \/ \E s \in sent : \E to :
                 /\ s \in Steps /\ Transition(ServerStatus(s), to)
                 /\ goals' = [goals EXCEPT ![<<s, 1>>] = to]
<1>1. UNCHANGED status \/ UNCHANGED leader_status
  BY DEF Next, vars, Tree, DelayPasses, SendGoal, StepEnds, GiveUp, LeaderExecutes,
     LifecycleExecutes, ServeChange, Environment, lifecycleVars, leaderVars
<1>2. /\ \A s \in Steps \ sent : ServerStatus(s)' = ServerStatus(s)
      /\ Steps = LifecycleSteps \cup {LeaderStep} /\ LeaderStep \notin LifecycleSteps
  BY ServerSteps DEF MissionInv, Steps, LifecycleSteps, LeaderStep
<1>3. status \in [LifecycleSteps -> {"unknown", "executing", "canceling", "rejected",
                                     "succeeded", "aborted", "canceled"}]
      /\ leader_status \in [{LeaderStep} -> LL!Statuses]
  BY DEF MissionInv, LS!IInv, LS!TypeOK, LL!IInv, LL!TypeOK, LL!Statuses
<1>4. \/ UNCHANGED status
      \/ \E g \in LifecycleSteps : \E to :
            Transition(status[g], to) /\ status' = [status EXCEPT ![g] = to]
  <2>1. [LS!ActionServer!Next]_status
    BY LifecycleServerSteps, LifecycleAssumptions, LS!GoalStep DEF MissionInv
  <2>. QED
    BY <2>1 DEF LS!ActionServer!Next, LS!ActionServer!Reject, LS!ActionServer!Accept,
       LS!ActionServer!Cancel, LS!ActionServer!Finish, LS!ActionServer!Succeed,
       LS!ActionServer!Abort, LS!ActionServer!Canceled, LS!ActionServer!Moves, Transition
<1>5. \/ UNCHANGED leader_status
      \/ \E to : /\ Transition(leader_status[LeaderStep], to)
                 /\ leader_status' = [leader_status EXCEPT ![LeaderStep] = to]
  <2>1. [LL!ActionServer!Next]_leader_status
    BY LeaderServerSteps, LeaderAssumptions, LL!GoalStep DEF MissionInv
  <2>. QED
    BY <2>1 DEF LL!ActionServer!Next, LL!ActionServer!Reject, LL!ActionServer!Accept,
       LL!ActionServer!Cancel, LL!ActionServer!Finish, LL!ActionServer!Succeed,
       LL!ActionServer!Abort, LL!ActionServer!Canceled, LL!ActionServer!Moves, Transition
<1>6. CASE UNCHANGED <<status, leader_status>>
  BY <1>6 DEF goals, ServerStatus
<1>7. ASSUME NEW s \in Steps, NEW to, Transition(ServerStatus(s), to), ServerStatus(s)' = to,
             \A r \in Steps \ {s} : ServerStatus(r)' = ServerStatus(r)
      PROVE  s \in sent /\ goals' = [goals EXCEPT ![<<s, 1>>] = to]
  <2>1. s \in sent
    BY <1>2, <1>7 DEF Transition
  <2>2. \A g \in Steps \X {1} : g[1] \in Steps /\ (g # <<s, 1>> => g[1] # s)
    OBVIOUS
  <2>3. \A g \in Steps \X {1} : goals'[g] = IF g = <<s, 1>> THEN to ELSE goals[g]
    BY <1>7, <2>2 DEF goals
  <2>. QED
    BY <2>1, <2>3 DEF goals
<1>8. ASSUME NEW g \in LifecycleSteps, NEW to, Transition(status[g], to),
             status' = [status EXCEPT ![g] = to], UNCHANGED leader_status
      PROVE  g \in sent /\ goals' = [goals EXCEPT ![<<g, 1>>] = to]
  <2>1. /\ g \in Steps /\ ServerStatus(g) = status[g] /\ ServerStatus(g)' = to
        /\ \A r \in Steps \ {g} : ServerStatus(r)' = ServerStatus(r)
    BY <1>2, <1>3, <1>8 DEF ServerStatus
  <2>. QED
    BY <1>7, <1>8, <2>1
<1>9. ASSUME NEW to, Transition(leader_status[LeaderStep], to),
             leader_status' = [leader_status EXCEPT ![LeaderStep] = to], UNCHANGED status
      PROVE  LeaderStep \in sent /\ goals' = [goals EXCEPT ![<<LeaderStep, 1>>] = to]
  <2>1. /\ LeaderStep \in Steps /\ ServerStatus(LeaderStep) = leader_status[LeaderStep]
        /\ ServerStatus(LeaderStep)' = to
        /\ \A r \in Steps \ {LeaderStep} : ServerStatus(r)' = ServerStatus(r)
    BY <1>2, <1>3, <1>9 DEF ServerStatus
  <2>. QED
    BY <1>7, <1>9, <2>1
<1>. QED
  BY <1>1, <1>2, <1>4, <1>5, <1>6, <1>8, <1>9 DEF ServerStatus

\* A step that the tree takes no part in is one of a server.
LEMMA ServersKeepContract ==
    ASSUME MissionInv, [Next]_vars, UNCHANGED <<phase, runs, lost>>
    PROVE  [Client!Next]_(Client!vars)
<1>1. CASE goals' = goals
  BY <1>1 DEF Client!vars, phase, runs, goals, lost
<1>2. ASSUME NEW s \in sent, NEW to, s \in Steps, Transition(ServerStatus(s), to),
             goals' = [goals EXCEPT ![<<s, 1>>] = to]
      PROVE  Client!Next
  <2>. DEFINE g == <<s, 1>>
  <2>1. g \in Steps \X {1} /\ goals[g] = ServerStatus(s) /\ g[2] <= runs[g[1]]
    BY <1>2 DEF goals, runs
  <2>2. \/ Client!Server!Reject(g) \/ Client!Server!Accept(g)
        \/ Client!Server!Cancel(g) \/ Client!Server!Finish(g)
    BY <1>2, <2>1 DEF Transition, goals, Client!Server!Reject, Client!Server!Accept,
       Client!Server!Cancel, Client!Server!Finish, Client!Server!Succeed, Client!Server!Abort,
       Client!Server!Canceled, Client!Server!Moves
  <2>3. Client!Serve(g)
    BY <2>1, <2>2 DEF Client!Serve, phase, runs, lost
  <2>. QED
    BY <2>1, <2>3 DEF Client!Next
<1>. QED
  BY <1>1, <1>2, GoalMoves

\* A mission that has been given up has ended.
LEMMA GivenUp == Spec => [](gaveUp => verdict = "failure")
<1>1. Init => ~gaveUp
  BY DEF Init
<1>2. MissionInv /\ (gaveUp => verdict = "failure") /\ [Next]_vars
         => (gaveUp => verdict = "failure")'
  BY TreeSteps DEF MissionInv
<1>. QED
  BY <1>1, <1>2, MissionInvariant, PTL DEF Spec

\* What the tree does, a node of ActionClient may do.
LEMMA TreeKeepsContract ==
    ASSUME MissionInv, gaveUp => verdict = "failure", [Next]_vars
    PROVE  [Client!Next]_(Client!vars)
<1>1. /\ step \in Steps /\ sent \subseteq 1..step
      /\ step \in sent /\ verdict = "running" => phase[step] = "running"
      /\ step \notin sent /\ verdict = "running" => phase[step] = "idle"
      /\ runs[step] = 1 <=> step \in sent
      /\ \A s \in Steps \ {step} : phase[s] # "running"
  BY PresentStep
<1>2. CASE UNCHANGED <<step, sent, verdict>> /\ gaveUp' = gaveUp
  <2>1. UNCHANGED <<phase, runs, lost>>
    BY <1>2 DEF phase, runs, lost, Phase
  <2>. QED
    BY <2>1, ServersKeepContract
<1>. DEFINE becomes(p) == phase' = [phase EXCEPT ![step] = p]
<1>3. CASE /\ verdict = "running" /\ step \notin sent
           /\ UNCHANGED <<step, gaveUp, lifecycleVars, leaderVars>>
           /\ \/ sent' = sent \cup {step} /\ UNCHANGED verdict
              \/ verdict' \in {"failure", "terminated"} /\ UNCHANGED sent
  <2>1. UNCHANGED <<goals, lost>> /\ Client!MayStart(step)
    BY <1>1, <1>3 DEF goals, lost, ServerStatus, lifecycleVars, leaderVars, Client!MayStart,
       phase
  <2>2. CASE sent' = sent \cup {step} /\ UNCHANGED verdict
    <3>1. becomes("running")
      BY <1>1, <1>3, <2>2 DEF phase, Phase, Steps
    <3>2. PICK r \in Steps : r = step
      BY <1>1
    <3>3. runs[r] = 0 /\ runs' = [runs EXCEPT ![r] = 1]
      BY <1>1, <1>3, <2>2, <3>2 DEF runs
    <3>4. runs' = [runs EXCEPT ![r] = @ + 1] /\ <<r, runs'[r]>> \in Steps \X {1}
      <4>1. runs[r] + 1 = 1 /\ runs \in [Steps -> {0, 1}]
        BY <3>3 DEF runs
      <4>. QED
        BY <3>3, <4>1
    <3>5. Client!Start(r)
      BY <2>1, <3>1, <3>2, <3>4 DEF Client!Start, Client!MayStart, Client!Becomes, phase, runs,
         goals, lost
    <3>. QED
      BY <3>2, <3>5 DEF Client!Next
  <2>3. CASE verdict' \in {"failure", "terminated"} /\ UNCHANGED sent
    <3>1. becomes("failure") /\ UNCHANGED runs
      BY <1>1, <1>3, <2>3 DEF phase, Phase, runs, Steps
    <3>2. Client!Refuse(step)
      BY <2>1, <3>1 DEF Client!Refuse, Client!Becomes, phase, runs, goals, lost
    <3>. QED
      BY <1>1, <3>2 DEF Client!Next
  <2>. QED
    BY <1>3, <2>2, <2>3
<1>4. CASE /\ verdict = "running" /\ verdict' = "failure" /\ gaveUp'
           /\ UNCHANGED <<step, sent, lifecycleVars, leaderVars>>
  <2>1. CASE step \in sent
    <3>1. UNCHANGED <<goals, runs>> /\ lost' = lost \cup {step} /\ becomes("failure")
      BY <1>1, <1>4 DEF goals, runs, lost, phase, Phase, Steps, ServerStatus, lifecycleVars,
         leaderVars
    <3>2. Client!GiveUp(step)
      BY <1>1, <1>4, <2>1, <3>1 DEF Client!GiveUp, Client!Becomes, phase, runs, goals, lost
    <3>. QED
      BY <1>1, <3>2 DEF Client!Next
  <2>2. step \in sent
    BY <1>4 DEF Next, vars, treeVars, Tree, DelayPasses, SendGoal, StepEnds, Advance, Ends,
       GiveUp, LifecycleExecutes, LeaderExecutes, ServeChange, Environment
  <2>. QED
    BY <2>1, <2>2
<1>5. CASE /\ verdict = "running" /\ step \in sent /\ ServerStatus(step) \in Terminal
           /\ UNCHANGED <<sent, gaveUp, lifecycleVars, leaderVars>>
           /\ \/ /\ ServerStatus(step) # "succeeded"
                 /\ verdict' = "failure" /\ UNCHANGED step
              \/ /\ ServerStatus(step) = "succeeded" /\ step = 4
                 /\ verdict' = "success" /\ UNCHANGED step
              \/ /\ ServerStatus(step) = "succeeded" /\ step # 4
                 /\ step' = step + 1 /\ UNCHANGED verdict
  <2>1. UNCHANGED <<goals, runs, lost>> /\ lost = {}
    BY <1>5 DEF goals, runs, lost, ServerStatus, lifecycleVars, leaderVars
  <2>2. becomes(IF ServerStatus(step) = "succeeded" THEN "success" ELSE "failure")
    BY <1>1, <1>5 DEF phase, Phase, Steps
  <2>3. /\ goals[<<step, runs[step]>>] = ServerStatus(step)
        /\ ServerStatus(step) \in Client!Server!Terminal
    BY <1>1, <1>5 DEF goals, Terminal, Client!Server!Terminal
  <2>4. Client!Report(step)
    BY <1>1, <1>5, <2>1, <2>2, <2>3 DEF Client!Report, Client!HasEnded, Client!Current,
       Client!Becomes, phase, runs, goals, lost
  <2>. QED
    BY <1>1, <2>4 DEF Client!Next
<1>. QED
  BY <1>2, <1>3, <1>4, <1>5, TreeSteps DEF MissionInv

\* To its servers, a mission is four action nodes that keep to ActionClient,
\* as RosActionNode does: the tree never goes on, or ends, before the server of
\* its step has ended the goal, unless the mission was given up.
THEOREM MissionKeepsTheContract == Spec => ImplementsActionClient
<1>1. Init => Client!Init
  <2>. SUFFICES ASSUME Init PROVE Client!Init
    OBVIOUS
  <2>1. step = 1 /\ sent = {} /\ verdict = "running" /\ gaveUp = FALSE
    BY DEF Init
  <2>2. \A s \in Steps : ServerStatus(s) = "unknown" /\ Phase(s) = "idle"
    BY <2>1 DEF Init, Lifecycle!Init, Leader!Init, ServerStatus, Steps, LifecycleSteps,
       LeaderStep, Phase
  <2>. QED
    BY <2>1, <2>2 DEF Client!Init, Client!Server!Init
<1>. QED
  BY <1>1, TreeKeepsContract, GivenUp, MissionInvariant, PTL
     DEF Spec, ImplementsActionClient, Client!Spec
=============================================================================
