---------------------------- MODULE FollowerNode ----------------------------
(***************************************************************************)
(* The managed node of inrof_swerm/src/ros/follower_node.cpp that drives   *)
(* the follower robots.  follower_main.cpp spins it on a single-threaded   *)
(* executor, so each callback (transition, parameter, map, odometry and    *)
(* timer callback) is one atomic step.                                     *)
(*                                                                         *)
(* Poses, velocities and the control law are abstracted: of a matrix only  *)
(* the number of columns is kept, of a command only whether it is the zero *)
(* twist of control_stop ("stop") or an output of the controller           *)
(* ("drive"), and a finite double is an integer that keeps its order.      *)
(***************************************************************************)
EXTENDS Integers, Sequences

CONSTANTS
    MaxRobots,   \* bound on the parameter boid_num
    Values,      \* the finite values a double parameter is given
    NotFinite,   \* a NaN or an infinity
    Defaults,    \* the gains declared by the constructor, or by the YAML file
    Tunables,    \* the gains that somebody sets while the node runs
    Maps,        \* the occupancy grids the map server may latch
    NoMap,
    NoCore,
    MaxFaults    \* bound on the exceptions the middleware throws

GainNames == {"max_vel", "Ir", "Ir_min", "k_separation", "k_alignment",
              "k_gravity", "k_follow", "k_wall"}
Handled == GainNames \ {"k_wall"}     \* the names parameters_callback looks at
Doubles == Values \cup {NotFinite}
Gains == [GainNames -> Doubles]
Robots == 0..(MaxRobots - 1)
FleetSizes == 0..MaxRobots
States == {"unconfigured", "inactive", "active", "finalized"}
Commands == {"none", "stop", "drive"}

ASSUME MaxRobotsAssumption == MaxRobots \in Nat
ASSUME ValuesAssumption == Values \subseteq Int /\ NotFinite \notin Values
ASSUME DefaultsAssumption == Defaults \in Gains
ASSUME TunablesAssumption == Tunables \subseteq GainNames
ASSUME MapsAssumption == NoMap \notin Maps
ASSUME MaxFaultsAssumption == MaxFaults \in Nat

VARIABLES
    ok,             \* rclcpp::ok(): no SIGINT yet
    lifecycle,      \* primary state of the lifecycle state machine
    storeNum,       \* the node's parameter store: boid_num
    storeGains,     \* the node's parameter store: every double parameter
    registered,     \* parameter_callback_handle_ is set
    boidNum,        \* boid_params_.boid_num
    gains,          \* the doubles of boid_params_, and k_follow_
    field,          \* boid_params_.field: the map it was computed from
    mapSub,         \* map_subscriber_ is set
    subscribeMap,   \* subscribe_map_
    core,           \* follower_core_
    publishers,     \* cmd_vel_publishers_: the robot each one addresses
    odomSubs,       \* the ids bound into odom_subscribers_
    cols,           \* columns of pos_matrix_ and of vel_matrix_
    seen,           \* columns that hold an odometry, not zero
    leaderSub,      \* leader_pos_subscriber_ is set
    leaderSeen,     \* leader_pos_ holds an odometry, not zero
    timer,          \* control_timer_ is set
    latched,        \* the sample the transient-local topic map holds
    lastCmd,        \* the last command sent to each robot
    faults,         \* exceptions thrown so far
    heard           \* history: maps received since the last on_configure

paramVars == <<storeNum, storeGains, registered, boidNum, gains>>
mapVars == <<field, mapSub, subscribeMap, latched, heard>>
poseVars == <<cols, seen, leaderSub, leaderSeen>>
controlVars == <<core, publishers, odomSubs, timer, lastCmd>>
vars == <<ok, lifecycle, paramVars, mapVars, poseVars, controlVars, faults>>

Cores == [boidNum : FleetSizes, gains : Gains, field : Maps \cup {NoMap}]

ASSUME NoCoreAssumption == NoCore \notin Cores

TypeOK ==
    /\ ok \in BOOLEAN
    /\ lifecycle \in States
    /\ storeNum \in FleetSizes
    /\ storeGains \in Gains
    /\ registered \in BOOLEAN
    /\ boidNum \in FleetSizes
    /\ gains \in Gains
    /\ field \in Maps \cup {NoMap}
    /\ mapSub \in BOOLEAN
    /\ subscribeMap \in BOOLEAN
    /\ core \in Cores \cup {NoCore}
    /\ publishers \in Seq(Robots)
    /\ odomSubs \subseteq Robots
    /\ cols \in FleetSizes
    /\ seen \subseteq Robots
    /\ leaderSub \in BOOLEAN
    /\ leaderSeen \in BOOLEAN
    /\ timer \in BOOLEAN
    /\ latched \in Maps \cup {NoMap}
    /\ lastCmd \in [Robots -> Commands]
    /\ faults \in 0..MaxFaults
    /\ heard \subseteq Maps

-----------------------------------------------------------------------------
(* Helpers.                                                                *)

\* The publishers that on_activate creates for the first n robots, in order.
Fleet(n) == [j \in 1..n |-> j - 1]

Addressed(pubs) == {pubs[j] : j \in DOMAIN pubs}

\* Mutant of ControlStop: the loop leaves the first publisher out.
ControlStopFromOne(pubs, cmds) ==
    [r \in Robots |-> IF r \in Addressed(pubs) \ {0} THEN "stop" ELSE cmds[r]]

\* control_stop: the zero twist on every publisher of the vector.
ControlStop(pubs, cmds) ==
    [r \in Robots |-> IF r \in Addressed(pubs) THEN "stop" ELSE cmds[r]]

\* The test at the end of parameters_callback.
Valid(g) ==
    /\ \A name \in Handled : g[name] # NotFinite
    /\ g["max_vel"] >= 0
    /\ g["Ir"] > 0
    /\ g["Ir_min"] > 0
    /\ g["Ir"] > g["Ir_min"]

\* What a batch of the values in b leaves of the gains in g.
Updated(g, b) == [name \in GainNames |-> IF name \in DOMAIN b THEN b[name] ELSE g[name]]

\* parameters_callback copies every name it handles, and ignores k_wall.
Tuned(g, b) == [name \in GainNames |->
                  IF name \in DOMAIN b \cap Handled THEN b[name] ELSE g[name]]

-----------------------------------------------------------------------------
\* The indeterminate boid_params_ of a new node is never read before
\* on_configure writes it: any value stands for it.
Init ==
    /\ ok = TRUE
    /\ lifecycle = "unconfigured"
    /\ storeNum \in FleetSizes
    /\ storeGains = Defaults
    /\ registered = FALSE
    /\ boidNum \in FleetSizes
    /\ gains = Defaults
    /\ field = NoMap
    /\ mapSub = FALSE
    /\ subscribeMap = FALSE
    /\ core = NoCore
    /\ publishers = <<>>
    /\ odomSubs = {}
    /\ cols = 0
    /\ seen = {}
    /\ leaderSub = FALSE
    /\ leaderSeen = FALSE
    /\ timer = FALSE
    /\ latched = NoMap
    /\ lastCmd = [r \in Robots |-> "none"]
    /\ faults = 0
    /\ heard = {}

-----------------------------------------------------------------------------
(* Parameters.                                                             *)

\* Mutant of SetGains: the batch is copied without the test at the end.
SetGainsUnchecked(b) ==
    /\ ok
    /\ storeGains' = Updated(storeGains, b)
    /\ gains' = IF registered THEN Tuned(gains, b) ELSE gains
    /\ UNCHANGED <<ok, lifecycle, storeNum, registered, boidNum, mapVars,
                   poseVars, controlVars, faults>>

\* Before on_configure has registered parameters_callback the store takes
\* whatever it is given; afterwards a batch is taken as a whole or refused.
SetGains(b) ==
    /\ ok
    /\ registered => Valid(Tuned(gains, b))
    /\ storeGains' = Updated(storeGains, b)
    /\ gains' = IF registered THEN Tuned(gains, b) ELSE gains
    /\ UNCHANGED <<ok, lifecycle, storeNum, registered, boidNum, mapVars,
                   poseVars, controlVars, faults>>

\* A batch that names boid_num is refused once the callback is registered.
SetBoidNum(n) ==
    /\ ok
    /\ ~registered
    /\ storeNum' = n
    /\ UNCHANGED <<ok, lifecycle, storeGains, registered, boidNum, gains,
                   mapVars, poseVars, controlVars, faults>>

-----------------------------------------------------------------------------
(* Topics and the control timer.                                           *)

MapServerPublishes(m) ==
    /\ latched' = m
    /\ UNCHANGED <<ok, lifecycle, paramVars, field, mapSub, subscribeMap,
                   heard, poseVars, controlVars, faults>>

\* Only the first map after on_configure is turned into a distance field.
MapCallback ==
    /\ ok
    /\ mapSub
    /\ latched # NoMap
    /\ heard' = heard \cup {latched}
    /\ subscribeMap' = TRUE
    /\ field' = IF subscribeMap THEN field ELSE latched
    /\ UNCHANGED <<ok, lifecycle, paramVars, mapSub, latched, poseVars,
                   controlVars, faults>>

\* The column written is the id its subscription was created with.
OdomCallback(id) ==
    /\ ok
    /\ id \in odomSubs
    /\ id < boidNum
    /\ seen' = seen \cup {id}
    /\ UNCHANGED <<ok, lifecycle, paramVars, mapVars, cols, leaderSub,
                   leaderSeen, controlVars, faults>>

LeaderOdomCallback ==
    /\ ok
    /\ leaderSub
    /\ leaderSeen' = TRUE
    /\ UNCHANGED <<ok, lifecycle, paramVars, mapVars, cols, seen, leaderSub,
                   controlVars, faults>>

\* Mutant of ControlCallback: the loop ends one robot early.
ControlCallbackShort ==
    /\ ok
    /\ timer
    /\ lastCmd' = [r \in Robots |->
                     IF \E j \in DOMAIN publishers : j < boidNum /\ publishers[j] = r
                     THEN "drive" ELSE lastCmd[r]]
    /\ UNCHANGED <<ok, lifecycle, paramVars, mapVars, poseVars, core,
                   publishers, odomSubs, timer, faults>>

\* One controller output per robot, the i-th on the i-th publisher.
ControlCallback ==
    /\ ok
    /\ timer
    /\ lastCmd' = [r \in Robots |->
                     IF \E j \in DOMAIN publishers : j <= boidNum /\ publishers[j] = r
                     THEN "drive" ELSE lastCmd[r]]
    /\ UNCHANGED <<ok, lifecycle, paramVars, mapVars, poseVars, core,
                   publishers, odomSubs, timer, faults>>

-----------------------------------------------------------------------------
(* Lifecycle transitions.                                                  *)

\* Mutant of ConfigureReads: subscribe_map_ is not reset.
ConfigureReadsKeepsMap ==
    /\ boidNum' = storeNum
    /\ gains' = storeGains
    /\ registered' = TRUE
    /\ cols' = storeNum
    /\ seen' = {}
    /\ leaderSeen' = FALSE
    /\ heard' = {}
    /\ UNCHANGED subscribeMap

\* Mutant of ConfigureReads: the matrices are sized before boid_num is read.
ConfigureReadsSizesFirst ==
    /\ boidNum' = storeNum
    /\ gains' = storeGains
    /\ registered' = TRUE
    /\ cols' = boidNum
    /\ seen' = {}
    /\ leaderSeen' = FALSE
    /\ subscribeMap' = FALSE
    /\ heard' = {}

\* What on_configure has done when it comes to create the map subscription.
ConfigureReads ==
    /\ boidNum' = storeNum
    /\ gains' = storeGains
    /\ registered' = TRUE
    /\ cols' = storeNum
    /\ seen' = {}
    /\ leaderSeen' = FALSE
    /\ subscribeMap' = FALSE
    /\ heard' = {}

OnConfigure ==
    /\ ok
    /\ lifecycle = "unconfigured"
    /\ ConfigureReads
    /\ mapSub' = TRUE
    /\ lifecycle' = "inactive"
    /\ UNCHANGED <<ok, storeNum, storeGains, field, latched, leaderSub,
                   controlVars, faults>>

\* on_activate answers FAILURE, and the node stays inactive.
OnActivateRefused ==
    /\ ok
    /\ lifecycle = "inactive"
    /\ ~subscribeMap
    /\ UNCHANGED vars

NewCore == [boidNum |-> boidNum, gains |-> gains, field |-> field]

OnActivate ==
    /\ ok
    /\ lifecycle = "inactive"
    /\ subscribeMap
    /\ core' = NewCore
    /\ publishers' = publishers \o Fleet(boidNum)
    /\ odomSubs' = odomSubs \cup 0..(boidNum - 1)
    /\ leaderSub' = TRUE
    /\ timer' = TRUE
    /\ lifecycle' = "active"
    /\ UNCHANGED <<ok, paramVars, mapVars, cols, seen, leaderSeen, lastCmd, faults>>

\* Mutant of OnDeactivate: cmd_vel_publishers_ is not cleared.
OnDeactivateKeepsPublishers ==
    /\ ok
    /\ lifecycle = "active"
    /\ ok' \in BOOLEAN
    /\ lastCmd' = IF ok' THEN ControlStop(publishers, lastCmd) ELSE lastCmd
    /\ timer' = FALSE
    /\ odomSubs' = {}
    /\ leaderSub' = FALSE
    /\ core' = NoCore
    /\ lifecycle' = "inactive"
    /\ UNCHANGED <<publishers, paramVars, mapVars, cols, seen, leaderSeen, faults>>

\* Mutant of OnDeactivate: the publishers are cleared before control_stop.
OnDeactivateClearsFirst ==
    /\ ok
    /\ lifecycle = "active"
    /\ ok' \in BOOLEAN
    /\ timer' = FALSE
    /\ publishers' = <<>>
    /\ odomSubs' = {}
    /\ leaderSub' = FALSE
    /\ core' = NoCore
    /\ lifecycle' = "inactive"
    /\ UNCHANGED <<paramVars, mapVars, cols, seen, leaderSeen, lastCmd, faults>>

\* A SIGINT that arrives while the callback runs makes control_stop return at
\* once; the callback still ends, and the executor spins no more.
OnDeactivate ==
    /\ ok
    /\ lifecycle = "active"
    /\ ok' \in BOOLEAN
    /\ lastCmd' = IF ok' THEN ControlStop(publishers, lastCmd) ELSE lastCmd
    /\ timer' = FALSE
    /\ publishers' = <<>>
    /\ odomSubs' = {}
    /\ leaderSub' = FALSE
    /\ core' = NoCore
    /\ lifecycle' = "inactive"
    /\ UNCHANGED <<paramVars, mapVars, cols, seen, leaderSeen, faults>>

OnCleanup ==
    /\ ok
    /\ lifecycle = "inactive"
    /\ mapSub' = FALSE
    /\ lastCmd' = ControlStop(publishers, lastCmd)
    /\ cols' = boidNum
    /\ seen' = {}
    /\ leaderSeen' = FALSE
    /\ lifecycle' = "unconfigured"
    /\ UNCHANGED <<ok, paramVars, field, subscribeMap, latched, heard, core,
                   publishers, odomSubs, leaderSub, timer, faults>>

\* on_shutdown stops the robots and keeps the timer, the core and the
\* publishers, from whichever state it is called.
OnShutdown ==
    /\ ok
    /\ lifecycle # "finalized"
    /\ lastCmd' = ControlStop(publishers, lastCmd)
    /\ lifecycle' = "finalized"
    /\ UNCHANGED <<ok, paramVars, mapVars, poseVars, core, publishers,
                   odomSubs, timer, faults>>

-----------------------------------------------------------------------------
(* A middleware call throws out of a transition callback.  The lifecycle   *)
(* machine then runs on_error: control_stop, and SUCCESS, which leads to   *)
(* unconfigured.  Where on_error throws as well the node is finalized.     *)

Fault ==
    /\ ok
    /\ faults < MaxFaults
    /\ faults' = faults + 1

\* What is left of a vector of publishers when its first k accept the zero
\* twist and the next one throws.
StoppedUpTo(k, pubs, cmds) == ControlStop(SubSeq(pubs, 1, k), cmds)

\* on_error over the vector pubs: it ends, or throws at one of the publishers.
OnError(pubs, cmds) ==
    \/ /\ lastCmd' = ControlStop(pubs, cmds)
       /\ lifecycle' = "unconfigured"
    \/ \E k \in 0..(Len(pubs) - 1) :
          /\ lastCmd' = StoppedUpTo(k, pubs, cmds)
          /\ lifecycle' = "finalized"

\* create_subscription throws.
OnConfigureThrows ==
    /\ Fault
    /\ lifecycle = "unconfigured"
    /\ ConfigureReads
    /\ OnError(publishers, lastCmd)
    /\ UNCHANGED <<ok, storeNum, storeGains, field, mapSub, latched,
                   leaderSub, core, publishers, odomSubs, timer>>

\* A publisher or a subscription cannot be created after p publishers and s
\* odometry subscriptions, or else the leader subscription or the timer.
OnActivateThrows(p, s) ==
    /\ Fault
    /\ lifecycle = "inactive"
    /\ subscribeMap
    /\ p \in 0..boidNum
    /\ s \in {p - 1, p} \cap Nat
    /\ core' = NewCore
    /\ publishers' = publishers \o Fleet(p)
    /\ odomSubs' = odomSubs \cup 0..(s - 1)
    /\ leaderSub' \in IF s = boidNum THEN {leaderSub, TRUE} ELSE {leaderSub}
    /\ OnError(publishers \o Fleet(p), lastCmd)
    /\ UNCHANGED <<ok, paramVars, mapVars, cols, seen, leaderSeen, timer>>

\* A publish of control_stop throws: in on_deactivate and in on_shutdown
\* before anything else is done, in on_cleanup once the map subscription is gone.
ControlStopThrows(k) ==
    /\ Fault
    /\ lifecycle # "finalized"
    /\ mapSub' \in IF lifecycle = "inactive" THEN {mapSub, FALSE} ELSE {mapSub}
    /\ OnError(publishers, StoppedUpTo(k, publishers, lastCmd))
    /\ UNCHANGED <<ok, paramVars, field, subscribeMap, latched, heard,
                   poseVars, core, publishers, odomSubs, timer>>

\* SIGINT between two callbacks: the executor stops, nothing is sent.
Sigint ==
    /\ ok
    /\ ok' = FALSE
    /\ UNCHANGED <<lifecycle, paramVars, mapVars, poseVars, controlVars, faults>>

-----------------------------------------------------------------------------
\* set_parameters_atomically takes a list of names and values.
Batches == UNION {[D -> Doubles] : D \in SUBSET Tunables}

SetParameters ==
    \/ \E b \in Batches : SetGains(b)
    \/ \E n \in FleetSizes : SetBoidNum(n)

Topics ==
    \/ \E m \in Maps : MapServerPublishes(m)
    \/ MapCallback
    \/ \E id \in Robots : OdomCallback(id)
    \/ LeaderOdomCallback

Transitions ==
    \/ OnConfigure
    \/ OnActivateRefused
    \/ OnActivate
    \/ OnDeactivate
    \/ OnCleanup
    \/ OnShutdown

Throws ==
    \/ OnConfigureThrows
    \/ \E p \in FleetSizes, s \in FleetSizes : OnActivateThrows(p, s)
    \/ \E k \in 0..(Len(publishers) - 1) : ControlStopThrows(k)

Next == SetParameters \/ Topics \/ ControlCallback \/ Transitions \/ Throws \/ Sigint

Spec == Init /\ [][Next]_vars

\* The executor keeps serving a timer that is due.
FairSpec == Spec /\ WF_vars(ControlCallback)

-----------------------------------------------------------------------------
(* Safety.                                                                 *)

\* control_callback and odom_callback index four containers sized at
\* different times (matrices in on_configure, core and publishers in
\* on_activate) by boid_params_.boid_num: a control timer only exists with a
\* core, and every index is in range, whatever a transition has thrown.
IndicesInRange ==
    /\ timer => /\ core # NoCore
                /\ core.boidNum = boidNum
                /\ boidNum <= cols
                /\ boidNum <= Len(publishers)
    /\ registered => cols = boidNum
    /\ seen \subseteq 0..(cols - 1)
    /\ odomSubs \subseteq 0..(boidNum - 1)

\* The i-th command goes to robot i: on_activate appends to the vector that
\* on_deactivate cleared, so no earlier activation shifts the robots.
CommandsReachTheirRobot ==
    lifecycle = "active" /\ faults = 0 => publishers = Fleet(boidNum)

\* A robot last told to move still has a publisher, so that control_stop can
\* reach it: the vector is only cleared after the zero twist, and on_error,
\* which recovers from an exception, does not drop it.
MovingRobotIsReachable ==
    ok => \A r \in Robots : lastCmd[r] = "drive" => r \in Addressed(publishers)

\* Unless a callback has thrown, no robot is left moving, and no timer left
\* to move one, while the node is unconfigured or inactive.
StoppedUnlessActive ==
    ok /\ faults = 0 /\ lifecycle \in {"unconfigured", "inactive"} =>
        /\ ~timer
        /\ \A r \in Robots : lastCmd[r] # "drive"

\* An active node steers by a map received since it was last configured, not
\* by the distance field of the configuration before.
NoStaleMap == lifecycle = "active" => core.field \in heard

\* parameters_callback writes boid_params_ and k_follow_ before the store is
\* written: the two never disagree on a name the callback handles.
StoreMatchesParams ==
    registered => /\ storeNum = boidNum
                  /\ \A name \in Handled : storeGains[name] = gains[name]

(* Action properties.                                                      *)

\* "boid_num cannot be changed after startup": neither a parameter batch nor
\* a second on_configure changes the size of the fleet once it is configured.
FleetSizeFrozen == [][registered => boidNum' = boidNum /\ storeNum' = storeNum]_vars

\* Gains that pass the checks of parameters_callback are never replaced by
\* gains that do not, not even when on_configure reads the store again.
ValidGainsStayValid == [][registered /\ Valid(gains) => Valid(gains')]_vars

\* A gain that was accepted is never lost: the next activation steers by the
\* parameters of the store.  While the node is active the core keeps the gains
\* it was created with; k_wall, which the callback forgets, waits for the next
\* on_configure.
GainsInEffectOnceActivated ==
    [][lifecycle # "active" /\ lifecycle' = "active" =>
          \A name \in Handled : core'.gains[name] = storeGains[name]]_vars

\* Gains that were accepted are neither spoiled nor lost.
AcceptedGainsHold == ValidGainsStayValid /\ GainsInEffectOnceActivated

(* Liveness.                                                               *)

\* An active node that no callback has failed sends an output of the
\* controller to each of its robots.
EveryRobotIsDriven ==
    \A r \in Robots :
        (lifecycle = "active" /\ faults = 0 /\ r < boidNum)
            ~> (lastCmd[r] = "drive" \/ lifecycle # "active" \/ ~ok)
=============================================================================
