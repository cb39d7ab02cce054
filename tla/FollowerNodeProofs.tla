------------------------- MODULE FollowerNodeProofs -------------------------
(***************************************************************************)
(* Proofs about FollowerNode, for every fleet size, set of gains, set of   *)
(* maps and number of exceptions.  IInv is the inductive invariant; each   *)
(* of its parts is preserved by every step, given the parts before it.     *)
(***************************************************************************)
EXTENDS FollowerNode, SequenceTheorems, TLAPS

-----------------------------------------------------------------------------
(* Facts about the helpers.                                                *)

\* The publishers on_activate creates address the robots in order.
LEMMA FleetType ==
    ASSUME NEW n \in FleetSizes
    PROVE  /\ Fleet(n) \in Seq(Robots)
           /\ Len(Fleet(n)) = n
           /\ Addressed(Fleet(n)) = 0..(n - 1)
<1>. n \in Nat /\ n <= MaxRobots
  BY MaxRobotsAssumption DEF FleetSizes
<1>1. Fleet(n) \in [1..n -> Robots]
  BY MaxRobotsAssumption DEF Fleet, Robots
<1>2. Fleet(n) \in Seq(Robots) /\ Len(Fleet(n)) = n
  BY <1>1, SeqDef DEF Fleet
<1>3. Addressed(Fleet(n)) = 0..(n - 1)
  <2>1. ASSUME NEW r \in 0..(n - 1) PROVE r \in Addressed(Fleet(n))
    <3>1. r + 1 \in 1..n /\ Fleet(n)[r + 1] = r
      BY DEF Fleet
    <3>. QED
      BY <3>1 DEF Addressed, Fleet
  <2>2. ASSUME NEW r \in Addressed(Fleet(n)) PROVE r \in 0..(n - 1)
    BY DEF Addressed, Fleet
  <2>. QED
    BY <2>1, <2>2
<1>. QED
  BY <1>2, <1>3

\* Appending a fleet keeps the publishers there were, and adds n.
LEMMA AppendFleet ==
    ASSUME NEW pubs \in Seq(Robots), NEW n \in FleetSizes
    PROVE  /\ pubs \o Fleet(n) \in Seq(Robots)
           /\ Len(pubs \o Fleet(n)) = Len(pubs) + n
           /\ n <= Len(pubs \o Fleet(n))
           /\ Addressed(pubs) \subseteq Addressed(pubs \o Fleet(n))
           /\ pubs = <<>> => pubs \o Fleet(n) = Fleet(n)
<1>1. /\ Fleet(n) \in Seq(Robots)
      /\ Len(Fleet(n)) = n
  BY FleetType
<1>2. n \in Nat /\ Len(pubs) \in Nat
  BY MaxRobotsAssumption DEF FleetSizes
<1>3. /\ pubs \o Fleet(n) \in Seq(Robots)
      /\ Len(pubs \o Fleet(n)) = Len(pubs) + n
  BY <1>1
<1>4. ASSUME NEW r \in Addressed(pubs) PROVE r \in Addressed(pubs \o Fleet(n))
  <2>1. PICK j \in 1..Len(pubs) : pubs[j] = r
    BY DEF Addressed
  <2>2. j \in 1..Len(pubs \o Fleet(n)) /\ (pubs \o Fleet(n))[j] = r
    BY <1>1, <1>2, <1>3, <2>1
  <2>. QED
    BY <1>3, <2>2 DEF Addressed
<1>5. pubs = <<>> => pubs \o Fleet(n) = Fleet(n)
  BY <1>1, ConcatEmptySeq
<1>. QED
  BY <1>2, <1>3, <1>4, <1>5

\* control_stop sends commands, and only the zero twist.
LEMMA ControlStopType ==
    ASSUME NEW pubs, NEW cmds \in [Robots -> Commands]
    PROVE  /\ ControlStop(pubs, cmds) \in [Robots -> Commands]
           /\ \A r \in Robots : ControlStop(pubs, cmds)[r] = "drive" =>
                 cmds[r] = "drive" /\ r \notin Addressed(pubs)
  BY DEF ControlStop, Commands

\* on_error sends the zero twist only, wherever it ends.
LEMMA OnErrorSends ==
    ASSUME NEW pubs, NEW cmds \in [Robots -> Commands], OnError(pubs, cmds)
    PROVE  /\ lastCmd' \in [Robots -> Commands]
           /\ \A r \in Robots : lastCmd'[r] = "drive" => cmds[r] = "drive"
           /\ lifecycle' \in {"unconfigured", "finalized"}
  BY ControlStopType DEF OnError, StoppedUpTo

\* A batch of parameters leaves gains.
LEMMA GainsType ==
    ASSUME NEW g \in Gains, NEW b \in Batches
    PROVE  Updated(g, b) \in Gains /\ Tuned(g, b) \in Gains
<1>1. PICK D \in SUBSET Tunables : b \in [D -> Doubles]
  BY DEF Batches
<1>2. DOMAIN b = D /\ \A name \in DOMAIN b : b[name] \in Doubles
  BY <1>1
<1>. QED
  BY <1>2 DEF Updated, Tuned, Gains

-----------------------------------------------------------------------------
(* Type correctness.                                                       *)

\* Every step of the node keeps the types.
LEMMA TypeStep == TypeOK /\ [Next]_vars => TypeOK'
<1>. SUFFICES ASSUME TypeOK, [Next]_vars PROVE TypeOK'
  OBVIOUS
<1>. USE DEF TypeOK, Robots, States
<1>1. ASSUME NEW b \in Batches, SetGains(b) PROVE TypeOK'
  BY <1>1, GainsType DEF SetGains, mapVars, poseVars, controlVars
<1>2. ASSUME NEW n \in FleetSizes, SetBoidNum(n) PROVE TypeOK'
  BY <1>2 DEF SetBoidNum, mapVars, poseVars, controlVars
<1>3. ASSUME NEW m \in Maps, MapServerPublishes(m) PROVE TypeOK'
  BY <1>3 DEF MapServerPublishes, paramVars, poseVars, controlVars
<1>4. CASE MapCallback
  BY <1>4 DEF MapCallback, paramVars, poseVars, controlVars
<1>5. ASSUME NEW id \in Robots, OdomCallback(id) PROVE TypeOK'
  BY <1>5 DEF OdomCallback, paramVars, mapVars, controlVars
<1>6. CASE LeaderOdomCallback
  BY <1>6 DEF LeaderOdomCallback, paramVars, mapVars, controlVars
<1>7. CASE ControlCallback
  BY <1>7 DEF ControlCallback, paramVars, mapVars, poseVars, Commands
<1>8. CASE OnConfigure
  BY <1>8 DEF OnConfigure, ConfigureReads, controlVars
<1>9. CASE OnActivateRefused
  BY <1>9 DEF OnActivateRefused, vars, paramVars, mapVars, poseVars, controlVars
<1>10. CASE OnActivate
  <2>1. publishers \o Fleet(boidNum) \in Seq(Robots)
    BY AppendFleet
  <2>2. odomSubs \cup 0..(boidNum - 1) \subseteq Robots
    BY MaxRobotsAssumption DEF FleetSizes
  <2>3. NewCore \in Cores
    BY DEF NewCore, Cores
  <2>. QED
    BY <1>10, <2>1, <2>2, <2>3 DEF OnActivate, paramVars, mapVars
<1>11. CASE OnDeactivate
  BY <1>11, ControlStopType, EmptySeq DEF OnDeactivate, paramVars, mapVars
<1>12. CASE OnCleanup
  BY <1>12, ControlStopType DEF OnCleanup, paramVars
<1>13. CASE OnShutdown
  BY <1>13, ControlStopType DEF OnShutdown, paramVars, mapVars, poseVars
<1>14. CASE OnConfigureThrows
  <2>1. lastCmd' \in [Robots -> Commands] /\ lifecycle' \in States
    BY <1>14, OnErrorSends DEF OnConfigureThrows
  <2>2. faults' \in 0..MaxFaults
    BY <1>14, MaxFaultsAssumption DEF OnConfigureThrows, Fault
  <2>. QED
    BY <1>14, <2>1, <2>2 DEF OnConfigureThrows, ConfigureReads
<1>15. ASSUME NEW p \in FleetSizes, NEW s \in FleetSizes, OnActivateThrows(p, s)
       PROVE  TypeOK'
  <2>1. lastCmd' \in [Robots -> Commands] /\ lifecycle' \in States
    BY <1>15, OnErrorSends DEF OnActivateThrows
  <2>2. faults' \in 0..MaxFaults
    BY <1>15, MaxFaultsAssumption DEF OnActivateThrows, Fault
  <2>3. publishers \o Fleet(p) \in Seq(Robots)
    BY AppendFleet
  <2>4. odomSubs \cup 0..(s - 1) \subseteq Robots
    BY MaxRobotsAssumption DEF FleetSizes
  <2>5. NewCore \in Cores
    BY DEF NewCore, Cores
  <2>. QED
    BY <1>15, <2>1, <2>2, <2>3, <2>4, <2>5
    DEF OnActivateThrows, paramVars, mapVars
<1>16. ASSUME NEW k \in 0..(Len(publishers) - 1), ControlStopThrows(k)
       PROVE  TypeOK'
  <2>1. StoppedUpTo(k, publishers, lastCmd) \in [Robots -> Commands]
    BY ControlStopType DEF StoppedUpTo
  <2>2. lastCmd' \in [Robots -> Commands] /\ lifecycle' \in States
    BY <1>16, <2>1, OnErrorSends DEF ControlStopThrows
  <2>3. faults' \in 0..MaxFaults
    BY <1>16, MaxFaultsAssumption DEF ControlStopThrows, Fault
  <2>. QED
    BY <1>16, <2>2, <2>3 DEF ControlStopThrows, paramVars, poseVars
<1>17. CASE Sigint
  BY <1>17 DEF Sigint, paramVars, mapVars, poseVars, controlVars
<1>18. CASE UNCHANGED vars
  BY <1>18 DEF vars, paramVars, mapVars, poseVars, controlVars
<1>. QED
  BY <1>1, <1>2, <1>3, <1>4, <1>5, <1>6, <1>7, <1>8, <1>9, <1>10, <1>11, <1>12,
     <1>13, <1>14, <1>15, <1>16, <1>17, <1>18
  DEF Next, SetParameters, Topics, Transitions, Throws

\* A new node is well typed.
LEMMA TypeInit == Init => TypeOK
<1>. SUFFICES ASSUME Init PROVE TypeOK
  OBVIOUS
<1>1. 0 \in FleetSizes /\ 0 \in 0..MaxFaults
  BY MaxRobotsAssumption, MaxFaultsAssumption DEF FleetSizes
<1>2. lastCmd \in [Robots -> Commands] /\ publishers \in Seq(Robots)
  BY EmptySeq DEF Init, Commands
<1>. QED
  BY <1>1, <1>2, DefaultsAssumption DEF Init, TypeOK, States

\* The node is well typed in every reachable state.
THEOREM TypeCorrect == Spec => []TypeOK
  BY TypeInit, TypeStep, PTL DEF Spec

-----------------------------------------------------------------------------
(* The inductive invariant.                                                *)

\* Nothing that drives a robot exists before the first on_configure.
FirstConfigure ==
    ~registered => /\ ~timer
                   /\ publishers = <<>>
                   /\ odomSubs = {}
                   /\ lifecycle \in {"unconfigured", "finalized"}

\* The flag subscribe_map_ vouches for the field that a new core copies.
MapInv ==
    /\ subscribeMap => field \in heard
    /\ lifecycle = "active" => core.field \in heard

\* Until a callback throws, activation starts from an empty vector.
FleetInv ==
    faults = 0 =>
        /\ lifecycle = "active" => publishers = Fleet(boidNum)
        /\ lifecycle \in {"unconfigured", "inactive"} => publishers = <<>> /\ ~timer

ConfigInv == FirstConfigure /\ StoreMatchesParams /\ IndicesInRange

IInv == TypeOK /\ ConfigInv /\ MapInv /\ FleetInv /\ MovingRobotIsReachable

\* The steps that leave everything alone but what a topic delivers.
Quiet == UNCHANGED <<lifecycle, paramVars, cols, core, publishers, odomSubs,
                     timer, faults>>

\* Which steps are quiet.
LEMMA QuietSteps ==
    /\ \A m \in Maps : MapServerPublishes(m) => Quiet /\ UNCHANGED seen
    /\ MapCallback => Quiet /\ UNCHANGED seen
    /\ LeaderOdomCallback => Quiet /\ UNCHANGED seen
    /\ ControlCallback => Quiet /\ UNCHANGED seen
    /\ Sigint => Quiet /\ UNCHANGED seen
    /\ OnActivateRefused => Quiet /\ UNCHANGED seen
    /\ UNCHANGED vars => Quiet /\ UNCHANGED seen
  BY DEF MapServerPublishes, MapCallback, LeaderOdomCallback, ControlCallback,
         Sigint, OnActivateRefused, vars, paramVars, poseVars, controlVars, Quiet

\* The store and the copy agree, and every index stays in range.
LEMMA ConfigStep == TypeOK /\ ConfigInv /\ [Next]_vars => ConfigInv'
<1>. SUFFICES ASSUME TypeOK, ConfigInv, [Next]_vars PROVE ConfigInv'
  OBVIOUS
<1>. USE DEF ConfigInv, FirstConfigure, StoreMatchesParams, IndicesInRange
<1>1. ASSUME NEW b \in Batches, SetGains(b) PROVE ConfigInv'
  <2>1. ASSUME registered' PROVE \A name \in Handled : storeGains'[name] = gains'[name]
    BY <1>1, <2>1 DEF SetGains, Updated, Tuned, Handled
  <2>. QED
    BY <1>1, <2>1 DEF SetGains, poseVars, controlVars
<1>2. ASSUME NEW n \in FleetSizes, SetBoidNum(n) PROVE ConfigInv'
  BY <1>2 DEF SetBoidNum, poseVars, controlVars
<1>3. CASE Quiet /\ UNCHANGED seen
  BY <1>3 DEF Quiet, paramVars
<1>4. ASSUME NEW id \in Robots, OdomCallback(id) PROVE ConfigInv'
  <2>1. id \in 0..(cols - 1)
    BY <1>4 DEF OdomCallback, TypeOK, FleetSizes, Robots
  <2>. QED
    BY <1>4, <2>1 DEF OdomCallback, paramVars, controlVars
<1>5. CASE OnConfigure
  BY <1>5 DEF OnConfigure, ConfigureReads, controlVars, TypeOK, FleetSizes
<1>6. CASE OnActivate
  <2>1. boidNum <= Len(publishers \o Fleet(boidNum))
    BY AppendFleet DEF TypeOK
  <2>2. NewCore # NoCore /\ NewCore.boidNum = boidNum
    BY NoCoreAssumption DEF NewCore, Cores, TypeOK
  <2>3. boidNum <= cols /\ registered
    BY <1>6, MaxRobotsAssumption DEF OnActivate, TypeOK, FleetSizes
  <2>. QED
    BY <1>6, <2>1, <2>2, <2>3 DEF OnActivate, paramVars
<1>7. CASE OnDeactivate
  BY <1>7 DEF OnDeactivate, paramVars
<1>8. CASE OnCleanup
  BY <1>8 DEF OnCleanup, paramVars
<1>9. CASE OnShutdown
  BY <1>9 DEF OnShutdown, paramVars, poseVars
<1>10. CASE OnConfigureThrows
  BY <1>10 DEF OnConfigureThrows, ConfigureReads, TypeOK, FleetSizes
<1>11. ASSUME NEW p \in FleetSizes, NEW s \in FleetSizes, OnActivateThrows(p, s)
       PROVE  ConfigInv'
  <2>1. registered /\ p <= boidNum /\ s <= p
    BY <1>11, MaxRobotsAssumption DEF OnActivateThrows, FleetSizes
  <2>2. Len(publishers) <= Len(publishers \o Fleet(p))
    BY AppendFleet, MaxRobotsAssumption DEF TypeOK, FleetSizes
  <2>3. NewCore # NoCore /\ NewCore.boidNum = boidNum
    BY NoCoreAssumption DEF NewCore, Cores, TypeOK
  <2>4. odomSubs \cup 0..(s - 1) \subseteq 0..(boidNum - 1)
    BY <2>1, MaxRobotsAssumption DEF TypeOK, FleetSizes
  <2>5. timer => boidNum <= Len(publishers \o Fleet(p))
    BY <2>2, MaxRobotsAssumption, AppendFleet DEF TypeOK, FleetSizes
  <2>. QED
    BY <1>11, <2>1, <2>3, <2>4, <2>5 DEF OnActivateThrows, paramVars
<1>12. ASSUME NEW k \in 0..(Len(publishers) - 1), ControlStopThrows(k)
       PROVE  ConfigInv'
  <2>1. registered
    BY DEF TypeOK
  <2>. QED
    BY <1>12, <2>1 DEF ControlStopThrows, paramVars, poseVars
<1>. QED
  BY <1>1, <1>2, <1>3, <1>4, <1>5, <1>6, <1>7, <1>8, <1>9, <1>10, <1>11, <1>12,
     QuietSteps
  DEF Next, SetParameters, Topics, Transitions, Throws

\* The field in use is that of a map received since on_configure.
LEMMA MapStep == TypeOK /\ MapInv /\ [Next]_vars => MapInv'
<1>. SUFFICES ASSUME TypeOK, MapInv, [Next]_vars PROVE MapInv'
  OBVIOUS
<1>. USE DEF MapInv
<1>1. CASE UNCHANGED <<lifecycle, core, subscribeMap, field, heard>>
  BY <1>1
<1>2. CASE MapCallback
  BY <1>2 DEF MapCallback, controlVars
<1>3. CASE OnConfigure
  BY <1>3 DEF OnConfigure, ConfigureReads
<1>4. CASE OnActivate
  BY <1>4 DEF OnActivate, NewCore, mapVars
<1>5. CASE OnDeactivate
  BY <1>5 DEF OnDeactivate, mapVars
<1>6. CASE OnCleanup
  BY <1>6 DEF OnCleanup
<1>7. CASE OnShutdown
  BY <1>7 DEF OnShutdown, mapVars
<1>8. CASE OnConfigureThrows
  BY <1>8, OnErrorSends DEF OnConfigureThrows, ConfigureReads, TypeOK
<1>9. ASSUME NEW p \in FleetSizes, NEW s \in FleetSizes, OnActivateThrows(p, s)
      PROVE  MapInv'
  BY <1>9, OnErrorSends DEF OnActivateThrows, mapVars, TypeOK
<1>10. ASSUME NEW k \in 0..(Len(publishers) - 1), ControlStopThrows(k)
       PROVE  MapInv'
  BY <1>10, ControlStopType, OnErrorSends
  DEF ControlStopThrows, StoppedUpTo, TypeOK
<1>11. \/ \E b \in Batches : SetGains(b)
       \/ \E n \in FleetSizes : SetBoidNum(n)
       \/ \E m \in Maps : MapServerPublishes(m)
       \/ \E id \in Robots : OdomCallback(id)
       \/ LeaderOdomCallback \/ ControlCallback \/ OnActivateRefused \/ Sigint
       \/ UNCHANGED vars
       => UNCHANGED <<lifecycle, core, subscribeMap, field, heard>>
  BY DEF SetGains, SetBoidNum, MapServerPublishes, OdomCallback,
         LeaderOdomCallback, ControlCallback, OnActivateRefused, Sigint, vars,
         mapVars, controlVars
<1>. QED
  BY <1>1, <1>2, <1>3, <1>4, <1>5, <1>6, <1>7, <1>8, <1>9, <1>10, <1>11
  DEF Next, SetParameters, Topics, Transitions, Throws

\* Until a callback throws, the publishers are those of one activation.
LEMMA FleetStep ==
    TypeOK /\ ConfigInv /\ FleetInv /\ [Next]_vars => FleetInv'
<1>. SUFFICES ASSUME TypeOK, ConfigInv, FleetInv, [Next]_vars PROVE FleetInv'
  OBVIOUS
<1>. USE DEF FleetInv
<1>1. CASE UNCHANGED <<lifecycle, boidNum, publishers, timer, faults>>
  BY <1>1
<1>2. CASE OnConfigure
  BY <1>2 DEF OnConfigure, ConfigureReads, controlVars
<1>3. CASE OnActivate
  BY <1>3, AppendFleet DEF OnActivate, paramVars, TypeOK
<1>4. CASE OnDeactivate
  BY <1>4 DEF OnDeactivate
<1>5. CASE OnCleanup
  BY <1>5 DEF OnCleanup
<1>6. CASE OnShutdown
  BY <1>6 DEF OnShutdown
<1>7. CASE faults' = faults + 1
  BY <1>7 DEF TypeOK
<1>8. \/ \E b \in Batches : SetGains(b)
      \/ \E n \in FleetSizes : SetBoidNum(n)
      \/ \E m \in Maps : MapServerPublishes(m)
      \/ MapCallback
      \/ \E id \in Robots : OdomCallback(id)
      \/ LeaderOdomCallback \/ ControlCallback \/ OnActivateRefused \/ Sigint
      \/ UNCHANGED vars
      => UNCHANGED <<lifecycle, boidNum, publishers, timer, faults>>
  BY DEF SetGains, SetBoidNum, MapServerPublishes, MapCallback, OdomCallback,
         LeaderOdomCallback, ControlCallback, OnActivateRefused, Sigint, vars,
         paramVars, controlVars
<1>9. Throws => faults' = faults + 1
  BY DEF Throws, OnConfigureThrows, OnActivateThrows, ControlStopThrows, Fault
<1>. QED
  BY <1>1, <1>2, <1>3, <1>4, <1>5, <1>6, <1>7, <1>8, <1>9
  DEF Next, SetParameters, Topics, Transitions

\* A robot told to move keeps a publisher, whatever a step throws.
LEMMA ReachableStep ==
    TypeOK /\ MovingRobotIsReachable /\ [Next]_vars => MovingRobotIsReachable'
<1>. SUFFICES ASSUME TypeOK, MovingRobotIsReachable, [Next]_vars, ok',
                     NEW r \in Robots, lastCmd'[r] = "drive"
              PROVE  r \in Addressed(publishers)'
  BY DEF MovingRobotIsReachable
<1>. ok /\ (lastCmd[r] = "drive" => r \in Addressed(publishers))
  BY DEF MovingRobotIsReachable, Next, SetParameters, Topics, Transitions,
         Throws, SetGains, SetBoidNum, MapServerPublishes, MapCallback,
         OdomCallback, LeaderOdomCallback, ControlCallback, OnConfigure,
         OnActivateRefused, OnActivate, OnDeactivate, OnCleanup, OnShutdown,
         OnConfigureThrows, OnActivateThrows, ControlStopThrows, Fault, Sigint,
         vars
<1>1. CASE UNCHANGED <<publishers, lastCmd>>
  BY <1>1 DEF Addressed
<1>2. CASE ControlCallback
  <2>1. UNCHANGED publishers /\ Addressed(publishers)' = Addressed(publishers)
    BY <1>2 DEF ControlCallback, Addressed
  <2>2. \/ lastCmd[r] = "drive"
        \/ \E j \in DOMAIN publishers : publishers[j] = r
    BY <1>2 DEF ControlCallback
  <2>. QED
    BY <2>1, <2>2 DEF Addressed
<1>3. CASE OnActivate
  BY <1>3, AppendFleet DEF OnActivate, TypeOK
<1>4. CASE OnDeactivate
  BY <1>4, ControlStopType DEF OnDeactivate, TypeOK
<1>5. CASE OnCleanup \/ OnShutdown
  BY <1>5, ControlStopType DEF OnCleanup, OnShutdown, TypeOK, Addressed
<1>6. CASE OnConfigureThrows
  BY <1>6, OnErrorSends DEF OnConfigureThrows, TypeOK, Addressed
<1>7. ASSUME NEW p \in FleetSizes, NEW s \in FleetSizes, OnActivateThrows(p, s)
      PROVE  r \in Addressed(publishers)'
  <2>1. lastCmd[r] = "drive"
    BY <1>7, OnErrorSends DEF OnActivateThrows, TypeOK
  <2>. QED
    BY <1>7, <2>1, AppendFleet DEF OnActivateThrows, TypeOK
<1>8. ASSUME NEW k \in 0..(Len(publishers) - 1), ControlStopThrows(k)
      PROVE  r \in Addressed(publishers)'
  <2>1. lastCmd[r] = "drive"
    BY <1>8, ControlStopType, OnErrorSends DEF ControlStopThrows, StoppedUpTo, TypeOK
  <2>. QED
    BY <1>8, <2>1 DEF ControlStopThrows, Addressed
<1>9. \/ \E b \in Batches : SetGains(b)
      \/ \E n \in FleetSizes : SetBoidNum(n)
      \/ \E m \in Maps : MapServerPublishes(m)
      \/ MapCallback
      \/ \E id \in Robots : OdomCallback(id)
      \/ LeaderOdomCallback \/ OnActivateRefused \/ OnConfigure \/ Sigint
      \/ UNCHANGED vars
      => UNCHANGED <<publishers, lastCmd>>
  BY DEF SetGains, SetBoidNum, MapServerPublishes, MapCallback, OdomCallback,
         LeaderOdomCallback, OnActivateRefused, OnConfigure, Sigint, vars,
         controlVars
<1>. QED
  BY <1>1, <1>2, <1>3, <1>4, <1>5, <1>6, <1>7, <1>8, <1>9
  DEF Next, SetParameters, Topics, Transitions, Throws

\* The inductive invariant holds of a new node.
LEMMA InvInit == Init => IInv
  BY TypeInit DEF IInv, Init, ConfigInv, FirstConfigure, StoreMatchesParams,
     IndicesInRange, MapInv, FleetInv, MovingRobotIsReachable

\* Every step of the node preserves the inductive invariant.
LEMMA InvStep == IInv /\ [Next]_vars => IInv'
  BY TypeStep, ConfigStep, MapStep, FleetStep, ReachableStep DEF IInv

\* The inductive invariant holds throughout.
THEOREM Invariance == Spec => []IInv
  BY InvInit, InvStep, PTL DEF Spec

-----------------------------------------------------------------------------
(* What it gives.                                                          *)

\* No callback indexes a matrix, a core or the publishers out of range, even
\* after exceptions thrown out of transitions.
THEOREM IndicesAlwaysInRange == Spec => []IndicesInRange
  BY Invariance, PTL DEF IInv, ConfigInv

\* Until a callback throws, the i-th command of an active node goes to robot i.
THEOREM CommandsAlwaysReachTheirRobot == Spec => []CommandsReachTheirRobot
<1>1. IInv => CommandsReachTheirRobot
  BY DEF IInv, FleetInv, CommandsReachTheirRobot
<1>. QED
  BY <1>1, Invariance, PTL

\* control_stop can always reach a robot that was last told to move.
THEOREM MovingRobotsStayReachable == Spec => []MovingRobotIsReachable
  BY Invariance, PTL DEF IInv

\* Until a callback throws, an unconfigured or inactive node has no timer and
\* has left no robot moving.
THEOREM AlwaysStoppedUnlessActive == Spec => []StoppedUnlessActive
<1>1. IInv => StoppedUnlessActive
  BY DEF IInv, FleetInv, MovingRobotIsReachable, StoppedUnlessActive, Addressed
<1>. QED
  BY <1>1, Invariance, PTL

\* The active node steers by a map received since it was last configured.
THEOREM NeverStaleMap == Spec => []NoStaleMap
<1>1. IInv => NoStaleMap
  BY DEF IInv, MapInv, NoStaleMap
<1>. QED
  BY <1>1, Invariance, PTL

\* The parameter store and the copy in the node never disagree on a name that
\* the parameter callback handles.
THEOREM StoreAlwaysMatches == Spec => []StoreMatchesParams
  BY Invariance, PTL DEF IInv, ConfigInv

\* The fleet keeps its size from the first on_configure on.
THEOREM FleetSizeIsFrozen == Spec => FleetSizeFrozen
<1>1. IInv /\ [Next]_vars => [registered => boidNum' = boidNum /\ storeNum' = storeNum]_vars
  BY DEF IInv, ConfigInv, StoreMatchesParams, Next, SetParameters, Topics,
         Transitions, Throws, SetGains, SetBoidNum, MapServerPublishes,
         MapCallback, OdomCallback, LeaderOdomCallback, ControlCallback,
         OnConfigure, ConfigureReads, OnActivateRefused, OnActivate,
         OnDeactivate, OnCleanup, OnShutdown, OnConfigureThrows,
         OnActivateThrows, ControlStopThrows, Sigint, paramVars
<1>. QED
  BY <1>1, Invariance, PTL DEF Spec, FleetSizeFrozen

\* Whether gains are valid depends on the handled names only.
LEMMA ValidByHandledNames ==
    ASSUME NEW g, NEW h, \A name \in Handled : g[name] = h[name], Valid(g)
    PROVE  Valid(h)
  BY DEF Valid, Handled, GainNames

\* Valid gains are only ever replaced by valid ones, across reconfigurations.
THEOREM ValidGainsAlwaysStayValid == Spec => ValidGainsStayValid
<1>1. ASSUME IInv, [Next]_vars, registered, Valid(gains) PROVE Valid(gains')
  <2>1. UNCHANGED gains \/ ConfigureReads \/ Valid(gains')
    BY <1>1 DEF Next, SetParameters, Topics, Transitions, Throws, SetGains,
         SetBoidNum, MapServerPublishes, MapCallback, OdomCallback,
         LeaderOdomCallback, ControlCallback, OnConfigure, OnActivateRefused,
         OnActivate, OnDeactivate, OnCleanup, OnShutdown, OnConfigureThrows,
         OnActivateThrows, ControlStopThrows, Sigint, vars, paramVars
  <2>2. ASSUME ConfigureReads PROVE Valid(gains')
    BY <1>1, <2>2, ValidByHandledNames
    DEF IInv, ConfigInv, StoreMatchesParams, ConfigureReads
  <2>3. ASSUME UNCHANGED gains PROVE Valid(gains')
    BY <1>1, <2>3
  <2>. QED
    BY <2>1, <2>2, <2>3
<1>2. IInv /\ [Next]_vars => [registered /\ Valid(gains) => Valid(gains')]_vars
  BY <1>1
<1>. QED
  BY <1>2, Invariance, PTL DEF Spec, ValidGainsStayValid

\* The gains the node steers by are those of the parameter store, from every
\* activation on.
THEOREM GainsAlwaysTakeEffect == Spec => GainsInEffectOnceActivated
<1>1. ASSUME IInv, [Next]_vars, lifecycle # "active", lifecycle' = "active"
      PROVE  \A name \in Handled : core'.gains[name] = storeGains[name]
  <2>1. OnActivate
    BY <1>1, OnErrorSends
    DEF IInv, TypeOK, Next, SetParameters, Topics, Transitions, Throws, SetGains,
        SetBoidNum, MapServerPublishes, MapCallback, OdomCallback,
        LeaderOdomCallback, ControlCallback, OnConfigure, OnActivateRefused,
        OnDeactivate, OnCleanup, OnShutdown, OnConfigureThrows,
        OnActivateThrows, ControlStopThrows, StoppedUpTo, OnError, Sigint, vars
  <2>2. registered /\ core'.gains = gains
    BY <1>1, <2>1 DEF OnActivate, NewCore, IInv, ConfigInv, FirstConfigure
  <2>. QED
    BY <1>1, <2>2 DEF IInv, ConfigInv, StoreMatchesParams
<1>2. IInv /\ [Next]_vars =>
        [lifecycle # "active" /\ lifecycle' = "active" =>
           \A name \in Handled : core'.gains[name] = storeGains[name]]_vars
  BY <1>1
<1>. QED
  BY <1>2, Invariance, PTL DEF Spec, GainsInEffectOnceActivated

\* Gains that were accepted are neither spoiled by a later configuration nor
\* lost by an activation.
THEOREM AcceptedGainsAlwaysHold == Spec => AcceptedGainsHold
  BY ValidGainsAlwaysStayValid, GainsAlwaysTakeEffect DEF AcceptedGainsHold
=============================================================================
