--------------------------- MODULE ActionServerProofs ---------------------------
(***************************************************************************)
(* Proofs about two action servers.  About TreeExecutionServer, for every  *)
(* number of goals and changes of the parameters: one tree runs at a time, *)
(* a goal that ends without an exception is reported once and leaves no    *)
(* node running but by a shutdown, and no tree is built from parameters    *)
(* older than its goal.  About LeaderRL, for every number of robots,       *)
(* goals, threads and messages: no goal reads the NaN of the beginning,    *)
(* and messages that do not overlap are stored in order.  The goals of     *)
(* both keep to ActionGoals.                                               *)
(***************************************************************************)
EXTENDS TreeExecutionServer, FiniteSetTheorems, TLAPS

\* The learned leader is a server of its own; it shares nothing with the other
\* but the names of goals, of rclpy.ok() and of the states of a goal.
CONSTANTS robot_num, Targets, Threads, MaxMsgs
VARIABLES taken, callbacks, robot_pos_, robot_vel_, odom_received_, target, overlapped

Leader == INSTANCE LeaderRL

-----------------------------------------------------------------------------
(* The invariant.                                                          *)

InThreadAt == {"start", "registering", "create", "loop", "ticked"}

\* The place of a thread tells the state of its goal.
GoalInv ==
    \A g \in Goals :
        /\ pc[g] = "none" <=> status[g] \in {"unknown", "rejected"}
        /\ pc[g] \in {"done", "thrown"} <=> status[g] \in {"succeeded", "aborted", "canceled"}

\* At most one thread has started and not ended.
ThreadInv == \A g, h \in Goals : pc[g] \in InThreadAt /\ pc[h] \in InThreadAt => g = h

\* A goal is reported once its loop has ended, and not before.
ReportInv ==
    \A g \in Goals :
        IF pc[g] = "done"
        THEN /\ Len(report[g]) = 1
             /\ LET cause == report[g][1].cause IN
                /\ status[g] = "canceled" <=> cause = "client"
                /\ status[g] = "succeeded" <=> cause = "completed" /\ tree[g] = "success"
                /\ tree[g] = "running" => cause = "shutdown" /\ ~ok
        ELSE /\ report[g] = <<>>
             /\ pc[g] = "thrown" => status[g] = "aborted"

\* What the factory holds was copied together with the parameters, and a goal
\* comes to createTree with parameters that were new after it was accepted.
ParameterInv ==
    /\ params <= version
    /\ factory \in {0, params}
    /\ \A g \in Goals :
          /\ asked[g] <= version
          /\ pc[g] = "create" => asked[g] <= params
          /\ pc[g] \in {"none", "joining", "start", "registering", "create"} => built[g] = 0
          /\ built[g] # 0 => asked[g] <= built[g]

IInv == TypeOK /\ GoalInv /\ ThreadInv /\ ReportInv /\ ParameterInv

\* The invariant holds at the start.
LEMMA InitInv == Init => IInv
  BY MaxVersionAssumption DEF Init, IInv, TypeOK, GoalInv, ThreadInv, ReportInv,
     ParameterInv, Versions, TreeStatuses, InThreadAt

\* What a first call makes of the calls of a goal.
LEMMA AppendedOnce ==
    ASSUME NEW c \in Calls
    PROVE  /\ Append(<<>>, c) \in Seq(Calls)
           /\ Len(Append(<<>>, c)) = 1
           /\ Append(<<>>, c)[1] = c
  OBVIOUS

\* Every step keeps the types, and each part of the invariant.
LEMMA StepType == TypeOK /\ [Next]_vars => TypeOK'
<1>. SUFFICES ASSUME TypeOK, [Next]_vars PROVE TypeOK'
  OBVIOUS
<1>. USE MaxVersionAssumption DEF TypeOK, Versions, TreeStatuses, Goto, Ends, Throws
<1>1. CASE SingleShotTimer
  BY <1>1 DEF SingleShotTimer
<1>2. CASE ParametersChange
  BY <1>2 DEF ParametersChange
<1>3. CASE Shutdown
  BY <1>3 DEF Shutdown
<1>4. ASSUME NEW g \in Goals, HandleGoalRejects(g) PROVE TypeOK'
  BY <1>4 DEF HandleGoalRejects
<1>5. ASSUME NEW g \in Goals, HandleAccepted(g) PROVE TypeOK'
  BY <1>5 DEF HandleAccepted
<1>6. ASSUME NEW g \in Goals, Joined(g) PROVE TypeOK'
  BY <1>6 DEF Joined
<1>7. ASSUME NEW g \in Goals, HandleCancel(g) PROVE TypeOK'
  BY <1>7 DEF HandleCancel
<1>8. ASSUME NEW g \in Goals, CheckParameters(g) PROVE TypeOK'
  BY <1>8 DEF CheckParameters
<1>9. ASSUME NEW g \in Goals, ExecuteRegistration(g) PROVE TypeOK'
  BY <1>9 DEF ExecuteRegistration
<1>10. ASSUME NEW g \in Goals, CreateTree(g) PROVE TypeOK'
  <2>1. CASE Throws(g) /\ UNCHANGED <<tree, built>>
    BY <1>10, <2>1 DEF CreateTree
  <2>2. CASE /\ Goto(g, "loop") /\ UNCHANGED <<status, report>>
             /\ tree' = [tree EXCEPT ![g] = "running"]
             /\ built' = [built EXCEPT ![g] = factory]
    BY <1>10, <2>2 DEF CreateTree
  <2>. QED
    BY <1>10, <2>1, <2>2 DEF CreateTree
<1>11. ASSUME NEW g \in Goals, StopOnCancel(g) PROVE TypeOK'
  <2>. DEFINE c == [was_cancelled |-> TRUE, cause |-> "client"]
  <2>1. c \in Calls /\ c.cause = "client"
    BY DEF Calls, Causes
  <2>2. report' = [report EXCEPT ![g] = Append(@, c)]
    BY <1>11 DEF Completed, StopOnCancel
  <2>. HIDE DEF c
  <2>. QED
    BY <1>11, <2>1, <2>2 DEF StopOnCancel
<1>12. ASSUME NEW g \in Goals, Tick(g) PROVE TypeOK'
  BY <1>12 DEF Tick
<1>13. ASSUME NEW g \in Goals, StopAfterTick(g) PROVE TypeOK'
  <2>. DEFINE c == [was_cancelled |-> TRUE, cause |-> "onLoopAfterTick"]
  <2>1. c \in Calls /\ c.cause = "onLoopAfterTick"
    BY DEF Calls, Causes
  <2>2. report' = [report EXCEPT ![g] = Append(@, c)]
    BY <1>13 DEF Completed, StopAfterTick
  <2>. HIDE DEF c
  <2>. QED
    BY <1>13, <2>1, <2>2 DEF StopAfterTick
<1>14. ASSUME NEW g \in Goals, NextTurn(g) PROVE TypeOK'
  BY <1>14 DEF NextTurn
<1>15. ASSUME NEW g \in Goals, Finish(g) PROVE TypeOK'
  <2>. DEFINE c == [was_cancelled |-> FALSE,
                    cause |-> IF tree[g] = "running" THEN "shutdown" ELSE "completed"]
  <2>1. /\ c \in Calls
        /\ c.cause = IF tree[g] = "running" THEN "shutdown" ELSE "completed"
    BY DEF Calls, Causes
  <2>2. report' = [report EXCEPT ![g] = Append(@, c)]
    BY <1>15 DEF Completed, Finish
  <2>. HIDE DEF c
  <2>. QED
    BY <1>15, <2>1, <2>2 DEF Finish
<1>16. ASSUME NEW g \in Goals, HaltThrows(g) PROVE TypeOK'
  BY <1>16 DEF HaltThrows
<1>17. CASE RegistrationThrows
  BY <1>17 DEF RegistrationThrows
<1>18. CASE UNCHANGED vars
  BY <1>18 DEF vars
<1>. QED
  BY <1>1, <1>2, <1>3, <1>4, <1>5, <1>6, <1>7, <1>8, <1>9, <1>10,
     <1>11, <1>12, <1>13, <1>14, <1>15, <1>16, <1>17, <1>18
  DEF Next, Execute

\* Handlers and thread move the state of a goal and the place together.
LEMMA StepGoal == TypeOK /\ GoalInv /\ [Next]_vars => GoalInv'
<1>. SUFFICES ASSUME TypeOK, GoalInv, [Next]_vars PROVE GoalInv'
  OBVIOUS
<1>. USE DEF TypeOK, GoalInv, Goto, Ends, Throws
<1>1. CASE SingleShotTimer
  BY <1>1 DEF SingleShotTimer
<1>2. CASE ParametersChange
  BY <1>2 DEF ParametersChange
<1>3. CASE Shutdown
  BY <1>3 DEF Shutdown
<1>4. ASSUME NEW g \in Goals, HandleGoalRejects(g) PROVE GoalInv'
  BY <1>4 DEF HandleGoalRejects
<1>5. ASSUME NEW g \in Goals, HandleAccepted(g) PROVE GoalInv'
  BY <1>5 DEF HandleAccepted
<1>6. ASSUME NEW g \in Goals, Joined(g) PROVE GoalInv'
  BY <1>6 DEF Joined
<1>7. ASSUME NEW g \in Goals, HandleCancel(g) PROVE GoalInv'
  BY <1>7 DEF HandleCancel
<1>8. ASSUME NEW g \in Goals, CheckParameters(g) PROVE GoalInv'
  BY <1>8 DEF CheckParameters
<1>9. ASSUME NEW g \in Goals, ExecuteRegistration(g) PROVE GoalInv'
  BY <1>9 DEF ExecuteRegistration
<1>10. ASSUME NEW g \in Goals, CreateTree(g) PROVE GoalInv'
  BY <1>10 DEF CreateTree
<1>11. ASSUME NEW g \in Goals, StopOnCancel(g) PROVE GoalInv'
  BY <1>11 DEF StopOnCancel
<1>12. ASSUME NEW g \in Goals, Tick(g) PROVE GoalInv'
  BY <1>12 DEF Tick
<1>13. ASSUME NEW g \in Goals, StopAfterTick(g) PROVE GoalInv'
  BY <1>13 DEF StopAfterTick
<1>14. ASSUME NEW g \in Goals, NextTurn(g) PROVE GoalInv'
  BY <1>14 DEF NextTurn
<1>15. ASSUME NEW g \in Goals, Finish(g) PROVE GoalInv'
  BY <1>15 DEF Finish
<1>16. ASSUME NEW g \in Goals, HaltThrows(g) PROVE GoalInv'
  BY <1>16 DEF HaltThrows
<1>17. CASE RegistrationThrows
  BY <1>17 DEF RegistrationThrows
<1>18. CASE UNCHANGED vars
  BY <1>18 DEF vars
<1>. QED
  BY <1>1, <1>2, <1>3, <1>4, <1>5, <1>6, <1>7, <1>8, <1>9, <1>10,
     <1>11, <1>12, <1>13, <1>14, <1>15, <1>16, <1>17, <1>18
  DEF Next, Execute

\* The executor starts a thread only where it has seen the one before end.
LEMMA StepThread == TypeOK /\ ThreadInv /\ [Next]_vars => ThreadInv'
<1>. SUFFICES ASSUME TypeOK, ThreadInv, [Next]_vars PROVE ThreadInv'
  OBVIOUS
<1>. USE DEF TypeOK, ThreadInv, InThreadAt, Goto, Ends, Throws
<1>1. CASE SingleShotTimer
  BY <1>1 DEF SingleShotTimer
<1>2. CASE ParametersChange
  BY <1>2 DEF ParametersChange
<1>3. CASE Shutdown
  BY <1>3 DEF Shutdown
<1>4. ASSUME NEW g \in Goals, HandleGoalRejects(g) PROVE ThreadInv'
  BY <1>4 DEF HandleGoalRejects
<1>5. ASSUME NEW g \in Goals, HandleAccepted(g) PROVE ThreadInv'
  BY <1>5 DEF HandleAccepted, InThread
<1>6. ASSUME NEW g \in Goals, Joined(g) PROVE ThreadInv'
  BY <1>6 DEF Joined, InThread
<1>7. ASSUME NEW g \in Goals, HandleCancel(g) PROVE ThreadInv'
  BY <1>7 DEF HandleCancel
<1>8. ASSUME NEW g \in Goals, Execute(g) PROVE ThreadInv'
  <2>1. pc[g] \in InThreadAt
    BY <1>8 DEF Execute, CheckParameters, ExecuteRegistration, CreateTree, StopOnCancel,
       Tick, StopAfterTick, NextTurn, Finish, HaltThrows
  <2>2. \A h \in Goals \ {g} : pc'[h] = pc[h]
    BY <1>8 DEF Execute, CheckParameters, ExecuteRegistration, CreateTree, StopOnCancel,
       Tick, StopAfterTick, NextTurn, Finish, HaltThrows
  <2>. QED
    BY <2>1, <2>2
<1>9. CASE RegistrationThrows
  BY <1>9 DEF RegistrationThrows
<1>10. CASE UNCHANGED vars
  BY <1>10 DEF vars
<1>. QED
  BY <1>1, <1>2, <1>3, <1>4, <1>5, <1>6, <1>7, <1>8, <1>9, <1>10 DEF Next

\* A goal that ends has not been reported before.
LEMMA EndsOnce ==
    ASSUME TypeOK, ReportInv, NEW g \in Goals, pc[g] \notin {"done", "thrown"},
           NEW how, Ends(g, how),
           NEW c \in Calls, report' = [report EXCEPT ![g] = Append(@, c)], ok' = ok,
           \A h \in Goals \ {g} : tree'[h] = tree[h],
           how = "canceled" <=> c.cause = "client",
           how = "succeeded" <=> c.cause = "completed" /\ tree'[g] = "success",
           tree'[g] = "running" => c.cause = "shutdown" /\ ~ok
    PROVE  ReportInv'
<1>1. /\ \A h \in Goals : pc'[h] = IF h = g THEN "done" ELSE pc[h]
      /\ \A h \in Goals : status'[h] = IF h = g THEN how ELSE status[h]
      /\ \A h \in Goals \ {g} : report'[h] = report[h]
  BY DEF TypeOK, Ends, Goto
<1>2. Len(report'[g]) = 1 /\ report'[g][1] = c
  BY AppendedOnce DEF TypeOK, ReportInv
<1>. QED
  BY <1>1, <1>2 DEF ReportInv

\* A goal is reported when it ends, and it ends once.
LEMMA StepReport == TypeOK /\ GoalInv /\ ReportInv /\ [Next]_vars => ReportInv'
<1>. SUFFICES ASSUME TypeOK, GoalInv, ReportInv, [Next]_vars PROVE ReportInv'
  OBVIOUS
<1>. USE DEF TypeOK, GoalInv, ReportInv, Goto, Ends, Throws
<1>1. CASE SingleShotTimer
  BY <1>1 DEF SingleShotTimer
<1>2. CASE ParametersChange
  BY <1>2 DEF ParametersChange
<1>3. CASE Shutdown
  BY <1>3 DEF Shutdown
<1>4. ASSUME NEW g \in Goals, HandleGoalRejects(g) PROVE ReportInv'
  BY <1>4 DEF HandleGoalRejects
<1>5. ASSUME NEW g \in Goals, HandleAccepted(g) PROVE ReportInv'
  BY <1>5 DEF HandleAccepted
<1>6. ASSUME NEW g \in Goals, Joined(g) PROVE ReportInv'
  BY <1>6 DEF Joined
<1>7. ASSUME NEW g \in Goals, HandleCancel(g) PROVE ReportInv'
  BY <1>7 DEF HandleCancel
<1>8. ASSUME NEW g \in Goals, CheckParameters(g) PROVE ReportInv'
  BY <1>8 DEF CheckParameters
<1>9. ASSUME NEW g \in Goals, ExecuteRegistration(g) PROVE ReportInv'
  BY <1>9 DEF ExecuteRegistration
<1>10. ASSUME NEW g \in Goals, CreateTree(g) PROVE ReportInv'
  <2>1. CASE Throws(g) /\ UNCHANGED <<tree, built>>
    BY <1>10, <2>1 DEF CreateTree
  <2>2. CASE /\ Goto(g, "loop") /\ UNCHANGED <<status, report>>
             /\ tree' = [tree EXCEPT ![g] = "running"]
             /\ built' = [built EXCEPT ![g] = factory]
    BY <1>10, <2>2 DEF CreateTree
  <2>. QED
    BY <1>10, <2>1, <2>2 DEF CreateTree
<1>11. ASSUME NEW g \in Goals, StopOnCancel(g) PROVE ReportInv'
  <2>. DEFINE c == [was_cancelled |-> TRUE, cause |-> "client"]
  <2>1. c \in Calls /\ c.cause = "client"
    BY DEF Calls, Causes
  <2>2. report' = [report EXCEPT ![g] = Append(@, c)]
    BY <1>11 DEF Completed, StopOnCancel
  <2>. HIDE DEF c
  <2>. QED
    BY <1>11, <2>1, <2>2, EndsOnce DEF StopOnCancel
<1>12. ASSUME NEW g \in Goals, Tick(g) PROVE ReportInv'
  BY <1>12 DEF Tick
<1>13. ASSUME NEW g \in Goals, StopAfterTick(g) PROVE ReportInv'
  <2>. DEFINE c == [was_cancelled |-> TRUE, cause |-> "onLoopAfterTick"]
  <2>1. c \in Calls /\ c.cause = "onLoopAfterTick"
    BY DEF Calls, Causes
  <2>2. report' = [report EXCEPT ![g] = Append(@, c)]
    BY <1>13 DEF Completed, StopAfterTick
  <2>. HIDE DEF c
  <2>. QED
    BY <1>13, <2>1, <2>2, EndsOnce DEF StopAfterTick
<1>14. ASSUME NEW g \in Goals, NextTurn(g) PROVE ReportInv'
  BY <1>14 DEF NextTurn
<1>15. ASSUME NEW g \in Goals, Finish(g) PROVE ReportInv'
  <2>. DEFINE c == [was_cancelled |-> FALSE,
                    cause |-> IF tree[g] = "running" THEN "shutdown" ELSE "completed"]
  <2>1. /\ c \in Calls
        /\ c.cause = IF tree[g] = "running" THEN "shutdown" ELSE "completed"
    BY DEF Calls, Causes
  <2>2. report' = [report EXCEPT ![g] = Append(@, c)]
    BY <1>15 DEF Completed, Finish
  <2>. HIDE DEF c
  <2>. QED
    BY <1>15, <2>1, <2>2, EndsOnce DEF Finish
<1>16. ASSUME NEW g \in Goals, HaltThrows(g) PROVE ReportInv'
  BY <1>16 DEF HaltThrows
<1>17. CASE RegistrationThrows
  BY <1>17 DEF RegistrationThrows
<1>18. CASE UNCHANGED vars
  BY <1>18 DEF vars
<1>. QED
  BY <1>1, <1>2, <1>3, <1>4, <1>5, <1>6, <1>7, <1>8, <1>9, <1>10,
     <1>11, <1>12, <1>13, <1>14, <1>15, <1>16, <1>17, <1>18
  DEF Next, Execute

\* Versions only grow, and are copied whole.
LEMMA StepParameter == TypeOK /\ GoalInv /\ ParameterInv /\ [Next]_vars => ParameterInv'
<1>. SUFFICES ASSUME TypeOK, GoalInv, ParameterInv, [Next]_vars PROVE ParameterInv'
  OBVIOUS
<1>. USE MaxVersionAssumption DEF TypeOK, GoalInv, ParameterInv, Versions, Goto, Ends, Throws
<1>1. CASE SingleShotTimer
  BY <1>1 DEF SingleShotTimer
<1>2. CASE ParametersChange
  BY <1>2 DEF ParametersChange
<1>3. CASE Shutdown
  BY <1>3 DEF Shutdown
<1>4. ASSUME NEW g \in Goals, HandleGoalRejects(g) PROVE ParameterInv'
  BY <1>4 DEF HandleGoalRejects
<1>5. ASSUME NEW g \in Goals, HandleAccepted(g) PROVE ParameterInv'
  BY <1>5 DEF HandleAccepted
<1>6. ASSUME NEW g \in Goals, Joined(g) PROVE ParameterInv'
  BY <1>6 DEF Joined
<1>7. ASSUME NEW g \in Goals, HandleCancel(g) PROVE ParameterInv'
  BY <1>7 DEF HandleCancel
<1>8. ASSUME NEW g \in Goals, CheckParameters(g) PROVE ParameterInv'
  BY <1>8 DEF CheckParameters
<1>9. ASSUME NEW g \in Goals, ExecuteRegistration(g) PROVE ParameterInv'
  BY <1>9 DEF ExecuteRegistration
<1>10. ASSUME NEW g \in Goals, CreateTree(g) PROVE ParameterInv'
  BY <1>10 DEF CreateTree
<1>11. ASSUME NEW g \in Goals, StopOnCancel(g) PROVE ParameterInv'
  BY <1>11 DEF StopOnCancel
<1>12. ASSUME NEW g \in Goals, Tick(g) PROVE ParameterInv'
  BY <1>12 DEF Tick
<1>13. ASSUME NEW g \in Goals, StopAfterTick(g) PROVE ParameterInv'
  BY <1>13 DEF StopAfterTick
<1>14. ASSUME NEW g \in Goals, NextTurn(g) PROVE ParameterInv'
  BY <1>14 DEF NextTurn
<1>15. ASSUME NEW g \in Goals, Finish(g) PROVE ParameterInv'
  BY <1>15 DEF Finish
<1>16. ASSUME NEW g \in Goals, HaltThrows(g) PROVE ParameterInv'
  BY <1>16 DEF HaltThrows
<1>17. CASE RegistrationThrows
  BY <1>17 DEF RegistrationThrows
<1>18. CASE UNCHANGED vars
  BY <1>18 DEF vars
<1>. QED
  BY <1>1, <1>2, <1>3, <1>4, <1>5, <1>6, <1>7, <1>8, <1>9, <1>10,
     <1>11, <1>12, <1>13, <1>14, <1>15, <1>16, <1>17, <1>18
  DEF Next, Execute

\* The strengthening that the safety properties follow from.
THEOREM Invariant == Spec => []IInv
<1>1. IInv /\ [Next]_vars => IInv'
  BY StepType, StepGoal, StepThread, StepReport, StepParameter DEF IInv
<1>. QED
  BY InitInv, <1>1, PTL DEF Spec

-----------------------------------------------------------------------------
(* Safety.                                                                 *)

\* The variables of the server keep their types.
THEOREM TypeCorrect == Spec => []TypeOK
  BY Invariant, PTL DEF IInv

\* However many goals are accepted, only one thread is past its start.
THEOREM OnlyOneTree == Spec => []OneTreeAtATime
<1>1. IInv => OneTreeAtATime
  <2>. SUFFICES ASSUME IInv PROVE Cardinality(InThread) <= 1
    BY DEF OneTreeAtATime
  <2>1. \A g, h \in InThread : g = h
    BY DEF IInv, ThreadInv, InThread, InThreadAt
  <2>2. CASE InThread = {}
    BY <2>2, FS_EmptySet
  <2>3. CASE InThread # {}
    <3>1. PICK g : InThread = {g}
      BY <2>1, <2>3
    <3>2. Cardinality({g}) = 1
      BY FS_Singleton
    <3>. QED
      BY <3>1, <3>2
  <2>. QED
    BY <2>2, <2>3
<1>. QED
  BY <1>1, Invariant, PTL

\* Whichever way out of its loop a goal takes, it is reported once, for the
\* reason that its result has, and leaves no node of its tree running, unless an
\* exception of the tree or a shutdown ends it.
THEOREM EndsAreReported == Spec => []EndedGoalIsReported
<1>1. IInv => EndedGoalIsReported
  <2>. SUFFICES ASSUME IInv, NEW g \in Goals
                PROVE  /\ Len(report[g]) <= 1
                       /\ status[g] \in {"succeeded", "aborted", "canceled"} /\ pc[g] # "thrown" =>
                             pc[g] = "done"
    BY DEF EndedGoalIsReported, IInv, ReportInv
  <2>1. Len(report[g]) <= 1
    <3>1. report[g] = <<>> \/ Len(report[g]) = 1
      BY DEF IInv, ReportInv
    <3>2. CASE report[g] = <<>>
      <4>1. Len(report[g]) = 0
        BY <3>2
      <4>. QED
        BY <4>1
    <3>3. CASE Len(report[g]) = 1
      BY <3>3
    <3>. QED
      BY <3>1, <3>2, <3>3
  <2>. QED
    BY <2>1 DEF IInv, GoalInv
<1>. QED
  BY <1>1, Invariant, PTL

\* No tree is built from parameters older than the acceptance of its goal.
THEOREM TreesAreUpToDate == Spec => []TreeIsUpToDate
<1>1. IInv => TreeIsUpToDate
  BY DEF IInv, TypeOK, Versions, ParameterInv, TreeIsUpToDate
<1>. QED
  BY <1>1, Invariant, PTL

\* Executor and thread together keep to the transitions of rcl_action.
THEOREM TreeGoalsFollowProtocol == Spec => ImplementsActionGoals
<1>1. Init => ActionServer!Init
  BY DEF Init, ActionServer!Init
<1>2. IInv /\ [Next]_vars => [ActionServer!Next]_status
  <2>. SUFFICES ASSUME IInv, [Next]_vars PROVE [ActionServer!Next]_status
    OBVIOUS
  <2>. USE DEF IInv, TypeOK, GoalInv, Goto, Ends, Throws
  <2>1. ASSUME NEW g \in Goals, HandleGoalRejects(g) \/ HandleAccepted(g) \/ HandleCancel(g)
        PROVE  ActionServer!Next
    BY <2>1 DEF HandleGoalRejects, HandleAccepted, HandleCancel, ActionServer!Next,
       ActionServer!Reject, ActionServer!Accept, ActionServer!Cancel, ActionServer!Moves
  <2>2. ASSUME NEW g \in Goals, status[g] \in {"executing", "canceling"},
               NEW how \in {"succeeded", "aborted"}, status' = [status EXCEPT ![g] = how]
        PROVE  ActionServer!Next
    BY <2>2 DEF ActionServer!Next, ActionServer!Finish, ActionServer!Succeed,
       ActionServer!Abort, ActionServer!Moves
  <2>3. ASSUME NEW g \in Goals, StopOnCancel(g) PROVE ActionServer!Next
    BY <2>3 DEF StopOnCancel, ActionServer!Next, ActionServer!Finish,
       ActionServer!Canceled, ActionServer!Moves
  <2>4. ASSUME NEW g \in Goals, Execute(g), ~StopOnCancel(g)
        PROVE  [ActionServer!Next]_status
    <3>1. pc[g] \in InThreadAt => status[g] \in {"executing", "canceling"}
      BY DEF InThreadAt
    <3>. QED
      BY <2>2, <2>4, <3>1 DEF Execute, CheckParameters, ExecuteRegistration, CreateTree,
         Tick, HaltThrows, StopAfterTick, NextTurn, Finish, InThreadAt
  <2>5. CASE SingleShotTimer \/ ParametersChange \/ RegistrationThrows \/ Shutdown
             \/ UNCHANGED vars
    BY <2>5 DEF SingleShotTimer, ParametersChange, RegistrationThrows, Shutdown, vars
  <2>6. ASSUME NEW g \in Goals, Joined(g) PROVE UNCHANGED status
    BY <2>6 DEF Joined
  <2>. QED
    BY <2>1, <2>3, <2>4, <2>5, <2>6 DEF Next
<1>. QED
  BY <1>1, <1>2, Invariant, PTL DEF Spec, ImplementsActionGoals, ActionServer!Spec

-----------------------------------------------------------------------------
(* The learned leader: the invariant.                                      *)

\* A running callback carries a message, not the NaN of the beginning, and has
\* stored what its step says; the flag of a robot is raised after both.
CallbackInv ==
    \A r \in Leader!Robots :
        /\ \A c \in callbacks[r] :
              /\ c[1] # 0 /\ c[2] \in {"pos", "vel", "flag"}
              /\ c[2] # "pos" => robot_pos_[r] # 0
              /\ c[2] = "flag" => robot_vel_[r] # 0
        /\ odom_received_[r] => robot_pos_[r] # 0 /\ robot_vel_[r] # 0

\* A goal runs its loop only once all odometry has been received, and the
\* place of its thread tells its state.
LeaderGoalInv ==
    \A g \in Goals :
        /\ pc[g] \in Leader!Loop => \A r \in Leader!Robots : odom_received_[r]
        /\ pc[g] = "none" <=> status[g] = "unknown"
        /\ pc[g] \in Leader!Loop \cup {"queued"} => status[g] = "executing"

LeaderIInv == Leader!TypeOK /\ CallbackInv /\ LeaderGoalInv

\* Nothing is stored, taken or accepted at the start.
LEMMA LeaderInit == Leader!SizesAssumption /\ Leader!Init => LeaderIInv
  BY DEF Leader!SizesAssumption, Leader!Init, LeaderIInv, Leader!TypeOK, CallbackInv,
     LeaderGoalInv, Leader!Loop, Leader!Messages

\* The order of the assignments of odom_callback.
LEMMA CallbackSteps ==
    /\ Leader!NextStep("pos") = "vel"
    /\ Leader!NextStep("vel") = "flag"
    /\ Leader!NextStep("flag") = "end"
  BY DEF Leader!NextStep

\* A callback stores what it is to store before it goes on.
LEMMA CallbackStep ==
    ASSUME Leader!SizesAssumption, LeaderIInv,
           NEW r \in Leader!Robots, NEW c \in callbacks[r],
           Leader!OdomCallback(r, c[1], c[2])
    PROVE  LeaderIInv'
<1>. USE DEF Leader!SizesAssumption, LeaderIInv, Leader!TypeOK, Leader!Messages
<1>1. c[1] \in Leader!Messages \ {0} /\ c[2] \in {"pos", "vel", "flag"}
  BY DEF CallbackInv
<1>2. /\ robot_pos_' = IF c[2] = "pos" THEN [robot_pos_ EXCEPT ![r] = c[1]] ELSE robot_pos_
      /\ robot_vel_' = IF c[2] = "vel" THEN [robot_vel_ EXCEPT ![r] = c[1]] ELSE robot_vel_
      /\ odom_received_' = IF c[2] = "flag" THEN [odom_received_ EXCEPT ![r] = TRUE]
                           ELSE odom_received_
      /\ UNCHANGED <<ok, taken, overlapped, target, pc, status>>
  BY DEF Leader!OdomCallback, Leader!BoundId, Leader!goalVars
<1>3. \A q \in Leader!Robots :
        /\ robot_pos_[q] # 0 => robot_pos_'[q] # 0
        /\ robot_vel_[q] # 0 => robot_vel_'[q] # 0
        /\ odom_received_[q] => odom_received_'[q]
  BY <1>1, <1>2
<1>. DEFINE rest == IF Leader!NextStep(c[2]) = "end" THEN {}
                    ELSE {<<c[1], Leader!NextStep(c[2])>>}
<1>4. /\ c[2] = "pos" => rest = {<<c[1], "vel">>}
      /\ c[2] = "vel" => rest = {<<c[1], "flag">>}
      /\ c[2] = "flag" => rest = {}
  BY CallbackSteps
<1>5. callbacks' = [callbacks EXCEPT ![r] = (@ \ {<<c[1], c[2]>>}) \cup rest]
  BY DEF Leader!OdomCallback
<1>6. rest \subseteq Leader!Messages \X {"vel", "flag"}
  BY <1>1, <1>4
<1>. HIDE DEF rest
<1>7. /\ callbacks' \in [Leader!Robots -> SUBSET (Leader!Messages \X {"pos", "vel", "flag"})]
      /\ \A q \in Leader!Robots \ {r} : callbacks'[q] = callbacks[q]
      /\ \A f \in callbacks'[r] : f \in callbacks[r] \/ f \in rest
  BY <1>5, <1>6
<1>8. Leader!TypeOK'
  BY <1>1, <1>2, <1>7
<1>9. ASSUME NEW q \in Leader!Robots, NEW f \in callbacks'[q]
      PROVE  /\ f[1] # 0 /\ f[2] \in {"pos", "vel", "flag"}
             /\ f[2] # "pos" => robot_pos_'[q] # 0
             /\ f[2] = "flag" => robot_vel_'[q] # 0
  <2>1. CASE f \in callbacks[q]
    BY <1>3, <2>1 DEF CallbackInv
  <2>2. CASE q = r /\ c[2] = "pos" /\ f = <<c[1], "vel">>
    BY <1>1, <1>2, <2>2
  <2>3. CASE q = r /\ c[2] = "vel" /\ f = <<c[1], "flag">>
    BY <1>1, <1>2, <1>3, <2>3 DEF CallbackInv
  <2>. QED
    BY <1>1, <1>7, <1>4, <2>1, <2>2, <2>3
<1>10. ASSUME NEW q \in Leader!Robots, odom_received_'[q]
      PROVE  robot_pos_'[q] # 0 /\ robot_vel_'[q] # 0
  <2>1. odom_received_[q] \/ (q = r /\ c[2] = "flag")
    BY <1>2, <1>10
  <2>. QED
    BY <1>3, <2>1 DEF CallbackInv
<1>11. CallbackInv'
  BY <1>9, <1>10 DEF CallbackInv
<1>12. LeaderGoalInv'
  BY <1>2, <1>3 DEF LeaderGoalInv
<1>. QED
  BY <1>8, <1>11, <1>12

\* Every step preserves the invariant.
LEMMA LeaderInvStep ==
    Leader!SizesAssumption /\ LeaderIInv /\ [Leader!Next]_(Leader!vars) => LeaderIInv'
<1>. SUFFICES ASSUME Leader!SizesAssumption, LeaderIInv, [Leader!Next]_(Leader!vars)
              PROVE  LeaderIInv'
  OBVIOUS
<1>1. ASSUME NEW r \in Leader!Robots, NEW c \in callbacks[r], Leader!OdomCallback(r, c[1], c[2])
      PROVE  LeaderIInv'
  BY <1>1, CallbackStep
<1>. USE DEF Leader!SizesAssumption, LeaderIInv, Leader!TypeOK, Leader!Loop, Leader!Messages
<1>2. ASSUME NEW r \in Leader!Robots, Leader!TakeOdometry(r) PROVE LeaderIInv'
  <2>1. /\ taken' \in [Leader!Robots -> Leader!Messages]
        /\ UNCHANGED <<ok, robot_pos_, robot_vel_, odom_received_, target, status, pc>>
        /\ overlapped' \in [Leader!Robots -> BOOLEAN]
        /\ callbacks' = [callbacks EXCEPT ![r] = @ \cup {<<taken[r] + 1, "pos">>}]
    BY <1>2 DEF Leader!TakeOdometry, Leader!goalVars
  <2>2. taken[r] + 1 \in Leader!Messages \ {0}
    BY <1>2 DEF Leader!TakeOdometry
  <2>3. Leader!TypeOK'
    BY <2>1, <2>2
  <2>4. CallbackInv'
    BY <2>1, <2>2 DEF CallbackInv
  <2>. QED
    BY <2>1, <2>3, <2>4 DEF LeaderGoalInv
<1>3. CASE Leader!TimerFires
  BY <1>3 DEF Leader!TimerFires, Leader!odomVars, CallbackInv, LeaderGoalInv
<1>4. CASE ok' \in BOOLEAN /\ UNCHANGED <<Leader!odomVars, Leader!goalVars>>
  BY <1>4 DEF Leader!odomVars, Leader!goalVars, CallbackInv, LeaderGoalInv
<1>5. Leader!Shutdown \/ UNCHANGED Leader!vars \/ (\E g \in Goals : Leader!HandleCancel(g))
      => ok' \in BOOLEAN /\ UNCHANGED <<Leader!odomVars, Leader!goalVars>>
  BY DEF Leader!Shutdown, Leader!HandleCancel, Leader!AcceptsCancel, Leader!goalVars,
     Leader!vars
<1>6. ASSUME NEW g \in Goals, Leader!HandleGoal(g) PROVE LeaderIInv'
  BY <1>6 DEF Leader!HandleGoal, Leader!odomVars, CallbackInv, LeaderGoalInv
<1>7. ASSUME NEW g \in Goals, Leader!ActionCallback(g) PROVE LeaderIInv'
  <2>1. CASE Leader!Start(g)
    BY <2>1 DEF Leader!Start, Leader!Goto, Leader!Ends, Leader!odomVars, CallbackInv,
       LeaderGoalInv
  <2>2. CASE Leader!Top(g)
    BY <2>2 DEF Leader!Top, Leader!Goto, Leader!Ends, Leader!odomVars, CallbackInv,
       LeaderGoalInv
  <2>3. CASE Leader!Centre(g)
    BY <2>3 DEF Leader!Centre, Leader!Goto, Leader!Ends, Leader!odomVars, CallbackInv,
       LeaderGoalInv
  <2>4. CASE Leader!InterruptSleep(g)
    BY <2>4 DEF Leader!InterruptSleep, Leader!Ends, Leader!odomVars, CallbackInv, LeaderGoalInv
  <2>. QED
    BY <1>7, <2>1, <2>2, <2>3, <2>4 DEF Leader!ActionCallback
<1>. QED
  BY <1>1, <1>2, <1>3, <1>4, <1>5, <1>6, <1>7 DEF Leader!Next

\* The invariant holds throughout.
THEOREM LeaderInvariant ==
    Leader!SizesAssumption => (Leader!Spec => []LeaderIInv)
<1>. SUFFICES ASSUME Leader!SizesAssumption PROVE Leader!Spec => []LeaderIInv
  OBVIOUS
<1>1. Leader!Init => LeaderIInv
  BY LeaderInit
<1>2. LeaderIInv /\ [Leader!Next]_(Leader!vars) => LeaderIInv'
  BY LeaderInvStep
<1>. QED
  BY <1>1, <1>2, PTL DEF Leader!Spec

\* The variables of the server keep their types.
THEOREM LeaderTypeCorrect ==
    Leader!SizesAssumption => (Leader!Spec => []Leader!TypeOK)
  BY LeaderInvariant, PTL DEF LeaderIInv

-----------------------------------------------------------------------------
(* The learned leader: safety.                                             *)

\* No NaN reaches the policy or the leader, however the callbacks interleave.
THEOREM NothingUnsetIsRead ==
    Leader!SizesAssumption => (Leader!Spec => []Leader!NeverReadsUnset)
<1>1. LeaderIInv => Leader!NeverReadsUnset
  BY DEF LeaderIInv, CallbackInv, LeaderGoalInv, Leader!NeverReadsUnset, Leader!RunningGoals
<1>. QED
  BY <1>1, LeaderInvariant, PTL

\* The server never moves a goal in a way that rcl_action answers with an
\* exception.
THEOREM LeaderRLImplementsActionGoals ==
    Leader!SizesAssumption => (Leader!Spec => Leader!ImplementsActionGoals)
<1>1. Leader!Init => Leader!ActionServer!Init
  BY DEF Leader!Init, Leader!ActionServer!Init
<1>2. ASSUME LeaderIInv, [Leader!Next]_(Leader!vars) PROVE [Leader!ActionServer!Next]_status
  <2>. USE <1>2 DEF LeaderIInv, Leader!TypeOK
  <2>. USE DEF Leader!ActionServer!Next, Leader!ActionServer!Moves
  <2>1. CASE UNCHANGED status
    BY <2>1
  <2>2. ASSUME NEW g \in Goals, Leader!HandleGoal(g) PROVE Leader!ActionServer!Next
    BY <2>2 DEF Leader!HandleGoal, Leader!ActionServer!Accept
  <2>3. ASSUME NEW g \in Goals, Leader!ActionCallback(g) PROVE [Leader!ActionServer!Next]_status
    <3>1. status[g] = "executing"
      BY <2>3 DEF LeaderGoalInv, Leader!Loop, Leader!ActionCallback, Leader!Start,
         Leader!Top, Leader!Centre, Leader!InterruptSleep
    <3>2. \/ UNCHANGED status
          \/ \E how \in {"succeeded", "aborted"} : Leader!Ends(g, how)
      BY <2>3, <3>1 DEF Leader!ActionCallback, Leader!Start, Leader!Top, Leader!Centre,
         Leader!InterruptSleep, Leader!Goto
    <3>. QED
      BY <3>1, <3>2 DEF Leader!Ends, Leader!ActionServer!Finish, Leader!ActionServer!Succeed,
         Leader!ActionServer!Abort
  <2>4. Leader!TimerFires \/ Leader!Shutdown \/ UNCHANGED Leader!vars
        \/ (\E r \in Leader!Robots : \/ Leader!TakeOdometry(r)
                                     \/ \E c \in callbacks[r] : Leader!OdomCallback(r, c[1], c[2]))
        \/ (\E g \in Goals : Leader!HandleCancel(g))
        => UNCHANGED status
    BY DEF Leader!TimerFires, Leader!Shutdown, Leader!TakeOdometry, Leader!OdomCallback,
       Leader!HandleCancel, Leader!AcceptsCancel, Leader!goalVars, Leader!vars
  <2>. QED
    BY <2>1, <2>2, <2>3, <2>4 DEF Leader!Next
<1>. QED
  BY <1>1, <1>2, LeaderInvariant, PTL DEF Leader!Spec, Leader!ImplementsActionGoals,
     Leader!ActionServer!Spec

-----------------------------------------------------------------------------
(* The learned leader: odometry that does not overlap.                     *)

\* A robot whose callbacks have never overlapped has at most one, of the
\* newest message, and its step says what has been stored of that message.
InStep(r) ==
    \/ /\ callbacks[r] = {}
       /\ robot_pos_[r] = taken[r] /\ robot_vel_[r] = taken[r]
    \/ callbacks[r] = {<<taken[r], "pos">>}
    \/ callbacks[r] = {<<taken[r], "vel">>} /\ robot_pos_[r] = taken[r]
    \/ /\ callbacks[r] = {<<taken[r], "flag">>}
       /\ robot_pos_[r] = taken[r] /\ robot_vel_[r] = taken[r]

InOrder ==
    /\ overlapped \in [Leader!Robots -> BOOLEAN]
    /\ \A r \in Leader!Robots : overlapped[r] \/ InStep(r)

\* Every step keeps the messages in order.
LEMMA OrderStep == LeaderIInv /\ InOrder /\ [Leader!Next]_(Leader!vars) => InOrder'
<1>. SUFFICES ASSUME LeaderIInv, InOrder, [Leader!Next]_(Leader!vars) PROVE InOrder'
  OBVIOUS
<1>. USE DEF LeaderIInv, Leader!TypeOK
<1>1. CASE UNCHANGED Leader!odomVars
  BY <1>1 DEF Leader!odomVars, InOrder, InStep
<1>2. ASSUME NEW r \in Leader!Robots, Leader!TakeOdometry(r) PROVE InOrder'
  <2>1. ASSUME NEW q \in Leader!Robots \ {r}, overlapped[q] \/ InStep(q)
        PROVE  overlapped'[q] \/ InStep(q)'
    BY <1>2, <2>1 DEF Leader!TakeOdometry, InOrder, InStep
  <2>2. ASSUME ~overlapped'[r] PROVE InStep(r)'
    <3>1. callbacks[r] = {}
      BY <1>2, <2>2 DEF Leader!TakeOdometry, InOrder
    <3>. QED
      BY <1>2, <3>1 DEF Leader!TakeOdometry, InStep
  <2>3. overlapped' \in [Leader!Robots -> BOOLEAN]
    BY <1>2 DEF Leader!TakeOdometry, InOrder
  <2>. QED
    BY <2>1, <2>2, <2>3 DEF InOrder
<1>3. ASSUME NEW r \in Leader!Robots, NEW c \in callbacks[r], Leader!OdomCallback(r, c[1], c[2])
      PROVE  InOrder'
  <2>1. UNCHANGED <<taken, overlapped>> /\ c = <<c[1], c[2]>>
    BY <1>3 DEF Leader!OdomCallback
  <2>2. \A q \in Leader!Robots \ {r} : InStep(q) => InStep(q)'
    BY <1>3 DEF Leader!OdomCallback, Leader!BoundId, InStep
  <2>3. ASSUME InStep(r) PROVE InStep(r)'
    <3>1. CASE c = <<taken[r], "pos">> /\ callbacks[r] = {c}
      BY <1>3, <2>1, <3>1, CallbackSteps DEF Leader!OdomCallback, Leader!BoundId, InStep
    <3>2. CASE c = <<taken[r], "vel">> /\ callbacks[r] = {c} /\ robot_pos_[r] = taken[r]
      BY <1>3, <2>1, <3>2, CallbackSteps DEF Leader!OdomCallback, Leader!BoundId, InStep
    <3>3. CASE /\ c = <<taken[r], "flag">> /\ callbacks[r] = {c}
               /\ robot_pos_[r] = taken[r] /\ robot_vel_[r] = taken[r]
      BY <1>3, <2>1, <3>3, CallbackSteps DEF Leader!OdomCallback, Leader!BoundId, InStep
    <3>. QED
      BY <2>3, <3>1, <3>2, <3>3 DEF InStep
  <2>. QED
    BY <2>1, <2>2, <2>3 DEF InOrder
<1>4. Leader!TimerFires \/ Leader!Shutdown \/ UNCHANGED Leader!vars
      \/ (\E g \in Goals : \/ Leader!HandleGoal(g)
                           \/ Leader!HandleCancel(g)
                           \/ Leader!ActionCallback(g))
      => UNCHANGED Leader!odomVars
  BY DEF Leader!TimerFires, Leader!Shutdown, Leader!HandleGoal, Leader!HandleCancel,
     Leader!ActionCallback, Leader!Start, Leader!Top, Leader!Centre,
     Leader!InterruptSleep, Leader!vars
<1>. QED
  BY <1>1, <1>2, <1>3, <1>4 DEF Leader!Next

\* Without overlapping callbacks what is stored of a robot is its newest
\* message, position and velocity alike.
THEOREM StoredStaysNewest ==
    Leader!SizesAssumption => (Leader!Spec => []Leader!StoredIsNewest)
<1>1. Leader!Init => InOrder
  BY DEF Leader!Init, InOrder, InStep
<1>2. InOrder => Leader!StoredIsNewest
  BY DEF InOrder, InStep, Leader!StoredIsNewest
<1>. QED
  BY <1>1, <1>2, OrderStep, LeaderInvariant, PTL DEF Leader!Spec
=============================================================================
