-------------------------------- MODULE LeaderRL --------------------------------
(***************************************************************************)
(* The action server of inrof_control/leader_rl.py, which plays the leader *)
(* robot by a learned policy.  Its callbacks are reentrant on a            *)
(* multi-threaded executor: each message of odometry and each goal         *)
(* occupies a thread, a goal for as long as it runs, its sleeps included.  *)
(* The bytecodes of odom_callback interleave; under the GIL each of its    *)
(* three assignments is one step.                                          *)
(*                                                                         *)
(* A robot moves on a line, and its n-th message says that it is at n; 0   *)
(* stands for the NaN of the beginning.  The policy is left out: nothing   *)
(* here depends on what it says.                                           *)
(***************************************************************************)
EXTENDS Integers, FiniteSetsExt

CONSTANTS
    robot_num,
    Goals,
    Targets,    \* where goals want the centre of the robots
    Threads,    \* of the executor
    MaxMsgs     \* bound: messages of a robot

ASSUME SizesAssumption ==
    robot_num \in Nat \ {0} /\ Threads \in Nat /\ MaxMsgs \in Nat

Robots == 1..robot_num

VARIABLES
    ok,             \* rclpy.ok()
    taken,          \* messages of each robot that callbacks have taken
    callbacks,      \* running callbacks of each robot: message and next step
    robot_pos_, robot_vel_, odom_received_,
    target, status, pc,     \* of each goal
    overlapped      \* history: two callbacks of the robot ran at a time

odomVars == <<taken, callbacks, robot_pos_, robot_vel_, odom_received_, overlapped>>
goalVars == <<target, status, pc>>
vars == <<ok, odomVars, goalVars>>

Loop == {"top", "centre", "sleep"}
Messages == 0..MaxMsgs

TypeOK ==
    /\ ok \in BOOLEAN
    /\ taken \in [Robots -> Messages]
    /\ callbacks \in [Robots -> SUBSET (Messages \X {"pos", "vel", "flag"})]
    /\ robot_pos_ \in [Robots -> Messages] /\ robot_vel_ \in [Robots -> Messages]
    /\ odom_received_ \in [Robots -> BOOLEAN]
    /\ target \in [Goals -> Targets]
    /\ status \in [Goals -> {"unknown", "executing", "canceling", "succeeded",
                             "aborted", "canceled"}]
    /\ pc \in [Goals -> Loop \cup {"none", "queued", "done"}]
    /\ overlapped \in [Robots -> BOOLEAN]

Init ==
    /\ ok = TRUE
    /\ taken = [r \in Robots |-> 0]
    /\ callbacks = [r \in Robots |-> {}]
    /\ robot_pos_ = [r \in Robots |-> 0]
    /\ robot_vel_ = [r \in Robots |-> 0]
    /\ odom_received_ = [r \in Robots |-> FALSE]
    /\ target \in [Goals -> Targets]
    /\ status = [g \in Goals |-> "unknown"]
    /\ pc = [g \in Goals |-> "none"]
    /\ overlapped = [r \in Robots |-> FALSE]

-----------------------------------------------------------------------------
(* The executor.                                                           *)

RunningGoals == {g \in Goals : pc[g] \in Loop}
RunningCallbacks == UNION {{r} \X callbacks[r] : r \in Robots}

\* Mutant of FreeThread: the executor of rclpy.spin, with a single thread.
FreeThreadOfOne == RunningGoals = {} /\ RunningCallbacks = {}

FreeThread ==
    Cardinality(RunningGoals) + Cardinality(RunningCallbacks) < Threads

\* The timer of rate_ fires and wakes the goals that sleep.
TimerFires ==
    /\ ok /\ FreeThread
    /\ \E g \in Goals : pc[g] = "sleep"
    /\ pc' = [g \in Goals |-> IF pc[g] = "sleep" THEN "top" ELSE pc[g]]
    /\ UNCHANGED <<ok, odomVars, target, status>>

\* SIGINT: what runs goes on, nothing new is begun.
Shutdown ==
    /\ ok
    /\ ok' = FALSE
    /\ UNCHANGED <<odomVars, goalVars>>

-----------------------------------------------------------------------------
(* odom_callback.                                                          *)

TakeOdometry(r) ==
    /\ ok /\ FreeThread
    /\ taken[r] < MaxMsgs
    /\ taken' = [taken EXCEPT ![r] = @ + 1]
    /\ callbacks' = [callbacks EXCEPT ![r] = @ \cup {<<taken[r] + 1, "pos">>}]
    /\ overlapped' = [overlapped EXCEPT ![r] = @ \/ callbacks[r] # {}]
    /\ UNCHANGED <<ok, robot_pos_, robot_vel_, odom_received_, goalVars>>

\* Mutant of BoundId: the lambda looks the variable of the loop up when it is
\* called, and finds its last value.
BoundIdLate(r) == robot_num

\* The robot that the subscriber of robot r tells its callback.
BoundId(r) == r

\* Mutant of NextStep: the flag is set before the velocity.
NextStepFlagEarly(step) ==
    CASE step = "pos" -> "flag" [] step = "flag" -> "vel" [] step = "vel" -> "end"

NextStep(step) ==
    CASE step = "pos" -> "vel" [] step = "vel" -> "flag" [] step = "flag" -> "end"

OdomCallback(r, m, step) ==
    /\ <<m, step>> \in callbacks[r]
    /\ robot_pos_' = IF step = "pos" THEN [robot_pos_ EXCEPT ![BoundId(r)] = m]
                     ELSE robot_pos_
    /\ robot_vel_' = IF step = "vel" THEN [robot_vel_ EXCEPT ![BoundId(r)] = m]
                     ELSE robot_vel_
    /\ odom_received_' = IF step = "flag"
                         THEN [odom_received_ EXCEPT ![BoundId(r)] = TRUE]
                         ELSE odom_received_
    /\ callbacks' = [callbacks EXCEPT ![r] =
                        (@ \ {<<m, step>>}) \cup
                        (IF NextStep(step) = "end" THEN {} ELSE {<<m, NextStep(step)>>})]
    /\ UNCHANGED <<ok, taken, overlapped, goalVars>>

-----------------------------------------------------------------------------
(* The action server.  Its default goal callback accepts, its default      *)
(* cancel callback rejects.                                                *)

HandleGoal(g) ==
    /\ ok /\ FreeThread
    /\ status[g] = "unknown"
    /\ status' = [status EXCEPT ![g] = "executing"]
    /\ pc' = [pc EXCEPT ![g] = "queued"]
    /\ UNCHANGED <<ok, odomVars, target>>

\* No cancel callback is registered, and the default one accepts none: the
\* cancel check of the loop never finds anything.
AcceptsCancel == FALSE

HandleCancel(g) ==
    /\ ok /\ FreeThread
    /\ status[g] = "executing"
    /\ status' = [status EXCEPT ![g] = IF AcceptsCancel THEN "canceling" ELSE @]
    /\ UNCHANGED <<ok, odomVars, target, pc>>

Ends(g, how) ==
    /\ status' = [status EXCEPT ![g] = how]
    /\ pc' = [pc EXCEPT ![g] = "done"]

Goto(g, place) == pc' = [pc EXCEPT ![g] = place] /\ UNCHANGED status

\* action_callback gets its thread: without the odometry of all robots the
\* goal is aborted.
Start(g) ==
    /\ ok /\ FreeThread
    /\ pc[g] = "queued"
    /\ IF \A r \in Robots : odom_received_[r] THEN Goto(g, "top")
       ELSE Ends(g, "aborted")
    /\ UNCHANGED <<ok, odomVars, target>>

\* The top of the loop; then the observation, and predict() of it.
Top(g) ==
    /\ pc[g] = "top"
    /\ IF ~ok THEN Ends(g, "aborted")
       ELSE IF status[g] = "canceling" THEN Ends(g, "canceled")
       ELSE Goto(g, "centre")
    /\ UNCHANGED <<ok, odomVars, target>>

\* The mean of the positions is t; it is not if one of them is NaN.
CentreAt(t) ==
    /\ \A r \in Robots : robot_pos_[r] # 0
    /\ MapThenSumSet(LAMBDA r : robot_pos_[r], Robots) = t * robot_num

\* The centre is read again, the leader is put ahead of it, and the goal ends
\* if the centre has arrived.
Centre(g) ==
    /\ pc[g] = "centre"
    /\ IF CentreAt(target[g]) THEN Ends(g, "succeeded") ELSE Goto(g, "sleep")
    /\ UNCHANGED <<ok, odomVars, target>>

\* rate_.sleep() raises an exception, which rclpy turns into abort().
InterruptSleep(g) ==
    /\ pc[g] = "sleep" /\ ~ok
    /\ Ends(g, "aborted")
    /\ UNCHANGED <<ok, odomVars, target>>

ActionCallback(g) == Start(g) \/ Top(g) \/ Centre(g) \/ InterruptSleep(g)

Next ==
    \/ TimerFires \/ Shutdown
    \/ \E r \in Robots :
          \/ TakeOdometry(r)
          \/ \E c \in callbacks[r] : OdomCallback(r, c[1], c[2])
    \/ \E g \in Goals : HandleGoal(g) \/ HandleCancel(g) \/ ActionCallback(g)

Spec == Init /\ [][Next]_vars

\* The threads are scheduled, and a timer that is due is served by a thread
\* that is free.
FairSpec ==
    /\ Spec
    /\ WF_vars(TimerFires)
    /\ \A g \in Goals : WF_vars(ActionCallback(g))
    /\ \A r \in Robots :
          WF_vars(\E c \in callbacks[r] : OdomCallback(r, c[1], c[2]))

-----------------------------------------------------------------------------
(* Properties.                                                             *)

\* No NaN ever reaches the policy or the leader: a goal runs its loop only
\* when position and velocity of every robot have been stored, whichever way
\* the callbacks interleave.
NeverReadsUnset ==
    \A g \in RunningGoals : \A r \in Robots : robot_pos_[r] # 0 /\ robot_vel_[r] # 0

\* What is stored of a robot is its newest message, unless two of its
\* callbacks ever ran at the same time: then an older one, or the position of
\* one and the velocity of the other, may stay until the next message.
StoredIsNewest ==
    \A r \in Robots : callbacks[r] = {} /\ ~overlapped[r] =>
        robot_pos_[r] = taken[r] /\ robot_vel_[r] = taken[r]

ActionServer == INSTANCE ActionGoals WITH Goals <- Goals, status <- status

\* A goal takes only the transitions that rcl_action allows.
ImplementsActionGoals == ActionServer!Spec

Full == Cardinality(RunningGoals) = Threads

\* A sleeping goal goes on, unless goals have all the threads: then nothing
\* is left to serve the timer that would wake one of them.
SleepEnds == \A g \in Goals : pc[g] = "sleep" ~> (pc[g] # "sleep" \/ Full)
=============================================================================
