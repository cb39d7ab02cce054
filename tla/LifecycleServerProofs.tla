------------------------- MODULE LifecycleServerProofs -------------------------
(***************************************************************************)
(* Proofs about LifecycleServer, for every number of goals, deaths of the  *)
(* managed node and transitions of other clients: results are true, one of *)
(* the goals that race wins, early cancels are honoured, and goals and node *)
(* keep to ActionGoals and to ManagedNode.                                 *)
(***************************************************************************)
EXTENDS LifecycleServer, FiniteSetTheorems, TLAPS

-----------------------------------------------------------------------------
(* The two copies of the state machine.                                    *)

\* The offered transitions are transitions, and a final state offers none.
LEMMA AvailableType ==
    ASSUME NEW s \in States
    PROVE  /\ Available(s) \subseteq Transitions
           /\ Available(s) # {} => s # "finalized"
  BY DEF States, Available, Transitions

\* A resolved label is a transition that the state offers.
LEMMA ResolvedType ==
    ASSUME NEW s \in States, NEW t, NEW u \in Resolved(t, s)
    PROVE  u \in Available(s) /\ u \in Transitions /\ Label(u) = Label(t)
  BY AvailableType DEF Resolved

\* A transition resolved by its label leads where the server expects the one
\* that it has chosen to lead.
LEMMA LeadsWhereExpected ==
    ASSUME NEW t \in Transitions, NEW u \in Transitions, NEW s \in States,
           Label(u) = Label(t), ReachesGoalState(t, s)
    PROVE  Leads[u] = s
  BY DEF Transitions, States, Label, ReachesGoalState, Leads

\* No transition leads to the state it is offered in: a goal that comes second
\* is refused.
LEMMA SecondIsRefused ==
    ASSUME NEW t \in Transitions, NEW s \in States, ReachesGoalState(t, s)
    PROVE  Resolved(t, s) = {}
  BY DEF Transitions, States, ReachesGoalState, Available, Resolved, Label

\* What a transition makes of the node.
LEMMA RunsMoves ==
    ASSUME NEW t, NEW outcome \in {"success", "failure"}, node \in States,
           t \in Available(node), Runs(t, outcome)
    PROVE  /\ node' \in States
           /\ Managed!Next \/ UNCHANGED node
<1>1. t \in Transitions /\ node # "finalized"
  BY AvailableType
<1>2. CASE outcome = "success" /\ node' = Leads[t]
  <2>1. \/ node = "unconfigured" /\ t \in {"configure", "unconfigured_shutdown"}
        \/ node = "inactive" /\ t \in {"cleanup", "activate", "inactive_shutdown"}
        \/ node = "active" /\ t \in {"deactivate", "active_shutdown"}
    BY <1>1 DEF Available, States
  <2>. QED
    BY <1>1, <1>2, <2>1 DEF Leads, States, Transitions, Managed!Next, Managed!Configure,
       Managed!Activate, Managed!Deactivate, Managed!Cleanup, Managed!Shutdown,
       Managed!Moves, Managed!States
<1>3. CASE node' \in {"unconfigured", "finalized"}
  BY <1>1, <1>3 DEF States, Managed!Next, Managed!Recover, Managed!Shutdown,
     Managed!Moves, Managed!States
<1>. QED
  BY <1>2, <1>3 DEF Runs

-----------------------------------------------------------------------------
(* The invariant.                                                          *)

\* The places of a thread that has begun and not ended.
Running == Places \ {"none", "done", "interrupted", "unheard"}

\* The place of a thread tells the state of its goal.
GoalInv ==
    /\ \A g \in Goals :
          /\ pc[g] = "none" => status[g] \in {"unknown", "rejected"}
          /\ pc[g] = "done" => status[g] \in {"succeeded", "aborted", "canceled"}
          /\ pc[g] \in Running => status[g] \in {"executing", "canceling"}
          /\ pc[g] \in {"interrupted", "unheard"} => ~ok /\ status[g] = "aborted"
    /\ handling # NoGoal => status[handling] = "unknown"

\* A goal has moved the node only once change_state has answered it, with
\* success, and then to its target: the transition it asked for leads there.  Of
\* an answer that nobody heard the result of the goal tells nothing.
ResultInv ==
    \A g \in Goals :
        /\ pc[g] \notin {"responded", "unheard", "done"} => applied[g] = NotApplied
        /\ pc[g] = "answered" /\ found[g] # NoTransition =>
              ReachesGoalState(found[g], target[g])
        /\ pc[g] \in {"wait_change", "changing", "interrupted"} =>
              found[g] # NoTransition /\ ReachesGoalState(found[g], target[g])
        /\ pc[g] = "responded" =>
              \/ reply[g] = "success" /\ applied[g] = target[g]
              \/ reply[g] = "failure" /\ applied[g] = NotApplied
        /\ pc[g] = "unheard" => applied[g] \in {NotApplied, target[g]}
        /\ pc[g] = "done" =>
              applied[g] = IF status[g] = "succeeded" THEN target[g] ELSE NotApplied

\* As long as nobody else moves the node, it stays where the first winner has
\* put it.
WinnerInv ==
    /\ alive \/ crashes > 0
    /\ (others = 0 /\ crashes = 0 /\ \A g, h \in Goals : target[g] = target[h]) =>
          \A g \in Goals : applied[g] # NotApplied =>
              /\ node = target[g]
              /\ \A h \in Goals : applied[h] # NotApplied => h = g

IInv == TypeOK /\ GoalInv /\ ResultInv /\ WinnerInv

\* The invariant holds at the start.
LEMMA InitInv == Init => IInv
  BY NoGoalAssumption, BoundsAssumption DEF Init, IInv, TypeOK, GoalInv, ResultInv, WinnerInv,
     States, Places, Running, Transitions, NoTransition, NotApplied

\* Every step keeps the types, and each part of the invariant.
LEMMA StepType == TypeOK /\ [Next]_vars => TypeOK'
<1>. SUFFICES ASSUME TypeOK, [Next]_vars PROVE TypeOK'
  OBVIOUS
<1>. USE DEF TypeOK, nodeVars, boundVars, serverVars, Goto, Ends, Local
<1>1. CASE HandleGoalTimeout
  BY <1>1 DEF HandleGoalTimeout
<1>2. CASE HandleGoalDecides
  BY <1>2 DEF HandleGoalDecides, Places
<1>3. ASSUME NEW g \in Goals, HandleGoalUnreachable(g) PROVE TypeOK'
  BY <1>3 DEF HandleGoalUnreachable
<1>4. ASSUME NEW g \in Goals, HandleGoalAsks(g) PROVE TypeOK'
  BY <1>4 DEF HandleGoalAsks
<1>5. ASSUME NEW g \in Goals, HandleCancel(g) PROVE TypeOK'
  BY <1>5 DEF HandleCancel
<1>6. CASE AnswerHandleGoal
  BY <1>6, AvailableType DEF AnswerHandleGoal
<1>7. ASSUME NEW g \in Goals, AnswerQuery(g) PROVE TypeOK'
  BY <1>7, AvailableType DEF AnswerQuery, Places
<1>8. ASSUME NEW g \in Goals, ServeChange(g) PROVE TypeOK'
  <2>1. node' \in States /\ reply' \in [Goals -> {"none", "success", "failure"}]
    BY <1>8, ResolvedType, RunsMoves DEF ServeChange
  <2>2. applied' \in [Goals -> States \cup {NotApplied}]
    BY <1>8, <2>1 DEF ServeChange
  <2>. QED
    BY <1>8, <2>1, <2>2 DEF ServeChange, Places
<1>9. CASE OtherClient
  BY <1>9, RunsMoves, BoundsAssumption DEF OtherClient
<1>10. CASE NodeDies
  <2>1. pc' \in [Goals -> Places]
    BY <1>10 DEF NodeDies, Places
  <2>2. offer' \in {{"pending"}, {"lost"}} \cup SUBSET Transitions
    BY <1>10 DEF NodeDies
  <2>3. crashes' \in 0..MaxCrashes
    BY <1>10, BoundsAssumption DEF NodeDies
  <2>. QED
    BY <1>10, <2>1, <2>2, <2>3 DEF NodeDies
<1>11. CASE NodeRestarts
  BY <1>11 DEF NodeRestarts, States
<1>12. ASSUME NEW g \in Goals, FirstCancelCheck(g) PROVE TypeOK'
  BY <1>12 DEF FirstCancelCheck, Places
<1>13. ASSUME NEW g \in Goals, Query(g) PROVE TypeOK'
  BY <1>13 DEF Query, Places
<1>14. ASSUME NEW g \in Goals, QueryTimeout(g) PROVE TypeOK'
  BY <1>14 DEF QueryTimeout, Places
<1>15. ASSUME NEW g \in Goals, UseAnswer(g) PROVE TypeOK'
  BY <1>15 DEF UseAnswer, Places
<1>16. ASSUME NEW g \in Goals, Change(g) PROVE TypeOK'
  BY <1>16 DEF Change, Places
<1>17. ASSUME NEW g \in Goals, Conclude(g) PROVE TypeOK'
  BY <1>17 DEF Conclude, Places
<1>18. ASSUME NEW g \in Goals, Interrupt(g) PROVE TypeOK'
  BY <1>18 DEF Interrupt, Places
<1>19. CASE Shutdown
  BY <1>19 DEF Shutdown, Places
<1>20. CASE UNCHANGED vars
  BY <1>20 DEF vars
<1>. QED
  BY <1>1, <1>2, <1>3, <1>4, <1>5, <1>6, <1>7, <1>8, <1>9, <1>10,
     <1>11, <1>12, <1>13, <1>14, <1>15, <1>16, <1>17, <1>18, <1>19, <1>20
  DEF Next, Executor, Node, Execute

\* Threads end their goals as they end, and only handle_goal decides on a new one.
LEMMA StepGoal == TypeOK /\ GoalInv /\ [Next]_vars => GoalInv'
<1>. SUFFICES ASSUME TypeOK, GoalInv, [Next]_vars PROVE GoalInv'
  OBVIOUS
<1>. USE NoGoalAssumption DEF TypeOK, GoalInv, nodeVars, boundVars, serverVars, Goto, Ends, Local
<1>1. CASE HandleGoalTimeout
  BY <1>1 DEF HandleGoalTimeout, Places, Running
<1>2. CASE HandleGoalDecides
  BY <1>2 DEF HandleGoalDecides, Places, Running
<1>3. ASSUME NEW g \in Goals, HandleGoalUnreachable(g) PROVE GoalInv'
  BY <1>3 DEF HandleGoalUnreachable, Places, Running
<1>4. ASSUME NEW g \in Goals, HandleGoalAsks(g) PROVE GoalInv'
  BY <1>4, NoGoalAssumption DEF HandleGoalAsks
<1>5. ASSUME NEW g \in Goals, HandleCancel(g) PROVE GoalInv'
  BY <1>5 DEF HandleCancel, Places, Running
<1>6. CASE AnswerHandleGoal
  BY <1>6 DEF AnswerHandleGoal, Places, Running
<1>7. ASSUME NEW g \in Goals, AnswerQuery(g) PROVE GoalInv'
  BY <1>7 DEF AnswerQuery, Places, Running
<1>8. ASSUME NEW g \in Goals, ServeChange(g) PROVE GoalInv'
  BY <1>8 DEF ServeChange, Places, Running
<1>9. CASE OtherClient
  BY <1>9 DEF OtherClient, Places, Running
<1>10. CASE NodeDies
  BY <1>10 DEF NodeDies, Places, Running
<1>11. CASE NodeRestarts
  BY <1>11 DEF NodeRestarts, Places, Running
<1>12. ASSUME NEW g \in Goals, FirstCancelCheck(g) PROVE GoalInv'
  BY <1>12 DEF FirstCancelCheck, Places, Running
<1>13. ASSUME NEW g \in Goals, Query(g) PROVE GoalInv'
  BY <1>13 DEF Query, Places, Running
<1>14. ASSUME NEW g \in Goals, QueryTimeout(g) PROVE GoalInv'
  BY <1>14 DEF QueryTimeout, Places, Running
<1>15. ASSUME NEW g \in Goals, UseAnswer(g) PROVE GoalInv'
  BY <1>15 DEF UseAnswer, Places, Running
<1>16. ASSUME NEW g \in Goals, Change(g) PROVE GoalInv'
  BY <1>16 DEF Change, Places, Running
<1>17. ASSUME NEW g \in Goals, Conclude(g) PROVE GoalInv'
  BY <1>17 DEF Conclude, Places, Running
<1>18. ASSUME NEW g \in Goals, Interrupt(g) PROVE GoalInv'
  BY <1>18 DEF Interrupt, Places, Running
<1>19. CASE Shutdown
  BY <1>19 DEF Shutdown, Places, Running
<1>20. CASE UNCHANGED vars
  BY <1>20 DEF vars
<1>. QED
  BY <1>1, <1>2, <1>3, <1>4, <1>5, <1>6, <1>7, <1>8, <1>9, <1>10,
     <1>11, <1>12, <1>13, <1>14, <1>15, <1>16, <1>17, <1>18, <1>19, <1>20
  DEF Next, Executor, Node, Execute

\* Only ServeChange moves the node for a goal.
LEMMA StepResult == TypeOK /\ GoalInv /\ ResultInv /\ [Next]_vars => ResultInv'
<1>. SUFFICES ASSUME TypeOK, GoalInv, ResultInv, [Next]_vars PROVE ResultInv'
  OBVIOUS
<1>. USE DEF TypeOK, GoalInv, ResultInv, nodeVars, boundVars, serverVars, Goto, Ends, Local
<1>1. CASE HandleGoalTimeout
  BY <1>1 DEF HandleGoalTimeout, Places, Running
<1>2. CASE HandleGoalDecides
  BY <1>2 DEF HandleGoalDecides, Places, Running
<1>3. ASSUME NEW g \in Goals, HandleGoalUnreachable(g) PROVE ResultInv'
  BY <1>3 DEF HandleGoalUnreachable, Places, Running
<1>4. ASSUME NEW g \in Goals, HandleGoalAsks(g) PROVE ResultInv'
  BY <1>4 DEF HandleGoalAsks, Places, Running
<1>5. ASSUME NEW g \in Goals, HandleCancel(g) PROVE ResultInv'
  BY <1>5 DEF HandleCancel, Places, Running
<1>6. CASE AnswerHandleGoal
  BY <1>6 DEF AnswerHandleGoal, Places, Running
<1>7. ASSUME NEW g \in Goals, AnswerQuery(g) PROVE ResultInv'
  BY <1>7 DEF AnswerQuery, Places, Running
<1>8. ASSUME NEW g \in Goals, ServeChange(g) PROVE ResultInv'
  <2>1. found[g] \in Transitions /\ ReachesGoalState(found[g], target[g])
    BY <1>8 DEF ServeChange
  <2>2. CASE reply' = [reply EXCEPT ![g] = "failure"] /\ UNCHANGED applied
    BY <1>8, <2>2 DEF ServeChange, Places, Running
  <2>3. ASSUME NEW t \in Resolved(found[g], node), Runs(t, "success"),
               reply' = [reply EXCEPT ![g] = "success"],
               applied' = [applied EXCEPT ![g] = node']
        PROVE  ResultInv'
    <3>1. node' = Leads[t]
      BY <2>3 DEF Runs
    <3>2. t \in Transitions /\ Label(t) = Label(found[g])
      BY <2>3, ResolvedType
    <3>3. target[g] \in States
      BY TargetsAssumption
    <3>4. node' = target[g]
      BY <2>1, <3>1, <3>2, <3>3, LeadsWhereExpected
    <3>. QED
      BY <1>8, <2>3, <3>4 DEF ServeChange, Places, Running
  <2>. QED
    BY <1>8, <2>2, <2>3 DEF ServeChange
<1>9. CASE OtherClient
  BY <1>9 DEF OtherClient, Places, Running
<1>10. CASE NodeDies
  BY <1>10 DEF NodeDies, Places, Running
<1>11. CASE NodeRestarts
  BY <1>11 DEF NodeRestarts, Places, Running
<1>12. ASSUME NEW g \in Goals, FirstCancelCheck(g) PROVE ResultInv'
  BY <1>12 DEF FirstCancelCheck, Places, Running
<1>13. ASSUME NEW g \in Goals, Query(g) PROVE ResultInv'
  BY <1>13 DEF Query, Places, Running
<1>14. ASSUME NEW g \in Goals, QueryTimeout(g) PROVE ResultInv'
  BY <1>14 DEF QueryTimeout, Places, Running
<1>15. ASSUME NEW g \in Goals, UseAnswer(g) PROVE ResultInv'
  BY <1>15 DEF UseAnswer, Places, Running
<1>16. ASSUME NEW g \in Goals, Change(g) PROVE ResultInv'
  BY <1>16 DEF Change, Places, Running
<1>17. ASSUME NEW g \in Goals, Conclude(g) PROVE ResultInv'
  BY <1>17 DEF Conclude, Places, Running
<1>18. ASSUME NEW g \in Goals, Interrupt(g) PROVE ResultInv'
  BY <1>18 DEF Interrupt, Places, Running
<1>19. CASE Shutdown
  BY <1>19 DEF Shutdown, Places, Running
<1>20. CASE UNCHANGED vars
  BY <1>20 DEF vars
<1>. QED
  BY <1>1, <1>2, <1>3, <1>4, <1>5, <1>6, <1>7, <1>8, <1>9, <1>10,
     <1>11, <1>12, <1>13, <1>14, <1>15, <1>16, <1>17, <1>18, <1>19, <1>20
  DEF Next, Executor, Node, Execute

\* The second of two goals meets a state that offers no way to itself.
LEMMA StepWinner == IInv /\ [Next]_vars => WinnerInv'
<1>. SUFFICES ASSUME IInv, [Next]_vars PROVE WinnerInv'
  OBVIOUS
<1>. USE DEF IInv, TypeOK, WinnerInv, nodeVars, boundVars, serverVars, Goto, Ends, Local
<1>1. CASE HandleGoalTimeout
  BY <1>1 DEF HandleGoalTimeout
<1>2. CASE HandleGoalDecides
  BY <1>2 DEF HandleGoalDecides
<1>3. ASSUME NEW g \in Goals, HandleGoalUnreachable(g) PROVE WinnerInv'
  BY <1>3 DEF HandleGoalUnreachable
<1>4. ASSUME NEW g \in Goals, HandleGoalAsks(g) PROVE WinnerInv'
  BY <1>4 DEF HandleGoalAsks
<1>5. ASSUME NEW g \in Goals, HandleCancel(g) PROVE WinnerInv'
  BY <1>5 DEF HandleCancel
<1>6. CASE AnswerHandleGoal
  BY <1>6 DEF AnswerHandleGoal
<1>7. ASSUME NEW g \in Goals, AnswerQuery(g) PROVE WinnerInv'
  BY <1>7 DEF AnswerQuery
<1>8. ASSUME NEW g \in Goals, ServeChange(g) PROVE WinnerInv'
  <2>. SUFFICES ASSUME others = 0, crashes = 0,
                       \A f, h \in Goals : target[f] = target[h]
                PROVE  \A f \in Goals : applied'[f] # NotApplied =>
                          /\ node' = target[f]
                          /\ \A h \in Goals : applied'[h] # NotApplied => h = f
    BY <1>8 DEF ServeChange
  <2>1. found[g] \in Transitions /\ ReachesGoalState(found[g], target[g])
    BY <1>8 DEF ServeChange, ResultInv
  <2>2. target[g] \in States
    BY TargetsAssumption
  <2>3. CASE UNCHANGED <<node, applied>>
    BY <1>8, <2>3 DEF ServeChange
  <2>4. ASSUME NEW t \in Resolved(found[g], node), NEW outcome \in {"success", "failure"},
               Runs(t, outcome),
               applied' = IF outcome = "success"
                          THEN [applied EXCEPT ![g] = node'] ELSE applied
        PROVE  \A f \in Goals : applied'[f] # NotApplied =>
                  /\ node' = target[f]
                  /\ \A h \in Goals : applied'[h] # NotApplied => h = f
    <3>1. node # target[g]
      BY <2>1, <2>2, <2>4, SecondIsRefused
    <3>2. \A f \in Goals : applied[f] = NotApplied
      BY <3>1
    <3>3. CASE outcome = "failure"
      BY <2>4, <3>2, <3>3
    <3>4. CASE outcome = "success"
      <4>1. node' = Leads[t]
        BY <2>4, <3>4 DEF Runs
      <4>2. node' = target[g]
        BY <2>1, <2>2, <2>4, <4>1, ResolvedType, LeadsWhereExpected
      <4>. QED
        BY <2>4, <3>2, <3>4, <4>2
    <3>. QED
      BY <3>3, <3>4
  <2>. QED
    BY <1>8, <2>3, <2>4 DEF ServeChange
<1>9. CASE OtherClient
  BY <1>9, BoundsAssumption DEF OtherClient
<1>10. CASE NodeDies
  BY <1>10, BoundsAssumption DEF NodeDies
<1>11. CASE NodeRestarts
  BY <1>11 DEF NodeRestarts
<1>12. ASSUME NEW g \in Goals, FirstCancelCheck(g) PROVE WinnerInv'
  BY <1>12 DEF FirstCancelCheck
<1>13. ASSUME NEW g \in Goals, Query(g) PROVE WinnerInv'
  BY <1>13 DEF Query
<1>14. ASSUME NEW g \in Goals, QueryTimeout(g) PROVE WinnerInv'
  BY <1>14 DEF QueryTimeout
<1>15. ASSUME NEW g \in Goals, UseAnswer(g) PROVE WinnerInv'
  BY <1>15 DEF UseAnswer
<1>16. ASSUME NEW g \in Goals, Change(g) PROVE WinnerInv'
  BY <1>16 DEF Change
<1>17. ASSUME NEW g \in Goals, Conclude(g) PROVE WinnerInv'
  BY <1>17 DEF Conclude
<1>18. ASSUME NEW g \in Goals, Interrupt(g) PROVE WinnerInv'
  BY <1>18 DEF Interrupt
<1>19. CASE Shutdown
  BY <1>19 DEF Shutdown
<1>20. CASE UNCHANGED vars
  BY <1>20 DEF vars
<1>. QED
  BY <1>1, <1>2, <1>3, <1>4, <1>5, <1>6, <1>7, <1>8, <1>9, <1>10,
     <1>11, <1>12, <1>13, <1>14, <1>15, <1>16, <1>17, <1>18, <1>19, <1>20
  DEF Next, Executor, Node, Execute

\* The strengthening that the safety properties follow from.
THEOREM Invariant == Spec => []IInv
<1>1. IInv /\ [Next]_vars => IInv'
  BY StepType, StepGoal, StepResult, StepWinner DEF IInv
<1>. QED
  BY InitInv, <1>1, PTL DEF Spec

-----------------------------------------------------------------------------
(* Safety.                                                                 *)

\* The variables of the server and of the node keep their types.
THEOREM TypeCorrect == Spec => []TypeOK
  BY Invariant, PTL DEF IInv

\* A goal that "succeeded" has put the node into the state asked for, one that
\* was aborted or canceled has not moved it, however old the list of
\* transitions was that its request was chosen from; but for a goal whose wait
\* for change_state a shutdown of the server interrupted.
THEOREM ResultsAreTruthful == Spec => []ResultIsTruthful
<1>1. IInv => ResultIsTruthful
  BY DEF IInv, TypeOK, GoalInv, ResultInv, ResultIsTruthful, Places, Running
<1>. QED
  BY <1>1, Invariant, PTL

\* Of any number of goals that race for one state at most one succeeds, as
\* long as no other client and no death of the process moves the node.
THEOREM AtMostOneWinner == Spec => []OneWinner
<1>1. IInv => OneWinner
  <2>. SUFFICES ASSUME IInv, others = 0, crashes = 0,
                       \A g, h \in Goals : target[g] = target[h]
                PROVE  Cardinality({g \in Goals : status[g] = "succeeded"}) <= 1
    BY DEF OneWinner
  <2>. DEFINE W == {g \in Goals : status[g] = "succeeded"}
  <2>1. \A g \in W : applied[g] # NotApplied
    BY TargetsAssumption DEF IInv, TypeOK, GoalInv, ResultInv, Places, Running, States, NotApplied
  <2>2. \A g, h \in W : g = h
    BY <2>1 DEF IInv, WinnerInv
  <2>3. CASE W = {}
    BY <2>3, FS_EmptySet
  <2>4. CASE W # {}
    <3>1. PICK g \in W : W = {g}
      BY <2>2, <2>4
    <3>2. Cardinality({g}) = 1
      BY FS_Singleton
    <3>. QED
      BY <3>1, <3>2
  <2>. QED
    BY <2>3, <2>4
<1>. QED
  BY <1>1, Invariant, PTL

Early == {"start", "wait_query", "querying", "query_lost", "answered"}

\* What a cancel that comes in time establishes, and nothing undoes.
Spared(g) ==
    /\ applied[g] = NotApplied
    /\ (status[g] = "canceling" /\ pc[g] \in Early) \/ pc[g] = "done"

\* Once spared, a goal is spared for ever.
LEMMA StaysSpared ==
    ASSUME NEW g \in Goals, IInv, Spared(g), [Next]_vars
    PROVE  Spared(g)'
<1>. USE DEF Spared, Early, IInv, TypeOK, nodeVars, boundVars, serverVars, Goto, Ends, Local
<1>1. CASE HandleGoalTimeout
  BY <1>1 DEF HandleGoalTimeout, GoalInv, Running, Places
<1>2. CASE HandleGoalDecides
  BY <1>2 DEF HandleGoalDecides, GoalInv, Running, Places
<1>3. ASSUME NEW h \in Goals, HandleGoalUnreachable(h) PROVE Spared(g)'
  BY <1>3 DEF HandleGoalUnreachable
<1>4. ASSUME NEW h \in Goals, HandleGoalAsks(h) PROVE Spared(g)'
  BY <1>4 DEF HandleGoalAsks
<1>5. ASSUME NEW h \in Goals, HandleCancel(h) PROVE Spared(g)'
  BY <1>5 DEF HandleCancel
<1>6. CASE AnswerHandleGoal
  BY <1>6 DEF AnswerHandleGoal
<1>7. ASSUME NEW h \in Goals, AnswerQuery(h) PROVE Spared(g)'
  BY <1>7 DEF AnswerQuery
<1>8. ASSUME NEW h \in Goals, ServeChange(h) PROVE Spared(g)'
  BY <1>8 DEF ServeChange
<1>9. CASE OtherClient
  BY <1>9 DEF OtherClient
<1>10. CASE NodeDies
  BY <1>10 DEF NodeDies
<1>11. CASE NodeRestarts
  BY <1>11 DEF NodeRestarts
<1>12. ASSUME NEW h \in Goals, FirstCancelCheck(h) PROVE Spared(g)'
  BY <1>12 DEF FirstCancelCheck
<1>13. ASSUME NEW h \in Goals, Query(h) PROVE Spared(g)'
  BY <1>13 DEF Query
<1>14. ASSUME NEW h \in Goals, QueryTimeout(h) PROVE Spared(g)'
  BY <1>14 DEF QueryTimeout
<1>15. ASSUME NEW h \in Goals, UseAnswer(h) PROVE Spared(g)'
  BY <1>15 DEF UseAnswer
<1>16. ASSUME NEW h \in Goals, Change(h) PROVE Spared(g)'
  BY <1>16 DEF Change
<1>17. ASSUME NEW h \in Goals, Conclude(h) PROVE Spared(g)'
  BY <1>17 DEF Conclude
<1>18. ASSUME NEW h \in Goals, Interrupt(h) PROVE Spared(g)'
  BY <1>18 DEF Interrupt
<1>19. CASE Shutdown
  BY <1>19 DEF Shutdown
<1>20. CASE UNCHANGED vars
  BY <1>20 DEF vars
<1>. QED
  BY <1>1, <1>2, <1>3, <1>4, <1>5, <1>6, <1>7, <1>8, <1>9, <1>10,
     <1>11, <1>12, <1>13, <1>14, <1>15, <1>16, <1>17, <1>18, <1>19, <1>20
  DEF Next, Executor, Node, Execute

\* A cancel that the executor has taken before the thread of its goal looks at
\* the offered transitions keeps that goal from ever moving the node.
THEOREM EarlyCancelHolds == Spec => CancelInTime
<1>. SUFFICES ASSUME NEW g \in Goals
              PROVE  Spec => [](/\ status[g] = "canceling"
                                /\ pc[g] \in {"start", "wait_query", "querying",
                                              "query_lost", "answered"}
                                => [](applied[g] = NotApplied))
  BY DEF CancelInTime
<1>1. IInv /\ status[g] = "canceling"
      /\ pc[g] \in {"start", "wait_query", "querying", "query_lost", "answered"} => Spared(g)
  BY DEF IInv, ResultInv, Spared, Early
<1>2. IInv /\ Spared(g) /\ [Next]_vars => Spared(g)'
  BY StaysSpared
<1>3. Spared(g) => applied[g] = NotApplied
  BY DEF Spared
<1>. QED
  BY <1>1, <1>2, <1>3, Invariant, PTL DEF Spec

-----------------------------------------------------------------------------
(* What goals and node promise.                                            *)

\* A step moves no goal, or one as rcl_action does.
LEMMA GoalStep ==
    ASSUME IInv, [Next]_vars
    PROVE  [ActionServer!Next]_status
<1>. USE DEF IInv, TypeOK, Goto, Ends, Local
<1>1. ASSUME NEW g \in Goals, NEW how \in {"rejected", "executing"},
             status[g] = "unknown", status' = [status EXCEPT ![g] = how]
      PROVE  ActionServer!Next
  BY <1>1 DEF ActionServer!Next, ActionServer!Reject, ActionServer!Accept, ActionServer!Moves
<1>2. ASSUME NEW g \in Goals, status[g] \in {"executing", "canceling"},
             NEW how \in {"succeeded", "aborted"}, status' = [status EXCEPT ![g] = how]
      PROVE  ActionServer!Next
  BY <1>2 DEF ActionServer!Next, ActionServer!Finish, ActionServer!Succeed,
     ActionServer!Abort, ActionServer!Moves
<1>3. ASSUME NEW g \in Goals, status[g] = "canceling",
             status' = [status EXCEPT ![g] = "canceled"]
      PROVE  ActionServer!Next
  BY <1>3 DEF ActionServer!Next, ActionServer!Finish, ActionServer!Canceled, ActionServer!Moves
<1>4. ASSUME NEW g \in Goals, HandleCancel(g) PROVE ActionServer!Next
  BY <1>4 DEF HandleCancel, ActionServer!Next, ActionServer!Cancel, ActionServer!Moves
<1>5. ASSUME NEW g \in Goals, HandleGoalUnreachable(g) PROVE ActionServer!Next
  BY <1>1, <1>5 DEF HandleGoalUnreachable
<1>6. CASE HandleGoalTimeout \/ HandleGoalDecides
  BY <1>1, <1>6 DEF HandleGoalTimeout, HandleGoalDecides, GoalInv
<1>7. ASSUME NEW g \in Goals, Execute(g) PROVE [ActionServer!Next]_status
  <2>1. pc[g] \in Running => status[g] \in {"executing", "canceling"}
    BY DEF GoalInv
  <2>. QED
    BY <1>2, <1>3, <1>7, <2>1 DEF Execute, FirstCancelCheck, Query, QueryTimeout, UseAnswer,
       Change, Conclude, Interrupt, Running, Places
<1>8. CASE Node
  BY <1>8 DEF Node, AnswerHandleGoal, AnswerQuery, ServeChange, OtherClient, NodeDies,
     NodeRestarts, serverVars
<1>9. ASSUME NEW g \in Goals, HandleGoalAsks(g) PROVE UNCHANGED status
  BY <1>9 DEF HandleGoalAsks
<1>10. CASE Shutdown \/ UNCHANGED vars
  BY <1>10 DEF Shutdown, vars, serverVars
<1>. QED
  BY <1>4, <1>5, <1>6, <1>7, <1>8, <1>9, <1>10 DEF Next, Executor

\* Handlers and threads only take the transitions of a goal that rcl_action
\* allows, so none of them throws.
THEOREM GoalsFollowProtocol == Spec => ImplementsActionGoals
<1>1. Init => ActionServer!Init
  BY DEF Init, ActionServer!Init
<1>. QED
  BY <1>1, GoalStep, Invariant, PTL DEF Spec, ImplementsActionGoals, ActionServer!Spec

\* However the requests of goals, of other clients and to an earlier process
\* cross, the node only makes the transitions of its state machine.
THEOREM NodeStaysManaged == Spec => NodeIsManaged
<1>1. Init => Managed!Init
  BY DEF Init, Managed!Init, Managed!States
<1>2. IInv /\ [Next]_vars => [Managed!Next \/ Managed!Relaunch]_node
  <2>. SUFFICES ASSUME IInv, [Next]_vars
                PROVE  [Managed!Next \/ Managed!Relaunch]_node
    OBVIOUS
  <2>. USE DEF IInv, TypeOK, Goto, Ends, Local, nodeVars
  <2>1. ASSUME NEW g \in Goals, ServeChange(g) PROVE Managed!Next \/ UNCHANGED node
    BY <2>1, ResolvedType, RunsMoves DEF ServeChange
  <2>2. CASE OtherClient
    BY <2>2, RunsMoves DEF OtherClient
  <2>3. CASE NodeRestarts
    BY <2>3 DEF NodeRestarts, Managed!Relaunch, Managed!Moves, Managed!States, States
  <2>4. CASE \/ Executor \/ Shutdown \/ AnswerHandleGoal \/ NodeDies
             \/ \E g \in Goals : Execute(g) \/ AnswerQuery(g)
    BY <2>4 DEF Executor, HandleGoalTimeout, HandleGoalDecides, HandleGoalUnreachable,
       HandleGoalAsks, HandleCancel, Execute, FirstCancelCheck, Query, QueryTimeout,
       UseAnswer, Change, Conclude, Interrupt, Shutdown, AnswerQuery, AnswerHandleGoal,
       NodeDies
  <2>5. CASE UNCHANGED vars
    BY <2>5 DEF vars
  <2>. QED
    BY <2>1, <2>2, <2>3, <2>4, <2>5 DEF Next, Node
<1>. QED
  BY <1>1, <1>2, Invariant, PTL DEF Spec, NodeIsManaged, Managed!RelaunchedSpec
=============================================================================
