------------------------- MODULE RosActionNodeProofs -------------------------
(***************************************************************************)
(* Proofs about RosActionNode, for every number of nodes, runs and time    *)
(* limits.  The first part is type correctness, for which the thread that  *)
(* ticks the tree must be known to be at a node that is running.  The      *)
(* second follows a goal between client and server (Protocol), the third   *)
(* what a node knows of its goals (NodeGoals): together they give that no  *)
(* goal is left behind and that a verdict is of the present run.  The last *)
(* part adds that the tree runs one action at a time, under which a goal   *)
(* that a tick has taken is halted safely.                                 *)
(***************************************************************************)
EXTENDS RosActionNode, TLAPS

-----------------------------------------------------------------------------
(* Goals and messages.                                                     *)

\* The goal of a node that has sent one.
LEMMA CurrentIsGoal ==
    ASSUME NEW n \in Nodes, run[n] \in 1..MaxRuns[n]
    PROVE  Current(n) \in Goals
  BY DEF Current, Goals

\* The node of a goal.
LEMMA GoalOfNode ==
    ASSUME NEW g \in Goals
    PROVE  g[1] \in Nodes
  BY DEF Goals

\* A message is about a goal.
LEMMA MessageType ==
    ASSUME NEW g, NEW kind \in ToServer \cup ToClient
    PROVE  Msg(kind, g) \in Message <=> g \in Goals
  BY DEF Msg, Message

\* The thread is with a node that is running, unless its client has thrown.
ThreadInv ==
    /\ \A n \in Nodes : bt[n] = "running" => run[n] >= 1
    /\ thread # Idle /\ thread.at \notin DeadPlaces => bt[thread.node] = "running"

IInv == TypeOK /\ ThreadInv

Places == TickPlaces \cup HaltPlaces \cup DeadPlaces

\* A thread that is not idle is at a place of a node.
LEMMA ThreadPlaces ==
    ASSUME TypeOK, NEW n, NEW place, At(n, place), place # "idle"
    PROVE  n \in Nodes /\ place \in Places /\ thread # Idle
                /\ thread.node = n /\ thread.at = place
  BY DEF TypeOK, At, Idle, Places, TickPlaces, HaltPlaces, DeadPlaces

\* Handling an event keeps the types and lets the node run on.
LEMMA EventStep ==
    ASSUME IInv, NEW n \in Nodes, NEW place \in Places, bt[n] = "running",
           UNCHANGED expired,
           LET next == [node |-> n, at |-> place] IN
             HandleNothing(next) \/ \E m \in wire : HandleEvent(m, next)
    PROVE  IInv'
<1>. DEFINE next == [node |-> n, at |-> place]
<1>1. next \in [node : Nodes, at : Places] /\ next # Idle
  BY DEF Idle, Places, TickPlaces, HaltPlaces, DeadPlaces
<1>2. CASE HandleNothing(next)
  BY <1>1, <1>2 DEF IInv, TypeOK, ThreadInv, HandleNothing, Places
<1>3. ASSUME NEW m \in wire, HandleEvent(m, next) PROVE IInv'
  <2>1. m \in Message /\ m.goal \in Goals /\ m.goal[1] \in Nodes
    BY GoalOfNode DEF IInv, TypeOK, Message
  <2>2. Msg("get_result", m.goal) \in Message
    BY <2>1, MessageType DEF ToServer
  <2>3. wire' \subseteq Message /\ handled' \subseteq Message
    BY <1>3, <2>1, <2>2 DEF HandleEvent, IInv, TypeOK
  <2>4. result' \in [Nodes -> Goals \cup {NoGoal}]
    BY <1>3, <2>1 DEF HandleEvent, IInv, TypeOK
  <2>5. \/ thread' = next
        \/ thread' = [node |-> m.goal[1], at |-> "null_handle"]
    BY <1>3 DEF HandleEvent
  <2>6. thread' \in [node : Nodes, at : Places]
    BY <1>1, <2>1, <2>5 DEF Places, DeadPlaces
  <2>7. TypeOK'
    BY <1>3, <2>3, <2>4, <2>6 DEF HandleEvent, IInv, TypeOK, Places
  <2>8. ThreadInv'
    BY <1>3, <2>5 DEF HandleEvent, IInv, ThreadInv, DeadPlaces
  <2>. QED
    BY <2>7, <2>8 DEF IInv
<1>. QED
  BY <1>2, <1>3

\* Nothing has been sent at the start.
LEMMA InitInv == Init => IInv
  BY MaxRunsAssumption DEF Init, IInv, TypeOK, ThreadInv, Idle, DeadPlaces

\* A node that is ticked first, or runs on.
LEMMA TickStep ==
    ASSUME IInv, NEW n \in Nodes, UNCHANGED expired,
           TickIdle(n) \/ TickRunning(n) \/ Tick(n) \/ ResetStatus(n)
    PROVE  IInv'
<1>. USE MaxRunsAssumption
<1>1. CASE TickIdle(n)
  <2>1. run[n] + 1 \in 1..MaxRuns[n]
    BY <1>1 DEF TickIdle, IInv, TypeOK
  <2>2. <<n, run[n] + 1>> \in Goals
    BY <2>1 DEF Goals
  <2>3. Msg("goal", <<n, run[n] + 1>>) \in Message
    BY <2>2, MessageType DEF ToServer
  <2>4. CASE bt' = [bt EXCEPT ![n] = "failure"] /\ UNCHANGED <<run, wire>>
    BY <1>1, <2>4 DEF TickIdle, IInv, TypeOK, ThreadInv, Idle
  <2>5. CASE /\ bt' = [bt EXCEPT ![n] = "running"]
             /\ run' = [run EXCEPT ![n] = @ + 1]
             /\ wire' = wire \cup {Msg("goal", <<n, run'[n]>>)}
    <3>1. run'[n] = run[n] + 1 /\ run' \in [Nodes -> Nat]
          /\ \A m \in Nodes : run'[m] <= MaxRuns[m]
      BY <2>1, <2>5 DEF IInv, TypeOK
    <3>2. wire' \subseteq Message
      BY <2>3, <2>5, <3>1 DEF IInv, TypeOK
    <3>3. TypeOK'
      BY <1>1, <2>5, <3>1, <3>2 DEF TickIdle, IInv, TypeOK
    <3>4. ThreadInv'
      BY <1>1, <2>1, <2>5, <3>1 DEF TickIdle, IInv, TypeOK, ThreadInv
    <3>. QED
      BY <3>3, <3>4 DEF IInv
  <2>. QED
    BY <1>1, <2>4, <2>5 DEF TickIdle
<1>2. CASE TickRunning(n)
  <2>1. bt[n] = "running"
    BY <1>2 DEF TickRunning
  <2>. DEFINE place == IF received[n] THEN "evaluate" ELSE "wait"
  <2>2. place \in Places
    BY DEF Places, TickPlaces
  <2>3. LET next == [node |-> n, at |-> place] IN
          HandleNothing(next) \/ \E m \in wire : HandleEvent(m, next)
    BY <1>2 DEF TickRunning
  <2>. QED
    BY <2>1, <2>2, <2>3, EventStep
<1>3. CASE SpinForGoal(n)
  <2>1. bt[n] = "running" /\ [thread EXCEPT !.at = "waited"] = [node |-> n, at |-> "waited"]
    BY <1>3, ThreadPlaces DEF SpinForGoal, At, IInv, ThreadInv, DeadPlaces
  <2>2. "waited" \in Places
    BY DEF Places, TickPlaces
  <2>3. LET next == [node |-> n, at |-> "waited"] IN
          HandleNothing(next) \/ \E m \in wire : HandleEvent(m, next)
    BY <1>3, <2>1 DEF SpinForGoal
  <2>. QED
    BY <2>1, <2>2, <2>3, EventStep
<1>4. ASSUME NEW v \in {"idle", "running", "success", "failure"}, Returns(n, v),
             UNCHANGED received, handle' \in [Nodes -> Goals \cup {NoGoal}], run[n] >= 1
      PROVE  IInv'
  BY <1>4 DEF Returns, IInv, TypeOK, ThreadInv
<1>5. \A place \in Places : At(n, place) => run[n] >= 1 \/ place \in DeadPlaces
  BY ThreadPlaces DEF IInv, ThreadInv, Places, TickPlaces, HaltPlaces, DeadPlaces
<1>6. CASE NoGoalYet(n)
  BY <1>4, <1>5, <1>6 DEF NoGoalYet, IInv, TypeOK, Places, TickPlaces, DeadPlaces
<1>7. CASE Evaluate(n)
  BY <1>4, <1>5, <1>7 DEF Evaluate, IInv, TypeOK, Places, TickPlaces, DeadPlaces
<1>8. CASE TakeGoal(n)
  <2>1. thread \in [node : {n}, at : {"wait", "waited"}] /\ bt[n] = "running"
    BY <1>8, ThreadPlaces DEF TakeGoal, At, IInv, ThreadInv, DeadPlaces
  <2>2. received' \in [Nodes -> BOOLEAN]
    BY <1>8 DEF TakeGoal, IInv, TypeOK
  <2>3. CASE Msg("accepted", Current(n)) \in handled
    <3>1. Msg("accepted", Current(n)) \in Message
      BY <2>3 DEF IInv, TypeOK
    <3>2. Current(n) \in Goals
      BY <3>1, MessageType DEF ToClient
    <3>3. handle' \in [Nodes -> Goals \cup {NoGoal}]
      BY <1>8, <2>3, <3>2 DEF TakeGoal, IInv, TypeOK
    <3>4. thread' = [node |-> n, at |-> "evaluate"]
      BY <1>8, <2>1, <2>3 DEF TakeGoal
    <3>. QED
      BY <1>8, <2>1, <2>2, <2>3, <3>3, <3>4 DEF TakeGoal, IInv, TypeOK, ThreadInv, TickPlaces
  <2>4. CASE Msg("accepted", Current(n)) \notin handled
    BY <1>8, <2>2, <2>4 DEF TakeGoal, Returns, IInv, TypeOK, ThreadInv
  <2>. QED
    BY <2>3, <2>4
<1>9. CASE ResetStatus(n)
  BY <1>9 DEF ResetStatus, IInv, TypeOK, ThreadInv, Idle
<1>. QED
  BY <1>1, <1>2, <1>3, <1>6, <1>7, <1>8, <1>9 DEF Tick

\* A node that is halted.
LEMMA HaltStep ==
    ASSUME IInv, NEW n \in Nodes, UNCHANGED expired, Halt(n) \/ HaltSteps(n)
    PROVE  IInv'
<1>1. CASE Halt(n)
  BY <1>1 DEF Halt, IInv, TypeOK, ThreadInv, HaltPlaces
<1>2. ASSUME NEW place \in HaltPlaces, At(n, place)
      PROVE  /\ thread = [node |-> n, at |-> place] /\ bt[n] = "running"
             /\ place \in Places \ DeadPlaces
  BY <1>2, ThreadPlaces DEF At, IInv, ThreadInv, Places, HaltPlaces, DeadPlaces
<1>3. CASE HaltWaits(n)
  <2>1. PICK place \in HaltPlaces : At(n, place)
    BY <1>3 DEF HaltWaits, Awaits, HaltPlaces
  <2>2. thread = [node |-> n, at |-> place] /\ bt[n] = "running" /\ place \in Places
    BY <1>2, <2>1
  <2>3. LET next == [node |-> n, at |-> place] IN
          HandleNothing(next) \/ \E m \in wire : HandleEvent(m, next)
    BY <1>3, <2>2 DEF HaltWaits
  <2>. QED
    BY <2>2, <2>3, EventStep
<1>4. CASE HaltTakesGoal(n)
  <2>1. thread = [node |-> n, at |-> "halt_response"] /\ bt[n] = "running"
    BY <1>2, <1>4 DEF HaltTakesGoal, HaltPlaces
  <2>2. Msg("accepted", Current(n)) \in handled => Current(n) \in Goals
    BY MessageType DEF IInv, TypeOK, ToClient
  <2>3. handle' \in [Nodes -> Goals \cup {NoGoal}]
    BY <1>4, <2>2 DEF HaltTakesGoal, IInv, TypeOK
  <2>4. thread' = [node |-> n, at |-> "cancel"]
    BY <1>4, <2>1 DEF HaltTakesGoal
  <2>. QED
    BY <1>4, <2>1, <2>3, <2>4 DEF HaltTakesGoal, IInv, TypeOK, ThreadInv, HaltPlaces
<1>5. CASE SendCancel(n)
  <2>1. thread = [node |-> n, at |-> "cancel"] /\ bt[n] = "running"
    BY <1>2, <1>5 DEF SendCancel, HaltPlaces
  <2>2. thread' \in [node : {n}, at : {"null_handle", "halt_cancel", "unknown_handle"}]
    BY <1>5, <2>1 DEF SendCancel
  <2>3. thread'.at = "halt_cancel" => handle[n] \in Goals
    BY <1>5, <2>1 DEF SendCancel, IInv, TypeOK
  <2>4. thread'.at = "halt_cancel" => Msg("cancel", handle[n]) \in Message
    BY <2>3, MessageType DEF ToServer
  <2>5. wire' \subseteq Message
    BY <1>5, <2>4 DEF SendCancel, IInv, TypeOK
  <2>. QED
    BY <1>5, <2>1, <2>2, <2>5 DEF SendCancel, IInv, TypeOK, ThreadInv, HaltPlaces, DeadPlaces
<1>6. CASE HaltGoesOn(n)
  <2>1. thread = [node |-> n, at |-> "halt_cancel"] /\ bt[n] = "running"
    BY <1>2, <1>6 DEF HaltGoesOn, HaltPlaces
  <2>2. thread' = [node |-> n, at |-> "halt_result"]
    BY <1>6, <2>1 DEF HaltGoesOn, HandleNothing
  <2>. QED
    BY <1>6, <2>1, <2>2 DEF HaltGoesOn, HandleNothing, IInv, TypeOK, ThreadInv, HaltPlaces
<1>7. CASE Halted(n)
  <2>1. bt[n] = "running"
    BY <1>2, <1>7 DEF Halted, HaltPlaces
  <2>. QED
    BY <1>7, <2>1 DEF Halted, Returns, IInv, TypeOK, ThreadInv
<1>. QED
  BY <1>1, <1>3, <1>4, <1>5, <1>6, <1>7 DEF HaltSteps

\* The server takes what it is sent and answers.
LEMMA ServerStep ==
    ASSUME IInv, NEW g \in Goals, UNCHANGED expired, ServerSteps(g)
    PROVE  IInv'
<1>. DEFINE Statuses == {"unknown", "executing", "canceling", "rejected",
                         "succeeded", "aborted", "canceled"}
<1>1. ASSUME NEW from, NEW to \in Statuses, NEW takes, NEW gives,
             Server(g, from, to, takes, gives), gives \subseteq Message
      PROVE  IInv'
  BY <1>1 DEF Server, IInv, TypeOK, ThreadInv
<1>2. \A kind \in ToServer \cup ToClient : Msg(kind, g) \in Message
  BY MessageType
<1>3. /\ {Msg("accepted", g)} \subseteq Message /\ {Msg("rejected", g)} \subseteq Message
      /\ {Msg("result", g)} \subseteq Message /\ {Msg("cancel_answer", g)} \subseteq Message
  BY <1>2 DEF ToClient
<1>4. status[g] \in Statuses
  BY DEF IInv, TypeOK
<1>5. CASE ServerDecides(g)
  BY <1>1, <1>3, <1>5 DEF ServerDecides
<1>6. CASE ServerEnds(g)
  <2>. DEFINE asked == Msg("get_result", g) \in wire
              takes == IF asked THEN {Msg("get_result", g)} ELSE {}
              gives == IF asked THEN {Msg("result", g)} ELSE {}
  <2>1. gives \subseteq Message
    BY <1>3
  <2>2. \/ \E how \in {"succeeded", "aborted"} :
              Server(g, {"executing", "canceling"}, how, takes, gives)
        \/ Server(g, {"canceling"}, "canceled", takes, gives)
    BY <1>6 DEF ServerEnds
  <2>. HIDE DEF takes, gives
  <2>. QED
    BY <1>1, <2>1, <2>2
<1>7. CASE ServerSendsResult(g)
  BY <1>1, <1>3, <1>4, <1>7 DEF ServerSendsResult
<1>8. CASE ServerCancels(g)
  BY <1>1, <1>3, <1>4, <1>8 DEF ServerCancels
<1>. QED
  BY <1>5, <1>6, <1>7, <1>8 DEF ServerSteps

\* A time limit is one of the current goal of a running node.
LEMMA LimitStep ==
    ASSUME IInv, NEW n \in Nodes, TimeLimit(n)
    PROVE  IInv'
<1>. USE MaxRunsAssumption
<1>1. PICK place \in {"waited", "halt_response", "halt_cancel", "halt_result"} : At(n, place)
  BY DEF TimeLimit
<1>2. thread = [node |-> n, at |-> place] /\ bt[n] = "running"
  BY <1>1, ThreadPlaces DEF At, IInv, ThreadInv, DeadPlaces
<1>3. run[n] \in 1..MaxRuns[n]
  BY <1>2 DEF IInv, TypeOK, ThreadInv
<1>4. expired' \subseteq Goals
  BY <1>3, CurrentIsGoal DEF TimeLimit, IInv, TypeOK
<1>5. CASE \E v \in {"idle", "failure"} : Returns(n, v)
  BY <1>4, <1>5 DEF TimeLimit, Returns, IInv, TypeOK, ThreadInv
<1>6. CASE /\ thread' = [thread EXCEPT !.at = "halt_result"]
           /\ UNCHANGED <<bt, run, result, status, wire, handled>>
  <2>1. thread' = [node |-> n, at |-> "halt_result"]
    BY <1>2, <1>6
  <2>. QED
    BY <1>2, <1>4, <1>6, <2>1 DEF TimeLimit, IInv, TypeOK, ThreadInv, HaltPlaces
<1>. QED
  BY <1>5, <1>6 DEF TimeLimit

\* The strengthening of type correctness.
THEOREM Invariant == Spec => []IInv
<1>1. IInv /\ [Next]_vars => IInv'
  <2>1. IInv /\ UNCHANGED vars => IInv'
    BY DEF IInv, TypeOK, ThreadInv, vars
  <2>. QED
    BY <2>1, TickStep, HaltStep, ServerStep, LimitStep DEF Next, NodeSteps
<1>. QED
  BY InitInv, <1>1, PTL DEF Spec

\* Nodes, client and server keep the types of their variables.
THEOREM TypeCorrect == Spec => []TypeOK
  BY Invariant, PTL DEF IInv

\* Only a node that is running is ticked on or halted, unless its client has
\* thrown: no result or cancel makes it idle while the thread waits for it.
THEOREM ThreadServesRunningNode == Spec => []ThreadInv
  BY Invariant, PTL DEF IInv

-----------------------------------------------------------------------------
(* A goal and its messages.                                                *)

Kinds == ToServer \cup ToClient
Answered == {"succeeded", "aborted", "canceled"}

\* Messages are equal if they are of the same kind and about the same goal.
LEMMA SameMessage ==
    ASSUME NEW kind, NEW g, NEW kind2, NEW h
    PROVE  Msg(kind, g) = Msg(kind2, h) <=> kind = kind2 /\ g = h
  BY DEF Msg

\* What is on its way, or has been handled by the client.
Sent(kind, g) == Msg(kind, g) \in wire \/ Msg(kind, g) \in handled

\* Nothing is said of a goal before its run.  The server answers a goal once;
\* its result is asked for after the client has handled its acceptance, is
\* sent once, and when the goal has ended.
Protocol(g) ==
    /\ run[g[1]] < g[2] => status[g] = "unknown" /\ \A kind \in Kinds : ~Sent(kind, g)
    /\ Msg("goal", g) \in wire => status[g] = "unknown"
    /\ Sent("accepted", g) => status[g] \notin {"unknown", "rejected"}
    /\ Sent("rejected", g) => status[g] = "rejected"
    /\ Msg("accepted", g) \in wire => Msg("accepted", g) \notin handled
    /\ Msg("get_result", g) \in wire \/ Sent("result", g) => Msg("accepted", g) \in handled
    /\ Msg("get_result", g) \in wire => ~Sent("result", g)
    /\ Msg("result", g) \in wire => Msg("result", g) \notin handled
    /\ Sent("result", g) => status[g] \in Answered

ProtocolInv == \A g \in Goals : Protocol(g)

\* The server's steps.
LEMMA ServerProtocol ==
    ASSUME IInv, ProtocolInv, NEW g \in Goals, ServerSteps(g)
    PROVE  ProtocolInv'
<1>. USE DEF Kinds, ToServer, ToClient
<1>1. g[1] \in Nodes /\ Protocol(g)
  BY GoalOfNode DEF ProtocolInv
<1>2. ASSUME NEW from, NEW to, NEW takes, NEW gives, Server(g, from, to, takes, gives),
             \A m \in takes \cup gives : \E kind \in Kinds : m = Msg(kind, g),
             Protocol(g)'
      PROVE  ProtocolInv'
  <2>1. ASSUME NEW h \in Goals, h # g PROVE Protocol(h)'
    <3>1. status'[h] = status[h] /\ run' = run
      BY <1>2, <2>1 DEF Server, IInv, TypeOK
    <3>2. \A kind \in Kinds : /\ Msg(kind, h) \in wire' <=> Msg(kind, h) \in wire
                              /\ Msg(kind, h) \in handled' <=> Msg(kind, h) \in handled
      BY <1>2, <2>1, SameMessage DEF Server
    <3>. QED
      BY <3>1, <3>2 DEF ProtocolInv, Protocol, Sent
  <2>. QED
    BY <1>2, <2>1 DEF ProtocolInv
<1>. USE SameMessage
<1>3. CASE ServerDecides(g)
  <2>1. CASE Server(g, {"unknown"}, "executing", {Msg("goal", g)}, {Msg("accepted", g)})
    <3>1. Protocol(g)'
      BY <1>1, <2>1 DEF Server, IInv, TypeOK, Protocol, Sent, Answered
    <3>. QED
      BY <1>2, <2>1, <3>1
  <2>2. CASE Server(g, {"unknown"}, "rejected", {Msg("goal", g)}, {Msg("rejected", g)})
    <3>1. Protocol(g)'
      BY <1>1, <2>2 DEF Server, IInv, TypeOK, Protocol, Sent, Answered
    <3>. QED
      BY <1>2, <2>2, <3>1
  <2>. QED
    BY <1>3, <2>1, <2>2 DEF ServerDecides
<1>4. CASE ServerEnds(g)
  <2>. DEFINE asked == Msg("get_result", g) \in wire
              takes == IF asked THEN {Msg("get_result", g)} ELSE {}
              gives == IF asked THEN {Msg("result", g)} ELSE {}
  <2>1. PICK from \in {{"executing", "canceling"}, {"canceling"}}, how \in Answered :
               Server(g, from, how, takes, gives)
    BY <1>4 DEF ServerEnds, Answered
  <2>2. status[g] \in {"executing", "canceling"}
    BY <2>1 DEF Server
  <2>3. Protocol(g)'
    BY <1>1, <2>1, <2>2 DEF Server, IInv, TypeOK, Protocol, Sent, Answered
  <2>4. \A m \in takes \cup gives : \E kind \in Kinds : m = Msg(kind, g)
    OBVIOUS
  <2>. HIDE DEF takes, gives
  <2>. QED
    BY <1>2, <2>1, <2>3, <2>4
<1>5. CASE ServerSendsResult(g)
  <2>1. Server(g, Terminal, status[g], {Msg("get_result", g)}, {Msg("result", g)})
    BY <1>5 DEF ServerSendsResult
  <2>2. status'[g] = status[g]
    BY <2>1 DEF Server, IInv, TypeOK
  <2>3. Protocol(g)'
    BY <1>1, <2>1, <2>2 DEF Server, IInv, TypeOK, Protocol, Sent, Answered, Terminal
  <2>. QED
    BY <1>2, <2>1, <2>3
<1>6. CASE ServerCancels(g)
  <2>. DEFINE canceled == IF status[g] = "executing" THEN "canceling" ELSE status[g]
  <2>1. Server(g, {"executing", "canceling"} \cup Terminal, canceled,
               {Msg("cancel", g)}, {Msg("cancel_answer", g)})
    BY <1>6 DEF ServerCancels
  <2>2. status'[g] = canceled
    BY <2>1 DEF Server, IInv, TypeOK
  <2>3. Protocol(g)'
    BY <1>1, <2>1, <2>2 DEF Server, IInv, TypeOK, Protocol, Sent, Answered, Terminal
  <2>. HIDE DEF canceled
  <2>. QED
    BY <1>2, <2>1, <2>3
<1>. QED
  BY <1>3, <1>4, <1>5, <1>6 DEF ServerSteps

\* The client's steps: an event is handled, a goal or a cancel is sent.
LEMMA EventProtocol ==
    ASSUME IInv, ProtocolInv, NEW m \in wire, NEW next, HandleEvent(m, next)
    PROVE  ProtocolInv'
<1>. USE DEF Kinds, ToServer, ToClient
<1>. DEFINE g == m.goal
<1>1. m \in Message /\ g \in Goals /\ m = Msg(m.kind, g) /\ m.kind \in ToClient
  BY DEF IInv, TypeOK, Message, Msg, HandleEvent
<1>2. status' = status /\ run' = run
  BY DEF HandleEvent
<1>3. \A kind \in Kinds, h \in Goals :
        /\ Msg(kind, h) \in handled' <=> Msg(kind, h) \in handled \/ (kind = m.kind /\ h = g)
        /\ Msg(kind, h) \in wire' <=>
              \/ Msg(kind, h) \in wire /\ ~(kind = m.kind /\ h = g)
              \/ m.kind = "accepted" /\ kind = "get_result" /\ h = g
  BY <1>1, SameMessage DEF HandleEvent
<1>4. ASSUME NEW h \in Goals PROVE Protocol(h)'
  <2>1. Protocol(h)
    BY DEF ProtocolInv
  <2>2. CASE h # g
    BY <1>2, <1>3, <2>1, <2>2 DEF Protocol, Sent
  <2>3. CASE h = g
    <3>1. CASE m.kind = "accepted"
      BY <1>1, <1>2, <1>3, <2>1, <2>3, <3>1 DEF Protocol, Sent
    <3>2. CASE m.kind # "accepted"
      BY <1>1, <1>2, <1>3, <2>1, <2>3, <3>2 DEF Protocol, Sent
    <3>. QED
      BY <3>1, <3>2
  <2>. QED
    BY <2>2, <2>3
<1>. QED
  BY <1>4 DEF ProtocolInv

\* A step that sends and handles nothing.
LEMMA SilentProtocol ==
    ASSUME ProtocolInv, UNCHANGED <<run, status, wire, handled>>
    PROVE  ProtocolInv'
  BY DEF ProtocolInv, Protocol, Sent

\* The steps of the nodes: a tick that sends a goal starts the run of that goal,
\* a halt that cancels one knows that it was accepted.
LEMMA ClientProtocol ==
    ASSUME IInv, ProtocolInv, NEW n \in Nodes, NodeSteps(n) \/ TimeLimit(n)
    PROVE  ProtocolInv'
<1>. USE DEF Kinds, ToServer, ToClient
<1>1. CASE TickIdle(n)
  <2>1. CASE UNCHANGED <<run, wire>>
    BY <1>1, <2>1, SilentProtocol DEF TickIdle
  <2>2. CASE run' = [run EXCEPT ![n] = @ + 1] /\ wire' = wire \cup {Msg("goal", <<n, run'[n]>>)}
    <3>1. run[n] \in Nat /\ run'[n] = run[n] + 1
      BY <2>2 DEF IInv, TypeOK
    <3>2. ASSUME NEW h \in Goals PROVE Protocol(h)'
      <4>1. Protocol(h) /\ h[1] \in Nodes /\ h[2] \in Nat /\ h = <<h[1], h[2]>>
        BY MaxRunsAssumption DEF ProtocolInv, Goals
      <4>2. run[h[1]] \in Nat /\ run'[h[1]] \in Nat /\ run[h[1]] <= run'[h[1]]
        BY <2>2, <4>1 DEF IInv, TypeOK
      <4>3. status' = status /\ handled' = handled
        BY <1>1 DEF TickIdle
      <4>4. \A kind \in Kinds : Msg(kind, h) \in wire' <=>
               Msg(kind, h) \in wire \/ (kind = "goal" /\ h = <<n, run'[n]>>)
        BY <2>2, SameMessage
      <4>5. h = <<n, run'[n]>> => run[h[1]] < h[2] /\ run'[h[1]] = h[2]
        BY <3>1
      <4>. QED
        BY <4>1, <4>2, <4>3, <4>4, <4>5 DEF Protocol, Sent
    <3>. QED
      BY <3>2 DEF ProtocolInv
  <2>. QED
    BY <1>1, <2>1, <2>2 DEF TickIdle
<1>2. ASSUME NEW next, HandleNothing(next) \/ \E m \in wire : HandleEvent(m, next)
      PROVE  ProtocolInv'
  BY <1>2, EventProtocol, SilentProtocol DEF HandleNothing
<1>3. CASE TickRunning(n)
  BY <1>2, <1>3 DEF TickRunning
<1>4. CASE Tick(n)
  <2>1. CASE SpinForGoal(n)
    BY <1>2, <2>1 DEF SpinForGoal
  <2>2. CASE NoGoalYet(n) \/ TakeGoal(n) \/ Evaluate(n)
    BY <2>2, SilentProtocol DEF NoGoalYet, TakeGoal, Evaluate, Returns
  <2>. QED
    BY <1>4, <2>1, <2>2 DEF Tick
<1>5. CASE ResetStatus(n) \/ Halt(n)
  BY <1>5, SilentProtocol DEF ResetStatus, Halt
<1>6. CASE HaltWaits(n)
  BY <1>6, EventProtocol DEF HaltWaits
<1>7. CASE HaltTakesGoal(n) \/ HaltGoesOn(n) \/ Halted(n)
  BY <1>7, SilentProtocol DEF HaltTakesGoal, HaltGoesOn, HandleNothing, Halted, Returns
<1>8. CASE SendCancel(n)
  <2>1. CASE wire' = wire
    BY <1>8, <2>1, SilentProtocol DEF SendCancel
  <2>2. CASE wire' = wire \cup {Msg("cancel", handle[n])} /\ Known(handle[n])
    <3>1. ASSUME NEW h \in Goals PROVE Protocol(h)'
      <4>1. Protocol(h)
        BY DEF ProtocolInv
      <4>2. \A kind \in Kinds : Msg(kind, h) \in wire' <=>
               Msg(kind, h) \in wire \/ (kind = "cancel" /\ h = handle[n])
        BY <2>2, SameMessage
      <4>3. UNCHANGED <<run, status, handled>>
        BY <1>8 DEF SendCancel
      <4>4. h = handle[n] => ~(run[h[1]] < h[2])
        BY <2>2, <4>1 DEF Known, Protocol, Sent
      <4>. QED
        BY <4>1, <4>2, <4>3, <4>4 DEF Protocol, Sent
    <3>. QED
      BY <3>1 DEF ProtocolInv
  <2>. QED
    BY <1>8, <2>1, <2>2, ThreadPlaces DEF SendCancel, At, IInv
<1>9. CASE TimeLimit(n)
  BY <1>9, SilentProtocol DEF TimeLimit, Returns
<1>. QED
  BY <1>1, <1>3, <1>4, <1>5, <1>6, <1>7, <1>8, <1>9 DEF NodeSteps, HaltSteps

\* Nothing is on its way at the start.
LEMMA InitProtocol == Init => ProtocolInv
  BY DEF Init, ProtocolInv, Protocol, Sent

-----------------------------------------------------------------------------
(* A node and its goals.                                                   *)

\* The node has seen how the goal ended.
Settled(g) == Msg("result", g) \in handled \/ Msg("rejected", g) \in handled

\* The goal that a running node is at.
Live(g) == g = Current(g[1]) /\ bt[g[1]] = "running"

\* goal_handle_ is of a goal that the server has accepted, and after the tick
\* that has taken it, of the present one.  A node that never gave up waiting
\* has settled all other goals, and a halt that has got past its checks is
\* about the present goal.
NodeGoals(n) ==
    /\ handle[n] # NoGoal => /\ handle[n] \in Goals /\ handle[n][1] = n
                             /\ Msg("accepted", handle[n]) \in handled
    /\ At(n, "evaluate") => received[n]
    /\ bt[n] = "running" /\ received[n] => handle[n] = Current(n)
    /\ ~GaveUp(n) =>
          /\ \A g \in Goals : g[1] = n /\ g[2] <= run[n] /\ ~Live(g) => Settled(g)
          /\ bt[n] = "running" /\ result[n] # NoGoal =>
                result[n] = Current(n) /\ Msg("result", Current(n)) \in handled
          /\ At(n, "halt_cancel") \/ At(n, "halt_result") => handle[n] = Current(n)

NodeInv == \A n \in Nodes : NodeGoals(n)

\* The types that the proofs need of a goal.
LEMMA GoalParts ==
    ASSUME IInv, NEW g \in Goals
    PROVE  g[1] \in Nodes /\ g[2] \in Nat /\ run[g[1]] \in Nat /\ g = <<g[1], g[2]>>
  BY MaxRunsAssumption DEF Goals, IInv, TypeOK

\* A result that is on its way to a node that never gave up is that of its
\* present goal.
LEMMA ResultIsLive ==
    ASSUME IInv, ProtocolInv, NodeInv, NEW g \in Goals,
           Msg("result", g) \in wire, ~GaveUp(g[1])
    PROVE  Live(g)
<1>1. Protocol(g) /\ NodeGoals(g[1])
  BY GoalOfNode DEF ProtocolInv, NodeInv
<1>2. Sent("result", g) /\ status[g] \in Answered
  BY <1>1 DEF Protocol, Sent
<1>3. g[2] <= run[g[1]]
  BY <1>1, <1>2, GoalParts DEF Protocol, Answered
<1>4. ~Settled(g)
  BY <1>1, <1>2 DEF Protocol, Settled, Sent, Answered
<1>. QED
  BY <1>1, <1>3, <1>4 DEF NodeGoals

\* A goal that is settled has ended.
LEMMA SettledHasEnded ==
    ASSUME ProtocolInv, NEW g \in Goals, Settled(g)
    PROVE  status[g] \in Answered \cup {"rejected"}
  BY DEF ProtocolInv, Protocol, Settled, Sent

\* The goals and messages of the other nodes, and what the node itself knows,
\* are left as they are by an event, but for one result that it takes.
LEMMA EventNode ==
    ASSUME IInv, ProtocolInv, NodeInv, UNCHANGED expired,
           NEW n \in Nodes, NEW place \in Places,
           NEW m \in wire, HandleEvent(m, [node |-> n, at |-> place]),
           place = "evaluate" => received[n],
           place \in {"halt_cancel", "halt_result"} => At(n, place)
    PROVE  NodeInv'
<1>. DEFINE g == m.goal
<1>1. m \in Message /\ g \in Goals /\ m = Msg(m.kind, g) /\ g[1] \in Nodes
  BY GoalOfNode DEF IInv, TypeOK, Message, Msg
<1>2. handled \subseteq handled' /\ m \in handled'
  BY DEF HandleEvent
<1>3. UNCHANGED <<bt, run, received, handle, expired>>
  BY DEF HandleEvent
<1>4. thread' \in {[node |-> n, at |-> place], [node |-> g[1], at |-> "null_handle"]}
  BY DEF HandleEvent
<1>5. ASSUME NEW k \in Nodes PROVE NodeGoals(k)'
  <2>1. NodeGoals(k)
    BY DEF NodeInv
  <2>2. \A p \in {"evaluate", "halt_cancel", "halt_result"} :
           At(k, p)' => k = n /\ p = place
    BY <1>4 DEF At
  <2>3. ASSUME ~GaveUp(k), bt[k] = "running", result'[k] # NoGoal
        PROVE  result'[k] = Current(k) /\ Msg("result", Current(k)) \in handled'
    <3>1. CASE result'[k] = result[k]
      BY <1>2, <2>1, <2>3, <3>1 DEF NodeGoals
    <3>2. CASE result'[k] # result[k]
      <4>1. m.kind = "result" /\ k = g[1] /\ result'[k] = g
        BY <1>1, <3>2 DEF HandleEvent, IInv, TypeOK
      <4>2. Live(g)
        BY <1>1, <2>3, <4>1, ResultIsLive
      <4>. QED
        BY <1>1, <1>2, <4>1, <4>2 DEF Live
    <3>. QED
      BY <3>1, <3>2
  <2>. QED
    BY <1>2, <1>3, <2>1, <2>2, <2>3 DEF NodeGoals, GaveUp, Live, Settled, Current
<1>. QED
  BY <1>5 DEF NodeInv

\* A step that handles no event, for the nodes it is not about.
LEMMA OtherNode ==
    ASSUME NodeInv, NEW n \in Nodes, NEW k \in Nodes, k # n,
           handled' = handled, GaveUp(k)' = GaveUp(k),
           bt'[k] = bt[k], run'[k] = run[k], received'[k] = received[k],
           handle'[k] = handle[k], result'[k] = result[k],
           \A p \in Places : ~(At(k, p)')  \/ (At(k, p))
    PROVE  NodeGoals(k)'
<1>1. NodeGoals(k)
  BY DEF NodeInv
<1>2. \A g \in Goals : g[1] = k => (Live(g)' <=> Live(g)) /\ (Settled(g)' <=> Settled(g))
  BY DEF Live, Settled, Current
<1>3. \A p \in {"evaluate", "halt_cancel", "halt_result"} : At(k, p)' => At(k, p)
  BY DEF Places, TickPlaces, HaltPlaces
<1>. QED
  BY <1>1, <1>2, <1>3 DEF NodeGoals, Current

\* What the node may expect when it is the present goal that ends its run.
LEMMA RunEnds ==
    ASSUME NodeInv, NEW n \in Nodes, ~GaveUp(n) => Settled(Current(n)),
           handled' = handled, run' = run, GaveUp(n)' = GaveUp(n), bt'[n] # "running"
    PROVE  ~GaveUp(n)' => \A g \in Goals : g[1] = n /\ g[2] <= run'[n] /\ ~Live(g)' => Settled(g)'
<1>1. NodeGoals(n)
  BY DEF NodeInv
<1>. QED
  BY <1>1 DEF NodeGoals, Live, Settled, Current

\* Ticks.
LEMMA TickNode ==
    ASSUME IInv, ProtocolInv, NodeInv, UNCHANGED expired, NEW n \in Nodes,
           TickIdle(n) \/ TickRunning(n) \/ Tick(n) \/ ResetStatus(n)
    PROVE  NodeInv'
<1>. USE DEF Places, TickPlaces, HaltPlaces, DeadPlaces
<1>1. NodeGoals(n) /\ \A k \in Nodes : GaveUp(k)' = GaveUp(k)
  BY DEF NodeInv, GaveUp
<1>2. ASSUME NEW place \in Places, place = "evaluate" => received[n],
             place \in {"halt_cancel", "halt_result"} => At(n, place),
             LET next == [node |-> n, at |-> place] IN
               HandleNothing(next) \/ \E m \in wire : HandleEvent(m, next)
      PROVE  NodeInv'
  <2>. DEFINE next == [node |-> n, at |-> place]
  <2>1. CASE HandleNothing(next)
    <3>1. \A k \in Nodes, p \in Places : At(k, p)' <=> k = n /\ p = place
      BY <2>1 DEF HandleNothing, At
    <3>2. UNCHANGED <<bt, run, received, handle, result, handled>>
      BY <2>1 DEF HandleNothing
    <3>3. NodeGoals(n)'
      BY <1>1, <1>2, <3>1, <3>2 DEF NodeGoals, Current, Live, Settled
    <3>. QED
      BY <1>1, <3>1, <3>2, <3>3, OtherNode DEF NodeInv
  <2>2. CASE \E m \in wire : HandleEvent(m, next)
    BY <1>2, <2>2, EventNode
  <2>. QED
    BY <1>2, <2>1, <2>2
<1>3. CASE TickIdle(n)
  <2>1. /\ bt[n] = "idle" /\ received'[n] = FALSE /\ result'[n] = NoGoal
        /\ bt'[n] \in {"failure", "running"} /\ thread' = Idle
        /\ UNCHANGED <<handle, handled>>
        /\ run'[n] \in {run[n], run[n] + 1}
        /\ bt'[n] = "running" => run'[n] = run[n] + 1
        /\ bt'[n] # "running" => run'[n] = run[n]
    BY <1>3 DEF TickIdle, IInv, TypeOK
  <2>2. \A k \in Nodes, p \in Places : ~(At(k, p)')
    BY <2>1 DEF At, Idle
  <2>3. \A k \in Nodes \ {n} : /\ bt'[k] = bt[k] /\ run'[k] = run[k] /\ received'[k] = received[k]
                               /\ result'[k] = result[k] /\ handle'[k] = handle[k]
    BY <1>3 DEF TickIdle, IInv, TypeOK
  <2>4. ASSUME ~GaveUp(n), NEW g \in Goals, g[1] = n, g[2] <= run'[n], ~Live(g)'
        PROVE  Settled(g)'
    <3>1. g[2] <= run[n]
      BY <2>1, <2>4, GoalParts DEF Live, Current
    <3>2. Settled(g)
      BY <1>1, <2>1, <2>4, <3>1 DEF NodeGoals, Live
    <3>. QED
      BY <2>1, <3>2 DEF Settled
  <2>5. NodeGoals(n)'
    BY <1>1, <2>1, <2>2, <2>4 DEF NodeGoals
  <2>. QED
    BY <1>1, <2>1, <2>2, <2>3, <2>5, OtherNode DEF NodeInv
<1>4. CASE TickRunning(n)
  <2>. DEFINE place == IF received[n] THEN "evaluate" ELSE "wait"
  <2>1. place \in Places
    OBVIOUS
  <2>2. LET next == [node |-> n, at |-> place] IN
          HandleNothing(next) \/ \E m \in wire : HandleEvent(m, next)
    BY <1>4 DEF TickRunning
  <2>. QED
    BY <1>2, <2>1, <2>2
<1>5. CASE SpinForGoal(n)
  <2>1. [thread EXCEPT !.at = "waited"] = [node |-> n, at |-> "waited"]
    BY <1>5 DEF SpinForGoal, At
  <2>2. LET next == [node |-> n, at |-> "waited"] IN
          HandleNothing(next) \/ \E m \in wire : HandleEvent(m, next)
    BY <1>5, <2>1 DEF SpinForGoal
  <2>. QED
    BY <1>2, <2>2
<1>6. ASSUME NEW s, Returns(n, s), UNCHANGED <<received, handle>>
      PROVE  /\ \A k \in Nodes \ {n} : NodeGoals(k)'
             /\ bt'[n] = s
             /\ \A p \in Places : ~(At(n, p)')
  <2>1. \A k \in Nodes, p \in Places : ~(At(k, p)')
    BY <1>6 DEF Returns, At, Idle
  <2>2. bt'[n] = s /\ \A k \in Nodes \ {n} : bt'[k] = bt[k]
    BY <1>6 DEF Returns, IInv, TypeOK
  <2>. QED
    BY <1>1, <1>6, <2>1, <2>2, OtherNode DEF Returns
<1>7. \A p \in Places \ DeadPlaces : At(n, p) => bt[n] = "running" /\ Current(n) \in Goals
  BY ThreadPlaces, CurrentIsGoal, MaxRunsAssumption DEF IInv, ThreadInv, TypeOK
<1>8. CASE NoGoalYet(n)
  <2>1. /\ \A k \in Nodes \ {n} : NodeGoals(k)'
        /\ bt'[n] = "running"
        /\ \A p \in Places : ~(At(n, p)')
    BY <1>6, <1>8 DEF NoGoalYet
  <2>2. bt[n] = "running"
    BY <1>7, <1>8 DEF NoGoalYet
  <2>3. NodeGoals(n)'
    BY <1>1, <1>8, <2>1, <2>2 DEF NoGoalYet, Returns, NodeGoals, Live, Settled, Current
  <2>. QED
    BY <2>1, <2>3 DEF NodeInv
<1>9. CASE Evaluate(n)
  <2>. DEFINE s == IF result[n] = NoGoal THEN "running"
                   ELSE IF status[result[n]] = "succeeded" THEN "success" ELSE "failure"
  <2>1. /\ \A k \in Nodes \ {n} : NodeGoals(k)'
        /\ bt'[n] = s
        /\ \A p \in Places : ~(At(n, p)')
    BY <1>6, <1>9 DEF Evaluate
  <2>2. bt[n] = "running" /\ received[n]
    BY <1>1, <1>7, <1>9 DEF Evaluate, NodeGoals
  <2>3. /\ UNCHANGED <<received, handle, run, result, handled>>
    BY <1>9 DEF Evaluate, Returns
  <2>4. CASE result[n] = NoGoal
    <3>1. NodeGoals(n)'
      BY <1>1, <2>1, <2>2, <2>3, <2>4 DEF NodeGoals, Live, Settled, Current
    <3>. QED
      BY <2>1, <3>1 DEF NodeInv
  <2>5. CASE result[n] # NoGoal
    <3>1. ~GaveUp(n) => Settled(Current(n))
      BY <1>1, <2>2, <2>5 DEF NodeGoals, Settled
    <3>2. bt'[n] # "running"
      BY <2>1, <2>5
    <3>3. ~GaveUp(n)' => \A g \in Goals : g[1] = n /\ g[2] <= run'[n] /\ ~Live(g)' => Settled(g)'
      BY <1>1, <2>3, <3>1, <3>2, RunEnds
    <3>4. NodeGoals(n)'
      BY <1>1, <2>1, <2>3, <3>2, <3>3 DEF NodeGoals
    <3>. QED
      BY <2>1, <3>4 DEF NodeInv
  <2>. QED
    BY <2>1, <2>4, <2>5 DEF NodeInv
<1>10. CASE TakeGoal(n)
  <2>1. bt[n] = "running" /\ Current(n) \in Goals /\ thread.node = n
    BY <1>7, <1>10 DEF TakeGoal, At
  <2>2. /\ received'[n] = TRUE /\ UNCHANGED <<run, result, handled>>
        /\ \A k \in Nodes \ {n} : received'[k] = received[k] /\ handle'[k] = handle[k]
    BY <1>10 DEF TakeGoal, Returns, IInv, TypeOK
  <2>3. CASE Msg("accepted", Current(n)) \in handled
    <3>1. /\ handle'[n] = Current(n) /\ bt' = bt
          /\ thread' = [node |-> n, at |-> "evaluate"]
      BY <1>10, <2>1, <2>3 DEF TakeGoal, IInv, TypeOK, At
    <3>2. \A k \in Nodes, p \in Places : At(k, p)' <=> k = n /\ p = "evaluate"
      BY <3>1 DEF At
    <3>3. NodeGoals(n)'
      BY <1>1, <2>1, <2>2, <2>3, <3>1, <3>2 DEF NodeGoals, Live, Settled, Current
    <3>. QED
      BY <1>1, <2>2, <3>1, <3>2, <3>3, OtherNode DEF NodeInv
  <2>4. CASE Msg("accepted", Current(n)) \notin handled
    <3>1. /\ handle'[n] = NoGoal /\ bt'[n] = "failure" /\ thread' = Idle
          /\ \A k \in Nodes \ {n} : bt'[k] = bt[k]
      BY <1>10, <2>4 DEF TakeGoal, Returns, IInv, TypeOK
    <3>2. \A k \in Nodes, p \in Places : ~(At(k, p)')
      BY <3>1 DEF At, Idle
    <3>3. Settled(Current(n))
      BY <1>10, <2>4 DEF TakeGoal, Responded, Settled
    <3>4. ~GaveUp(n)' => \A g \in Goals : g[1] = n /\ g[2] <= run'[n] /\ ~Live(g)' => Settled(g)'
      BY <1>1, <2>2, <3>1, <3>3, RunEnds
    <3>5. NodeGoals(n)'
      BY <1>1, <2>2, <3>1, <3>2, <3>4 DEF NodeGoals
    <3>. QED
      BY <1>1, <2>2, <3>1, <3>2, <3>5, OtherNode DEF NodeInv
  <2>. QED
    BY <2>3, <2>4
<1>11. CASE ResetStatus(n)
  <2>1. /\ UNCHANGED <<run, received, handle, result, thread, handled>>
        /\ bt'[n] = "idle" /\ bt[n] # "running" /\ \A k \in Nodes \ {n} : bt'[k] = bt[k]
    BY <1>11 DEF ResetStatus, IInv, TypeOK
  <2>2. \A k \in Nodes, p \in Places : At(k, p)' <=> At(k, p)
    BY <2>1 DEF At
  <2>3. NodeGoals(n)'
    BY <1>1, <2>1, <2>2 DEF NodeGoals, Live, Settled, Current
  <2>. QED
    BY <1>1, <2>1, <2>2, <2>3, OtherNode DEF NodeInv
<1>. QED
  BY <1>3, <1>4, <1>5, <1>8, <1>9, <1>10, <1>11 DEF Tick

\* Halts.
LEMMA HaltNode ==
    ASSUME IInv, ProtocolInv, NodeInv, UNCHANGED expired, NEW n \in Nodes,
           Halt(n) \/ HaltSteps(n)
    PROVE  NodeInv'
<1>. USE DEF Places, TickPlaces, HaltPlaces, DeadPlaces
<1>1. NodeGoals(n) /\ \A k \in Nodes : GaveUp(k)' = GaveUp(k)
  BY DEF NodeInv, GaveUp
<1>2. ASSUME NEW place \in Places, thread' = [node |-> n, at |-> place],
             UNCHANGED <<bt, run, received, handle, result, handled>>,
             place # "evaluate",
             place \in {"halt_cancel", "halt_result"} => handle[n] = Current(n) \/ GaveUp(n)
      PROVE  NodeInv'
  <2>1. \A k \in Nodes, p \in Places : At(k, p)' <=> k = n /\ p = place
    BY <1>2 DEF At
  <2>2. NodeGoals(n)'
    BY <1>1, <1>2, <2>1 DEF NodeGoals, Current, Live, Settled
  <2>. QED
    BY <1>1, <1>2, <2>1, <2>2, OtherNode DEF NodeInv
<1>3. ASSUME NEW place \in HaltPlaces, At(n, place)
      PROVE  /\ bt[n] = "running" /\ Current(n) \in Goals
             /\ thread = [node |-> n, at |-> place]
             /\ \A new : [thread EXCEPT !.at = new] = [node |-> n, at |-> new]
  BY <1>3, ThreadPlaces, CurrentIsGoal, MaxRunsAssumption DEF At, IInv, ThreadInv, TypeOK
<1>4. CASE Halt(n)
  BY <1>2, <1>4 DEF Halt
<1>5. CASE HaltWaits(n)
  <2>1. PICK place \in HaltPlaces : At(n, place)
    BY <1>5 DEF HaltWaits, Awaits
  <2>2. thread = [node |-> n, at |-> place]
    BY <1>3, <2>1
  <2>3. PICK m \in wire : HandleEvent(m, [node |-> n, at |-> place])
    BY <1>5, <2>2 DEF HaltWaits
  <2>. QED
    BY <2>1, <2>3, EventNode
<1>6. CASE HaltTakesGoal(n)
  <2>1. /\ bt[n] = "running" /\ Current(n) \in Goals
        /\ thread' = [node |-> n, at |-> "cancel"]
    BY <1>3, <1>6 DEF HaltTakesGoal
  <2>2. /\ UNCHANGED <<bt, run, received, result, handled>>
        /\ \A k \in Nodes \ {n} : handle'[k] = handle[k]
        /\ handle'[n] \in {Current(n), NoGoal}
        /\ handle'[n] = Current(n) \/ Msg("accepted", Current(n)) \notin handled
        /\ handle'[n] # NoGoal => Msg("accepted", Current(n)) \in handled
    BY <1>6 DEF HaltTakesGoal, IInv, TypeOK
  <2>3. \A k \in Nodes, p \in Places : At(k, p)' <=> k = n /\ p = "cancel"
    BY <2>1 DEF At
  <2>4. bt[n] = "running" /\ received[n] => handle'[n] = Current(n)
    BY <1>1, <2>1, <2>2, NoGoalAssumption DEF NodeGoals
  <2>5. NodeGoals(n)'
    BY <1>1, <2>1, <2>2, <2>3, <2>4 DEF NodeGoals, Current, Live, Settled
  <2>. QED
    BY <1>1, <2>2, <2>3, <2>5, OtherNode DEF NodeInv
<1>7. CASE SendCancel(n)
  <2>1. \A new : [thread EXCEPT !.at = new] = [node |-> n, at |-> new]
    BY <1>3, <1>7 DEF SendCancel
  <2>2. PICK place \in {"null_handle", "halt_cancel", "unknown_handle"} :
           thread' = [node |-> n, at |-> place] /\ (place = "halt_cancel" => Known(handle[n]))
                      /\ (place = "halt_cancel" => handle[n] # NoGoal)
    BY <1>7, <2>1 DEF SendCancel
  <2>3. ASSUME handle[n] # NoGoal, Known(handle[n]), ~GaveUp(n), handle[n] # Current(n)
        PROVE  FALSE
    <3>. DEFINE g == handle[n]
    <3>1. g \in Goals /\ g[1] = n /\ Protocol(g)
      BY <1>1, <2>3 DEF NodeGoals, ProtocolInv
    <3>2. Sent("accepted", g) /\ Msg("result", g) \notin handled
      BY <2>3 DEF Known, Sent
    <3>3. g[2] <= run[n]
      BY <3>1, <3>2, GoalParts DEF Protocol
    <3>4. Settled(g)
      BY <1>1, <2>3, <3>1, <3>3 DEF NodeGoals, Live
    <3>5. status[g] = "rejected"
      BY <3>1, <3>2, <3>4 DEF Settled, Protocol, Sent
    <3>. QED
      BY <3>1, <3>2, <3>5 DEF Protocol
  <2>. QED
    BY <1>2, <1>7, <2>2, <2>3 DEF SendCancel
<1>8. CASE HaltGoesOn(n)
  <2>1. At(n, "halt_cancel") /\ thread' = [node |-> n, at |-> "halt_result"]
    BY <1>3, <1>8 DEF HaltGoesOn, HandleNothing
  <2>. QED
    BY <1>1, <1>2, <1>8, <2>1 DEF HaltGoesOn, HandleNothing, NodeGoals
<1>9. CASE Halted(n)
  <2>1. bt[n] = "running" /\ Current(n) \in Goals
    BY <1>3, <1>9 DEF Halted
  <2>2. /\ UNCHANGED <<run, received, handle, result, handled>> /\ thread' = Idle
        /\ bt'[n] = "idle" /\ \A k \in Nodes \ {n} : bt'[k] = bt[k]
    BY <1>9 DEF Halted, Returns, IInv, TypeOK
  <2>3. \A k \in Nodes, p \in Places : ~(At(k, p)')
    BY <2>2 DEF At, Idle
  <2>4. ~GaveUp(n) => Settled(Current(n))
    BY <1>1, <1>9 DEF Halted, NodeGoals, Settled
  <2>5. ~GaveUp(n)' => \A g \in Goals : g[1] = n /\ g[2] <= run'[n] /\ ~Live(g)' => Settled(g)'
    BY <1>1, <2>2, <2>4, RunEnds
  <2>6. NodeGoals(n)'
    BY <1>1, <2>2, <2>3, <2>5 DEF NodeGoals
  <2>. QED
    BY <1>1, <2>2, <2>3, <2>6, OtherNode DEF NodeInv
<1>. QED
  BY <1>4, <1>5, <1>6, <1>7, <1>8, <1>9 DEF HaltSteps

\* A node that gives up waiting is not spoken of any more.
LEMMA LimitNode ==
    ASSUME IInv, NodeInv, NEW n \in Nodes, TimeLimit(n)
    PROVE  NodeInv'
<1>. USE DEF Places, TickPlaces, HaltPlaces, DeadPlaces
<1>1. NodeGoals(n) /\ GaveUp(n)'
  BY DEF NodeInv, TimeLimit, GaveUp, Current
<1>2. \A k \in Nodes \ {n} : GaveUp(k)' = GaveUp(k)
  BY DEF TimeLimit, GaveUp, Current
<1>3. /\ UNCHANGED <<run, received, handle, result, handled>>
      /\ bt'[n] # "running" \/ bt'[n] = bt[n]
      /\ \A k \in Nodes \ {n} : bt'[k] = bt[k]
  BY DEF TimeLimit, Returns, IInv, TypeOK
<1>4. \A k \in Nodes, p \in Places : At(k, p)' => k = n /\ p = "halt_result"
  <2>1. \A new : At(n, "halt_cancel") => [thread EXCEPT !.at = new] = [node |-> n, at |-> new]
    BY DEF At
  <2>. QED
    BY <2>1 DEF TimeLimit, Returns, At, Idle
<1>5. NodeGoals(n)'
  BY <1>1, <1>3, <1>4 DEF NodeGoals, Current
<1>. QED
  BY <1>2, <1>3, <1>4, <1>5, OtherNode DEF NodeInv

\* The server's steps touch none of what a node knows.
LEMMA ServerNode ==
    ASSUME NodeInv, UNCHANGED <<bt, run, received, handle, result, thread, handled, expired>>
    PROVE  NodeInv'
  BY DEF NodeInv, NodeGoals, GaveUp, Live, Settled, Current, At

\* No node has had a goal at the start.
LEMMA InitNode == Init => NodeInv
<1>. SUFFICES ASSUME Init, NEW n \in Nodes PROVE NodeGoals(n)
  BY DEF NodeInv
<1>1. \A g \in Goals : ~(g[2] <= run[g[1]])
  BY MaxRunsAssumption DEF Init, Goals
<1>. QED
  BY <1>1 DEF Init, NodeGoals, At, Idle

\* What holds of the protocol and of the nodes holds together.
GoalInv == IInv /\ ProtocolInv /\ NodeInv

\* Every step keeps the protocol and what the nodes know.
LEMMA GoalStep == GoalInv /\ [Next]_vars => GoalInv'
<1>. SUFFICES ASSUME GoalInv, [Next]_vars PROVE GoalInv'
  OBVIOUS
<1>. USE DEF GoalInv
<1>1. ASSUME NEW n \in Nodes, NodeSteps(n), UNCHANGED expired PROVE GoalInv'
  BY <1>1, TickStep, HaltStep, ClientProtocol, TickNode, HaltNode DEF NodeSteps
<1>2. ASSUME NEW g \in Goals, ServerSteps(g), UNCHANGED expired PROVE GoalInv'
  <2>1. UNCHANGED <<bt, run, received, handle, result, thread, handled>>
    BY <1>2 DEF ServerSteps, ServerDecides, ServerEnds, ServerSendsResult, ServerCancels, Server
  <2>. QED
    BY <1>2, <2>1, ServerStep, ServerProtocol, ServerNode
<1>3. ASSUME NEW n \in Nodes, TimeLimit(n) PROVE GoalInv'
  BY <1>3, LimitStep, ClientProtocol, LimitNode
<1>4. CASE UNCHANGED vars
  BY <1>4, SilentProtocol, ServerNode DEF vars, IInv, TypeOK, ThreadInv
<1>. QED
  BY <1>1, <1>2, <1>3, <1>4 DEF Next

\* The inductive invariant of the goals.
LEMMA GoalInvariant == Spec => []GoalInv
  BY InitInv, InitProtocol, InitNode, GoalStep, PTL DEF Spec, GoalInv

\* The server executes no goal for a node that has completed or was halted,
\* unless the node has given up waiting: NodeInv says that it has settled its
\* goal, and the protocol that the goal has ended then.
THEOREM NoGoalIsLeftBehind == Spec => []NoGoalLeftBehind
<1>1. GoalInv => NoGoalLeftBehind
  <2>. SUFFICES ASSUME GoalInv, NEW g \in Goals, status[g] \in {"executing", "canceling"},
                       ~GaveUp(g[1])
                PROVE  Live(g)
    BY DEF NoGoalLeftBehind, Live
  <2>1. NodeGoals(g[1]) /\ Protocol(g)
    BY GoalOfNode DEF GoalInv, NodeInv, ProtocolInv
  <2>2. g[2] <= run[g[1]]
    BY <2>1, GoalParts DEF GoalInv, Protocol
  <2>3. ~Settled(g)
    BY SettledHasEnded DEF GoalInv, Answered
  <2>. QED
    BY <2>1, <2>2, <2>3 DEF NodeGoals
<1>. QED
  BY GoalInvariant, <1>1, PTL

\* A node answers SUCCESS for the goal of its present run only.
THEOREM VerdictsAreOfTheRun == Spec => VerdictIsOfThisRun
<1>1. ASSUME GoalInv, [Next]_vars, NEW n \in Nodes,
             bt[n] = "running", bt'[n] = "success", ~GaveUp(n)
      PROVE  status[Current(n)] = "succeeded"
  <2>1. ASSUME NEW k \in Nodes, Evaluate(k)
        PROVE  status[Current(n)] = "succeeded"
    <3>1. k = n /\ result[n] # NoGoal /\ status[result[n]] = "succeeded"
      BY <1>1, <2>1 DEF Evaluate, Returns, GoalInv, IInv, TypeOK
    <3>2. result[n] = Current(n)
      BY <1>1, <3>1 DEF GoalInv, NodeInv, NodeGoals
    <3>. QED
      BY <3>1, <3>2
  <2>2. ASSUME NEW k \in Nodes, NodeSteps(k), ~Evaluate(k) PROVE bt'[n] # "success"
    BY <1>1, <2>2 DEF NodeSteps, TickIdle, TickRunning, Tick, SpinForGoal, NoGoalYet,
       TakeGoal, ResetStatus, Halt, HaltSteps, HaltWaits, HaltTakesGoal, SendCancel,
       HaltGoesOn, Halted, Returns, HandleEvent, HandleNothing, GoalInv, IInv, TypeOK
  <2>3. ASSUME NEW g \in Goals, ServerSteps(g) PROVE bt' = bt
    BY <2>3 DEF ServerSteps, ServerDecides, ServerEnds, ServerSendsResult, ServerCancels, Server
  <2>4. ASSUME NEW k \in Nodes, TimeLimit(k) PROVE bt'[n] # "success"
    BY <1>1, <2>4 DEF TimeLimit, Returns, GoalInv, IInv, TypeOK
  <2>. QED
    BY <1>1, <2>1, <2>2, <2>3, <2>4 DEF Next, NodeSteps, Tick, vars
<1>2. GoalInv /\ [Next]_vars =>
        [\A n \in Nodes : bt[n] = "running" /\ bt'[n] = "success" /\ ~GaveUp(n)
            => status[Current(n)] = "succeeded"]_vars
  BY <1>1
<1>. QED
  BY GoalInvariant, <1>2, PTL DEF Spec, VerdictIsOfThisRun

-----------------------------------------------------------------------------
(* The nodes and the server as ActionClient has them.                      *)

\* A node whose present run has been settled may leave it.
LEMMA SettledMayLeave ==
    ASSUME GoalInv, NEW n \in Nodes, bt[n] = "running", GaveUp(n) \/ Settled(Current(n))
    PROVE  GaveUp(n) \/ Client!HasEnded(n)
<1>1. Current(n) \in Goals
  BY CurrentIsGoal, MaxRunsAssumption DEF GoalInv, IInv, ThreadInv, TypeOK
<1>. QED
  BY <1>1, SettledHasEnded DEF GoalInv, Answered, Client!HasEnded, Client!Current, Current,
     Client!Server!Terminal

\* The nodes that gave up are those that are lost.
LEMMA LostNodes == \A n : n \in {g[1] : g \in expired} <=> GaveUp(n)
  BY DEF GaveUp

\* A node that is halted or evaluates, and leaves its run by that.
LEMMA LeavesRun ==
    ASSUME GoalInv, NEW n \in Nodes, bt[n] = "running", UNCHANGED <<run, status, expired>>,
           NEW s \in {"idle", "success", "failure"}, bt' = [bt EXCEPT ![n] = s],
           ~GaveUp(n) =>
              /\ Settled(Current(n))
              /\ s = "success" => status[Current(n)] = "succeeded"
              /\ s = "failure" => status[Current(n)] # "succeeded"
    PROVE  Client!Next
<1>. DEFINE lost == {g[1] : g \in expired}
<1>1. UNCHANGED <<run, status, lost>>
  OBVIOUS
<1>2. CASE GaveUp(n)
  <2>1. n \in lost
    BY <1>2, LostNodes
  <2>2. Client!Astray(n)
    BY <1>1, <2>1 DEF Client!Astray, Client!Becomes
  <2>. QED
    BY <2>2 DEF Client!Next
<1>3. CASE ~GaveUp(n)
  <2>1. n \notin lost /\ Client!HasEnded(n)
    BY <1>3, LostNodes, SettledMayLeave
  <2>2. Client!Halt(n) \/ Client!Report(n)
    BY <1>1, <1>3, <2>1 DEF Client!Halt, Client!Report, Client!Becomes, Client!Current, Current
  <2>. QED
    BY <2>2 DEF Client!Next
<1>. QED
  BY <1>2, <1>3

\* Ticks and halts.
LEMMA NodeKeepsContract ==
    ASSUME GoalInv, NEW n \in Nodes, NodeSteps(n), UNCHANGED expired
    PROVE  [Client!Next]_(Client!vars)
<1>. DEFINE lost == {g[1] : g \in expired}
<1>. USE DEF GoalInv
<1>1. lost' = lost /\ bt \in [Nodes -> {"idle", "running", "success", "failure"}]
      /\ NodeGoals(n)
  BY DEF IInv, TypeOK, NodeInv
<1>2. \A p \in {"wait", "waited", "evaluate", "halt_result"} : At(n, p) =>
         bt[n] = "running" /\ Current(n) \in Goals
  BY ThreadPlaces, CurrentIsGoal, MaxRunsAssumption DEF DeadPlaces, IInv, ThreadInv, TypeOK
<1>3. CASE TickIdle(n)
  <2>1. Client!MayStart(n) /\ UNCHANGED <<status, lost>>
    BY <1>1, <1>3 DEF TickIdle, MayTick, Client!MayStart
  <2>2. CASE bt' = [bt EXCEPT ![n] = "failure"] /\ UNCHANGED run
    BY <2>1, <2>2 DEF Client!Refuse, Client!Becomes, Client!Next
  <2>3. CASE bt' = [bt EXCEPT ![n] = "running"] /\ run' = [run EXCEPT ![n] = @ + 1]
    <3>1. /\ run \in [Nodes -> Nat] /\ run[n] < MaxRuns[n] /\ MaxRuns[n] \in Nat
          /\ run'[n] = run[n] + 1
      BY <1>3, <2>3, MaxRunsAssumption DEF TickIdle, IInv, TypeOK
    <3>2. <<n, run'[n]>> \in Goals
      BY <3>1 DEF Goals
    <3>. QED
      BY <2>1, <2>3, <3>2 DEF Client!Start, Client!Becomes, Client!Next
  <2>. QED
    BY <1>3, <2>2, <2>3 DEF TickIdle
<1>4. CASE Evaluate(n)
  <2>1. bt[n] = "running" /\ UNCHANGED <<run, status>>
    BY <1>2, <1>4 DEF Evaluate, Returns
  <2>2. CASE result[n] = NoGoal
    <3>1. bt' = bt
      BY <1>1, <1>4, <2>1, <2>2 DEF Evaluate, Returns
    <3>. QED
      BY <1>1, <2>1, <3>1 DEF Client!vars
  <2>3. CASE result[n] # NoGoal
    <3>1. ~GaveUp(n) => result[n] = Current(n) /\ Settled(Current(n))
      BY <1>1, <1>4, <2>1, <2>3 DEF Evaluate, NodeGoals, Settled
    <3>2. bt' = [bt EXCEPT ![n] = IF status[result[n]] = "succeeded" THEN "success"
                                  ELSE "failure"]
      BY <1>4, <2>3 DEF Evaluate, Returns
    <3>. QED
      BY <2>1, <3>1, <3>2, LeavesRun
  <2>. QED
    BY <2>2, <2>3
<1>5. CASE TakeGoal(n)
  <2>1. bt[n] = "running" /\ Current(n) \in Goals /\ UNCHANGED <<run, status>>
    BY <1>2, <1>5 DEF TakeGoal, Returns
  <2>2. CASE Msg("accepted", Current(n)) \in handled
    BY <1>1, <1>5, <2>1, <2>2 DEF TakeGoal, Client!vars
  <2>3. CASE Msg("accepted", Current(n)) \notin handled
    <3>1. Msg("rejected", Current(n)) \in handled
      BY <1>5, <2>3 DEF TakeGoal, Responded
    <3>2. status[Current(n)] = "rejected"
      BY <2>1, <3>1 DEF ProtocolInv, Protocol, Sent
    <3>3. bt' = [bt EXCEPT ![n] = "failure"]
      BY <1>5, <2>3 DEF TakeGoal, Returns
    <3>. QED
      BY <2>1, <3>1, <3>2, <3>3, LeavesRun DEF Settled
  <2>. QED
    BY <2>2, <2>3
<1>6. CASE ResetStatus(n)
  BY <1>1, <1>6 DEF ResetStatus, Client!Reset, Client!Becomes, Client!Next
<1>7. CASE Halted(n)
  <2>1. bt[n] = "running" /\ UNCHANGED <<run, status>> /\ bt' = [bt EXCEPT ![n] = "idle"]
    BY <1>2, <1>7 DEF Halted, Returns
  <2>2. ~GaveUp(n) => Settled(Current(n))
    BY <1>1, <1>7 DEF Halted, NodeGoals, Settled
  <2>. QED
    BY <2>1, <2>2, LeavesRun
<1>8. CASE NoGoalYet(n)
  <2>1. bt' = bt /\ UNCHANGED <<run, status>>
    BY <1>1, <1>2, <1>8 DEF NoGoalYet, Returns
  <2>. QED
    BY <1>1, <2>1 DEF Client!vars
<1>9. CASE \/ TickRunning(n) \/ SpinForGoal(n) \/ Halt(n) \/ HaltWaits(n)
           \/ HaltTakesGoal(n) \/ SendCancel(n) \/ HaltGoesOn(n)
  <2>1. UNCHANGED <<bt, run, status>>
    BY <1>9 DEF TickRunning, SpinForGoal, Halt, HaltWaits, HaltTakesGoal, SendCancel,
       HaltGoesOn, HandleNothing, HandleEvent
  <2>. QED
    BY <1>1, <2>1 DEF Client!vars
<1>. QED
  BY <1>3, <1>4, <1>5, <1>6, <1>7, <1>8, <1>9 DEF NodeSteps, Tick, HaltSteps

\* The server, which meets a goal only after its run has begun.
LEMMA ServerKeepsContract ==
    ASSUME GoalInv, NEW g \in Goals, ServerSteps(g), UNCHANGED expired
    PROVE  [Client!Next]_(Client!vars)
<1>. DEFINE lost == {h[1] : h \in expired}
<1>. USE DEF GoalInv
<1>1. UNCHANGED <<bt, run, lost>> /\ Protocol(g)
  BY DEF ServerSteps, ServerDecides, ServerEnds, ServerSendsResult, ServerCancels, Server,
     ProtocolInv
<1>2. \A kind \in Kinds : Msg(kind, g) \in wire => g[2] <= run[g[1]]
  BY <1>1, GoalParts DEF Protocol, Sent
<1>3. status[g] # "unknown" => g[2] <= run[g[1]]
  BY <1>1, GoalParts DEF Protocol
<1>4. ASSUME g[2] <= run[g[1]],
             \/ Client!Server!Reject(g) \/ Client!Server!Accept(g)
             \/ Client!Server!Cancel(g) \/ Client!Server!Finish(g)
      PROVE  Client!Next
  BY <1>1, <1>4 DEF Client!Serve, Client!Next
<1>. USE DEF Client!Server!Moves
<1>5. CASE ServerDecides(g)
  <2>1. g[2] <= run[g[1]]
    BY <1>2, <1>5 DEF ServerDecides, Server, Kinds, ToServer
  <2>2. Client!Server!Reject(g) \/ Client!Server!Accept(g)
    BY <1>5 DEF ServerDecides, Server, Client!Server!Reject, Client!Server!Accept
  <2>. QED
    BY <1>4, <2>1, <2>2
<1>6. CASE ServerEnds(g)
  <2>1. g[2] <= run[g[1]]
    BY <1>3, <1>6 DEF ServerEnds, Server
  <2>2. Client!Server!Finish(g)
    BY <1>6 DEF ServerEnds, Server, Client!Server!Finish, Client!Server!Succeed,
       Client!Server!Abort, Client!Server!Canceled
  <2>. QED
    BY <1>4, <2>1, <2>2
<1>7. CASE ServerSendsResult(g)
  <2>1. status' = status
    BY <1>7 DEF ServerSendsResult, Server, IInv, TypeOK
  <2>. QED
    BY <1>1, <2>1 DEF Client!vars
<1>8. CASE ServerCancels(g)
  <2>1. status' = status \/ Client!Server!Cancel(g)
    BY <1>8 DEF ServerCancels, Server, IInv, TypeOK, Client!Server!Cancel
  <2>2. g[2] <= run[g[1]]
    BY <1>2, <1>8 DEF ServerCancels, Server, Kinds, ToServer
  <2>. QED
    BY <1>1, <1>4, <2>1, <2>2 DEF Client!vars
<1>. QED
  BY <1>5, <1>6, <1>7, <1>8 DEF ServerSteps

\* A time limit.
LEMMA LimitKeepsContract ==
    ASSUME GoalInv, NEW n \in Nodes, TimeLimit(n)
    PROVE  Client!Next
<1>. DEFINE lost == {g[1] : g \in expired}
<1>1. lost' = lost \cup {n} /\ UNCHANGED <<run, status>>
  BY DEF TimeLimit, Returns, Current
<1>2. bt[n] = "running"
  BY ThreadPlaces DEF TimeLimit, GoalInv, IInv, ThreadInv, DeadPlaces
<1>3. \E p \in {"running", "failure", "idle"} : bt' = [bt EXCEPT ![n] = p]
  <2>1. bt = [bt EXCEPT ![n] = "running"]
    BY <1>2 DEF GoalInv, IInv, TypeOK
  <2>. QED
    BY <2>1 DEF TimeLimit, Returns
<1>. QED
  BY <1>1, <1>2, <1>3 DEF Client!GiveUp, Client!Becomes, Client!Next

\* Nodes that share a client, with their server, keep to ActionClient: none
\* leaves its run before the server has ended its goal, and the verdict is the
\* server's, in whatever order the messages are handled and by whichever node.
THEOREM NodesKeepTheContract == Spec => ImplementsActionClient
<1>1. Init => Client!Init
  BY DEF Init, Client!Init, Client!Server!Init
<1>2. GoalInv /\ [Next]_vars => [Client!Next]_(Client!vars)
  <2>1. GoalInv /\ UNCHANGED vars => UNCHANGED Client!vars
    BY DEF vars, Client!vars
  <2>. QED
    BY <2>1, NodeKeepsContract, ServerKeepsContract, LimitKeepsContract DEF Next
<1>. QED
  BY GoalInvariant, <1>1, <1>2, PTL DEF Spec, ImplementsActionClient, Client!Spec

\* What follows from ActionClient alone.  A goal is unknown before its run, and
\* when a node that is not lost has left its run, it has ended.
ContractInv ==
    /\ bt \in [Nodes -> {"idle", "running", "success", "failure"}]
    /\ run \in [Nodes -> Nat]
    /\ status \in [Goals -> Client!Server!Statuses]
    /\ \A g \in Goals :
          /\ run[g[1]] < g[2] => status[g] = "unknown"
          /\ g[2] <= run[g[1]] /\ ~GaveUp(g[1]) /\ ~Live(g)
                => status[g] \in Client!Server!Terminal

\* At the start.
LEMMA ContractInit == Client!Init => ContractInv
<1>1. \A g \in Goals : g[1] \in Nodes /\ g[2] \in Nat /\ 0 < g[2]
  BY MaxRunsAssumption DEF Goals
<1>2. Client!Init => /\ \A n \in Nodes : run[n] = 0
                     /\ \A g \in Goals : status[g] = "unknown"
  BY DEF Client!Init, Client!Server!Init
<1>3. ASSUME Client!Init, NEW g \in Goals PROVE run[g[1]] < g[2]
  BY <1>1, <1>2, <1>3
<1>4. ASSUME Client!Init, NEW g \in Goals
      PROVE  ~(g[2] <= run[g[1]]) /\ status[g] = "unknown"
  BY <1>1, <1>2, <1>4
<1>. QED
  BY <1>4 DEF ContractInv, Client!Init, Client!Server!Init, Client!Server!Statuses

\* A step of a node.
LEMMA ContractNode ==
    ASSUME ContractInv, NEW n \in Nodes,
           \/ Client!Start(n) \/ Client!Refuse(n) \/ Client!Report(n) \/ Client!Halt(n)
           \/ Client!Reset(n) \/ Client!GiveUp(n) \/ Client!Astray(n)
    PROVE  ContractInv'
<1>. DEFINE lost == {g[1] : g \in expired}
<1>1. /\ status' = status /\ \A k \in Nodes \ {n} : bt'[k] = bt[k] /\ run'[k] = run[k]
      /\ bt' \in [Nodes -> {"idle", "running", "success", "failure"}]
      /\ run' \in [Nodes -> Nat]
      /\ lost' = lost \/ lost' = lost \cup {n}
      /\ \/ run'[n] = run[n] + 1 /\ bt[n] # "running" /\ bt'[n] = "running"
         \/ run'[n] = run[n]
  <2>. USE DEF ContractInv, Client!Becomes
  <2>1. CASE Client!Start(n)
    <3>1. /\ run' = [run EXCEPT ![n] = @ + 1] /\ bt' = [bt EXCEPT ![n] = "running"]
          /\ bt[n] = "idle" /\ status' = status /\ lost' = lost
      BY <2>1 DEF Client!Start, Client!MayStart
    <3>2. /\ run[n] \in Nat /\ run'[n] = run[n] + 1 /\ run' \in [Nodes -> Nat]
          /\ \A k \in Nodes \ {n} : run'[k] = run[k]
      BY <3>1
    <3>3. bt'[n] = "running" /\ \A k \in Nodes \ {n} : bt'[k] = bt[k]
      BY <3>1
    <3>. HIDE DEF lost
    <3>. QED
      BY <3>1, <3>2, <3>3
  <2>2. CASE Client!Refuse(n) \/ Client!Reset(n)
    BY <2>2 DEF Client!Refuse, Client!Reset
  <2>3. CASE Client!Report(n)
    BY <2>3 DEF Client!Report
  <2>4. CASE Client!Halt(n) \/ Client!Astray(n)
    BY <2>4 DEF Client!Halt, Client!Astray
  <2>5. CASE Client!GiveUp(n)
    <3>1. PICK p \in {"running", "failure", "idle"} : bt' = [bt EXCEPT ![n] = p]
      BY <2>5 DEF Client!GiveUp
    <3>2. status' = status /\ run' = run /\ lost' = lost \cup {n}
      BY <2>5 DEF Client!GiveUp
    <3>. QED
      BY <3>1, <3>2
  <2>. QED
    BY <2>1, <2>2, <2>3, <2>4, <2>5
<1>2. \A k : GaveUp(k) => GaveUp(k)'
  <2>1. \A k : (k \in lost <=> GaveUp(k)) /\ (k \in lost' <=> GaveUp(k)')
    BY DEF GaveUp
  <2>. HIDE DEF lost
  <2>. QED
    BY <1>1, <2>1
<1>3. \A g \in Goals : g[1] \in Nodes /\ g[2] \in Nat /\ run[g[1]] \in Nat /\ g = <<g[1], g[2]>>
  BY MaxRunsAssumption DEF ContractInv, Goals
<1>4. ASSUME bt[n] = "running", bt'[n] # "running", ~GaveUp(n)'
      PROVE  status[Current(n)] \in Client!Server!Terminal
  <2>1. n \notin lost'
    BY <1>4 DEF GaveUp
  <2>2. n \notin lost
    BY <1>1, <2>1
  <2>3. Client!Report(n) \/ Client!Halt(n)
    BY <1>4, <2>1, <2>2 DEF Client!Start, Client!Refuse, Client!MayStart, Client!Reset,
       Client!GiveUp, Client!Astray
  <2>. QED
    BY <2>3 DEF Client!Report, Client!Halt, Client!HasEnded, Client!Current, Current
<1>5. ASSUME NEW g \in Goals
      PROVE  /\ run'[g[1]] < g[2] => status'[g] = "unknown"
             /\ g[2] <= run'[g[1]] /\ ~GaveUp(g[1])' /\ ~Live(g)'
                   => status'[g] \in Client!Server!Terminal
  <2>1. CASE g[1] # n
    BY <1>1, <1>2, <1>3, <2>1 DEF ContractInv, Live, Current
  <2>2. CASE g[1] = n
    <3>1. run'[n] < g[2] => run[n] < g[2]
      BY <1>1, <1>3, <2>2
    <3>2. ASSUME g[2] <= run'[n], ~GaveUp(n)', ~Live(g)'
          PROVE  status[g] \in Client!Server!Terminal
      <4>1. g[2] <= run[n]
        BY <1>1, <1>3, <2>2, <3>2 DEF Live, Current
      <4>2. CASE ~Live(g)
        BY <1>2, <2>2, <3>2, <4>1, <4>2 DEF ContractInv
      <4>3. CASE Live(g)
        BY <1>1, <1>4, <2>2, <3>2, <4>3 DEF Live, Current
      <4>. QED
        BY <4>2, <4>3
    <3>. QED
      BY <1>1, <2>2, <3>1, <3>2 DEF ContractInv
  <2>. QED
    BY <2>1, <2>2
<1>. QED
  BY <1>1, <1>5 DEF ContractInv

\* A step of the server.
LEMMA ContractServer ==
    ASSUME ContractInv, NEW g \in Goals, Client!Serve(g)
    PROVE  ContractInv'
<1>. USE DEF Client!Server!Terminal, Client!Server!Statuses
<1>1. /\ status[g] \notin Client!Server!Terminal /\ g[2] <= run[g[1]]
      /\ \E to \in Client!Server!Statuses : status' = [status EXCEPT ![g] = to]
      /\ UNCHANGED <<bt, run>> /\ {h[1] : h \in expired}' = {h[1] : h \in expired}
  BY DEF Client!Serve, Client!Server!Reject, Client!Server!Accept, Client!Server!Cancel,
     Client!Server!Finish, Client!Server!Succeed, Client!Server!Abort, Client!Server!Canceled,
     Client!Server!Moves
<1>2. \A k : GaveUp(k)' <=> GaveUp(k)
  BY <1>1, LostNodes DEF GaveUp
<1>3. ~GaveUp(g[1]) => Live(g)
  BY <1>1 DEF ContractInv
<1>4. g[2] \in Nat /\ run[g[1]] \in Nat
  BY MaxRunsAssumption DEF ContractInv, Goals
<1>5. ~(run[g[1]] < g[2])
  BY <1>1, <1>4
<1>. QED
  BY <1>1, <1>2, <1>3, <1>5 DEF ContractInv, Live, Current

\* The contract is no weaker than what it is for: whatever keeps to it answers
\* SUCCESS for the present goal only, and leaves no goal behind.
THEOREM ContractIsEnough == Client!Spec => []NoGoalLeftBehind /\ VerdictIsOfThisRun
<1>1. ContractInv /\ [Client!Next]_(Client!vars) => ContractInv'
  <2>1. ContractInv /\ UNCHANGED Client!vars => ContractInv'
    <3>. SUFFICES ASSUME ContractInv, UNCHANGED Client!vars PROVE ContractInv'
      OBVIOUS
    <3>1. \A k : GaveUp(k)' <=> GaveUp(k)
      BY DEF GaveUp, Client!vars
    <3>. QED
      BY <3>1 DEF ContractInv, Client!vars, Live, Current
  <2>. QED
    BY <2>1, ContractNode, ContractServer DEF Client!Next
<1>2. ContractInv => NoGoalLeftBehind
  <2>. SUFFICES ASSUME ContractInv, NEW g \in Goals, status[g] \in {"executing", "canceling"},
                       ~GaveUp(g[1])
                PROVE  Live(g)
    BY DEF NoGoalLeftBehind, Live
  <2>1. g[2] \in Nat /\ run[g[1]] \in Nat
    BY MaxRunsAssumption DEF ContractInv, Goals
  <2>. QED
    BY <2>1 DEF ContractInv, Client!Server!Terminal
<1>3. ContractInv /\ [Client!Next]_(Client!vars) =>
        [\A n \in Nodes : bt[n] = "running" /\ bt'[n] = "success" /\ ~GaveUp(n)
            => status[Current(n)] = "succeeded"]_vars
  <2>. SUFFICES ASSUME ContractInv, [Client!Next]_(Client!vars), NEW n \in Nodes,
                       bt[n] = "running", bt'[n] = "success", ~GaveUp(n)
                PROVE  status[Current(n)] = "succeeded"
    OBVIOUS
  <2>1. PICK k \in Nodes : \/ Client!Start(k) \/ Client!Refuse(k) \/ Client!Report(k)
                           \/ Client!Halt(k) \/ Client!Reset(k) \/ Client!GiveUp(k)
                           \/ Client!Astray(k)
    BY DEF Client!Next, Client!vars, Client!Serve
  <2>2. k = n
    BY <2>1 DEF ContractInv, Client!Start, Client!Refuse, Client!Report, Client!Halt,
       Client!Reset, Client!GiveUp, Client!Astray, Client!Becomes
  <2>3. Client!Report(n)
    BY <2>1, <2>2, LostNodes DEF ContractInv, Client!Start, Client!Refuse, Client!Halt,
       Client!Reset, Client!GiveUp, Client!Astray, Client!Becomes, Client!MayStart
  <2>. QED
    BY <2>3 DEF ContractInv, Client!Report, Client!Becomes, Client!Current, Current
<1>. QED
  BY <1>1, <1>2, <1>3, ContractInit, PTL DEF Client!Spec, VerdictIsOfThisRun

-----------------------------------------------------------------------------
(* A tree that runs one action at a time.                                  *)

\* A node that runs and never gave up waiting has no answer of the server
\* before a tick that looks for it, and its goal has no result before the
\* tick that takes it, or the halt that asks for it.
AloneNode(n) ==
    bt[n] = "running" /\ ~GaveUp(n) =>
        /\ thread = Idle /\ ~received[n] => ~Responded(Current(n))
        /\ Msg("result", Current(n)) \in handled =>
              \/ At(n, "evaluate") /\ result[n] = Current(n)
              \/ At(n, "halt_cancel")
              \/ At(n, "halt_result")
              \/ Crashed

AloneInv ==
    /\ \A m, n \in Nodes : bt[m] = "running" /\ bt[n] = "running" => m = n
    /\ \A n \in Nodes : AloneNode(n)
    /\ ReceivedGoalIsSafe

\* A step of the node that runs is about no other node.
LEMMA OnlyTheRunning ==
    ASSUME AloneInv, NEW n \in Nodes, bt[n] = "running",
           \A k \in Nodes \ {n} : bt'[k] = bt[k],
           AloneNode(n)', ReceivedGoalIsSafe'
    PROVE  AloneInv'
<1>1. \A k \in Nodes \ {n} : bt'[k] # "running"
  BY DEF AloneInv
<1>. QED
  BY <1>1 DEF AloneInv, AloneNode

\* The current goal of a running node, and what has been said of it.
LEMMA RunningGoal ==
    ASSUME GoalInv, NEW n \in Nodes, bt[n] = "running"
    PROVE  /\ Current(n) \in Goals /\ Current(n)[1] = n /\ Protocol(Current(n))
           /\ NodeGoals(n)
<1>1. run[n] \in 1..MaxRuns[n]
  BY MaxRunsAssumption DEF GoalInv, IInv, TypeOK, ThreadInv
<1>. QED
  BY <1>1, CurrentIsGoal DEF GoalInv, ProtocolInv, NodeInv, Current

\* An event that the client handles for the running node.  A result finds the
\* goal handle that the tick has taken, or belongs to a node that gave up.
LEMMA EventAlone ==
    ASSUME GoalInv, AloneInv, UNCHANGED expired,
           NEW n \in Nodes, bt[n] = "running", NEW place \in TickPlaces \cup HaltPlaces,
           NEW m \in wire, HandleEvent(m, [node |-> n, at |-> place]),
           place \in {"wait", "waited", "halt_response"} =>
              GaveUp(n) \/ ~Responded(Current(n)),
           place = "evaluate" =>
              received[n] /\ (GaveUp(n) \/ Msg("result", Current(n)) \notin handled),
           place # "cancel"
    PROVE  AloneInv'
<1>. DEFINE g == m.goal
            next == [node |-> n, at |-> place]
<1>. USE DEF TickPlaces, HaltPlaces, DeadPlaces, Kinds, ToServer, ToClient
<1>1. m \in Message /\ g \in Goals /\ m = Msg(m.kind, g) /\ g[1] \in Nodes
  BY GoalOfNode DEF GoalInv, IInv, TypeOK, Message, Msg
<1>2. UNCHANGED <<bt, run, received, handle, expired>>
  BY DEF HandleEvent
<1>3. GaveUp(n)' = GaveUp(n) /\ GaveUp(g[1])' = GaveUp(g[1])
  BY <1>2 DEF GaveUp
<1>4. m.kind = "result" => GaveUp(g[1]) \/ g = Current(n)
  <2>. SUFFICES ASSUME m.kind = "result", ~GaveUp(g[1]) PROVE g = Current(n)
    OBVIOUS
  <2>1. Live(g)
    BY <1>1, ResultIsLive DEF GoalInv
  <2>2. g[1] = n
    BY <1>1, <2>1 DEF Live, AloneInv
  <2>. QED
    BY <2>1, <2>2 DEF Live
<1>5. Protocol(Current(n)) /\ NodeGoals(n) /\ Current(n) \in Goals /\ Current(n)[1] = n
  BY RunningGoal
<1>6. ~Responded(Current(n)) => ~Sent("result", Current(n))
  BY <1>5 DEF Protocol, Responded
<1>7. Msg("result", Current(n)) \in handled' <=>
          \/ Msg("result", Current(n)) \in handled
          \/ m.kind = "result" /\ g = Current(n)
  BY <1>1, SameMessage DEF HandleEvent
<1>8. CASE thread' = next
  <2>1. ~Crashed' /\ thread' # Idle /\ At(n, place)'
    BY <1>8 DEF Crashed, At, Idle
  <2>2. ASSUME ~GaveUp(n), Msg("result", Current(n)) \in handled'
        PROVE  \/ place = "evaluate" /\ result'[n] = Current(n)
               \/ place \in {"halt_cancel", "halt_result"}
    <3>1. CASE place \in {"wait", "waited", "halt_response"}
      BY <1>1, <1>6, <1>7, <2>2, <3>1 DEF Sent
    <3>2. CASE place = "evaluate"
      <4>1. m.kind = "result" /\ g = Current(n)
        BY <1>7, <2>2, <3>2
      <4>2. handle[n] = Current(n)
        BY <1>5, <3>2 DEF NodeGoals
      <4>. QED
        BY <1>5, <3>2, <4>1, <4>2 DEF HandleEvent, GoalInv, IInv, TypeOK
    <3>. QED
      BY <3>1, <3>2
  <2>3. AloneNode(n)'
    BY <1>2, <1>3, <2>1, <2>2 DEF AloneNode, Current
  <2>. QED
    BY <1>2, <2>1, <2>3, OnlyTheRunning DEF ReceivedGoalIsSafe
<1>9. CASE thread' # next
  <2>1. /\ thread' = [node |-> g[1], at |-> "null_handle"]
        /\ m.kind = "result" /\ handle[g[1]] = NoGoal
    BY <1>9 DEF HandleEvent
  <2>2. Crashed' /\ thread'.node = g[1] /\ thread' # Idle
    BY <2>1 DEF Crashed, Idle
  <2>3. received[g[1]] => GaveUp(g[1])
    <3>1. ~GaveUp(g[1]) => g[1] = n
      BY <1>4, <1>5, <2>1
    <3>. QED
      BY <1>5, <2>1, <3>1, NoGoalAssumption DEF NodeGoals
  <2>4. ReceivedGoalIsSafe'
    BY <1>2, <1>3, <2>2, <2>3 DEF ReceivedGoalIsSafe
  <2>5. AloneNode(n)'
    BY <2>2 DEF AloneNode
  <2>. QED
    BY <1>2, <2>4, <2>5, OnlyTheRunning
<1>. QED
  BY <1>8, <1>9

\* A step without an event, of the running node, to a place that needs nothing
\* to have been handled.
LEMMA QuietAlone ==
    ASSUME GoalInv, AloneInv, NEW n \in Nodes, bt[n] = "running",
           handled' = handled, run' = run, GaveUp(n)' = GaveUp(n),
           \A k \in Nodes \ {n} : bt'[k] = bt[k],
           ~Crashed',
           \/ bt'[n] # "running"
           \/ GaveUp(n)
           \/ /\ Msg("result", Current(n)) \notin handled
              /\ thread' = Idle /\ ~received'[n] => ~Responded(Current(n))
           \/ At(n, "halt_cancel")'
           \/ At(n, "halt_result")'
           \/ At(n, "evaluate")' /\ result'[n] = Current(n)
    PROVE  AloneInv'
<1>1. \A p \in {"evaluate", "halt_cancel", "halt_result"} : At(n, p)' => thread' # Idle
  BY DEF At, Idle
<1>2. AloneNode(n)'
  BY <1>1 DEF AloneNode, Current, Responded
<1>. QED
  BY <1>2, OnlyTheRunning DEF ReceivedGoalIsSafe

\* What is known of the thread at a place of a node, before it has been halted
\* in earnest.
LEMMA BeforeCancel ==
    ASSUME GoalInv, AloneInv, NEW n \in Nodes,
           NEW p \in {"wait", "waited", "evaluate", "halt_response", "cancel"}, At(n, p)
    PROVE  /\ bt[n] = "running" /\ ~Crashed /\ thread # Idle
           /\ \A new : [thread EXCEPT !.at = new] = [node |-> n, at |-> new]
           /\ ~GaveUp(n) => \/ Msg("result", Current(n)) \notin handled
                            \/ p = "evaluate" /\ result[n] = Current(n)
<1>. USE DEF DeadPlaces
<1>1. bt[n] = "running" /\ ~Crashed /\ thread # Idle
  BY ThreadPlaces DEF At, GoalInv, IInv, ThreadInv, Crashed
<1>2. \A q \in {"evaluate", "halt_cancel", "halt_result"} : At(n, q) => q = p
  BY DEF At
<1>. QED
  BY <1>1, <1>2 DEF AloneInv, AloneNode, At

\* Ticks of a tree that runs one action at a time.
LEMMA TickAlone ==
    ASSUME ~Overlap, GoalInv, AloneInv, UNCHANGED expired, NEW n \in Nodes,
           TickIdle(n) \/ TickRunning(n) \/ Tick(n) \/ ResetStatus(n)
    PROVE  AloneInv'
<1>. USE DEF TickPlaces, HaltPlaces, DeadPlaces
<1>1. \A k \in Nodes : GaveUp(k)' = GaveUp(k)
  BY DEF GaveUp
<1>2. ASSUME NEW s, Returns(n, s)
      PROVE  /\ handled' = handled /\ run' = run /\ result' = result
             /\ bt'[n] = s /\ \A k \in Nodes \ {n} : bt'[k] = bt[k]
             /\ thread' = Idle /\ ~Crashed'
  BY <1>2 DEF Returns, GoalInv, IInv, TypeOK, Crashed, Idle
<1>3. CASE TickIdle(n)
  <2>1. /\ bt[n] = "idle" /\ run[n] < MaxRuns[n] /\ thread' = Idle /\ handled' = handled
        /\ \A k \in Nodes \ {n} : bt[k] # "running" /\ bt'[k] = bt[k]
        /\ run'[n] \in Nat
        /\ bt'[n] = "running" => run'[n] = run[n] + 1
    BY <1>3 DEF TickIdle, MayTick, GoalInv, IInv, TypeOK
  <2>2. ~Crashed'
    BY <2>1 DEF Crashed, Idle
  <2>3. ASSUME bt'[n] = "running"
        PROVE  ~Responded(Current(n))' /\ Msg("result", Current(n)') \notin handled'
    <3>1. run[n] < run'[n] /\ run'[n] \in 1..MaxRuns[n] /\ Current(n)' = <<n, run'[n]>>
      BY <2>1, <2>3, MaxRunsAssumption DEF GoalInv, IInv, TypeOK, Current
    <3>2. <<n, run'[n]>> \in Goals
      BY <3>1 DEF Goals
    <3>3. \A kind \in Kinds : Msg(kind, <<n, run'[n]>>) \notin handled
      BY <3>1, <3>2 DEF GoalInv, ProtocolInv, Protocol, Sent
    <3>. QED
      BY <2>1, <3>1, <3>3 DEF Responded, Kinds, ToClient
  <2>4. AloneNode(n)'
    BY <2>3 DEF AloneNode, Current
  <2>5. \A k \in Nodes : bt'[k] = "running" => k = n
    BY <2>1
  <2>. QED
    BY <2>2, <2>4, <2>5 DEF AloneInv, AloneNode, ReceivedGoalIsSafe
<1>4. CASE TickRunning(n)
  <2>. DEFINE place == IF received[n] THEN "evaluate" ELSE "wait"
              next == [node |-> n, at |-> place]
  <2>1. /\ bt[n] = "running" /\ thread = Idle
        /\ HandleNothing(next) \/ \E m \in wire : HandleEvent(m, next)
    BY <1>4 DEF TickRunning
  <2>2. /\ GaveUp(n) \/ received[n] \/ ~Responded(Current(n))
        /\ GaveUp(n) \/ Msg("result", Current(n)) \notin handled
    BY <2>1 DEF AloneInv, AloneNode, At, Idle, Crashed
  <2>3. CASE HandleNothing(next)
    <3>1. /\ UNCHANGED <<bt, run, received, handle, result, handled>>
          /\ thread' = next /\ thread' # Idle /\ ~Crashed'
      BY <2>3 DEF HandleNothing, Crashed, Idle
    <3>. QED
      BY <1>1, <2>1, <2>2, <3>1, QuietAlone
  <2>4. ASSUME NEW m \in wire, HandleEvent(m, next) PROVE AloneInv'
    <3>1. place \in TickPlaces \cup HaltPlaces /\ place # "cancel"
      OBVIOUS
    <3>2. /\ place \in {"wait", "waited", "halt_response"} =>
                GaveUp(n) \/ ~Responded(Current(n))
          /\ place = "evaluate" =>
                received[n] /\ (GaveUp(n) \/ Msg("result", Current(n)) \notin handled)
      BY <2>2
    <3>. HIDE DEF place
    <3>. QED
      BY <2>1, <2>4, <3>1, <3>2, EventAlone
  <2>. QED
    BY <2>1, <2>3, <2>4
<1>5. CASE SpinForGoal(n)
  <2>1. /\ bt[n] = "running" /\ ~Responded(Current(n))
        /\ [thread EXCEPT !.at = "waited"] = [node |-> n, at |-> "waited"]
        /\ GaveUp(n) \/ Msg("result", Current(n)) \notin handled
    BY <1>5, BeforeCancel DEF SpinForGoal
  <2>. DEFINE next == [node |-> n, at |-> "waited"]
  <2>2. HandleNothing(next) \/ \E m \in wire : HandleEvent(m, next)
    BY <1>5, <2>1 DEF SpinForGoal
  <2>3. CASE HandleNothing(next)
    <3>1. /\ UNCHANGED <<bt, run, received, handle, result, handled>>
          /\ thread' = next /\ thread' # Idle /\ ~Crashed'
      BY <2>3 DEF HandleNothing, Crashed, Idle
    <3>. QED
      BY <1>1, <2>1, <3>1, QuietAlone
  <2>4. ASSUME NEW m \in wire, HandleEvent(m, next) PROVE AloneInv'
    BY <2>1, <2>4, EventAlone
  <2>. QED
    BY <2>2, <2>3, <2>4
<1>6. CASE NoGoalYet(n)
  <2>1. /\ bt[n] = "running" /\ ~Responded(Current(n))
        /\ GaveUp(n) \/ Msg("result", Current(n)) \notin handled
    BY <1>6, BeforeCancel DEF NoGoalYet
  <2>. QED
    BY <1>1, <1>2, <1>6, <2>1, QuietAlone DEF NoGoalYet
<1>7. CASE TakeGoal(n)
  <2>1. PICK p \in {"wait", "waited"} : At(n, p)
    BY <1>7 DEF TakeGoal
  <2>2. /\ bt[n] = "running"
        /\ [thread EXCEPT !.at = "evaluate"] = [node |-> n, at |-> "evaluate"]
        /\ GaveUp(n) \/ Msg("result", Current(n)) \notin handled
    BY <2>1, BeforeCancel
  <2>3. CASE Msg("accepted", Current(n)) \in handled
    <3>1. /\ UNCHANGED <<bt, run, result, handled>>
          /\ thread' = [node |-> n, at |-> "evaluate"] /\ thread' # Idle /\ ~Crashed'
      BY <1>7, <2>2, <2>3 DEF TakeGoal, Crashed, Idle
    <3>. QED
      BY <1>1, <2>2, <3>1, QuietAlone
  <2>4. CASE Msg("accepted", Current(n)) \notin handled
    BY <1>1, <1>2, <1>7, <2>2, <2>4, QuietAlone DEF TakeGoal
  <2>. QED
    BY <2>3, <2>4
<1>8. CASE Evaluate(n)
  <2>1. /\ bt[n] = "running"
        /\ \/ GaveUp(n) \/ Msg("result", Current(n)) \notin handled
           \/ result[n] = Current(n)
    BY <1>8, BeforeCancel DEF Evaluate
  <2>2. received[n] /\ Current(n) \in Goals
    BY <1>8, <2>1, RunningGoal DEF Evaluate, NodeGoals
  <2>3. CASE result[n] = NoGoal
    BY <1>1, <1>2, <1>8, <2>1, <2>2, <2>3, QuietAlone, NoGoalAssumption DEF Evaluate
  <2>4. CASE result[n] # NoGoal
    <3>1. bt'[n] # "running"
      BY <1>2, <1>8, <2>4 DEF Evaluate
    <3>. QED
      BY <1>1, <1>2, <1>8, <2>1, <3>1, QuietAlone DEF Evaluate
  <2>. QED
    BY <2>3, <2>4
<1>9. CASE ResetStatus(n)
  <2>1. /\ bt[n] # "running" /\ \A k \in Nodes : bt'[k] = "running" => bt[k] = "running"
        /\ UNCHANGED <<run, received, result, thread, handled>>
    BY <1>9 DEF ResetStatus, GoalInv, IInv, TypeOK
  <2>2. ASSUME NEW k \in Nodes PROVE AloneNode(k)'
    <3>1. AloneNode(k) /\ (bt'[k] = "running" => bt[k] = "running")
      BY <2>1 DEF AloneInv
    <3>. QED
      BY <1>1, <2>1, <3>1 DEF AloneNode, Current, Responded, At, Crashed
  <2>3. ReceivedGoalIsSafe'
    BY <2>1, UNCHANGED expired DEF AloneInv, ReceivedGoalIsSafe, GaveUp, Crashed
  <2>. QED
    BY <2>1, <2>2, <2>3 DEF AloneInv
<1>. QED
  BY <1>3, <1>4, <1>5, <1>6, <1>7, <1>8, <1>9 DEF Tick

\* Halts of a tree that runs one action at a time: the cancel of a goal that a
\* tick has taken finds its goal handle.
LEMMA HaltAlone ==
    ASSUME GoalInv, AloneInv, UNCHANGED expired, NEW n \in Nodes, Halt(n) \/ HaltSteps(n)
    PROVE  AloneInv'
<1>. USE DEF TickPlaces, HaltPlaces, DeadPlaces
<1>1. \A k \in Nodes : GaveUp(k)' = GaveUp(k)
  BY DEF GaveUp
<1>2. ASSUME NEW p \in {"halt_cancel", "halt_result"}, At(n, p)
      PROVE  /\ bt[n] = "running"
             /\ \A new : [thread EXCEPT !.at = new] = [node |-> n, at |-> new]
  BY <1>2, ThreadPlaces DEF At, GoalInv, IInv, ThreadInv
<1>3. CASE Halt(n)
  <2>1. /\ bt[n] = "running" /\ thread = Idle
        /\ UNCHANGED <<bt, run, received, result, handled>>
        /\ thread' # Idle /\ ~Crashed'
    BY <1>3 DEF Halt, Crashed, Idle
  <2>2. GaveUp(n) \/ Msg("result", Current(n)) \notin handled
    BY <2>1 DEF AloneInv, AloneNode, At, Idle, Crashed
  <2>. QED
    BY <1>1, <2>1, <2>2, QuietAlone
<1>4. CASE HaltWaits(n)
  <2>1. CASE At(n, "halt_response")
    <3>1. bt[n] = "running" /\ thread = [node |-> n, at |-> "halt_response"]
      BY <2>1, BeforeCancel DEF At
    <3>2. ~Responded(Current(n))
      BY <1>4, <3>1 DEF HaltWaits, Awaits, At
    <3>3. PICK m \in wire : HandleEvent(m, [node |-> n, at |-> "halt_response"])
      BY <1>4, <3>1 DEF HaltWaits
    <3>. QED
      BY <3>1, <3>2, <3>3, EventAlone
  <2>2. ASSUME NEW p \in {"halt_cancel", "halt_result"}, At(n, p) PROVE AloneInv'
    <3>1. bt[n] = "running" /\ thread = [node |-> n, at |-> p]
      BY <1>2, <2>2 DEF At
    <3>2. PICK m \in wire : HandleEvent(m, [node |-> n, at |-> p])
      BY <1>4, <3>1 DEF HaltWaits
    <3>. QED
      BY <3>1, <3>2, EventAlone
  <2>. QED
    BY <1>4, <2>1, <2>2 DEF HaltWaits, Awaits
<1>5. CASE HaltTakesGoal(n)
  <2>1. /\ bt[n] = "running"
        /\ [thread EXCEPT !.at = "cancel"] = [node |-> n, at |-> "cancel"]
        /\ GaveUp(n) \/ Msg("result", Current(n)) \notin handled
    BY <1>5, BeforeCancel DEF HaltTakesGoal
  <2>2. /\ UNCHANGED <<bt, run, received, result, handled>>
        /\ thread' # Idle /\ ~Crashed'
    BY <1>5, <2>1 DEF HaltTakesGoal, Crashed, Idle
  <2>. QED
    BY <1>1, <2>1, <2>2, QuietAlone
<1>6. CASE SendCancel(n)
  <2>1. /\ bt[n] = "running"
        /\ \A new : [thread EXCEPT !.at = new] = [node |-> n, at |-> new]
        /\ GaveUp(n) \/ Msg("result", Current(n)) \notin handled
    BY <1>6, BeforeCancel DEF SendCancel
  <2>2. UNCHANGED <<bt, run, received, handle, result, handled>>
    BY <1>6 DEF SendCancel
  <2>3. CASE handle[n] # NoGoal /\ Known(handle[n])
    <3>1. thread' = [node |-> n, at |-> "halt_cancel"]
      BY <1>6, <2>1, <2>3 DEF SendCancel
    <3>2. At(n, "halt_cancel")' /\ ~Crashed'
      BY <3>1 DEF At, Crashed
    <3>. QED
      BY <1>1, <2>1, <2>2, <3>2, QuietAlone
  <2>4. CASE ~(handle[n] # NoGoal /\ Known(handle[n]))
    <3>1. Crashed' /\ thread'.node = n /\ thread' # Idle
      BY <1>6, <2>1, <2>4 DEF SendCancel, Crashed, Idle
    <3>2. received[n] => GaveUp(n)
      <4>1. ASSUME received[n], ~GaveUp(n)
            PROVE  handle[n] = Current(n) /\ Known(Current(n)) /\ Current(n) \in Goals
        BY <2>1, <4>1, RunningGoal, NoGoalAssumption DEF NodeGoals, Known
      <4>. QED
        BY <2>4, <4>1, NoGoalAssumption
    <3>3. ReceivedGoalIsSafe'
      BY <1>1, <2>2, <3>1, <3>2 DEF ReceivedGoalIsSafe
    <3>4. AloneNode(n)'
      BY <3>1 DEF AloneNode
    <3>. QED
      BY <2>1, <2>2, <3>3, <3>4, OnlyTheRunning
  <2>. QED
    BY <2>3, <2>4
<1>7. CASE HaltGoesOn(n)
  <2>1. /\ bt[n] = "running" /\ thread' = [node |-> n, at |-> "halt_result"]
        /\ UNCHANGED <<bt, run, received, result, handled>>
    BY <1>2, <1>7 DEF HaltGoesOn, HandleNothing
  <2>2. At(n, "halt_result")' /\ ~Crashed'
    BY <2>1 DEF At, Crashed
  <2>. QED
    BY <1>1, <2>1, <2>2, QuietAlone
<1>8. CASE Halted(n)
  <2>1. bt[n] = "running"
    BY <1>2, <1>8 DEF Halted
  <2>2. /\ UNCHANGED <<run, received, result, handled>>
        /\ bt'[n] # "running" /\ \A k \in Nodes \ {n} : bt'[k] = bt[k]
        /\ ~Crashed'
    BY <1>8 DEF Halted, Returns, GoalInv, IInv, TypeOK, Crashed, Idle
  <2>. QED
    BY <1>1, <2>1, <2>2, QuietAlone
<1>. QED
  BY <1>3, <1>4, <1>5, <1>6, <1>7, <1>8 DEF HaltSteps

\* A time limit is one of the running node, which has given up then.
LEMMA LimitAlone ==
    ASSUME GoalInv, AloneInv, NEW n \in Nodes, TimeLimit(n)
    PROVE  AloneInv'
<1>1. PICK p \in {"waited", "halt_response", "halt_cancel", "halt_result"} : At(n, p)
  BY DEF TimeLimit
<1>2. /\ bt[n] = "running"
      /\ \A new : [thread EXCEPT !.at = new] = [node |-> n, at |-> new]
  BY <1>1, ThreadPlaces DEF At, GoalInv, IInv, ThreadInv, DeadPlaces
<1>3. GaveUp(n)' /\ \A k \in Nodes \ {n} : bt'[k] = bt[k]
  BY DEF TimeLimit, GaveUp, Current, Returns, GoalInv, IInv, TypeOK
<1>4. thread' \in {Idle, [node |-> n, at |-> "halt_result"]}
  BY <1>2 DEF TimeLimit, Returns
<1>5. ~Crashed'
  BY <1>4 DEF Crashed, DeadPlaces, Idle
<1>6. AloneNode(n)'
  BY <1>3 DEF AloneNode
<1>. QED
  BY <1>2, <1>3, <1>5, <1>6, OnlyTheRunning DEF ReceivedGoalIsSafe

\* A step that changes nothing that the node or its thread looks at.
LEMMA SilentAlone ==
    ASSUME AloneInv, UNCHANGED <<bt, run, received, handle, result, thread, handled, expired>>
    PROVE  AloneInv'
  BY DEF AloneInv, AloneNode, ReceivedGoalIsSafe, Current, Responded, At, Crashed, GaveUp

\* If the tree runs one action of a client at a time (Overlap is FALSE), a halt
\* or a result that comes after a tick has taken the goal meets a goal handle
\* that is there and known to the client, unless the node gave up waiting.
\* With overlapping runs one node handles the result of another, and the halt
\* of that one then throws: the hypothesis is needed.
THEOREM ReceivedGoalsAreSafe == Overlap = FALSE => (Spec => []ReceivedGoalIsSafe)
<1>. SUFFICES ASSUME Overlap = FALSE PROVE Spec => []ReceivedGoalIsSafe
  OBVIOUS
<1>1. Init => AloneInv
  BY DEF Init, AloneInv, AloneNode, ReceivedGoalIsSafe, Crashed, Idle, DeadPlaces
<1>2. GoalInv /\ AloneInv /\ [Next]_vars => AloneInv'
  <2>. SUFFICES ASSUME GoalInv, AloneInv, [Next]_vars PROVE AloneInv'
    OBVIOUS
  <2>1. ASSUME NEW n \in Nodes, NodeSteps(n), UNCHANGED expired PROVE AloneInv'
    BY <2>1, TickAlone, HaltAlone DEF NodeSteps
  <2>2. ASSUME NEW g \in Goals, ServerSteps(g), UNCHANGED expired PROVE AloneInv'
    <3>1. UNCHANGED <<bt, run, received, handle, result, thread, handled, expired>>
      BY <2>2 DEF ServerSteps, ServerDecides, ServerEnds, ServerSendsResult, ServerCancels, Server
    <3>. QED
      BY <3>1, SilentAlone
  <2>3. CASE UNCHANGED vars
    BY <2>3, SilentAlone DEF vars
  <2>. QED
    BY <2>1, <2>2, <2>3, LimitAlone DEF Next
<1>3. AloneInv => ReceivedGoalIsSafe
  BY DEF AloneInv
<1>. QED
  BY GoalInvariant, <1>1, <1>2, <1>3, PTL DEF Spec
==============================================================================
