----------------------------- MODULE RosActionNode -----------------------------
(***************************************************************************)
(* BT::RosActionNode of BehaviorTree.ROS2, the base class of the action    *)
(* nodes of inrof_bt, with the action server they talk to.  Nodes of the   *)
(* same action share one client, and with it one executor: whichever node  *)
(* is ticked or halted handles the events of all of them.                  *)
(*                                                                         *)
(* The thread that ticks the tree runs every callback of the client, so    *)
(* its steps interleave with those of the server only.  A goal is named by *)
(* its node and the run of that node; a message is removed from the wire   *)
(* when it is handled.  Feedback is left out: neither server of the        *)
(* workspace publishes any, and both onFeedback return RUNNING.  So is the *)
(* tick after rclcpp has been shut down, which halts the node.             *)
(***************************************************************************)
EXTENDS Integers, FiniteSets

CONSTANTS
    Nodes,          \* the tree nodes that share a client
    MaxRuns,        \* bound on the goals each node sends
    MaxExpired,     \* bound on the goals that a node gives up waiting for
    Overlap,        \* the tree may tick a node while another one is running
    NoGoal

ASSUME MaxRunsAssumption == MaxRuns \in [Nodes -> Nat]
ASSUME MaxExpiredAssumption == MaxExpired \in Nat
ASSUME OverlapAssumption == Overlap \in BOOLEAN

Goals == UNION {{n} \X (1..MaxRuns[n]) : n \in Nodes}

ASSUME NoGoalAssumption == NoGoal \notin Goals

VARIABLES
    bt,         \* status() of each node
    run,        \* goals each node has sent
    received,   \* goal_received_
    handle,     \* goal_handle_
    result,     \* the goal that result_ is the result of
    thread,     \* the node that is ticked or halted, and the place it is at
    status,     \* goal state kept by the server
    wire,       \* messages between client and server
    handled,    \* messages that the client has handled
    expired     \* history: the goals whose node gave up waiting for the server

vars == <<bt, run, received, handle, result, thread, status, wire, handled, expired>>

ToServer == {"goal", "get_result", "cancel"}
ToClient == {"accepted", "rejected", "result", "cancel_answer"}
Message == [kind : ToServer \cup ToClient, goal : Goals]
Msg(kind, g) == [kind |-> kind, goal |-> g]

TickPlaces == {"wait", "waited", "evaluate"}
HaltPlaces == {"halt_response", "cancel", "halt_cancel", "halt_result"}
DeadPlaces == {"null_handle", "unknown_handle"}
Idle == [node |-> "none", at |-> "idle"]

TypeOK ==
    /\ bt \in [Nodes -> {"idle", "running", "success", "failure"}]
    /\ run \in [Nodes -> Nat] /\ \A n \in Nodes : run[n] <= MaxRuns[n]
    /\ received \in [Nodes -> BOOLEAN]
    /\ handle \in [Nodes -> Goals \cup {NoGoal}]
    /\ result \in [Nodes -> Goals \cup {NoGoal}]
    /\ thread \in [node : Nodes, at : TickPlaces \cup HaltPlaces \cup DeadPlaces]
                    \cup {Idle}
    /\ status \in [Goals -> {"unknown", "executing", "canceling", "rejected",
                             "succeeded", "aborted", "canceled"}]
    /\ wire \subseteq Message
    /\ handled \subseteq Message
    /\ expired \subseteq Goals

Init ==
    /\ bt = [n \in Nodes |-> "idle"]
    /\ run = [n \in Nodes |-> 0]
    /\ received = [n \in Nodes |-> FALSE]
    /\ handle = [n \in Nodes |-> NoGoal]
    /\ result = [n \in Nodes |-> NoGoal]
    /\ thread = Idle
    /\ status = [g \in Goals |-> "unknown"]
    /\ wire = {}
    /\ handled = {}
    /\ expired = {}

-----------------------------------------------------------------------------
(* The client of rclcpp_action.                                            *)

Current(n) == <<n, run[n]>>

Responded(g) == Msg("accepted", g) \in handled \/ Msg("rejected", g) \in handled

\* goal_handles_ holds a goal from its acceptance to its result.
Known(g) == Msg("accepted", g) \in handled /\ Msg("result", g) \notin handled

\* Mutant: result_callback takes only the results of goals that a tick has
\* not received yet.
HandleEventInTickOnly(m, next) ==
    LET n == m.goal[1] IN
    /\ m \in wire
    /\ m.kind \in ToClient
    /\ handled' = handled \cup {m}
    /\ wire' = (wire \ {m}) \cup
               (IF m.kind = "accepted" THEN {Msg("get_result", m.goal)} ELSE {})
    /\ result' = IF m.kind = "result" /\ handle[n] = m.goal /\ thread.at = "wait"
                 THEN [result EXCEPT ![n] = m.goal] ELSE result
    /\ thread' = next
    /\ UNCHANGED <<bt, run, received, handle, status>>

\* One event of the client is handled, and the thread goes on at the place
\* next.  An accepted goal is asked for its result at once; result_callback
\* takes a result only if goal_handle_ is that of its goal.
HandleEvent(m, next) ==
    LET n == m.goal[1] IN
    /\ m \in wire
    /\ m.kind \in ToClient
    /\ handled' = handled \cup {m}
    /\ wire' = (wire \ {m}) \cup
               (IF m.kind = "accepted" THEN {Msg("get_result", m.goal)} ELSE {})
    /\ result' = IF m.kind = "result" /\ handle[n] = m.goal
                 THEN [result EXCEPT ![n] = m.goal] ELSE result
    /\ thread' = IF m.kind = "result" /\ handle[n] = NoGoal
                 THEN [node |-> n, at |-> "null_handle"]
                 ELSE next
    /\ UNCHANGED <<bt, run, received, handle, status>>

\* The executor finds no event of the client that is ready.
HandleNothing(next) ==
    /\ thread' = next
    /\ UNCHANGED <<bt, run, received, handle, result, status, wire, handled>>

At(n, place) == thread = [node |-> n, at |-> place]

-----------------------------------------------------------------------------
(* tick().                                                                 *)

MayTick(n) == Overlap \/ \A m \in Nodes \ {n} : bt[m] # "running"

\* Mutant: result_ is not cleared when the node is run again.
TickIdleKeepsResult(n) ==
    /\ thread = Idle
    /\ bt[n] = "idle"
    /\ run[n] < MaxRuns[n]
    /\ MayTick(n)
    /\ received' = [received EXCEPT ![n] = FALSE]
    /\ \/ /\ bt' = [bt EXCEPT ![n] = "failure"]
          /\ UNCHANGED <<run, wire>>
       \/ /\ bt' = [bt EXCEPT ![n] = "running"]
          /\ run' = [run EXCEPT ![n] = @ + 1]
          /\ wire' = wire \cup {Msg("goal", <<n, run'[n]>>)}
    /\ UNCHANGED <<handle, result, thread, status, handled>>

\* The first tick of a run: setGoal fails, or the server is not ready, or the
\* goal is sent.  goal_handle_ keeps the goal of the run before.
TickIdle(n) ==
    /\ thread = Idle
    /\ bt[n] = "idle"
    /\ run[n] < MaxRuns[n]
    /\ MayTick(n)
    /\ received' = [received EXCEPT ![n] = FALSE]
    /\ result' = [result EXCEPT ![n] = NoGoal]
    /\ \/ /\ bt' = [bt EXCEPT ![n] = "failure"]
          /\ UNCHANGED <<run, wire>>
       \/ /\ bt' = [bt EXCEPT ![n] = "running"]
          /\ run' = [run EXCEPT ![n] = @ + 1]
          /\ wire' = wire \cup {Msg("goal", <<n, run'[n]>>)}
    /\ UNCHANGED <<handle, thread, status, handled>>

\* A later tick starts with spin_some, which handles at most one event of the
\* client.
TickRunning(n) ==
    /\ thread = Idle
    /\ bt[n] = "running"
    /\ LET next == [node |-> n, at |-> IF received[n] THEN "evaluate" ELSE "wait"] IN
       HandleNothing(next) \/ \E m \in wire : HandleEvent(m, next)

\* spin_until_future_complete without any delay handles one more.
SpinForGoal(n) ==
    /\ At(n, "wait")
    /\ ~Responded(Current(n))
    /\ LET next == [thread EXCEPT !.at = "waited"] IN
       HandleNothing(next) \/ \E m \in wire : HandleEvent(m, next)

Returns(n, s) ==
    /\ bt' = [bt EXCEPT ![n] = s]
    /\ thread' = Idle
    /\ UNCHANGED <<run, result, status, wire, handled>>

\* Still no response: the node stays running, as server_timeout_ is not over.
NoGoalYet(n) ==
    /\ At(n, "waited")
    /\ ~Responded(Current(n))
    /\ Returns(n, "running")
    /\ UNCHANGED <<received, handle>>

TakeGoal(n) ==
    /\ At(n, "wait") \/ At(n, "waited")
    /\ Responded(Current(n))
    /\ received' = [received EXCEPT ![n] = TRUE]
    /\ IF Msg("accepted", Current(n)) \in handled
       THEN /\ handle' = [handle EXCEPT ![n] = Current(n)]
            /\ thread' = [thread EXCEPT !.at = "evaluate"]
            /\ UNCHANGED <<bt, run, result, status, wire, handled>>
       ELSE /\ handle' = [handle EXCEPT ![n] = NoGoal]
            /\ Returns(n, "failure")

\* Mutant: an aborted goal is taken for one that is still running.
EvaluateIgnoresAborted(n) ==
    /\ At(n, "evaluate")
    /\ Returns(n, IF result[n] = NoGoal \/ status[result[n]] = "aborted" THEN "running"
                  ELSE IF status[result[n]] = "succeeded" THEN "success"
                  ELSE "failure")
    /\ UNCHANGED <<received, handle>>

\* onResultReceived answers SUCCESS to a goal that has succeeded, onFailure
\* answers FAILURE to one that was aborted or canceled.
Evaluate(n) ==
    /\ At(n, "evaluate")
    /\ Returns(n, IF result[n] = NoGoal THEN "running"
                  ELSE IF status[result[n]] = "succeeded" THEN "success"
                  ELSE "failure")
    /\ UNCHANGED <<received, handle>>

\* The parent resets a child that has completed.
ResetStatus(n) ==
    /\ thread = Idle
    /\ bt[n] \in {"success", "failure"}
    /\ bt' = [bt EXCEPT ![n] = "idle"]
    /\ UNCHANGED <<run, received, handle, result, thread, status, wire, handled>>

-----------------------------------------------------------------------------
(* halt(), that is cancelGoal().                                           *)

Halt(n) ==
    /\ thread = Idle
    /\ bt[n] = "running"
    /\ thread' = [node |-> n, at |-> IF handle[n] = NoGoal THEN "halt_response"
                                     ELSE "cancel"]
    /\ UNCHANGED <<bt, run, received, handle, result, status, wire, handled>>

\* The three waits, each for a message of one goal.
Awaits(n, g) ==
    \/ At(n, "halt_response") /\ ~Responded(g)
    \/ At(n, "halt_cancel") /\ Msg("cancel_answer", g) \notin handled
    \/ At(n, "halt_result") /\ Msg("result", g) \notin handled

HaltWaits(n) ==
    /\ Awaits(n, IF thread.at = "halt_response" THEN Current(n) ELSE handle[n])
    /\ \E m \in wire : HandleEvent(m, thread)

HaltTakesGoal(n) ==
    /\ At(n, "halt_response")
    /\ Responded(Current(n))
    /\ handle' = [handle EXCEPT ![n] =
                    IF Msg("accepted", Current(n)) \in handled THEN Current(n)
                    ELSE NoGoal]
    /\ thread' = [thread EXCEPT !.at = "cancel"]
    /\ UNCHANGED <<bt, run, received, result, status, wire, handled>>

\* async_get_result and async_cancel_goal: without a goal handle, as after a
\* rejection, the pointer is null; a goal that is not in goal_handles_ any
\* more makes them throw.
SendCancel(n) ==
    /\ At(n, "cancel")
    /\ thread' = [thread EXCEPT !.at =
                    IF handle[n] = NoGoal THEN "null_handle"
                    ELSE IF Known(handle[n]) THEN "halt_cancel"
                    ELSE "unknown_handle"]
    /\ wire' = IF thread'.at = "halt_cancel"
               THEN wire \cup {Msg("cancel", handle[n])} ELSE wire
    /\ UNCHANGED <<bt, run, received, handle, result, status, handled>>

HaltGoesOn(n) ==
    /\ At(n, "halt_cancel")
    /\ Msg("cancel_answer", handle[n]) \in handled
    /\ HandleNothing([thread EXCEPT !.at = "halt_result"])

\* Mutant: the node is idle as soon as the cancel has been answered.
HaltedOnAnswer(n) ==
    /\ At(n, "halt_result")
    /\ Returns(n, "idle")
    /\ UNCHANGED <<received, handle>>

Halted(n) ==
    /\ At(n, "halt_result")
    /\ Msg("result", handle[n]) \in handled
    /\ Returns(n, "idle")
    /\ UNCHANGED <<received, handle>>

-----------------------------------------------------------------------------
(* The action server.                                                      *)

Server(g, from, to, takes, gives) ==
    /\ takes \subseteq wire
    /\ status[g] \in from
    /\ status' = [status EXCEPT ![g] = to]
    /\ wire' = (wire \ takes) \cup gives
    /\ UNCHANGED <<bt, run, received, handle, result, thread, handled>>

Terminal == {"rejected", "succeeded", "aborted", "canceled"}

ServerDecides(g) ==
    \/ Server(g, {"unknown"}, "executing", {Msg("goal", g)}, {Msg("accepted", g)})
    \/ Server(g, {"unknown"}, "rejected", {Msg("goal", g)}, {Msg("rejected", g)})

\* The result of a goal is sent when it ends, or as soon as it is asked for.
ServerEnds(g) ==
    LET asked == Msg("get_result", g) \in wire
        takes == IF asked THEN {Msg("get_result", g)} ELSE {}
        gives == IF asked THEN {Msg("result", g)} ELSE {}
    IN
    \/ \E how \in {"succeeded", "aborted"} :
          Server(g, {"executing", "canceling"}, how, takes, gives)
    \/ Server(g, {"canceling"}, "canceled", takes, gives)

ServerSendsResult(g) ==
    Server(g, Terminal, status[g], {Msg("get_result", g)}, {Msg("result", g)})

\* handle_cancel accepts; a goal that has ended is left as it is.
ServerCancels(g) ==
    LET canceled == IF status[g] = "executing" THEN "canceling" ELSE status[g] IN
    Server(g, {"executing", "canceling"} \cup Terminal, canceled,
           {Msg("cancel", g)}, {Msg("cancel_answer", g)})

-----------------------------------------------------------------------------
(* server_timeout_ ends every wait for the server.  A tick then fails, a     *)
(* halt goes on with the next wait, and what the server does later finds a   *)
(* node that has moved on.                                                   *)

TimeLimit(n) ==
    /\ expired' = expired \cup {Current(n)}
    /\ Cardinality(expired') <= MaxExpired
    /\ \/ /\ At(n, "waited") /\ ~Responded(Current(n))
          /\ Returns(n, "failure")
       \/ /\ At(n, "halt_response") /\ Awaits(n, Current(n))
          /\ Returns(n, "idle")
       \/ /\ At(n, "halt_cancel") /\ Awaits(n, handle[n])
          /\ thread' = [thread EXCEPT !.at = "halt_result"]
          /\ UNCHANGED <<bt, run, result, status, wire, handled>>
       \/ /\ At(n, "halt_result") /\ Awaits(n, handle[n])
          /\ Returns(n, "idle")
    /\ UNCHANGED <<received, handle>>

-----------------------------------------------------------------------------
Tick(n) ==
    \/ SpinForGoal(n) \/ NoGoalYet(n) \/ TakeGoal(n) \/ Evaluate(n)

HaltSteps(n) ==
    HaltWaits(n) \/ HaltTakesGoal(n) \/ SendCancel(n) \/ HaltGoesOn(n) \/ Halted(n)

ServerSteps(g) ==
    ServerDecides(g) \/ ServerEnds(g) \/ ServerSendsResult(g) \/ ServerCancels(g)

NodeSteps(n) ==
    \/ TickIdle(n) \/ TickRunning(n) \/ Tick(n) \/ ResetStatus(n)
    \/ Halt(n) \/ HaltSteps(n)

Next ==
    \/ \E n \in Nodes : NodeSteps(n) /\ UNCHANGED expired
    \/ \E g \in Goals : ServerSteps(g) /\ UNCHANGED expired
    \/ \E n \in Nodes : TimeLimit(n)

Spec == Init /\ [][Next]_vars

\* The tree is ticked periodically and a wait ends with its time limit; the
\* server serves every goal; a message that has arrived makes the executor of
\* the client ready, which HandleNothing may overlook only until it arrives.
HandlesEvent ==
    /\ \E n \in Nodes : TickRunning(n) \/ Tick(n) \/ HaltSteps(n)
    /\ handled' # handled
    /\ UNCHANGED expired

FairSpec ==
    /\ Spec
    /\ \A n \in Nodes : WF_vars((TickRunning(n) \/ Tick(n) \/ HaltSteps(n))
                                 /\ UNCHANGED expired)
    /\ \A g \in Goals : WF_vars(ServerSteps(g) /\ UNCHANGED expired)
    /\ SF_vars(HandlesEvent)

-----------------------------------------------------------------------------
(* Properties.                                                             *)

Crashed == thread.at \in DeadPlaces

GaveUp(n) == \E g \in expired : g[1] = n

\* A node answers SUCCESS only for the goal of its present run: the result of
\* an earlier run, which may still be on its way, is not taken for it.  Only a
\* node that has once given up waiting may be mistaken (result_callback
\* compares with a handle that the new run has not replaced yet).
VerdictIsOfThisRun ==
    [][\A n \in Nodes :
          bt[n] = "running" /\ bt'[n] = "success" /\ ~GaveUp(n)
          => status[Current(n)] = "succeeded"]_vars

\* What the nodes and the server owe each other: a node leaves its run, with a
\* verdict or halted, only when its present goal has ended at the server, and
\* the verdict says how; unless it once gave up waiting.  Handles, messages and
\* the executor that the nodes share are not to be seen from outside.
Client == INSTANCE ActionClient WITH phase <- bt, lost <- {g[1] : g \in expired}

ImplementsActionClient == Client!Spec

\* The server executes a goal only for a node that is running it: neither a
\* completed nor a halted node leaves a goal behind, unless it has given up
\* waiting for the server.
NoGoalLeftBehind ==
    \A g \in Goals :
        status[g] \in {"executing", "canceling"} /\ ~GaveUp(g[1])
        => bt[g[1]] = "running" /\ g = Current(g[1])

\* Once a tick has taken the answer of the server, halting the node or
\* handling the result of its goal never meets a missing or a forgotten goal
\* handle; a crash needs a halt before that, or a node that has given up.
ReceivedGoalIsSafe ==
    Crashed => ~received[thread.node] \/ GaveUp(thread.node)

\* A running node completes, or is halted, or its client throws: no answer of
\* the server is lost between the node and the executor it shares.
RunCompletes ==
    \A n \in Nodes : bt[n] = "running" ~> bt[n] # "running" \/ Crashed

\* What the header says of cancelGoal: it asks the server to cancel the
\* current goal.
CancelsCurrentGoal ==
    \A n \in Nodes : At(n, "cancel") => handle[n] \in {Current(n), NoGoal}

\* What the header says of onResultReceived: it is called when the result is
\* received.  Here, the node has the result once its client has handled it and
\* the goal itself has been taken.
ReceivedResultIsTaken ==
    \A n \in Nodes :
        /\ bt[n] = "running" /\ received[n] /\ ~Crashed
        /\ Msg("result", Current(n)) \in handled
        => result[n] = Current(n)
=============================================================================
