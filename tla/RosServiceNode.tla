---------------------------- MODULE RosServiceNode ----------------------------
(***************************************************************************)
(* RosServiceNode of bt_service_node.hpp: the nodes of a tree that call    *)
(* services.  Nodes of the same service share one client instance, with    *)
(* its executor: whichever of them is ticked handles the answers to all.   *)
(* The first tick of a run sends the request, the later ones never block.  *)
(***************************************************************************)
EXTENDS Integers, SequencesExt

CONSTANTS
    Nodes,
    ServiceNames,
    Remapped,   \* the nodes whose port service_name points to the blackboard
    MaxRuns     \* bound: requests of a node

ASSUME NodesAssumption == Remapped \subseteq Nodes /\ MaxRuns \in Nat
Unset == ""
ASSUME UnsetAssumption == Unset \notin ServiceNames

VARIABLES
    ok,             \* rclcpp::ok()
    port,           \* what the port service_name of each node says
    service_name,   \* the service of each node's client instance
    bt,             \* NodeStatus of each node
    run,            \* requests it has sent; <<n, run[n]>> is the last of them
    expired,        \* service_timeout_ has passed since then
    asked,          \* requests a service has got through its instance
    answers,        \* answers that wait in the client of each instance
    completed       \* requests whose future is ready

nodeVars == <<bt, run, expired>>
wireVars == <<asked, answers, completed>>
vars == <<ok, port, service_name, nodeVars, wireVars>>

Requests == Nodes \X (1..MaxRuns)
Statuses == {"idle", "running", "success", "failure"}

TypeOK ==
    /\ ok \in BOOLEAN
    /\ port \in [Nodes -> ServiceNames]
    /\ service_name \in [Nodes -> ServiceNames \cup {Unset}]
    /\ bt \in [Nodes -> Statuses]
    /\ run \in [Nodes -> 0..MaxRuns]
    /\ expired \in [Nodes -> BOOLEAN]
    /\ asked \in [ServiceNames -> SUBSET Requests]
    /\ answers \in [ServiceNames -> Seq(Requests)]
    /\ completed \subseteq Requests
    /\ \A n \in Nodes : service_name[n] = Unset => n \in Remapped /\ run[n] = 0

\* The constructor makes the client of a name that it knows, which is the
\* default one, if there is one, for a node whose own is on the blackboard.
Init ==
    /\ ok = TRUE
    /\ port \in [Nodes -> ServiceNames]
    /\ service_name \in [Nodes -> ServiceNames \cup {Unset}]
    /\ \A n \in Nodes \ Remapped : service_name[n] = port[n]
    /\ bt = [n \in Nodes |-> "idle"]
    /\ run = [n \in Nodes |-> 0]
    /\ expired = [n \in Nodes |-> FALSE]
    /\ asked = [s \in ServiceNames |-> {}]
    /\ answers = [s \in ServiceNames |-> <<>>]
    /\ completed = {}

Current(n) == <<n, run[n]>>

Answers(n) == answers[service_name[n]]

-----------------------------------------------------------------------------
(* createClient().                                                         *)

\* The registry holds weak pointers: an instance lives as long as a node has
\* it, and takes its answers with it.
Kept(names, f, empty) == [s \in ServiceNames |-> IF s \in Range(names) THEN f[s] ELSE empty]

\* The service of the client that a tick of node n uses.
NameOf(n) == IF n \in Remapped /\ bt[n] = "idle" THEN port[n] ELSE service_name[n]

CreateClient(n) == service_name' = [service_name EXCEPT ![n] = NameOf(n)]

-----------------------------------------------------------------------------
(* tick().                                                                 *)

\* rclcpp::ok() is false: halt(), and FAILURE.
TickAfterShutdown(n) ==
    /\ ~ok
    /\ bt[n] \in {"idle", "running"}
    /\ bt' = [bt EXCEPT ![n] = "failure"]
    /\ UNCHANGED <<ok, port, service_name, run, expired, wireVars>>

\* INVALID_REQUEST or SERVICE_UNREACHABLE: no request is sent.
TickIdleFails(n) ==
    /\ ok /\ bt[n] = "idle"
    /\ CreateClient(n)
    /\ asked' = Kept(service_name', asked, {})
    /\ answers' = Kept(service_name', answers, <<>>)
    /\ bt' = [bt EXCEPT ![n] = "failure"]
    /\ UNCHANGED <<ok, port, run, expired, completed>>

TickIdleSends(n) ==
    /\ ok /\ bt[n] = "idle" /\ run[n] < MaxRuns
    /\ CreateClient(n)
    /\ run' = [run EXCEPT ![n] = @ + 1]
    /\ asked' = LET kept == Kept(service_name', asked, {})
                IN  [kept EXCEPT ![service_name'[n]] = @ \cup {<<n, run'[n]>>}]
    /\ answers' = Kept(service_name', answers, <<>>)
    /\ expired' = [expired EXCEPT ![n] = FALSE]
    /\ bt' = [bt EXCEPT ![n] = "running"]
    /\ UNCHANGED <<ok, port, completed>>

\* The answers that a tick of n handles: spin_some takes one, and
\* spin_until_future_complete, without any delay, one more unless the future
\* of n is ready by then.
Spun(n) ==
    LET first == Min({1, Len(Answers(n))})
        ready == Current(n) \in completed \cup Range(SubSeq(Answers(n), 1, first))
    IN  IF ready THEN first ELSE Min({2, Len(Answers(n))})

\* Mutant of Verdict: the limit is forgotten.
VerdictUnlimited(n, ready) == IF ready THEN "success" ELSE "running"

\* "success" stands for what onResponseReceived returns, "failure" for
\* SERVICE_TIMEOUT.
Verdict(n, ready) ==
    IF ready THEN "success" ELSE IF expired[n] THEN "failure" ELSE "running"

\* Mutant of FutureIsReady: response_received_ is not reset for a new run.
FutureOnceReady(n) == \E r \in 1..run[n] : <<n, r>> \in completed'

FutureIsReady(n) == Current(n) \in completed'

TickRunning(n) ==
    /\ ok /\ bt[n] = "running"
    /\ CreateClient(n)
    /\ completed' = completed \cup Range(SubSeq(Answers(n), 1, Spun(n)))
    /\ answers' = Kept(service_name', [answers EXCEPT ![service_name[n]] =
                                          SubSeq(@, Spun(n) + 1, Len(@))], <<>>)
    /\ asked' = Kept(service_name', asked, {})
    /\ bt' = [bt EXCEPT ![n] = Verdict(n, FutureIsReady(n))]
    /\ UNCHANGED <<ok, port, run, expired>>

\* halt() of a running node forgets nothing but its status; the tree resets
\* that of a node that has completed.
Halt(n) ==
    /\ bt[n] # "idle"
    /\ bt' = [bt EXCEPT ![n] = "idle"]
    /\ UNCHANGED <<ok, port, service_name, run, expired, wireVars>>

-----------------------------------------------------------------------------
(* The blackboard, the time and the services.                              *)

PortChanges(n) ==
    /\ n \in Remapped
    /\ \E s \in ServiceNames \ {port[n]} : port' = [port EXCEPT ![n] = s]
    /\ UNCHANGED <<ok, service_name, nodeVars, wireVars>>

TimePasses(n) ==
    /\ bt[n] = "running" /\ ~expired[n]
    /\ expired' = [expired EXCEPT ![n] = TRUE]
    /\ UNCHANGED <<ok, port, service_name, bt, run, wireVars>>

\* A service answers in any order, or never.
Answer(s, r) ==
    /\ r \in asked[s]
    /\ asked' = [asked EXCEPT ![s] = @ \ {r}]
    /\ answers' = [answers EXCEPT ![s] = Append(@, r)]
    /\ UNCHANGED <<ok, port, service_name, nodeVars, completed>>

Shutdown ==
    /\ ok
    /\ ok' = FALSE
    /\ UNCHANGED <<port, service_name, nodeVars, wireVars>>

Tick(n) == TickAfterShutdown(n) \/ TickIdleFails(n) \/ TickIdleSends(n) \/ TickRunning(n)

Next ==
    \/ Shutdown
    \/ \E n \in Nodes : Tick(n) \/ Halt(n) \/ PortChanges(n) \/ TimePasses(n)
    \/ \E s \in ServiceNames, r \in Requests : Answer(s, r)

Spec == Init /\ [][Next]_vars

\* A running node is ticked until it is halted, and the time passes.
FairSpec ==
    /\ Spec
    /\ \A n \in Nodes : WF_vars(TimePasses(n)) /\ WF_vars(TickRunning(n))
                        /\ WF_vars(TickAfterShutdown(n))

-----------------------------------------------------------------------------
(* Properties.                                                             *)

\* The request of a running node is never lost on the side of the client: its
\* answer is to come, or waits, in the client instance that the next tick of
\* the node spins.  No other node takes the instance away, and a new name in
\* the port waits for the next run.
RequestIsServed ==
    \A n \in Nodes : bt[n] = "running" =>
        Current(n) \in asked[service_name[n]] \cup Range(Answers(n)) \cup completed

\* The name in the port when a run begins is the service that is asked.
AsksTheService ==
    [][\A n \in Nodes : run'[n] # run[n] => <<n, run'[n]>> \in asked'[port[n]]]_vars

NextTwo(n) == {Answers(n)[k] : k \in DOMAIN Answers(n) \cap {1, 2}}

\* A node completes with a response only if it is the one to the request of
\* this run: late answers to runs that were halted or timed out, and answers
\* to other nodes, go through the same client and the same tick.  And
\* SERVICE_TIMEOUT is not reported of an answer that has arrived, unless two
\* answers to others are before it in the queue of the client.
VerdictIsOfThisRun ==
    [][\A n \in Nodes : bt[n] = "running" =>
          /\ bt'[n] = "success" => Current(n) \in Range(Answers(n)) \cup completed
          /\ ok /\ bt'[n] = "failure" =>
                Current(n) \notin completed \cup NextTwo(n)]_vars

\* A node that is not halted completes, whether or not its service answers.
RunCompletes == \A n \in Nodes : bt[n] = "running" ~> bt[n] # "running"
=============================================================================
