# TLA+ specifications of aky_ws

`aky_ws` is a ROS 2 (Humble) workspace for a contest: a *leader*, which is a
moving point and not a robot, is led along a route, and a fleet of real
*follower* robots flocks after it while it keeps away from the walls of a map.
A behavior tree sequences the mission.  This directory holds the TLA+ modules
of its control logic, the TLC instances that check them, and TLAPS proofs.
Paths below are relative to the repository; `BTR` stands for
`src/BehaviorTree.ROS2/behaviortree_ros2`.

## 1. Inventory

### The parts and how they interact

```
 inrof_bt_node ── tree of LifecycleAction, Delay, LeaderPosAction (RosActionNode)
     │ action lifecycle_server                 │ action leader_pos
     ▼                                         ▼
 lifecycle_server                       leader_pos_server   (or leader_rl)
     │ get_available_transitions,              │ service path_gen ─► path_generate_server
     │ change_state                            │ topic leader/odometry
     ▼                                         ▼
 follower_node (managed) ◄── topics map, robot_i/odometry, leader/odometry
     └── topics robot_i/cmd_vel;  distance field and flocking law of inrof_swerm/core
```

| component | source | state it keeps | operations | module |
|---|---|---|---|---|
| follower node | `inrof_swerm/src/ros/follower_node.cpp` | lifecycle state, parameters twice (store and `boid_params_`), map subscription, core, publishers, subscriptions, matrices, timer | 5 transitions, `on_error`, parameter, map, 2 odometry callbacks, control timer | `FollowerNode` |
| distance field | `inrof_swerm/src/core/boid_core.cpp` | `distance` matrix, priority queue | one turn of the Dijkstra loop | `DistanceField` |
| flocking law | `inrof_swerm/src/core/*_core.cpp` | none (floating point) | `make_wall_power`; the flocking sums of `update_vels` are left out | `WallPower` |
| lifecycle server | `inrof_bt/src/lifecycle_server.cpp` | goals, one detached thread each, clients of the node | `handle_goal`, `handle_cancel`, `handle_accepted`, `execute` | `LifecycleServer` |
| leader position server | `inrof_control/src/leader_pos_server.cpp` | goals, one detached thread each, route and index | `handle_goal`, `handle_cancel`, `execute` | `LeaderPosServer` |
| path server | `inrof_control/src/path_generate_server.cpp` | none | `gen_path` | `PathGenerate` |
| leader by learning | `inrof_control/.../leader_rl.py` | odometry of all robots, goals, threads of the executor | `odom_callback`, `action_callback`, timer of `rate_` | `LeaderRL` |
| tree of the mission | `inrof_bt/src/inrof_bt_node.cpp`, `config/main_bt.xml` | ports, node statuses | `tickWhileRunning` | `Mission` |
| action nodes | `BTR/include/.../bt_action_node.hpp`, `inrof_bt/src/bt/*.cpp` | `goal_handle_`, `result_`, futures, shared client | `tick`, `halt`, `cancelGoal`; `setGoal` with its parser, `onResultReceived` | `RosActionNode`, `Mission` |
| service nodes | `BTR/include/.../bt_service_node.hpp` | client registry, futures, time limit | constructor, `createClient`, `tick`, `halt` | `RosServiceNode` |
| topic nodes | `BTR/include/.../bt_topic_*_node.hpp` | subscription registry, broadcaster, last messages | constructors, `createSubscriber`, `createPublisher`, `tick` | `RosTopicNodes` |
| tree server | `BTR/src/tree_execution_server.cpp` | factory, tree, payload, thread, goals | action callbacks, `executeRegistration`, `execute` | `TreeExecutionServer` |
| training environments | `inrof_mujoco/src/inrof_mujoco/*.py` | episode counters, reached balls | `reset`, `step` | not modelled |
| boid and sheep nodes, converters, launch files, messages | `inrof_swerm/src/ros/boid_node.cpp`, ... | fixed in the constructor | - | not modelled |

### What is hard in it

* **Two copies and four containers in the follower node.**  Parameters live in
  the store and in members; matrices are sized in `on_configure`, core and
  publishers in `on_activate`, and a timer indexes all of them.  Transitions
  may be repeated in any legal order and may throw half-way.  Correct means:
  indices in range, the right robot addressed, no robot left moving, no map of
  an earlier configuration, no invalid gain.
* **Detached threads per goal.**  Both action servers run `execute()` in a
  detached thread beside the executor.  Goals interleave with each other, with
  cancels taken at any time, with another client of the managed node, with its
  death, and with SIGINT, which ends the executor and interrupts the waits of
  the threads.  Correct means: results tell the truth, cancels are honoured,
  goals end, and no goal transition is tried that rcl_action forbids, because
  that would throw in a detached thread.
* **Waits with and without limits.**  The lifecycle server waits 100 ms for the
  available transitions but for ever for `change_state`; the leader server
  waits for ever for a path, but looks at cancels meanwhile.
* **A shared client.**  Action nodes of the same action share one client and
  one executor; the events of one node are handled inside the tick of another.
* **Shared registries.**  Service nodes of a service share a client, subscriber
  nodes of a topic a subscription of depth 1; whichever node is ticked takes
  what has come for all.  The registry holds weak pointers, and a node may
  change its name on the blackboard between two ticks.
* **A sequence without a clean-up.**  The mission asks a managed node, then
  leads, then asks again.  Each step may be refused, fail, be given up, or end
  after the world has changed.
* **Reentrant callbacks.**  In `leader_rl` messages and goals run in a pool of
  threads; a goal keeps its thread while it sleeps, and the timer that wakes
  it needs another one.
* **A thread that is joined by the executor.**  The tree server joins the thread
  of the last goal in the callback that accepts the next.  The thread leaves its
  loop in several ways, and each must report the goal and end it, once.
* **Stale queue entries.**  The distance field is a Dijkstra with lazy deletion
  over a heap that leaves equal keys in any order.

`PROJECT.json` lists these hazards line by line, with the properties that
cover them, and says why where none does.

## 2. Modules

| module | what it is |
|---|---|
| `ManagedNode` | abstract specification: the primary states of a managed node and the ways between them, as clients of its services see them |
| `FollowerNode`, `FollowerNodeProofs` | the managed node that drives the robots, and its safety proofs |
| `ActionGoals` | abstract specification: what an action server may do with its goals |
| `LifecycleServer`, `LifecycleServerProofs` | the lifecycle server with the managed node; implements `ActionGoals` and `ManagedNode`, with proofs |
| `PathGenerate`, `LeaderPosServer`, `LeaderPosServerProofs` | `gen_path` as an operator, and the leader server; implements `ActionGoals`, with proofs of both |
| `LeaderRL`, `TreeExecutionServer` | the leader by learning, and the tree server; both implement `ActionGoals` |
| `ActionServerProofs` | proofs of these two |
| `ActionClient` | abstract specification: what the action nodes of a tree and their server owe each other, over `ActionGoals` |
| `RosActionNode`, `RosActionNodeProofs` | action nodes, their client and a server; implements `ActionClient`, with proofs |
| `Mission`, `MissionProofs` | the tree of the mission, composed of `LifecycleServer`, `LeaderPosServer` and the client; implements `ActionClient`, with proofs |
| `RosServiceNode` | service nodes, their shared clients and the services |
| `RosTopicNodes` | subscriber nodes with their shared subscriptions, and publisher nodes |
| `RosNodesProofs` | proofs of these two |
| `DistanceField`, `WallPower`, `DistanceFieldProofs` | the distance field, with its reference definition; the push off the walls, which reads it; proofs of both |
| `MC*` | instances for TLC |

Operators with a comment that starts with `Mutant` are deliberate
mistakes: each of them breaks the property `PROJECT.json` pairs it with, so
that the property is known to say something.

### FollowerNode

`follower_main.cpp` spins one single-threaded executor, so one action is one
callback.  `lifecycle` is the primary state; `storeNum` and `storeGains` are
the parameter store, `boidNum` and `gains` the members `boid_params_` and
`k_follow_`.  Of a map only its identity is kept, of a matrix its columns, of a
double its place in an order of a few values and `NotFinite`, of a command
whether it came from the controller (`drive`) or from `control_stop` (`stop`).
`cmd_vel_publishers_` is a sequence of robots, so the effect of appending to a
vector that was not emptied can be seen.

`OnConfigure`, `OnActivate`, ... are the transitions that return SUCCESS,
`OnActivateRefused` the one that returns FAILURE because no map has come.
`Throws` are the same transitions left by an exception of the middleware at
any place (p publishers and s subscriptions made, k zero twists sent), followed
by `on_error`, which sends the zero twist and returns SUCCESS.  Publishers are
held as `rclcpp::Publisher`, so the gate of `LifecyclePublisher` is not used
and a command sent in the inactive state does arrive.

### LifecycleServer

`pc[g]` is the place of the thread of goal `g`; `handling` and `offer` are the
goal that `handle_goal` blocks the executor with and the answer it waits for.
The managed node is the default state machine of `rcl_lifecycle`: `Available`
and `Leads` are its transitions.  The request for a change carries the id and
the label of the transition that the node has offered, and the node looks the
label up among the transitions of the state it is in by then: `Resolved`.
`OtherClient`, `NodeDies` and `NodeRestarts` are the environment.  A request
that a dead node has not answered is lost.  `NodeIsManaged` says that the node
of this module moves as `ManagedNode` does, a relaunch added.

`Shutdown` is SIGINT: the executor takes nothing more, and each of the three
`spin_until_future_complete` returns, however the answer stands.  The wait for
`change_state` then ends by `Interrupt`, and the goal is aborted.  The place of
such a thread says what has become of its request: it is still at the node, which
may serve it later (`interrupted`), it was answered and nobody heard it
(`unheard`), or it has died with the node (`done`).

### LeaderPosServer and PathGenerate

The service `path_gen` is `PathArrives`.  A request sent before the path
server is up is lost (`request_lost`), as the client does not wait for it.
`leader` is the last pose on `leader/odometry` and the goal that published
it.  `Walk` is the loop of `gen_path` over the segments of a route, a recursive
function of the number of segments walked.  `GenPath` is exact in integers for
routes parallel to an axis, as all shipped routes are (`RequestsAssumption`).
The rounding of oblique headings is left out.

### TreeExecutionServer

`pc[g]` is the place of a goal: waiting in `join()`, or in the thread.
`version`, `params` and `factory` number the states of the parameter listener,
of `p_->params` and of the registered trees.  `report` is the sequence of the
calls of `onTreeExecutionCompleted` for a goal; each has the argument
`was_cancelled` and, as history, its `cause`.

The loop is left by a cancel (`StopOnCancel`), by `onLoopAfterTick`
(`StopAfterTick`), by the end of the tree or a shutdown (`Finish`), or by an
exception of a tick (`Tick`) or of the halt of a node (`HaltThrows`), which abort
the goal without a report.  `CreateTree` throws for a tree that is not
registered, and for any tree if the publisher for Groot2 cannot be made.
`executeRegistration` is called outside of the `try`, and in the timer: an
exception there ends the process (`RegistrationThrows`).  The methods that a
derived class may override are assumed not to throw.

### ActionClient

A tree sees of an action node its status (`phase`), and the server the goals
that the node has sent (`run` counts them).  A node leaves its present run only
when the server has ended the goal of that run, with the verdict of the server
(`Report`) or halted (`Halt`); a goal that has not been sent is not served.
`Refuse` is a `setGoal` that returns false, or a server that is not there.
`GiveUp` is a time limit: the node stops waiting, its goal may go on, and of
its later runs no more is promised than their order (`Astray`), as the node
may then take a late answer for a present one.

### RosActionNode

The thread that ticks the tree is the only one of the client: `thread` is the
node and the place it is at.  `wire` holds the messages on their way in either
direction, in no order, `handled` those that the client has taken.  A goal is
a node and one of its runs, so stale goal handles and results can be told from
present ones.  `null_handle` and `unknown_handle` are the places where the code
dereferences a null pointer or rclcpp_action throws `UnknownGoalHandleError`.

It implements `ActionClient` with `phase <- bt`; a node is lost if one of its
goals is in `expired`.  The thread, handles and messages are not to be seen.

### Mission

`main_bt.xml` is a `Sequence` of four action nodes with a delay before the
second: follower inactive, active, leader along the route, follower inactive.
`step` is the child that is ticked, `sent` the steps whose goal has been sent,
`verdict` what `tickWhileRunning` returns, or `terminated` if an exception of
`setGoal` ends the process.  `Lifecycle` and `Leader` are INSTANCEs of the
server modules, with one goal per step and all of their actions but their
shutdowns; a step is as little of its action
node as the tree sees: it sends, gives up (`GiveUp`, a time limit or a SIGINT)
or ends by `Advance`.  Of the ports the words are kept: `ParseState` is
`parse_lifecycle_state` with the cut to `uint8_t`, `WaypointsGoal` the order in
which `setGoal` of the leader refuses a waypoint or throws.

It implements `ActionClient` too, with one goal per step: `Phase` reads the
status of each child from `step`, `sent` and `verdict`, and a step that the
mission gave up is lost.  So the steps that `Mission` puts in place of whole
action nodes stay within the contract that `RosActionNode` is proved to keep.

### RosServiceNode and RosTopicNodes

`service_name[n]` and `topic_name_[n]` are the instance that a node holds.  The
registries hold weak pointers, hence `Kept`: an instance that no node holds is
gone with what waited in it.  `answers[s]` is the queue of one client; `Spun` is
how many a tick takes, one by `spin_some` and one by
`spin_until_future_complete` with a delay of zero.  The queue of a subscription
has depth 1.  `Listeners` are the nodes that the broadcaster calls: all that
ever connected, as none disconnects.  `handed`, `repeated` and `moved` are
history, as is `overlapped` in `LeaderRL`.

### LeaderRL

A running callback is a message and the next of its three assignments, which
the interpreter lock keeps whole.  Goals and callbacks take threads of the
executor.  The server registers neither a goal nor a cancel callback, so the
defaults of rclpy hold: goals are accepted and cancels are rejected, so that
the cancel check of the loop never finds anything (section 3).  A robot
moves on a line and its n-th message says that it is at n; 0 is the NaN of the
beginning.  The policy's output goes nowhere but to a publisher.

### DistanceField and WallPower

The queue is a set of pairs.  `Top` is any entry with the smallest key.  The
step costs are integers: 5 and 7 stand for 1 and the square root of 2 in the
runs, while the proofs take any costs with `StepAssumption`.  `WallPower` adds
`make_wall_power`: the cell of a position in a map that is turned by quarter
turns, the border where it gives up, the four neighbours it reads, and the
direction of its result in the frame of the world.

## 3. Runs

| run | instance | what it shows |
|---|---|---|
| `follower` | 2 robots, 2 maps, 2 tunable gains with 3 ranks and NaN, 1 exception | indices, addresses, robots that can be reached and are stopped, maps, accepted gains; every robot is driven |
| `lifecycle` | 2 goals, 3 target states, 1 death, 1 other client's transition, a shutdown | truthful results, one winner, cancels in time, one unbounded wait |
| `leader` | 2 goals with crossing routes, or 1 goal with any axis-parallel route on 5 x 5 of at most 2 waypoints | poses in order, at the resolution and to the end; cancels; only a lost request hangs; refinement of `ActionGoals` |
| `distance` | all 512 grids of 3 x 3; positions up to two cells off the map, on half cells, in four quarter turns | the loop ends and the field is exact; the wall power pushes off |
| `tree` | 2 goals, 2 parameter changes | one tree at a time, every end reported once and for its cause, parameters, accepted cancels end |
| `action_node` | 2 nodes in sequence, one run twice, 1 goal given up | refinement of `ActionClient`, no goal left behind, handles, completion |
| `mission` | 3 sets of state ports, 3 waypoint ports, 1 death, 1 other client's transition | refinement of `ActionClient`, the leader leads active followers, success is earned, who ends the active state, what a failure leaves, the mission ends |
| `leader_rl` | 2 robots, 2 goals, 2 threads, 2 messages of each robot | nothing unset is read, what is stored is the newest, sleeps end |
| `service` | 2 nodes, one of them remapped, 2 services, 2 requests of each | a verdict or a time limit is that of the run; completion |
| `topics` | 2 subscribers, 1 publisher, 2 topics, 2 messages of each | every node is handed the newest message, once; no node is forgotten |
| `action_halt`, `action_parallel` | as `action_node`; in parallel | expected violations, see below |

A property that section 4 proves for every instance is checked by a run too if
it is one a reader should see fail under a mutant.  The others are left to the
proofs: most type invariants, and `VerdictIsOfThisRun` of `RosActionNode`, which
its refinement of `ActionClient` contains.

*Why the bounds are enough.*  Two robots are the fewest for which an index may
be off by one and yet in range, and for which commands may be shifted.  Two
maps tell a stale one from a fresh one.  The bounds of `parameters_callback`
compare two gains, hence two tunables; three ranks give less, equal and more.
One exception already leaves every partial state that the transitions can
leave; the proofs hold for any number.  Two goals are the fewest that race;
the code treats goals alike and keeps no state that counts them.  One crash and
one foreign transition hit each place of a thread in some behaviour.  A 3 x 3
grid has corners, edges and an inner cell, one or several occupied cells
on every side, and cells improved after they were queued.  One run more than
one shows what a node keeps between runs.  The state ports of the mission are
the shipped ones, the same states in other words, and one that is right only
after an overflow; its waypoints are all pairs, a pair followed by a wrong
length and a wrong word, and a wrong word alone.  Two threads are the fewest in
which two callbacks overlap, and two goals can hold all of them.  Two services
or topics are enough for a node to leave one that another node keeps, or that
nobody does; two messages, or requests, for one to be late or overwritten.

*Deadlock* is not checked where a program ends: after all goals of the bound
have ended, after the mission, after the last request or message of a bound,
after the queue has run empty.  It is checked for the follower.

*Fairness.*  `FollowerNode`: weak fairness of the control timer, a timer that
is due stays due until the executor serves it.  `LifecycleServer`: each thread
is scheduled, the executor finishes what it handles, and a living node serves
`change_state`; nothing is assumed of `get_available_transitions`, whose wait
has a limit.  `LeaderPosServer`: threads, and a path service that has the
request.  `TreeExecutionServer`: threads, and the end of a `join()` whose
thread has ended.  In these three, threads and executor are fair only until the
shutdown (`ok`): `main` returns after it, and the process may end before a
detached thread has gone on.  So their liveness says nothing of a server that
was shut down.  `RosActionNode`: the tree is ticked, the server serves each
goal, and strong fairness of handling an event, as the executor can overlook
an event only as long as it has not arrived; a server may be unfair for as
long as a time limit, since `TimeLimit` needs no fairness to happen.
`Mission`: the tree is ticked by `tickWhileRunning`, and the servers are fair
as in their own modules; `GiveUp` needs no fairness.  `LeaderRL`: threads are
scheduled, and a timer that is due is served once a thread is free.
`RosServiceNode`: a running node is ticked, and time passes; nothing is assumed
of the services.  `RosTopicNodes`: the subscriber nodes are ticked.
`DistanceField` is a loop.

*Disagreements with the documentation* (`findings` in `PROJECT.json`):

* `action_halt`: a node that is run again and halted before the answer to its
  new goal has been taken cancels the goal of its earlier run; the call throws
  and the new goal goes on.  The header says the current goal is cancelled.
* `action_parallel`: with two nodes of a client in parallel, the result of a
  node that is run again is dropped if the other node handles it first, and the
  node runs for ever.  The header says a callback is called on the result.

The mission of the workspace runs each node once and in sequence, so it meets
neither.  Three more show by reading alone; the models do what the code does, and
no property takes the side of either:

* The argument `was_cancelled` of `onTreeExecutionCompleted` is false when the
  tree completes and true when the client cancels *or* `onLoopAfterTick` ends the
  loop; `tree_execution_server.md:57` says the reverse, and
  `tree_execution_server.hpp:131` names the client only.  `EndedGoalIsReported`
  speaks of the `cause` of a call, not of this argument.
* `registerNodesIntoFactory` is called before the plugins are registered
  (`tree_execution_server.cpp:117`); `tree_execution_server.hpp:105` and
  `tree_execution_server.md:36` say after.
* `leader_rl.py:80-84` answers a cancel with "goal canceled"; the action server is
  created without a cancel callback (`:43`), the default one rejects, and these
  lines are never run.  `AcceptsCancel` is where the model says so.

## 4. Proofs

Every theorem holds for all values of the constants that meet the named
assumptions, and nothing else is assumed.

`FollowerNodeProofs` proves all safety properties of the `follower` run, and
`TypeOK`, `StoreMatchesParams` and `FleetSizeFrozen`, for every number of robots, every set of values, maps and tunable names, and
any number of exceptions.  Most of them are not inductive.  `IInv` adds:

* `FirstConfigure`: before `on_configure` has registered the parameter
  callback, nothing else has been created.  Without it, a node that was never
  configured could already have a timer.
* `ConfigInv`: with it, `StoreMatchesParams` and `IndicesInRange` support each
  other: since `boid_num` is frozen by the callback, a second `on_configure`
  reads the same size again, and matrices, core and publishers fit together.
* `MapInv`: which maps `field` and `core.field` may be, by `subscribe_map_` and
  by the lifecycle state; `NoStaleMap` follows for the active state.
* `FleetInv`: as long as nothing was thrown, publishers exist in the active
  state only and are those of the fleet, in order.
* `MovingRobotIsReachable`, which carries `StoppedUnlessActive`.

Each part has a lemma with one step per action (`ConfigStep`, `MapStep`,
`FleetStep`, `ReachableStep`); `QuietSteps` collects the actions that touch
none of the variables concerned.  `GainsAlwaysTakeEffect` follows from
`StoreMatchesParams`, as an activation copies the members, and with
`ValidGainsAlwaysStayValid` gives `AcceptedGainsHold`.

`DistanceFieldProofs` takes every grid size, every occupancy and all step costs
with `Straight < Diagonal < 2 * Straight`:

* `NeverTooClose`: the closed form `Octile` grows by at most the cost of a move
  (`OctileMove`), and so each queue entry keeps an occupied cell that justifies
  it (`QueueJustified`).
* `ExpandedIsFinal`, the invariant of Dijkstra's algorithm with lazy deletion.
  `FinalInv` says that an entry of the queue is never smaller than the distance
  of its cell, nor than the distance of a cell that has been expanded; and that
  no neighbour of an expanded cell is further from it than a move.  The next
  turn of the loop then finds nothing to improve in an expanded cell.
* `FieldIsExactWhenDone`: once the queue is empty, the field is the reference
  definition `Exact`.  `CoverInv` says that an occupied cell has distance 0 and
  that a cell with a finite distance is expanded or waits in the queue with
  that distance; so at the end every reached cell is expanded.  For every cell
  but an occupied one some neighbour is nearer to a given occupied cell, by
  exactly the cost of the move (`NearerNeighbour`), and a shortest path follows
  these neighbours: `NeverTooFar` takes the cell with the least octile distance
  among those that would be too far, and refutes it by that neighbour.
* `EveryTurnAdvances`: a turn leaves fewer cells to expand, or as many and fewer
  entries in the queue.  Both are natural numbers, since the queue is a finite set
  whatever is pushed again, so no behaviour has infinitely many turns; and by
  `QueueHasTop` the loop stops for no other reason than an empty queue.  The
  run `distance` puts the two together as `EndsExact`.
* `WallPowerReadsInside`: what `OffTheMap` lets through has all four neighbours
  on the grid, whatever the position.
* `AlwaysPushesOffTheWall` (`PushesOffTheWall`): the wall power of a field that
  is done points from an occupied neighbour to a free one, in the frame of the
  world, for each of the four turns of the map.  It needs only that a cell has
  distance 0 exactly if it is occupied (`ZeroIsOccupied`).

`LeaderPosServerProofs` takes any set of goals and any request whose route is
parallel to the axes and whose resolution and offset meet `PathRequest`:

* `RouteIsGood`, about `GenPath` alone.  `WalkDef` shows that the recursive
  definition of `Walk` has a solution, built segment by segment.  `WalkGood`
  describes the walk after k segments: it starts at the robot, its poses are a
  resolution apart (`AlongSegment` counts those of one segment by division with
  remainder), and it ends less than a resolution short of each waypoint it has
  passed, which is why it needs no bound on the number of waypoints.  It holds
  for the first segment (`WalkStarts`) and is handed on (`WalkGoesOn`).
* `IInv` of the server: `GoalState` ties the place of a thread to the state of
  its goal, to its route, which is `GenPath` of its request, and to the next
  index; `LeaderState` says that the last pose on the topic is one of the route
  of the goal that published it.  `RouteSpacing`, `CancelStopsLeader`,
  `LeaderFollowsRoute` and the refinement of `ActionGoals` follow from it.

`LifecycleServerProofs` takes any number of goals, of deaths of the node and of
other clients' transitions, and a shutdown of the server at any time:

* `ResultInv`: a goal has moved the node only once `change_state` has been
  answered, and then to its target.  The server keeps its own copy of the state
  machine; `LeadsWhereExpected` says that whatever transition of the node has the
  label that was sent, shutdowns from another state included, leads to the state
  the server expects.  Of a thread that a shutdown interrupted it says what the
  place says: the request is still one for the target (`interrupted`), or it has
  been answered either way (`unheard`).  `ResultsAreTruthful` follows: a goal that
  was aborted has moved the node only if it was interrupted, and then to its target.
* `WinnerInv`: as long as nobody else moves the node, it stays in the state of
  the first winner.  `SecondIsRefused`: no transition leads to the state it is
  offered in, so a second goal for that state is refused: `AtMostOneWinner`.
* `EarlyCancelHolds` shows `Spared`, a cancel with a thread before its second
  check, to be stable (`StaysSpared`).
* `GoalsFollowProtocol` needs `GoalInv`, which ties the place of a thread to the
  state of its goal; `NodeStaysManaged` needs `RunsMoves`, the transitions of
  this node as steps of `ManagedNode`.

`ActionServerProofs` takes two servers.  Of the tree server: `ThreadInv` for
`OnlyOneTree`; `ReportInv`, that a goal has no report until it ends, and then one
that fits its result, unless it ended by an exception (`EndsOnce`), for
`EndsAreReported`; `ParameterInv`, that the factory is registered together
with the parameters and that a goal comes to `createTree` with parameters at
least as new as its acceptance, for `TreesAreUpToDate`; and the refinement of
`ActionGoals`.  Of `leader_rl`, the instance `Leader`, with any number of robots,
goals, threads and messages:

* `NothingUnsetIsRead`.  `CallbackInv` ties the next assignment of every running
  callback to what has been stored before it, so that the flag implies both
  coordinates however the callbacks of a robot interleave; `LeaderGoalInv` gives
  every goal in its loop the flags of all robots.  The order of the three
  assignments is what the proof rests on.
* `LeaderRLImplementsActionGoals` needs of `LeaderGoalInv` that a goal with a
  thread is executing.
* `StoredStaysNewest` adds `InStep`: while the callbacks of a robot never
  overlapped, the only one running has the message taken last.

`RosNodesProofs` is about nodes that share a registry.  Of the topic nodes, for
every number of nodes, topics and messages:

* `NewestIsHandedOnce`.  `TopicState` says that what waits in a queue of depth 1,
  or has been taken from it last, is the newest message of its topic.
  `NodeState` says of a node that keeps its topic that it is connected to no
  other, and that it has not yet been handed what waits for it, be it in the
  queue or, when another node's tick has taken it from there, in its `last_msg_`.
  Such a node is handed the newest message and then has nothing waiting.
* `TypeCorrect`, which says too that a subscription nobody holds has gone with
  what waited in it.

Of the service nodes, the instance `Service`: `StepServed` follows an answer from
the service to the queue of the client (`Appended`) and from there to a future
(`TakenAndLeft`); a client lives while a node holds it (`KeptWhileHeld`), and a
running node holds its own whatever its port says (`ClientOfTick`).  `SpunIsThere`
says which answers a tick takes, hence `VerdictsAreOfTheRun`.  `RunsAskTheService`
needs `NameInv`.

`RosActionNodeProofs` takes any number of nodes, of runs and of goals given up.
Its invariant must follow the messages on the wire, in both directions:

* `ThreadInv` places the thread at a running node that has sent a goal.
* `Protocol` ties the state of each goal at the server to the messages that
  exist of it: no answer before the request, no result before the acceptance,
  one verdict, a cancel only of what was sent.
* `NodeGoals` ties a node to its goals: an earlier run has been settled by a
  result or a rejection that was handled, or its cancel has been sent; the
  present goal handle is that of an accepted goal of this node.
  `NoGoalIsLeftBehind` and `VerdictsAreOfTheRun` follow.
* `ReceivedGoalsAreSafe` proves `ReceivedGoalIsSafe` if `Overlap = FALSE`, that
  is, if the tree runs one action at a time, as a `Sequence` does and as the run
  `action_node` has it.  The hypothesis is needed: with two nodes running at
  once, the executor that both share handles the result of one inside the tick
  of the other, and the halt that follows cancels a goal which the client has
  forgotten.  `AloneInv` says what holds of the one that runs.
* `NodesKeepTheContract`: the nodes with their server implement `ActionClient`,
  one after the other or at once.  A node leaves its run only behind a handled
  result or rejection of its present goal (`SettledMayLeave`, from `NodeGoals` and
  `Protocol`), or is lost (`LostNodes`).  `ContractIsEnough` shows from
  `ActionClient` alone that it is no weaker than what it is for: whatever
  implements it satisfies `NoGoalLeftBehind` and `VerdictIsOfThisRun`.

`MissionProofs` takes every set of state ports, every route parallel to the axes,
and any number of deaths of the node and of other clients' transitions.  What
the two servers guarantee is not proved again: `LS` and `LL` are instances of
`LifecycleServerProofs` and `LeaderPosServerProofs` for the goals of the mission,
and their lemmas are cited once the assumptions of those modules are shown to
hold of the mission (`LifecycleAssumptions`, `LeaderAssumptions`) and the actions
are shown to be the same (`Same`, `SameLeader`).  `ServersRunAsAlone` says that a
mission implements the specifications of both servers, whose goals the tree
only starts; `ServersKeepTheirPromises` carries over what is proved of them: the
transitions of goals and of the node, truthful results, early cancels, and the
route of the leader.  As `Mission` leaves out the shutdowns of its servers, an
aborted goal has not moved the node there.  `MissionInv` adds three things:

* The order of the tree.  `SentInv`: the servers know only goals that the tree has
  sent, with the target its port is parsed to.  `SequenceInv`: the steps before
  the present one have succeeded, and a mission that gave up no step has ended
  with the end of its step.  Hence at most one goal is live, and none after such
  an end (`OnlyThisStepRuns`): `NothingIsLeftBehind`.
* `FollowerInv`: as long as nobody else touches the node, it is where the last
  goal that moved it has put it, or where a transition of the next goal that
  threw has left it.  Together with the order this gives
  `LeaderLeadsOnlyFollowers` and `OnlyTheLeaderLeavesItActive`.
* `LeaderInv`: the goal of the leader succeeds at the end of its route only, since
  `Mission` leaves out a shutdown of the leader's own process (`ok`), after which
  the loop falls through to `succeed()`.

With the order of the tree, `MissionKeepsTheContract`: every step of the mission is
one of `ActionClient` or a stutter.  `TreeKeepsContract` does so for the tree,
`ServersKeepContract` for the servers, whose moves are those of `ActionGoals` by the
step lemmas of their own modules (`GoalStep`).  With `NodesKeepTheContract`, the
action nodes and the mission are two implementations of one specification.

`SuccessIsDone` and `LeaderLeadsOnlyFollowers` speak of what a port *means*
(`Denotes`), not of what the parser makes of it: `ParsedDenotes` shows for every
sequence of words that a port which is parsed to a state denotes that state.

Where an argument is an induction over data (along a path through the grid, over
the segments of a route), it is done by the least counterexample:
`LeastElement` derives from the well-foundedness of strict inclusion among finite
sets that a nonempty set of natural numbers has a least element.

The theorems about the instances `Leader` and `Service` have the assumptions of
`LeaderRL` and `RosServiceNode` on their constants (`SizesAssumption`,
`ServiceAssumptions`) as a hypothesis.  All but the second of
these assumptions are facts of the code or bounds of a model:

* `NodesAssumption` of `RosTopicNodes`: a node is a subscriber or a publisher, never
  both, as the two are different classes.
* `RouteAssumption` of `Mission`, `RequestsAssumption` of `LeaderPosServer`: the
  route is parallel to the axes, and its resolution is positive.  This
  restricts the models, see section 5; the shipped routes meet it.
* `PortsAssumption` and `BoundsAssumption` of `Mission`: a port is a sequence of
  words, and the bounds are numbers.
* `StepAssumption` of `DistanceField`: the order of 1, the square root of 2, and 2.
* `DefaultsAssumption`, `TunablesAssumption` and `ValuesAssumption` of
  `FollowerNode`: the default gains are gains, some of the gains can be tuned, and
  a double that is not finite is none of the ordered values.
* `OccupancyAssumption`: cells hold -1 to 100, as in a `nav_msgs/OccupancyGrid`.
* `WorldAssumption` of `WallPower`: integer positions, and an influence radius that
  is positive and finite.
* The others say that a bound or a size is a number, at least 1 where the code
  divides or counts from it, and that a null value is none of the values it stands
  beside.

Only model-checked: liveness, which asks for fairness and so for ENABLED; of the
distance field, its finite work and the top of the queue are proved, and only that
the loop goes on while it can is left to the run.  Every
safety property that a run expects to hold is proved for all instances, but for
`ReceivedGoalIsSafe` with the hypothesis named above.

## 5. Not modelled

* The flocking sums of `update_vels`: floating point without control state.
  `control_callback` is in the model up to the value it sends, and of the forces
  only the wall power, with its cells, bounds and frames.
* An oblique route, and a resolution of zero, which makes the number of points
  undefined (`RequestsAssumption`).
* Of the tree nodes: `latchLastMessage`, `setServiceName`, changes of the name of an
  action node, exceptions of `createClient`; nothing in the workspace uses or
  overrides them.
* A completed action or service node that is ticked again without a halt in
  between: the last line of `tick` answers RUNNING.  A `Sequence` does not do so.
* A shutdown of a server in the middle of a mission: `Mission` has that of its own
  process only.  What a shutdown does to each server is in the module of the server.
* Exceptions of what a user overrides in `TreeExecutionServer`.
* The learned policy of `leader_rl`: nothing depends on what it says.
* Data races of `TreeExecutionServer` inside `BT::BehaviorTreeFactory`.
* Feedback of actions: no server of the workspace sends any.
* The training environments: sequential scripts around the floating-point physics
  of MuJoCo, which the running system does not use.
* Boid and sheep nodes: forerunners of the follower that no launch file starts;
  the constructor makes everything and nothing changes.
* `bt_utils.cpp` (directories, plugins, logs), file converters, bindings, launch
  files, simulation worlds.

What the models show and no property forbids: `on_shutdown` from active keeps
the timer, which goes on driving; a goal of the lifecycle server that a shutdown
interrupts is aborted while its request goes on to move the node; an exception of
`executeRegistration` ends the tree server and leaves its goals without a result;
`leader_rl` rejects every cancel; a shutdown at the head of the loop of
`leader_pos_server` falls through to `succeed()`; two leader goals make the
leader jump between two routes; a cancel that arrives while the tree server
joins waits as long as the earlier tree runs; a mission that fails between the
activation and its last step leaves the follower active, and the goal of a step
that was given up goes on; goals of `leader_rl` that sleep in all the threads
never wake, for the timer has none left; an answer behind two others in a
shared client is reported as `SERVICE_TIMEOUT` although it has arrived; a
subscriber node that changed its topic is still handed messages of the old one.

## 6. Plan

Done: `FollowerNode`, `LifecycleServer` and `LeaderPosServer` with
`ActionGoals`, `DistanceField`, `TreeExecutionServer`, `RosActionNode`;
`ManagedNode`, `Mission`, `LeaderRL`, `RosServiceNode`, `RosTopicNodes`,
`WallPower`; `ActionClient`, which both `RosActionNode` and `Mission` implement;
the proofs of section 4, which cover every safety property of the runs and all
refinements.

Left: a composition of `FollowerNode` and `LifecycleServer`, and of the servers of a
`Mission` with their shutdowns; oblique routes with an abstract rounding;
a `Mission` whose tree runs its nodes more than once, with what a lost node may
then do.
