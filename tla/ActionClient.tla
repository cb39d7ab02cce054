----------------------------- MODULE ActionClient -----------------------------
(***************************************************************************)
(* What the action nodes of a behavior tree and their action server owe    *)
(* each other.  A node runs one goal at a time, its run-th, and leaves it  *)
(* only when the server has ended it: with a verdict that says how, or     *)
(* because it was halted.  The server knows only goals that a run has sent *)
(* and keeps to ActionGoals.  A node that once gives up waiting is lost:   *)
(* of its later runs nothing is promised but that they follow each other.  *)
(***************************************************************************)
EXTENDS Integers

CONSTANTS
    Nodes,      \* the action nodes
    Goals,      \* <<n, k>>: the goal of the k-th run of n
    Overlap     \* a node may start while another one is running

VARIABLES
    phase,      \* what each node tells its parent
    run,        \* goals each node has sent
    status,     \* the state of each goal, at the server
    lost        \* the nodes that have given up waiting

vars == <<phase, run, status, lost>>

Server == INSTANCE ActionGoals

Init ==
    /\ phase = [n \in Nodes |-> "idle"]
    /\ run = [n \in Nodes |-> 0]
    /\ Server!Init
    /\ lost = {}

Current(n) == <<n, run[n]>>
HasEnded(n) == status[Current(n)] \in Server!Terminal

Becomes(n, p) == phase' = [phase EXCEPT ![n] = p]

MayStart(n) ==
    /\ phase[n] = "idle"
    /\ Overlap \/ \A m \in Nodes \ {n} : phase[m] # "running"

\* The node sends the goal of its next run.
Start(n) ==
    /\ MayStart(n)
    /\ run' = [run EXCEPT ![n] = @ + 1]
    /\ <<n, run'[n]>> \in Goals
    /\ Becomes(n, "running")
    /\ UNCHANGED <<status, lost>>

\* It has no goal to send, or cannot send it.
Refuse(n) ==
    /\ MayStart(n)
    /\ Becomes(n, "failure")
    /\ UNCHANGED <<run, status, lost>>

\* The verdict of a run is that of the server.
Report(n) ==
    /\ phase[n] = "running" /\ n \notin lost /\ HasEnded(n)
    /\ Becomes(n, IF status[Current(n)] = "succeeded" THEN "success" ELSE "failure")
    /\ UNCHANGED <<run, status, lost>>

\* A node that is halted waits for the end of its goal.
Halt(n) ==
    /\ phase[n] = "running" /\ n \notin lost /\ HasEnded(n)
    /\ Becomes(n, "idle")
    /\ UNCHANGED <<run, status, lost>>

\* The parent takes note of a verdict.
Reset(n) ==
    /\ phase[n] \in {"success", "failure"}
    /\ Becomes(n, "idle")
    /\ UNCHANGED <<run, status, lost>>

\* The node stops waiting for one answer or another of the server.
GiveUp(n) ==
    /\ phase[n] = "running"
    /\ lost' = lost \cup {n}
    /\ \E p \in {"running", "failure", "idle"} : Becomes(n, p)
    /\ UNCHANGED <<run, status>>

\* A run of a node that has given up may end in any way.
Astray(n) ==
    /\ phase[n] = "running" /\ n \in lost
    /\ \E p \in {"success", "failure", "idle"} : Becomes(n, p)
    /\ UNCHANGED <<run, status, lost>>

\* The server deals with a goal that has been sent.
Serve(g) ==
    /\ g[2] <= run[g[1]]
    /\ Server!Reject(g) \/ Server!Accept(g) \/ Server!Cancel(g) \/ Server!Finish(g)
    /\ UNCHANGED <<phase, run, lost>>

Next ==
    \/ \E n \in Nodes : \/ Start(n) \/ Refuse(n) \/ Report(n) \/ Halt(n)
                        \/ Reset(n) \/ GiveUp(n) \/ Astray(n)
    \/ \E g \in Goals : Serve(g)

Spec == Init /\ [][Next]_vars
=============================================================================
