----------------------------- MODULE RosTopicNodes -----------------------------
(***************************************************************************)
(* RosTopicSubNode and RosTopicPubNode of bt_topic_sub_node.hpp and        *)
(* bt_topic_pub_node.hpp.  Subscriber nodes of the same topic share one    *)
(* subscription of depth 1, with its executor: a tick of any of them takes *)
(* the message and broadcasts it to all that are connected.  The n-th      *)
(* message of a topic t is <<t, n>>.                                       *)
(***************************************************************************)
EXTENDS Integers, FiniteSets, Functions

CONSTANTS
    Subs, Pubs,
    Topics,
    Remapped,   \* the nodes whose port topic_name points to the blackboard
    MaxMsgs     \* bound: messages of a topic

ASSUME NodesAssumption ==
    Subs \cap Pubs = {} /\ Remapped \subseteq Subs \cup Pubs /\ MaxMsgs \in Nat
Unset == ""
ASSUME UnsetAssumption == Unset \notin Topics

Messages == Topics \X (1..MaxMsgs)
None == <<>>

VARIABLES
    port,           \* what the port topic_name of each node says
    topic_name_,    \* the topic of each node's subscription or publisher
    status,         \* NodeStatus of the publisher nodes
    published,      \* messages of each topic so far
    queue,          \* of each subscription, of depth 1
    last_msg,       \* of each SubscriberInstance
    connected,      \* nodes that are connected to its broadcaster
    last_msg_,      \* of each subscriber node
    handed,         \* history: the last message that onTick of each node got,
    repeated,       \* nodes whose onTick got the same message twice,
    moved           \* and nodes that left a topic for another one

subVars == <<queue, last_msg, connected, last_msg_, handed, repeated, moved>>
vars == <<port, topic_name_, status, published, subVars>>

Held(names) == {names[n] : n \in Subs} \ {Unset}
Numbers == 0..MaxMsgs

TypeOK ==
    /\ port \in [Subs \cup Pubs -> Topics]
    /\ topic_name_ \in [Subs \cup Pubs -> Topics \cup {Unset}]
    /\ status \in [Pubs -> {"idle", "success", "failure"}]
    /\ published \in [Topics -> Numbers]
    /\ \A t \in Topics : queue[t] \in 0..published[t] /\ last_msg[t] \in 0..published[t]
    /\ connected \in [Topics -> SUBSET Subs]
    /\ last_msg_ \in [Subs -> Messages \cup {None}]
    /\ handed \in [Subs -> Messages \cup {None}]
    /\ repeated \subseteq Subs /\ moved \subseteq Subs
    \* Of an instance that no node has, nothing is left.
    /\ \A t \in Topics \ Held(topic_name_) :
          queue[t] = 0 /\ last_msg[t] = 0 /\ connected[t] = {}

\* The constructor subscribes to, or advertises, a topic that it knows; that
\* of a blackboard entry waits for the first tick.
Init ==
    /\ port \in [Subs \cup Pubs -> Topics]
    /\ topic_name_ = [n \in Subs \cup Pubs |-> IF n \in Remapped THEN Unset ELSE port[n]]
    /\ status = [p \in Pubs |-> "idle"]
    /\ published = [t \in Topics |-> 0]
    /\ queue = [t \in Topics |-> 0]
    /\ last_msg = [t \in Topics |-> 0]
    /\ connected = [t \in Topics |-> {n \in Subs : topic_name_[n] = t}]
    /\ last_msg_ = [n \in Subs |-> None]
    /\ handed = [n \in Subs |-> None]
    /\ repeated = {} /\ moved = {}

-----------------------------------------------------------------------------
(* RosTopicSubNode::tick().                                                *)

\* Mutant of Kept: the registry owns the instances.
KeptForever(names, f, empty) == f

\* f of the instances: the registry holds weak pointers, and an instance lives
\* as long as some node has it.
Kept(names, f, empty) == [t \in Topics |-> IF t \in Held(names) THEN f[t] ELSE empty]

\* Mutant of Listeners: the callback keeps the message for its own node.
ListenersOwn(n, t, joined) == IF n \in joined[t] THEN {n} ELSE {}

\* The nodes to which the message of topic t goes that a tick of n takes.
\* Nobody disconnects from the topic it leaves.
Listeners(n, t, joined) == joined[t]

\* Mutant of Remembered: the message stays although it is not latched.
RememberedLatched(n, msgs) == msgs

\* onTick() has had it: last_msg_ is reset, as latchLastMessage() is false.
Remembered(n, msgs) == [msgs EXCEPT ![n] = None]

Tick(n) ==
    LET t == port[n]
        joins == topic_name_[n] # t
        names == [topic_name_ EXCEPT ![n] = t]
        joined == [Kept(names, connected, {}) EXCEPT ![t] = @ \cup {n}]
        \* createSubscriber takes over the last message of an old instance.
        early == IF joins /\ last_msg[t] # 0
                 THEN [last_msg_ EXCEPT ![n] = <<t, last_msg[t]>>] ELSE last_msg_
        \* spin_some.
        spun == IF queue[t] = 0 THEN early
                ELSE [m \in Subs |-> IF m \in Listeners(n, t, joined)
                                     THEN <<t, queue[t]>> ELSE early[m]]
    IN  /\ topic_name_' = names
        /\ moved' = IF joins /\ topic_name_[n] # Unset THEN moved \cup {n} ELSE moved
        /\ connected' = joined
        /\ last_msg' = [Kept(names, last_msg, 0) EXCEPT
                          ![t] = IF queue[t] # 0 THEN queue[t] ELSE @]
        /\ queue' = [Kept(names, queue, 0) EXCEPT ![t] = 0]
        /\ handed' = [handed EXCEPT ![n] = IF spun[n] = None THEN @ ELSE spun[n]]
        /\ repeated' = IF spun[n] # None /\ spun[n] = handed[n]
                       THEN repeated \cup {n} ELSE repeated
        /\ last_msg_' = Remembered(n, spun)
        /\ UNCHANGED <<port, status, published>>

-----------------------------------------------------------------------------
(* RosTopicPubNode, and other publishers.                                  *)

\* A message gets to the subscription, if there is one: KEEP_LAST of depth 1.
Publish(t) ==
    /\ published' = [published EXCEPT ![t] = @ + 1]
    /\ queue' = IF t \in Held(topic_name_)
                THEN [queue EXCEPT ![t] = published'[t]] ELSE queue
    /\ UNCHANGED <<last_msg, connected, last_msg_, handed, repeated, moved>>

\* The topic of the publisher that a tick of p uses.
TopicOf(p) ==
    IF topic_name_[p] = Unset \/ (status[p] = "idle" /\ p \in Remapped)
    THEN port[p] ELSE topic_name_[p]

\* setMessage() may fail.  A node that has completed, and is ticked again
\* without a reset, as in a reactive sequence, keeps its topic.
TickPub(p) ==
    LET t == TopicOf(p) IN
    /\ topic_name_' = [topic_name_ EXCEPT ![p] = t]
    /\ \/ /\ status' = [status EXCEPT ![p] = "failure"]
          /\ UNCHANGED <<published, subVars>>
       \/ /\ published[t] < MaxMsgs
          /\ Publish(t)
          /\ status' = [status EXCEPT ![p] = "success"]
    /\ UNCHANGED port

Reset(p) ==
    /\ status' = [status EXCEPT ![p] = "idle"]
    /\ UNCHANGED <<port, topic_name_, published, subVars>>

PublishElsewhere(t) ==
    /\ published[t] < MaxMsgs
    /\ Publish(t)
    /\ UNCHANGED <<port, topic_name_, status>>

PortChanges(n) ==
    /\ n \in Remapped
    /\ \E t \in Topics : port' = [port EXCEPT ![n] = t]
    /\ UNCHANGED <<topic_name_, status, published, subVars>>

Next ==
    \/ \E n \in Subs : Tick(n)
    \/ \E p \in Pubs : TickPub(p) \/ Reset(p)
    \/ \E n \in Remapped : PortChanges(n)
    \/ \E t \in Topics : PublishElsewhere(t)

Spec == Init /\ [][Next]_vars

\* The tree is ticked.
FairSpec == Spec /\ \A n \in Subs : WF_vars(Tick(n))

-----------------------------------------------------------------------------
(* Properties.                                                             *)

\* What a node that has kept its topic is handed is the newest message of the
\* topic at that time, and it is handed that message once, although another
\* node may have taken it from the shared subscription before.
HandedNewestOnce ==
    [][/\ repeated' \subseteq moved'
       /\ \A n \in Subs \ moved' : handed'[n] # handed[n] =>
             handed'[n] = <<port[n], published[port[n]]>>]_vars

\* A message that waits for several nodes of a topic is for each of them: none
\* takes it away from another one.
EveryoneIsHanded ==
    \A n \in Subs, t \in Topics, k \in 1..MaxMsgs :
        topic_name_[n] = t /\ queue[t] = k ~>
            \/ \E j \in k..MaxMsgs : handed[n] = <<t, j>>
            \/ port[n] # t
=============================================================================
