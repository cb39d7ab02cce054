----------------------------- MODULE RosNodesProofs -----------------------------
(***************************************************************************)
(* Proofs about RosTopicNodes, for every number of nodes, topics and       *)
(* messages: a node that keeps its topic is handed the newest message, and *)
(* once.  And about RosServiceNode, the instance Service, for every number *)
(* of nodes, services and runs: a request goes to the service the port     *)
(* names, its answer is never lost on the side of the client, and a        *)
(* verdict is that of the run.                                             *)
(***************************************************************************)
EXTENDS RosTopicNodes, Sequences, TLAPS

\* The service nodes share nothing with the topic nodes.
CONSTANTS Nodes, ServiceNames, RemappedServices, MaxRuns
VARIABLES ok, service_port, service_name, bt, run, expired, asked, answers, completed

Service == INSTANCE RosServiceNode
    WITH Remapped <- RemappedServices, port <- service_port

-----------------------------------------------------------------------------
(* The topic nodes.                                                        *)

\* What waits in a subscription, or has been taken from it last, is the newest
\* message of its topic.
TopicState(t) ==
    /\ queue[t] \in {0, published[t]}
    /\ queue[t] = 0 => last_msg[t] \in {0, published[t]}

\* A node that has kept its topic is connected to no other; it was handed an
\* older message than the one that waits for it, be it in the queue or, if
\* another node has taken it from there, in last_msg_.
NodeState(n) ==
    /\ \A t \in Topics : n \in connected[t] <=> topic_name_[n] = t
    /\ topic_name_[n] = Unset => last_msg_[n] = None /\ handed[n] = None
    /\ \A t \in Topics : topic_name_[n] = t =>
          /\ handed[n] = None \/ \E k \in 1..published[t] : handed[n] = <<t, k>>
          /\ queue[t] # 0 => handed[n] # <<t, published[t]>>
          /\ queue[t] = 0 /\ last_msg_[n] # None =>
                last_msg_[n] = <<t, published[t]>> /\ handed[n] # last_msg_[n]

Shape == queue \in [Topics -> Numbers] /\ last_msg \in [Topics -> Numbers]

IInv ==
    /\ TypeOK /\ Shape
    /\ \A t \in Topics : TopicState(t)
    /\ repeated \subseteq moved
    /\ \A n \in Subs \ moved : NodeState(n)

\* No message is the empty one.
LEMMA MessageIsSome == ASSUME NEW t, NEW k PROVE <<t, k>> # None
  BY DEF None

\* Nothing has been published at the start.
LEMMA InitInv == Init => IInv
<1>. SUFFICES ASSUME Init PROVE IInv
  OBVIOUS
<1>. USE NodesAssumption, UnsetAssumption DEF Init
<1>1. TypeOK
  BY DEF TypeOK, Held, Numbers
<1>2. Shape
  BY DEF Shape, Numbers
<1>3. \A t \in Topics : TopicState(t)
  BY DEF TopicState
<1>4. \A n \in Subs \ moved : NodeState(n)
  BY DEF NodeState
<1>. QED
  BY <1>1, <1>2, <1>3, <1>4 DEF IInv

\* A message is published for the nodes that hold the topic.
LEMMA PublishStep ==
    ASSUME IInv, NEW t \in Topics, published[t] < MaxMsgs, Publish(t), UNCHANGED port,
           topic_name_' \in [Subs \cup Pubs -> Topics \cup {Unset}],
           \A n \in Subs : topic_name_'[n] = topic_name_[n],
           status' \in [Pubs -> {"idle", "success", "failure"}]
    PROVE  IInv'
<1>. USE NodesAssumption, UnsetAssumption
<1>1. /\ published \in [Topics -> Numbers] /\ queue \in [Topics -> Numbers]
      /\ Held(topic_name_') = Held(topic_name_)
  BY DEF IInv, TypeOK, Shape, Held
<1>2. /\ published' \in [Topics -> Numbers] /\ published'[t] = published[t] + 1
      /\ \A s \in Topics \ {t} : published'[s] = published[s]
      /\ \A s \in Topics : published[s] <= published'[s]
  BY <1>1 DEF Publish, Numbers
<1>3. /\ queue' \in [Topics -> Numbers]
      /\ t \in Held(topic_name_) => queue'[t] = published'[t]
      /\ \A s \in Topics : s # t \/ s \notin Held(topic_name_) => queue'[s] = queue[s]
  BY <1>1, <1>2 DEF Publish
<1>4. UNCHANGED <<last_msg, connected, last_msg_, handed, repeated, moved>>
  BY DEF Publish
<1>5. \A s \in Topics \ Held(topic_name_) : queue[s] = 0 /\ last_msg[s] = 0 /\ connected[s] = {}
  BY DEF IInv, TypeOK
<1>6. \A s \in Topics : queue'[s] \in 0..published'[s] /\ last_msg'[s] \in 0..published'[s]
  BY <1>1, <1>2, <1>3, <1>4 DEF IInv, TypeOK, Numbers
<1>7. TypeOK'
  BY <1>1, <1>2, <1>3, <1>4, <1>5, <1>6 DEF IInv, TypeOK
<1>8. Shape'
  BY <1>3, <1>4 DEF IInv, Shape
<1>9. ASSUME NEW s \in Topics PROVE TopicState(s)'
  <2>1. TopicState(s)
    BY DEF IInv
  <2>2. CASE s # t
    BY <1>2, <1>3, <1>4, <2>1, <2>2 DEF TopicState
  <2>3. CASE s = t /\ t \in Held(topic_name_)
    BY <1>1, <1>2, <1>3, <2>3 DEF TopicState, Numbers
  <2>4. CASE s = t /\ t \notin Held(topic_name_)
    BY <1>3, <1>4, <1>5, <2>4 DEF TopicState
  <2>. QED
    BY <2>2, <2>3, <2>4
<1>10. ASSUME NEW n \in Subs \ moved PROVE NodeState(n)'
  <2>1. NodeState(n)
    BY DEF IInv
  <2>2. ASSUME NEW s \in Topics, topic_name_[n] = s
        PROVE  /\ handed[n] = None \/ \E k \in 1..published'[s] : handed[n] = <<s, k>>
               /\ queue'[s] # 0 => handed[n] # <<s, published'[s]>>
               /\ queue'[s] = 0 /\ last_msg_[n] # None =>
                     last_msg_[n] = <<s, published'[s]>> /\ handed[n] # last_msg_[n]
    <3>1. s \in Held(topic_name_)
      BY <2>2 DEF Held
    <3>2. handed[n] = None \/ \E k \in 1..published[s] : handed[n] = <<s, k>>
      BY <2>1, <2>2 DEF NodeState
    <3>3. CASE s # t
      BY <1>2, <1>3, <2>1, <2>2, <3>3 DEF NodeState
    <3>4. CASE s = t
      <4>1. handed[n] # <<t, published'[t]>>
        <5>1. ASSUME NEW k \in 1..published[t] PROVE <<t, k>> # <<t, published'[t]>>
          BY <1>1, <1>2 DEF Numbers
        <5>. QED
          BY <3>2, <3>4, <5>1, MessageIsSome
      <4>2. queue'[t] # 0
        BY <1>1, <1>2, <1>3, <3>1, <3>4 DEF Numbers
      <4>3. handed[n] = None \/ \E k \in 1..published'[s] : handed[n] = <<s, k>>
        BY <1>1, <1>2, <3>2 DEF Numbers
      <4>. QED
        BY <3>4, <4>1, <4>2, <4>3
    <3>. QED
      BY <3>3, <3>4
  <2>. QED
    BY <1>4, <2>1, <2>2 DEF NodeState
<1>. QED
  BY <1>4, <1>7, <1>8, <1>9, <1>10 DEF IInv

\* A step that changes neither subscriptions nor what subscriber nodes have.
LEMMA SilentStep ==
    ASSUME IInv, UNCHANGED <<published, subVars>>,
           port' \in [Subs \cup Pubs -> Topics],
           topic_name_' \in [Subs \cup Pubs -> Topics \cup {Unset}],
           \A n \in Subs : topic_name_'[n] = topic_name_[n],
           status' \in [Pubs -> {"idle", "success", "failure"}]
    PROVE  IInv'
<1>1. Held(topic_name_') = Held(topic_name_)
  BY DEF Held
<1>2. TypeOK'
  BY <1>1 DEF IInv, TypeOK, subVars
<1>3. Shape' /\ \A t \in Topics : TopicState(t)'
  BY DEF IInv, Shape, TopicState, subVars
<1>4. \A n \in Subs \ moved : NodeState(n)'
  BY DEF IInv, NodeState, subVars
<1>. QED
  BY <1>2, <1>3, <1>4 DEF IInv, subVars

\* A tick of a node takes the message that waits for its topic.
LEMMA TickStep ==
    ASSUME IInv, NEW n \in Subs, Tick(n)
    PROVE  /\ IInv'
           /\ n \notin moved' /\ handed'[n] # handed[n] =>
                handed'[n] = <<port[n], published[port[n]]>>
<1>. USE NodesAssumption, UnsetAssumption
<1>. DEFINE t == port[n]
            joins == topic_name_[n] # t
            names == [topic_name_ EXCEPT ![n] = t]
            joined == [Kept(names, connected, {}) EXCEPT ![t] = @ \cup {n}]
            early == IF joins /\ last_msg[t] # 0
                     THEN [last_msg_ EXCEPT ![n] = <<t, last_msg[t]>>] ELSE last_msg_
            spun == IF queue[t] = 0 THEN early
                    ELSE [m \in Subs |-> IF m \in Listeners(n, t, joined)
                                         THEN <<t, queue[t]>> ELSE early[m]]
<1>1. /\ topic_name_' = names
      /\ moved' = IF joins /\ topic_name_[n] # Unset THEN moved \cup {n} ELSE moved
      /\ connected' = joined
      /\ last_msg' = [Kept(names, last_msg, 0) EXCEPT
                        ![t] = IF queue[t] # 0 THEN queue[t] ELSE @]
      /\ queue' = [Kept(names, queue, 0) EXCEPT ![t] = 0]
      /\ handed' = [handed EXCEPT ![n] = IF spun[n] = None THEN @ ELSE spun[n]]
      /\ repeated' = IF spun[n] # None /\ spun[n] = handed[n]
                     THEN repeated \cup {n} ELSE repeated
      /\ last_msg_' = [spun EXCEPT ![n] = None]
      /\ UNCHANGED <<port, status, published>>
  BY DEF Tick, Remembered
\* The types.
<1>2. /\ t \in Topics
      /\ topic_name_ \in [Subs \cup Pubs -> Topics \cup {Unset}]
      /\ published \in [Topics -> Numbers]
      /\ queue \in [Topics -> Numbers] /\ last_msg \in [Topics -> Numbers]
      /\ connected \in [Topics -> SUBSET Subs]
      /\ last_msg_ \in [Subs -> Messages \cup {None}]
      /\ handed \in [Subs -> Messages \cup {None}]
      /\ repeated \subseteq moved /\ moved \subseteq Subs
      /\ \A s \in Topics : queue[s] \in 0..published[s] /\ last_msg[s] \in 0..published[s]
      /\ \A s \in Topics \ Held(topic_name_) :
            queue[s] = 0 /\ last_msg[s] = 0 /\ connected[s] = {}
  BY DEF IInv, TypeOK, Shape
<1>3. /\ names \in [Subs \cup Pubs -> Topics \cup {Unset}]
      /\ names[n] = t /\ \A m \in Subs \ {n} : names[m] = topic_name_[m]
      /\ t \in Held(names) /\ \A s \in Topics \ {t} :
            s \in Held(names) <=> \E m \in Subs \ {n} : topic_name_[m] = s
  BY <1>2 DEF Held
<1>. HIDE DEF names
<1>4. /\ joined \in [Topics -> SUBSET Subs]
      /\ joined[t] = connected[t] \cup {n}
      /\ \A s \in Topics \ {t} : joined[s] = IF s \in Held(names) THEN connected[s] ELSE {}
  <2>1. /\ Kept(names, connected, {}) \in [Topics -> SUBSET Subs]
        /\ \A s \in Topics : Kept(names, connected, {})[s]
                             = IF s \in Held(names) THEN connected[s] ELSE {}
    BY ONLY <1>2 DEF Kept
  <2>. QED
    BY <1>2, <1>3, <2>1
<1>5. /\ queue' \in [Topics -> Numbers] /\ queue'[t] = 0
      /\ \A s \in Topics \ {t} : queue'[s] = IF s \in Held(names) THEN queue[s] ELSE 0
  <2>1. /\ Kept(names, queue, 0) \in [Topics -> Numbers]
        /\ \A s \in Topics : Kept(names, queue, 0)[s] =
               IF s \in Held(names) THEN queue[s] ELSE 0
    BY ONLY <1>2, NodesAssumption DEF Kept, Numbers
  <2>. QED
    BY <1>1, <1>2, <1>3, <2>1 DEF Numbers
<1>6. /\ last_msg' \in [Topics -> Numbers]
      /\ last_msg'[t] = IF queue[t] # 0 THEN queue[t] ELSE last_msg[t]
      /\ \A s \in Topics \ {t} : last_msg'[s] = IF s \in Held(names) THEN last_msg[s] ELSE 0
  <2>1. /\ Kept(names, last_msg, 0) \in [Topics -> Numbers]
        /\ \A s \in Topics : Kept(names, last_msg, 0)[s] =
               IF s \in Held(names) THEN last_msg[s] ELSE 0
    BY ONLY <1>2, NodesAssumption DEF Kept, Numbers
  <2>. QED
    BY <1>1, <1>2, <1>3, <2>1 DEF Numbers
<1>7. /\ early \in [Subs -> Messages \cup {None}]
      /\ early[n] = IF joins /\ last_msg[t] # 0 THEN <<t, last_msg[t]>> ELSE last_msg_[n]
      /\ \A m \in Subs \ {n} : early[m] = last_msg_[m]
  BY <1>2 DEF Messages, Numbers
<1>8. /\ spun \in [Subs -> Messages \cup {None}]
      /\ \A m \in Subs : spun[m] = IF queue[t] # 0 /\ m \in joined[t] THEN <<t, queue[t]>>
                                   ELSE early[m]
  <2>1. queue[t] # 0 => <<t, queue[t]>> \in Messages
    BY <1>2 DEF Messages, Numbers
  <2>. HIDE DEF t, joined, early
  <2>. QED
    BY <1>7, <2>1 DEF Listeners
<1>9. ASSUME NEW s \in Topics PROVE TopicState(s)
  BY DEF IInv
<1>. HIDE DEF names, joined, early, spun
<1>10. /\ last_msg_' \in [Subs -> Messages \cup {None}] /\ last_msg_'[n] = None
       /\ \A m \in Subs \ {n} : last_msg_'[m] = IF queue[t] # 0 /\ m \in connected[t]
                                               THEN <<t, queue[t]>> ELSE last_msg_[m]
  BY <1>1, <1>4, <1>7, <1>8
<1>11. /\ handed' \in [Subs -> Messages \cup {None}]
       /\ handed'[n] = IF spun[n] = None THEN handed[n] ELSE spun[n]
       /\ \A m \in Subs \ {n} : handed'[m] = handed[m]
  BY <1>1, <1>2, <1>8
\* Of an instance that no node has, nothing is left.
<1>12. TypeOK'
  <2>1. Held(topic_name_') = Held(names)
    BY <1>1
  <2>2. ASSUME NEW s \in Topics
        PROVE  queue'[s] \in 0..published'[s] /\ last_msg'[s] \in 0..published'[s]
    BY <1>1, <1>2, <1>5, <1>6 DEF Numbers
  <2>3. ASSUME NEW s \in Topics \ Held(names)
        PROVE  queue'[s] = 0 /\ last_msg'[s] = 0 /\ connected'[s] = {}
    BY <1>1, <1>3, <1>4, <1>5, <1>6
  <2>4. repeated' \subseteq Subs /\ moved' \subseteq Subs
    BY <1>1, <1>2
  <2>. QED
    BY <1>1, <1>3, <1>4, <1>10, <1>11, <2>1, <2>2, <2>3, <2>4 DEF IInv, TypeOK
<1>13. Shape'
  BY <1>5, <1>6 DEF Shape
<1>14. ASSUME NEW s \in Topics PROVE TopicState(s)'
  BY <1>1, <1>2, <1>5, <1>6, <1>9 DEF TopicState, Numbers
\* What the node itself is handed.
<1>15. ASSUME n \notin moved', spun[n] # None
       PROVE  spun[n] = <<t, published[t]>> /\ spun[n] # handed[n]
  <2>1. n \notin moved /\ topic_name_[n] \in {t, Unset} /\ NodeState(n)
    BY <1>1, <1>2, <1>15 DEF IInv
  <2>2. CASE queue[t] # 0
    <3>1. spun[n] = <<t, queue[t]>> /\ queue[t] = published[t]
      BY <1>2, <1>4, <1>8, <1>9, <2>2 DEF TopicState
    <3>2. CASE topic_name_[n] = Unset
      BY <2>1, <3>1, <3>2, MessageIsSome DEF NodeState
    <3>3. CASE topic_name_[n] = t
      BY <1>2, <2>1, <2>2, <3>1, <3>3 DEF NodeState
    <3>. QED
      BY <2>1, <3>2, <3>3
  <2>3. CASE queue[t] = 0
    <3>1. spun[n] = early[n]
      BY <1>8, <2>3
    <3>2. CASE topic_name_[n] = Unset
      <4>1. last_msg_[n] = None /\ handed[n] = None
        BY <2>1, <3>2 DEF NodeState
      <4>2. last_msg[t] # 0 /\ spun[n] = <<t, last_msg[t]>>
        BY <1>7, <1>15, <3>1, <4>1
      <4>3. last_msg[t] = published[t]
        BY <1>2, <1>9, <2>3, <4>2 DEF TopicState
      <4>. QED
        BY <4>1, <4>2, <4>3, MessageIsSome
    <3>3. CASE topic_name_[n] = t
      BY <1>2, <1>7, <1>15, <2>1, <2>3, <3>1, <3>3 DEF NodeState
    <3>. QED
      BY <2>1, <3>2, <3>3
  <2>. QED
    BY <1>2, <2>2, <2>3 DEF Numbers
<1>16. repeated' \subseteq moved'
  <2>1. n \notin moved' => ~(spun[n] # None /\ spun[n] = handed[n])
    BY <1>15
  <2>2. moved \subseteq moved'
    BY <1>1
  <2>. QED
    BY <1>1, <1>2, <2>1, <2>2
<1>17. ASSUME n \notin moved' PROVE NodeState(n)'
  <2>1. n \notin moved /\ topic_name_[n] \in {t, Unset} /\ NodeState(n)
    BY <1>1, <1>2, <1>17 DEF IInv
  <2>2. topic_name_'[n] = t /\ t # Unset /\ last_msg_'[n] = None /\ queue'[t] = 0
    BY <1>1, <1>2, <1>3, <1>5, <1>10
  <2>3. ASSUME NEW s \in Topics PROVE n \in connected'[s] <=> t = s
    <3>1. CASE s # t
      BY <1>1, <1>4, <2>1, <3>1 DEF NodeState
    <3>2. CASE s = t
      BY <1>1, <1>4, <3>2
    <3>. QED
      BY <3>1, <3>2
  <2>4. handed'[n] = None \/ \E k \in 1..published[t] : handed'[n] = <<t, k>>
    <3>1. CASE spun[n] = None
      BY <1>2, <1>11, <2>1, <3>1 DEF NodeState
    <3>2. CASE spun[n] # None
      <4>1. handed'[n] = <<t, published[t]>>
        BY <1>11, <1>15, <1>17, <3>2
      <4>2. <<t, published[t]>> \in Messages
        BY <1>11, <4>1, MessageIsSome
      <4>3. published[t] \in 1..published[t]
        BY <1>2, <4>2 DEF Messages, Numbers
      <4>. QED
        BY <4>1, <4>3
    <3>. QED
      BY <3>1, <3>2
  <2>. QED
    BY <1>1, <2>2, <2>3, <2>4 DEF NodeState
\* What others are left with.
<1>18. ASSUME NEW m \in Subs \ {n}, m \notin moved PROVE NodeState(m)'
  <2>1. NodeState(m)
    BY <1>18 DEF IInv
  <2>2. topic_name_'[m] = topic_name_[m] /\ handed'[m] = handed[m]
    BY <1>1, <1>3, <1>11
  <2>3. ASSUME NEW s \in Topics PROVE m \in connected'[s] <=> topic_name_[m] = s
    <3>1. CASE s # t
      <4>1. topic_name_[m] = s => s \in Held(names)
        BY <1>3, <3>1
      <4>. QED
        BY <1>1, <1>4, <2>1, <3>1, <4>1 DEF NodeState
    <3>2. CASE s = t
      BY <1>1, <1>2, <1>4, <2>1, <3>2 DEF NodeState
    <3>. QED
      BY <3>1, <3>2
  <2>4. m \in connected[t] => topic_name_[m] = t
    BY <1>2, <2>1 DEF NodeState
  <2>5. topic_name_[m] = Unset => last_msg_'[m] = None
    BY <1>2, <1>10, <2>1, <2>4 DEF NodeState
  <2>6. ASSUME NEW s \in Topics, topic_name_[m] = s
        PROVE  /\ handed[m] = None \/ \E k \in 1..published[s] : handed[m] = <<s, k>>
               /\ queue'[s] # 0 => handed[m] # <<s, published[s]>>
               /\ queue'[s] = 0 /\ last_msg_'[m] # None =>
                     last_msg_'[m] = <<s, published[s]>> /\ handed[m] # last_msg_'[m]
    <3>1. /\ handed[m] = None \/ \E k \in 1..published[s] : handed[m] = <<s, k>>
          /\ queue[s] # 0 => handed[m] # <<s, published[s]>>
          /\ queue[s] = 0 /\ last_msg_[m] # None =>
                last_msg_[m] = <<s, published[s]>> /\ handed[m] # last_msg_[m]
      BY <2>1, <2>6 DEF NodeState
    <3>2. CASE s # t
      <4>1. s \in Held(names) /\ queue'[s] = queue[s]
        BY <1>3, <1>5, <2>6, <3>2
      <4>2. last_msg_'[m] = last_msg_[m]
        BY <1>10, <2>4, <2>6, <3>2
      <4>. QED
        BY <3>1, <4>1, <4>2
    <3>3. CASE s = t /\ queue[t] = 0
      BY <1>5, <1>10, <3>1, <3>3
    <3>4. CASE s = t /\ queue[t] # 0
      <4>1. queue[t] = published[t]
        BY <1>2, <1>9, <3>4 DEF TopicState
      <4>2. m \in connected[t]
        BY <1>2, <2>1, <2>6, <3>4 DEF NodeState
      <4>. QED
        BY <1>5, <1>10, <3>1, <3>4, <4>1, <4>2
    <3>. QED
      BY <3>2, <3>3, <3>4
  <2>. QED
    BY <1>1, <2>1, <2>2, <2>3, <2>5, <2>6 DEF NodeState
<1>19. IInv'
  <2>1. \A m \in Subs \ moved' : m \notin moved
    BY <1>1
  <2>. QED
    BY <1>12, <1>13, <1>14, <1>16, <1>17, <1>18, <2>1 DEF IInv
<1>20. n \notin moved' /\ handed'[n] # handed[n] => handed'[n] = <<t, published[t]>>
  BY <1>11, <1>15
<1>. QED
  BY <1>19, <1>20

\* Every step preserves the invariant.
LEMMA InvStep == IInv /\ [Next]_vars => IInv'
<1>. SUFFICES ASSUME IInv, [Next]_vars PROVE IInv'
  OBVIOUS
<1>. USE NodesAssumption, UnsetAssumption
<1>1. /\ port \in [Subs \cup Pubs -> Topics]
      /\ topic_name_ \in [Subs \cup Pubs -> Topics \cup {Unset}]
      /\ status \in [Pubs -> {"idle", "success", "failure"}]
  BY DEF IInv, TypeOK
<1>2. ASSUME NEW n \in Subs, Tick(n) PROVE IInv'
  BY <1>2, TickStep
<1>3. ASSUME NEW p \in Pubs, TickPub(p) PROVE IInv'
  <2>1. TopicOf(p) \in Topics
    BY <1>1 DEF TopicOf
  <2>2. /\ topic_name_' \in [Subs \cup Pubs -> Topics \cup {Unset}]
        /\ \A n \in Subs : topic_name_'[n] = topic_name_[n]
        /\ UNCHANGED port
    BY <1>1, <1>3, <2>1 DEF TickPub
  <2>3. CASE status' = [status EXCEPT ![p] = "failure"] /\ UNCHANGED <<published, subVars>>
    BY <1>1, <2>2, <2>3, SilentStep
  <2>4. CASE /\ published[TopicOf(p)] < MaxMsgs /\ Publish(TopicOf(p))
             /\ status' = [status EXCEPT ![p] = "success"]
    BY <1>1, <2>1, <2>2, <2>4, PublishStep
  <2>. QED
    BY <1>3, <2>3, <2>4 DEF TickPub
<1>4. ASSUME NEW p \in Pubs, Reset(p) PROVE IInv'
  BY <1>1, <1>4, SilentStep DEF Reset
<1>5. ASSUME NEW n \in Remapped, PortChanges(n) PROVE IInv'
  BY <1>1, <1>5, SilentStep DEF PortChanges
<1>6. ASSUME NEW t \in Topics, PublishElsewhere(t) PROVE IInv'
  BY <1>1, <1>6, PublishStep DEF PublishElsewhere
<1>7. CASE UNCHANGED vars
  BY <1>1, <1>7, SilentStep DEF vars
<1>. QED
  BY <1>2, <1>3, <1>4, <1>5, <1>6, <1>7 DEF Next

\* The invariant holds throughout.
LEMMA Invariant == Spec => []IInv
  BY InitInv, InvStep, PTL DEF Spec

\* Registry, subscriptions and messages keep their types, and nothing is left
\* of an instance that no node has.
THEOREM TypeCorrect == Spec => []TypeOK
<1>1. IInv => TypeOK
  BY DEF IInv
<1>. QED
  BY Invariant, <1>1, PTL

\* However the ticks of the nodes of a topic, the messages and the changes of
\* ports interleave, a node that has kept its topic is handed the newest
\* message of it, and none twice.
THEOREM NewestIsHandedOnce == Spec => HandedNewestOnce
<1>. DEFINE Good == /\ repeated' \subseteq moved'
                   /\ \A n \in Subs \ moved' : handed'[n] # handed[n] =>
                         handed'[n] = <<port[n], published[port[n]]>>
<1>1. IInv /\ IInv' /\ [Next]_vars => [Good]_vars
  <2>. SUFFICES ASSUME IInv, IInv', Next PROVE Good
    OBVIOUS
  <2>1. repeated' \subseteq moved'
    BY DEF IInv
  <2>2. ASSUME NEW n \in Subs \ moved', handed'[n] # handed[n]
        PROVE  handed'[n] = <<port[n], published[port[n]]>>
    <3>1. ASSUME NEW m \in Subs, Tick(m), m # n PROVE FALSE
      <4>1. handed' = [handed EXCEPT ![m] = handed'[m]]
        BY <3>1 DEF Tick, IInv, TypeOK
      <4>. QED
        BY <2>2, <3>1, <4>1 DEF IInv, TypeOK
    <3>2. CASE Tick(n)
      BY <2>2, <3>2, TickStep
    <3>3. (\E m \in Subs : Tick(m)) \/ handed' = handed
      BY DEF Next, TickPub, Reset, PortChanges, PublishElsewhere, Publish, subVars
    <3>. QED
      BY <2>2, <3>1, <3>2, <3>3
  <2>. QED
    BY <2>1, <2>2
<1>2. [][Good]_vars => HandedNewestOnce
  BY PTL DEF HandedNewestOnce
<1>. QED
  BY Invariant, <1>1, <1>2, PTL DEF Spec

-----------------------------------------------------------------------------
(* The service nodes: sequences of answers.                                *)

\* The smaller of two numbers.
LEMMA MinOfTwo ==
    ASSUME NEW i \in Nat, NEW j \in Nat
    PROVE  Service!Min({i, j}) = IF i <= j THEN i ELSE j
<1>. DEFINE m == IF i <= j THEN i ELSE j
<1>1. m \in {i, j} /\ \A y \in {i, j} : m <= y
  OBVIOUS
<1>2. \A x \in {i, j} : (\A y \in {i, j} : x <= y) => x = m
  OBVIOUS
<1>. QED
  BY <1>1, <1>2 DEF Service!Min

\* Answers that are taken from the front of a queue, and those that stay.
LEMMA TakenAndLeft ==
    ASSUME NEW S, NEW s \in Seq(S), NEW k \in 0..Len(s)
    PROVE  /\ SubSeq(s, 1, k) \in Seq(S) /\ SubSeq(s, k + 1, Len(s)) \in Seq(S)
           /\ Service!Range(SubSeq(s, 1, k)) \subseteq S
           /\ Service!Range(s)
                  \subseteq Service!Range(SubSeq(s, 1, k))
                  \cup Service!Range(SubSeq(s, k + 1, Len(s)))
           /\ Service!Range(SubSeq(s, 1, k)) \subseteq Service!Range(s)
<1>. DEFINE t == SubSeq(s, 1, k)
            l == SubSeq(s, k + 1, Len(s))
<1>1. /\ t \in Seq(S) /\ Len(t) = k /\ \A i \in 1..k : t[i] = s[i]
      /\ l \in Seq(S) /\ Len(l) = Len(s) - k /\ \A i \in 1..(Len(s) - k) : l[i] = s[k + i]
  OBVIOUS
<1>. HIDE DEF t, l
<1>2. ASSUME NEW i \in 1..Len(s) PROVE s[i] \in Service!Range(t) \cup Service!Range(l)
  <2>1. CASE i \in 1..k
    BY <1>1, <2>1 DEF Service!Range
  <2>2. CASE i \notin 1..k
    <3>1. i - k \in 1..(Len(s) - k) /\ k + (i - k) = i
      BY <2>2
    <3>2. l[i - k] = s[i] /\ i - k \in DOMAIN l
      BY <1>1, <3>1
    <3>. QED
      BY <3>2 DEF Service!Range
  <2>. QED
    BY <2>1, <2>2
<1>3. Service!Range(t) \subseteq Service!Range(s) /\ Service!Range(t) \subseteq S
  BY <1>1 DEF Service!Range
<1>4. Service!Range(s) \subseteq Service!Range(t) \cup Service!Range(l)
  BY <1>2 DEF Service!Range
<1>. QED
  BY <1>1, <1>3, <1>4 DEF t, l

\* The front of a queue.
LEMMA FrontOfQueue ==
    ASSUME NEW S, NEW s \in Seq(S), NEW k \in 0..Len(s)
    PROVE  \A x : x \in Service!Range(SubSeq(s, 1, k)) <=> \E i \in 1..k : x = s[i]
<1>. DEFINE t == SubSeq(s, 1, k)
<1>1. t \in Seq(S) /\ Len(t) = k /\ \A i \in 1..k : t[i] = s[i]
  OBVIOUS
<1>. HIDE DEF t
<1>2. DOMAIN t = 1..k
  BY <1>1
<1>. QED
  BY <1>1, <1>2 DEF Service!Range, t

\* An answer that arrives goes to the end of the queue.
LEMMA Appended ==
    ASSUME NEW S, NEW s \in Seq(S), NEW x \in S
    PROVE  Append(s, x) \in Seq(S) /\ Service!Range(Append(s, x)) = Service!Range(s) \cup {x}
<1>1. /\ Append(s, x) \in Seq(S) /\ Len(Append(s, x)) = Len(s) + 1
      /\ \A i \in 1..Len(s) : Append(s, x)[i] = s[i]
      /\ Append(s, x)[Len(s) + 1] = x
  OBVIOUS
<1>2. Service!Range(s) \cup {x} \subseteq Service!Range(Append(s, x))
  BY <1>1 DEF Service!Range
<1>3. Service!Range(Append(s, x)) \subseteq Service!Range(s) \cup {x}
  BY <1>1 DEF Service!Range
<1>. QED
  BY <1>1, <1>2, <1>3

-----------------------------------------------------------------------------
(* The service nodes: the invariant.                                       *)

\* What RosServiceNode assumes of its constants.
ServiceAssumptions == Service!NodesAssumption /\ Service!UnsetAssumption

\* A node whose name is not on the blackboard keeps the client of its
\* constructor, and a running node has sent a request.
NameInv ==
    \A n \in Nodes :
        /\ n \notin RemappedServices => service_name[n] = service_port[n]
        /\ bt[n] = "running" => run[n] >= 1

ServiceIInv == Service!TypeOK /\ NameInv /\ Service!RequestIsServed

\* The invariant holds at the start.
LEMMA ServiceInitInv == ServiceAssumptions /\ Service!Init => ServiceIInv
  BY DEF ServiceAssumptions, Service!NodesAssumption, Service!UnsetAssumption, Service!Init,
     ServiceIInv, Service!TypeOK, NameInv, Service!RequestIsServed, Service!Statuses

\* A tick takes answers that are there, and one of the first two that is the
\* node's own.
LEMMA SpunIsThere ==
    ASSUME Service!TypeOK, NEW n \in Nodes, service_name[n] \in ServiceNames
    PROVE  /\ Service!Answers(n) \in Seq(Service!Requests)
           /\ Service!Spun(n) \in 0..Len(Service!Answers(n))
           /\ Service!Current(n) \in completed
                  \cup Service!Range(SubSeq(Service!Answers(n), 1, Service!Spun(n)))
                 <=> Service!Current(n) \in completed \cup Service!NextTwo(n)
<1>. DEFINE A == Service!Answers(n)
            first == Service!Min({1, Len(A)})
            two == Service!Min({2, Len(A)})
            ready == Service!Current(n) \in completed \cup Service!Range(SubSeq(A, 1, first))
<1>1. A \in Seq(Service!Requests) /\ Len(A) \in Nat /\ DOMAIN A = 1..Len(A)
  BY DEF Service!TypeOK, Service!Answers
<1>2. Service!Spun(n) = IF ready THEN first ELSE two
  BY DEF Service!Spun
<1>. HIDE DEF A
<1>3. /\ first = IF 1 <= Len(A) THEN 1 ELSE Len(A)
      /\ two = IF 2 <= Len(A) THEN 2 ELSE Len(A)
  BY <1>1, MinOfTwo
<1>4. first \in 0..Len(A) /\ two \in 0..Len(A)
  BY <1>1, <1>3
<1>5. /\ \A x : x \in Service!Range(SubSeq(A, 1, first)) <=> \E i \in 1..first : x = A[i]
      /\ \A x : x \in Service!Range(SubSeq(A, 1, two)) <=> \E i \in 1..two : x = A[i]
  <2>. HIDE DEF first, two
  <2>. QED
    BY <1>1, <1>4, FrontOfQueue
<1>6. 1..two = DOMAIN A \cap {1, 2} /\ 1..first \subseteq 1..two
  <2>1. CASE Len(A) = 0
    BY <1>1, <1>3, <2>1
  <2>2. CASE Len(A) = 1
    BY <1>1, <1>3, <2>2
  <2>3. CASE Len(A) >= 2
    <3>1. first = 1 /\ two = 2
      BY <1>1, <1>3, <2>3
    <3>. HIDE DEF first, two
    <3>2. 1..two = {1, 2} /\ 1..first = {1} /\ {1, 2} \subseteq 1..Len(A)
      BY <1>1, <2>3, <3>1
    <3>. QED
      BY <1>1, <3>2
  <2>4. Len(A) = 0 \/ Len(A) = 1 \/ Len(A) >= 2
    BY <1>1
  <2>. QED
    BY <2>1, <2>2, <2>3, <2>4
<1>7. \A x : x \in Service!NextTwo(n) <=> \E i \in 1..two : x = A[i]
  BY <1>6 DEF Service!NextTwo, A
<1>8. Service!Range(SubSeq(A, 1, first)) \subseteq Service!NextTwo(n)
  BY <1>5, <1>6, <1>7
<1>9. CASE ready
  BY <1>1, <1>2, <1>4, <1>8, <1>9 DEF A
<1>10. CASE ~ready
  BY <1>1, <1>2, <1>4, <1>5, <1>7, <1>10 DEF A
<1>. QED
  BY <1>9, <1>10

-----------------------------------------------------------------------------
(* The service nodes: steps.                                               *)

\* createClient() gives an idle node the service in its port, and leaves a
\* running one, and every other node, the client it has.
LEMMA ClientOfTick ==
    ASSUME Service!TypeOK, NameInv, NEW n \in Nodes, bt[n] \in {"idle", "running"},
           Service!CreateClient(n)
    PROVE  /\ service_name' \in [Nodes -> ServiceNames \cup {Service!Unset}]
           /\ service_name'[n] \in ServiceNames
           /\ bt[n] = "idle" => service_name'[n] = service_port[n]
           /\ \A m \in Nodes : bt[m] = "running" \/ m # n \/ m \notin RemappedServices
                                  => service_name'[m] = service_name[m]
<1>1. Service!NameOf(n) \in ServiceNames
  BY DEF Service!TypeOK, NameInv, Service!NameOf
<1>. QED
  BY <1>1 DEF Service!TypeOK, NameInv, Service!NameOf, Service!CreateClient

\* The client instance of a node stays as it is as long as a node holds it.
LEMMA KeptWhileHeld ==
    ASSUME NEW names, NEW n \in DOMAIN names, names[n] \in ServiceNames,
           NEW f, NEW empty
    PROVE  Service!Kept(names, f, empty)[names[n]] = f[names[n]]
  BY DEF Service!Kept, Service!Range

\* The queues keep their types.
LEMMA KeptType ==
    ASSUME NEW T, NEW names, NEW f \in [ServiceNames -> T], NEW empty \in T
    PROVE  Service!Kept(names, f, empty) \in [ServiceNames -> T]
  BY DEF Service!Kept

\* Every step keeps the types.
LEMMA ServiceStepType ==
    ServiceAssumptions /\ Service!TypeOK /\ NameInv /\ [Service!Next]_(Service!vars)
        => Service!TypeOK'
<1>. SUFFICES ASSUME ServiceAssumptions, Service!TypeOK, NameInv,
                     [Service!Next]_(Service!vars)
              PROVE  Service!TypeOK'
  OBVIOUS
<1>0. <<>> \in Seq(Service!Requests) /\ {} \in SUBSET Service!Requests
  OBVIOUS
<1>. USE DEF ServiceAssumptions, Service!NodesAssumption, Service!UnsetAssumption,
   Service!Statuses, Service!nodeVars, Service!wireVars
<1>1. ASSUME NEW n \in Nodes, Service!TickAfterShutdown(n) PROVE Service!TypeOK'
  BY <1>1 DEF Service!TypeOK, Service!TickAfterShutdown
<1>2. ASSUME NEW n \in Nodes, Service!TickIdleFails(n) PROVE Service!TypeOK'
  <2>1. /\ service_name' \in [Nodes -> ServiceNames \cup {Service!Unset}]
        /\ service_name'[n] \in ServiceNames
        /\ \A m \in Nodes \ {n} : service_name'[m] = service_name[m]
    BY <1>2, ClientOfTick DEF Service!TickIdleFails
  <2>2. asked' \in [ServiceNames -> SUBSET Service!Requests]
    BY <1>2, KeptType DEF Service!TypeOK, Service!TickIdleFails
  <2>3. answers' \in [ServiceNames -> Seq(Service!Requests)]
    BY <1>0, <1>2, KeptType DEF Service!TypeOK, Service!TickIdleFails
  <2>. QED
    BY <1>2, <2>1, <2>2, <2>3 DEF Service!TypeOK, Service!TickIdleFails
<1>3. ASSUME NEW n \in Nodes, Service!TickIdleSends(n) PROVE Service!TypeOK'
  <2>1. /\ service_name' \in [Nodes -> ServiceNames \cup {Service!Unset}]
        /\ service_name'[n] \in ServiceNames
        /\ \A m \in Nodes \ {n} : service_name'[m] = service_name[m]
    BY <1>3, ClientOfTick DEF Service!TickIdleSends
  <2>2. run' \in [Nodes -> 0..MaxRuns] /\ <<n, run'[n]>> \in Service!Requests
    BY <1>3 DEF Service!TypeOK, Service!TickIdleSends, Service!Requests
  <2>3. asked' \in [ServiceNames -> SUBSET Service!Requests]
    <3>1. Service!Kept(service_name', asked, {}) \in [ServiceNames -> SUBSET Service!Requests]
      BY <1>0, KeptType DEF Service!TypeOK
    <3>. QED
      BY <1>3, <2>1, <2>2, <3>1 DEF Service!TickIdleSends
  <2>4. answers' \in [ServiceNames -> Seq(Service!Requests)]
    BY <1>0, <1>3, KeptType DEF Service!TypeOK, Service!TickIdleSends
  <2>5. \A m \in Nodes \ {n} : run'[m] = run[m]
    BY <1>3 DEF Service!TypeOK, Service!TickIdleSends
  <2>. QED
    BY <1>3, <2>1, <2>2, <2>3, <2>4, <2>5 DEF Service!TypeOK, Service!TickIdleSends
<1>4. ASSUME NEW n \in Nodes, Service!TickRunning(n) PROVE Service!TypeOK'
  <2>1. service_name[n] \in ServiceNames
    BY <1>4 DEF Service!TypeOK, NameInv, Service!TickRunning
  <2>2. service_name' = service_name
    BY <1>4, ClientOfTick DEF Service!TypeOK, Service!TickRunning
  <2>. DEFINE A == Service!Answers(n)
              left == SubSeq(A, Service!Spun(n) + 1, Len(A))
  <2>3. A \in Seq(Service!Requests) /\ Service!Spun(n) \in 0..Len(A)
    BY <2>1, SpunIsThere
  <2>4. /\ left \in Seq(Service!Requests)
        /\ Service!Range(SubSeq(A, 1, Service!Spun(n))) \subseteq Service!Requests
    BY <2>3, TakenAndLeft
  <2>5. answers' = Service!Kept(service_name', [answers EXCEPT ![service_name[n]] = left], <<>>)
    BY <1>4, <2>1 DEF Service!TickRunning, Service!Answers, Service!TypeOK
  <2>6. completed' \subseteq Service!Requests
    BY <1>4, <2>4 DEF Service!TickRunning, Service!TypeOK
  <2>. HIDE DEF left
  <2>7. [answers EXCEPT ![service_name[n]] = left] \in [ServiceNames -> Seq(Service!Requests)]
    BY <2>4 DEF Service!TypeOK
  <2>8. answers' \in [ServiceNames -> Seq(Service!Requests)]
    BY <1>0, <2>5, <2>7, KeptType
  <2>9. asked' \in [ServiceNames -> SUBSET Service!Requests]
    BY <1>4, KeptType DEF Service!TypeOK, Service!TickRunning
  <2>10. bt' \in [Nodes -> Service!Statuses]
    BY <1>4 DEF Service!TypeOK, Service!TickRunning, Service!Verdict
  <2>. QED
    BY <1>4, <2>2, <2>6, <2>8, <2>9, <2>10 DEF Service!TypeOK, Service!TickRunning
<1>5. ASSUME NEW n \in Nodes, Service!Halt(n) PROVE Service!TypeOK'
  BY <1>5 DEF Service!TypeOK, Service!Halt
<1>6. ASSUME NEW n \in Nodes, Service!PortChanges(n) PROVE Service!TypeOK'
  BY <1>6 DEF Service!TypeOK, Service!PortChanges
<1>7. ASSUME NEW n \in Nodes, Service!TimePasses(n) PROVE Service!TypeOK'
  BY <1>7 DEF Service!TypeOK, Service!TimePasses
<1>8. ASSUME NEW s \in ServiceNames, NEW r \in Service!Requests, Service!Answer(s, r)
      PROVE  Service!TypeOK'
  <2>1. Append(answers[s], r) \in Seq(Service!Requests)
    BY Appended DEF Service!TypeOK
  <2>. QED
    BY <1>8, <2>1 DEF Service!TypeOK, Service!Answer
<1>9. CASE Service!Shutdown \/ UNCHANGED Service!vars
  BY <1>9 DEF Service!TypeOK, Service!Shutdown, Service!vars
<1>. QED
  BY <1>1, <1>2, <1>3, <1>4, <1>5, <1>6, <1>7, <1>8, <1>9 DEF Service!Next, Service!Tick

\* Names change on the blackboard only, and for the next run.
LEMMA StepName == Service!TypeOK /\ NameInv /\ [Service!Next]_(Service!vars) => NameInv'
<1>. SUFFICES ASSUME Service!TypeOK, NameInv, [Service!Next]_(Service!vars), NEW n \in Nodes
              PROVE  /\ n \notin RemappedServices => service_name'[n] = service_port'[n]
                     /\ bt'[n] = "running" => run'[n] >= 1
  BY DEF NameInv
<1>. USE DEF Service!TypeOK, NameInv, Service!nodeVars, Service!wireVars
<1>1. ASSUME NEW m \in Nodes, Service!Tick(m)
      PROVE  n \notin RemappedServices => service_name'[n] = service_port'[n]
  BY <1>1, ClientOfTick DEF Service!Tick, Service!TickAfterShutdown, Service!TickIdleFails,
     Service!TickIdleSends, Service!TickRunning
<1>2. ASSUME NEW m \in Nodes, Service!Tick(m) PROVE bt'[n] = "running" => run'[n] >= 1
  BY <1>2 DEF Service!Tick, Service!TickAfterShutdown, Service!TickIdleFails,
     Service!TickIdleSends, Service!TickRunning
<1>3. ASSUME NEW m \in Nodes, Service!Halt(m) \/ Service!PortChanges(m) \/ Service!TimePasses(m)
      PROVE  /\ n \notin RemappedServices => service_name'[n] = service_port'[n]
             /\ bt'[n] = "running" => run'[n] >= 1
  BY <1>3 DEF Service!Halt, Service!PortChanges, Service!TimePasses
<1>4. CASE \/ Service!Shutdown \/ UNCHANGED Service!vars
           \/ \E s \in ServiceNames, r \in Service!Requests : Service!Answer(s, r)
  BY <1>4 DEF Service!Shutdown, Service!vars, Service!Answer
<1>. QED
  BY <1>1, <1>2, <1>3, <1>4 DEF Service!Next

\* An answer moves from the service to the queue of the client, and from there
\* to a future; nothing takes it away.
LEMMA StepServed == ServiceIInv /\ [Service!Next]_(Service!vars) => Service!RequestIsServed'
<1>. SUFFICES ASSUME ServiceIInv, [Service!Next]_(Service!vars), 
                     NEW n \in Nodes, bt'[n] = "running"
              PROVE  Service!Current(n)' \in asked'[service_name'[n]]
                         \cup Service!Range(Service!Answers(n)')
                                       \cup completed'
  BY DEF Service!RequestIsServed, Service!Answers
<1>. DEFINE s == service_name[n]
<1>a. bt[n] = "running" => s \in ServiceNames
  BY DEF ServiceIInv, Service!TypeOK, NameInv
<1>b. bt[n] = "running"
          => Service!Current(n) \in asked[s] \cup Service!Range(answers[s]) \cup completed
  BY DEF ServiceIInv, Service!RequestIsServed, Service!Answers
<1>1. ASSUME bt[n] = "running", service_name'[n] = s, run'[n] = run[n],
             asked[s] \cup Service!Range(answers[s]) \cup completed
                \subseteq asked'[s] \cup Service!Range(answers'[s]) \cup completed'
      PROVE  Service!Current(n)' \in asked'[service_name'[n]]
                 \cup Service!Range(Service!Answers(n)')
                               \cup completed'
  BY <1>1, <1>b DEF Service!Current, Service!Answers
<1>2. ASSUME NEW m \in Nodes, Service!TickAfterShutdown(m)
      PROVE  /\ bt[n] = "running" /\ service_name'[n] = s /\ run'[n] = run[n]
             /\ asked'[s] = asked[s] /\ answers'[s] = answers[s] /\ completed' = completed
  BY <1>2 DEF ServiceIInv, Service!TypeOK, Service!TickAfterShutdown, Service!wireVars
<1>3. ASSUME NEW m \in Nodes, Service!TickIdleFails(m)
      PROVE  /\ bt[n] = "running" /\ service_name'[n] = s /\ run'[n] = run[n]
             /\ asked'[s] = asked[s] /\ answers'[s] = answers[s] /\ completed' = completed
  <2>1. bt[n] = "running" /\ run' = run /\ completed' = completed
    BY <1>3 DEF ServiceIInv, Service!TypeOK, Service!TickIdleFails
  <2>2. service_name' \in [Nodes -> ServiceNames \cup {Service!Unset}] /\ service_name'[n] = s
    BY <1>3, <2>1, ClientOfTick DEF ServiceIInv, Service!TickIdleFails
  <2>3. asked'[s] = asked[s] /\ answers'[s] = answers[s]
    BY <1>3, <1>a, <2>1, <2>2, KeptWhileHeld DEF Service!TickIdleFails
  <2>. QED
    BY <2>1, <2>2, <2>3
<1>4. ASSUME NEW m \in Nodes, m # n, Service!TickIdleSends(m)
      PROVE  /\ bt[n] = "running" /\ service_name'[n] = s /\ run'[n] = run[n]
             /\ asked[s] \subseteq asked'[s]
             /\ answers'[s] = answers[s] /\ completed' = completed
  <2>1. bt[n] = "running" /\ run'[n] = run[n] /\ completed' = completed
    BY <1>4 DEF ServiceIInv, Service!TypeOK, Service!TickIdleSends
  <2>2. service_name' \in [Nodes -> ServiceNames \cup {Service!Unset}] /\ service_name'[n] = s
    BY <1>4, <2>1, ClientOfTick DEF ServiceIInv, Service!TickIdleSends
  <2>3. answers'[s] = answers[s]
    BY <1>4, <1>a, <2>1, <2>2, KeptWhileHeld DEF Service!TickIdleSends
  <2>4. Service!Kept(service_name', asked, {})[s] = asked[s]
    BY <1>a, <2>1, <2>2, KeptWhileHeld
  <2>5. Service!Kept(service_name', asked, {}) \in [ServiceNames -> SUBSET Service!Requests]
    BY KeptType DEF ServiceIInv, Service!TypeOK
  <2>6. asked[s] \subseteq asked'[s]
    BY <1>4, <1>a, <2>1, <2>4, <2>5 DEF Service!TickIdleSends
  <2>. QED
    BY <2>1, <2>2, <2>3, <2>6
<1>5. ASSUME Service!TickIdleSends(n)
      PROVE  Service!Current(n)' \in asked'[service_name'[n]]
  <2>1. service_name'[n] \in ServiceNames
    BY <1>5, ClientOfTick DEF ServiceIInv, Service!TickIdleSends
  <2>2. Service!Kept(service_name', asked, {}) \in [ServiceNames -> SUBSET Service!Requests]
    BY KeptType DEF ServiceIInv, Service!TypeOK
  <2>. QED
    BY <1>5, <2>1, <2>2 DEF Service!TickIdleSends, Service!Current
<1>6. ASSUME NEW m \in Nodes, Service!TickRunning(m)
      PROVE  /\ bt[n] = "running" /\ service_name'[n] = s /\ run'[n] = run[n]
             /\ asked'[s] = asked[s]
             /\ Service!Range(answers[s]) \subseteq Service!Range(answers'[s]) \cup completed'
             /\ completed \subseteq completed'
  <2>1. bt[n] = "running" /\ run' = run /\ completed \subseteq completed'
    BY <1>6 DEF ServiceIInv, Service!TypeOK, Service!TickRunning
  <2>2. service_name' \in [Nodes -> ServiceNames \cup {Service!Unset}] /\ service_name'[n] = s
    BY <1>6, <2>1, ClientOfTick DEF ServiceIInv, Service!TickRunning
  <2>3. service_name[m] \in ServiceNames
    BY <1>6 DEF ServiceIInv, Service!TypeOK, NameInv, Service!TickRunning
  <2>. DEFINE A == Service!Answers(m)
              left == SubSeq(A, Service!Spun(m) + 1, Len(A))
              after == [answers EXCEPT ![service_name[m]] = left]
  <2>4. A \in Seq(Service!Requests) /\ Service!Spun(m) \in 0..Len(A)
    BY <2>3, SpunIsThere DEF ServiceIInv
  <2>5. Service!Range(A)
            \subseteq Service!Range(SubSeq(A, 1, Service!Spun(m))) \cup Service!Range(left)
    BY <2>4, TakenAndLeft
  <2>6. answers' = Service!Kept(service_name', after, <<>>)
    BY <1>6, <2>3 DEF Service!TickRunning, Service!Answers, ServiceIInv, Service!TypeOK
  <2>7. completed' = completed \cup Service!Range(SubSeq(A, 1, Service!Spun(m)))
    BY <1>6 DEF Service!TickRunning
  <2>. HIDE DEF left, after
  <2>8. asked'[s] = asked[s] /\ answers'[s] = after[s]
    BY <1>6, <1>a, <2>1, <2>2, <2>6, KeptWhileHeld DEF Service!TickRunning
  <2>9. Service!Range(answers[s]) \subseteq Service!Range(after[s]) \cup completed'
    <3>1. CASE s = service_name[m]
      BY <2>3, <2>5, <2>7, <3>1 DEF after, Service!Answers, ServiceIInv, Service!TypeOK
    <3>2. CASE s # service_name[m]
      BY <1>a, <2>1, <3>2 DEF after, ServiceIInv, Service!TypeOK
    <3>. QED
      BY <3>1, <3>2
  <2>. QED
    BY <2>1, <2>2, <2>8, <2>9
<1>7. ASSUME NEW t \in ServiceNames, NEW r \in Service!Requests, Service!Answer(t, r)
      PROVE  /\ bt[n] = "running" /\ service_name'[n] = s /\ run'[n] = run[n]
             /\ asked[s] \cup Service!Range(answers[s])
                    \subseteq asked'[s] \cup Service!Range(answers'[s])
             /\ completed' = completed
  <2>1. bt[n] = "running" /\ service_name'[n] = s /\ run'[n] = run[n] /\ completed' = completed
    BY <1>7 DEF Service!Answer, Service!nodeVars
  <2>2. Service!Range(Append(answers[t], r)) = Service!Range(answers[t]) \cup {r}
    BY Appended DEF ServiceIInv, Service!TypeOK
  <2>3. asked[s] \cup Service!Range(answers[s])
            \subseteq asked'[s] \cup Service!Range(answers'[s])
    BY <1>7, <1>a, <2>1, <2>2 DEF Service!Answer, ServiceIInv, Service!TypeOK
  <2>. QED
    BY <2>1, <2>3
<1>8. ASSUME \/ Service!Shutdown \/ UNCHANGED Service!vars
             \/ \E m \in Nodes : \/ Service!Halt(m) \/ Service!PortChanges(m)
                                \/ Service!TimePasses(m)
      PROVE  /\ bt[n] = "running" /\ service_name'[n] = s /\ run'[n] = run[n]
             /\ asked'[s] = asked[s] /\ answers'[s] = answers[s] /\ completed' = completed
  BY <1>8 DEF Service!Shutdown, Service!Halt, Service!PortChanges, Service!TimePasses,
     Service!vars, Service!nodeVars, Service!wireVars, ServiceIInv, Service!TypeOK
<1>. HIDE DEF s
<1>. QED
  BY <1>1, <1>2, <1>3, <1>4, <1>5, <1>6, <1>7, <1>8 DEF Service!Next, Service!Tick

\* The strengthening that the safety properties follow from.
THEOREM ServiceInvariant == ServiceAssumptions => (Service!Spec => []ServiceIInv)
<1>. SUFFICES ASSUME ServiceAssumptions PROVE Service!Spec => []ServiceIInv
  OBVIOUS
<1>1. ServiceIInv /\ [Service!Next]_(Service!vars) => ServiceIInv'
  BY ServiceStepType, StepName, StepServed DEF ServiceIInv
<1>. QED
  BY ServiceInitInv, <1>1, PTL DEF Service!Spec

-----------------------------------------------------------------------------
(* The service nodes: safety.                                              *)

\* The variables of nodes and clients keep their types.
THEOREM ServiceTypeCorrect == ServiceAssumptions => (Service!Spec => []Service!TypeOK)
  BY ServiceInvariant, PTL DEF ServiceIInv

\* The answer to the request of a running node is to come, or waits where the
\* next tick of the node looks, or has been handled.
THEOREM RequestsAreServed == ServiceAssumptions => (Service!Spec => []Service!RequestIsServed)
  BY ServiceInvariant, PTL DEF ServiceIInv

\* A run asks the service that the port names when it begins.
THEOREM RunsAskTheService == ServiceAssumptions => (Service!Spec => Service!AsksTheService)
<1>1. ASSUME ServiceIInv, [Service!Next]_(Service!vars), NEW n \in Nodes, run'[n] # run[n]
      PROVE  <<n, run'[n]>> \in asked'[service_port[n]]
  <2>1. Service!TickIdleSends(n)
    BY <1>1 DEF ServiceIInv, Service!TypeOK, Service!Next, Service!Tick,
       Service!TickAfterShutdown, Service!TickIdleFails, Service!TickIdleSends,
       Service!TickRunning, Service!Halt, Service!PortChanges, Service!TimePasses,
       Service!Answer, Service!Shutdown, Service!nodeVars, Service!vars
  <2>2. service_name'[n] = service_port[n] /\ service_port[n] \in ServiceNames
    BY <1>1, <2>1, ClientOfTick DEF ServiceIInv, Service!TypeOK, Service!TickIdleSends
  <2>3. Service!Kept(service_name', asked, {}) \in [ServiceNames -> SUBSET Service!Requests]
    BY <1>1, KeptType DEF ServiceIInv, Service!TypeOK
  <2>. QED
    BY <2>1, <2>2, <2>3 DEF Service!TickIdleSends
<1>2. ServiceIInv /\ [Service!Next]_(Service!vars) =>
        [\A n \in Nodes : run'[n] # run[n]
            => <<n, run'[n]>> \in asked'[service_port[n]]]_(Service!vars)
  BY <1>1
<1>. QED
  BY <1>2, ServiceInvariant, PTL DEF Service!Spec, Service!AsksTheService

\* A node that completes has the answer to the request of this run, and one
\* that reports a time limit has no answer among the next two.
THEOREM VerdictsAreOfTheRun ==
    ServiceAssumptions => (Service!Spec => Service!VerdictIsOfThisRun)
<1>1. ASSUME ServiceIInv, [Service!Next]_(Service!vars), NEW n \in Nodes, bt[n] = "running"
      PROVE  /\ bt'[n] = "success"
                    => Service!Current(n) \in Service!Range(Service!Answers(n)) \cup completed
             /\ ok /\ bt'[n] = "failure"
                    => Service!Current(n) \notin completed \cup Service!NextTwo(n)
  <2>1. service_name[n] \in ServiceNames
    BY <1>1 DEF ServiceIInv, Service!TypeOK, NameInv
  <2>2. CASE Service!TickRunning(n)
    <3>1. bt'[n] = Service!Verdict(n, Service!FutureIsReady(n))
      BY <1>1, <2>2 DEF Service!TickRunning, ServiceIInv, Service!TypeOK
    <3>2. Service!FutureIsReady(n) <=>
             Service!Current(n) \in completed
                 \cup Service!Range(SubSeq(Service!Answers(n), 1, Service!Spun(n)))
      BY <2>2 DEF Service!TickRunning, Service!FutureIsReady
    <3>3. /\ Service!FutureIsReady(n)
                 <=> Service!Current(n) \in completed \cup Service!NextTwo(n)
          /\ Service!NextTwo(n) \subseteq Service!Range(Service!Answers(n))
      BY <1>1, <2>1, <3>2, SpunIsThere DEF ServiceIInv, Service!NextTwo, Service!Range
    <3>. QED
      BY <3>1, <3>3 DEF Service!Verdict
  <2>3. CASE bt'[n] = bt[n] \/ bt'[n] = "idle" \/ (~ok /\ bt'[n] = "failure")
    BY <1>1, <2>3
  <2>. QED
    BY <1>1, <2>2, <2>3 DEF ServiceIInv, Service!TypeOK, Service!Next, Service!Tick,
       Service!TickAfterShutdown, Service!TickIdleFails, Service!TickIdleSends,
       Service!TickRunning, Service!Halt, Service!PortChanges, Service!TimePasses,
       Service!Answer, Service!Shutdown,
       Service!nodeVars, Service!vars
<1>2. ServiceIInv /\ [Service!Next]_(Service!vars) =>
        [\A n \in Nodes : bt[n] = "running" =>
          /\ bt'[n] = "success"
                 => Service!Current(n) \in Service!Range(Service!Answers(n)) \cup completed
          /\ ok /\ bt'[n] = "failure"
                 => Service!Current(n) \notin completed \cup Service!NextTwo(n)
        ]_(Service!vars)
  BY <1>1
<1>. QED
  BY <1>2, ServiceInvariant, PTL DEF Service!Spec, Service!VerdictIsOfThisRun
=============================================================================
