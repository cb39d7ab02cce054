--------------------------- MODULE MCLeaderPosServer ---------------------------
(* Instances of LeaderPosServer for TLC.                                   *)
EXTENDS LeaderPosServer

Coordinates == 0..4
Corner == Coordinates \X Coordinates

Request(start, waypoints, goal, resolution) ==
    [start |-> start, waypoints |-> waypoints, goal |-> goal,
     resolution |-> resolution]

\* Every axis-parallel route with at most two waypoints, in three resolutions.
ManyRequests ==
    LET starts == {<<0, 0>>, <<2, 3>>}
        all == {Request(s, w, q, r) : s \in starts,
                                      w \in {<<>>} \cup {<<p>> : p \in Corner}
                                            \cup {<<p, <<4, 1>>>> : p \in Corner},
                                      q \in Corner, r \in 1..3}
    IN  {req \in all : AxisParallel(req)}

\* Two short routes that cross, the second of them with a corner.
FewRequests == {Request(<<0, 0>>, <<>>, <<3, 0>>, 1),
                Request(<<1, 1>>, <<<<1, 0>>>>, <<2, 0>>, 2)}

CONSTANTS g1, g2

\* Two clients with a short route each, or one with any route.
MCRequests == [{g1, g2} -> FewRequests] \cup [{g1} -> ManyRequests]
=============================================================================
