------------------------------ MODULE MCMission ------------------------------
(* An instance of Mission for TLC: the shipped ports, a port in other words,*)
(* one that overflows uint8_t, and waypoints that are not pairs of numbers. *)
EXTENDS Mission

Port(a, b, c) == 1 :> a @@ 2 :> b @@ 4 :> c
Inactive == <<"inactive">>

MCStatePorts == {Port(Inactive, <<"active">>, Inactive),
                 Port(Inactive, <<"primary", "state", "active">>, <<"2">>),
                 Port(Inactive, <<"259">>, Inactive)}
MCWaypointPorts == {<<<<"0", "1">>>>, <<<<"0", "1">>, <<"1">>, <<"word", "1">>>>,
                    <<<<"0", "word">>>>}
MCRoute == [start |-> <<0, 0>>, waypoints |-> <<>>, goal |-> <<2, 0>>,
            resolution |-> 1]
=============================================================================
