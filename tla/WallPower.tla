------------------------------- MODULE WallPower -------------------------------
(***************************************************************************)
(* BoidCore::make_wall_power of inrof_swerm/src/core/boid_core.cpp: the    *)
(* push away from the walls that a robot gets from the distance field of   *)
(* the cell it is in.                                                      *)
(*                                                                         *)
(* World coordinates are in half cells and origin_yaw is in quarter turns. *)
(* Of the power only the direction is kept, not its normalisation nor the  *)
(* factor 1 / max(d, Ir_min).                                              *)
(***************************************************************************)
EXTENDS DistanceField

CONSTANTS
    World,      \* positions of robots, on the map and off it
    Origin,     \* origin_x and origin_y
    Ir          \* in units of distance

ASSUME WorldAssumption ==
    /\ World \subseteq Int \X Int /\ Origin \in Int \X Int
    /\ Ir \in 1..(Infinity - 1)

Yaws == 0..3
Zero == <<0, 0>>

\* v turned to the left by yaw quarter turns.
Turned(v, yaw) ==
    CASE yaw = 0 -> v
      [] yaw = 1 -> <<-v[2], v[1]>>
      [] yaw = 2 -> <<-v[1], -v[2]>>
      [] yaw = 3 -> <<v[2], -v[1]>>

\* <<mx, my>>, for a position in the world.
CellAt(w, yaw) ==
    LET local == Turned(<<w[1] - Origin[1], w[2] - Origin[2]>>, (4 - yaw) % 4)
    IN  <<local[1] \div 2, local[2] \div 2>>

OffTheMap(c) ==
    c[1] <= 0 \/ c[1] >= Width - 1 \/ c[2] <= 0 \/ c[2] >= Height - 1

East(c) == <<c[1] + 1, c[2]>>
West(c) == <<c[1] - 1, c[2]>>
North(c) == <<c[1], c[2] + 1>>
South(c) == <<c[1], c[2] - 1>>

\* The cells whose distances are read for a robot in c.
Reads(c) == IF OffTheMap(c) THEN {} ELSE {c, East(c), West(c), North(c), South(c)}

Grad(c) == <<distance[East(c)] - distance[West(c)],
             distance[North(c)] - distance[South(c)]>>

\* Mutant of ToWorld: the gradient is used as it is, in the frame of the map.
ToWorldUnturned(v, yaw) == v

\* map_to_world
ToWorld(v, yaw) == Turned(v, yaw)

\* make_wall_power, for a robot at w.
WallPower(w, yaw) ==
    LET c == CellAt(w, yaw) IN
    IF OffTheMap(c) THEN Zero
    ELSE IF distance[c] = Infinity \/ distance[c] >= Ir THEN Zero
    ELSE ToWorld(Grad(c), yaw)

-----------------------------------------------------------------------------
(* Properties.                                                             *)

\* Wherever a robot is, and however the map lies in the world, no read of the
\* field is out of its bounds.
ReadsInside ==
    \A w \in World, yaw \in Yaws : Reads(CellAt(w, yaw)) \subseteq DOMAIN distance

\* The world frame is that of the robots: the push never has a component
\* towards a wall that touches the robot's cell, and a robot with a wall on
\* one side alone is pushed to the other one.
PushesOffTheWall ==
    queue = {} => \A w \in World, yaw \in Yaws :
        LET c == CellAt(w, yaw)
            push == WallPower(w, yaw)
            \* The component of the push along a unit vector of the map.
            along(u) == push[1] * Turned(u, yaw)[1] + push[2] * Turned(u, yaw)[2]
            step(u) == <<c[1] + u[1], c[2] + u[2]>>
        IN  ~OffTheMap(c) => \A u \in {<<1, 0>>, <<-1, 0>>, <<0, 1>>, <<0, -1>>} :
                step(u) \in Occupied =>
                    /\ along(u) <= 0
                    /\ distance[c] < Ir /\ step(<<-u[1], -u[2]>>) \notin Occupied =>
                          along(u) < 0
=============================================================================
