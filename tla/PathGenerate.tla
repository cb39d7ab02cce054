----------------------------- MODULE PathGenerate -----------------------------
(***************************************************************************)
(* PathGenerateServer::gen_path of inrof_control, on routes whose segments *)
(* are parallel to an axis, as those of every shipped mission are: there   *)
(* cos and sin of the heading are 0 or 1 or -1, and the route is exact in  *)
(* integers (any fixed unit of length).                                    *)
(***************************************************************************)
EXTENDS Integers, SequencesExt

Abs(n) == IF n < 0 THEN -n ELSE n

Distance(p, q) == Abs(p[1] - q[1]) + Abs(p[2] - q[2])

Sign(n) == IF n > 0 THEN 1 ELSE IF n < 0 THEN -1 ELSE 0

Point == Int \X Int

PathRequest == [start : Point, waypoints : Seq(Point), goal : Point,
                resolution : Nat \ {0}]

\* waypoints_vector, with the start in front of it.
Corners(req) == <<req.start>> \o req.waypoints \o <<req.goal>>

Segments(req) == 1..(Len(req.waypoints) + 1)

AxisParallel(req) ==
    \A k \in Segments(req) :
        \E axis \in 1..2 : Corners(req)[k][axis] = Corners(req)[k + 1][axis]

SegmentLength(req, k) == Distance(Corners(req)[k], Corners(req)[k + 1])

\* The quotient is truncated to an int.
PointNum(req, k) == SegmentLength(req, k) \div req.resolution

\* One resolution along segment k, n times, from the point p.
Along(req, k, p, n) ==
    LET from == Corners(req)[k]
        to == Corners(req)[k + 1]
    IN  <<p[1] + n * req.resolution * Sign(to[1] - from[1]),
          p[2] + n * req.resolution * Sign(to[2] - from[2])>>

\* Mutant of AddSegment: each segment starts at its waypoint.
AddSegmentFromWaypoint(req, poses, k) ==
    poses \o [n \in 1..PointNum(req, k) |-> Along(req, k, Corners(req)[k], n)]

\* add_point goes on from where the segment before was truncated, not from
\* the waypoint.
AddSegment(req, poses, k) ==
    poses \o [n \in 1..PointNum(req, k) |-> Along(req, k, Last(poses), n)]

\* The poses after the first k segments.
Walk(req) ==
    LET walk[k \in {0} \cup Segments(req)] ==
            IF k = 0 THEN <<req.start>> ELSE AddSegment(req, walk[k - 1], k)
    IN  walk

GenPath(req) == Append(Walk(req)[Len(req.waypoints) + 1], req.goal)
=============================================================================
