----------------------------- MODULE DistanceField -----------------------------
(***************************************************************************)
(* convertmap_grid_to_distance of inrof_swerm/src/core/boid_core.cpp: the  *)
(* distance of each cell of an occupancy grid to the nearest occupied one, *)
(* by Dijkstra's algorithm from all occupied cells at once, with lazy      *)
(* deletion.  One step is one turn of the while loop.                      *)
(*                                                                         *)
(* The two float steps, resolution and resolution * sqrt(2), are integers  *)
(* Straight and Diagonal of which only the order matters; rounding is left *)
(* out.                                                                    *)
(***************************************************************************)
EXTENDS Integers, FiniteSets

CONSTANTS
    Width, Height,
    Straight, Diagonal,
    Occupancy           \* the values that occur in map.data

ASSUME GridAssumption == Width \in Nat /\ Height \in Nat
ASSUME StepAssumption ==
    /\ Straight \in Nat \ {0} /\ Diagonal \in Nat
    /\ Straight < Diagonal /\ Diagonal < 2 * Straight
ASSUME OccupancyAssumption == Occupancy \subseteq -1..100

Cells == (0..(Width - 1)) \X (0..(Height - 1))
Infinity == (Width + Height) * Diagonal + 1      \* above any distance
Distances == 0..Infinity

VARIABLES
    data,       \* map.data
    distance,   \* field.distance
    queue,      \* the priority queue: pairs of a distance and a cell
    expanded    \* history: the cells whose neighbours have been relaxed

vars == <<data, distance, queue, expanded>>

TypeOK ==
    /\ data \in [Cells -> Occupancy]
    /\ distance \in [Cells -> Distances]
    /\ queue \subseteq Distances \X Cells
    /\ expanded \subseteq Cells

Abs(n) == IF n < 0 THEN -n ELSE n
Least(S) == CHOOSE m \in S : \A n \in S : m <= n

Occupied == {c \in Cells : data[c] >= 65}

\* Mutant of Neighbours: the four diagonal directions are missing.
StraightNeighbours(c) ==
    {n \in Cells : Abs(n[1] - c[1]) + Abs(n[2] - c[2]) = 1}

\* The up to eight cells that the loop over dirs does not skip.
Neighbours(c) ==
    {n \in Cells : n # c /\ Abs(n[1] - c[1]) <= 1 /\ Abs(n[2] - c[2]) <= 1}

Step(c, n) == IF n[1] # c[1] /\ n[2] # c[2] THEN Diagonal ELSE Straight

\* The neighbours of c that an entry of distance d improves.
Improved(d, c) == {n \in Neighbours(c) : d + Step(c, n) < distance[n]}

Init ==
    /\ data \in [Cells -> Occupancy]
    /\ distance = [c \in Cells |-> IF c \in Occupied THEN 0 ELSE Infinity]
    /\ queue = {0} \X Occupied
    /\ expanded = {}

\* queue.top() and pop(); equal keys leave the heap in either order.
Top(d, c) == <<d, c>> \in queue /\ \A e \in queue : d <= e[1]

\* "if (d > field.distance(...)) continue": the cell was improved meanwhile.
SkipStale(d, c) ==
    /\ Top(d, c)
    /\ d > distance[c]
    /\ queue' = queue \ {<<d, c>>}
    /\ UNCHANGED <<data, distance, expanded>>

Expand(d, c) ==
    /\ Top(d, c)
    /\ d <= distance[c]
    /\ distance' = [n \in Cells |-> IF n \in Improved(d, c) THEN d + Step(c, n)
                                    ELSE distance[n]]
    /\ queue' = (queue \ {<<d, c>>}) \cup {<<d + Step(c, n), n>> : n \in Improved(d, c)}
    /\ expanded' = expanded \cup {c}
    /\ UNCHANGED data

Next == \E e \in queue : SkipStale(e[1], e[2]) \/ Expand(e[1], e[2])

Spec == Init /\ [][Next]_vars
FairSpec == Spec /\ WF_vars(Next)

-----------------------------------------------------------------------------
(* Properties.                                                             *)

\* The reference: the length of a shortest path of eight-neighbour moves, in
\* closed form, and its minimum over the occupied cells.
Octile(c, o) ==
    LET dx == Abs(c[1] - o[1])
        dy == Abs(c[2] - o[2])
        short == IF dx < dy THEN dx ELSE dy
        long == IF dx < dy THEN dy ELSE dx
    IN  Diagonal * short + Straight * (long - short)

Nearest(c) ==
    IF Occupied = {} THEN Infinity ELSE Least({Octile(c, o) : o \in Occupied})

\* Every cell has its distance to the nearest wall; those of a map without a
\* single occupied cell keep an infinite distance.
Exact == \A c \in Cells : distance[c] = Nearest(c)

\* The loop ends, and then the field is exact.
EndsExact == <>[](queue = {} /\ Exact)

\* At any time a distance is one that some occupied cell justifies: the field
\* never claims that a wall is nearer than it is.
NeverTooClose ==
    \A c \in Cells : distance[c] # Infinity =>
        \E o \in Occupied : Octile(c, o) <= distance[c]

\* The work is bounded: no cell is expanded twice, and a cell that has been
\* expanded is final.
ExpandedIsFinal ==
    [][/\ \A c \in expanded : distance'[c] = distance[c]
       /\ expanded' = expanded => distance' = distance]_vars
=============================================================================
