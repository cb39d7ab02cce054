------------------------- MODULE DistanceFieldProofs -------------------------
(***************************************************************************)
(* Proofs about DistanceField and WallPower, for every grid, every map and *)
(* every pair of step lengths with Straight < Diagonal < 2 * Straight: the *)
(* field never claims that a wall is nearer than it is, a cell whose       *)
(* neighbours have been relaxed is never improved again, and the field is  *)
(* exact when the loop ends; and for every position, origin and Ir: the    *)
(* push reads inside the field and leads away from the wall.               *)
(***************************************************************************)
EXTENDS WallPower, FiniteSetTheorems, TLAPS

-----------------------------------------------------------------------------
(* Arithmetic of the reference distance.                                   *)

\* The octile distance of two offsets.
Norm(x, y) == LET short == IF x < y THEN x ELSE y
                  long == IF x < y THEN y ELSE x
              IN  Diagonal * short + Straight * (long - short)

\* Multiplication by a natural number is monotone.
LEMMA TimesMonotone ==
    ASSUME NEW k \in Nat, NEW a \in Nat, NEW b \in Nat, a <= b + 1
    PROVE  k * a <= k * b + k
  BY SMT

\* Norm in the form (Diagonal - Straight) * short + Straight * long.
LEMMA NormSplit ==
    ASSUME NEW x \in Nat, NEW y \in Nat
    PROVE  /\ Norm(x, y) \in Nat
           /\ x <= y => Norm(x, y) = (Diagonal - Straight) * x + Straight * y
           /\ y <= x => Norm(x, y) = (Diagonal - Straight) * y + Straight * x
  BY StepAssumption, SMT DEF Norm

\* In that form a longer pair of offsets never has a smaller norm.
LEMMA SplitMonotone ==
    ASSUME NEW k \in Nat, NEW m \in Nat, NEW u \in Nat, NEW l \in Nat,
           NEW v \in Nat, NEW n \in Nat
    PROVE  /\ v <= u + 1 /\ n <= l + 1 => k * v + m * n <= k * u + m * l + k + m
           /\ v <= u /\ n <= l + 1 => k * v + m * n <= k * u + m * l + m
           /\ v <= u + 1 /\ n <= l /\ k <= m => k * v + m * n <= k * u + m * l + m
<1>1. v <= u + 1 => k * v <= k * u + k
  BY TimesMonotone
<1>2. n <= l + 1 => m * n <= m * l + m
  BY TimesMonotone
<1>3. v <= u => k * v <= k * u
  BY SMT
<1>4. n <= l => m * n <= m * l
  BY SMT
<1>. DEFINE a == k * v  b == m * n  c == k * u  d == m * l
<1>5. a \in Nat /\ b \in Nat /\ c \in Nat /\ d \in Nat
  BY SMT
<1>. HIDE DEF a, b, c, d
<1>6. /\ v <= u + 1 /\ n <= l + 1 => a + b <= c + d + k + m
      /\ v <= u /\ n <= l + 1 => a + b <= c + d + m
      /\ v <= u + 1 /\ n <= l /\ k <= m => a + b <= c + d + m
  BY <1>1, <1>2, <1>3, <1>4, <1>5, SMT DEF a, b, c, d
<1>. QED
  BY <1>6 DEF a, b, c, d

\* One move to a neighbour lengthens the way to an occupied cell by no more
\* than the length of the move.
LEMMA NormMove ==
    ASSUME NEW x \in Nat, NEW y \in Nat, NEW x2 \in Nat, NEW y2 \in Nat,
           x2 <= x + 1, x <= x2 + 1, y2 <= y + 1, y <= y2 + 1
    PROVE  /\ Norm(x2, y2) <= Norm(x, y) + Diagonal
           /\ x2 = x \/ y2 = y => Norm(x2, y2) <= Norm(x, y) + Straight
<1>. DEFINE k == Diagonal - Straight
            Short(p, q) == IF p <= q THEN p ELSE q
            Long(p, q) == IF p <= q THEN q ELSE p
            u == Short(x, y)   l == Long(x, y)
            v == Short(x2, y2) n == Long(x2, y2)
<1>1. k \in Nat /\ Straight \in Nat /\ k <= Straight /\ k + Straight = Diagonal
  BY StepAssumption
<1>2. u \in Nat /\ l \in Nat /\ v \in Nat /\ n \in Nat
  OBVIOUS
<1>3. v <= u + 1 /\ n <= l + 1
  OBVIOUS
<1>4. x2 = x \/ y2 = y => v <= u \/ n <= l
  OBVIOUS
<1>5. /\ Norm(x, y) = k * u + Straight * l
      /\ Norm(x2, y2) = k * v + Straight * n
      /\ Norm(x, y) \in Nat
      /\ Norm(x2, y2) \in Nat
  <2>1. ASSUME NEW p \in Nat, NEW q \in Nat
        PROVE  /\ Norm(p, q) = k * Short(p, q) + Straight * Long(p, q)
               /\ Norm(p, q) \in Nat
    <3>1. CASE p <= q
      BY <3>1, NormSplit
    <3>2. CASE ~(p <= q)
      BY <3>2, NormSplit
    <3>. QED
      BY <3>1, <3>2
  <2>. QED
    BY <2>1
<1>. HIDE DEF k, u, l, v, n
<1>6. /\ k * v + Straight * n <= k * u + Straight * l + k + Straight
      /\ v <= u \/ n <= l => k * v + Straight * n <= k * u + Straight * l + Straight
  BY <1>1, <1>2, <1>3, SplitMonotone
<1>. DEFINE before == Norm(x, y)  after == Norm(x2, y2)
<1>7. /\ after <= before + k + Straight
      /\ v <= u \/ n <= l => after <= before + Straight
  BY <1>5, <1>6
<1>. HIDE DEF before, after
<1>8. after <= before + Diagonal
  <2>1. before \in Nat /\ after \in Nat
    BY <1>5 DEF before, after
  <2>. QED
    BY <1>1, <1>7, <2>1, StepAssumption
<1>. QED
  BY <1>4, <1>7, <1>8 DEF before, after

-----------------------------------------------------------------------------
(* The invariant.                                                          *)

\* The entry (d, c) is justified by an occupied cell that is no further away.
Justified(d, c) == \E o \in Occupied : Octile(c, o) <= d

QueueJustified == \A e \in queue : Justified(e[1], e[2])

IInv == TypeOK /\ QueueJustified /\ NeverTooClose

\* The steps to the neighbours, and how the reference distance changes.
LEMMA OctileMove ==
    ASSUME NEW c \in Cells, NEW o \in Cells, NEW n \in Neighbours(c)
    PROVE  /\ Octile(c, o) \in Nat
           /\ Octile(n, o) <= Octile(c, o) + Step(c, n)
<1>. DEFINE x == Abs(c[1] - o[1])   y == Abs(c[2] - o[2])
            x2 == Abs(n[1] - o[1])  y2 == Abs(n[2] - o[2])
<1>1. /\ c[1] \in Int /\ c[2] \in Int /\ o[1] \in Int /\ o[2] \in Int
      /\ n[1] \in Int /\ n[2] \in Int
      /\ Abs(n[1] - c[1]) <= 1 /\ Abs(n[2] - c[2]) <= 1
  BY GridAssumption DEF Cells, Neighbours
<1>2. x \in Nat /\ y \in Nat /\ x2 \in Nat /\ y2 \in Nat
  BY <1>1 DEF Abs
<1>3. x2 <= x + 1 /\ x <= x2 + 1 /\ y2 <= y + 1 /\ y <= y2 + 1
  BY <1>1 DEF Abs
<1>4. Octile(c, o) = Norm(x, y) /\ Octile(n, o) = Norm(x2, y2)
  BY DEF Octile, Norm
<1>5. n[1] = c[1] => x2 = x
  OBVIOUS
<1>6. n[2] = c[2] => y2 = y
  OBVIOUS
<1>. HIDE DEF x, y, x2, y2
<1>7. Norm(x, y) \in Nat
  BY <1>2, NormSplit
<1>8. /\ Norm(x2, y2) <= Norm(x, y) + Diagonal
      /\ x2 = x \/ y2 = y => Norm(x2, y2) <= Norm(x, y) + Straight
  BY <1>2, <1>3, NormMove
<1>. QED
  BY <1>4, <1>5, <1>6, <1>7, <1>8 DEF Step

\* The lengths of the moves.
LEMMA StepType == ASSUME NEW c, NEW n PROVE Step(c, n) \in Nat
  BY StepAssumption DEF Step

\* An entry that improves a neighbour is justified there as well.
LEMMA JustifiedMove ==
    ASSUME TypeOK, NEW c \in Cells, NEW d \in Distances, NEW n \in Neighbours(c),
           Justified(d, c)
    PROVE  Justified(d + Step(c, n), n)
<1>1. PICK o \in Occupied : Octile(c, o) <= d
  BY DEF Justified
<1>2. o \in Cells
  BY DEF Occupied
<1>3. Octile(c, o) \in Nat /\ Octile(n, o) <= Octile(c, o) + Step(c, n)
  BY <1>2, OctileMove
<1>4. Octile(n, o) \in Int
  <2>1. Abs(n[1] - o[1]) \in Nat /\ Abs(n[2] - o[2]) \in Nat
    BY <1>2, GridAssumption DEF Abs, Cells, Neighbours
  <2>2. Octile(n, o) = Norm(Abs(n[1] - o[1]), Abs(n[2] - o[2]))
    BY DEF Octile, Norm
  <2>. QED
    BY <2>1, <2>2, NormSplit
<1>5. d \in Int /\ Step(c, n) \in Nat
  BY StepType DEF Distances
<1>6. Octile(n, o) <= d + Step(c, n)
  BY <1>1, <1>3, <1>4, <1>5
<1>. QED
  BY <1>6 DEF Justified

\* The upper bound stands for infinity.
LEMMA InfinityType == Infinity \in Nat /\ 0 \in Distances /\ Infinity \in Distances
<1>1. (Width + Height) * Diagonal \in Nat
  BY GridAssumption, StepAssumption
<1>. QED
  BY <1>1 DEF Infinity, Distances

\* The occupied cells are justified by themselves.
LEMMA InitInv == Init => IInv
<1>. SUFFICES ASSUME Init PROVE IInv
  OBVIOUS
<1>1. TypeOK
  BY InfinityType DEF Init, TypeOK, Occupied
<1>2. ASSUME NEW c \in Occupied PROVE Justified(0, c)
  <2>1. c \in Cells /\ c[1] \in Int /\ c[2] \in Int
    BY GridAssumption DEF Occupied, Cells
  <2>2. Octile(c, c) = 0
    BY <2>1, StepAssumption DEF Octile, Abs
  <2>. QED
    BY <2>2 DEF Justified
<1>3. QueueJustified
  BY <1>2 DEF QueueJustified, Init
<1>4. NeverTooClose
  BY <1>2 DEF NeverTooClose, Justified, Init
<1>. QED
  BY <1>1, <1>3, <1>4 DEF IInv

\* Skipping a stale entry changes no distance, and expanding one writes and
\* queues only distances that it justifies.
LEMMA StepInv == IInv /\ [Next]_vars => IInv'
<1>. SUFFICES ASSUME IInv, [Next]_vars PROVE IInv'
  OBVIOUS
<1>. USE DEF IInv
<1>1. ASSUME NEW e \in queue, SkipStale(e[1], e[2]) PROVE IInv'
  BY <1>1 DEF SkipStale, TypeOK, QueueJustified, NeverTooClose, Justified, Occupied
<1>2. ASSUME NEW e \in queue, Expand(e[1], e[2]) PROVE IInv'
  <2>. DEFINE d == e[1]  c == e[2]
  <2>1. d \in Distances /\ c \in Cells /\ Justified(d, c)
    BY DEF TypeOK, QueueJustified
  <2>2. Occupied' = Occupied
    BY <1>2 DEF Expand, Occupied
  <2>3. ASSUME NEW n \in Improved(d, c)
        PROVE  /\ n \in Cells
               /\ d + Step(c, n) \in Distances
               /\ Justified(d + Step(c, n), n)
    <3>1. n \in Neighbours(c) /\ n \in Cells /\ d + Step(c, n) < distance[n]
      BY DEF Improved, Neighbours
    <3>2. d + Step(c, n) \in Distances
      BY <2>1, <3>1, StepType, InfinityType DEF Distances, TypeOK
    <3>. QED
      BY <2>1, <3>1, <3>2, JustifiedMove
  <2>. HIDE DEF d, c
  <2>4. TypeOK'
    <3>1. distance' \in [Cells -> Distances]
      BY <1>2, <2>3 DEF Expand, TypeOK, d, c
    <3>2. queue' \subseteq Distances \X Cells
      BY <1>2, <2>3 DEF Expand, TypeOK, d, c
    <3>3. data' \in [Cells -> Occupancy] /\ expanded' \subseteq Cells
      BY <1>2, <2>1 DEF Expand, TypeOK, d, c
    <3>. QED
      BY <3>1, <3>2, <3>3 DEF TypeOK
  <2>5. QueueJustified'
    <3>1. ASSUME NEW f \in queue' PROVE Justified(f[1], f[2])
      BY <1>2, <2>3 DEF Expand, QueueJustified, d, c
    <3>. QED
      BY <3>1, <2>2 DEF QueueJustified, Justified, Octile
  <2>6. NeverTooClose'
    <3>1. ASSUME NEW n \in Cells, distance'[n] # Infinity
          PROVE  Justified(distance'[n], n)
      <4>1. CASE n \in Improved(d, c)
        BY <1>2, <2>3, <4>1 DEF Expand, d, c
      <4>2. CASE n \notin Improved(d, c)
        BY <1>2, <3>1, <4>2 DEF Expand, NeverTooClose, Justified, d, c
      <4>. QED
        BY <4>1, <4>2
    <3>. QED
      BY <3>1, <2>2 DEF NeverTooClose, Justified, Octile
  <2>. QED
    BY <2>4, <2>5, <2>6
<1>3. CASE UNCHANGED vars
  BY <1>3 DEF vars, TypeOK, QueueJustified, NeverTooClose, Justified, Occupied
<1>. QED
  BY <1>1, <1>2, <1>3 DEF Next

\* The field never claims that a wall is nearer than it is: not at the end,
\* nor at any turn of the loop.
THEOREM FieldNeverTooClose == Spec => []NeverTooClose
<1>1. IInv => NeverTooClose
  BY DEF IInv
<1>. QED
  BY InitInv, StepInv, <1>1, PTL DEF Spec

-----------------------------------------------------------------------------
(* Cells leave the queue for good.                                         *)

\* No entry is smaller than the distance of its cell, nor than that of a cell
\* that has been expanded, and an expanded cell has relaxed its neighbours.
FinalInv ==
    /\ \A e \in queue : distance[e[2]] <= e[1]
    /\ \A c \in expanded, e \in queue : distance[c] <= e[1]
    /\ \A c \in expanded : \A n \in Neighbours(c) : distance[n] <= distance[c] + Step(c, n)

\* At the start the queue holds distances of 0, and nothing is expanded.
LEMMA FinalInit == Init => FinalInv
  BY DEF Init, FinalInv, Occupied

\* What a turn that expands c does to the distances, with entries that
\* are no smaller than d.
LEMMA ExpandedStay ==
    ASSUME TypeOK, FinalInv, NEW d \in Distances, NEW c \in Cells, Expand(d, c)
    PROVE  /\ d = distance[c]
           /\ \A n \in Cells : distance'[n] \in Nat /\ distance'[n] <= distance[n]
           /\ \A n \in expanded \cup {c} : distance'[n] = distance[n] /\ distance[n] <= d
           /\ \A n \in Neighbours(c) : distance'[n] <= d + Step(c, n)
           /\ \A n \in Improved(d, c) : distance'[n] = d + Step(c, n)
<1>1. <<d, c>> \in queue /\ (\A e \in queue : d <= e[1])
  BY DEF Expand, Top
<1>2. d \in Nat /\ \A n \in Cells : distance[n] \in Nat
  BY InfinityType DEF TypeOK, Distances
<1>3. d = distance[c]
  BY <1>1, <1>2 DEF Expand, FinalInv
<1>4. ASSUME NEW n \in Improved(d, c)
      PROVE  /\ n \in Cells /\ n # c
             /\ distance'[n] = d + Step(c, n) /\ Step(c, n) \in Nat
             /\ d + Step(c, n) < distance[n]
  BY StepType DEF Improved, Neighbours, Expand
<1>5. ASSUME NEW n \in Cells, n \notin Improved(d, c)
      PROVE  /\ distance'[n] = distance[n]
             /\ n \in Neighbours(c) => distance[n] <= d + Step(c, n)
  <2>1. distance'[n] = distance[n]
    BY <1>5 DEF Expand
  <2>2. ASSUME n \in Neighbours(c) PROVE distance[n] <= d + Step(c, n)
    <3>1. ~(d + Step(c, n) < distance[n])
      BY <1>5, <2>2 DEF Improved
    <3>2. Step(c, n) \in Nat
      BY StepType
    <3>. QED
      BY <1>2, <3>1, <3>2
  <2>. QED
    BY <2>1, <2>2
<1>6. ASSUME NEW n \in expanded \cup {c}
      PROVE  distance'[n] = distance[n] /\ distance[n] <= d
  <2>1. n \in Cells /\ distance[n] <= d
    BY <1>1, <1>2, <1>3 DEF FinalInv, TypeOK
  <2>2. n \notin Improved(d, c)
    BY <1>2, <1>4, <2>1
  <2>. QED
    BY <1>5, <2>1, <2>2
<1>7. \A n \in Cells : distance'[n] \in Nat /\ distance'[n] <= distance[n]
  BY <1>2, <1>4, <1>5
<1>8. \A n \in Neighbours(c) : distance'[n] <= d + Step(c, n)
  <2>1. \A n \in Neighbours(c) : n \in Cells /\ d + Step(c, n) \in Nat
    BY <1>2, StepType DEF Neighbours
  <2>. QED
    BY <1>4, <1>5, <2>1
<1>. QED
  BY <1>3, <1>4, <1>6, <1>7, <1>8

\* Every turn of the loop preserves it.
LEMMA FinalStep == TypeOK /\ FinalInv /\ [Next]_vars => FinalInv'
<1>. SUFFICES ASSUME TypeOK, FinalInv, [Next]_vars PROVE FinalInv'
  OBVIOUS
<1>1. ASSUME NEW e \in queue, SkipStale(e[1], e[2]) PROVE FinalInv'
  BY <1>1 DEF SkipStale, FinalInv
<1>2. ASSUME NEW d \in Distances, NEW c \in Cells, Expand(d, c) PROVE FinalInv'
  <2>1. /\ d \in Nat /\ (\A n \in Cells : distance[n] \in Nat)
        /\ \A e \in queue : e[1] \in Nat /\ e[2] \in Cells /\ d <= e[1]
    BY <1>2, InfinityType DEF TypeOK, Distances, Expand, Top
  <2>2. ASSUME NEW f \in queue'
        PROVE  f \in queue \/ \E n \in Improved(d, c) : f = <<d + Step(c, n), n>>
    BY <1>2 DEF Expand
  <2>3. ASSUME NEW n \in Improved(d, c)
        PROVE  n \in Cells /\ distance'[n] = d + Step(c, n) /\ Step(c, n) \in Nat
    BY <1>2, ExpandedStay, StepType DEF Improved, Neighbours
  <2>4. ASSUME NEW f \in queue' PROVE distance'[f[2]] <= f[1]
    <3>1. CASE f \in queue
      <4>1. /\ distance'[f[2]] \in Nat /\ distance'[f[2]] <= distance[f[2]]
            /\ distance[f[2]] <= f[1]
        BY <1>2, <2>1, <3>1, ExpandedStay DEF FinalInv
      <4>. QED
        BY <2>1, <3>1, <4>1
    <3>2. CASE \E n \in Improved(d, c) : f = <<d + Step(c, n), n>>
      <4>1. PICK n \in Improved(d, c) : f = <<d + Step(c, n), n>>
        BY <3>2
      <4>. QED
        BY <2>1, <2>3, <4>1
    <3>. QED
      BY <2>2, <3>1, <3>2
  <2>5. ASSUME NEW n \in expanded', NEW f \in queue' PROVE distance'[n] <= f[1]
    <3>1. n \in expanded \cup {c} /\ n \in Cells
      BY <1>2 DEF Expand, TypeOK
    <3>2. distance'[n] \in Nat /\ distance'[n] <= d
      BY <1>2, <3>1, ExpandedStay
    <3>3. d <= f[1] /\ f[1] \in Nat
      BY <2>1, <2>2, <2>3
    <3>. QED
      BY <2>1, <3>2, <3>3
  <2>6. ASSUME NEW m \in expanded', NEW n \in Neighbours(m)
        PROVE  distance'[n] <= distance'[m] + Step(m, n)
    <3>1. m \in expanded \cup {c} /\ m \in Cells /\ n \in Cells
      BY <1>2 DEF Expand, TypeOK, Neighbours
    <3>2. distance'[m] = distance[m]
      BY <1>2, <3>1, ExpandedStay
    <3>3. CASE m = c
      BY <1>2, <3>2, <3>3, ExpandedStay
    <3>4. CASE m \in expanded
      <4>1. distance[n] <= distance[m] + Step(m, n)
        BY <3>4 DEF FinalInv
      <4>2. distance'[n] \in Nat /\ distance'[n] <= distance[n]
        BY <1>2, <3>1, ExpandedStay
      <4>3. Step(m, n) \in Nat
        BY StepType
      <4>. QED
        BY <2>1, <3>1, <3>2, <4>1, <4>2, <4>3
    <3>. QED
      BY <3>1, <3>3, <3>4
  <2>. QED
    BY <2>4, <2>5, <2>6 DEF FinalInv, Neighbours, Step, Cells, Abs
<1>3. CASE UNCHANGED vars
  BY <1>3 DEF vars, FinalInv
<1>4. \A e \in queue : e[1] \in Distances /\ e[2] \in Cells
  BY DEF TypeOK
<1>. QED
  BY <1>1, <1>2, <1>3, <1>4 DEF Next

\* A turn leaves expanded cells alone, and improves nothing if it expands none.
LEMMA FinalTurn ==
    ASSUME TypeOK, FinalInv, [Next]_vars
    PROVE  /\ \A c \in expanded : distance'[c] = distance[c]
           /\ expanded' = expanded => distance' = distance
<1>1. ASSUME NEW d \in Distances, NEW c \in Cells, Expand(d, c)
      PROVE  /\ \A n \in expanded : distance'[n] = distance[n]
             /\ expanded' = expanded => distance' = distance
  <2>1. \A n \in expanded : distance'[n] = distance[n]
    BY <1>1, ExpandedStay
  <2>2. ASSUME c \in expanded PROVE distance' = distance
    <3>1. d = distance[c]
      BY <1>1, ExpandedStay
    <3>2. ASSUME NEW n \in Neighbours(c) PROVE ~(d + Step(c, n) < distance[n])
      <4>1. n \in Cells /\ distance[n] \in Nat /\ d \in Nat /\ Step(c, n) \in Nat
        BY InfinityType, StepType DEF TypeOK, Distances, Neighbours
      <4>2. distance[n] <= d + Step(c, n)
        BY <2>2, <3>1 DEF FinalInv
      <4>. QED
        BY <4>1, <4>2
    <3>3. Improved(d, c) = {}
      BY <3>2 DEF Improved
    <3>4. distance = [n \in Cells |-> distance[n]]
      BY DEF TypeOK
    <3>. QED
      BY <1>1, <3>3, <3>4 DEF Expand
  <2>3. expanded' = expanded => c \in expanded
    BY <1>1 DEF Expand
  <2>. QED
    BY <2>1, <2>2, <2>3
<1>2. \A e \in queue : e[1] \in Distances /\ e[2] \in Cells
  BY DEF TypeOK
<1>3. ASSUME NEW e \in queue, SkipStale(e[1], e[2]) PROVE UNCHANGED distance
  BY <1>3 DEF SkipStale
<1>. QED
  BY <1>1, <1>2, <1>3 DEF Next, vars

\* A cell that has been expanded keeps its distance for ever, and a second
\* turn for it improves none of its neighbours: the work of the loop is bounded.
THEOREM ExpandedStaysFinal == Spec => ExpandedIsFinal
<1>1. IInv => TypeOK
  BY DEF IInv
<1>. QED
  BY InitInv, StepInv, FinalInit, FinalStep, FinalTurn, <1>1, PTL DEF Spec, ExpandedIsFinal

-----------------------------------------------------------------------------
(* The field is exact when the queue is empty.                             *)

\* A set of natural numbers has a least element: the induction over the
\* distance between two cells that follows goes through the least distance at
\* which the field would be wrong.
LEMMA LeastElement ==
    ASSUME NEW T, T \subseteq Nat, T # {}
    PROVE  \E m \in T : \A n \in T : m <= n
<1>. DEFINE Below(n) == 0..(n - 1)
            Image == {Below(n) : n \in T}
            Order == StrictSubsetOrdering(Nat)
<1>1. Image \subseteq FiniteSubsetsOf(Nat)
  <2>1. ASSUME NEW n \in T PROVE Below(n) \in FiniteSubsetsOf(Nat)
    <3>1. IsFiniteSet(Below(n))
      BY FS_Interval
    <3>2. Below(n) \subseteq Nat
      OBVIOUS
    <3>. QED
      BY <3>1, <3>2 DEF FiniteSubsetsOf
  <2>. QED
    BY <2>1
<1>2. Image # {}
  OBVIOUS
<1>3. IsWellFoundedOn(Order, FiniteSubsetsOf(Nat))
  BY FS_StrictSubsetOrderingWellFounded
<1>. HIDE DEF Order
<1>4. PICK s \in Image : \A t \in Image : ~(<<t, s>> \in Order)
  <2>. HIDE DEF Image
  <2>. QED
    BY <1>1, <1>2, <1>3, WFMin
<1>5. PICK m \in T : s = Below(m)
  OBVIOUS
<1>6. ASSUME NEW n \in T, n < m PROVE FALSE
  <2>1. <<Below(n), Below(m)>> \notin Order
    BY <1>4, <1>5
  <2>2. Below(n) \subseteq Nat /\ Below(m) \subseteq Nat
    OBVIOUS
  <2>3. Below(n) \subseteq Below(m) /\ n \in Below(m) /\ n \notin Below(n)
    BY <1>6
  <2>. QED
    BY <2>1, <2>2, <2>3 DEF Order, StrictSubsetOrdering
<1>7. \A n \in T : m <= n
  <2>. HIDE DEF Below, Image
  <2>. QED
    BY <1>6
<1>. HIDE DEF Below, Image, Order
<1>. QED
  BY <1>5, <1>7

\* The distance of a cell is in the queue until its neighbours have been
\* relaxed, and an occupied cell keeps the distance 0.
CoverInv ==
    /\ \A c \in Cells : distance[c] # Infinity => c \in expanded \/ <<distance[c], c>> \in queue
    /\ \A o \in Occupied : distance[o] = 0

\* The occupied cells, and no others, have a distance at the start.
LEMMA CoverInit == Init => CoverInv
  BY DEF Init, CoverInv, Occupied

\* A turn queues every distance that it writes.
LEMMA CoverStep == TypeOK /\ FinalInv /\ CoverInv /\ [Next]_vars => CoverInv'
<1>. SUFFICES ASSUME TypeOK, FinalInv, CoverInv, [Next]_vars PROVE CoverInv'
  OBVIOUS
<1>1. ASSUME NEW e \in queue, SkipStale(e[1], e[2]) PROVE CoverInv'
  <2>1. e = <<e[1], e[2]>> /\ e[1] \in Distances /\ e[2] \in Cells
    BY DEF TypeOK
  <2>2. distance[e[2]] # e[1]
    BY <1>1, <2>1 DEF SkipStale, TypeOK, Distances
  <2>. QED
    BY <1>1, <2>2 DEF SkipStale, CoverInv, Occupied
<1>2. ASSUME NEW d \in Distances, NEW c \in Cells, Expand(d, c) PROVE CoverInv'
  <2>1. ASSUME NEW n \in Cells, distance'[n] # Infinity
        PROVE  n \in expanded' \/ <<distance'[n], n>> \in queue'
    <3>1. CASE n \in Improved(d, c)
      BY <1>2, <3>1 DEF Expand
    <3>2. CASE n \notin Improved(d, c)
      <4>1. distance'[n] = distance[n]
        BY <1>2, <3>2 DEF Expand
      <4>2. n \in expanded \/ <<distance[n], n>> \in queue
        BY <2>1, <4>1 DEF CoverInv
      <4>. QED
        BY <1>2, <4>1, <4>2 DEF Expand
    <3>. QED
      BY <3>1, <3>2
  <2>2. ASSUME NEW o \in Occupied' PROVE distance'[o] = 0
    <3>1. o \in Occupied /\ o \in Cells
      BY <1>2 DEF Expand, Occupied
    <3>2. distance[o] = 0 /\ distance'[o] \in Nat /\ distance'[o] <= distance[o]
      BY <1>2, <3>1, ExpandedStay DEF CoverInv
    <3>. QED
      BY <3>2
  <2>. QED
    BY <2>1, <2>2 DEF CoverInv, Cells
<1>3. CASE UNCHANGED vars
  BY <1>3 DEF vars, CoverInv, Occupied
<1>4. \A e \in queue : e[1] \in Distances /\ e[2] \in Cells
  BY DEF TypeOK
<1>. QED
  BY <1>1, <1>2, <1>3, <1>4 DEF Next

\* The moves from one cell to another one, were all of them diagonal.
Moves(c, o) ==
    LET dx == Abs(c[1] - o[1])
        dy == Abs(c[2] - o[2])
    IN  IF dx < dy THEN dy ELSE dx

\* The coordinate next to a in the direction of b.
Towards(a, b) == IF a < b THEN a + 1 ELSE IF b < a THEN a - 1 ELSE a

\* A cell other than o has a neighbour that is one move nearer to o, by just
\* the length of that move.
LEMMA NearerNeighbour ==
    ASSUME NEW c \in Cells, NEW o \in Cells, c # o
    PROVE  \E p \in Cells :
              /\ c \in Neighbours(p)
              /\ Moves(p, o) < Moves(c, o)
              /\ Octile(c, o) = Octile(p, o) + Step(p, c)
<1>. DEFINE p == <<Towards(c[1], o[1]), Towards(c[2], o[2])>>
            x == Abs(c[1] - o[1])  y == Abs(c[2] - o[2])
            x2 == Abs(p[1] - o[1]) y2 == Abs(p[2] - o[2])
<1>1. /\ c[1] \in Int /\ c[2] \in Int /\ o[1] \in Int /\ o[2] \in Int
      /\ c = <<c[1], c[2]>> /\ o = <<o[1], o[2]>>
  BY GridAssumption DEF Cells
<1>2. p \in Cells
  BY GridAssumption DEF Cells, Towards
<1>3. c \in Neighbours(p)
  BY <1>1 DEF Neighbours, Towards, Abs
<1>4. x \in Nat /\ y \in Nat /\ (x > 0 \/ y > 0)
  BY <1>1 DEF Abs
<1>5. x2 = (IF x = 0 THEN 0 ELSE x - 1) /\ y2 = (IF y = 0 THEN 0 ELSE y - 1)
  BY <1>1 DEF Abs, Towards
<1>6. Step(p, c) = IF x > 0 /\ y > 0 THEN Diagonal ELSE Straight
  BY <1>1 DEF Step, Towards, Abs
<1>7. /\ Octile(c, o) = Norm(x, y) /\ Octile(p, o) = Norm(x2, y2)
      /\ Moves(c, o) = (IF x < y THEN y ELSE x) /\ Moves(p, o) = IF x2 < y2 THEN y2 ELSE x2
  BY DEF Octile, Norm, Moves
<1>. HIDE DEF p, x, y, x2, y2
<1>8. Moves(p, o) < Moves(c, o)
  BY <1>4, <1>5, <1>7
<1>9. Norm(x, y) = Norm(x2, y2) + IF x > 0 /\ y > 0 THEN Diagonal ELSE Straight
  <2>1. CASE x > 0 /\ y > 0 /\ x <= y
    <3>1. Norm(x, y) = (Diagonal - Straight) * x + Straight * y
      BY <1>4, <2>1, NormSplit
    <3>2. Norm(x - 1, y - 1) = (Diagonal - Straight) * (x - 1) + Straight * (y - 1)
      BY <1>4, <2>1, NormSplit
    <3>. QED
      BY <1>4, <1>5, <2>1, <3>1, <3>2, StepAssumption, SMT
  <2>2. CASE x > 0 /\ y > 0 /\ y <= x
    <3>1. Norm(x, y) = (Diagonal - Straight) * y + Straight * x
      BY <1>4, <2>2, NormSplit
    <3>2. Norm(x - 1, y - 1) = (Diagonal - Straight) * (y - 1) + Straight * (x - 1)
      BY <1>4, <2>2, NormSplit
    <3>. QED
      BY <1>4, <1>5, <2>2, <3>1, <3>2, StepAssumption, SMT
  <2>3. CASE x = 0
    <3>1. Norm(0, y) = Straight * y /\ Norm(0, y - 1) = Straight * (y - 1)
      BY <1>4, <2>3, NormSplit, StepAssumption, SMT
    <3>. QED
      BY <1>4, <1>5, <2>3, <3>1, StepAssumption, SMT
  <2>4. CASE y = 0
    <3>1. Norm(x, 0) = Straight * x /\ Norm(x - 1, 0) = Straight * (x - 1)
      BY <1>4, <2>4, NormSplit, StepAssumption, SMT
    <3>. QED
      BY <1>4, <1>5, <2>4, <3>1, StepAssumption, SMT
  <2>. QED
    BY <1>4, <2>1, <2>2, <2>3, <2>4
<1>. QED
  BY <1>2, <1>3, <1>6, <1>7, <1>8, <1>9

\* Two cells of the grid are less than an infinite distance apart.
LEMMA OctileBound ==
    ASSUME NEW c \in Cells, NEW o \in Cells
    PROVE  Octile(c, o) \in Nat /\ Octile(c, o) < Infinity /\ Moves(c, o) \in Nat
<1>. DEFINE x == Abs(c[1] - o[1])  y == Abs(c[2] - o[2])
<1>1. x \in Nat /\ y \in Nat /\ x <= Width /\ y <= Height
  BY GridAssumption DEF Cells, Abs
<1>2. Octile(c, o) = Norm(x, y) /\ Moves(c, o) = IF x < y THEN y ELSE x
  BY DEF Octile, Norm, Moves
<1>. HIDE DEF x, y
<1>3. ASSUME NEW short \in Nat, NEW long \in Nat, short <= long, long <= Width + Height
      PROVE  (Diagonal - Straight) * short + Straight * long <= (Width + Height) * Diagonal
  <2>1. (Diagonal - Straight) * short <= (Diagonal - Straight) * long
    BY <1>3, StepAssumption, SMT
  <2>2. (Diagonal - Straight) * long + Straight * long = Diagonal * long
    BY <1>3, StepAssumption, SMT
  <2>3. Diagonal * long <= (Width + Height) * Diagonal
    BY <1>3, StepAssumption, GridAssumption, SMT
  <2>. DEFINE a == (Diagonal - Straight) * short
              b == (Diagonal - Straight) * long
              u == Straight * long
              v == Diagonal * long
              w == (Width + Height) * Diagonal
  <2>4. a \in Int /\ b \in Int /\ u \in Int /\ v \in Int /\ w \in Int
    BY StepAssumption, GridAssumption
  <2>5. a <= b /\ b + u = v /\ v <= w
    BY <2>1, <2>2, <2>3
  <2>. HIDE DEF a, b, u, v, w
  <2>6. a + u <= w
    BY <2>4, <2>5
  <2>. QED
    BY <2>6 DEF a, u, w
<1>4. CASE x <= y
  <2>1. Norm(x, y) = (Diagonal - Straight) * x + Straight * y
    BY <1>1, <1>4, NormSplit
  <2>2. Norm(x, y) <= (Width + Height) * Diagonal
    BY <1>1, <1>3, <1>4, <2>1, GridAssumption
  <2>3. (Width + Height) * Diagonal \in Nat
    BY GridAssumption, StepAssumption
  <2>. QED
    BY <1>1, <1>2, <2>2, <2>3, NormSplit DEF Infinity
<1>5. CASE y <= x
  <2>1. Norm(x, y) = (Diagonal - Straight) * y + Straight * x
    BY <1>1, <1>5, NormSplit
  <2>2. Norm(x, y) <= (Width + Height) * Diagonal
    BY <1>1, <1>3, <1>5, <2>1, GridAssumption
  <2>3. (Width + Height) * Diagonal \in Nat
    BY GridAssumption, StepAssumption
  <2>. QED
    BY <1>1, <1>2, <2>2, <2>3, NormSplit DEF Infinity
<1>. QED
  BY <1>1, <1>4, <1>5

\* When the queue is empty, no occupied cell is nearer than the field says:
\* the first cell on the way from o for which it was would have been reached
\* from the cell before it.
LEMMA NeverTooFar ==
    ASSUME TypeOK, FinalInv, CoverInv, queue = {}, NEW o \in Occupied
    PROVE  \A c \in Cells : distance[c] <= Octile(c, o)
<1>. DEFINE Wrong == {c \in Cells : ~(distance[c] <= Octile(c, o))}
            T == {Moves(c, o) : c \in Wrong}
<1>1. o \in Cells
  BY DEF Occupied
<1>2. SUFFICES ASSUME Wrong # {} PROVE FALSE
  OBVIOUS
<1>3. T \subseteq Nat /\ T # {}
  BY <1>1, <1>2, OctileBound
<1>4. PICK m \in T : \A k \in T : m <= k
  <2>. HIDE DEF T
  <2>. QED
    BY <1>3, LeastElement
<1>5. PICK c \in Wrong : m = Moves(c, o)
  OBVIOUS
<1>6. \A p \in Cells : distance[p] \in Nat
  BY InfinityType DEF TypeOK, Distances
<1>7. c \in Cells /\ Octile(c, o) \in Nat
  BY <1>1, <1>5, OctileBound
<1>8. c # o
  BY <1>5, <1>6, <1>7 DEF CoverInv
<1>9. PICK p \in Cells : /\ c \in Neighbours(p)
                         /\ Moves(p, o) < Moves(c, o)
                         /\ Octile(c, o) = Octile(p, o) + Step(p, c)
  BY <1>1, <1>7, <1>8, NearerNeighbour
<1>10. p \notin Wrong
  <2>1. Moves(p, o) \in Nat /\ Moves(c, o) \in Nat
    BY <1>1, <1>7, OctileBound
  <2>2. Moves(p, o) \notin T
    BY <1>4, <1>5, <1>9, <2>1
  <2>. QED
    BY <2>2
<1>11. distance[p] <= Octile(p, o) /\ Octile(p, o) \in Nat /\ Octile(p, o) < Infinity
  BY <1>1, <1>10, OctileBound
<1>12. distance[p] # Infinity
  BY <1>6, <1>11, InfinityType
<1>13. p \in expanded
  BY <1>12 DEF CoverInv
<1>14. distance[c] <= distance[p] + Step(p, c)
  BY <1>9, <1>13 DEF FinalInv
<1>15. distance[c] <= Octile(c, o)
  <2>1. Step(p, c) \in Nat /\ distance[p] \in Nat /\ distance[c] \in Nat
    BY <1>6, <1>7, StepType
  <2>. QED
    BY <1>7, <1>9, <1>11, <1>14, <2>1
<1>. QED
  BY <1>5, <1>15

\* A least element of a set of integers is its Least.
LEMMA LeastIs ==
    ASSUME NEW S, S \subseteq Int, NEW m \in S, \A n \in S : m <= n
    PROVE  Least(S) = m
<1>1. \A k \in S : (\A n \in S : k <= n) => k = m
  OBVIOUS
<1>. QED
  BY <1>1 DEF Least

\* With nothing left in the queue, every cell that a wall reaches has been
\* expanded, and the field is exact.
LEMMA DoneIsExact == IInv /\ FinalInv /\ CoverInv /\ queue = {} => Exact
<1>. SUFFICES ASSUME IInv, FinalInv, CoverInv, queue = {}, NEW c \in Cells
              PROVE  distance[c] = Nearest(c)
  BY DEF Exact
<1>1. distance[c] \in Nat
  BY InfinityType DEF IInv, TypeOK, Distances
<1>2. CASE Occupied = {}
  BY <1>2 DEF Nearest, IInv, NeverTooClose
<1>3. CASE Occupied # {}
  <2>. DEFINE S == {Octile(c, o) : o \in Occupied}
  <2>1. \A o \in Occupied : /\ distance[c] <= Octile(c, o)
                            /\ Octile(c, o) \in Nat /\ Octile(c, o) < Infinity
    BY NeverTooFar, OctileBound DEF IInv, Occupied
  <2>2. distance[c] # Infinity
    BY <1>1, <1>3, <2>1, InfinityType
  <2>3. PICK o \in Occupied : Octile(c, o) <= distance[c]
    BY <2>2 DEF IInv, NeverTooClose
  <2>4. distance[c] = Octile(c, o)
    BY <1>1, <2>1, <2>3
  <2>5. S \subseteq Int /\ distance[c] \in S /\ \A n \in S : distance[c] <= n
    BY <2>1, <2>4
  <2>6. Least(S) = distance[c]
    <3>. HIDE DEF S
    <3>. QED
      BY <2>5, LeastIs
  <2>. QED
    BY <1>3, <2>6 DEF Nearest
<1>. QED
  BY <1>2, <1>3

\* The invariants together.
LEMMA AllInvariant == Spec => [](IInv /\ FinalInv /\ CoverInv)
<1>1. IInv => TypeOK
  BY DEF IInv
<1>. QED
  BY InitInv, StepInv, FinalInit, FinalStep, CoverInit, CoverStep, <1>1, PTL DEF Spec

\* When the loop has ended, each cell has the length of a shortest path to the
\* nearest occupied one, and Infinity if there is none: whatever the order in
\* which the heap returns equal keys, and with the stale entries.
THEOREM FieldIsExactWhenDone == Spec => [](queue = {} => Exact)
  BY AllInvariant, DoneIsExact, PTL

-----------------------------------------------------------------------------
(* The loop ends: what is left of termination once its turns are taken.    *)

\* The cells that no turn has expanded yet, and the entries of the queue.
CellsLeft == Cardinality(Cells \ expanded)
EntriesLeft == Cardinality(queue)

\* Both are numbers: the grid is finite, and so is the queue.
LEMMA FiniteWork ==
    ASSUME TypeOK
    PROVE  /\ IsFiniteSet(Cells \ expanded) /\ CellsLeft \in Nat
           /\ IsFiniteSet(queue) /\ EntriesLeft \in Nat
<1>1. IsFiniteSet(Cells)
  <2>1. IsFiniteSet(0..(Width - 1)) /\ IsFiniteSet(0..(Height - 1))
    BY GridAssumption, FS_Interval
  <2>. QED
    BY <2>1, FS_Product DEF Cells
<1>2. IsFiniteSet(Cells \ expanded)
  BY <1>1, FS_Difference
<1>3. IsFiniteSet(Distances \X Cells)
  <2>1. IsFiniteSet(Distances)
    BY InfinityType, FS_Interval DEF Distances
  <2>. QED
    BY <1>1, <2>1, FS_Product
<1>4. IsFiniteSet(queue)
  BY <1>3, FS_Subset DEF TypeOK
<1>. QED
  BY <1>2, <1>4, FS_CardinalityType DEF CellsLeft, EntriesLeft

\* Every turn expands one more cell, or leaves the expanded ones as they are and
\* the queue with one entry less: the pair of what is left decreases in
\* lexicographic order, so that no behaviour has infinitely many turns.
Advances ==
    \/ CellsLeft' < CellsLeft
    \/ CellsLeft' = CellsLeft /\ EntriesLeft' < EntriesLeft

\* A turn of the loop lowers that pair.
LEMMA TurnAdvances ==
    ASSUME TypeOK, FinalInv, TypeOK', Next
    PROVE  Advances
<1>1. PICK e \in queue : SkipStale(e[1], e[2]) \/ Expand(e[1], e[2])
  BY DEF Next
<1>2. e \in Distances \X Cells /\ e = <<e[1], e[2]>>
  BY DEF TypeOK
<1>3. CASE expanded' # expanded
  <2>1. e[2] \in Cells \ expanded /\ expanded' = expanded \cup {e[2]}
    BY <1>1, <1>2, <1>3 DEF SkipStale, Expand
  <2>2. Cells \ expanded' = (Cells \ expanded) \ {e[2]}
    BY <2>1
  <2>3. Cardinality((Cells \ expanded) \ {e[2]}) = Cardinality(Cells \ expanded) - 1
    BY <2>1, FiniteWork, FS_RemoveElement
  <2>4. CellsLeft' = CellsLeft - 1 /\ CellsLeft \in Nat
    BY <2>2, <2>3, FiniteWork DEF CellsLeft
  <2>. QED
    BY <2>4 DEF Advances
<1>4. CASE expanded' = expanded
  <2>1. queue' = queue \ {e}
    <3>1. CASE SkipStale(e[1], e[2])
      BY <1>2, <3>1 DEF SkipStale
    <3>2. CASE Expand(e[1], e[2])
      <4>1. distance' = distance
        BY <1>4, FinalTurn
      <4>2. Improved(e[1], e[2]) = {}
        <5>. SUFFICES ASSUME NEW n \in Improved(e[1], e[2]) PROVE FALSE
          OBVIOUS
        <5>1. n \in Cells /\ distance'[n] = e[1] + Step(e[2], n)
          BY <3>2 DEF Improved, Neighbours, Expand
        <5>2. e[1] + Step(e[2], n) < distance[n] /\ distance[n] \in Nat
          BY <5>1, InfinityType DEF Improved, TypeOK, Distances
        <5>. QED
          BY <4>1, <5>1, <5>2
      <4>. QED
        BY <1>2, <3>2, <4>2 DEF Expand
    <3>. QED
      BY <1>1, <3>1, <3>2
  <2>2. EntriesLeft' = EntriesLeft - 1 /\ EntriesLeft \in Nat
    BY <2>1, FiniteWork, FS_RemoveElement DEF EntriesLeft
  <2>3. CellsLeft' = CellsLeft
    BY <1>4 DEF CellsLeft
  <2>. QED
    BY <2>2, <2>3 DEF Advances
<1>. QED
  BY <1>3, <1>4

\* The work of the loop is finite, whatever stale entries the queue collects.
THEOREM EveryTurnAdvances ==
    Spec => [](CellsLeft \in Nat /\ EntriesLeft \in Nat) /\ [][Advances]_vars
<1>1. TypeOK => CellsLeft \in Nat /\ EntriesLeft \in Nat
  BY FiniteWork
<1>2. IInv => TypeOK
  BY DEF IInv
<1>3. TypeOK /\ TypeOK' /\ FinalInv /\ [Next]_vars => [Advances]_vars
  BY TurnAdvances
<1>. QED
  BY AllInvariant, <1>1, <1>2, <1>3, PTL DEF Spec

\* As long as the queue holds an entry it has a top, so that the loop stops for
\* no other reason than an empty queue.
THEOREM QueueHasTop == Spec => [](queue # {} => \E e \in queue : Top(e[1], e[2]))
<1>1. TypeOK /\ queue # {} => \E e \in queue : Top(e[1], e[2])
  <2>. SUFFICES ASSUME TypeOK, queue # {} PROVE \E e \in queue : Top(e[1], e[2])
    OBVIOUS
  <2>. DEFINE keys == {e[1] : e \in queue}
  <2>1. keys \subseteq Nat /\ keys # {}
    BY InfinityType DEF TypeOK, Distances
  <2>2. PICK m \in keys : \A k \in keys : m <= k
    <3>. HIDE DEF keys
    <3>. QED
      BY <2>1, LeastElement
  <2>3. PICK e \in queue : e[1] = m
    BY <2>2
  <2>4. e = <<e[1], e[2]>> /\ \A f \in queue : e[1] <= f[1]
    BY <2>2, <2>3 DEF TypeOK
  <2>. QED
    BY <2>3, <2>4 DEF Top
<1>2. IInv => TypeOK
  BY DEF IInv
<1>. QED
  BY AllInvariant, <1>1, <1>2, PTL

-----------------------------------------------------------------------------
(* WallPower.                                                              *)

\* A position in the world falls into a cell of the infinite grid.
LEMMA CellAtType ==
    ASSUME NEW w \in World, NEW yaw \in Yaws
    PROVE  CellAt(w, yaw) \in Int \X Int
<1>. DEFINE v == <<w[1] - Origin[1], w[2] - Origin[2]>>
            local == Turned(v, (4 - yaw) % 4)
<1>1. v[1] \in Int /\ v[2] \in Int
  BY WorldAssumption
<1>2. (4 - yaw) % 4 \in Yaws
  BY DEF Yaws
<1>. HIDE DEF v
<1>3. local[1] \in Int /\ local[2] \in Int
  BY <1>1, <1>2 DEF Turned, Yaws
<1>. HIDE DEF local
<1>4. local[1] \div 2 \in Int /\ local[2] \div 2 \in Int
  BY <1>3
<1>. QED
  BY <1>4 DEF CellAt, local, v

\* A cell that is not off the map has its four neighbours on the map.
LEMMA ReadsOnTheMap ==
    ASSUME NEW c \in Int \X Int
    PROVE  Reads(c) \subseteq Cells
<1>1. CASE OffTheMap(c)
  BY <1>1 DEF Reads
<1>2. CASE ~OffTheMap(c)
  <2>1. /\ c = <<c[1], c[2]>>
        /\ c[1] \in 1..(Width - 2) /\ c[2] \in 1..(Height - 2)
    BY <1>2, GridAssumption DEF OffTheMap
  <2>2. \A x \in {c[1] - 1, c[1], c[1] + 1}, y \in {c[2] - 1, c[2], c[2] + 1} :
          <<x, y>> \in Cells
    BY <2>1, GridAssumption DEF Cells
  <2>. QED
    BY <1>2, <2>1, <2>2 DEF Reads, East, West, North, South
<1>. QED
  BY <1>1, <1>2

\* Wherever a robot is, and however the map lies in the world, make_wall_power
\* reads inside the field.
THEOREM WallPowerReadsInside == Spec => []ReadsInside
<1>1. IInv => ReadsInside
  <2>1. IInv => DOMAIN distance = Cells
    BY DEF IInv, TypeOK
  <2>. QED
    BY <2>1, CellAtType, ReadsOnTheMap DEF ReadsInside
<1>. QED
  BY InitInv, StepInv, <1>1, PTL DEF Spec

\* The occupied cells are those of distance 0.
LEMMA ZeroIsOccupied ==
    ASSUME IInv, CoverInv, NEW c \in Cells
    PROVE  distance[c] \in Nat /\ (distance[c] = 0 <=> c \in Occupied)
<1>1. distance[c] \in Nat /\ Infinity # 0
  BY InfinityType, GridAssumption, StepAssumption DEF IInv, TypeOK, Distances, Infinity
<1>2. ASSUME distance[c] = 0, c \notin Occupied PROVE FALSE
  <2>1. PICK o \in Occupied : Octile(c, o) <= 0
    BY <1>1, <1>2 DEF IInv, NeverTooClose
  <2>2. o \in Cells /\ c # o
    BY <1>2 DEF Occupied
  <2>3. PICK p \in Cells : Octile(c, o) = Octile(p, o) + Step(p, c)
    BY <2>2, NearerNeighbour
  <2>4. Octile(p, o) \in Nat /\ Step(p, c) \in Nat /\ Step(p, c) > 0
    BY <2>2, OctileBound, StepAssumption DEF Step
  <2>. QED
    BY <2>1, <2>3, <2>4
<1>. QED
  BY <1>1, <1>2 DEF CoverInv

Units == {<<1, 0>>, <<-1, 0>>, <<0, 1>>, <<0, -1>>}
Beside(c, u) == <<c[1] + u[1], c[2] + u[2]>>

\* Turning a vector and a unit vector alike keeps the component of the one
\* along the other.
LEMMA TurnedComponent ==
    ASSUME NEW a \in Int, NEW b \in Int, NEW u \in Units, NEW yaw \in Yaws
    PROVE  LET v == <<a, b>> IN
           Turned(v, yaw)[1] * Turned(u, yaw)[1] + Turned(v, yaw)[2] * Turned(u, yaw)[2]
             = a * u[1] + b * u[2]
<1>1. CASE yaw = 0
  BY <1>1 DEF Turned, Units
<1>2. CASE yaw = 1
  BY <1>2 DEF Turned, Units
<1>3. CASE yaw = 2
  BY <1>3 DEF Turned, Units
<1>4. CASE yaw = 3
  BY <1>4 DEF Turned, Units
<1>. QED
  BY <1>1, <1>2, <1>3, <1>4 DEF Yaws

\* At every turn of the loop, and not only at its end, the push of a robot
\* next to a wall does not lead into it.
LEMMA InvPushes == IInv /\ CoverInv => PushesOffTheWall
<1>. SUFFICES ASSUME IInv, CoverInv, NEW w \in World, NEW yaw \in Yaws,
                     ~OffTheMap(CellAt(w, yaw)), NEW u \in Units,
                     Beside(CellAt(w, yaw), u) \in Occupied
              PROVE  LET c == CellAt(w, yaw)
                         push == WallPower(w, yaw)
                         along == push[1] * Turned(u, yaw)[1] + push[2] * Turned(u, yaw)[2]
                     IN  /\ along <= 0
                         /\ distance[c] < Ir /\ Beside(c, <<-u[1], -u[2]>>) \notin Occupied =>
                               along < 0
  BY Zenon DEF PushesOffTheWall, Units, Beside
<1>. DEFINE c == CellAt(w, yaw)
            push == WallPower(w, yaw)
            along == push[1] * Turned(u, yaw)[1] + push[2] * Turned(u, yaw)[2]
            wall == Beside(c, u)
            back == Beside(c, <<-u[1], -u[2]>>)
<1>1. c \in Int \X Int /\ c = <<c[1], c[2]>> /\ c[1] \in Int /\ c[2] \in Int
  BY CellAtType
<1>2. {c, East(c), West(c), North(c), South(c)} \subseteq Cells
  BY <1>1, ReadsOnTheMap DEF Reads
<1>3. \A n \in {c, East(c), West(c), North(c), South(c)} :
        distance[n] \in Nat /\ (distance[n] = 0 <=> n \in Occupied)
  BY <1>2, ZeroIsOccupied
<1>4. CASE distance[c] = Infinity \/ distance[c] >= Ir
  <2>1. push = <<0, 0>>
    BY <1>4 DEF WallPower, Zero
  <2>2. ~(distance[c] < Ir)
    BY <1>3, <1>4, WorldAssumption, InfinityType
  <2>3. Turned(u, yaw)[1] \in Int /\ Turned(u, yaw)[2] \in Int
    BY DEF Turned, Units, Yaws
  <2>4. along = 0
    BY <2>1, <2>3
  <2>. QED
    BY <2>2, <2>4
<1>5. CASE ~(distance[c] = Infinity \/ distance[c] >= Ir)
  <2>. DEFINE east == distance[East(c)]   west == distance[West(c)]
              north == distance[North(c)] south == distance[South(c)]
  <2>1. push = Turned(<<east - west, north - south>>, yaw)
    BY <1>5 DEF WallPower, ToWorld, Grad
  <2>2. east \in Nat /\ west \in Nat /\ north \in Nat /\ south \in Nat
    BY <1>3
  <2>3. along = (east - west) * u[1] + (north - south) * u[2]
    <3>. HIDE DEF east, west, north, south
    <3>. QED
      BY <2>1, <2>2, TurnedComponent
  <2>4. /\ u = <<1, 0>> => wall = East(c) /\ back = West(c)
        /\ u = <<-1, 0>> => wall = West(c) /\ back = East(c)
        /\ u = <<0, 1>> => wall = North(c) /\ back = South(c)
        /\ u = <<0, -1>> => wall = South(c) /\ back = North(c)
    BY <1>1 DEF Beside, East, West, North, South
  <2>5. along = distance[wall] - distance[back]
    <3>1. u = <<1, 0>> => along = east - west
      BY <2>2, <2>3
    <3>2. u = <<-1, 0>> => along = west - east
      BY <2>2, <2>3
    <3>3. u = <<0, 1>> => along = north - south
      BY <2>2, <2>3
    <3>4. u = <<0, -1>> => along = south - north
      BY <2>2, <2>3
    <3>. HIDE DEF wall, back, along, c
    <3>. QED
      BY <2>4, <3>1, <3>2, <3>3, <3>4 DEF Units
  <2>6. distance[wall] = 0 /\ distance[back] \in Nat /\ (distance[back] = 0 <=> back \in Occupied)
    BY <1>3, <2>4 DEF Units
  <2>. HIDE DEF wall, back, along, c
  <2>. QED
    BY <2>5, <2>6 DEF wall, back, along, c
<1>. QED
  BY <1>4, <1>5

\* The push of make_wall_power never has a component towards a wall that
\* touches the robot's cell, and with a wall on one side alone it leads to the
\* other one, however the map is turned in the world.
THEOREM AlwaysPushesOffTheWall == Spec => []PushesOffTheWall
  BY AllInvariant, InvPushes, PTL
=============================================================================
