------------------------- MODULE LeaderPosServerProofs -------------------------
(***************************************************************************)
(* Proofs about LeaderPosServer, for every set of goals and every request  *)
(* with an axis-parallel route.  The first part follows the recursion of   *)
(* GenPath over the segments of a route, by the least segment at which a   *)
(* claim would fail; the second is the inductive invariant of the server,  *)
(* and what follows from it: routes and their spacing, the order in which  *)
(* the leader publishes them, cancels, and the protocol of the goals.      *)
(***************************************************************************)
EXTENDS LeaderPosServer, FiniteSetTheorems, TLAPS

-----------------------------------------------------------------------------
(* Natural numbers.                                                        *)

\* A nonempty set of natural numbers has a least element.
LEMMA LeastElement ==
    ASSUME NEW T, T \subseteq Nat, T # {}
    PROVE  \E m \in T : \A n \in T : m <= n
<1>. DEFINE Below(n) == 0..(n - 1)
            Image == {Below(n) : n \in T}
            Order == StrictSubsetOrdering(Nat)
<1>1. Image \subseteq FiniteSubsetsOf(Nat)
  <2>1. ASSUME NEW n \in T PROVE Below(n) \in FiniteSubsetsOf(Nat)
    <3>1. IsFiniteSet(Below(n))
      BY FS_Interval
    <3>2. Below(n) \subseteq Nat
      OBVIOUS
    <3>. QED
      BY <3>1, <3>2 DEF FiniteSubsetsOf
  <2>. QED
    BY <2>1
<1>2. Image # {}
  OBVIOUS
<1>3. IsWellFoundedOn(Order, FiniteSubsetsOf(Nat))
  BY FS_StrictSubsetOrderingWellFounded
<1>. HIDE DEF Order
<1>4. PICK s \in Image : \A t \in Image : ~(<<t, s>> \in Order)
  <2>. HIDE DEF Image
  <2>. QED
    BY <1>1, <1>2, <1>3, WFMin
<1>5. PICK m \in T : s = Below(m)
  OBVIOUS
<1>6. ASSUME NEW n \in T, n < m PROVE FALSE
  <2>1. <<Below(n), Below(m)>> \notin Order
    BY <1>4, <1>5
  <2>2. Below(n) \subseteq Nat /\ Below(m) \subseteq Nat
    OBVIOUS
  <2>3. Below(n) \subseteq Below(m) /\ n \in Below(m) /\ n \notin Below(n)
    BY <1>6
  <2>. QED
    BY <2>1, <2>2, <2>3 DEF Order, StrictSubsetOrdering
<1>7. \A n \in T : m <= n
  <2>. HIDE DEF Below, Image
  <2>. QED
    BY <1>6
<1>. HIDE DEF Below, Image, Order
<1>. QED
  BY <1>5, <1>7

-----------------------------------------------------------------------------
(* The recursion over the segments.                                        *)

\* The number of segments.
N(req) == Len(req.waypoints) + 1

\* The function that defines the walk exists, so that its equations hold.
LEMMA WalkDef ==
    ASSUME NEW req \in PathRequest
    PROVE  /\ Walk(req)[0] = <<req.start>>
           /\ \A k \in Segments(req) : Walk(req)[k] = AddSegment(req, Walk(req)[k - 1], k)
<1>. DEFINE K == N(req)
            Op(poses, k) == AddSegment(req, poses, k)
            Good(f, m) == f = [k \in 0..m |-> IF k = 0 THEN <<req.start>> ELSE Op(f[k - 1], k)]
<1>1. K \in Nat
  BY DEF PathRequest, N
<1>2. {0} \cup Segments(req) = 0..K
  BY <1>1 DEF Segments, N
<1>3. \A m \in 0..K : \E f : Good(f, m)
  <2>. DEFINE T == {m \in 0..K : ~ \E f : Good(f, m)}
  <2>1. SUFFICES ASSUME T # {} PROVE FALSE
    OBVIOUS
  <2>2. PICK m \in T : \A j \in T : m <= j
    <3>1. T \subseteq Nat
      BY <1>1
    <3>. HIDE DEF T
    <3>. QED
      BY <2>1, <3>1, LeastElement
  <2>. HIDE DEF Op
  <2>3. CASE m = 0
    <3>. DEFINE f == [k \in 0..0 |-> <<req.start>>]
    <3>1. Good(f, 0)
      OBVIOUS
    <3>. QED
      BY <2>3, <3>1
  <2>4. CASE m # 0
    <3>1. m \in 1..K /\ m - 1 \in 0..K /\ m - 1 \notin T
      BY <1>1, <2>2, <2>4
    <3>2. PICK f : Good(f, m - 1)
      BY <3>1
    <3>. DEFINE g == [k \in 0..m |-> IF k = m THEN Op(f[m - 1], m) ELSE f[k]]
    <3>3. \A k \in 0..(m - 1) : f[k] = IF k = 0 THEN <<req.start>> ELSE Op(f[k - 1], k)
      BY <3>2
    <3>4. \A k \in 0..m : g[k] = IF k = 0 THEN <<req.start>> ELSE Op(g[k - 1], k)
      BY <3>1, <3>3
    <3>5. Good(g, m)
      BY <3>1, <3>4
    <3>. QED
      BY <3>5
  <2>. QED
    BY <2>3, <2>4
<1>4. \E f : f = [k \in {0} \cup Segments(req) |->
                    IF k = 0 THEN <<req.start>> ELSE AddSegment(req, f[k - 1], k)]
  <2>1. PICK f : Good(f, K)
    <3>. HIDE DEF Good
    <3>. QED
      BY <1>1, <1>3
  <2>. QED
    BY <1>2, <2>1
<1>5. Walk(req) = [k \in {0} \cup Segments(req) |->
                    IF k = 0 THEN <<req.start>> ELSE AddSegment(req, Walk(req)[k - 1], k)]
  BY <1>4 DEF Walk
<1>6. ASSUME NEW k \in 0..K
      PROVE  Walk(req)[k] = IF k = 0 THEN <<req.start>> ELSE AddSegment(req, Walk(req)[k - 1], k)
  BY <1>2, <1>5
<1>. QED
  BY <1>1, <1>6 DEF Segments, N

-----------------------------------------------------------------------------
(* The route of a request.                                                 *)

\* Truncation of a quotient drops less than one divisor.
LEMMA Quotient ==
    ASSUME NEW a \in Nat, NEW b \in Nat \ {0}
    PROVE  /\ a \div b \in Nat
           /\ (a \div b) * b <= a
           /\ a <= (a \div b) * b + (b - 1)
  BY SMT

\* Distances are natural numbers.
LEMMA DistanceType ==
    ASSUME NEW p \in Point, NEW q \in Point
    PROVE  Distance(p, q) \in Nat
  BY DEF Distance, Abs, Point

\* A segment goes from one point to another along an axis.
LEMMA SegmentParts ==
    ASSUME NEW req \in PathRequest, AxisParallel(req), NEW k \in Segments(req)
    PROVE  /\ Corners(req)[k] \in Point /\ Corners(req)[k + 1] \in Point
           /\ Corners(req)[1] = req.start /\ Corners(req)[N(req) + 1] = req.goal
           /\ \/ Corners(req)[k][1] = Corners(req)[k + 1][1]
              \/ Corners(req)[k][2] = Corners(req)[k + 1][2]
<1>1. /\ req.waypoints \in Seq(Point) /\ req.start \in Point /\ req.goal \in Point
      /\ Len(req.waypoints) \in Nat
  BY DEF PathRequest
<1>2. Corners(req) \in Seq(Point) /\ Len(Corners(req)) = N(req) + 1
  BY <1>1 DEF Corners, N
<1>3. k \in 1..N(req) /\ N(req) \in Nat
  BY <1>1 DEF Segments, N
<1>4. Corners(req)[1] = req.start /\ Corners(req)[N(req) + 1] = req.goal
  BY <1>1 DEF Corners, N
<1>. QED
  BY <1>2, <1>3, <1>4 DEF AxisParallel

\* Poses of a segment are one resolution apart, and the last of them is as far
\* from the end of the segment as the first was from its start, but for what
\* the truncation has dropped.
LEMMA AlongSegment ==
    ASSUME NEW req \in PathRequest, AxisParallel(req), NEW k \in Segments(req),
           NEW p \in Point
    PROVE  /\ PointNum(req, k) \in Nat
           /\ \A n \in Nat : Along(req, k, p, n) \in Point
           /\ Along(req, k, p, 0) = p
           /\ PointNum(req, k) > 0 =>
                 \A n \in Nat : Distance(Along(req, k, p, n), Along(req, k, p, n + 1))
                                    = req.resolution
           /\ Distance(Along(req, k, p, PointNum(req, k)), Corners(req)[k + 1])
                 <= Distance(p, Corners(req)[k]) + (req.resolution - 1)
<1>. DEFINE from == Corners(req)[k]
            to == Corners(req)[k + 1]
            r == req.resolution
            m == PointNum(req, k)
            L == SegmentLength(req, k)
            sx == Sign(to[1] - from[1])
            sy == Sign(to[2] - from[2])
<1>1. /\ from \in Point /\ to \in Point /\ r \in Nat /\ r > 0
      /\ from[1] = to[1] \/ from[2] = to[2]
  BY SegmentParts DEF PathRequest
<1>2. from[1] \in Int /\ from[2] \in Int /\ to[1] \in Int /\ to[2] \in Int
      /\ p[1] \in Int /\ p[2] \in Int /\ p = <<p[1], p[2]>>
  BY <1>1 DEF Point
<1>3. sx \in {0, 1, -1} /\ sy \in {0, 1, -1}
  BY DEF Sign
<1>4. L \in Nat /\ L = Distance(from, to)
  BY <1>1, DistanceType DEF SegmentLength
<1>5. m \in Nat /\ m * r <= L /\ L <= m * r + (r - 1)
  <2>1. m = L \div r
    BY DEF PointNum
  <2>. HIDE DEF m, L, r
  <2>2. L \in Nat /\ r \in Nat \ {0}
    BY <1>1, <1>4
  <2>3. L \div r \in Nat /\ (L \div r) * r <= L /\ L <= (L \div r) * r + (r - 1)
    BY <2>2, Quotient, Zenon
  <2>. QED
    BY <2>1, <2>3, Zenon
<1>6. \A n \in Nat : /\ n * r \in Nat /\ (n + 1) * r = n * r + r
                     /\ Along(req, k, p, n) = <<p[1] + (n * r) * sx, p[2] + (n * r) * sy>>
  BY <1>1 DEF Along
<1>. HIDE DEF r, m, L, from, to
<1>7. \A n \in Nat : Along(req, k, p, n) \in Point
  BY <1>2, <1>3, <1>6 DEF Point
<1>8. Along(req, k, p, 0) = p
  <2>1. 0 * r = 0 /\ 0 * sx = 0 /\ 0 * sy = 0
    BY <1>1, <1>3
  <2>2. Along(req, k, p, 0) = <<p[1] + (0 * r) * sx, p[2] + (0 * r) * sy>>
    BY <1>6
  <2>. HIDE DEF sx, sy
  <2>. QED
    BY <1>2, <2>1, <2>2
<1>9. ASSUME m > 0, NEW n \in Nat
      PROVE  Distance(Along(req, k, p, n), Along(req, k, p, n + 1)) = r
  <2>1. L > 0
    BY <1>1, <1>4, <1>5, <1>9
  <2>2. (sx = 0 /\ sy \in {1, -1}) \/ (sy = 0 /\ sx \in {1, -1})
    BY <1>1, <1>2, <1>4, <2>1 DEF Distance, Abs, Sign
  <2>. DEFINE a == n * r
  <2>3. /\ a \in Nat
        /\ Along(req, k, p, n) = <<p[1] + a * sx, p[2] + a * sy>>
        /\ Along(req, k, p, n + 1) = <<p[1] + (a + r) * sx, p[2] + (a + r) * sy>>
    BY <1>6
  <2>. HIDE DEF a, sx, sy
  <2>. QED
    BY <1>1, <1>2, <2>2, <2>3 DEF Distance, Abs
<1>10. Distance(Along(req, k, p, m), to) <= Distance(p, from) + (r - 1)
  <2>. DEFINE a == m * r
  <2>1. /\ a \in Nat /\ a <= L /\ L <= a + (r - 1)
        /\ Along(req, k, p, m) = <<p[1] + a * sx, p[2] + a * sy>>
    BY <1>5, <1>6
  <2>. HIDE DEF a
  <2>2. /\ sx = 0 => a * sx = 0
        /\ sx = 1 => a * sx = a
        /\ sx = -1 => a * sx = -a
        /\ sy = 0 => a * sy = 0
        /\ sy = 1 => a * sy = a
        /\ sy = -1 => a * sy = -a
    BY <2>1
  <2>3. CASE from[1] = to[1]
    <3>1. sx = 0 /\ L = Abs(from[2] - to[2])
      BY <1>2, <1>4, <2>3 DEF Distance, Abs, Sign
    <3>. QED
      BY <1>1, <1>2, <2>1, <2>2, <2>3, <3>1 DEF Distance, Abs, Sign
  <2>4. CASE from[2] = to[2]
    <3>1. sy = 0 /\ L = Abs(from[1] - to[1])
      BY <1>2, <1>4, <2>4 DEF Distance, Abs, Sign
    <3>. QED
      BY <1>1, <1>2, <2>1, <2>2, <2>4, <3>1 DEF Distance, Abs, Sign
  <2>. QED
    BY <1>1, <2>3, <2>4
<1>. QED
  BY <1>5, <1>7, <1>8, <1>9, <1>10 DEF from, to, r, m

\* The poses of a walk are one resolution apart, and each segment adds less
\* than one resolution to the distance that the walk has fallen behind.
WalkGood(req, k) ==
    LET w == Walk(req)[k] IN
    /\ w \in Seq(Point) /\ Len(w) >= 1 /\ w[1] = req.start
    /\ \A j \in 1..(Len(w) - 1) : Distance(w[j], w[j + 1]) = req.resolution
    /\ Distance(w[Len(w)], Corners(req)[k + 1]) <= k * (req.resolution - 1)

\* A walk is good at its start.
LEMMA WalkStarts ==
    ASSUME NEW req \in PathRequest, AxisParallel(req)
    PROVE  WalkGood(req, 0)
<1>1. /\ req.start \in Point /\ Corners(req)[1] = req.start
      /\ 0 * (req.resolution - 1) = 0 /\ Walk(req)[0] = <<req.start>>
  <2>1. 1 \in Segments(req)
    BY DEF PathRequest, Segments
  <2>. QED
    BY <2>1, SegmentParts, WalkDef DEF PathRequest
<1>2. Distance(req.start, req.start) = 0
  BY <1>1 DEF Distance, Abs, Point
<1>. QED
  BY <1>1, <1>2 DEF WalkGood

\* A segment keeps a walk good.
LEMMA WalkGoesOn ==
    ASSUME NEW req \in PathRequest, AxisParallel(req), NEW k \in Segments(req),
           WalkGood(req, k - 1)
    PROVE  WalkGood(req, k)
<1>. DEFINE v == Walk(req)[k - 1]
            w == Walk(req)[k]
            p == v[Len(v)]
            m == PointNum(req, k)
            added == [n \in 1..m |-> Along(req, k, p, n)]
            r == req.resolution
<1>1. k \in Nat /\ k >= 1 /\ r \in Nat /\ r > 0
  BY DEF Segments, PathRequest
<1>2. /\ v \in Seq(Point) /\ Len(v) \in Nat /\ Len(v) >= 1 /\ v[1] = req.start
      /\ \A j \in 1..(Len(v) - 1) : Distance(v[j], v[j + 1]) = r
      /\ Distance(p, Corners(req)[k]) <= (k - 1) * (r - 1)
  BY <1>1 DEF WalkGood
<1>3. p \in Point
  BY <1>2
<1>4. w = v \o added
  BY WalkDef DEF AddSegment, Last
<1>5. /\ m \in Nat /\ \A n \in Nat : Along(req, k, p, n) \in Point
      /\ Along(req, k, p, 0) = p
      /\ m > 0 => \A n \in Nat : Distance(Along(req, k, p, n), Along(req, k, p, n + 1)) = r
      /\ Distance(Along(req, k, p, m), Corners(req)[k + 1])
            <= Distance(p, Corners(req)[k]) + (r - 1)
  BY <1>3, AlongSegment
<1>. HIDE DEF p, m, r, v, w
<1>6. added \in Seq(Point) /\ Len(added) = m /\ \A n \in 1..m : added[n] = Along(req, k, p, n)
  BY <1>5
<1>. HIDE DEF added
<1>7. /\ w \in Seq(Point) /\ Len(w) = Len(v) + m
      /\ Len(v) \in Nat /\ Len(v) >= 1 /\ m \in Nat /\ Len(w) \in Nat
  <2>1. v \in Seq(Point) /\ added \in Seq(Point)
    BY <1>2, <1>6
  <2>2. w \in Seq(Point) /\ Len(w) = Len(v) + Len(added)
    BY <1>4, <2>1
  <2>3. Len(v) \in Nat /\ Len(v) >= 1 /\ m \in Nat /\ Len(added) = m
    BY <1>2, <1>5, <1>6
  <2>. QED
    BY <2>2, <2>3
<1>8. /\ \A j \in 1..Len(v) : w[j] = v[j]
      /\ \A n \in 0..m : w[Len(v) + n] = Along(req, k, p, n)
  <2>1. ASSUME NEW j \in 1..Len(v) PROVE w[j] = v[j]
    BY <1>2, <1>4, <1>6, <1>7
  <2>2. ASSUME NEW n \in 1..m PROVE w[Len(v) + n] = Along(req, k, p, n)
    <3>1. Len(v) + n \in 1..(Len(v) + m) /\ Len(v) + n > Len(v) /\ (Len(v) + n) - Len(v) = n
      BY <1>7
    <3>2. w[Len(v) + n] = added[n]
      BY <1>2, <1>4, <1>6, <1>7, <3>1
    <3>. QED
      BY <1>6, <3>2
  <2>3. w[Len(v) + 0] = Along(req, k, p, 0)
    <3>1. Len(v) + 0 = Len(v) /\ Len(v) \in 1..Len(v)
      BY <1>7
    <3>. QED
      BY <1>5, <2>1, <3>1 DEF p
  <2>4. \A n \in 0..m : n = 0 \/ n \in 1..m
    BY <1>7
  <2>. QED
    BY <2>1, <2>2, <2>3, <2>4
<1>9. ASSUME NEW j \in 1..(Len(w) - 1) PROVE Distance(w[j], w[j + 1]) = r
  <2>1. CASE j < Len(v)
    <3>1. j \in 1..Len(v) /\ j + 1 \in 1..Len(v) /\ j \in 1..(Len(v) - 1)
      BY <1>7, <2>1
    <3>2. w[j] = v[j] /\ w[j + 1] = v[j + 1]
      BY <1>8, <3>1
    <3>. QED
      BY <1>2, <3>1, <3>2
  <2>2. CASE j >= Len(v)
    <3>. DEFINE n == j - Len(v)
    <3>1. /\ m > 0 /\ n \in 0..m /\ n + 1 \in 0..m /\ n \in Nat
          /\ j = Len(v) + n /\ j + 1 = Len(v) + (n + 1)
      BY <1>7, <2>2
    <3>. HIDE DEF n
    <3>2. w[j] = Along(req, k, p, n) /\ w[j + 1] = Along(req, k, p, n + 1)
      BY <1>8, <3>1
    <3>. QED
      BY <1>5, <3>1, <3>2
  <2>. QED
    BY <1>7, <2>1, <2>2
<1>10. w[Len(w)] = Along(req, k, p, m)
  <2>1. m \in 0..m
    BY <1>7
  <2>. QED
    BY <1>7, <1>8, <2>1
<1>11. Distance(w[Len(w)], Corners(req)[k + 1]) <= k * (r - 1)
  <2>1. (k - 1) * (r - 1) + (r - 1) = k * (r - 1)
    BY <1>1
  <2>2. Distance(p, Corners(req)[k]) \in Nat
    BY <1>3, SegmentParts, DistanceType
  <2>3. Distance(Along(req, k, p, m), Corners(req)[k + 1]) \in Nat
    BY <1>5, SegmentParts, DistanceType
  <2>4. (k - 1) * (r - 1) \in Nat /\ k * (r - 1) \in Nat
    BY <1>1
  <2>. QED
    BY <1>1, <1>2, <1>5, <1>10, <2>1, <2>2, <2>3, <2>4
<1>12. Len(w) >= 1 /\ w[1] = req.start
  <2>1. 1 \in 1..Len(v) /\ Len(w) >= 1
    BY <1>7
  <2>. QED
    BY <1>2, <1>8, <2>1
<1>. QED
  BY <1>7, <1>9, <1>11, <1>12 DEF WalkGood, w, r

\* By induction over the segments: a walk that is not good has a first segment
\* that makes it so.
LEMMA WalkIsGood ==
    ASSUME NEW req \in PathRequest, AxisParallel(req)
    PROVE  \A k \in 0..N(req) : WalkGood(req, k)
<1>. DEFINE T == {k \in 0..N(req) : ~WalkGood(req, k)}
<1>1. SUFFICES ASSUME T # {} PROVE FALSE
  OBVIOUS
<1>2. N(req) \in Nat
  BY DEF PathRequest, N
<1>3. PICK k \in T : \A j \in T : k <= j
  <2>1. T \subseteq Nat
    BY <1>2
  <2>. HIDE DEF T
  <2>. QED
    BY <1>1, <2>1, LeastElement
<1>4. k # 0
  BY WalkStarts
<1>5. k \in Segments(req) /\ k - 1 \in 0..N(req) /\ k - 1 \notin T
  BY <1>2, <1>3, <1>4 DEF Segments, N
<1>6. WalkGood(req, k - 1)
  BY <1>5
<1>. QED
  BY <1>5, <1>6, WalkGoesOn

\* What the path server answers to a request.
LEMMA RouteIsGood ==
    ASSUME NEW req \in PathRequest, AxisParallel(req)
    PROVE  LET path == GenPath(req)
               n == Len(path)
               gap(k) == Distance(path[k], path[k + 1])
           IN  /\ path \in Seq(Point) /\ n \in Nat /\ n >= 2
               /\ Head(path) = req.start /\ Last(path) = req.goal
               /\ \A k \in 1..(n - 2) : gap(k) = req.resolution
               /\ gap(n - 1) < req.resolution * Cardinality(Segments(req))
<1>. DEFINE K == N(req)
            w == Walk(req)[K]
            r == req.resolution
            path == GenPath(req)
            n == Len(path)
<1>1. K \in Nat /\ K >= 1 /\ r \in Nat /\ r > 0 /\ req.goal \in Point
  BY DEF PathRequest, N
<1>2. /\ w \in Seq(Point) /\ Len(w) \in Nat /\ Len(w) >= 1 /\ w[1] = req.start
      /\ \A j \in 1..(Len(w) - 1) : Distance(w[j], w[j + 1]) = r
      /\ Distance(w[Len(w)], Corners(req)[K + 1]) <= K * (r - 1)
  <2>1. WalkGood(req, K)
    BY <1>1, WalkIsGood
  <2>. QED
    BY <2>1 DEF WalkGood
<1>3. Corners(req)[K + 1] = req.goal
  <2>1. 1 \in Segments(req)
    BY <1>1 DEF Segments, N
  <2>. QED
    BY <2>1, SegmentParts
<1>4. Cardinality(Segments(req)) = K
  BY <1>1, FS_Interval DEF Segments, N
<1>5. path = Append(w, req.goal)
  BY DEF GenPath, N
<1>. HIDE DEF K, w, r, path
<1>6. /\ path \in Seq(Point) /\ n = Len(w) + 1
      /\ \A j \in 1..Len(w) : path[j] = w[j]
      /\ path[n] = req.goal
  BY <1>1, <1>2, <1>5
<1>7. Head(path) = req.start /\ Last(path) = req.goal
  BY <1>2, <1>6 DEF Last
<1>8. ASSUME NEW k \in 1..(n - 2) PROVE Distance(path[k], path[k + 1]) = r
  <2>1. k \in 1..(Len(w) - 1) /\ k \in 1..Len(w) /\ k + 1 \in 1..Len(w)
    BY <1>2, <1>6
  <2>. QED
    BY <1>2, <1>6, <2>1
<1>9. Distance(path[n - 1], path[n]) < r * K
  <2>1. path[n - 1] = w[Len(w)] /\ w[Len(w)] \in Point
    BY <1>2, <1>6
  <2>2. K * (r - 1) = r * K - K /\ r * K \in Nat
    BY <1>1
  <2>3. Distance(w[Len(w)], req.goal) \in Nat
    BY <1>1, <2>1, DistanceType
  <2>. QED
    BY <1>1, <1>2, <1>3, <1>6, <2>1, <2>2, <2>3
<1>10. n \in Nat /\ n >= 2 /\ (n - 1) + 1 = n
  BY <1>2, <1>6
<1>. QED
  BY <1>4, <1>6, <1>7, <1>8, <1>9, <1>10 DEF path, r

-----------------------------------------------------------------------------
(* A goal of the server.                                                   *)

Live == {"executing", "canceling"}
Publishing == {"check", "publish", "sleep"}

\* A goal is unknown before its thread and live while the thread runs; the
\* thread publishes the route of its request and has not reached the end of
\* it; a pose that is late is the last one, as the thread is before its check.
GoalState(g) ==
    /\ status[g] = "unknown" <=> pc[g] = "none"
    /\ status[g] \in Live <=> pc[g] \notin {"none", "done"}
    /\ status[g] # "unknown" => g \in DOMAIN request
    /\ pc[g] \in {"none", "waiting", "request_lost"} => i[g] = 0 /\ route[g] = <<>>
    /\ pc[g] \in Publishing => route[g] = GenPath(request[g]) /\ i[g] < Len(route[g])
    /\ late[g] \in {0, 1}
    /\ late[g] = 1 => \/ pc[g] = "done"
                      \/ status[g] = "canceling" /\ pc[g] \in {"check", "sleep"}

\* Before the shutdown the last message is the last pose that its goal has
\* published.
LeaderState ==
    \A g \in Goals : ok /\ leader.by = {g} =>
        i[g] \in 1..Len(route[g]) /\ leader.pose = route[g][i[g]]

IInv ==
    /\ TypeOK
    /\ route \in [Goals -> Seq(Point)] /\ i \in [Goals -> Nat]
    /\ \A g \in Goals : GoalState(g)
    /\ LeaderState

\* The route that a goal gets.
LEMMA RouteOfGoal ==
    ASSUME request \in Requests, NEW g \in Goals, g \in DOMAIN request
    PROVE  /\ request[g] \in PathRequest /\ AxisParallel(request[g])
           /\ GenPath(request[g]) \in Seq(Point)
           /\ Len(GenPath(request[g])) \in Nat /\ Len(GenPath(request[g])) >= 2
           /\ \A k \in 1..Len(GenPath(request[g])) : GenPath(request[g])[k] \in Poses
<1>1. request[g] \in PathRequest /\ AxisParallel(request[g])
  BY RequestsAssumption
<1>2. /\ GenPath(request[g]) \in Seq(Point)
      /\ Len(GenPath(request[g])) \in Nat /\ Len(GenPath(request[g])) >= 2
  BY <1>1, RouteIsGood
<1>3. Range(GenPath(request[g])) \subseteq Poses
  <2>1. request[g] \in Range(request)
    BY DEF Range
  <2>2. request[g] \in UNION {Range(f) : f \in Requests}
    BY <2>1
  <2>. QED
    BY <2>2 DEF Poses
<1>4. ASSUME NEW k \in 1..Len(GenPath(request[g])) PROVE GenPath(request[g])[k] \in Poses
  <2>1. k \in DOMAIN GenPath(request[g])
    BY <1>2
  <2>2. GenPath(request[g])[k] \in Range(GenPath(request[g]))
    BY <2>1 DEF Range
  <2>. QED
    BY <1>3, <2>2
<1>. QED
  BY <1>1, <1>2, <1>4

\* A step about one goal leaves the others as they are.
LEMMA OtherGoals ==
    ASSUME IInv, NEW g \in Goals, request' = request, GoalState(g)',
           \A h \in Goals \ {g} :
              /\ status'[h] = status[h] /\ pc'[h] = pc[h] /\ route'[h] = route[h]
              /\ i'[h] = i[h] /\ late'[h] = late[h]
    PROVE  \A h \in Goals : GoalState(h)'
<1>1. ASSUME NEW h \in Goals, h # g PROVE GoalState(h)'
  <2>1. GoalState(h)
    BY DEF IInv
  <2>. QED
    BY <1>1, <2>1 DEF GoalState
<1>. QED
  BY <1>1

Statuses == {"unknown", "executing", "canceling", "succeeded", "aborted", "canceled"}

\* A step that moves a goal and publishes nothing.
LEMMA GoalMoves ==
    ASSUME IInv, NEW g \in Goals,
           UNCHANGED <<ok, pathUp, request, route, i, leader, late>>,
           NEW s \in Statuses, status' = [status EXCEPT ![g] = s],
           NEW p \in Places, pc' = [pc EXCEPT ![g] = p],
           GoalState(g)'
    PROVE  IInv'
<1>1. TypeOK'
  BY DEF IInv, TypeOK, Statuses, Poses
<1>2. \A h \in Goals \ {g} : status'[h] = status[h] /\ pc'[h] = pc[h]
  BY DEF IInv, TypeOK
<1>3. \A h \in Goals : GoalState(h)'
  BY <1>2, OtherGoals
<1>4. LeaderState'
  BY DEF IInv, LeaderState
<1>. QED
  BY <1>1, <1>3, <1>4 DEF IInv

\* The steps of the executor, and those of the thread of a goal that neither
\* get a route nor publish a pose.
LEMMA SilentSteps ==
    ASSUME IInv, NEW g \in Goals,
           \/ HandleGoal(g) \/ HandleCancel(g) \/ CancelWhileWaiting(g)
           \/ CheckCancel(g) \/ Sleep(g) \/ ShutdownWhileWaiting(g)
    PROVE  IInv'
<1>. USE DEF Live, Publishing, Statuses, Places
<1>1. GoalState(g) /\ status \in [Goals -> Statuses] /\ pc \in [Goals -> Places]
  BY DEF IInv, TypeOK
<1>2. /\ \A s : status' = [status EXCEPT ![g] = s] => status'[g] = s
      /\ \A p : pc' = [pc EXCEPT ![g] = p] => pc'[g] = p
  BY <1>1
<1>3. /\ status' = status => status' = [status EXCEPT ![g] = status[g]]
      /\ pc' = pc => pc' = [pc EXCEPT ![g] = pc[g]]
  BY <1>1
<1>4. CASE HandleGoal(g)
  <2>1. PICK p \in {"waiting", "request_lost"} : pc' = [pc EXCEPT ![g] = p]
    BY <1>4 DEF HandleGoal, Goto
  <2>2. /\ status[g] = "unknown" /\ status' = [status EXCEPT ![g] = "executing"]
        /\ g \in DOMAIN request
        /\ UNCHANGED <<ok, pathUp, request, route, i, leader, late>>
    BY <1>4 DEF HandleGoal
  <2>3. GoalState(g)'
    BY <1>1, <1>2, <2>1, <2>2 DEF GoalState
  <2>. QED
    BY <2>1, <2>2, <2>3, GoalMoves
<1>5. CASE HandleCancel(g)
  <2>1. /\ status[g] = "executing" /\ status' = [status EXCEPT ![g] = "canceling"]
        /\ pc' = pc
        /\ UNCHANGED <<ok, pathUp, request, route, i, leader, late>>
    BY <1>5 DEF HandleCancel
  <2>2. GoalState(g)'
    BY <1>1, <1>2, <2>1 DEF GoalState
  <2>. QED
    BY <1>1, <1>3, <2>1, <2>2, GoalMoves
<1>6. ASSUME NEW s \in {"succeeded", "aborted", "canceled"}, Ends(g, s),
             pc[g] \notin {"none", "done"},
             UNCHANGED <<ok, pathUp, request, route, i, leader, late>>
      PROVE  IInv'
  <2>1. status' = [status EXCEPT ![g] = s] /\ pc' = [pc EXCEPT ![g] = "done"]
    BY <1>6 DEF Ends, Goto
  <2>2. GoalState(g)'
    BY <1>1, <1>2, <1>6, <2>1 DEF GoalState
  <2>. QED
    BY <1>6, <2>1, <2>2, GoalMoves
<1>7. CASE CancelWhileWaiting(g) \/ ShutdownWhileWaiting(g)
  BY <1>6, <1>7 DEF CancelWhileWaiting, ShutdownWhileWaiting
<1>8. ASSUME NEW p \in {"check", "publish"}, Goto(g, p), UNCHANGED status,
             pc[g] \in {"check", "sleep"}, p = "publish" => status[g] # "canceling",
             UNCHANGED <<ok, pathUp, request, route, i, leader, late>>
      PROVE  IInv'
  <2>1. pc' = [pc EXCEPT ![g] = p]
    BY <1>8 DEF Goto
  <2>2. GoalState(g)'
    BY <1>1, <1>2, <1>8, <2>1 DEF GoalState
  <2>. QED
    BY <1>1, <1>3, <1>8, <2>1, <2>2, GoalMoves
<1>9. CASE CheckCancel(g)
  BY <1>6, <1>8, <1>9 DEF CheckCancel
<1>10. CASE Sleep(g)
  BY <1>6, <1>8, <1>10 DEF Sleep
<1>. QED
  BY <1>4, <1>5, <1>7, <1>9, <1>10

\* The response of the path service: a route of at least two poses.
LEMMA PathStep ==
    ASSUME IInv, NEW g \in Goals, PathArrives(g)
    PROVE  IInv'
<1>. USE DEF Live, Publishing, Statuses, Places
<1>1. /\ GoalState(g) /\ status \in [Goals -> Statuses] /\ pc \in [Goals -> Places]
      /\ pc[g] = "waiting" /\ request \in Requests
  BY DEF IInv, TypeOK, PathArrives
<1>2. g \in DOMAIN request /\ i[g] = 0
  BY <1>1 DEF GoalState
<1>3. GenPath(request[g]) \in Seq(Point) /\ Len(GenPath(request[g])) >= 2
  BY <1>1, <1>2, RouteOfGoal
<1>4. /\ route' = [route EXCEPT ![g] = GenPath(request[g])]
      /\ route'[g] = GenPath(request[g])
  BY DEF PathArrives, IInv
<1>5. /\ pc' = [pc EXCEPT ![g] = "check"] /\ status' = status
      /\ UNCHANGED <<ok, pathUp, request, i, leader, late>>
  BY <1>3, <1>4 DEF PathArrives, Goto
<1>6. GoalState(g)'
  BY <1>1, <1>2, <1>3, <1>4, <1>5 DEF GoalState
<1>7. \A h \in Goals \ {g} : pc'[h] = pc[h] /\ route'[h] = route[h]
  BY <1>1, <1>4, <1>5 DEF IInv
<1>8. \A h \in Goals : GoalState(h)'
  BY <1>5, <1>6, <1>7, OtherGoals
<1>9. route' \in [Goals -> Seq(Point)]
  BY <1>3, <1>4 DEF IInv
<1>10. TypeOK'
  <2>1. \A h \in Goals : route'[h] # <<>> => route'[h] = GenPath(request[h])
    BY <1>4, <1>7 DEF IInv, TypeOK
  <2>2. \A h \in Goals : i[h] \in 0..Len(route'[h])
    BY <1>2, <1>3, <1>4, <1>7 DEF IInv, TypeOK
  <2>. QED
    BY <1>5, <2>1, <2>2 DEF IInv, TypeOK, Poses
<1>11. LeaderState'
  <2>1. leader.by = {g} => ~ok
    BY <1>2 DEF IInv, LeaderState
  <2>. QED
    BY <1>5, <1>7, <2>1 DEF IInv, LeaderState
<1>. QED
  BY <1>5, <1>8, <1>9, <1>10, <1>11 DEF IInv

\* A pose is published.
LEMMA PublishStep ==
    ASSUME IInv, NEW g \in Goals, PublishPose(g)
    PROVE  IInv'
<1>. USE DEF Live, Publishing, Statuses, Places
<1>1. /\ GoalState(g) /\ status \in [Goals -> Statuses] /\ pc \in [Goals -> Places]
      /\ pc[g] = "publish" /\ request \in Requests /\ i[g] \in Nat
      /\ late \in [Goals -> Nat]
  BY DEF IInv, TypeOK, PublishPose
<1>2. /\ g \in DOMAIN request /\ late[g] = 0 /\ status[g] \in Live
      /\ route[g] = GenPath(request[g]) /\ i[g] < Len(route[g])
  BY <1>1 DEF GoalState
<1>3. /\ route[g] \in Seq(Point) /\ Len(route[g]) \in Nat
      /\ \A k \in 1..Len(route[g]) : route[g][k] \in Poses
  BY <1>1, <1>2, RouteOfGoal
<1>4. i' = [i EXCEPT ![g] = @ + 1] /\ i'[g] = i[g] + 1 /\ i'[g] \in 1..Len(route[g])
  BY <1>1, <1>2, <1>3 DEF PublishPose, IInv
<1>5. /\ late' \in [Goals -> Nat] /\ late'[g] = IF status[g] = "canceling" THEN 1 ELSE 0
      /\ \A h \in Goals \ {g} : late'[h] = late[h]
  BY <1>1, <1>2 DEF PublishPose
<1>6. UNCHANGED <<ok, pathUp, request, route>>
  BY DEF PublishPose
<1>7. PICK p \in {"sleep", "done"}, s \in {status[g], "succeeded"} :
         /\ pc' = [pc EXCEPT ![g] = p] /\ status' = [status EXCEPT ![g] = s]
         /\ p = "sleep" => s = status[g] /\ i'[g] < Len(route[g])
         /\ p = "done" => s = "succeeded"
  BY <1>1, <1>3, <1>4 DEF PublishPose, Ends, Goto
<1>8. pc'[g] = p /\ status'[g] = s
  BY <1>1, <1>7
<1>9. GoalState(g)'
  BY <1>1, <1>2, <1>4, <1>5, <1>6, <1>7, <1>8 DEF GoalState
<1>10. \A h \in Goals \ {g} : pc'[h] = pc[h] /\ status'[h] = status[h] /\ i'[h] = i[h]
  BY <1>1, <1>4, <1>7 DEF IInv
<1>11. \A h \in Goals : GoalState(h)'
  BY <1>5, <1>6, <1>9, <1>10, OtherGoals
<1>12. leader' = IF ok THEN [by |-> {g}, pose |-> route[g][i'[g]]] ELSE leader
  BY DEF PublishPose
<1>13. leader' \in [by : {{h} : h \in Goals}, pose : Poses] \cup {Silent}
  BY <1>3, <1>4, <1>12 DEF IInv, TypeOK
<1>14. TypeOK'
  <2>1. i' \in [Goals -> Nat] /\ \A h \in Goals : i'[h] \in 0..Len(route[h])
    BY <1>1, <1>4, <1>10 DEF IInv, TypeOK
  <2>2. status' \in [Goals -> Statuses] /\ pc' \in [Goals -> Places]
    BY <1>1, <1>7
  <2>. QED
    BY <1>5, <1>6, <1>13, <2>1, <2>2 DEF IInv, TypeOK, Poses
<1>15. LeaderState'
  <2>1. CASE ok
    <3>1. \A h \in Goals : leader'.by = {h} => h = g
      BY <1>12, <2>1
    <3>. QED
      BY <1>4, <1>6, <1>12, <2>1, <3>1 DEF LeaderState
  <2>2. CASE ~ok
    BY <1>6, <2>2 DEF LeaderState
  <2>. QED
    BY <2>1, <2>2
<1>. QED
  BY <1>1, <1>4, <1>6, <1>11, <1>14, <1>15 DEF IInv

\* The server starts and shuts down as it likes, and nothing is live before.
LEMMA InitInv == Init => IInv
  BY DEF Init, IInv, TypeOK, GoalState, LeaderState, Live, Publishing, Places, Silent

\* A step that neither moves a goal nor publishes a pose.
LEMMA NodeStep ==
    ASSUME IInv,
           UNCHANGED <<request, status, pc, route, i, leader, late>>,
           pathUp' \in BOOLEAN, ok' \in BOOLEAN, ok' => ok
    PROVE  IInv'
<1>1. TypeOK' /\ LeaderState'
  BY DEF IInv, TypeOK, LeaderState, Poses
<1>2. ASSUME NEW h \in Goals PROVE GoalState(h)'
  BY DEF IInv, GoalState
<1>. QED
  BY <1>1, <1>2 DEF IInv

\* Every step keeps the invariant.
LEMMA InvStep == IInv /\ [Next]_vars => IInv'
<1>. SUFFICES ASSUME IInv, [Next]_vars PROVE IInv'
  OBVIOUS
<1>1. ok \in BOOLEAN /\ pathUp \in BOOLEAN
  BY DEF IInv, TypeOK
<1>2. CASE PathServerStarts \/ Shutdown \/ UNCHANGED vars
  <2>1. /\ UNCHANGED <<request, status, pc, route, i, leader, late>>
        /\ pathUp' \in BOOLEAN /\ ok' \in BOOLEAN
    BY <1>1, <1>2 DEF PathServerStarts, Shutdown, vars
  <2>2. ok' => ok
    BY <1>2 DEF PathServerStarts, Shutdown, vars
  <2>. QED
    BY <2>1, <2>2, NodeStep
<1>. QED
  BY <1>2, SilentSteps, PathStep, PublishStep DEF Next, Execute

\* The inductive invariant.
THEOREM Invariance == Spec => []IInv
  BY InitInv, InvStep, PTL DEF Spec

\* The variables of the server keep their types.
THEOREM TypeCorrect == Spec => []TypeOK
  BY Invariance, PTL DEF IInv

\* The leader publishes at most one pose after a cancel has been accepted: the
\* check at the top of the loop comes before the next one.
THEOREM LeaderAlwaysStops == Spec => []CancelStopsLeader
<1>1. IInv => CancelStopsLeader
  BY DEF IInv, GoalState, CancelStopsLeader
<1>. QED
  BY Invariance, <1>1, PTL

\* Whatever axis-parallel route is asked for, in whatever resolution, its poses
\* are one resolution apart but for the last one, which makes up for less than
\* one resolution per segment.
THEOREM RoutesAreSpaced == Spec => []RouteSpacing
<1>1. IInv => RouteSpacing
  <2>. SUFFICES ASSUME IInv, NEW g \in Goals, route[g] # <<>>
                PROVE  LET req == request[g]
                           n == Len(route[g])
                           gap(k) == Distance(route[g][k], route[g][k + 1])
                       IN  /\ Head(route[g]) = req.start
                           /\ Last(route[g]) = req.goal
                           /\ \A k \in 1..(n - 2) : gap(k) = req.resolution
                           /\ gap(n - 1) < req.resolution * Cardinality(Segments(req))
    BY Zenon DEF RouteSpacing
  <2>1. route[g] = GenPath(request[g]) /\ request \in Requests /\ GoalState(g)
    BY DEF IInv, TypeOK
  <2>2. g \in DOMAIN request
    BY <2>1 DEF GoalState
  <2>3. request[g] \in PathRequest /\ AxisParallel(request[g])
    BY <2>1, <2>2, RequestsAssumption
  <2>. QED
    BY <2>1, <2>3, RouteIsGood
<1>. QED
  BY Invariance, <1>1, PTL

\* A message of the leader that follows one of the same goal is the next pose
\* of its route, and before a shutdown a success comes with the last one.
THEOREM LeaderAlwaysFollows == Spec => LeaderFollowsRoute
<1>. DEFINE Follows(g) ==
        /\ leader.by = {g} /\ leader'.by = {g} /\ leader' # leader =>
              \E k \in 1..(Len(route[g]) - 1) :
                  leader.pose = route[g][k] /\ leader'.pose = route[g][k + 1]
        /\ ok /\ status[g] # "succeeded" /\ status'[g] = "succeeded" =>
              leader' = [by |-> {g}, pose |-> Last(route[g])]
<1>1. ASSUME IInv, [Next]_vars, NEW g \in Goals PROVE Follows(g)
  <2>. USE DEF Live, Publishing
  <2>1. ASSUME NEW h \in Goals, PublishPose(h) PROVE Follows(g)
    <3>1. /\ GoalState(h) /\ pc[h] = "publish" /\ i[h] \in Nat
          /\ i' = [i EXCEPT ![h] = @ + 1] /\ i'[h] = i[h] + 1
          /\ leader' = IF ok THEN [by |-> {h}, pose |-> route[h][i'[h]]] ELSE leader
      BY <1>1, <2>1 DEF PublishPose, IInv
    <3>2. i[h] < Len(route[h]) /\ Len(route[h]) \in Nat
      BY <1>1, <3>1 DEF GoalState, IInv
    <3>3. ASSUME leader.by = {g}, leader'.by = {g}, leader' # leader
          PROVE  \E k \in 1..(Len(route[g]) - 1) :
                    leader.pose = route[g][k] /\ leader'.pose = route[g][k + 1]
      <4>1. ok /\ h = g /\ leader'.pose = route[g][i[g] + 1]
        BY <3>1, <3>3
      <4>2. i[g] \in 1..Len(route[g]) /\ leader.pose = route[g][i[g]]
        BY <1>1, <3>3, <4>1 DEF IInv, LeaderState
      <4>3. i[g] \in 1..(Len(route[g]) - 1)
        BY <3>1, <3>2, <4>1, <4>2
      <4>. QED
        BY <4>1, <4>2, <4>3
    <3>4. ASSUME ok, status[g] # "succeeded", status'[g] = "succeeded"
          PROVE  leader' = [by |-> {g}, pose |-> Last(route[g])]
      <4>1. h = g /\ Len(route[h]) <= i'[h]
        BY <1>1, <2>1, <3>4 DEF PublishPose, Ends, IInv, TypeOK
      <4>2. i'[h] = Len(route[h])
        BY <3>1, <3>2, <4>1
      <4>. QED
        BY <3>1, <3>4, <4>1, <4>2 DEF Last
    <3>. QED
      BY <3>3, <3>4
  <2>2. ASSUME NEW h \in Goals,
               \/ HandleGoal(h) \/ HandleCancel(h) \/ PathArrives(h) \/ CancelWhileWaiting(h)
               \/ CheckCancel(h) \/ Sleep(h) \/ ShutdownWhileWaiting(h)
        PROVE  leader' = leader /\ (ok /\ status'[g] = "succeeded" => status[g] = "succeeded")
    BY <1>1, <2>2 DEF HandleGoal, HandleCancel, PathArrives, CancelWhileWaiting, CheckCancel,
       Sleep, ShutdownWhileWaiting, Ends, IInv, TypeOK
  <2>3. ASSUME PathServerStarts \/ Shutdown \/ UNCHANGED vars
        PROVE  leader' = leader /\ status' = status
    BY <2>3 DEF PathServerStarts, Shutdown, vars
  <2>. QED
    BY <1>1, <2>1, <2>2, <2>3 DEF Next, Execute
<1>2. IInv /\ [Next]_vars => [\A g \in Goals : Follows(g)]_vars
  BY <1>1
<1>. QED
  BY Invariance, <1>2, PTL DEF Spec, LeaderFollowsRoute

\* A step moves no goal, or one as rcl_action does.
LEMMA GoalStep ==
    ASSUME IInv, [Next]_vars
    PROVE  [ActionServer!Next]_status
<1>. USE DEF Live, Publishing, Places, ActionServer!Next, ActionServer!Moves,
             ActionServer!Accept, ActionServer!Cancel, ActionServer!Finish,
             ActionServer!Succeed, ActionServer!Abort, ActionServer!Canceled
<1>1. ASSUME NEW g \in Goals, HandleGoal(g) \/ HandleCancel(g)
      PROVE  ActionServer!Next
  BY <1>1 DEF HandleGoal, HandleCancel
<1>2. ASSUME NEW g \in Goals, NEW how \in {"succeeded", "aborted"}, Ends(g, how),
             pc[g] \notin {"none", "done"}
      PROVE  ActionServer!Next
  BY <1>2 DEF Ends, IInv, GoalState
<1>3. ASSUME NEW g \in Goals, Ends(g, "canceled"), status[g] = "canceling"
      PROVE  ActionServer!Next
  BY <1>3 DEF Ends
<1>4. ASSUME NEW g \in Goals, PathArrives(g) PROVE status' = status
  <2>1. g \in DOMAIN request /\ request \in Requests
    BY <1>4 DEF PathArrives, IInv, TypeOK, GoalState
  <2>2. route'[g] # <<>>
    BY <1>4, <2>1, RouteOfGoal DEF PathArrives, IInv
  <2>. QED
    BY <1>4, <2>2 DEF PathArrives
<1>5. ASSUME NEW g \in Goals, Execute(g) PROVE ActionServer!Next \/ status' = status
  BY <1>2, <1>3, <1>5 DEF Execute, CancelWhileWaiting, CheckCancel, PublishPose, Sleep,
     ShutdownWhileWaiting
<1>6. PathServerStarts \/ Shutdown \/ UNCHANGED vars => status' = status
  BY DEF PathServerStarts, Shutdown, vars
<1>. QED
  BY <1>1, <1>4, <1>5, <1>6 DEF Next

\* Executor and threads together implement a ROS 2 action server: the status of
\* a goal only takes the transitions that rcl_action allows.
THEOREM LeaderGoalsFollowProtocol == Spec => ImplementsActionGoals
<1>1. Init => ActionServer!Init
  BY DEF Init, ActionServer!Init
<1>. QED
  BY Invariance, GoalStep, <1>1, PTL DEF Spec, ImplementsActionGoals, ActionServer!Spec
==============================================================================
