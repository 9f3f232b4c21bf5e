----------------------------- MODULE HullProofs -----------------------------
(***************************************************************************)
(* _convex_hull returns the convex hull of the buffers of a component,     *)
(* which has the detections inside, for any detections anywhere in the     *)
(* plane and buffers of any shape that has opposite corners in two         *)
(* directions; and an edge of it still passes a detection on the same side *)
(* after _observation_envelope rounded its ends.  FirePipelineProofs takes *)
(* the ring that is served from there.  First come the lemmas about        *)
(* numbers, sums and finite orders that both cite.                         *)
(***************************************************************************)
EXTENDS Incidents, FiniteSetTheorems, SequenceTheorems, WellFoundedInduction,
        TLAPS

-----------------------------------------------------------------------------
(* Least elements *)

\* The order of the natural numbers as a set of pairs
LEMMA LessThanRelation ==
    \E R : /\ IsWellFoundedOn(R, Nat)
           /\ \A x, y \in Nat : x < y => <<x, y>> \in R
<1> DEFINE R == {p \in Nat \X Nat : p[1] < p[2]}
<1>1. IsWellFoundedOn(R, Nat)
  BY NatLessThanWellFounded DEF OpToRel
<1>2. \A x, y \in Nat : x < y => <<x, y>> \in R
  OBVIOUS
<1> QED
  BY <1>1, <1>2

\* Every set of natural numbers has a least element, so that Min chooses it.
LEMMA LeastNatural ==
    ASSUME NEW S \in SUBSET Nat, S # {}
    PROVE  \E x \in S : \A y \in S : x <= y
<1>1. PICK R : /\ IsWellFoundedOn(R, Nat)
               /\ \A x, y \in Nat : x < y => <<x, y>> \in R
  BY LessThanRelation
<1>2. S \subseteq Nat
  OBVIOUS
<1>3. \E x \in S : \A y \in S : ~(<<y, x>> \in R)
  <2>1. IsWellFoundedOn(R, Nat)
    BY <1>1
  <2> QED
    BY <1>2, <2>1, WFMin, ZenonT(60)
<1>4. PICK x \in S : \A y \in S : ~(<<y, x>> \in R)
  BY <1>3
<1>5. ASSUME NEW y \in S
      PROVE  x <= y
  <2>1. x \in Nat /\ y \in Nat /\ ~(<<y, x>> \in R)
    BY <1>2, <1>4
  <2>2. ~(y < x)
    BY <1>1, <2>1, Zenon
  <2> QED
    BY <2>1, <2>2
<1> QED
  BY <1>4, <1>5

\* The greatest of some positions
LEMMA GreatestBelow ==
  ASSUME NEW m \in Nat, NEW S \in SUBSET (1..m), S # {}
  PROVE  \E x \in S : \A y \in S : x >= y
<1> DEFINE T == {n \in Nat : m - n \in S}
<1>1. T \in SUBSET Nat /\ T # {}
  <2>1. PICK y \in S : TRUE
    OBVIOUS
  <2>2. m - y \in Nat /\ m - (m - y) = y
    OBVIOUS
  <2> QED
    BY <2>2
<1>2. PICK t \in T : \A u \in T : t <= u
  <2> HIDE DEF T
  <2> QED
    BY <1>1, LeastNatural
<1>3. ASSUME NEW y \in S PROVE m - t >= y
  <2>1. m - y \in Nat /\ m - (m - y) = y
    OBVIOUS
  <2>2. m - y \in T
    BY <2>1
  <2> QED
    BY <1>2, <2>1, <2>2
<1> QED
  BY <1>2, <1>3

-----------------------------------------------------------------------------
(* Induction, and the sums it defines *)

\* What holds of 0 and of every successor holds of every number.
LEMMA SetInduction ==
    ASSUME NEW S, 0 \in S, \A n \in Nat : n \in S => n + 1 \in S
    PROVE  Nat \subseteq S
<1> DEFINE Rest == Nat \ S
<1> SUFFICES ASSUME Rest # {}
             PROVE  FALSE
  OBVIOUS
<1>1. PICK m \in Rest : \A n \in Rest : m <= n
  <2>1. Rest \in SUBSET Nat
    OBVIOUS
  <2> HIDE DEF Rest
  <2> QED
    BY <2>1, LeastNatural
<1>2. m \in Nat /\ m # 0
  OBVIOUS
<1>3. m - 1 \in Nat /\ m - 1 \notin Rest
  BY <1>1, <1>2
<1>4. (m - 1) + 1 \in S
  BY <1>3
<1> QED
  BY <1>2, <1>4

\* f adds up the terms e, one after the other.
IsSum(f, e, N) ==
    f = [k \in 0..N |-> IF k = 0 THEN 0 ELSE f[k - 1] + e[k]]

\* There is such a sum over every prefix.
LEMMA SumExists ==
    ASSUME NEW e, NEW N \in Nat
    PROVE  \E f : IsSum(f, e, N)
<1> DEFINE Summable == {n \in Nat : \E f : IsSum(f, e, n)}
<1>1. 0 \in Summable
  <2> DEFINE f == [k \in 0..0 |-> 0]
  <2>1. IsSum(f, e, 0)
    BY DEF IsSum
  <2> QED
    BY <2>1
<1>2. ASSUME NEW n \in Nat, n \in Summable
      PROVE  n + 1 \in Summable
  <2>1. PICK f : IsSum(f, e, n)
    BY <1>2
  <2> DEFINE g == [k \in 0..n + 1 |->
                      IF k = n + 1 THEN f[n] + e[n + 1] ELSE f[k]]
  <2>2. ASSUME NEW k \in 0..n + 1
        PROVE  g[k] = IF k = 0 THEN 0 ELSE g[k - 1] + e[k]
    <3>1. CASE k = n + 1
      BY <3>1
    <3>2. CASE k # n + 1
      <4>1. k \in 0..n
        BY <3>2
      <4>2. f[k] = IF k = 0 THEN 0 ELSE f[k - 1] + e[k]
        BY <2>1, <4>1 DEF IsSum
      <4> QED
        BY <3>2, <4>1, <4>2
    <3> QED
      BY <3>1, <3>2
  <2>3. IsSum(g, e, n + 1)
    <3>1. g = [k \in 0..n + 1 |-> g[k]]
      OBVIOUS
    <3> HIDE DEF g
    <3> QED
      BY <2>2, <3>1 DEF IsSum
  <2> QED
    BY <2>3
<1>3. Nat \subseteq Summable
  <2> HIDE DEF Summable
  <2> QED
    BY <1>1, <1>2, SetInduction
<1> QED
  BY <1>3

-----------------------------------------------------------------------------
(* Elements of a finite set by a strict total order R: each position from 1 *)
(* to its size is that of one element.                                      *)

Orders(R, S) ==
    /\ \A x \in S : <<x, x>> \notin R
    /\ \A x, y \in S : x # y => <<x, y>> \in R \/ <<y, x>> \in R
    /\ \A x, y, z \in S : <<x, y>> \in R /\ <<y, z>> \in R => <<x, z>> \in R

Below(x, R, S) == {y \in S : <<y, x>> \in R}

\* What comes later has more elements before it.
LEMMA FewerBelow ==
    ASSUME NEW S, IsFiniteSet(S), NEW R, Orders(R, S),
           NEW x \in S, NEW y \in S, <<x, y>> \in R
    PROVE  Cardinality(Below(x, R, S)) < Cardinality(Below(y, R, S))
<1>1. Below(x, R, S) \cup {x} \subseteq Below(y, R, S)
  BY DEF Orders, Below
<1>2. x \notin Below(x, R, S)
  BY DEF Orders, Below
<1>3. IsFiniteSet(Below(x, R, S)) /\ IsFiniteSet(Below(y, R, S))
  BY FS_Subset DEF Below
<1>4. Cardinality(Below(x, R, S) \cup {x}) = Cardinality(Below(x, R, S)) + 1
  BY <1>2, <1>3, FS_AddElement
<1>5. Cardinality(Below(x, R, S) \cup {x}) <= Cardinality(Below(y, R, S))
  BY <1>1, <1>3, FS_Subset
<1> QED
  BY <1>3, <1>4, <1>5, FS_CardinalityType

\* Each position is that of an element.
LEMMA EveryPosition ==
    ASSUME NEW S, IsFiniteSet(S), NEW R, Orders(R, S),
           NEW n \in 1..Cardinality(S)
    PROVE  \E x \in S : Cardinality(Below(x, R, S)) = n - 1
<1> DEFINE N == Cardinality(S)
           pos == [x \in S |-> Cardinality(Below(x, R, S))]
           Positions == {pos[x] : x \in S}
<1>1. N \in Nat
  BY FS_CardinalityType
<1>2. ASSUME NEW x \in S
      PROVE  pos[x] \in 0..N - 1
  <2>1. Below(x, R, S) \subseteq S \ {x}
    BY DEF Below, Orders
  <2>2. IsFiniteSet(S \ {x}) /\ Cardinality(S \ {x}) = N - 1
    BY FS_RemoveElement
  <2>3. IsFiniteSet(Below(x, R, S))
        /\ Cardinality(Below(x, R, S)) <= Cardinality(S \ {x})
    BY <2>1, <2>2, FS_Subset
  <2> QED
    BY <1>1, <2>2, <2>3, FS_CardinalityType
<1>3. \A x, y \in S : pos[x] = pos[y] => x = y
  <2> SUFFICES ASSUME NEW x \in S, NEW y \in S, x # y
               PROVE  pos[x] # pos[y]
    OBVIOUS
  <2>1. pos[x] \in Nat /\ pos[y] \in Nat
    BY <1>1, <1>2
  <2>2. pos[x] < pos[y] \/ pos[y] < pos[x]
    <3>1. CASE <<x, y>> \in R
      BY <3>1, FewerBelow
    <3>2. CASE <<y, x>> \in R
      BY <3>2, FewerBelow
    <3> QED
      BY <3>1, <3>2 DEF Orders
  <2> HIDE DEF pos
  <2> QED
    BY <2>1, <2>2
<1>4. pos \in Bijection(S, Positions)
  BY <1>3 DEF Bijection, Injection, Surjection, IsInjective
<1>5. IsFiniteSet(Positions) /\ Cardinality(Positions) = N
  BY <1>4, FS_Bijection DEF ExistsBijection
<1>6. IsFiniteSet(0..N - 1) /\ Cardinality(0..N - 1) = N
  <2>1. 0 \in Int /\ N - 1 \in Int
    BY <1>1
  <2> HIDE DEF N
  <2>2. /\ IsFiniteSet(0..N - 1)
        /\ Cardinality(0..N - 1) = IF 0 > N - 1 THEN 0 ELSE (N - 1) - 0 + 1
    BY <2>1, FS_Interval, Zenon
  <2> QED
    BY <1>1, <2>2
<1>7. Positions \subseteq 0..N - 1
  BY <1>2
<1>8. Positions = 0..N - 1
  BY <1>5, <1>6, <1>7, FS_Subset
<1>9. n - 1 \in Positions
  <2>1. n - 1 \in 0..N - 1
    BY <1>1
  <2> QED
    BY <1>8, <2>1, Zenon
<1> QED
  BY <1>9

\* What has each element at the position it counts is a list in that order.
LEMMA Enumeration ==
  ASSUME NEW S, IsFiniteSet(S), NEW R, Orders(R, S), NEW order,
         \A n \in 1..Cardinality(S) :
            order[n] \in S /\ Cardinality(Below(order[n], R, S)) = n - 1
  PROVE  /\ \A m, n \in 1..Cardinality(S) : m < n => <<order[m], order[n]>> \in R
         /\ \A m, n \in 1..Cardinality(S) : order[m] = order[n] => m = n
         /\ \A x \in S : \E n \in 1..Cardinality(S) : order[n] = x
<1> DEFINE N == Cardinality(S)
           At(x) == Cardinality(Below(x, R, S))
<1>1. N \in Nat
  BY FS_CardinalityType
<1>2. ASSUME NEW m \in 1..N, NEW n \in 1..N, order[m] = order[n]
      PROVE  m = n
  <2>1. m - 1 = n - 1
    BY <1>2
  <2> QED
    BY <1>1, <2>1
<1>3. ASSUME NEW m \in 1..N, NEW n \in 1..N, m < n
      PROVE  <<order[m], order[n]>> \in R
  <2>1. order[m] \in S /\ order[n] \in S /\ order[m] # order[n]
    BY <1>1, <1>2, <1>3
  <2>2. ~(<<order[n], order[m]>> \in R)
    <3>1. ~(At(order[n]) < At(order[m]))
      BY <1>1, <1>3
    <3> QED
      BY <2>1, <3>1, FewerBelow
  <2> QED
    BY <2>1, <2>2 DEF Orders
<1>4. ASSUME NEW x \in S
      PROVE  \E n \in 1..N : order[n] = x
  <2>1. At(x) \in 0..N - 1
    <3>1. Below(x, R, S) \in SUBSET (S \ {x})
      BY DEF Below, Orders
    <3>2. IsFiniteSet(S \ {x}) /\ Cardinality(S \ {x}) = N - 1
      BY FS_RemoveElement
    <3>3. IsFiniteSet(Below(x, R, S)) /\ At(x) <= Cardinality(S \ {x})
      BY <3>1, <3>2, FS_Subset
    <3> QED
      BY <1>1, <3>2, <3>3, FS_CardinalityType
  <2> DEFINE n == At(x) + 1
             y == order[n]
  <2>2. n \in 1..N /\ n - 1 = At(x)
    BY <1>1, <2>1
  <2>3. y \in S /\ At(y) = At(x) /\ At(x) \in Int
    BY <2>1, <2>2
  <2>4. y = x
    <3> SUFFICES ASSUME y # x
                 PROVE  FALSE
      OBVIOUS
    <3> HIDE DEF y
    <3>1. <<x, y>> \in R \/ <<y, x>> \in R
      BY <2>3 DEF Orders
    <3>2. At(x) < At(y) \/ At(y) < At(x)
      BY <2>3, <3>1, FewerBelow
    <3> QED
      BY <2>3, <3>2
  <2> QED
    BY <2>2, <2>4
<1> QED
  BY <1>2, <1>3, <1>4

\* Two elements
LEMMA Pairs ==
  ASSUME NEW x, NEW y, x # y
  PROVE  IsFiniteSet({x, y}) /\ Cardinality({x, y}) = 2
<1>1. IsFiniteSet({x}) /\ Cardinality({x}) = 1
  BY FS_Singleton
<1>2. {x} \cup {y} = {x, y} /\ y \notin {x}
  OBVIOUS
<1> QED
  BY <1>1, <1>2, FS_AddElement

-----------------------------------------------------------------------------
(* Turns in the plane *)

\* The direction of a chain: 1 if it goes from the left to the right, or -1
Sides == {1, -1}
Plane == Int \X Int

\* Vectors: their determinant, the one between two points, and those that a
\* chain may follow, which are a half-plane with one of the borders
Det(v, w) == v[1] * w[2] - v[2] * w[1]
To(a, b) == <<b[1] - a[1], b[2] - a[2]>>
Forward(side, v) == side * v[1] > 0 \/ (v[1] = 0 /\ side * v[2] > 0)

\* b comes after a for a chain of the side.
Ahead(side, a, b) == Forward(side, To(a, b))

\* Signs of products
LEMMA Signs ==
  ASSUME NEW a \in Int, NEW b \in Int
  PROVE  /\ a >= 0 /\ b >= 0 => a * b >= 0
         /\ a > 0 /\ b > 0 => a * b > 0
         /\ a > 0 /\ b < 0 => a * b < 0
         /\ a < 0 /\ b > 0 => a * b < 0
         /\ a > 0 /\ a * b >= 0 => b >= 0
         /\ a > 0 /\ a * b > 0 => b > 0
         /\ a * b \in Int
OBVIOUS

\* Two turns to the left are one to the left, for vectors that point to the right.
LEMMA TurnsComposeRight ==
  ASSUME NEW w1 \in Int, NEW w2 \in Int, NEW v1 \in Int, NEW v2 \in Int,
         NEW z1 \in Int, NEW z2 \in Int,
         w1 > 0 \/ (w1 = 0 /\ w2 > 0),
         v1 > 0 \/ (v1 = 0 /\ v2 > 0),
         z1 > 0 \/ (z1 = 0 /\ z2 > 0),
         w1 * v2 - w2 * v1 >= 0, v1 * z2 - v2 * z1 >= 0
  PROVE  /\ w1 * z2 - w2 * z1 >= 0
         /\ w1 * v2 - w2 * v1 > 0 \/ v1 * z2 - v2 * z1 > 0
               => w1 * z2 - w2 * z1 > 0
<1> DEFINE wv == w1 * v2 - w2 * v1
           vz == v1 * z2 - v2 * z1
           wz == w1 * z2 - w2 * z1
<1>1. wv \in Int /\ vz \in Int /\ wz \in Int
  OBVIOUS
<1>2. v1 * wz = vz * w1 + wv * z1
  OBVIOUS
<1>3. CASE v1 > 0
  <2>1. w1 > 0
    <3> SUFFICES ASSUME w1 = 0, w2 > 0
                 PROVE  FALSE
      OBVIOUS
    <3>1. w2 * v1 > 0 /\ w1 * v2 = 0
      BY <1>3, Signs
    <3> QED
      BY <3>1
  <2>2. vz * w1 >= 0 /\ wv * z1 >= 0 /\ z1 >= 0
    BY <1>1, <2>1, Signs
  <2>3. v1 * wz >= 0
    BY <1>2, <2>2, <1>1
  <2>4. wz >= 0
    BY <1>1, <1>3, <2>3, Signs
  <2>5. ASSUME vz > 0 PROVE wz > 0
    <3>1. vz * w1 > 0
      BY <1>1, <2>1, <2>5, Signs
    <3>2. v1 * wz > 0
      BY <3>1, <1>2, <2>2, <1>1
    <3> QED
      BY <1>1, <1>3, <3>2, Signs
  <2>6. ASSUME wv > 0 PROVE wz > 0
    <3>1. CASE z1 > 0
      <4>1. wv * z1 > 0
        BY <1>1, <3>1, <2>6, Signs
      <4>2. v1 * wz > 0
        BY <4>1, <1>2, <2>2, <1>1
      <4> QED
        BY <1>1, <1>3, <4>2, Signs
    <3>2. CASE z1 = 0
      <4>1. v1 * z2 > 0 /\ v2 * z1 = 0
        BY <1>3, <3>2, Signs
      <4>2. vz > 0
        BY <4>1
      <4> QED
        BY <4>2, <2>5
    <3> QED
      BY <3>1, <3>2
  <2> QED
    BY <2>4, <2>5, <2>6
<1>4. CASE v1 = 0
  <2>1. v2 > 0
    BY <1>4
  <2>2. wv = w1 * v2 /\ vz = - (v2 * z1)
    BY <1>4
  <2>3. z1 = 0 /\ z2 > 0
    <3> SUFFICES ASSUME z1 > 0
                 PROVE  FALSE
      OBVIOUS
    <3>1. v2 * z1 > 0
      BY <2>1, Signs
    <3> QED
      BY <3>1, <2>2
  <2>4. vz = 0 /\ wz = w1 * z2
    BY <2>2, <2>3
  <2>5. w1 >= 0
    OBVIOUS
  <2>6. wz >= 0
    BY <2>3, <2>4, <2>5, Signs
  <2>7. ASSUME wv > 0 PROVE wz > 0
    <3>1. w1 # 0
      BY <2>2, <2>7
    <3>2. w1 > 0
      BY <2>5, <3>1
    <3> QED
      BY <3>2, <2>3, <2>4, Signs
  <2> QED
    BY <2>4, <2>6, <2>7
<1> QED
  BY <1>3, <1>4

\* Determinants are whole.
LEMMA DetIsInt == ASSUME NEW v \in Plane, NEW w \in Plane PROVE Det(v, w) \in Int
<1>1. v[1] \in Int /\ v[2] \in Int /\ w[1] \in Int /\ w[2] \in Int
  BY DEF Plane
<1> QED
  BY <1>1 DEF Det

\* The same for the vectors of either side
LEMMA TurnsCompose ==
  ASSUME NEW side \in Sides, NEW w \in Plane, NEW v \in Plane, NEW z \in Plane,
         Forward(side, w), Forward(side, v), Forward(side, z),
         Det(w, v) >= 0, Det(v, z) >= 0
  PROVE  /\ Det(w, z) >= 0
         /\ Det(w, v) > 0 \/ Det(v, z) > 0 => Det(w, z) > 0
<1> DEFINE w1 == side * w[1]
           w2 == side * w[2]
           v1 == side * v[1]
           v2 == side * v[2]
           z1 == side * z[1]
           z2 == side * z[2]
<1>1. /\ w[1] \in Int /\ w[2] \in Int /\ v[1] \in Int /\ v[2] \in Int
      /\ z[1] \in Int /\ z[2] \in Int
  BY DEF Plane
<1>2. /\ w1 \in Int /\ w2 \in Int /\ v1 \in Int /\ v2 \in Int
      /\ z1 \in Int /\ z2 \in Int
  BY <1>1 DEF Sides
<1>3. /\ w1 > 0 \/ (w1 = 0 /\ w2 > 0)
      /\ v1 > 0 \/ (v1 = 0 /\ v2 > 0)
      /\ z1 > 0 \/ (z1 = 0 /\ z2 > 0)
  BY <1>1 DEF Sides, Forward
<1>4. /\ Det(w, v) = w1 * v2 - w2 * v1
      /\ Det(v, z) = v1 * z2 - v2 * z1
      /\ Det(w, z) = w1 * z2 - w2 * z1
  <2>1. CASE side = 1
    BY <1>1, <2>1 DEF Det
  <2>2. CASE side = -1
    <3>1. /\ w1 = - w[1] /\ w2 = - w[2] /\ v1 = - v[1] /\ v2 = - v[2]
          /\ z1 = - z[1] /\ z2 = - z[2]
      BY <1>1, <2>2
    <3>2. \A m, n \in Int : (-m) * (-n) = m * n
      OBVIOUS
    <3>3. /\ w1 * v2 = w[1] * v[2] /\ w2 * v1 = w[2] * v[1]
          /\ v1 * z2 = v[1] * z[2] /\ v2 * z1 = v[2] * z[1]
          /\ w1 * z2 = w[1] * z[2] /\ w2 * z1 = w[2] * z[1]
      <4> HIDE DEF w1, w2, v1, v2, z1, z2
      <4> QED
        BY <1>1, <3>1, <3>2
    <3> HIDE DEF w1, w2, v1, v2, z1, z2
    <3> QED
      BY <3>3 DEF Det
  <2> QED
    BY <2>1, <2>2 DEF Sides
<1> HIDE DEF w1, w2, v1, v2, z1, z2
<1>5. w1 * v2 - w2 * v1 >= 0 /\ v1 * z2 - v2 * z1 >= 0
  BY <1>4
<1>6. /\ w1 * z2 - w2 * z1 >= 0
      /\ w1 * v2 - w2 * v1 > 0 \/ v1 * z2 - v2 * z1 > 0
               => w1 * z2 - w2 * z1 > 0
  BY <1>2, <1>3, <1>5, TurnsComposeRight
<1> QED
  BY <1>4, <1>6

\* The cross product that _convex_hull computes, by vectors
LEMMA CrossIsDet ==
  ASSUME NEW a \in Plane, NEW b \in Plane, NEW c \in Plane
  PROVE  /\ To(a, b) \in Plane
         /\ Cross(a, b, c) \in Int
         /\ Cross(a, b, c) = Det(To(a, b), To(b, c))
         /\ Cross(a, b, c) = Det(To(c, b), To(a, b))
         /\ Cross(a, b, c) = Det(To(a, b), To(a, c))
         /\ Cross(a, b, c) = Cross(b, c, a)
         /\ Cross(a, b, c) = - Cross(a, c, b)
         /\ Cross(a, b, a) = 0 /\ Cross(a, b, b) = 0
<1>1. /\ a[1] \in Int /\ a[2] \in Int /\ b[1] \in Int /\ b[2] \in Int
      /\ c[1] \in Int /\ c[2] \in Int
  BY DEF Plane
<1>2. /\ To(a, b)[1] = b[1] - a[1] /\ To(a, b)[2] = b[2] - a[2]
      /\ To(b, c)[1] = c[1] - b[1] /\ To(b, c)[2] = c[2] - b[2]
      /\ To(c, b)[1] = b[1] - c[1] /\ To(c, b)[2] = b[2] - c[2]
      /\ To(a, c)[1] = c[1] - a[1] /\ To(a, c)[2] = c[2] - a[2]
  BY DEF To
<1>3. To(a, b) \in Plane
  BY <1>1 DEF To, Plane
<1> QED
  BY <1>1, <1>2, <1>3 DEF Cross, Det

\* The same turn seen from its next corner
LEMMA CrossTurns ==
  ASSUME NEW a \in Plane, NEW b \in Plane, NEW c \in Plane
  PROVE  Cross(a, b, c) \in Int /\ Cross(a, b, c) = Cross(b, c, a)
BY CrossIsDet

\* How far two points are apart as seen from a line
LEMMA CrossDifference ==
  ASSUME NEW a \in Plane, NEW b \in Plane, NEW s \in Plane, NEW t \in Plane
  PROVE  /\ Det(To(a, b), To(s, t)) = Cross(a, b, t) - Cross(a, b, s)
         /\ Det(To(s, t), To(a, b)) = Cross(a, b, s) - Cross(a, b, t)
<1>1. /\ a[1] \in Int /\ a[2] \in Int /\ b[1] \in Int /\ b[2] \in Int
      /\ s[1] \in Int /\ s[2] \in Int /\ t[1] \in Int /\ t[2] \in Int
  BY DEF Plane
<1>2. /\ To(a, b)[1] = b[1] - a[1] /\ To(a, b)[2] = b[2] - a[2]
      /\ To(s, t)[1] = t[1] - s[1] /\ To(s, t)[2] = t[2] - s[2]
  BY DEF To
<1> QED
  BY <1>1, <1>2 DEF Cross, Det

\* A chain that turns left at b does so for all before b that are not right of
\* the edge it comes from.
LEMMA Pivot ==
  ASSUME NEW side \in Sides,
         NEW q \in Plane, NEW a \in Plane, NEW b \in Plane, NEW p \in Plane,
         Ahead(side, q, b), Ahead(side, a, b), Ahead(side, b, p),
         Cross(a, b, q) >= 0, Cross(a, b, p) > 0
  PROVE  Cross(q, b, p) > 0
<1>1. To(q, b) \in Plane /\ To(a, b) \in Plane /\ To(b, p) \in Plane
  BY CrossIsDet
<1>2. Det(To(q, b), To(a, b)) >= 0 /\ Det(To(a, b), To(b, p)) > 0
  BY CrossIsDet
<1>f. Forward(side, To(q, b)) /\ Forward(side, To(a, b)) /\ Forward(side, To(b, p))
  BY DEF Ahead
<1>3. Det(To(q, b), To(b, p)) > 0
  BY <1>1, <1>2, <1>f, DetIsInt, TurnsCompose
<1> QED
  BY <1>3, CrossIsDet

\* Two left turns one after the other
LEMMA Onwards ==
  ASSUME NEW side \in Sides,
         NEW a \in Plane, NEW b \in Plane, NEW c \in Plane, NEW p \in Plane,
         Ahead(side, a, b), Ahead(side, b, c), Ahead(side, c, p),
         Cross(a, b, c) > 0, Cross(b, c, p) > 0
  PROVE  Cross(a, b, p) > 0
<1>1. To(a, b) \in Plane /\ To(b, c) \in Plane /\ To(c, p) \in Plane
  BY CrossIsDet
<1>2. Det(To(a, b), To(b, c)) > 0 /\ Det(To(b, c), To(c, p)) > 0
  BY CrossIsDet
<1>f. Forward(side, To(a, b)) /\ Forward(side, To(b, c)) /\ Forward(side, To(c, p))
  BY DEF Ahead
<1>3. Det(To(a, b), To(c, p)) > 0
  BY <1>1, <1>2, <1>f, DetIsInt, TurnsCompose
<1>4. /\ Det(To(a, b), To(c, p)) = Cross(a, b, p) - Cross(a, b, c)
      /\ Cross(a, b, p) \in Int /\ Cross(a, b, c) \in Int
  BY CrossDifference, CrossIsDet
<1> QED
  BY <1>3, <1>4

\* What is not right of b->c is not right of b->p, which lies right of it.
LEMMA Sideways ==
  ASSUME NEW side \in Sides,
         NEW b \in Plane, NEW c \in Plane, NEW p \in Plane, NEW q \in Plane,
         Ahead(side, b, c), Ahead(side, b, p), Ahead(side, b, q),
         Cross(b, c, q) >= 0, Cross(b, c, p) <= 0
  PROVE  Cross(b, p, q) >= 0
<1>1. To(b, c) \in Plane /\ To(b, p) \in Plane /\ To(b, q) \in Plane
  BY CrossIsDet
<1>2. Cross(b, p, c) = - Cross(b, c, p) /\ Cross(b, c, p) \in Int
  BY CrossIsDet
<1>3. Det(To(b, p), To(b, c)) >= 0 /\ Det(To(b, c), To(b, q)) >= 0
  BY <1>2, CrossIsDet
<1>f. Forward(side, To(b, p)) /\ Forward(side, To(b, c)) /\ Forward(side, To(b, q))
  BY DEF Ahead
<1>4. Det(To(b, p), To(b, q)) >= 0
  BY <1>1, <1>3, <1>f, TurnsCompose
<1> QED
  BY <1>4, CrossIsDet

\* A point left of the chord from s to t is left of every line that has neither
\* end on its right.
LEMMA LeftOfChord ==
  ASSUME NEW side \in Sides, NEW s \in Plane, NEW t \in Plane, NEW q \in Plane,
         NEW a \in Plane, NEW b \in Plane,
         Ahead(side, s, q), Ahead(side, q, t), Ahead(side, s, t), Ahead(side, a, b),
         Cross(a, b, s) >= 0, Cross(a, b, t) >= 0, Cross(s, t, q) > 0
  PROVE  Cross(a, b, q) > 0
<1>1. /\ To(s, q) \in Plane /\ To(q, t) \in Plane /\ To(s, t) \in Plane
      /\ To(a, b) \in Plane
      /\ Cross(a, b, s) \in Int /\ Cross(a, b, t) \in Int /\ Cross(a, b, q) \in Int
  BY CrossIsDet
<1>f. /\ Forward(side, To(s, q)) /\ Forward(side, To(q, t))
      /\ Forward(side, To(s, t)) /\ Forward(side, To(a, b))
  BY DEF Ahead
<1>2. CASE Cross(a, b, t) >= Cross(a, b, s)
  <2>1. Det(To(a, b), To(s, t)) >= 0
    BY <1>1, <1>2, CrossDifference
  <2>2. Det(To(s, t), To(s, q)) > 0
    BY CrossIsDet
  <2>3. Det(To(a, b), To(s, q)) > 0
    BY <1>1, <1>f, <2>1, <2>2, DetIsInt, TurnsCompose
  <2>4. Cross(a, b, q) - Cross(a, b, s) > 0
    BY <2>3, CrossDifference
  <2> QED
    BY <1>1, <2>4
<1>3. CASE Cross(a, b, t) < Cross(a, b, s)
  <2>1. Det(To(s, t), To(a, b)) > 0
    BY <1>1, <1>3, CrossDifference
  <2>2. Det(To(q, t), To(s, t)) > 0
    BY CrossIsDet
  <2>3. Det(To(q, t), To(a, b)) > 0
    BY <1>1, <1>f, <2>1, <2>2, DetIsInt, TurnsCompose
  <2>4. Cross(a, b, q) - Cross(a, b, t) > 0
    BY <2>3, CrossDifference
  <2> QED
    BY <1>1, <2>4
<1> QED
  BY <1>1, <1>2, <1>3

\* The order of the code's sort, and its reverse
LEMMA AheadOrders ==
  ASSUME NEW side \in Sides, NEW a \in Plane, NEW b \in Plane
  PROVE  /\ a = b \/ Ahead(side, a, b) \/ Ahead(side, b, a)
         /\ ~(Ahead(side, a, b) /\ Ahead(side, b, a))
         /\ ~Ahead(side, a, a)
         /\ Ahead(1, a, b) <=> LeftFirst(a, b)
         /\ Ahead(-1, a, b) <=> LeftFirst(b, a)
<1>1. /\ a[1] \in Int /\ a[2] \in Int /\ b[1] \in Int /\ b[2] \in Int
      /\ a = <<a[1], a[2]>> /\ b = <<b[1], b[2]>>
  BY DEF Plane
<1>2. /\ To(a, b)[1] = b[1] - a[1] /\ To(a, b)[2] = b[2] - a[2]
      /\ To(b, a)[1] = a[1] - b[1] /\ To(b, a)[2] = a[2] - b[2]
      /\ To(a, a)[1] = 0 /\ To(a, a)[2] = 0
  BY <1>1 DEF To
<1>3. a[1] = b[1] /\ a[2] = b[2] => a = b
  BY <1>1
<1> QED
  BY <1>1, <1>2, <1>3 DEF Ahead, Forward, LeftFirst, Sides

\* The corners of a buffer
Shifted(x, d) == <<x[1] + d[1], x[2] + d[2]>>
Opposite(d) == <<-d[1], -d[2]>>

\* A point is left of a line if no corner of its buffer is right of the line.
LEMMA BufferHoldsCentre ==
  ASSUME NEW side \in Sides, NEW a \in Plane, NEW b \in Plane, Ahead(side, a, b),
         NEW x \in Plane, NEW c \in Plane, NEW d \in Plane,
         c[1] * d[2] # c[2] * d[1],
         Cross(a, b, Shifted(x, c)) >= 0, Cross(a, b, Shifted(x, Opposite(c))) >= 0,
         Cross(a, b, Shifted(x, d)) >= 0, Cross(a, b, Shifted(x, Opposite(d))) >= 0
  PROVE  Cross(a, b, x) > 0
<1> DEFINE e1 == b[1] - a[1]
           e2 == b[2] - a[2]
           ec == e1 * c[2] - e2 * c[1]
           ed == e1 * d[2] - e2 * d[1]
<1>1. /\ a[1] \in Int /\ a[2] \in Int /\ b[1] \in Int /\ b[2] \in Int
      /\ c[1] \in Int /\ c[2] \in Int /\ d[1] \in Int /\ d[2] \in Int
      /\ x[1] \in Int /\ x[2] \in Int
  BY DEF Plane
<1>2. /\ Cross(a, b, Shifted(x, c)) = Cross(a, b, x) + ec
      /\ Cross(a, b, Shifted(x, Opposite(c))) = Cross(a, b, x) - ec
  BY <1>1 DEF Cross, Shifted, Opposite
<1>3. /\ Cross(a, b, Shifted(x, d)) = Cross(a, b, x) + ed
      /\ Cross(a, b, Shifted(x, Opposite(d))) = Cross(a, b, x) - ed
  BY <1>1 DEF Cross, Shifted, Opposite
<1>4. e1 # 0 \/ e2 # 0
  BY <1>1 DEF Ahead, Forward, To, Sides
<1>5. ec # 0 \/ ed # 0
  <2> DEFINE cd == c[1] * d[2] - c[2] * d[1]
  <2>1. cd \in Int /\ cd # 0
    BY <1>1
  <2>2. e1 * cd = c[1] * ed - d[1] * ec /\ e2 * cd = c[2] * ed - d[2] * ec
    BY <1>1
  <2>3. e1 \in Int /\ e2 \in Int /\ (e1 * cd # 0 \/ e2 * cd # 0)
    <3>1. e1 \in Int /\ e2 \in Int
      BY <1>1
    <3> HIDE DEF e1, e2, cd
    <3>2. \A m, n \in Int : m # 0 /\ n # 0 => m * n # 0
      OBVIOUS
    <3> QED
      BY <1>4, <2>1, <3>1, <3>2
  <2> SUFFICES ASSUME ec = 0, ed = 0 PROVE FALSE
    OBVIOUS
  <2>4. e1 * cd = 0 /\ e2 * cd = 0
    <3> HIDE DEF e1, e2, cd, ec, ed
    <3> QED
      BY <1>1, <2>2
  <2> QED
    BY <2>3, <2>4
<1>6. ec \in Int /\ ed \in Int
  BY <1>1
<1>7. Cross(a, b, x) \in Int
  BY CrossIsDet
<1> HIDE DEF ec, ed
<1> QED
  BY <1>2, <1>3, <1>5, <1>6, <1>7

-----------------------------------------------------------------------------
(* The chains of the hull *)

\* What is left of the chain when p is added: up to the last point at which the
\* chain turns left towards p.
LEMMA ExtendShape ==
  ASSUME NEW c \in Seq(Plane), Len(c) >= 1, NEW p \in Plane
  PROVE  \E r \in 1..Len(c) :
            /\ Extend(c, p) \in Seq(Plane)
            /\ Len(Extend(c, p)) = r + 1
            /\ \A k \in 1..r : Extend(c, p)[k] = c[k]
            /\ Extend(c, p)[r + 1] = p
            /\ r > 1 => Cross(c[r - 1], c[r], p) > 0
            /\ r < Len(c) => ~(Cross(c[r], c[r + 1], p) > 0)
<1> DEFINE m == Len(c)
           turns == {n \in 2..m : Cross(c[n - 1], c[n], p) > 0}
           least == Min({1, m})
           r == Max(turns \cup {least})
<1>0. m \in Nat /\ m >= 1 /\ c \in [1..m -> Plane]
  BY LenProperties
<1>1. least = 1
  <2>1. least \in {1, m} /\ least <= 1
    <3>1. \E x \in {1, m} : \A y \in {1, m} : x <= y
      BY <1>0
    <3> HIDE DEF m
    <3> QED
      BY <3>1 DEF Min
  <2> QED
    BY <1>0, <2>1
<1>2. r \in turns \cup {1} /\ \A y \in turns \cup {1} : r >= y
  <2>1. turns \cup {1} \in SUBSET (1..m) /\ turns \cup {1} # {}
    BY <1>0
  <2>2. \E x \in turns \cup {1} : \A y \in turns \cup {1} : x >= y
    <3> HIDE DEF turns, m
    <3> QED
      BY <1>0, <2>1, GreatestBelow
  <2> HIDE DEF turns, least
  <2> QED
    BY <1>1, <2>2 DEF Max
<1>3. r \in 1..m
  BY <1>0, <1>2
<1>4. Extend(c, p) = Append(SubSeq(c, 1, r), p)
  BY DEF Extend
<1>5. r > 1 => Cross(c[r - 1], c[r], p) > 0
  BY <1>2
<1>6. r < m => ~(Cross(c[r], c[r + 1], p) > 0)
  <2> SUFFICES ASSUME r < m, Cross(c[r], c[r + 1], p) > 0
               PROVE  FALSE
    OBVIOUS
  <2> HIDE DEF r
  <2>1. r + 1 \in 2..m /\ (r + 1) - 1 = r
    BY <1>0, <1>3
  <2>2. r + 1 \in turns
    BY <2>1
  <2>3. r >= r + 1
    BY <1>2, <2>2
  <2> QED
    BY <1>3, <2>3
<1> HIDE DEF r
<1> DEFINE d == SubSeq(c, 1, r)
<1>7. d \in Seq(Plane) /\ Len(d) = r /\ \A k \in 1..r : d[k] = c[k]
  <2>1. \A k \in 1..r : c[k] \in Plane
    BY <1>0, <1>3
  <2>2. 1 \in Int /\ r \in Int /\ 1 <= r /\ r - 1 + 1 = r
    BY <1>3
  <2>3. /\ d \in Seq(Plane)
        /\ Len(d) = IF 1 <= r THEN r - 1 + 1 ELSE 0
        /\ \A k \in 1..(r - 1 + 1) : d[k] = c[1 + k - 1]
    BY <2>1, <2>2, SubSeqProperties
  <2>4. \A k \in 1..r : 1 + k - 1 = k
    OBVIOUS
  <2> HIDE DEF d
  <2> QED
    BY <2>2, <2>3, <2>4
<1> HIDE DEF d
<1>8. /\ Append(d, p) \in Seq(Plane) /\ Len(Append(d, p)) = r + 1
      /\ \A k \in 1..r : Append(d, p)[k] = d[k]
      /\ Append(d, p)[r + 1] = p
  BY <1>7, <1>3
<1>9. Extend(c, p) = Append(d, p)
  BY <1>4 DEF d
<1> QED
  BY <1>3, <1>5, <1>6, <1>7, <1>8, <1>9

\* The points in the order of a side
Directed(side, s) ==
    /\ s \in Seq(Plane)
    /\ \A m, n \in 1..Len(s) : m < n => Ahead(side, s[m], s[n])

\* The chain is made of the points up to n, in their order, and spans them.
Spans(side, c, s, n) ==
    /\ c \in Seq(Plane) /\ Len(c) >= 1
    /\ c[1] = s[1] /\ c[Len(c)] = s[n]
    /\ \A k \in 1..Len(c) : \E t \in 1..n : c[k] = s[t]
    /\ \A k, l \in 1..Len(c) : k < l => Ahead(side, c[k], c[l])

\* The other corners are left of an edge.
Bends(c) ==
    \A k \in 1..Len(c) - 1, l \in 1..Len(c) :
        l # k /\ l # k + 1 => Cross(c[k], c[k + 1], c[l]) > 0

\* No point is right of an edge.
Covers(c, s, n) ==
    \A k \in 1..Len(c) - 1, t \in 1..n : Cross(c[k], c[k + 1], s[t]) >= 0

\* What is true of the chain after the first n points
ChainOK(side, c, s, n) == Spans(side, c, s, n) /\ Bends(c) /\ Covers(c, s, n)

\* The corners of a chain are points it has seen, in its direction.
LEMMA ChainSpans ==
  ASSUME NEW side, NEW c, NEW s, NEW n, ChainOK(side, c, s, n)
  PROVE  /\ c \in Seq(Plane) /\ Len(c) \in Nat /\ Len(c) >= 1
         /\ \A k \in 1..Len(c) : c[k] \in Plane
         /\ \A k, l \in 1..Len(c) : k < l => Ahead(side, c[k], c[l])
         /\ \A k \in 1..Len(c) : \E t \in 1..n : c[k] = s[t]
<1>1. c \in Seq(Plane) /\ Len(c) >= 1
  BY DEF ChainOK, Spans
<1>2. Len(c) \in Nat /\ \A k \in 1..Len(c) : c[k] \in Plane
  BY <1>1
<1> QED
  BY <1>1, <1>2 DEF ChainOK, Spans

\* A chain of one point
LEMMA ChainStarts ==
  ASSUME NEW side \in Sides, NEW s, Directed(side, s), Len(s) >= 1
  PROVE  ChainOK(side, Extend(<< >>, s[1]), s, 1)
<1>1. s[1] \in Plane /\ Len(s) \in Nat /\ 1 \in 1..Len(s)
  BY DEF Directed
<1> DEFINE p == s[1]
           c == Extend(<< >>, p)
<1>2. c = <<p>>
  <2> DEFINE turns == {n \in 2..Len(<< >>) : Cross(<< >>[n - 1], << >>[n], p) > 0}
             r == Max(turns \cup {Min({1, Len(<< >>)})})
  <2>1. turns = {}
    OBVIOUS
  <2>2. Min({1, Len(<< >>)}) = 0
    <3>1. {1, Len(<< >>)} = {0, 1}
      OBVIOUS
    <3>2. \E x \in {0, 1} : \A y \in {0, 1} : x <= y
      OBVIOUS
    <3>3. Min({0, 1}) = 0
      BY <3>2 DEF Min
    <3> QED
      BY <3>1, <3>3
  <2>3. r = 0
    <3>1. turns \cup {Min({1, Len(<< >>)})} = {0}
      BY <2>1, <2>2
    <3>2. Max({0}) = 0
      BY DEF Max
    <3> QED
      BY <3>1, <3>2
  <2>4. c = Append(SubSeq(<< >>, 1, r), p)
    BY DEF Extend
  <2>5. SubSeq(<< >>, 1, 0) = << >>
    BY SubSeqEmpty
  <2>6. Append(<< >>, p) = <<p>>
    OBVIOUS
  <2> HIDE DEF r, c, p
  <2> QED
    BY <2>3, <2>4, <2>5, <2>6
<1>3. <<p>> \in Seq(Plane) /\ Len(<<p>>) = 1 /\ <<p>>[1] = p
  BY <1>1
<1> HIDE DEF p
<1>4. p = s[1]
  BY DEF p
<1>5. Spans(side, <<p>>, s, 1)
  BY <1>3, <1>4 DEF Spans
<1>6. Bends(<<p>>) /\ Covers(<<p>>, s, 1)
  BY <1>3 DEF Bends, Covers
<1> QED
  BY <1>2, <1>5, <1>6 DEF ChainOK, p

\* The loop keeps the chain convex and all of the points on its left: to the
\* points before the last kept corner this is so by Pivot, to those after it by
\* Sideways, because the corners that were dropped did not turn left.
LEMMA ChainGrows ==
  ASSUME NEW side \in Sides, NEW s, Directed(side, s), NEW n \in 2..Len(s),
         NEW c, ChainOK(side, c, s, n - 1)
  PROVE  ChainOK(side, Extend(c, s[n]), s, n)
<1> DEFINE m == Len(c)
           p == s[n]
           d == Extend(c, p)
<1>1. /\ Len(s) \in Nat /\ n \in 1..Len(s) /\ n - 1 \in 1..Len(s)
      /\ \A t \in 1..n : t \in 1..Len(s) /\ s[t] \in Plane
  BY DEF Directed
<1>2. /\ c \in Seq(Plane) /\ m \in Nat /\ m >= 1
      /\ \A k \in 1..m : c[k] \in Plane
      /\ p \in Plane
  BY <1>1 DEF ChainOK, Spans
<1>3. PICK r \in 1..m :
        /\ d \in Seq(Plane)
        /\ Len(d) = r + 1
        /\ \A k \in 1..r : d[k] = c[k]
        /\ d[r + 1] = p
        /\ r > 1 => Cross(c[r - 1], c[r], p) > 0
        /\ r < m => ~(Cross(c[r], c[r + 1], p) > 0)
  <2> HIDE DEF p
  <2> QED
    BY <1>2, ExtendShape
<1>4. /\ \A k, l \in 1..m : k < l => Ahead(side, c[k], c[l])
      /\ \A k \in 1..m : \E t \in 1..n - 1 : c[k] = s[t]
      /\ c[1] = s[1] /\ c[m] = s[n - 1]
  BY DEF ChainOK, Spans
<1>5. /\ \A k \in 1..m - 1, l \in 1..m :
            l # k /\ l # k + 1 => Cross(c[k], c[k + 1], c[l]) > 0
      /\ \A k \in 1..m - 1, t \in 1..n - 1 : Cross(c[k], c[k + 1], s[t]) >= 0
  BY DEF ChainOK, Bends, Covers
<1>6. \A t \in 1..n - 1 : Ahead(side, s[t], p)
  BY <1>1 DEF Directed
<1>7. \A k \in 1..m : Ahead(side, c[k], p)
  BY <1>4, <1>6
<1> HIDE DEF m, p, d
\* Points not after c[r]: the chain turns left towards p at c[r].
<1>8. ASSUME r > 1, NEW t \in 1..n - 1, Ahead(side, s[t], c[r])
      PROVE  Cross(s[t], c[r], p) > 0
  <2>1. r - 1 \in 1..m - 1 /\ r - 1 \in 1..m /\ (r - 1) + 1 = r /\ r - 1 < r
    BY <1>2, <1>3, <1>8
  <2>2. Cross(c[r - 1], c[r], s[t]) >= 0 /\ Cross(c[r - 1], c[r], p) > 0
    BY <1>3, <1>5, <1>8, <2>1
  <2>3. Ahead(side, c[r - 1], c[r]) /\ Ahead(side, c[r], p)
    BY <1>4, <1>7, <2>1
  <2>4. s[t] \in Plane /\ c[r - 1] \in Plane /\ c[r] \in Plane
    BY <1>1, <1>2, <2>1
  <2> QED
    BY <1>2, <1>8, <2>2, <2>3, <2>4, Pivot
<1>9. ASSUME NEW l \in 1..r - 1
      PROVE  Cross(c[l], c[r], p) > 0
  <2>0. l \in 1..m /\ l < r /\ r > 1
    BY <1>2, <1>3
  <2>1. PICK t \in 1..n - 1 : c[l] = s[t]
    BY <1>4, <2>0
  <2>2. Ahead(side, c[l], c[r])
    BY <1>4, <2>0
  <2> QED
    BY <2>0, <2>1, <2>2, <1>8
<1>10. ASSUME NEW k \in 1..r - 1
       PROVE  Cross(c[k], c[k + 1], p) > 0
  <2>1. CASE k = r - 1
    BY <1>3, <2>1
  <2>2. CASE k # r - 1
    <3>1. /\ k + 1 \in 1..r - 1 /\ k \in 1..m /\ k + 1 \in 1..m /\ k \in 1..m - 1
          /\ k < k + 1 /\ k + 1 < r /\ r # k /\ r # k + 1
      BY <1>2, <2>2
    <3>2. Cross(c[k], c[k + 1], c[r]) > 0 /\ Cross(c[k + 1], c[r], p) > 0
      BY <1>5, <1>9, <3>1
    <3>3. /\ Ahead(side, c[k], c[k + 1]) /\ Ahead(side, c[k + 1], c[r])
          /\ Ahead(side, c[r], p)
      BY <1>4, <1>7, <3>1
    <3>4. c[k] \in Plane /\ c[k + 1] \in Plane /\ c[r] \in Plane
      BY <1>2, <3>1
    <3> QED
      BY <1>2, <3>2, <3>3, <3>4, Onwards
  <2> QED
    BY <2>1, <2>2
\* No point is right of the new edge.
<1>11. ASSUME NEW t \in 1..n
       PROVE  Cross(c[r], p, s[t]) >= 0
  <2>1. c[r] \in Plane /\ s[t] \in Plane /\ Ahead(side, c[r], p)
    BY <1>1, <1>2, <1>7
  <2>2. CASE s[t] = p \/ s[t] = c[r]
    BY <1>2, <2>1, <2>2, CrossIsDet
  <2>3. CASE s[t] # p /\ Ahead(side, s[t], c[r])
    <3>1. t \in 1..n - 1
      BY <1>1, <2>3 DEF p
    <3>2. r > 1
      <4> SUFFICES ASSUME r = 1 PROVE FALSE
        OBVIOUS
      <4>1. Ahead(side, s[t], s[1])
        BY <1>4, <2>3
      <4>2. t = 1 \/ Ahead(side, s[1], s[t])
        BY <1>1 DEF Directed
      <4>3. s[1] \in Plane /\ s[t] \in Plane
        BY <1>1
      <4> QED
        BY <4>1, <4>2, <4>3, AheadOrders
    <3>3. Cross(s[t], c[r], p) > 0
      BY <1>8, <2>3, <3>1, <3>2
    <3>4. Cross(s[t], c[r], p) = Cross(c[r], p, s[t])
      BY <1>2, <2>1, CrossTurns, Zenon
    <3>5. Cross(c[r], p, s[t]) \in Int
      BY <1>2, <2>1, CrossTurns, Zenon
    <3> QED
      BY <3>3, <3>4, <3>5
  <2>4. CASE s[t] # p /\ Ahead(side, c[r], s[t])
    <3>1. t \in 1..n - 1
      BY <1>1, <2>4 DEF p
    <3>2. r < m
      <4> SUFFICES ASSUME r = m PROVE FALSE
        BY <1>2, <1>3
      <4>1. Ahead(side, s[n - 1], s[t])
        BY <1>4, <2>4
      <4>2. t = n - 1 \/ Ahead(side, s[t], s[n - 1])
        BY <1>1, <3>1 DEF Directed
      <4>3. s[n - 1] \in Plane /\ s[t] \in Plane
        BY <1>1
      <4> QED
        BY <4>1, <4>2, <4>3, AheadOrders
    <3>3. r \in 1..m - 1 /\ r + 1 \in 1..m
      BY <1>2, <3>2
    <3>4. Cross(c[r], c[r + 1], s[t]) >= 0 /\ c[r + 1] \in Plane
      BY <1>2, <1>5, <3>1, <3>3
    <3>5. Cross(c[r], c[r + 1], p) <= 0
      <4>1. Cross(c[r], c[r + 1], p) \in Int
        BY <1>2, <2>1, <3>4, CrossIsDet
      <4> QED
        BY <1>3, <3>2, <4>1
    <3>6. Ahead(side, c[r], c[r + 1])
      BY <1>4, <3>3
    <3> QED
      BY <1>2, <2>1, <2>4, <3>4, <3>5, <3>6, Sideways
  <2> QED
    BY <2>1, <2>2, <2>3, <2>4, AheadOrders
<1>12. Spans(side, d, s, n)
  <2>1. d[1] = s[1] /\ d[Len(d)] = s[n] /\ Len(d) >= 1
    BY <1>2, <1>3, <1>4 DEF p
  <2>2. ASSUME NEW k \in 1..Len(d) PROVE \E t \in 1..n : d[k] = s[t]
    <3>1. CASE k = r + 1
      BY <1>1, <1>3, <3>1 DEF p
    <3>2. CASE k # r + 1
      <4>1. k \in 1..r
        BY <1>3, <3>2
      <4>2. k \in 1..m /\ d[k] = c[k]
        BY <1>2, <1>3, <4>1
      <4>3. PICK t \in 1..n - 1 : c[k] = s[t]
        BY <1>4, <4>2
      <4> QED
        BY <1>1, <4>2, <4>3
    <3> QED
      BY <3>1, <3>2
  <2>3. ASSUME NEW k \in 1..Len(d), NEW l \in 1..Len(d), k < l
        PROVE  Ahead(side, d[k], d[l])
    <3>1. k \in 1..m /\ d[k] = c[k]
      BY <1>2, <1>3, <2>3
    <3>2. CASE l = r + 1
      BY <1>3, <1>7, <3>1, <3>2
    <3>3. CASE l # r + 1
      <4>1. l \in 1..m /\ d[l] = c[l]
        BY <1>2, <1>3, <3>3
      <4> QED
        BY <1>4, <2>3, <3>1, <4>1
    <3> QED
      BY <3>2, <3>3
  <2> QED
    BY <1>3, <2>1, <2>2, <2>3 DEF Spans
<1>13. ASSUME NEW k \in 1..Len(d) - 1
       PROVE  \/ k \in 1..r - 1 /\ k \in 1..m - 1 /\ d[k] = c[k] /\ d[k + 1] = c[k + 1]
              \/ k = r /\ d[k] = c[r] /\ d[k + 1] = p
  BY <1>2, <1>3
<1>14. Bends(d)
  <2> SUFFICES ASSUME NEW k \in 1..Len(d) - 1, NEW l \in 1..Len(d), l # k, l # k + 1
               PROVE  Cross(d[k], d[k + 1], d[l]) > 0
    BY DEF Bends
  <2>1. CASE l = r + 1
    <3>1. k \in 1..r - 1 /\ d[k] = c[k] /\ d[k + 1] = c[k + 1] /\ d[l] = p
      BY <1>3, <1>13, <2>1
    <3> QED
      BY <1>10, <3>1
  <2>2. CASE l # r + 1
    <3>1. l \in 1..r /\ l \in 1..m /\ d[l] = c[l]
      BY <1>2, <1>3, <2>2
    <3>2. CASE k = r
      <4>1. l \in 1..r - 1
        BY <3>1, <3>2
      <4>2. Cross(c[l], c[r], p) > 0 /\ c[l] \in Plane /\ c[r] \in Plane
        BY <1>2, <1>9, <3>1, <4>1
      <4>3. Cross(c[r], p, c[l]) > 0
        <5>1. Cross(c[l], c[r], p) = Cross(c[r], p, c[l])
          BY <1>2, <4>2, CrossTurns, Zenon
        <5> QED
          BY <4>2, <5>1
      <4>4. d[k] = c[r] /\ d[k + 1] = p
        BY <1>3, <3>2
      <4> QED
        BY <3>1, <4>3, <4>4
    <3>3. CASE k # r
      BY <1>5, <1>13, <3>1, <3>3
    <3> QED
      BY <3>2, <3>3
  <2> QED
    BY <2>1, <2>2
<1>15. Covers(d, s, n)
  <2> SUFFICES ASSUME NEW k \in 1..Len(d) - 1, NEW t \in 1..n
               PROVE  Cross(d[k], d[k + 1], s[t]) >= 0
    BY DEF Covers
  <2>1. CASE k = r
    BY <1>11, <1>13, <2>1
  <2>2. CASE k # r
    <3>1. k \in 1..r - 1 /\ k \in 1..m - 1 /\ d[k] = c[k] /\ d[k + 1] = c[k + 1]
      BY <1>13, <2>2
    <3>2. CASE t = n
      <4>1. Cross(c[k], c[k + 1], p) > 0
        BY <1>10, <3>1
      <4>2. Cross(c[k], c[k + 1], p) \in Int
        <5>1. c[k] \in Plane /\ c[k + 1] \in Plane
          BY <1>2, <3>1
        <5> QED
          BY <1>2, <5>1, CrossIsDet
      <4> QED
        BY <3>1, <3>2, <4>1, <4>2 DEF p
    <3>3. CASE t # n
      <4>1. t \in 1..n - 1
        BY <3>3
      <4> QED
        BY <1>5, <3>1, <4>1
    <3> QED
      BY <3>2, <3>3
  <2> QED
    BY <2>1, <2>2
<1> QED
  BY <1>12, <1>14, <1>15 DEF ChainOK, d, p

\* Chain adds the points one after the other.
LEMMA ChainSteps ==
  ASSUME NEW s, Len(s) \in Nat
  PROVE  \E f : /\ f[0] = << >>
                /\ \A k \in 1..Len(s) : f[k] = Extend(f[k - 1], s[k])
                /\ Chain(s) = f[Len(s)]
<1> DEFINE Built(f, n) ==
             f = [k \in 0..n |-> IF k = 0 THEN << >> ELSE Extend(f[k - 1], s[k])]
           Buildable == {n \in Nat : \E f : Built(f, n)}
<1>1. 0 \in Buildable
  <2> DEFINE f == [k \in 0..0 |-> << >>]
  <2>1. \A k \in 0..0 : k = 0
    OBVIOUS
  <2>2. Built(f, 0)
    BY <2>1
  <2> QED
    BY <2>2
<1>2. ASSUME NEW n \in Nat, n \in Buildable
      PROVE  n + 1 \in Buildable
  <2>1. PICK f : Built(f, n)
    BY <1>2
  <2> DEFINE g == [k \in 0..n + 1 |->
                      IF k = n + 1 THEN Extend(f[n], s[n + 1]) ELSE f[k]]
  <2>2. ASSUME NEW k \in 0..n + 1
        PROVE  g[k] = IF k = 0 THEN << >> ELSE Extend(g[k - 1], s[k])
    <3>1. CASE k = n + 1
      <4>1. k # 0 /\ k - 1 = n /\ k - 1 \in 0..n + 1 /\ k - 1 # n + 1
        BY <3>1
      <4>2. g[k - 1] = f[n]
        BY <4>1
      <4> QED
        BY <3>1, <4>1, <4>2
    <3>2. CASE k # n + 1
      <4>1. k \in 0..n /\ (k # 0 => k - 1 \in 0..n + 1 /\ k - 1 # n + 1)
        BY <3>2
      <4>2. f[k] = IF k = 0 THEN << >> ELSE Extend(f[k - 1], s[k])
        BY <2>1, <4>1
      <4> QED
        BY <3>2, <4>1, <4>2
    <3> QED
      BY <3>1, <3>2
  <2>3. Built(g, n + 1)
    <3>1. g = [k \in 0..n + 1 |-> g[k]]
      OBVIOUS
    <3> HIDE DEF g
    <3> QED
      BY <2>2, <3>1
  <2> HIDE DEF g, Built
  <2> QED
    BY <2>3
<1>3. Nat \subseteq Buildable
  <2> HIDE DEF Buildable
  <2> QED
    BY <1>1, <1>2, SetInduction
<1>4. PICK h : Built(h, Len(s))
  BY <1>3
<1>5. PICK f : Built(f, Len(s)) /\ Chain(s) = f[Len(s)]
  BY <1>4 DEF Chain
<1>6. f[0] = << >> /\ \A k \in 1..Len(s) : f[k] = Extend(f[k - 1], s[k])
  BY <1>5
<1> QED
  BY <1>5, <1>6

\* The chain of all points
LEMMA ChainHolds ==
  ASSUME NEW side \in Sides, NEW s, Directed(side, s), Len(s) >= 1
  PROVE  ChainOK(side, Chain(s), s, Len(s))
<1>1. Len(s) \in Nat
  BY DEF Directed
<1>2. PICK f : /\ f[0] = << >>
               /\ \A k \in 1..Len(s) : f[k] = Extend(f[k - 1], s[k])
               /\ Chain(s) = f[Len(s)]
  BY <1>1, ChainSteps
<1> DEFINE Good == {n \in Nat : n >= 1 /\ n <= Len(s) => ChainOK(side, f[n], s, n)}
<1>3. 0 \in Good
  OBVIOUS
<1>4. ASSUME NEW n \in Nat, n \in Good
      PROVE  n + 1 \in Good
  <2> SUFFICES ASSUME n + 1 <= Len(s)
               PROVE  ChainOK(side, f[n + 1], s, n + 1)
    OBVIOUS
  <2>1. n + 1 \in 1..Len(s) /\ (n + 1) - 1 = n
    BY <1>1
  <2>2. f[n + 1] = Extend(f[n], s[n + 1])
    BY <1>2, <2>1
  <2>3. CASE n = 0
    <3>1. ChainOK(side, Extend(<< >>, s[1]), s, 1)
      BY ChainStarts
    <3> QED
      BY <1>2, <2>2, <2>3, <3>1
  <2>4. CASE n # 0
    <3>1. n + 1 \in 2..Len(s)
      BY <1>1, <2>4
    <3>2. ChainOK(side, f[n], s, (n + 1) - 1)
      BY <1>4, <2>1, <2>4
    <3> QED
      BY <2>2, <3>1, <3>2, ChainGrows
  <2> QED
    BY <2>3, <2>4
<1>5. Nat \subseteq Good
  <2> HIDE DEF Good
  <2> QED
    BY <1>3, <1>4, SetInduction
<1> QED
  BY <1>1, <1>2, <1>5

-----------------------------------------------------------------------------
(* The hull *)

\* sorted(set(points))
LEMMA PointsSorted ==
  ASSUME NEW P \in SUBSET Plane, IsFiniteSet(P)
  PROVE  /\ Directed(1, InOrder(P, LeftFirst))
         /\ Len(InOrder(P, LeftFirst)) = Cardinality(P)
         /\ \A x \in P : \E t \in 1..Cardinality(P) : InOrder(P, LeftFirst)[t] = x
         /\ \A t \in 1..Cardinality(P) : InOrder(P, LeftFirst)[t] \in P
<1> DEFINE R == {p \in P \X P : LeftFirst(p[1], p[2])}
           N == Cardinality(P)
           s == InOrder(P, LeftFirst)
<1>1. \A x, y \in P : <<x, y>> \in R <=> LeftFirst(x, y)
  OBVIOUS
<1>2. Orders(R, P)
  <2>1. \A x \in P : x[1] \in Int /\ x[2] \in Int /\ x = <<x[1], x[2]>>
    BY DEF Plane
  <2>2. \A x \in P : <<x, x>> \notin R
    BY <1>1, <2>1 DEF LeftFirst
  <2>3. ASSUME NEW x \in P, NEW y \in P, x # y
        PROVE  <<x, y>> \in R \/ <<y, x>> \in R
    <3>1. x[1] # y[1] \/ x[2] # y[2]
      BY <2>1, <2>3
    <3> HIDE DEF R
    <3> QED
      BY <1>1, <2>1, <3>1 DEF LeftFirst
  <2>4. ASSUME NEW x \in P, NEW y \in P, NEW z \in P,
               <<x, y>> \in R, <<y, z>> \in R
        PROVE  <<x, z>> \in R
    <3> HIDE DEF R
    <3> QED
      BY <1>1, <2>1, <2>4 DEF LeftFirst
  <2> QED
    BY <2>2, <2>3, <2>4 DEF Orders
<1>3. \A x \in P : {y \in P : LeftFirst(y, x)} = Below(x, R, P)
  BY <1>1 DEF Below
<1> HIDE DEF R
<1>4. N \in Nat
  BY FS_CardinalityType
<1>5. s = [n \in 1..N |->
             CHOOSE x \in P : Cardinality({y \in P : LeftFirst(y, x)}) = n - 1]
  BY DEF InOrder
<1>6. ASSUME NEW n \in 1..N
      PROVE  s[n] \in P /\ Cardinality(Below(s[n], R, P)) = n - 1
  <2>1. \E x \in P : Cardinality(Below(x, R, P)) = n - 1
    BY <1>2, EveryPosition
  <2>2. \E x \in P : Cardinality({y \in P : LeftFirst(y, x)}) = n - 1
    BY <1>3, <2>1
  <2>3. s[n] = CHOOSE x \in P : Cardinality({y \in P : LeftFirst(y, x)}) = n - 1
    BY <1>5
  <2> HIDE DEF s
  <2>4. s[n] \in P /\ Cardinality({y \in P : LeftFirst(y, s[n])}) = n - 1
    BY <2>2, <2>3
  <2> QED
    BY <1>3, <2>4
<1> HIDE DEF s
<1>7. /\ \A m, n \in 1..N : m < n => <<s[m], s[n]>> \in R
      /\ \A x \in P : \E n \in 1..N : s[n] = x
  BY <1>2, <1>6, Enumeration
<1>8. s \in Seq(Plane) /\ Len(s) = N
  <2>1. s \in [1..N -> Plane]
    BY <1>5, <1>6
  <2> QED
    BY <1>4, <2>1
<1>9. ASSUME NEW m \in 1..Len(s), NEW n \in 1..Len(s), m < n
      PROVE  Ahead(1, s[m], s[n])
  <2>1. LeftFirst(s[m], s[n]) /\ s[m] \in Plane /\ s[n] \in Plane
    BY <1>1, <1>6, <1>7, <1>8, <1>9
  <2> QED
    BY <2>1, AheadOrders DEF Sides
<1> QED
  BY <1>6, <1>7, <1>8, <1>9 DEF Directed, s

\* The two sides are each other's reverse.
LEMMA Turned ==
  ASSUME NEW a \in Plane, NEW b \in Plane
  PROVE  Ahead(-1, a, b) <=> Ahead(1, b, a)
BY AheadOrders DEF Sides

\* reversed(unique_points)
LEMMA BackwardDirected ==
  ASSUME NEW s, Directed(1, s)
  PROVE  /\ Directed(-1, Reverse(s)) /\ Len(Reverse(s)) = Len(s)
         /\ \A k \in 1..Len(s) : /\ Len(s) - k + 1 \in 1..Len(s)
                                 /\ Reverse(s)[k] = s[Len(s) - k + 1]
<1> DEFINE N == Len(s)
           t == Reverse(s)
<1>1. N \in Nat /\ \A k \in 1..N : s[k] \in Plane
  BY DEF Directed
<1>2. t = [k \in 1..N |-> s[(N - k) + 1]]
  BY DEF Reverse
<1>3. \A k \in 1..N : N - k + 1 \in 1..N /\ t[k] = s[N - k + 1]
  BY <1>1, <1>2
<1>4. t \in Seq(Plane) /\ Len(t) = N
  <2>1. t \in [1..N -> Plane]
    BY <1>1, <1>2, <1>3
  <2> HIDE DEF t
  <2> QED
    BY <1>1, <2>1
<1>5. ASSUME NEW m \in 1..N, NEW n \in 1..N, m < n
      PROVE  Ahead(-1, t[m], t[n])
  <2>1. N - n + 1 < N - m + 1 /\ N - n + 1 \in 1..N /\ N - m + 1 \in 1..N
    BY <1>1, <1>5
  <2>2. Ahead(1, s[N - n + 1], s[N - m + 1])
    BY <2>1 DEF Directed
  <2> QED
    BY <1>1, <1>3, <2>1, <2>2, Turned
<1> HIDE DEF t
<1> QED
  BY <1>3, <1>4, <1>5 DEF Directed, t

\* The corner after the last one is the first one.
LEMMA NextCorner ==
  ASSUME NEW m \in Nat, NEW k \in 1..m
  PROVE  (k % m) + 1 = IF k = m THEN 1 ELSE k + 1
OBVIOUS

\* A corner between the first and the last one has one behind it.
LEMMA InnerCorner ==
  ASSUME NEW b \in Nat, NEW h \in 2..b - 1
  PROVE  /\ 1 \in 1..b /\ b \in 1..b /\ h \in 1..b /\ h - 1 \in 1..b
         /\ h - 1 \in 1..b - 1
         /\ h - 1 < h /\ 1 < h /\ h < b /\ (h - 1) + 1 = h /\ b # h /\ b # h - 1
OBVIOUS

\* An edge has two corners.
LEMMA EdgeCorners ==
  ASSUME NEW a \in Nat, NEW k \in 1..a - 1
  PROVE  k \in 1..a /\ k + 1 \in 1..a /\ k < k + 1
OBVIOUS

\* The inner corners of a chain are left of the edges of the other, which starts
\* where it ends: they are left of the chord between their ends.
LEMMA CornersLeft ==
  ASSUME NEW side \in Sides, NEW other \in Sides, other # side,
         NEW c, NEW s, ChainOK(side, c, s, Len(s)),
         NEW d, NEW t, ChainOK(other, d, t, Len(t)),
         Directed(side, s), Directed(other, t),
         c[1] = d[Len(d)], c[Len(c)] = d[1],
         \A k \in 1..Len(t) : \E n \in 1..Len(s) : t[k] = s[n],
         NEW k \in 1..Len(c) - 1, NEW h \in 2..Len(d) - 1
  PROVE  Cross(c[k], c[k + 1], d[h]) > 0
<1> DEFINE a == Len(c)
           b == Len(d)
           q == d[h]
<1>1. /\ c \in Seq(Plane) /\ a \in Nat /\ a >= 1
      /\ \A n \in 1..a : c[n] \in Plane
      /\ \A m, n \in 1..a : m < n => Ahead(side, c[m], c[n])
      /\ \A n \in 1..a : \E u \in 1..Len(s) : c[n] = s[u]
  <2>1. ChainOK(side, c, s, Len(s))
    OBVIOUS
  <2> QED
    BY ONLY <2>1, ChainSpans
<1>2. /\ d \in Seq(Plane) /\ b \in Nat /\ b >= 1
      /\ \A n \in 1..b : d[n] \in Plane
      /\ \A m, n \in 1..b : m < n => Ahead(other, d[m], d[n])
      /\ \A n \in 1..b : \E u \in 1..Len(t) : d[n] = t[u]
  <2>1. ChainOK(other, d, t, Len(t))
    OBVIOUS
  <2> QED
    BY ONLY <2>1, ChainSpans
<1>3. \A n \in 1..b : \E u \in 1..Len(s) : d[n] = s[u]
  <2> SUFFICES ASSUME NEW n \in 1..b PROVE \E u \in 1..Len(s) : d[n] = s[u]
    OBVIOUS
  <2>1. PICK u \in 1..Len(t) : d[n] = t[u]
    BY <1>2
  <2>2. PICK v \in 1..Len(s) : t[u] = s[v]
    OBVIOUS
  <2> QED
    BY <2>1, <2>2
<1>4. \A m \in 1..a - 1, n \in 1..b : Cross(c[m], c[m + 1], d[n]) >= 0
  BY <1>3 DEF ChainOK, Covers
<1>5. \A x, y \in Plane : Ahead(other, x, y) <=> Ahead(side, y, x)
  BY Turned DEF Sides
<1>6. /\ 1 \in 1..b /\ b \in 1..b /\ h \in 1..b /\ h - 1 \in 1..b /\ h - 1 \in 1..b - 1
      /\ h - 1 < h /\ 1 < h /\ h < b /\ (h - 1) + 1 = h /\ b # h /\ b # h - 1
  <2>1. h \in 2..b - 1 /\ b \in Nat
    BY <1>2
  <2> HIDE DEF b
  <2> QED
    BY <2>1, InnerCorner, Zenon
\* q is left of the chord from the last point of d to the first one.
<1>7. Cross(d[1], q, d[b]) > 0
  <2>1. Cross(d[h - 1], d[h], d[b]) > 0
    BY <1>6 DEF ChainOK, Bends
  <2>2. Cross(d[h - 1], d[h], d[1]) >= 0
    <3>1. PICK u \in 1..Len(t) : d[1] = t[u]
      BY <1>2, <1>6
    <3> QED
      BY <1>6, <3>1 DEF ChainOK, Covers
  <2>3. /\ Ahead(other, d[1], d[h]) /\ Ahead(other, d[h - 1], d[h])
        /\ Ahead(other, d[h], d[b])
    BY <1>2, <1>6
  <2>4. d[1] \in Plane /\ d[h - 1] \in Plane /\ d[h] \in Plane /\ d[b] \in Plane
    BY <1>2, <1>6
  <2> QED
    BY <2>1, <2>2, <2>3, <2>4, Pivot
<1>8. Cross(c[1], c[a], q) > 0
  <2>1. q \in Plane /\ d[1] \in Plane /\ d[b] \in Plane
    BY <1>2, <1>6
  <2>2. Cross(d[b], d[1], q) = Cross(d[1], q, d[b])
    BY <2>1, CrossTurns, Zenon
  <2> QED
    BY <1>7, <2>2
<1>9. /\ Ahead(side, c[1], q) /\ Ahead(side, q, c[a]) /\ Ahead(side, c[1], c[a])
      /\ Ahead(side, c[k], c[k + 1])
  <2>0. 1 < b
    BY <1>2, <1>6
  <2>1. /\ Ahead(other, q, d[b]) /\ Ahead(other, d[1], q) /\ Ahead(other, d[1], d[b])
        /\ q \in Plane /\ d[1] \in Plane /\ d[b] \in Plane
    <3> HIDE DEF b
    <3> QED
      BY <1>2, <1>6, <2>0
  <2>2. Ahead(side, c[k], c[k + 1])
    <3>1. k \in 1..a /\ k + 1 \in 1..a /\ k < k + 1
      BY <1>1, EdgeCorners, Zenon
    <3> HIDE DEF a
    <3> QED
      BY <1>1, <3>1
  <2> QED
    BY <1>5, <2>1, <2>2
<1>10. Cross(c[k], c[k + 1], c[1]) >= 0 /\ Cross(c[k], c[k + 1], c[a]) >= 0
  BY <1>4, <1>6
<1>11. /\ c[1] \in Plane /\ c[a] \in Plane /\ q \in Plane
       /\ c[k] \in Plane /\ c[k + 1] \in Plane
  <2>1. k \in 1..a /\ k + 1 \in 1..a
    BY <1>1, EdgeCorners, Zenon
  <2> QED
    BY <1>1, <1>2, <1>6, <2>1
<1> HIDE DEF a, q
<1>12. Cross(c[k], c[k + 1], q) > 0
  BY <1>8, <1>9, <1>10, <1>11, LeftOfChord
<1> QED
  BY <1>12 DEF q

\* lower[:-1] + upper[:-1]: a ring in which each edge is one of a chain
LEMMA RingOfChains ==
  ASSUME NEW c, NEW d, c \in Seq(Plane), d \in Seq(Plane), Len(c) >= 2, Len(d) >= 2,
         c[1] = d[Len(d)], c[Len(c)] = d[1]
  PROVE  LET ring == Front(c) \o Front(d)
             a == Len(c)
             b == Len(d)
         IN  /\ Len(ring) = a + b - 2 /\ DOMAIN ring = 1..a + b - 2
             /\ \A k \in 1..a - 1 : ring[k] = c[k]
             /\ \A k \in a..a + b - 2 : ring[k] = d[k - a + 1]
             /\ \A k \in 1..a - 1 : ring[(k % Len(ring)) + 1] = c[k + 1]
             /\ \A k \in a..a + b - 2 : ring[(k % Len(ring)) + 1] = d[k - a + 2]
<1> DEFINE a == Len(c)
           b == Len(d)
           e == Front(c)
           f == Front(d)
           ring == e \o f
           M == a + b - 2
<1>1. a \in Nat /\ b \in Nat /\ a >= 2 /\ b >= 2 /\ M \in Nat
  OBVIOUS
<1>2. e \in Seq(Plane) /\ Len(e) = a - 1 /\ \A k \in 1..a - 1 : e[k] = c[k]
  BY <1>1 DEF Front
<1>3. f \in Seq(Plane) /\ Len(f) = b - 1 /\ \A k \in 1..b - 1 : f[k] = d[k]
  BY <1>1 DEF Front
<1> HIDE DEF e, f
<1>4. /\ ring \in Seq(Plane) /\ Len(ring) = Len(e) + Len(f)
      /\ \A k \in 1..Len(e) + Len(f) :
            ring[k] = IF k <= Len(e) THEN e[k] ELSE f[k - Len(e)]
  <2>1. e \in Seq(Plane) /\ f \in Seq(Plane)
    BY <1>2, <1>3
  <2> QED
    BY <2>1, ConcatProperties, Zenon
<1> HIDE DEF ring, a, b
<1>5. Len(ring) = M /\ DOMAIN ring = 1..M
  <2>1. Len(ring) = (a - 1) + (b - 1)
    BY <1>2, <1>3, <1>4
  <2>2. Len(ring) = M
    BY <1>1, <2>1
  <2>3. DOMAIN ring = 1..Len(ring)
    BY <1>4
  <2> QED
    BY <2>2, <2>3
<1>6. \A k \in 1..a - 1 : ring[k] = c[k]
  <2> SUFFICES ASSUME NEW k \in 1..a - 1 PROVE ring[k] = c[k]
    OBVIOUS
  <2>1. e[k] = c[k]
    BY <1>2
  <2>2. k \in 1..Len(e) + Len(f) /\ k <= Len(e)
    BY ONLY <1>1, <1>2, <1>3, k \in 1..a - 1
  <2> QED
    BY <1>4, <2>1, <2>2
<1>7. \A k \in a..M : ring[k] = d[k - a + 1]
  <2> SUFFICES ASSUME NEW k \in a..M PROVE ring[k] = d[k - a + 1]
    OBVIOUS
  <2>1. k \in 1..Len(e) + Len(f) /\ ~(k <= Len(e)) /\ k - Len(e) = k - a + 1
        /\ k - a + 1 \in 1..b - 1
    BY <1>1, <1>2, <1>3
  <2>2. ring[k] = f[k - a + 1]
    BY <1>4, <2>1
  <2> QED
    BY <1>3, <2>1, <2>2
<1>8. ASSUME NEW k \in 1..M
      PROVE  ring[(k % M) + 1] = IF k = M THEN ring[1] ELSE ring[k + 1]
  <2>1. (k % M) + 1 = IF k = M THEN 1 ELSE k + 1
    BY <1>1, NextCorner
  <2> HIDE DEF M
  <2> QED
    BY <2>1
<1>9. ASSUME NEW k \in 1..a - 1
      PROVE  ring[(k % M) + 1] = c[k + 1]
  <2>1. k \in 1..M /\ k # M
    BY <1>1
  <2>2. CASE k = a - 1
    <3>1. k + 1 \in a..M /\ (k + 1) - a + 1 = 1 /\ k + 1 = a
      BY <1>1, <2>2
    <3>2. ring[k + 1] = d[1]
      BY <1>7, <3>1
    <3>3. d[1] = c[a]
      BY DEF a
    <3> QED
      BY <1>8, <2>1, <3>1, <3>2, <3>3
  <2>3. CASE k # a - 1
    <3>1. k + 1 \in 1..a - 1
      BY <1>1, <2>3
    <3> QED
      BY <1>6, <1>8, <2>1, <3>1
  <2> QED
    BY <2>2, <2>3
<1>10. ASSUME NEW k \in a..M
       PROVE  ring[(k % M) + 1] = d[k - a + 2]
  <2>1. k \in 1..M
    BY <1>1
  <2>2. CASE k = M
    <3>1. k - a + 2 = b /\ 1 \in 1..a - 1
      BY <1>1, <2>2
    <3>2. ring[1] = c[1] /\ c[1] = d[b]
      BY <1>6, <3>1 DEF b
    <3> QED
      BY <1>8, <2>1, <2>2, <3>1, <3>2
  <2>3. CASE k # M
    <3>1. k + 1 \in a..M /\ (k + 1) - a + 1 = k - a + 2
      BY <1>1, <2>3
    <3> QED
      BY <1>7, <1>8, <2>1, <2>3, <3>1
  <2> QED
    BY <2>2, <2>3
<1> QED
  <2>1. \A k \in 1..a - 1 : ring[(k % Len(ring)) + 1] = c[k + 1]
    BY <1>5, <1>9
  <2>2. \A k \in a..M : ring[(k % Len(ring)) + 1] = d[k - a + 2]
    BY <1>5, <1>10
  <2> QED
    BY <1>5, <1>6, <1>7, <2>1, <2>2, Zenon DEF ring, a, b, e, f

\* x lies inside of a buffer that is in P.
Buffered(x, P) ==
    \E c, d \in Plane :
        /\ c[1] * d[2] # c[2] * d[1]
        /\ Shifted(x, c) \in P /\ Shifted(x, Opposite(c)) \in P
        /\ Shifted(x, d) \in P /\ Shifted(x, Opposite(d)) \in P

\* Inside of a buffer means left of each line that has no point on its right.
LEMMA BufferedIsLeft ==
  ASSUME NEW side \in Sides, NEW a \in Plane, NEW b \in Plane, Ahead(side, a, b),
         NEW P, \A y \in P : Cross(a, b, y) >= 0,
         NEW x \in Plane, Buffered(x, P)
  PROVE  Cross(a, b, x) > 0
<1>1. PICK c \in Plane, d \in Plane :
        /\ c[1] * d[2] # c[2] * d[1]
        /\ Shifted(x, c) \in P /\ Shifted(x, Opposite(c)) \in P
        /\ Shifted(x, d) \in P /\ Shifted(x, Opposite(d)) \in P
  BY DEF Buffered
<1> QED
  BY <1>1, BufferHoldsCentre

\* A buffer has two corners at least.
LEMMA TwoCorners ==
  ASSUME NEW P \in SUBSET Plane, IsFiniteSet(P), NEW x \in Plane, Buffered(x, P)
  PROVE  Cardinality(P) \in Nat /\ Cardinality(P) >= 2
<1>1. PICK c \in Plane, d \in Plane :
        /\ c[1] * d[2] # c[2] * d[1]
        /\ Shifted(x, c) \in P /\ Shifted(x, Opposite(c)) \in P
  BY DEF Buffered
<1>2. /\ c[1] \in Int /\ c[2] \in Int /\ d[1] \in Int /\ d[2] \in Int
      /\ x[1] \in Int /\ x[2] \in Int
  BY DEF Plane
<1>3. c[1] # 0 \/ c[2] # 0
  BY <1>1, <1>2
<1> DEFINE y == Shifted(x, c)
           z == Shifted(x, Opposite(c))
<1>4. y # z
  <2>1. /\ y[1] = x[1] + c[1] /\ y[2] = x[2] + c[2]
        /\ z[1] = x[1] + (- c[1]) /\ z[2] = x[2] + (- c[2])
    BY DEF Shifted, Opposite
  <2> HIDE DEF y, z
  <2> QED
    BY <1>2, <1>3, <2>1
<1> HIDE DEF y, z
<1>5. IsFiniteSet({y, z}) /\ Cardinality({y, z}) = 2
  BY <1>4, Pairs
<1>6. {y, z} \subseteq P
  BY <1>1 DEF y, z
<1> QED
  BY <1>5, <1>6, FS_Subset, FS_CardinalityType

\* The ring is the hull of the points P: at least three of them, strictly convex,
\* with no point outside; and the points of D are strictly inside.
IsHull(ring, P, D) ==
    LET After(k) == (k % Len(ring)) + 1
        Inside(p, k) == Cross(ring[k], ring[After(k)], p) > 0
    IN  /\ Len(ring) >= 3
        /\ \A k \in DOMAIN ring :
              /\ ring[k] \in P
              /\ \A v \in DOMAIN ring : v \in {k, After(k)} \/ Inside(ring[v], k)
              /\ \A y \in P : Cross(ring[k], ring[After(k)], y) >= 0
              /\ \A x \in D : Inside(x, k)

\* The ring goes from the leftmost of the points P to the rightmost, and then back.
RunsAround(ring, P) ==
    /\ Len(ring) \in Nat /\ DOMAIN ring = 1..Len(ring)
    /\ \E turn \in DOMAIN ring :
          /\ \A k, l \in 1..turn : k <= l => ring[k][1] <= ring[l][1]
          /\ \A k, l \in turn..Len(ring) : k <= l => ring[l][1] <= ring[k][1]
          /\ \A y \in P : ring[1][1] <= y[1] /\ y[1] <= ring[turn][1]

\* One of two points of a chain is not right of the other.
LEMMA AheadRuns ==
  ASSUME NEW side \in Sides, NEW v \in Plane, NEW w \in Plane, Ahead(side, v, w)
  PROVE  (side = 1 => v[1] <= w[1]) /\ (side = -1 => w[1] <= v[1])
<1>1. v[1] \in Int /\ v[2] \in Int /\ w[1] \in Int /\ w[2] \in Int
  BY DEF Plane
<1> QED
  BY <1>1, AheadOrders DEF LeftFirst, Sides

\* _convex_hull returns the hull of any finite set of points that has points
\* strictly inside: the loops drop no corner and keep no other point, also not
\* one between two corners.
THEOREM HullIsConvex ==
  ASSUME NEW P \in SUBSET Plane, IsFiniteSet(P),
         NEW D \in SUBSET Plane, D # {}, \A x \in D : Buffered(x, P)
  PROVE  IsHull(ConvexHull(P), P, D) /\ RunsAround(ConvexHull(P), P)
<1> DEFINE N == Cardinality(P)
           s == InOrder(P, LeftFirst)
           t == Reverse(s)
           c == Chain(s)
           d == Chain(t)
           a == Len(c)
           b == Len(d)
           ring == Front(c) \o Front(d)
           M == a + b - 2
<1>1. N \in Nat /\ N >= 2
  BY TwoCorners
<1>2. /\ Directed(1, s) /\ Len(s) = N
      /\ \A x \in P : \E k \in 1..N : s[k] = x
      /\ \A k \in 1..N : s[k] \in P
  BY PointsSorted
<1>3. ConvexHull(P) = ring
  BY <1>1, <1>2 DEF ConvexHull
<1> HIDE DEF N, s, t
<1>4. /\ Directed(-1, t) /\ Len(t) = N
      /\ \A k \in 1..N : N - k + 1 \in 1..N /\ t[k] = s[N - k + 1]
  BY <1>2, BackwardDirected DEF t
<1>5. ChainOK(1, c, s, N) /\ ChainOK(-1, d, t, N)
  BY <1>1, <1>2, <1>4, ChainHolds DEF Sides
<1> HIDE DEF c, d
<1>6. /\ c \in Seq(Plane) /\ a \in Nat /\ a >= 1 /\ \A k \in 1..a : c[k] \in Plane
      /\ c[1] = s[1] /\ c[a] = s[N]
      /\ \A k \in 1..a - 1 : Ahead(1, c[k], c[k + 1])
  <2>1. /\ c \in Seq(Plane) /\ a \in Nat /\ a >= 1 /\ \A k \in 1..a : c[k] \in Plane
        /\ c[1] = s[1] /\ c[a] = s[N]
        /\ \A k, l \in 1..a : k < l => Ahead(1, c[k], c[l])
    BY <1>5 DEF ChainOK, Spans
  <2>2. \A k \in 1..a - 1 : k \in 1..a /\ k + 1 \in 1..a /\ k < k + 1
    BY <2>1
  <2> QED
    BY <2>1, <2>2
<1>7. /\ d \in Seq(Plane) /\ b \in Nat /\ b >= 1 /\ \A k \in 1..b : d[k] \in Plane
      /\ d[1] = t[1] /\ d[b] = t[N]
      /\ \A k \in 1..b - 1 : Ahead(-1, d[k], d[k + 1])
  <2>1. /\ d \in Seq(Plane) /\ b \in Nat /\ b >= 1 /\ \A k \in 1..b : d[k] \in Plane
        /\ d[1] = t[1] /\ d[b] = t[N]
        /\ \A k, l \in 1..b : k < l => Ahead(-1, d[k], d[l])
    BY <1>5 DEF ChainOK, Spans
  <2>2. \A k \in 1..b - 1 : k \in 1..b /\ k + 1 \in 1..b /\ k < k + 1
    BY <2>1
  <2> QED
    BY <2>1, <2>2
<1>8. c[1] = d[b] /\ c[a] = d[1]
  <2>1. 1 \in 1..N /\ N \in 1..N /\ N - 1 + 1 = N /\ N - N + 1 = 1
    BY <1>1
  <2>2. t[1] = s[N] /\ t[N] = s[1]
    BY ONLY <1>4, <2>1
  <2> QED
    BY ONLY <1>6, <1>7, <2>2
<1>9. a >= 2 /\ b >= 2
  <2>1. Ahead(1, s[1], s[N]) /\ s[1] \in Plane /\ s[N] \in Plane
    BY <1>1, <1>2 DEF Directed
  <2>2. s[1] # s[N]
    BY <2>1, AheadOrders DEF Sides
  <2>3. c[1] # c[a] /\ d[b] # d[1]
    BY <1>6, <1>8, <2>2
  <2> QED
    BY <1>6, <1>7, <2>3
<1>e. a \in Nat /\ b \in Nat /\ M \in Nat /\ a < M + 1
  BY <1>6, <1>7, <1>9
<1>10. \A k \in 1..N : (\E n \in 1..N : t[k] = s[n]) /\ (\E n \in 1..N : s[k] = t[n])
  <2> SUFFICES ASSUME NEW k \in 1..N
               PROVE  (\E n \in 1..N : t[k] = s[n]) /\ (\E n \in 1..N : s[k] = t[n])
    OBVIOUS
  <2>1. N - k + 1 \in 1..N /\ N - (N - k + 1) + 1 = k
    BY <1>1
  <2> QED
    BY <1>4, <2>1
\* No point is right of an edge.
<1>11. /\ \A k \in 1..a - 1 : \A y \in P : Cross(c[k], c[k + 1], y) >= 0
       /\ \A k \in 1..b - 1 : \A y \in P : Cross(d[k], d[k + 1], y) >= 0
  <2> SUFFICES ASSUME NEW y \in P
               PROVE  /\ \A k \in 1..a - 1 : Cross(c[k], c[k + 1], y) >= 0
                      /\ \A k \in 1..b - 1 : Cross(d[k], d[k + 1], y) >= 0
    OBVIOUS
  <2>1. PICK m \in 1..N : s[m] = y
    BY <1>2
  <2>2. PICK n \in 1..N : t[n] = y
    BY <1>10, <2>1
  <2> QED
    BY <1>5, <2>1, <2>2 DEF ChainOK, Covers
\* The corners of one chain are left of the edges of the other.
<1>12. /\ \A k \in 1..a - 1, h \in 2..b - 1 : Cross(c[k], c[k + 1], d[h]) > 0
       /\ \A k \in 1..b - 1, h \in 2..a - 1 : Cross(d[k], d[k + 1], c[h]) > 0
  <2>1. 1 \in Sides /\ -1 \in Sides /\ 1 # -1
    BY DEF Sides
  <2>2. ChainOK(1, c, s, Len(s)) /\ ChainOK(-1, d, t, Len(t))
    BY <1>2, <1>4, <1>5
  <2>3. /\ \A k \in 1..Len(t) : \E n \in 1..Len(s) : t[k] = s[n]
        /\ \A k \in 1..Len(s) : \E n \in 1..Len(t) : s[k] = t[n]
    BY <1>2, <1>4, <1>10
  <2>4. ASSUME NEW k \in 1..a - 1, NEW h \in 2..b - 1
        PROVE  Cross(c[k], c[k + 1], d[h]) > 0
    BY <1>2, <1>4, <1>8, <2>1, <2>2, <2>3, CornersLeft
  <2>5. ASSUME NEW k \in 1..b - 1, NEW h \in 2..a - 1
        PROVE  Cross(d[k], d[k + 1], c[h]) > 0
    BY <1>2, <1>4, <1>8, <2>1, <2>2, <2>3, CornersLeft
  <2> QED
    BY <2>4, <2>5
<1>13. /\ \A k \in 1..a - 1, l \in 1..a :
             l # k /\ l # k + 1 => Cross(c[k], c[k + 1], c[l]) > 0
       /\ \A k \in 1..b - 1, l \in 1..b :
             l # k /\ l # k + 1 => Cross(d[k], d[k + 1], d[l]) > 0
  BY <1>5 DEF ChainOK, Bends
<1>14. /\ \A x \in D, k \in 1..a - 1 : Cross(c[k], c[k + 1], x) > 0
       /\ \A x \in D, k \in 1..b - 1 : Cross(d[k], d[k + 1], x) > 0
  <2>1. ASSUME NEW x \in D, NEW k \in 1..a - 1
        PROVE  Cross(c[k], c[k + 1], x) > 0
    <3>1. c[k] \in Plane /\ c[k + 1] \in Plane /\ Ahead(1, c[k], c[k + 1])
      BY <1>6
    <3> QED
      BY <1>11, <3>1, BufferedIsLeft DEF Sides
  <2>2. ASSUME NEW x \in D, NEW k \in 1..b - 1
        PROVE  Cross(d[k], d[k + 1], x) > 0
    <3>1. d[k] \in Plane /\ d[k + 1] \in Plane /\ Ahead(-1, d[k], d[k + 1])
      BY <1>7
    <3> QED
      BY <1>11, <3>1, BufferedIsLeft DEF Sides
  <2> QED
    BY <2>1, <2>2
<1> DEFINE After(k) == (k % Len(ring)) + 1
<1>15. /\ Len(ring) = M /\ DOMAIN ring = 1..M
       /\ \A k \in 1..a - 1 : ring[k] = c[k]
       /\ \A k \in a..M : ring[k] = d[k - a + 1]
       /\ \A k \in 1..a - 1 : ring[After(k)] = c[k + 1]
       /\ \A k \in a..M : ring[After(k)] = d[k - a + 2]
  BY <1>6, <1>7, <1>8, <1>9, RingOfChains, Zenon
<1>16. \A k \in 1..M : After(k) = IF k = M THEN 1 ELSE k + 1
  <2>1. Len(ring) = M /\ M \in Nat
    BY <1>e, <1>15
  <2> HIDE DEF M, ring
  <2> QED
    BY <2>1, NextCorner
<1>17. Len(ring) >= 3
  <2> SUFFICES ASSUME a = 2, b = 2
               PROVE  FALSE
    <3>1. Len(ring) = M
      BY <1>15
    <3>2. a # 2 \/ b # 2 => M >= 3
      <4>1. a \in Nat /\ b \in Nat /\ a >= 2 /\ b >= 2
        BY <1>9, <1>e
      <4>2. a + b >= 5 => M >= 3
        BY <4>1
      <4> HIDE DEF a, b, M
      <4>3. a # 2 \/ b # 2 => a + b >= 5
        BY <4>1
      <4> QED
        BY <4>2, <4>3
    <3> HIDE DEF M, ring
    <3> QED
      BY <3>1, <3>2
  <2>1. PICK x \in D : TRUE
    OBVIOUS
  <2>2. Cross(c[1], c[2], x) > 0 /\ Cross(d[1], d[2], x) > 0
    BY <1>14
  <2>3. c[1] \in Plane /\ c[2] \in Plane /\ x \in Plane /\ d[1] = c[2] /\ d[2] = c[1]
    BY <1>6, <1>8
  <2>4. /\ Cross(c[2], c[1], x) = Cross(c[1], x, c[2])
        /\ Cross(c[1], x, c[2]) = - Cross(c[1], c[2], x)
        /\ Cross(c[1], c[2], x) \in Int
    BY <2>3, CrossIsDet
  <2> QED
    BY <2>2, <2>3, <2>4
<1> HIDE DEF After, ring
<1>18. ASSUME NEW k \in 1..M, NEW v \in 1..M, v # k, v # After(k)
       PROVE  Cross(ring[k], ring[After(k)], ring[v]) > 0
  <2>1. CASE k \in 1..a - 1
    <3>1. ring[k] = c[k] /\ ring[After(k)] = c[k + 1] /\ v # k + 1
      BY <1>6, <1>7, <1>9, <1>15, <1>16, <1>18, <2>1
    <3>2. CASE v \in 1..a - 1
      BY <1>13, <1>15, <1>18, <2>1, <3>1, <3>2
    <3>3. CASE v = a
      <4>1. ring[v] = c[a]
        BY <1>6, <1>7, <1>8, <1>9, <1>15, <3>3
      <4> QED
        BY <1>6, <1>13, <1>18, <2>1, <3>1, <3>3, <4>1
    <3>4. CASE v \in a + 1..M
      <4>1. v - a + 1 \in 2..b - 1 /\ v \in a..M
        BY <1>e, <3>4
      <4>2. ring[v] = d[v - a + 1]
        BY <1>15, <4>1
      <4> QED
        BY <1>12, <2>1, <3>1, <4>1, <4>2
    <3> QED
      BY <1>6, <1>7, <3>2, <3>3, <3>4
  <2>2. CASE k \in a..M
    <3> DEFINE h == k - a + 1
    <3>1. /\ h \in 1..b - 1 /\ ring[k] = d[h] /\ ring[After(k)] = d[h + 1]
          /\ (k # M => v # k + 1) /\ (k = M => v # 1)
      <4>1. k - a + 2 = h + 1 /\ h \in 1..b - 1
        BY <1>6, <1>7, <2>2
      <4>2. ring[k] = d[h] /\ ring[After(k)] = d[h + 1]
        BY <1>15, <2>2, <4>1
      <4> QED
        BY <1>16, <1>18, <4>1, <4>2
    <3>2. CASE v \in a..M
      <4> DEFINE l == v - a + 1
      <4>1. ring[v] = d[l] /\ l \in 1..b /\ l # h /\ l # h + 1
        <5>1. ring[v] = d[l]
          BY <1>15, <3>2
        <5>2. l \in 1..b /\ l # h /\ l # h + 1
          BY <1>6, <1>7, <1>18, <2>2, <3>1, <3>2
        <5> QED
          BY <5>1, <5>2
      <4> HIDE DEF l, h
      <4> QED
        BY <1>13, <3>1, <4>1
    <3>3. CASE v = 1
      <4>1. ring[v] = d[b] /\ b \in 1..b /\ b # h /\ b # h + 1
        <5>1. ring[v] = d[b]
          BY <1>6, <1>8, <1>9, <1>15, <3>3
        <5>2. b \in 1..b /\ b # h /\ b # h + 1
          BY <1>6, <1>7, <2>2, <3>1, <3>3
        <5> QED
          BY <5>1, <5>2
      <4> HIDE DEF h
      <4> QED
        BY <1>13, <3>1, <4>1
    <3>4. CASE v \in 2..a - 1
      <4>1. ring[v] = c[v]
        <5>1. v \in 1..a - 1
          BY <1>e, <3>4
        <5> QED
          BY <1>15, <5>1
      <4> HIDE DEF h
      <4> QED
        BY <1>12, <3>1, <3>4, <4>1
    <3> QED
      BY <1>6, <1>7, <3>2, <3>3, <3>4
  <2> QED
    BY <1>6, <1>7, <2>1, <2>2
<1>19. ASSUME NEW k \in 1..M, NEW x \in D
       PROVE  Cross(ring[k], ring[After(k)], x) > 0
  <2>1. CASE k \in 1..a - 1
    BY <1>14, <1>15, <2>1
  <2>2. CASE k \in a..M
    <3> DEFINE h == k - a + 1
    <3>1. k - a + 2 = h + 1 /\ h \in 1..b - 1
      BY <1>6, <1>7, <2>2
    <3>2. ring[k] = d[h] /\ ring[After(k)] = d[h + 1]
      BY <1>15, <2>2, <3>1
    <3> HIDE DEF h
    <3> QED
      BY <1>14, <3>1, <3>2
  <2> QED
    BY <1>6, <1>7, <2>1, <2>2
<1>20. ASSUME NEW k \in 1..M
       PROVE  /\ ring[k] \in P
              /\ \A y \in P : Cross(ring[k], ring[After(k)], y) >= 0
  <2>1. /\ \A n \in 1..a : \E m \in 1..N : c[n] = s[m]
        /\ \A n \in 1..b : \E m \in 1..N : d[n] = t[m]
    BY <1>5 DEF ChainOK, Spans
  <2>2. (\A n \in 1..a : c[n] \in P) /\ (\A n \in 1..b : d[n] \in P)
    <3>1. \A n \in 1..a : c[n] \in P
      BY <1>2, <2>1
    <3>2. ASSUME NEW n \in 1..b PROVE d[n] \in P
      <4>1. PICK m \in 1..N : d[n] = t[m]
        BY <2>1
      <4>2. N - m + 1 \in 1..N /\ t[m] = s[N - m + 1]
        BY <1>4
      <4> QED
        BY <1>2, <4>1, <4>2
    <3> QED
      BY <3>1, <3>2
  <2>3. CASE k \in 1..a - 1
    <3>1. k \in 1..a /\ ring[k] = c[k] /\ ring[After(k)] = c[k + 1]
      BY <1>e, <1>15, <2>3
    <3> QED
      BY <1>11, <2>2, <2>3, <3>1
  <2>4. CASE k \in a..M
    <3> DEFINE h == k - a + 1
    <3>1. k - a + 2 = h + 1 /\ h \in 1..b - 1 /\ h \in 1..b
      BY <1>6, <1>7, <2>4
    <3>2. ring[k] = d[h] /\ ring[After(k)] = d[h + 1]
      BY <1>15, <2>4, <3>1
    <3> HIDE DEF h
    <3> QED
      BY <1>11, <2>2, <3>1, <3>2
  <2> QED
    BY <1>6, <1>7, <2>3, <2>4
<1>21. IsHull(ring, P, D)
  <2> HIDE DEF M
  <2> QED
    BY <1>15, <1>17, <1>18, <1>19, <1>20 DEF IsHull, After
\* The lower chain runs to the right, and the upper one back.
<1>22. /\ \A k, l \in 1..a : k <= l => c[k][1] <= c[l][1]
       /\ \A k, l \in 1..b : k <= l => d[l][1] <= d[k][1]
  <2>1. 1 \in Sides /\ -1 \in Sides /\ 1 # -1
    BY DEF Sides
  <2>2. ASSUME NEW k \in 1..a, NEW l \in 1..a, k <= l
        PROVE  c[k][1] <= c[l][1]
    <3>1. c[k] \in Plane /\ c[l] \in Plane
      BY <1>6
    <3>2. CASE k = l
      <4>1. c[k][1] \in Int
        BY <3>1 DEF Plane
      <4> QED
        BY <3>2, <4>1
    <3>3. CASE k < l
      <4>1. Ahead(1, c[k], c[l])
        BY <1>5, <3>3 DEF ChainOK, Spans
      <4> QED
        BY <2>1, <3>1, <4>1, AheadRuns
    <3> QED
      BY <2>2, <3>2, <3>3
  <2>3. ASSUME NEW k \in 1..b, NEW l \in 1..b, k <= l
        PROVE  d[l][1] <= d[k][1]
    <3>1. d[k] \in Plane /\ d[l] \in Plane
      BY <1>7
    <3>2. CASE k = l
      <4>1. d[k][1] \in Int
        BY <3>1 DEF Plane
      <4> QED
        BY <3>2, <4>1
    <3>3. CASE k < l
      <4>1. Ahead(-1, d[k], d[l])
        BY <1>5, <3>3 DEF ChainOK, Spans
      <4> QED
        BY <2>1, <3>1, <4>1, AheadRuns
    <3> QED
      BY <2>3, <3>2, <3>3
  <2> QED
    BY <2>2, <2>3
<1>23. \A y \in P : c[1][1] <= y[1] /\ y[1] <= c[a][1]
  <2> SUFFICES ASSUME NEW y \in P
               PROVE  c[1][1] <= y[1] /\ y[1] <= c[a][1]
    OBVIOUS
  <2>1. PICK m \in 1..N : s[m] = y
    BY <1>2
  <2>2. 1 \in 1..N /\ N \in 1..N /\ s[1] \in Plane /\ s[N] \in Plane /\ y \in Plane
    BY <1>1, <1>2
  <2>3. (1 < m => Ahead(1, s[1], y)) /\ (m < N => Ahead(1, y, s[N]))
    BY <1>2, <2>1, <2>2 DEF Directed
  <2>4. /\ 1 < m => s[1][1] <= y[1]
        /\ m < N => y[1] <= s[N][1]
    BY <2>2, <2>3, AheadRuns DEF Sides
  <2>5. (m = 1 \/ 1 < m) /\ (m = N \/ m < N) /\ y[1] \in Int
    BY <1>1, <2>2 DEF Plane
  <2> QED
    BY <1>6, <2>1, <2>4, <2>5
<1>24. RunsAround(ring, P)
  <2>1. a \in 1..M /\ 1 \in 1..a - 1
    BY <1>9, <1>e
  <2>2. \A k \in 1..a : ring[k] = c[k]
    <3>1. a \in a..M /\ a - a + 1 = 1
      BY <1>e, <2>1
    <3>2. ring[a] = c[a]
      BY <1>8, <1>15, <3>1
    <3>3. \A k \in 1..a : k = a \/ k \in 1..a - 1
      BY <1>e
    <3> QED
      BY <1>15, <3>2, <3>3
  <2>3. ASSUME NEW k \in a..M, NEW l \in a..M, k <= l
        PROVE  ring[l][1] <= ring[k][1]
    <3>1. k - a + 1 \in 1..b /\ l - a + 1 \in 1..b /\ k - a + 1 <= l - a + 1
      BY <1>e, <2>3
    <3>2. ring[k] = d[k - a + 1] /\ ring[l] = d[l - a + 1]
      BY <1>15
    <3> QED
      BY <1>22, <3>1, <3>2
  <2>4. \A k, l \in 1..a : k <= l => ring[k][1] <= ring[l][1]
    BY <1>22, <2>2
  <2>5. \A y \in P : ring[1][1] <= y[1] /\ y[1] <= ring[a][1]
    <3>1. ring[1] = c[1] /\ ring[a] = c[a]
      BY <1>15, <2>1, <2>2
    <3> QED
      BY <1>23, <3>1
  <2> HIDE DEF M
  <2> QED
    BY <1>15, <1>e, <2>1, <2>3, <2>4, <2>5 DEF RunsAround
<1> QED
  BY <1>3, <1>21, <1>24 DEF ring
-----------------------------------------------------------------------------
(* Rounding moves a number by half a unit at most, and keeps the order. *)

LEMMA NearestIsNear ==
  ASSUME NEW n \in Nat, NEW unit \in Nat \ {0}
  PROVE  /\ Nearest(n, unit) \in Nat
         /\ 2 * (unit * Nearest(n, unit)) - 2 * n <= unit
         /\ 2 * n - 2 * (unit * Nearest(n, unit)) <= unit
<1> DEFINE below == n \div unit
           rest == n % unit
           twice == 2 * rest
<1>1. /\ below \in Nat /\ rest \in Nat /\ rest < unit
      /\ n = unit * below + rest
  OBVIOUS
<1>2. Nearest(n, unit) =
         IF twice > unit \/ (twice = unit /\ below % 2 = 1) THEN below + 1 ELSE below
  BY DEF Nearest
<1> HIDE DEF below, rest
<1>3. CASE Nearest(n, unit) = below /\ twice <= unit
  BY <1>1, <1>3
<1>4. CASE Nearest(n, unit) = below + 1 /\ twice >= unit
  <2>1. unit * (below + 1) = unit * below + unit
    BY <1>1
  <2> QED
    BY <1>1, <1>4, <2>1
<1> QED
  BY <1>1, <1>2, <1>3, <1>4

LEMMA RoundedIsNear ==
  ASSUME NEW n \in Int
  PROVE  LET r == FiveDecimals * Rounded(n, FiveDecimals)
         IN  /\ FiveDecimals \in Nat /\ FiveDecimals > 0
             /\ Rounded(n, FiveDecimals) \in Int /\ r \in Int
             /\ 2 * r - 2 * n <= FiveDecimals /\ 2 * n - 2 * r <= FiveDecimals
<1>1. FiveDecimals \in Nat \ {0}
  BY RoundingAssumption
<1>2. Magnitude(n) \in Nat /\ (n < 0 => Magnitude(n) = -n) /\ (~(n < 0) => Magnitude(n) = n)
  BY DEF Magnitude
<1> DEFINE m == Nearest(Magnitude(n), FiveDecimals)
<1>3. /\ m \in Nat
      /\ 2 * (FiveDecimals * m) - 2 * Magnitude(n) <= FiveDecimals
      /\ 2 * Magnitude(n) - 2 * (FiveDecimals * m) <= FiveDecimals
  BY <1>1, <1>2, NearestIsNear
<1>4. Rounded(n, FiveDecimals) = IF n < 0 THEN -m ELSE m
  BY DEF Rounded
<1> HIDE DEF m
<1>5. FiveDecimals * m \in Int /\ FiveDecimals * (-m) = -(FiveDecimals * m)
  BY <1>1, <1>3
<1> QED
  BY <1>1, <1>2, <1>3, <1>4, <1>5

LEMMA RoundedKeepsOrder ==
  ASSUME NEW n \in Int, NEW m \in Int, n <= m
  PROVE  FiveDecimals * Rounded(n, FiveDecimals) <= FiveDecimals * Rounded(m, FiveDecimals)
<1> DEFINE F == FiveDecimals
           r == Rounded(n, FiveDecimals)
           q == Rounded(m, FiveDecimals)
<1>1. /\ F \in Nat /\ F > 0 /\ r \in Int /\ q \in Int
      /\ 2 * (F * r) - 2 * n <= F /\ 2 * m - 2 * (F * q) <= F
      /\ F * r \in Int /\ F * q \in Int
  BY RoundedIsNear
<1>2. n = m => r = q
  OBVIOUS
<1> HIDE DEF F, r, q
<1>3. F * (q + 1) = F * q + F
  BY <1>1
<1>4. q + 1 <= r => F * (q + 1) <= F * r
  <2>1. F >= 0 /\ r - (q + 1) \in Int /\ F * (r - (q + 1)) = F * r - F * (q + 1)
    BY <1>1
  <2>2. q + 1 <= r => F * (r - (q + 1)) >= 0
    BY <1>1, <2>1, Signs
  <2> QED
    BY <1>1, <2>1, <2>2
<1>5. r <= q => F * r <= F * q
  <2>1. F >= 0 /\ q - r \in Int /\ F * (q - r) = F * q - F * r
    BY <1>1
  <2>2. r <= q => F * (q - r) >= 0
    BY <1>1, <2>1, Signs
  <2> QED
    BY <1>1, <2>1, <2>2
<1>6. r <= q
  <2> SUFFICES ASSUME q + 1 <= r
               PROVE  FALSE
    BY <1>1
  <2>1. F * q + F <= F * r
    BY <1>3, <1>4
  <2>2. n = m
    BY <1>1, <2>1
  <2> QED
    BY <1>1, <1>2, <2>2
<1> QED
  BY <1>5, <1>6 DEF F, r, q

-----------------------------------------------------------------------------
(* What rounding leaves of an edge *)

\* A point that is as far out as a buffer, in a direction n, is still out when it
\* was moved by half a step: the buffer is wider than a step.
LEMMA StillOutside ==
  ASSUME NEW step \in Nat, NEW w \in Int, NEW h \in Int, w > step, h > step,
         NEW n1 \in Int, NEW n2 \in Int, n1 # 0 \/ n2 # 0,
         NEW a1 \in Int, NEW a2 \in Int, NEW b1 \in Int, NEW b2 \in Int,
         2 * b1 - 2 * a1 <= step, 2 * a1 - 2 * b1 <= step,
         2 * b2 - 2 * a2 <= step, 2 * a2 - 2 * b2 <= step,
         n1 * a1 + n2 * a2 >= n1 * w, n1 * a1 + n2 * a2 >= -(n1 * w),
         n1 * a1 + n2 * a2 >= n2 * h, n1 * a1 + n2 * a2 >= -(n2 * h)
  PROVE  n1 * b1 + n2 * b2 > 0
<1> DEFINE s1 == 2 * b1 - 2 * a1
           s2 == 2 * b2 - 2 * a2
           out == n1 * a1 + n2 * a2
           reach == n1 * b1 + n2 * b2
<1>1. out \in Int /\ reach \in Int /\ 2 * reach = 2 * out + (n1 * s1 + n2 * s2)
  OBVIOUS
<1>2. ASSUME NEW n \in Int, NEW v \in Int, v > step, NEW s \in Int, s <= step, -step <= s,
             out >= n * v, out >= -(n * v)
      PROVE  /\ out + n * s >= 0 /\ n * s \in Int
             /\ n # 0 => out + n * s > 0
  <2>1. CASE n = 0
    BY <1>1, <1>2, <2>1
  <2>2. CASE n > 0
    <3>1. n * (v + s) > 0 /\ n * (v + s) = n * v + n * s /\ n * v \in Int /\ n * s \in Int
      BY ONLY <1>2, <2>2, Signs, step \in Nat
    <3> HIDE DEF out
    <3> QED
      BY <1>1, <1>2, <3>1
  <2>3. CASE n < 0
    <3>1. n * (s - v) > 0 /\ n * (s - v) = n * s - n * v /\ n * v \in Int /\ n * s \in Int
      <4>1. v - s > 0 /\ -n > 0 /\ v - s \in Int /\ -n \in Int
        BY <1>2, <2>3
      <4>2. (-n) * (v - s) > 0
        BY ONLY <4>1, Signs
      <4>3. (-n) * (v - s) = n * (s - v)
        BY <1>2
      <4> QED
        BY <1>2, <4>2, <4>3
    <3> HIDE DEF out
    <3> QED
      BY <1>1, <1>2, <3>1
  <2> QED
    BY <1>2, <2>1, <2>2, <2>3
<1>3. s1 \in Int /\ s1 <= step /\ -step <= s1 /\ s2 \in Int /\ s2 <= step /\ -step <= s2
  OBVIOUS
<1>4. out >= n1 * w /\ out >= -(n1 * w) /\ out >= n2 * h /\ out >= -(n2 * h)
  OBVIOUS
<1> HIDE DEF out, reach, s1, s2
<1>5. /\ out + n1 * s1 >= 0 /\ n1 * s1 \in Int /\ (n1 # 0 => out + n1 * s1 > 0)
      /\ out + n2 * s2 >= 0 /\ n2 * s2 \in Int /\ (n2 # 0 => out + n2 * s2 > 0)
  BY <1>2, <1>3, <1>4
<1>6. reach > 0
  BY <1>1, <1>5
<1> QED
  BY <1>6 DEF reach

\* x has a buffer in P that is wider than a step of the grid.
WideBuffer(x, P) ==
    \E w, h \in Int :
        /\ w > FiveDecimals /\ h > FiveDecimals
        /\ {<<x[1] + w, x[2]>>, <<x[1] - w, x[2]>>,
            <<x[1], x[2] + h>>, <<x[1], x[2] - h>>} \subseteq P

LEMMA WideIsBuffered ==
  ASSUME NEW x \in Plane, NEW P, WideBuffer(x, P)
  PROVE  Buffered(x, P)
<1>1. PICK w \in Int, h \in Int :
        /\ w > FiveDecimals /\ h > FiveDecimals
        /\ {<<x[1] + w, x[2]>>, <<x[1] - w, x[2]>>,
            <<x[1], x[2] + h>>, <<x[1], x[2] - h>>} \subseteq P
  BY DEF WideBuffer
<1> DEFINE c == <<w, 0>>
           d == <<0, h>>
<1>2. x[1] \in Int /\ x[2] \in Int /\ FiveDecimals \in Nat
  BY RoundingAssumption DEF Plane
<1>3. c \in Plane /\ d \in Plane /\ c[1] * d[2] # c[2] * d[1]
  <2>1. w * h > 0
    BY <1>1, <1>2, Signs
  <2> QED
    BY <2>1 DEF Plane
<1>4. /\ Shifted(x, c) = <<x[1] + w, x[2]>> /\ Shifted(x, Opposite(c)) = <<x[1] - w, x[2]>>
      /\ Shifted(x, d) = <<x[1], x[2] + h>> /\ Shifted(x, Opposite(d)) = <<x[1], x[2] - h>>
  BY <1>2 DEF Shifted, Opposite
<1> HIDE DEF c, d
<1> QED
  BY <1>1, <1>3, <1>4 DEF Buffered

\* A point as it is served
LEMMA GridPointIsNear ==
  ASSUME NEW p \in Plane
  PROVE  LET q == GridPoint(p)
         IN  /\ q[1] \in Int /\ q[2] \in Int
             /\ 2 * q[1] - 2 * p[1] <= FiveDecimals /\ 2 * p[1] - 2 * q[1] <= FiveDecimals
             /\ 2 * q[2] - 2 * p[2] <= FiveDecimals /\ 2 * p[2] - 2 * q[2] <= FiveDecimals
<1>1. p[1] \in Int /\ p[2] \in Int
  BY DEF Plane
<1>2. /\ GridPoint(p)[1] = FiveDecimals * Rounded(p[1], FiveDecimals)
      /\ GridPoint(p)[2] = FiveDecimals * Rounded(p[2], FiveDecimals)
  BY DEF GridPoint
<1> QED
  BY <1>1, <1>2, RoundedIsNear

\* An edge that has no point of P on its right and a buffer in P passes the centre
\* of the buffer on the same side when its ends are rounded.
LEMMA RoundedEdgePasses ==
  ASSUME NEW P \in SUBSET Plane, NEW a \in Plane, NEW b \in Plane,
         \A y \in P : Cross(a, b, y) >= 0,
         NEW x \in Plane, WideBuffer(x, P),
         LET left(p) == p[1] <= x[1]
         IN  left(GridPoint(a)) # left(GridPoint(b))
  PROVE  Cross(GridPoint(a), GridPoint(b), x) > 0
<1>1. PICK w \in Int, h \in Int :
        /\ w > FiveDecimals /\ h > FiveDecimals
        /\ {<<x[1] + w, x[2]>>, <<x[1] - w, x[2]>>,
            <<x[1], x[2] + h>>, <<x[1], x[2] - h>>} \subseteq P
  BY DEF WideBuffer
<1>2. /\ a[1] \in Int /\ a[2] \in Int /\ b[1] \in Int /\ b[2] \in Int
      /\ x[1] \in Int /\ x[2] \in Int /\ FiveDecimals \in Nat
  BY RoundingAssumption DEF Plane
<1> DEFINE u1 == b[1] - a[1]
           u2 == b[2] - a[2]
           n2 == -u1
           a1 == a[1] - x[1]
           a2 == a[2] - x[2]
           b1 == b[1] - x[1]
           b2 == b[2] - x[2]
           p1 == GridPoint(a)[1] - x[1]
           p2 == GridPoint(a)[2] - x[2]
           q1 == GridPoint(b)[1] - x[1]
           q2 == GridPoint(b)[2] - x[2]
           out == u2 * a1 + n2 * a2
<1>3. /\ u1 \in Int /\ u2 \in Int /\ n2 \in Int /\ a1 \in Int /\ a2 \in Int
      /\ b1 \in Int /\ b2 \in Int
  BY <1>2
<1>4. /\ p1 \in Int /\ p2 \in Int /\ q1 \in Int /\ q2 \in Int
      /\ 2 * p1 - 2 * a1 <= FiveDecimals /\ 2 * a1 - 2 * p1 <= FiveDecimals
      /\ 2 * p2 - 2 * a2 <= FiveDecimals /\ 2 * a2 - 2 * p2 <= FiveDecimals
      /\ 2 * q1 - 2 * b1 <= FiveDecimals /\ 2 * b1 - 2 * q1 <= FiveDecimals
      /\ 2 * q2 - 2 * b2 <= FiveDecimals /\ 2 * b2 - 2 * q2 <= FiveDecimals
  BY <1>2, GridPointIsNear
<1>5. /\ out >= u2 * w /\ out >= -(u2 * w) /\ out >= n2 * h /\ out >= -(n2 * h)
      /\ u2 * b1 + n2 * b2 = out
  <2>1. /\ Cross(a, b, <<x[1] + w, x[2]>>) >= 0 /\ Cross(a, b, <<x[1] - w, x[2]>>) >= 0
        /\ Cross(a, b, <<x[1], x[2] + h>>) >= 0 /\ Cross(a, b, <<x[1], x[2] - h>>) >= 0
    BY <1>1
  <2>2. /\ Cross(a, b, <<x[1] + w, x[2]>>) = out - u2 * w
        /\ Cross(a, b, <<x[1] - w, x[2]>>) = out + u2 * w
    BY <1>1, <1>2 DEF Cross
  <2>3. /\ Cross(a, b, <<x[1], x[2] + h>>) = out - n2 * h
        /\ Cross(a, b, <<x[1], x[2] - h>>) = out + n2 * h
    BY <1>1, <1>2 DEF Cross
  <2>4. u2 * b1 + n2 * b2 = out
    BY <1>2
  <2>5. out \in Int /\ u2 * w \in Int /\ n2 * h \in Int
    BY <1>1, <1>3
  <2> HIDE DEF out, u2, n2
  <2> QED
    BY <2>1, <2>2, <2>3, <2>4, <2>5
\* Rounding keeps which end is left of the other.
<1>6. (a[1] <= b[1] => p1 <= q1) /\ (b[1] <= a[1] => q1 <= p1)
  <2>1. /\ GridPoint(a)[1] = FiveDecimals * Rounded(a[1], FiveDecimals)
        /\ GridPoint(b)[1] = FiveDecimals * Rounded(b[1], FiveDecimals)
    BY DEF GridPoint
  <2>2. /\ a[1] <= b[1] => GridPoint(a)[1] <= GridPoint(b)[1]
        /\ b[1] <= a[1] => GridPoint(b)[1] <= GridPoint(a)[1]
    BY <1>2, <2>1, RoundedKeepsOrder
  <2>3. GridPoint(a)[1] \in Int /\ GridPoint(b)[1] \in Int
    BY GridPointIsNear
  <2> QED
    BY ONLY <1>2, <2>2, <2>3
<1>7. (p1 <= 0 /\ q1 > 0 /\ u1 > 0) \/ (p1 > 0 /\ q1 <= 0 /\ u1 < 0)
  <2>1. (p1 <= 0) # (q1 <= 0)
    <3>1. /\ (GridPoint(a)[1] <= x[1]) # (GridPoint(b)[1] <= x[1])
          /\ GridPoint(a)[1] \in Int /\ GridPoint(b)[1] \in Int
      BY GridPointIsNear
    <3> QED
      BY <1>2, <3>1
  <2> HIDE DEF p1, q1
  <2> QED
    BY <1>2, <1>4, <1>6, <2>1
<1>8. Cross(GridPoint(a), GridPoint(b), x) = p1 * q2 - p2 * q1
  <2>1. /\ GridPoint(b)[1] - GridPoint(a)[1] = q1 - p1 /\ x[1] - GridPoint(a)[1] = -p1
        /\ GridPoint(b)[2] - GridPoint(a)[2] = q2 - p2 /\ x[2] - GridPoint(a)[2] = -p2
    <3>1. /\ GridPoint(a)[1] \in Int /\ GridPoint(a)[2] \in Int
          /\ GridPoint(b)[1] \in Int /\ GridPoint(b)[2] \in Int
      BY GridPointIsNear
    <3> QED
      BY ONLY <1>2, <3>1
  <2> HIDE DEF p1, p2, q1, q2
  <2>2. Cross(GridPoint(a), GridPoint(b), x) = (q1 - p1) * (-p2) - (q2 - p2) * (-p1)
    BY ONLY <2>1 DEF Cross
  <2>3. (q1 - p1) * (-p2) - (q2 - p2) * (-p1) = p1 * q2 - p2 * q1
    BY ONLY <1>4
  <2> QED
    BY ONLY <2>2, <2>3
<1> HIDE DEF n2, a1, a2, b1, b2, p1, p2, q1, q2
<1> DEFINE reachP == u2 * p1 + n2 * p2
           reachQ == u2 * q1 + n2 * q2
           turn == p1 * q2 - p2 * q1
<1>9. n2 # 0 /\ n2 = -u1
  BY <1>3, <1>7 DEF n2
<1> HIDE DEF u1, u2
<1>10. reachP > 0
  BY <1>1, <1>2, <1>3, <1>4, <1>5, <1>9, StillOutside
<1>11. reachQ > 0
  BY <1>1, <1>2, <1>3, <1>4, <1>5, <1>9, StillOutside
<1>12. q1 * reachP - p1 * reachQ = u1 * turn
  BY <1>3, <1>4, <1>9
<1>13. reachP \in Int /\ reachQ \in Int /\ turn \in Int
  BY <1>3, <1>4
<1> HIDE DEF reachP, reachQ, turn
<1>14. turn > 0
  <2>1. CASE p1 <= 0 /\ q1 > 0 /\ u1 > 0
    <3>1. q1 * reachP > 0 /\ (-p1) * reachQ >= 0 /\ (-p1) * reachQ = -(p1 * reachQ)
      BY <1>4, <1>10, <1>11, <1>13, <2>1, Signs
    <3>2. u1 * turn > 0
      BY <1>3, <1>4, <1>12, <1>13, <3>1
    <3> QED
      BY <1>3, <1>13, <2>1, <3>2, Signs
  <2>2. CASE p1 > 0 /\ q1 <= 0 /\ u1 < 0
    <3>1. (-q1) * reachP >= 0 /\ p1 * reachQ > 0 /\ (-q1) * reachP = -(q1 * reachP)
      BY <1>4, <1>10, <1>11, <1>13, <2>2, Signs
    <3>2. (-u1) * turn > 0
      BY <1>3, <1>4, <1>12, <1>13, <3>1
    <3> QED
      BY <1>3, <1>13, <2>2, <3>2, Signs
  <2> QED
    BY <1>7, <2>1, <2>2
<1> QED
  BY <1>8, <1>14 DEF turn

-----------------------------------------------------------------------------
(* _observation_envelope *)

Places(g) == {rows[k].place : k \in g}

\* The hull of the buffers of a component, before it is rounded, has its detections
\* inside.
LEMMA BuffersHaveHull ==
  ASSUME rows \in Seq(Detections), NEW g \in SUBSET Rows, g # {}
  PROVE  /\ Buffers(g) \in SUBSET Plane
         /\ \A x \in Places(g) : x \in Plane /\ WideBuffer(x, Buffers(g))
         /\ IsHull(ConvexHull(Buffers(g)), Buffers(g), Places(g))
         /\ RunsAround(ConvexHull(Buffers(g)), Buffers(g))
<1> DEFINE Buffer(k) == {<<rows[k].place[1] + d[1], rows[k].place[2] + d[2]>> :
                            d \in BufferOffsets[rows[k].place]}
<1>1. Size \in Nat /\ Rows = 1..Size /\ \A k \in g : rows[k] \in Detections
  BY DEF Rows, Size
<1>2. IsFiniteSet(g)
  <2>1. IsFiniteSet(1..Size)
    BY <1>1, FS_Interval
  <2> QED
    BY <1>1, <2>1, FS_Subset
<1>3. ASSUME NEW k \in g
      PROVE  /\ rows[k].place \in Plane
             /\ IsFiniteSet(Buffer(k)) /\ Buffer(k) \in SUBSET Plane
             /\ WideBuffer(rows[k].place, Buffer(k))
  <2> DEFINE x == rows[k].place
             corners == BufferOffsets[x]
  <2>1. /\ x \in Plane /\ corners \in SUBSET Plane /\ IsFiniteSet(corners)
        /\ \E east, north \in corners :
              /\ east[1] > FiveDecimals /\ east[2] = 0
              /\ north[1] = 0 /\ north[2] > FiveDecimals
              /\ {<<-east[1], 0>>, <<0, -north[2]>>} \subseteq corners
    BY <1>1, PlaneAssumption DEF Plane
  <2> HIDE DEF x, corners
  <2> DEFINE B == {<<x[1] + d[1], x[2] + d[2]>> : d \in corners}
  <2>2. x[1] \in Int /\ x[2] \in Int /\ \A d \in corners : d[1] \in Int /\ d[2] \in Int
    BY <2>1 DEF Plane
  <2>3. B \in SUBSET Plane
    <3>1. \A d \in corners : x[1] + d[1] \in Int /\ x[2] + d[2] \in Int
      BY <2>2
    <3> QED
      BY <3>1 DEF Plane
  <2>4. IsFiniteSet(B)
    <3>1. [d \in corners |-> <<x[1] + d[1], x[2] + d[2]>>] \in Surjection(corners, B)
      BY DEF Surjection
    <3> QED
      BY <2>1, <3>1, FS_Surjection
  <2>5. WideBuffer(x, B)
    <3>1. PICK east \in corners, north \in corners :
              /\ east[1] > FiveDecimals /\ east[2] = 0
              /\ north[1] = 0 /\ north[2] > FiveDecimals
              /\ <<-east[1], 0>> \in corners /\ <<0, -north[2]>> \in corners
      BY <2>1
    <3> DEFINE w == east[1]
               h == north[2]
    <3>2. w \in Int /\ h \in Int /\ w > FiveDecimals /\ h > FiveDecimals
      BY <2>2, <3>1
    <3>3. \A d \in corners : <<x[1] + d[1], x[2] + d[2]>> \in B
      OBVIOUS
    <3>4. <<x[1] + w, x[2] + 0>> \in B /\ <<x[1] + 0, x[2] + h>> \in B
      BY <3>1, <3>3
    <3>5. <<x[1] + (-w), x[2] + 0>> \in B /\ <<x[1] + 0, x[2] + (-h)>> \in B
      <4>1. /\ <<-w, 0>>[1] = -w /\ <<-w, 0>>[2] = 0
            /\ <<0, -h>>[1] = 0 /\ <<0, -h>>[2] = -h
        OBVIOUS
      <4>2. <<-w, 0>> \in corners /\ <<0, -h>> \in corners
        BY <3>1
      <4> HIDE DEF B, w, h
      <4> QED
        BY <3>3, <4>1, <4>2
    <3>6. /\ x[1] + 0 = x[1] /\ x[2] + 0 = x[2]
          /\ x[1] + (-w) = x[1] - w /\ x[2] + (-h) = x[2] - h
      BY <2>2, <3>2
    <3> HIDE DEF B, w, h
    <3> QED
      BY <3>2, <3>4, <3>5, <3>6 DEF WideBuffer
  <2> QED
    BY <2>1, <2>3, <2>4, <2>5 DEF x, corners
<1>4. Buffers(g) = UNION {Buffer(k) : k \in g}
  BY DEF Buffers
<1>5. IsFiniteSet(Buffers(g)) /\ Buffers(g) \in SUBSET Plane
  <2> DEFINE All == {Buffer(k) : k \in g}
  <2> HIDE DEF Buffer
  <2>1. [k \in g |-> Buffer(k)] \in Surjection(g, All)
    BY DEF Surjection
  <2>2. IsFiniteSet(All) /\ \A B \in All : IsFiniteSet(B)
    BY <1>2, <1>3, <2>1, FS_Surjection
  <2>3. IsFiniteSet(UNION All)
    BY <2>2, FS_UNION
  <2> QED
    BY <1>3, <1>4, <2>3
<1>6. /\ Places(g) \in SUBSET Plane /\ Places(g) # {}
      /\ \A x \in Places(g) : WideBuffer(x, Buffers(g))
  <2>1. ASSUME NEW k \in g
        PROVE  WideBuffer(rows[k].place, Buffers(g))
    <3>1. Buffer(k) \subseteq Buffers(g)
      BY <1>4
    <3> HIDE DEF Buffer
    <3> QED
      BY <1>3, <3>1 DEF WideBuffer
  <2> HIDE DEF Buffer
  <2> QED
    BY <1>3, <2>1 DEF Places
<1>7. \A x \in Places(g) : Buffered(x, Buffers(g))
  BY <1>6, WideIsBuffered
<1> QED
  BY <1>5, <1>6, <1>7, HullIsConvex
=============================================================================
