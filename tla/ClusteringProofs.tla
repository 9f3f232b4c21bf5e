-------------------------- MODULE ClusteringProofs --------------------------
(***************************************************************************)
(* _build_components finds the connected components of the link relation,  *)
(* for any detections, any symmetric distance relation and any time limit. *)
(*                                                                         *)
(* The argument needs no induction over paths: a root map, which says what *)
(* find returns for every row, exists in every reachable state.  A closed  *)
(* set of rows never separates a row from its root, and rows whose pair    *)
(* has been looked at have one root if they are linked.                    *)
(***************************************************************************)
EXTENDS Clustering, FiniteSetTheorems, TLAPS

\* f[k] is the root above row k.
RootMap(f) ==
    /\ \A k \in Rows : f[parent[k]] = f[k]
    /\ \A k \in Rows : parent[k] = k => f[k] = k
    /\ \A k \in Rows : parent[f[k]] = f[k]

\* Only linked rows were joined.
Sound(f) ==
    \A S \in SUBSET Rows :
        LinkClosed(S) => \A k \in Rows : k \in S <=> f[k] \in S

Grouping == phase \in {"grouping", "done"}

\* The pair of rows a and b is behind the loops.
LookedAt(a, b) == Grouping \/ a < i \/ (a = i /\ b < j)

\* Every link that was looked at joined its rows.
Complete(f) ==
    \A a, b \in Rows : a < b /\ LookedAt(a, b) /\ Linked(a, b) => f[a] = f[b]

\* A running find looks for the root of its row.
Finding(f) ==
    /\ phase = "first" => f[item] = f[i]
    /\ phase = "second" => f[item] = f[j] /\ root = f[i]
    /\ phase = "grouping" /\ i <= Size => f[item] = f[i]

\* The groups hold the rows met so far under their roots.
Gathered(f) ==
    Grouping => \A r \in Rows : groups[r] = {k \in Rows : k < i /\ f[k] = r}

Witness(f) == RootMap(f) /\ Sound(f) /\ Complete(f) /\ Finding(f) /\ Gathered(f)

\* What the loops rely on besides the forest
LoopInv ==
    /\ Sorted(rows)
    /\ phase \in {"pairs", "first", "second"} =>
           i < j /\ \A r \in Rows : groups[r] = {}
    /\ phase \in {"first", "second"} => Linked(i, j)
    /\ phase = "grouping" /\ i <= Size => item \in Rows
    /\ phase = "pairs" => i \in Rows \/ i = Size + 1
    /\ phase = "done" => i = Size + 1

ClusterInv ==
    /\ ClusterTypeOK
    /\ LoopInv
    /\ RanksClimb
    /\ \E f \in [Rows -> Rows] : Witness(f)

-----------------------------------------------------------------------------
LEMMA SizeIsNat == ASSUME ClusterTypeOK PROVE Size \in Nat /\ Rows = 1..Size
  BY DEF ClusterTypeOK, Size, Rows

\* Times are integers, so they can be compared.
LEMMA TimesAreInts ==
  ASSUME ClusterTypeOK, NEW a \in Rows PROVE rows[a].time \in Int
  BY ClusteringAssumption DEF ClusterTypeOK, Rows, Size

LEMMA LinkedSymmetric ==
  ASSUME NEW a, NEW b, Linked(a, b) PROVE Linked(b, a)
  BY ClusteringAssumption DEF Linked, Close

\* While the frame stays, so does what is linked.
LEMMA SameLinks ==
  ASSUME rows' = rows
  PROVE  /\ Size' = Size /\ Rows' = Rows
         /\ \A a, b : Linked(a, b)' <=> Linked(a, b)
         /\ \A S \in SUBSET Rows : LinkClosed(S)' <=> LinkClosed(S)
         /\ Sorted(rows)' <=> Sorted(rows)
  BY DEF Size, Rows, Linked, Close, LinkClosed, Sorted

\* The early exit is right: behind a row that is too late all are.
LEMMA EarlyExit ==
  ASSUME ClusterTypeOK, Sorted(rows), i \in Rows, j \in Rows, TooLate(i, j),
         NEW b \in Rows, b >= j
  PROVE  ~Linked(i, b)
<1>1. rows[i].time \in Int /\ rows[j].time \in Int /\ rows[b].time \in Int
  BY TimesAreInts
<1>2. rows[j].time <= rows[b].time
  <2>1. CASE j = b
    BY <1>1, <2>1
  <2>2. CASE j < b
    BY <2>2 DEF Sorted, Rows, Size, ClusterTypeOK
  <2> QED
    BY <2>1, <2>2 DEF Rows, ClusterTypeOK
<1>3. TimeLimit \in Nat
  BY ClusteringAssumption
<1> QED
  BY <1>1, <1>2, <1>3 DEF TooLate, Linked

-----------------------------------------------------------------------------
LEMMA InitEstablishes == ClusterInit => ClusterInv
<1> SUFFICES ASSUME ClusterInit PROVE ClusterInv
  OBVIOUS
<1>1. Size = 0 /\ Rows = {}
  BY DEF ClusterInit, Size, Rows
<1>2. ClusterTypeOK
  BY <1>1 DEF ClusterInit, ClusterTypeOK
<1>3. LoopInv /\ RanksClimb
  BY <1>1 DEF ClusterInit, LoopInv, RanksClimb, Sorted
<1>4. \E f \in [Rows -> Rows] : Witness(f)
  <2>1. PICK f : f = [k \in Rows |-> k]
    OBVIOUS
  <2>2. f \in [Rows -> Rows]
    BY <2>1
  <2>3. Witness(f)
    BY <1>1 DEF Witness, RootMap, Sound, Complete, Finding, Gathered, ClusterInit, Grouping
  <2> QED
    BY <2>2, <2>3
<1> QED
  BY <1>2, <1>3, <1>4 DEF ClusterInv

LEMMA StartEstablishes ==
  ASSUME ClusterTypeOK, NEW f \in SUBSET Detections, IsFiniteSet(f),
         StartClustering(f)
  PROVE  ClusterInv'
<1> DEFINE n == Cardinality(f)
<1>0. n \in Nat
  BY FS_CardinalityType
<1>1. rows' \in [1..n -> f] /\ Sorted(rows')
  BY DEF StartClustering, Frames
<1>2. rows' \in Seq(Detections) /\ Len(rows') = n
  BY <1>0, <1>1
<1>3. Size' = n /\ Rows' = 1..n
  BY <1>2 DEF Size, Rows
<1>4. ClusterTypeOK'
  BY <1>0, <1>2, <1>3 DEF StartClustering, ClusterTypeOK
<1>5. LoopInv' /\ RanksClimb'
  BY <1>0, <1>1, <1>3 DEF StartClustering, LoopInv, RanksClimb, Sorted
<1>6. (\E g \in [Rows -> Rows] : Witness(g))'
  <2> DEFINE g == [k \in 1..n |-> k]
  <2>1. g \in [Rows' -> Rows']
    BY <1>3
  <2>2. RootMap(g)' /\ Sound(g)'
    BY <1>0, <1>3 DEF StartClustering, RootMap, Sound
  <2>3. Complete(g)'
    BY <1>0, <1>3 DEF StartClustering, Complete, LookedAt, Grouping
  <2>4. Finding(g)' /\ Gathered(g)'
    BY <1>0, <1>3 DEF StartClustering, Finding, Gathered, Grouping
  <2> QED
    BY <2>1, <2>2, <2>3, <2>4 DEF Witness
<1> QED
  BY <1>4, <1>5, <1>6 DEF ClusterInv

-----------------------------------------------------------------------------
(* The steps.  Each keeps the types, the loop's facts and the ranks, and     *)
(* has a root map.                                                         *)

LEMMA NextFirstKeeps ==
  ASSUME ClusterTypeOK, LoopInv, RanksClimb,
         NEW f \in [Rows -> Rows], Witness(f), NextFirst
  PROVE  ClusterInv'
<1>0. Size \in Nat /\ Rows = 1..Size
  BY SizeIsNat
<1>1. rows' = rows /\ parent' = parent /\ rank' = rank /\ groups' = groups
      /\ phase = "pairs" /\ phase' = "pairs" /\ i' = i + 1 /\ j' = i + 2
      /\ item' = item /\ root' = root /\ i \in Rows
  BY <1>0 DEF NextFirst, forest, ClusterTypeOK
<1>2. Size' = Size /\ Rows' = Rows
  BY <1>1, SameLinks
<1>3. ClusterTypeOK'
  <2>1. rows' \in Seq(Detections) /\ phase' \in {"pairs"}
    BY <1>1 DEF ClusterTypeOK
  <2>2. (i \in 1..Size + 1)' /\ (item \in 1..Size + 1)' /\ (root \in 1..Size + 1)'
        /\ (j \in Nat \ {0})'
    BY <1>0, <1>1, <1>2 DEF ClusterTypeOK
  <2>3. parent' \in [Rows' -> Rows'] /\ rank' \in [Rows' -> Nat]
        /\ groups' \in [Rows' -> SUBSET Rows']
    BY <1>1, <1>2 DEF ClusterTypeOK
  <2>4. (phase \in {"first", "second"} => j \in Rows /\ i < j /\ item \in Rows)'
    BY <1>1, <1>2 DEF ClusterTypeOK
  <2> QED
    BY <2>1, <2>2, <2>3, <2>4 DEF ClusterTypeOK
<1>4. LoopInv' /\ RanksClimb'
  BY <1>1, <1>2, <1>0 DEF LoopInv, RanksClimb, Sorted, ClusterTypeOK
<1>5. RootMap(f)' /\ Sound(f)'
  BY <1>1, <1>2, SameLinks DEF Witness, RootMap, Sound
<1>6. Complete(f)'
  <2> SUFFICES ASSUME NEW a \in Rows, NEW b \in Rows, a < b,
                      LookedAt(a, b)', Linked(a, b)
               PROVE  f[a] = f[b]
    BY <1>1, <1>2, SameLinks DEF Complete
  <2>1. a < i \/ a = i
    BY <1>1, <1>0 DEF LookedAt, Grouping, ClusterTypeOK
  <2>2. CASE a < i \/ b < j
    BY <2>1, <2>2 DEF Witness, Complete, LookedAt
  <2>3. CASE a = i /\ ~(b < j)
    <3>1. j \in Rows /\ b >= j
      BY <2>3, <1>1, <1>0 DEF ClusterTypeOK
    <3>2. TooLate(i, j)
      BY <3>1, <1>0 DEF NextFirst, ClusterTypeOK
    <3> QED
      BY <1>1, <2>3, <3>1, <3>2, EarlyExit DEF LoopInv
  <2> QED
    BY <2>1, <2>2, <2>3
<1>7. Finding(f)' /\ Gathered(f)'
  BY <1>1 DEF Finding, Gathered, Grouping
<1> QED
  BY <1>2, <1>3, <1>4, <1>5, <1>6, <1>7 DEF Witness, ClusterInv

LEMMA SkipPairKeeps ==
  ASSUME ClusterTypeOK, LoopInv, RanksClimb,
         NEW f \in [Rows -> Rows], Witness(f), SkipPair
  PROVE  ClusterInv'
<1>0. Size \in Nat /\ Rows = 1..Size
  BY SizeIsNat
<1>1. rows' = rows /\ parent' = parent /\ rank' = rank /\ groups' = groups
      /\ phase = "pairs" /\ phase' = "pairs" /\ i' = i /\ j' = j + 1
      /\ item' = item /\ root' = root /\ j <= Size /\ ~Close(i, j)
  BY DEF SkipPair, forest
<1>2. Size' = Size /\ Rows' = Rows
  BY <1>1, SameLinks
<1>3. ClusterTypeOK'
  <2>1. rows' \in Seq(Detections) /\ phase' \in {"pairs"}
    BY <1>1 DEF ClusterTypeOK
  <2>2. (i \in 1..Size + 1)' /\ (item \in 1..Size + 1)' /\ (root \in 1..Size + 1)'
        /\ (j \in Nat \ {0})'
    BY <1>0, <1>1, <1>2 DEF ClusterTypeOK
  <2>3. parent' \in [Rows' -> Rows'] /\ rank' \in [Rows' -> Nat]
        /\ groups' \in [Rows' -> SUBSET Rows']
    BY <1>1, <1>2 DEF ClusterTypeOK
  <2>4. (phase \in {"first", "second"} => j \in Rows /\ i < j /\ item \in Rows)'
    BY <1>1, <1>2 DEF ClusterTypeOK
  <2> QED
    BY <2>1, <2>2, <2>3, <2>4 DEF ClusterTypeOK
<1>4. LoopInv' /\ RanksClimb'
  BY <1>1, <1>2, <1>0 DEF LoopInv, RanksClimb, Sorted, ClusterTypeOK
<1>5. RootMap(f)' /\ Sound(f)'
  BY <1>1, <1>2, SameLinks DEF Witness, RootMap, Sound
<1>6. Complete(f)'
  <2> SUFFICES ASSUME NEW a \in Rows, NEW b \in Rows, a < b,
                      LookedAt(a, b)', Linked(a, b)
               PROVE  f[a] = f[b]
    BY <1>1, <1>2, SameLinks DEF Complete
  <2>1. LookedAt(a, b) \/ (a = i /\ b = j)
    BY <1>1, <1>0 DEF LookedAt, Grouping, ClusterTypeOK
  <2> QED
    BY <2>1, <1>1 DEF Witness, Complete, Linked
<1>7. Finding(f)' /\ Gathered(f)'
  BY <1>1 DEF Finding, Gathered, Grouping
<1> QED
  BY <1>2, <1>3, <1>4, <1>5, <1>6, <1>7 DEF Witness, ClusterInv

LEMMA BeginUnionKeeps ==
  ASSUME ClusterTypeOK, LoopInv, RanksClimb,
         NEW f \in [Rows -> Rows], Witness(f), BeginUnion
  PROVE  ClusterInv'
<1>0. Size \in Nat /\ Rows = 1..Size
  BY SizeIsNat
<1>1. rows' = rows /\ parent' = parent /\ rank' = rank /\ groups' = groups
      /\ phase = "pairs" /\ phase' = "first" /\ i' = i /\ j' = j
      /\ item' = i /\ root' = root /\ j <= Size /\ Close(i, j) /\ ~TooLate(i, j)
  BY DEF BeginUnion, forest
<1>2. Size' = Size /\ Rows' = Rows
  BY <1>1, SameLinks
<1>a. i \in Rows /\ j \in Rows /\ i < j
  BY <1>1, <1>0 DEF ClusterTypeOK, LoopInv
<1>b. Linked(i, j)
  <2>1. rows[i].time \in Int /\ rows[j].time \in Int /\ TimeLimit \in Nat
    BY <1>a, TimesAreInts, ClusteringAssumption
  <2>2. rows[i].time <= rows[j].time
    BY <1>a DEF LoopInv, Sorted, ClusterTypeOK, Rows, Size
  <2> QED
    BY <1>1, <2>1, <2>2 DEF Linked, TooLate
<1>3. ClusterTypeOK'
  <2>1. rows' \in Seq(Detections) /\ phase' \in {"first"}
    BY <1>1 DEF ClusterTypeOK
  <2>2. (i \in 1..Size + 1)' /\ (item \in 1..Size + 1)' /\ (root \in 1..Size + 1)'
        /\ (j \in Nat \ {0})'
    BY <1>0, <1>1, <1>2, <1>a DEF ClusterTypeOK
  <2>3. parent' \in [Rows' -> Rows'] /\ rank' \in [Rows' -> Nat]
        /\ groups' \in [Rows' -> SUBSET Rows']
    BY <1>1, <1>2, <1>a DEF ClusterTypeOK
  <2>4. (phase \in {"first", "second"} => j \in Rows /\ i < j /\ item \in Rows)'
    BY <1>1, <1>2, <1>a DEF ClusterTypeOK
  <2> QED
    BY <2>1, <2>2, <2>3, <2>4 DEF ClusterTypeOK
<1>4. LoopInv' /\ RanksClimb'
  <2>1. Linked(i, j)'
    BY <1>1, <1>b, SameLinks DEF Linked, Close
  <2> QED
    BY <2>1, <1>1, <1>2, <1>a DEF LoopInv, RanksClimb, Sorted
<1>5. RootMap(f)' /\ Sound(f)'
  BY <1>1, <1>2, SameLinks DEF Witness, RootMap, Sound
<1>6. Complete(f)'
  BY <1>1, <1>2, SameLinks DEF Witness, Complete, LookedAt, Grouping
<1>7. Finding(f)' /\ Gathered(f)'
  BY <1>1 DEF Finding, Gathered, Grouping
<1> QED
  BY <1>2, <1>3, <1>4, <1>5, <1>6, <1>7 DEF Witness, ClusterInv

\* Halving a path leaves every row below its root.
LEMMA HalveKeeps ==
  ASSUME ClusterTypeOK, LoopInv, RanksClimb,
         NEW f \in [Rows -> Rows], Witness(f), Halve
  PROVE  ClusterInv'
<1>0. Size \in Nat /\ Rows = 1..Size
  BY SizeIsNat
<1> DEFINE above == parent[item]
           next == parent[above]
<1>1. rows' = rows /\ rank' = rank /\ groups' = groups /\ phase' = phase
      /\ i' = i /\ j' = j /\ root' = root
      /\ phase \in {"first", "second", "grouping"}
      /\ parent' = [parent EXCEPT ![item] = next] /\ item' = next
      /\ above # item /\ item \in Rows
  BY <1>0 DEF Halve, ClusterTypeOK
<1>2. Size' = Size /\ Rows' = Rows
  BY <1>1, SameLinks
<1>a. above \in Rows /\ next \in Rows
  BY <1>1 DEF ClusterTypeOK
<1>b. rank[item] < rank[next]
  <2>1. rank[item] \in Nat /\ rank[above] \in Nat /\ rank[next] \in Nat
    BY <1>1, <1>a DEF ClusterTypeOK
  <2>2. rank[item] < rank[above]
    BY <1>1 DEF RanksClimb
  <2>3. next = above \/ rank[above] < rank[next]
    BY <1>a DEF RanksClimb
  <2> QED
    BY <2>1, <2>2, <2>3
<1>c. f[next] = f[item] /\ next # item
  <2>1. f[above] = f[item] /\ f[next] = f[above]
    BY <1>1, <1>a DEF Witness, RootMap
  <2>2. rank[item] \in Nat
    BY <1>1 DEF ClusterTypeOK
  <2> QED
    BY <2>1, <2>2, <1>b
<1>3. ClusterTypeOK'
  <2>1. rows' \in Seq(Detections) /\ phase' \in {"first", "second", "grouping"}
    BY <1>1 DEF ClusterTypeOK
  <2>2. (i \in 1..Size + 1)' /\ (item \in 1..Size + 1)' /\ (root \in 1..Size + 1)'
        /\ (j \in Nat \ {0})'
    BY <1>0, <1>1, <1>2, <1>a DEF ClusterTypeOK
  <2>3. parent' \in [Rows' -> Rows'] /\ rank' \in [Rows' -> Nat]
        /\ groups' \in [Rows' -> SUBSET Rows']
    BY <1>1, <1>2, <1>a DEF ClusterTypeOK
  <2>4. (phase \in {"first", "second"} => j \in Rows /\ i < j /\ item \in Rows)'
    BY <1>1, <1>2, <1>a DEF ClusterTypeOK
  <2> QED
    BY <2>1, <2>2, <2>3, <2>4 DEF ClusterTypeOK
<1>4. LoopInv'
  <2>1. Linked(i, j)' <=> Linked(i, j)
    BY <1>1 DEF Linked, Close
  <2> QED
    BY <2>1, <1>1, <1>2, <1>a DEF LoopInv, Sorted
<1>d. RanksClimb'
  BY <1>1, <1>2, <1>a, <1>b DEF RanksClimb, ClusterTypeOK
<1>5. RootMap(f)'
  <2>1. parent[f[item]] = f[item] /\ f[item] # item
    BY <1>1, <1>a DEF Witness, RootMap
  <2>2. \A k \in Rows : f[k] # item
    BY <1>1 DEF Witness, RootMap
  <2> QED
    BY <1>1, <1>2, <1>a, <1>c, <2>1, <2>2 DEF Witness, RootMap, ClusterTypeOK
<1>6. Sound(f)' /\ Complete(f)'
  BY <1>1, <1>2, SameLinks DEF Witness, Sound, Complete, LookedAt, Grouping
<1>7. Finding(f)' /\ Gathered(f)'
  BY <1>1, <1>2, <1>c DEF Witness, Finding, Gathered, Grouping
<1> QED
  BY <1>2, <1>3, <1>4, <1>d, <1>5, <1>6, <1>7 DEF Witness, ClusterInv

LEMMA FirstRootKeeps ==
  ASSUME ClusterTypeOK, LoopInv, RanksClimb,
         NEW f \in [Rows -> Rows], Witness(f), FirstRoot
  PROVE  ClusterInv'
<1>0. Size \in Nat /\ Rows = 1..Size
  BY SizeIsNat
<1>1. rows' = rows /\ parent' = parent /\ rank' = rank /\ groups' = groups
      /\ phase = "first" /\ phase' = "second" /\ i' = i /\ j' = j
      /\ item' = j /\ root' = item /\ parent[item] = item
      /\ item \in Rows /\ j \in Rows /\ i < j
  BY DEF FirstRoot, forest, ClusterTypeOK
<1>2. Size' = Size /\ Rows' = Rows
  BY <1>1, SameLinks
<1>3. ClusterTypeOK'
  <2>1. rows' \in Seq(Detections) /\ phase' \in {"second"}
    BY <1>1 DEF ClusterTypeOK
  <2>2. (i \in 1..Size + 1)' /\ (item \in 1..Size + 1)' /\ (root \in 1..Size + 1)'
        /\ (j \in Nat \ {0})'
    BY <1>0, <1>1, <1>2 DEF ClusterTypeOK
  <2>3. parent' \in [Rows' -> Rows'] /\ rank' \in [Rows' -> Nat]
        /\ groups' \in [Rows' -> SUBSET Rows']
    BY <1>1, <1>2 DEF ClusterTypeOK
  <2>4. (phase \in {"first", "second"} => j \in Rows /\ i < j /\ item \in Rows)'
    BY <1>1, <1>2 DEF ClusterTypeOK
  <2> QED
    BY <2>1, <2>2, <2>3, <2>4 DEF ClusterTypeOK
<1>4. LoopInv' /\ RanksClimb'
  <2>1. Linked(i, j)' <=> Linked(i, j)
    BY <1>1 DEF Linked, Close
  <2> QED
    BY <2>1, <1>1, <1>2 DEF LoopInv, RanksClimb, Sorted
<1>5. RootMap(f)' /\ Sound(f)' /\ Complete(f)'
  BY <1>1, <1>2, SameLinks DEF Witness, RootMap, Sound, Complete, LookedAt, Grouping
<1>6. Finding(f)' /\ Gathered(f)'
  <2>1. f[item] = item /\ f[item] = f[i]
    BY <1>1 DEF Witness, RootMap, Finding
  <2> QED
    BY <2>1, <1>1, <1>2 DEF Finding, Gathered, Grouping
<1> QED
  BY <1>2, <1>3, <1>4, <1>5, <1>6 DEF Witness, ClusterInv

\* Joining two roots makes one tree of two, and only linked rows meet in it.
LEMMA JoinKeeps ==
  ASSUME ClusterTypeOK, LoopInv, RanksClimb,
         NEW f \in [Rows -> Rows], Witness(f), Join
  PROVE  ClusterInv'
<1>0. Size \in Nat /\ Rows = 1..Size
  BY SizeIsNat
<1>1. rows' = rows /\ groups' = groups
      /\ phase = "second" /\ phase' = "pairs" /\ i' = i /\ j' = j + 1
      /\ item' = item /\ root' = root /\ parent[item] = item
      /\ item \in Rows /\ j \in Rows /\ i \in Rows /\ i < j
  BY <1>0 DEF Join, ClusterTypeOK
<1>2. Size' = Size /\ Rows' = Rows
  BY <1>1, SameLinks
<1>a. f[item] = item /\ f[j] = item /\ f[i] = root
      /\ root \in Rows /\ parent[root] = root /\ f[root] = root
  BY <1>1 DEF Witness, RootMap, Finding
<1>b. Linked(i, j)
  BY <1>1 DEF LoopInv
<1>c. i' \in 1..Size' + 1 /\ item' \in 1..Size' + 1 /\ root' \in 1..Size' + 1
      /\ j' \in Nat \ {0} /\ rows' \in Seq(Detections)
      /\ groups' \in [Rows' -> SUBSET Rows']
  BY <1>1, <1>2 DEF ClusterTypeOK
<1>4. LoopInv'
  BY <1>0, <1>1, <1>2 DEF LoopInv, Sorted, ClusterTypeOK
<1>5. \A a, b \in Rows : a < b /\ LookedAt(a, b)' =>
          LookedAt(a, b) \/ (a = i /\ b = j)
  BY <1>0, <1>1 DEF LookedAt, Grouping, ClusterTypeOK
<1>6. CASE root = item
  <2>1. parent' = parent /\ rank' = rank
    BY <1>6 DEF Join, forest
  <2>2. ClusterTypeOK' /\ RanksClimb'
    BY <2>1, <1>1, <1>2, <1>c DEF ClusterTypeOK, RanksClimb
  <2>3. RootMap(f)' /\ Sound(f)'
    BY <2>1, <1>1, <1>2, SameLinks DEF Witness, RootMap, Sound
  <2>4. Complete(f)'
    <3> SUFFICES ASSUME NEW a \in Rows, NEW b \in Rows, a < b,
                        LookedAt(a, b)', Linked(a, b)
                 PROVE  f[a] = f[b]
      BY <1>1, <1>2, SameLinks DEF Complete
    <3> QED
      BY <1>5, <1>6, <1>a DEF Witness, Complete
  <2>5. Finding(f)' /\ Gathered(f)'
    BY <1>1 DEF Finding, Gathered, Grouping
  <2> QED
    BY <2>2, <2>3, <2>4, <2>5, <1>2, <1>4 DEF ClusterInv, Witness
<1>7. CASE root # item
  <2> DEFINE lo == Lower(root, item)
             hi == Higher(root, item)
  <2>0. {lo, hi} = {root, item} /\ lo # hi /\ rank[lo] <= rank[hi]
        /\ (rank[lo] = rank[hi] <=> rank[root] = rank[item])
        /\ rank[lo] \in Nat /\ rank[hi] \in Nat
    BY <1>1, <1>7, <1>a DEF Lower, Higher, ClusterTypeOK
  <2>1. lo \in Rows /\ hi \in Rows /\ f[lo] = lo /\ f[hi] = hi
        /\ parent[lo] = lo /\ parent[hi] = hi
    BY <2>0, <1>1, <1>a
  <2>2. parent' = [parent EXCEPT ![lo] = hi]
        /\ rank' = [rank EXCEPT ![hi] =
                      IF rank[lo] = rank[hi] THEN rank[hi] + 1 ELSE rank[hi]]
    BY <1>7, <2>0 DEF Join
  <2> HIDE DEF lo, hi
  <2>3. parent' \in [Rows -> Rows] /\ rank' \in [Rows -> Nat]
    BY <2>0, <2>1, <2>2 DEF ClusterTypeOK
  <2>4. ClusterTypeOK'
    BY <2>3, <1>1, <1>2, <1>c DEF ClusterTypeOK
  <2>5. RanksClimb'
    <3> SUFFICES ASSUME NEW k \in Rows, parent'[k] # k
                 PROVE  rank'[k] < rank'[parent'[k]]
      BY <1>2 DEF RanksClimb
    <3>0. rank[k] \in Nat /\ rank[parent[k]] \in Nat /\ parent[k] \in Rows
      BY DEF ClusterTypeOK
    <3>1. CASE k = lo
      <4>1. parent'[k] = hi /\ rank'[k] = rank[lo]
        BY <3>1, <2>0, <2>1, <2>2 DEF ClusterTypeOK
      <4>2. rank'[hi] = IF rank[lo] = rank[hi] THEN rank[hi] + 1 ELSE rank[hi]
        BY <2>1, <2>2 DEF ClusterTypeOK
      <4> QED
        BY <4>1, <4>2, <2>0
    <3>2. CASE k # lo
      <4>1. parent'[k] = parent[k] /\ k # hi
        BY <3>2, <2>1, <2>2 DEF ClusterTypeOK
      <4>2. rank'[k] = rank[k] /\ rank[parent[k]] <= rank'[parent[k]]
        BY <4>1, <3>0, <2>0, <2>2 DEF ClusterTypeOK
      <4>3. rank[k] < rank[parent[k]]
        BY <4>1 DEF RanksClimb
      <4>4. rank'[parent[k]] \in Nat
        BY <2>3, <3>0
      <4> QED
        BY <4>1, <4>2, <4>3, <4>4, <3>0
    <3> QED
      BY <3>1, <3>2
  <2>6. PICK g \in [Rows -> Rows] :
              \A k \in Rows : g[k] = IF f[k] = lo THEN hi ELSE f[k]
    <3> DEFINE h == [k \in Rows |-> IF f[k] = lo THEN hi ELSE f[k]]
    <3>1. h \in [Rows -> Rows]
      BY <2>1
    <3> QED
      BY <3>1
  <2>7. RootMap(g)'
    <3>1. \A k \in Rows : parent[k] \in Rows /\ f[k] \in Rows
      BY DEF ClusterTypeOK
    <3>2. ASSUME NEW k \in Rows PROVE g[parent'[k]] = g[k]
      <4>1. f[parent[k]] = f[k]
        BY DEF Witness, RootMap
      <4>2. CASE k = lo
        BY <4>2, <2>6, <2>1, <2>2 DEF ClusterTypeOK
      <4>3. CASE k # lo
        <5>1. parent'[k] = parent[k] /\ parent[k] \in Rows
          BY <4>3, <2>2 DEF ClusterTypeOK
        <5> QED
          BY <5>1, <4>1, <2>6
      <4> QED
        BY <4>2, <4>3
    <3>3. \A k \in Rows : parent'[k] = k => g[k] = k
      BY <3>1, <2>6, <2>0, <2>1, <2>2 DEF Witness, RootMap, ClusterTypeOK
    <3>4. \A k \in Rows : parent'[g[k]] = g[k]
      BY <3>1, <2>6, <2>0, <2>1, <2>2 DEF Witness, RootMap, ClusterTypeOK
    <3> QED
      BY <3>2, <3>3, <3>4, <1>2 DEF RootMap
  <2>8. Sound(g)'
    <3> SUFFICES ASSUME NEW S \in SUBSET Rows, LinkClosed(S), NEW k \in Rows
                 PROVE  k \in S <=> g[k] \in S
      BY <1>1, <1>2, SameLinks DEF Sound
    <3>1. \A r \in Rows : r \in S <=> f[r] \in S
      BY DEF Witness, Sound
    <3>2. i \in S <=> j \in S
      BY <1>1, <1>b, LinkedSymmetric DEF LinkClosed
    <3>3. lo \in S <=> hi \in S
      BY <3>1, <3>2, <1>1, <1>a, <2>0
    <3> QED
      BY <3>1, <3>3, <2>6
  <2>9. Complete(g)'
    <3> SUFFICES ASSUME NEW a \in Rows, NEW b \in Rows, a < b,
                        LookedAt(a, b)', Linked(a, b)
                 PROVE  g[a] = g[b]
      BY <1>1, <1>2, SameLinks DEF Complete
    <3>1. CASE LookedAt(a, b)
      BY <3>1, <2>6 DEF Witness, Complete
    <3>2. CASE a = i /\ b = j
      BY <3>2, <1>a, <2>0, <2>6
    <3> QED
      BY <3>1, <3>2, <1>5
  <2>10. Finding(g)' /\ Gathered(g)'
    BY <1>1 DEF Finding, Gathered, Grouping
  <2> QED
    BY <2>4, <2>5, <2>6, <2>7, <2>8, <2>9, <2>10, <1>2, <1>4 DEF ClusterInv, Witness
<1> QED
  BY <1>6, <1>7

LEMMA BeginGroupingKeeps ==
  ASSUME ClusterTypeOK, LoopInv, RanksClimb,
         NEW f \in [Rows -> Rows], Witness(f), BeginGrouping
  PROVE  ClusterInv'
<1>0. Size \in Nat /\ Rows = 1..Size
  BY SizeIsNat
<1>1. rows' = rows /\ parent' = parent /\ rank' = rank /\ groups' = groups
      /\ phase = "pairs" /\ phase' = "grouping" /\ i' = 1 /\ j' = j
      /\ item' = 1 /\ root' = root /\ i > Size
  BY DEF BeginGrouping, forest
<1>2. Size' = Size /\ Rows' = Rows
  BY <1>1, SameLinks
<1>3. ClusterTypeOK'
  <2>1. rows' \in Seq(Detections) /\ phase' \in {"grouping"}
    BY <1>1 DEF ClusterTypeOK
  <2>2. (i \in 1..Size + 1)' /\ (item \in 1..Size + 1)' /\ (root \in 1..Size + 1)'
        /\ (j \in Nat \ {0})'
    BY <1>0, <1>1, <1>2 DEF ClusterTypeOK
  <2>3. parent' \in [Rows' -> Rows'] /\ rank' \in [Rows' -> Nat]
        /\ groups' \in [Rows' -> SUBSET Rows']
    BY <1>1, <1>2 DEF ClusterTypeOK
  <2>4. (phase \in {"first", "second"} => j \in Rows /\ i < j /\ item \in Rows)'
    BY <1>1, <1>2 DEF ClusterTypeOK
  <2> QED
    BY <2>1, <2>2, <2>3, <2>4 DEF ClusterTypeOK
<1>4. LoopInv' /\ RanksClimb'
  BY <1>0, <1>1, <1>2 DEF LoopInv, RanksClimb, Sorted
<1>5. RootMap(f)' /\ Sound(f)'
  BY <1>1, <1>2, SameLinks DEF Witness, RootMap, Sound
<1>6. Complete(f)'
  <2>1. \A a \in Rows : a < i
    BY <1>0, <1>1 DEF ClusterTypeOK
  <2> QED
    BY <2>1, <1>1, <1>2, SameLinks DEF Witness, Complete, LookedAt
<1>7. Finding(f)' /\ Gathered(f)'
  BY <1>0, <1>1, <1>2 DEF Finding, Gathered, LoopInv
<1> QED
  BY <1>2, <1>3, <1>4, <1>5, <1>6, <1>7 DEF Witness, ClusterInv

LEMMA GatherKeeps ==
  ASSUME ClusterTypeOK, LoopInv, RanksClimb,
         NEW f \in [Rows -> Rows], Witness(f), Gather
  PROVE  ClusterInv'
<1>0. Size \in Nat /\ Rows = 1..Size
  BY SizeIsNat
<1>1. rows' = rows /\ parent' = parent /\ rank' = rank
      /\ groups' = [groups EXCEPT ![item] = groups[item] \cup {i}]
      /\ phase = "grouping" /\ phase' = "grouping" /\ i' = i + 1 /\ j' = j
      /\ item' = i + 1 /\ root' = root /\ i \in Rows /\ parent[item] = item
      /\ item \in Rows
  BY <1>0 DEF Gather, forest, ClusterTypeOK, LoopInv
<1>2. Size' = Size /\ Rows' = Rows
  BY <1>1, SameLinks
<1>3. ClusterTypeOK'
  <2>1. rows' \in Seq(Detections) /\ phase' \in {"grouping"}
    BY <1>1 DEF ClusterTypeOK
  <2>2. (i \in 1..Size + 1)' /\ (item \in 1..Size + 1)' /\ (root \in 1..Size + 1)'
        /\ (j \in Nat \ {0})'
    BY <1>0, <1>1, <1>2 DEF ClusterTypeOK
  <2>3. parent' \in [Rows' -> Rows'] /\ rank' \in [Rows' -> Nat]
        /\ groups' \in [Rows' -> SUBSET Rows']
    BY <1>1, <1>2 DEF ClusterTypeOK
  <2>4. (phase \in {"first", "second"} => j \in Rows /\ i < j /\ item \in Rows)'
    BY <1>1, <1>2 DEF ClusterTypeOK
  <2> QED
    BY <2>1, <2>2, <2>3, <2>4 DEF ClusterTypeOK
<1>4. LoopInv' /\ RanksClimb'
  BY <1>0, <1>1, <1>2 DEF LoopInv, RanksClimb, Sorted, ClusterTypeOK
<1>5. RootMap(f)' /\ Sound(f)' /\ Complete(f)'
  BY <1>1, <1>2, SameLinks DEF Witness, RootMap, Sound, Complete, LookedAt, Grouping
<1>a. f[i] = item
  BY <1>0, <1>1 DEF Witness, RootMap, Finding
<1>6. Finding(f)'
  BY <1>1, <1>2 DEF Finding
<1>7. Gathered(f)'
  <2> SUFFICES ASSUME NEW r \in Rows
               PROVE  groups'[r] = {k \in Rows : k < i + 1 /\ f[k] = r}
    BY <1>1, <1>2 DEF Gathered
  <2>1. groups[r] = {k \in Rows : k < i /\ f[k] = r}
    BY <1>1 DEF Witness, Gathered, Grouping
  <2>2. \A k \in Rows : k < i + 1 <=> k < i \/ k = i
    BY <1>0, <1>1
  <2> QED
    BY <2>1, <2>2, <1>1, <1>a DEF ClusterTypeOK
<1> QED
  BY <1>2, <1>3, <1>4, <1>5, <1>6, <1>7 DEF Witness, ClusterInv

LEMMA EndClusteringKeeps ==
  ASSUME ClusterTypeOK, LoopInv, RanksClimb,
         NEW f \in [Rows -> Rows], Witness(f), EndClustering
  PROVE  ClusterInv'
<1>0. Size \in Nat /\ Rows = 1..Size
  BY SizeIsNat
<1>1. rows' = rows /\ parent' = parent /\ rank' = rank /\ groups' = groups
      /\ phase = "grouping" /\ phase' = "done" /\ i' = i /\ j' = j
      /\ item' = item /\ root' = root /\ i > Size
  BY DEF EndClustering, forest
<1>2. Size' = Size /\ Rows' = Rows
  BY <1>1, SameLinks
<1>3. ClusterTypeOK'
  <2>1. rows' \in Seq(Detections) /\ phase' \in {"done"}
    BY <1>1 DEF ClusterTypeOK
  <2>2. (i \in 1..Size + 1)' /\ (item \in 1..Size + 1)' /\ (root \in 1..Size + 1)'
        /\ (j \in Nat \ {0})'
    BY <1>0, <1>1, <1>2 DEF ClusterTypeOK
  <2>3. parent' \in [Rows' -> Rows'] /\ rank' \in [Rows' -> Nat]
        /\ groups' \in [Rows' -> SUBSET Rows']
    BY <1>1, <1>2 DEF ClusterTypeOK
  <2>4. (phase \in {"first", "second"} => j \in Rows /\ i < j /\ item \in Rows)'
    BY <1>1, <1>2 DEF ClusterTypeOK
  <2> QED
    BY <2>1, <2>2, <2>3, <2>4 DEF ClusterTypeOK
<1>4. LoopInv' /\ RanksClimb'
  BY <1>0, <1>1, <1>2 DEF LoopInv, RanksClimb, Sorted, ClusterTypeOK
<1>5. RootMap(f)' /\ Sound(f)' /\ Complete(f)'
  BY <1>1, <1>2, SameLinks DEF Witness, RootMap, Sound, Complete, LookedAt, Grouping
<1>6. Finding(f)' /\ Gathered(f)'
  BY <1>1, <1>2 DEF Witness, Finding, Gathered, Grouping
<1> QED
  BY <1>2, <1>3, <1>4, <1>5, <1>6 DEF Witness, ClusterInv

LEMMA StutterKeeps == ASSUME ClusterInv, UNCHANGED clusterVars PROVE ClusterInv'
<1>0. PICK f \in [Rows -> Rows] : Witness(f)
  BY DEF ClusterInv
<1>1. rows' = rows /\ parent' = parent /\ rank' = rank /\ groups' = groups
      /\ phase' = phase /\ i' = i /\ j' = j /\ item' = item /\ root' = root
  BY DEF clusterVars, forest
<1>2. Size' = Size /\ Rows' = Rows
  BY <1>1, SameLinks
<1>3. ClusterTypeOK'
  BY <1>1, <1>2 DEF ClusterInv, ClusterTypeOK
<1>4. LoopInv' /\ RanksClimb'
  BY <1>1, <1>2 DEF ClusterInv, LoopInv, RanksClimb, Sorted, Linked, Close
<1>5. RootMap(f)' /\ Sound(f)' /\ Complete(f)'
  BY <1>0, <1>1, <1>2, SameLinks DEF Witness, RootMap, Sound, Complete, LookedAt, Grouping
<1>6. Finding(f)' /\ Gathered(f)'
  BY <1>0, <1>1, <1>2 DEF Witness, Finding, Gathered, Grouping
<1> QED
  BY <1>2, <1>3, <1>4, <1>5, <1>6 DEF Witness, ClusterInv

\* A step of the loops, whoever made it.
LEMMA StepKeeps == ASSUME ClusterInv, ClusterStep PROVE ClusterInv'
<1>0. PICK f \in [Rows -> Rows] : Witness(f)
  BY DEF ClusterInv
<1>1. ClusterTypeOK /\ LoopInv /\ RanksClimb
  BY DEF ClusterInv
<1> QED
  BY <1>0, <1>1, NextFirstKeeps, SkipPairKeeps, BeginUnionKeeps, HalveKeeps,
     FirstRootKeeps, JoinKeeps, BeginGroupingKeeps, GatherKeeps,
     EndClusteringKeeps DEF ClusterStep

THEOREM ClusterInvariant == ClusterSpec => []ClusterInv
<1>1. ClusterInit => ClusterInv
  BY InitEstablishes
<1>2. ClusterInv /\ [ClusterNext]_clusterVars => ClusterInv'
  <2> SUFFICES ASSUME ClusterInv, [ClusterNext]_clusterVars PROVE ClusterInv'
    OBVIOUS
  <2>1. CASE \E f \in SUBSET Detections : IsFiniteSet(f) /\ StartClustering(f)
    BY <2>1, StartEstablishes DEF ClusterInv
  <2>2. CASE ClusterStep
    BY <2>2, StepKeeps
  <2>3. CASE UNCHANGED clusterVars
    BY <2>3, StutterKeeps
  <2> QED
    BY <2>1, <2>2, <2>3 DEF ClusterNext
<1> QED
  BY <1>1, <1>2, PTL DEF ClusterSpec

-----------------------------------------------------------------------------
\* The loops keep to the rows they were given, whatever the frame.
THEOREM ClusterTypeCorrect == ClusterSpec => []ClusterTypeOK
<1>1. ClusterInv => ClusterTypeOK
  BY DEF ClusterInv
<1> QED
  BY <1>1, ClusterInvariant, PTL

\* find climbs in rank, so it always ends.
THEOREM RanksAlwaysClimb == ClusterSpec => []RanksClimb
<1>1. ClusterInv => RanksClimb
  BY DEF ClusterInv
<1> QED
  BY <1>1, ClusterInvariant, PTL

\* Once every pair was looked at, two rows have one root exactly if a chain of
\* links connects them.
LEMMA SameRootIsConnected ==
  ASSUME ClusterTypeOK, phase = "done",
         NEW f \in [Rows -> Rows], Witness(f), NEW a \in Rows, NEW b \in Rows
  PROVE  f[a] = f[b] <=> Connected(a, b)
<1>1. ASSUME f[a] = f[b] PROVE Connected(a, b)
  BY <1>1 DEF Witness, Sound, Connected
<1>2. ASSUME Connected(a, b) PROVE f[a] = f[b]
  <2> DEFINE S == {k \in Rows : f[k] = f[a]}
  <2>1. LinkClosed(S)
    <3> SUFFICES ASSUME NEW c \in S, NEW d \in Rows, Linked(c, d)
                 PROVE  f[d] = f[c]
      BY DEF LinkClosed
    <3>1. c < d \/ c = d \/ d < c
      BY SizeIsNat
    <3> QED
      BY <3>1, LinkedSymmetric DEF Witness, Complete, LookedAt, Grouping
  <2> QED
    BY <1>2, <2>1 DEF Connected
<1> QED
  BY <1>1, <1>2

\* The incidents are the connected components of the link relation, for any
\* detections, distances and time limit.
THEOREM ComponentsFound == ClusterSpec => []FoundAreComponents
<1>1. ASSUME ClusterInv, phase = "done"
      PROVE  Components = {ComponentOf(a) : a \in Rows}
  <2>0. PICK f \in [Rows -> Rows] : Witness(f)
    BY <1>1 DEF ClusterInv
  <2>1. ClusterTypeOK /\ i = Size + 1
    BY <1>1 DEF ClusterInv, LoopInv
  <2>2. \A r \in Rows : groups[r] = {k \in Rows : f[k] = r}
    BY <1>1, <2>0, <2>1, SizeIsNat DEF Witness, Gathered, Grouping
  <2>3. \A a \in Rows : ComponentOf(a) = groups[f[a]]
    <3> TAKE a \in Rows
    <3>1. \A b \in Rows : f[a] = f[b] <=> Connected(a, b)
      BY <1>1, <2>0, <2>1, SameRootIsConnected
    <3> QED
      BY <2>2, <3>1 DEF ComponentOf
  <2>4. \A a \in Rows : groups[f[a]] # {} /\ f[a] \in Rows
    BY <2>2
  <2>5. \A r \in Rows : groups[r] # {} => \E a \in Rows : r = f[a]
    BY <2>2
  <2> QED
    BY <2>3, <2>4, <2>5 DEF Components
<1>2. ClusterInv => FoundAreComponents
  BY <1>1 DEF FoundAreComponents
<1> QED
  BY <1>2, ClusterInvariant, PTL
=============================================================================
