------------------------- MODULE FirePipelineProofs -------------------------
(***************************************************************************)
(* A request that goes all the way to NASA, for any rows it may send: the  *)
(* pipeline is a query and a search for components one after the other, so *)
(* what is proved of each holds of the request; and what is said of the    *)
(* components is right.                                                    *)
(***************************************************************************)
EXTENDS FirePipeline, PayloadProofs, ClusteringProofs, HullProofs

-----------------------------------------------------------------------------
(* The parts of the pipeline *)

\* The frame that is clustered is the one that was validated, and "data" is
\* answered when the components are found.
Handover ==
    /\ phase # "idle" => stage = "accepted" /\ rows \in Frames(kept)
    /\ answer = "data" => phase = "done"

PipelineInv == PayloadInv /\ ClusterInv /\ Handover

LEMMA KeptAreDetections ==
  ASSUME PayloadInv PROVE kept \in SUBSET Detections /\ IsFiniteSet(kept)
BY PipelineAssumption DEF PayloadInv, PayloadTypeOK, Balanced

\* What a step of the pipeline is to the query ...
LEMMA StepOfQuery == [PipelineNext]_pipelineVars => [PayloadNext]_payloadVars
BY DEF PipelineNext, Query, Refuse, Group, Cluster, Respond, pipelineVars

\* ... and to the clustering
LEMMA StepOfClustering ==
  ASSUME PayloadInv, [PipelineNext]_pipelineVars
  PROVE  [ClusterNext]_clusterVars
<1>1. CASE Group
  BY <1>1, KeptAreDetections DEF Group, ClusterNext
<1>2. CASE Query \/ Refuse \/ Respond \/ UNCHANGED pipelineVars
  BY <1>2 DEF Query, Refuse, Respond, pipelineVars
<1>3. CASE Cluster
  BY <1>3 DEF Cluster, ClusterNext
<1> QED
  BY <1>1, <1>2, <1>3 DEF PipelineNext

\* An accepted frame stays.
LEMMA AcceptedStays ==
  ASSUME stage = "accepted", [PipelineNext]_pipelineVars
  PROVE  UNCHANGED payloadVars
<1>1. ~Download
  BY DEF Download, ConnectionFails, HeadersArrive, RefuseHeaders, RefuseLength,
         AcceptHeaders, ReceiveChunk, RefuseBody, BodyBreaks, BodyEmpty, BodyEnds,
         BodyUnusable
<1>2. ~Validate
  BY DEF Validate, DropRow, KeepRow, MergeRow, NoValidRows, FrameReady
<1> QED
  BY <1>1, <1>2 DEF PipelineNext, Query, Refuse, Group, Cluster, Respond,
                    pipelineVars, PayloadNext

\* The frame of a search that runs stays as well.
LEMMA FrameStays ==
  ASSUME ClusterStep
  PROVE  rows' = rows /\ phase # "idle" /\ phase # "done" /\ phase' # "idle"
BY DEF ClusterStep, NextFirst, SkipPair, BeginUnion, Halve, FirstRoot, Join,
       BeginGrouping, Gather, EndClustering

LEMMA HandoverStep ==
  ASSUME PayloadInv, ClusterInv, Handover, [PipelineNext]_pipelineVars
  PROVE  Handover'
<1>1. CASE Query
  <2>1. phase' = phase /\ rows' = rows /\ answer' = answer
    BY <1>1 DEF Query, clusterVars
  <2>2. phase # "idle" => stage' = stage /\ kept' = kept
    BY <1>1, AcceptedStays DEF Handover, payloadVars
  <2> QED
    BY <2>1, <2>2 DEF Handover, Frames, Sorted
<1>2. CASE Refuse
  <2>1. UNCHANGED <<stage, kept, phase, rows>> /\ answer' = outcome
    BY <1>2 DEF Refuse, payloadVars, clusterVars
  <2>2. outcome # "data"
    BY DEF PayloadInv, PayloadTypeOK
  <2> QED
    BY <2>1, <2>2 DEF Handover, Frames, Sorted
<1>3. CASE Group
  <2>1. /\ stage = "accepted" /\ phase = "idle" /\ phase' = "pairs"
        /\ UNCHANGED <<stage, kept, answer>>
        /\ rows' \in Frames(kept)
    BY <1>3 DEF Group, StartClustering, payloadVars
  <2> QED
    BY <2>1 DEF Handover, Frames, Sorted
<1>4. CASE Cluster
  <2>1. UNCHANGED <<stage, kept, answer, rows>> /\ phase # "idle" /\ phase # "done"
    BY <1>4, FrameStays DEF Cluster, payloadVars
  <2> QED
    BY <2>1 DEF Handover, Frames, Sorted
<1>5. CASE Respond
  <2>1. UNCHANGED <<stage, kept, phase, rows>> /\ phase = "done"
    BY <1>5 DEF Respond, payloadVars, clusterVars
  <2> QED
    BY <2>1 DEF Handover, Frames, Sorted
<1>6. CASE UNCHANGED pipelineVars
  BY <1>6 DEF Handover, Frames, Sorted, pipelineVars, payloadVars, clusterVars
<1> QED
  BY <1>1, <1>2, <1>3, <1>4, <1>5, <1>6 DEF PipelineNext

LEMMA PipelineInitially == PipelineInit => PayloadInit /\ ClusterInit /\ Handover
BY DEF PipelineInit, ClusterInit, Handover, NoAnswer

\* The query of a request is one that PayloadProofs is about, whatever the
\* clustering does after it.
THEOREM PipelineQueries == PipelineSpec => PayloadSpec
<1> QED
  BY PipelineInitially, StepOfQuery, PTL DEF PipelineSpec, PayloadSpec

\* The search of a request is one that ClusteringProofs is about: what the
\* validation lets through are detections the search may be given.
THEOREM PipelineClusters == PipelineSpec => ClusterSpec
<1>1. PayloadInv /\ [PipelineNext]_pipelineVars => [ClusterNext]_clusterVars
  BY StepOfClustering
<1> QED
  BY <1>1, PipelineInitially, PipelineQueries, PayloadInvariant, PTL
     DEF PipelineSpec, ClusterSpec

\* The inductive invariant of a request
THEOREM PipelineInvariant == PipelineSpec => []PipelineInv
<1>1. PayloadInv /\ ClusterInv /\ Handover /\ [PipelineNext]_pipelineVars => Handover'
  BY HandoverStep
<1> QED
  BY <1>1, PipelineInitially, PipelineQueries, PayloadInvariant, PipelineClusters,
     ClusterInvariant, PTL DEF PipelineSpec, PipelineInv

\* Every variable of a request keeps its type, through both of its parts.
THEOREM PipelineTypeCorrect == PipelineSpec => []PipelineTypeOK
<1>1. PipelineInv => PipelineTypeOK
  BY DEF PipelineInv, PayloadInv, ClusterInv, PipelineTypeOK
<1> QED
  BY <1>1, PipelineInvariant, PTL

\* What the query and the search promise, the request keeps.
THEOREM PartsKeepPromises ==
    PipelineSpec => [](/\ MemoryBounded /\ KeptAreLeast
                       /\ FrameIsClean /\ FoundAreComponents)
<1> QED
  BY PipelineQueries, PipelineClusters, MemoryStaysBounded, DuplicatesResolve,
     FramesAreClean, ComponentsFound, PTL

-----------------------------------------------------------------------------
(* Totals *)

\* What each row adds to the total of g
Term(g, k) == IF k \in Measured(g) THEN rows[k].frp ELSE 0

LEMMA TotalIsSum ==
  ASSUME NEW g, Size \in Nat
  PROVE  \E f : /\ f[0] = 0
                /\ \A k \in 1..Size : f[k] = f[k - 1] + Term(g, k)
                /\ TotalFrp(g) = f[Size]
<1> DEFINE e == [k \in 1..Size |-> Term(g, k)]
<1>1. PICK h : IsSum(h, e, Size)
  BY SumExists
<1>2. h = [k \in 0..Size |-> IF k = 0 THEN 0 ELSE h[k - 1] + Term(g, k)]
  <2>1. h = [k \in 0..Size |-> IF k = 0 THEN 0 ELSE h[k - 1] + e[k]]
    BY <1>1 DEF IsSum
  <2>2. \A k \in 0..Size : k # 0 => e[k] = Term(g, k)
    OBVIOUS
  <2> HIDE DEF e
  <2> QED
    BY <2>1, <2>2
<1>3. PICK f : /\ f = [k \in 0..Size |-> IF k = 0 THEN 0 ELSE f[k - 1] + Term(g, k)]
               /\ TotalFrp(g) = f[Size]
  BY <1>2 DEF TotalFrp, Term
<1>4. f[0] = 0 /\ \A k \in 1..Size : f[k] = f[k - 1] + Term(g, k)
  BY <1>3
<1> QED
  BY <1>3, <1>4

LEMMA TermIsNat == ASSUME NEW g, NEW k PROVE Term(g, k) \in Nat
BY DEF Term, Measured

LEMMA TotalIsNat == ASSUME NEW g, Size \in Nat PROVE TotalFrp(g) \in Nat
<1>1. PICK f : /\ f[0] = 0
               /\ \A k \in 1..Size : f[k] = f[k - 1] + Term(g, k)
               /\ TotalFrp(g) = f[Size]
  BY TotalIsSum
<1> DEFINE Good == {k \in Nat : k <= Size => f[k] \in Nat}
<1>2. 0 \in Good
  BY <1>1
<1>3. ASSUME NEW k \in Nat, k \in Good
      PROVE  k + 1 \in Good
  <2> SUFFICES ASSUME k + 1 <= Size
               PROVE  f[k + 1] \in Nat
    OBVIOUS
  <2>1. f[k] \in Nat
    BY <1>3
  <2>2. k + 1 \in 1..Size /\ (k + 1) - 1 = k
    OBVIOUS
  <2>3. f[k + 1] = f[k] + Term(g, k + 1)
    BY <1>1, <2>2
  <2> QED
    BY <2>1, <2>3, TermIsNat
<1>4. Nat \subseteq Good
  <2> HIDE DEF Good
  <2> QED
    BY <1>2, <1>3, SetInduction
<1> QED
  BY <1>1, <1>4

\* The total of equal powers is their number times one of them.
LEMMA SteadyTotal ==
  ASSUME Size \in Nat, NEW g \in SUBSET Rows, NEW c \in Nat,
         \A k \in g : rows[k].frp = c
  PROVE  /\ Cardinality(g) \in Nat
         /\ TotalFrp(g) = c * Cardinality(g)
<1> DEFINE First(n) == {k \in g : k <= n}
<1>1. PICK f : /\ f[0] = 0
               /\ \A k \in 1..Size : f[k] = f[k - 1] + Term(g, k)
               /\ TotalFrp(g) = f[Size]
  BY TotalIsSum
<1>2. Measured(g) = g
  BY DEF Measured
<1>3. \A k \in g : k \in Nat /\ 1 <= k /\ k <= Size
  BY DEF Rows
<1> DEFINE Good == {n \in Nat : n <= Size =>
                       /\ IsFiniteSet(First(n))
                       /\ f[n] = c * Cardinality(First(n))}
<1>4. 0 \in Good
  <2>1. First(0) = {}
    BY <1>3
  <2>2. IsFiniteSet(First(0)) /\ Cardinality(First(0)) = 0
    BY <2>1, FS_EmptySet
  <2>3. c * 0 = 0
    OBVIOUS
  <2> HIDE DEF First
  <2> QED
    BY <1>1, <2>2, <2>3
<1>5. ASSUME NEW n \in Nat, n \in Good
      PROVE  n + 1 \in Good
  <2> SUFFICES ASSUME n + 1 <= Size
               PROVE  /\ IsFiniteSet(First(n + 1))
                      /\ f[n + 1] = c * Cardinality(First(n + 1))
    OBVIOUS
  <2>1. IsFiniteSet(First(n)) /\ f[n] = c * Cardinality(First(n))
    BY <1>5
  <2>2. Cardinality(First(n)) \in Nat
    BY <2>1, FS_CardinalityType
  <2>3. n + 1 \in 1..Size /\ (n + 1) - 1 = n
    OBVIOUS
  <2>4. f[n + 1] = f[n] + Term(g, n + 1)
    BY <1>1, <2>3
  <2>5. CASE n + 1 \in g
    <3>1. First(n + 1) = First(n) \cup {n + 1}
      BY <1>3, <2>5
    <3>2. n + 1 \notin First(n)
      OBVIOUS
    <3>3. Term(g, n + 1) = c
      BY <1>2, <2>5 DEF Term
    <3> HIDE DEF First
    <3>4. /\ IsFiniteSet(First(n + 1))
          /\ Cardinality(First(n + 1)) = Cardinality(First(n)) + 1
      BY <2>1, <3>1, <3>2, FS_AddElement
    <3> QED
      BY <2>1, <2>2, <2>4, <3>3, <3>4
  <2>6. CASE n + 1 \notin g
    <3>1. First(n + 1) = First(n)
      BY <1>3, <2>6
    <3>2. Term(g, n + 1) = 0
      BY <1>2, <2>6 DEF Term
    <3> HIDE DEF First
    <3> QED
      BY <2>1, <2>2, <2>4, <3>1, <3>2
  <2> QED
    BY <2>5, <2>6
<1>6. Nat \subseteq Good
  <2> HIDE DEF Good
  <2> QED
    BY <1>4, <1>5, SetInduction
<1>7. First(Size) = g
  BY <1>3
<1>8. IsFiniteSet(g) /\ f[Size] = c * Cardinality(g)
  <2>1. Size \in Good
    BY <1>6
  <2>2. IsFiniteSet(First(Size)) /\ f[Size] = c * Cardinality(First(Size))
    BY <2>1
  <2> HIDE DEF First
  <2> QED
    BY <1>7, <2>2
<1> QED
  BY <1>1, <1>8, FS_CardinalityType

\* _trend: a fire of which all measurements are equal has none, however its halves
\* are cut and wherever measurements are missing.
LEMMA SteadyTrend ==
  ASSUME Size \in Nat, NEW g \in SUBSET Rows,
         NEW c \in Nat, \A k \in Measured(g) : rows[k].frp = c
  PROVE  Trend(g) = "stable"
<1> DEFINE first == Measured(EarlierHalf(g))
           second == Measured(g) \ first
<1>1. /\ first \in SUBSET Rows /\ second \in SUBSET Rows
      /\ \A k \in first \cup second : rows[k].frp = c
  BY DEF Measured, EarlierHalf
<1>2. /\ Cardinality(first) \in Nat
      /\ TotalFrp(first) = c * Cardinality(first)
  BY <1>1, SteadyTotal
<1>3. /\ Cardinality(second) \in Nat
      /\ TotalFrp(second) = c * Cardinality(second)
  BY <1>1, SteadyTotal
<1> DEFINE earlier == TotalFrp(first) * Cardinality(second)
           later == TotalFrp(second) * Cardinality(first)
<1>4. earlier = later /\ earlier \in Nat
  <2>1. \A a, b \in Nat : (c * a) * b = (c * b) * a /\ (c * a) * b \in Nat
    OBVIOUS
  <2> HIDE DEF first, second
  <2> QED
    BY <1>2, <1>3, <2>1
<1>5. ~(5 * later > 6 * earlier) /\ ~(5 * later < 4 * earlier)
  <2> HIDE DEF earlier, later
  <2> QED
    BY <1>4
<1> QED
  BY <1>5 DEF Trend

-----------------------------------------------------------------------------
(* The incidents are the components, each once *)

LEMMA ComponentsApart ==
  ASSUME ClusterInv, phase = "done"
  PROVE  /\ Size \in Nat
         /\ IsFiniteSet(Components)
         /\ \A g \in Components : g \in SUBSET Rows /\ g # {}
         /\ \A g, h \in Components : g # h => g \cap h = {}
<1>1. ClusterTypeOK /\ i = Size + 1 /\ Size \in Nat /\ Rows = 1..Size
  BY SizeIsNat DEF ClusterInv, LoopInv
<1>2. groups \in [Rows -> SUBSET Rows]
  BY <1>1 DEF ClusterTypeOK
<1>3. IsFiniteSet(Components)
  <2> DEFINE Values == {groups[k] : k \in Rows}
  <2>1. IsFiniteSet(Rows)
    BY <1>1, FS_Interval
  <2>2. [k \in Rows |-> groups[k]] \in Surjection(Rows, Values)
    BY DEF Surjection
  <2>3. IsFiniteSet(Values)
    BY <2>1, <2>2, FS_Surjection
  <2> QED
    BY <2>3, FS_Subset DEF Components
<1>4. PICK f \in [Rows -> Rows] : Witness(f)
  BY DEF ClusterInv
<1>5. \A r \in Rows : groups[r] = {k \in Rows : f[k] = r}
  BY <1>1, <1>4 DEF Witness, Gathered, Grouping
<1>6. \A g, h \in Components : g # h => g \cap h = {}
  BY <1>5 DEF Components
<1>7. \A g \in Components : g \in SUBSET Rows /\ g # {}
  BY <1>2 DEF Components
<1> QED
  BY <1>1, <1>3, <1>6, <1>7

LEMMA MinOfRows ==
  ASSUME Size \in Nat, NEW g \in SUBSET Rows, g # {}
  PROVE  Min(g) \in g /\ Min(g) \in Nat
<1>1. g \in SUBSET Nat
  BY DEF Rows
<1>2. \E x \in g : \A y \in g : x <= y
  BY <1>1, LeastNatural
<1> QED
  BY <1>1, <1>2 DEF Min

BeforePairs == {p \in Components \X Components : Before(p[1], p[2])}

\* The sort key of cluster_fires tells components apart.
LEMMA BeforeOrders ==
  ASSUME ClusterInv, phase = "done"
  PROVE  Orders(BeforePairs, Components)
<1>1. \A g \in Components : TotalFrp(g) \in Nat /\ Min(g) \in Nat /\ Min(g) \in g
  BY ComponentsApart, TotalIsNat, MinOfRows
<1>2. \A g, h \in Components : g # h => Min(g) # Min(h)
  BY <1>1, ComponentsApart
<1>3. \A g, h \in Components : <<g, h>> \in BeforePairs <=>
         \/ TotalFrp(g) > TotalFrp(h)
         \/ TotalFrp(g) = TotalFrp(h) /\ Min(g) < Min(h)
  BY DEF BeforePairs, Before
<1>4. \A g \in Components : <<g, g>> \notin BeforePairs
  BY <1>1, <1>3
<1>5. \A g, h \in Components :
         g # h => <<g, h>> \in BeforePairs \/ <<h, g>> \in BeforePairs
  BY <1>1, <1>2, <1>3
<1>6. ASSUME NEW g \in Components, NEW h \in Components, NEW m \in Components,
             <<g, h>> \in BeforePairs, <<h, m>> \in BeforePairs
      PROVE  <<g, m>> \in BeforePairs
  BY <1>1, <1>3, <1>6
<1> QED
  BY <1>4, <1>5, <1>6 DEF Orders

\* The list that is answered has one incident for each component, by Before.
LEMMA ListedOnce ==
  ASSUME ClusterInv, phase = "done"
  PROVE  \E order :
           /\ Incidents = [n \in 1..Cardinality(Components) |-> Incident(order[n])]
           /\ \A n \in 1..Cardinality(Components) : order[n] \in Components
           /\ \A m, n \in 1..Cardinality(Components) :
                 m < n => Before(order[m], order[n])
           /\ \A m, n \in 1..Cardinality(Components) :
                 order[m] = order[n] => m = n
           /\ \A g \in Components :
                 \E n \in 1..Cardinality(Components) : order[n] = g
<1> DEFINE S == Components
           N == Cardinality(S)
           R == BeforePairs
           order == InOrder(Components, Before)
           At(x) == Cardinality(Below(x, R, S))
<1>1. IsFiniteSet(S) /\ N \in Nat /\ Orders(R, S)
  BY ComponentsApart, BeforeOrders, FS_CardinalityType
<1>2. \A x \in S : {y \in S : Before(y, x)} = Below(x, R, S)
  BY DEF Below, BeforePairs
<1>3. order = [n \in 1..N |->
                 CHOOSE x \in S : Cardinality({y \in S : Before(y, x)}) = n - 1]
  BY DEF InOrder
<1>4. ASSUME NEW n \in 1..N
      PROVE  order[n] \in S /\ At(order[n]) = n - 1
  <2>1. \E x \in S : Cardinality({y \in S : Before(y, x)}) = n - 1
    <3>1. \E x \in S : Cardinality(Below(x, R, S)) = n - 1
      <4> QED
        BY <1>1, EveryPosition
    <3> QED
      BY <1>2, <3>1
  <2>2. order[n] =
          CHOOSE x \in S : Cardinality({y \in S : Before(y, x)}) = n - 1
    BY <1>3
  <2> HIDE DEF S, order
  <2>3. /\ order[n] \in S
        /\ Cardinality({y \in S : Before(y, order[n])}) = n - 1
    BY <2>1, <2>2
  <2> QED
    BY <1>2, <2>3
<1>5. /\ \A m, n \in 1..N : m < n => <<order[m], order[n]>> \in R
      /\ \A m, n \in 1..N : order[m] = order[n] => m = n
      /\ \A g \in S : \E n \in 1..N : order[n] = g
  <2>1. \A n \in 1..Cardinality(S) :
           order[n] \in S /\ Cardinality(Below(order[n], R, S)) = n - 1
    BY <1>4
  <2> HIDE DEF S, R, order
  <2> QED
    BY <1>1, <2>1, Enumeration
<1>6. Incidents = [n \in 1..N |-> Incident(order[n])]
  <2>1. DOMAIN order = 1..N
    BY <1>3
  <2> QED
    BY <2>1 DEF Incidents
<1> QED
  BY <1>4, <1>5, <1>6 DEF BeforePairs

LEMMA ShownAreComponents ==
  ASSUME PipelineInv, answer = "data", NEW n \in DOMAIN Shown
  PROVE  \E g \in Components : Shown[n] = Incident(g)
BY ListedOnce DEF PipelineInv, Handover, Shown

\* cluster_fires returns "sorted possible fire areas, including isolated single
\* detections": the strongest first, and no component left out.
ListedByPower ==
    answer = "data" =>
        /\ \A m, n \in DOMAIN Shown : m < n => Shown[m].total >= Shown[n].total
        /\ \A g \in Components : \E n \in DOMAIN Shown : Shown[n] = Incident(g)

\* Whatever the totals, and however many are equal, the sorted list is complete.
THEOREM ListAlwaysComplete == PipelineSpec => []ListedByPower
<1>1. ASSUME PipelineInv, answer = "data"
      PROVE  /\ \A m, n \in DOMAIN Shown : m < n => Shown[m].total >= Shown[n].total
             /\ \A g \in Components : \E n \in DOMAIN Shown : Shown[n] = Incident(g)
  <2>1. phase = "done" /\ ClusterInv /\ Shown = Incidents
    BY <1>1 DEF PipelineInv, Handover, Shown
  <2> DEFINE N == Cardinality(Components)
  <2>2. PICK order :
           /\ Shown = [n \in 1..N |-> Incident(order[n])]
           /\ \A n \in 1..N : order[n] \in Components
           /\ \A m, n \in 1..N : m < n => Before(order[m], order[n])
           /\ \A g \in Components : \E n \in 1..N : order[n] = g
    BY <2>1, ListedOnce
  <2>3. DOMAIN Shown = 1..N
    BY <2>2
  <2>4. ASSUME NEW m \in 1..N, NEW n \in 1..N, m < n
        PROVE  Shown[m].total >= Shown[n].total
    <3>1. Shown[m].total = TotalFrp(order[m]) /\ Shown[n].total = TotalFrp(order[n])
      BY <2>2 DEF Incident
    <3>2. TotalFrp(order[m]) \in Nat /\ TotalFrp(order[n]) \in Nat
      BY <2>1, ComponentsApart, TotalIsNat
    <3>3. TotalFrp(order[m]) >= TotalFrp(order[n])
      BY <2>2, <2>4, <3>2 DEF Before
    <3> QED
      BY <3>1, <3>3
  <2>5. ASSUME NEW g \in Components
        PROVE  \E n \in 1..N : Shown[n] = Incident(g)
    <3>1. PICK n \in 1..N : order[n] = g
      BY <2>2
    <3> QED
      BY <2>2, <3>1
  <2> QED
    BY <2>3, <2>4, <2>5
<1>2. PipelineInv => ListedByPower
  BY <1>1 DEF ListedByPower
<1> QED
  BY <1>2, PipelineInvariant, PTL

\* A fire that was measured at one power, with or without measurements that are
\* missing, is never said to grow or to shrink.
THEOREM SteadyFiresAreStable == PipelineSpec => []SteadyIsStable
<1>1. ASSUME PipelineInv, NEW n \in DOMAIN Shown,
             Cardinality({d.frp : d \in {x \in Shown[n].detections : x.frp \in Nat}}) = 1
      PROVE  Shown[n].trend = "stable"
  <2>1. answer = "data" /\ phase = "done" /\ ClusterInv
    BY <1>1 DEF Shown, PipelineInv, Handover
  <2>2. PICK g \in Components : Shown[n] = Incident(g)
    BY <1>1, <2>1, ShownAreComponents
  <2>3. Size \in Nat /\ g \in SUBSET Rows /\ Rows = 1..Size
    BY <2>1, ComponentsApart DEF Rows
  <2> DEFINE Powers == {d.frp : d \in {x \in Shown[n].detections : x.frp \in Nat}}
  <2>4. Powers = {rows[k].frp : k \in Measured(g)}
    <3>1. Shown[n].detections = {rows[k] : k \in g}
      BY <2>2 DEF Incident
    <3> QED
      BY <3>1 DEF Measured
  <2>5. IsFiniteSet(Powers)
    <3>1. IsFiniteSet(Measured(g))
      <4>1. IsFiniteSet(1..Size)
        BY <2>3, FS_Interval
      <4>2. Measured(g) \in SUBSET (1..Size)
        BY <2>3 DEF Measured
      <4> QED
        BY <4>1, <4>2, FS_Subset
    <3>2. [k \in Measured(g) |-> rows[k].frp] \in Surjection(Measured(g), Powers)
      BY <2>4 DEF Surjection
    <3> QED
      BY <3>1, <3>2, FS_Surjection
  <2>6. PICK c : Powers = {c}
    BY <1>1, <2>5, FS_Singleton
  <2>7. c \in Nat /\ \A k \in Measured(g) : rows[k].frp = c
    BY <2>4, <2>6 DEF Measured
  <2>8. Trend(g) = "stable"
    BY <2>3, <2>7, SteadyTrend
  <2> QED
    BY <2>2, <2>8 DEF Incident
<1>2. PipelineInv => SteadyIsStable
  BY <1>1 DEF SteadyIsStable
<1> QED
  BY <1>2, PipelineInvariant, PTL

\* The ring that is served goes around each detection: rounding the corners of the
\* hull takes none of its edges across a detection, and none back on its way.
LEMMA ServedRingGoesAround ==
  ASSUME NEW P \in SUBSET Plane, NEW D \in SUBSET Plane, NEW hull,
         IsHull(hull, P, D), RunsAround(hull, P), NEW x \in Plane, WideBuffer(x, P)
  PROVE  GoesAround([k \in DOMAIN hull |-> GridPoint(hull[k])], x)
<1> DEFINE M == Len(hull)
           After(k) == (k % M) + 1
           ring == [k \in DOMAIN hull |-> GridPoint(hull[k])]
           at == [k \in 1..M |-> ring[k][1]]
           Left(k) == at[k] <= x[1]
<1>1. /\ M \in Nat /\ M >= 3 /\ DOMAIN hull = 1..M
      /\ \A k \in 1..M : /\ hull[k] \in Plane /\ hull[k] \in P
                         /\ \A y \in P : Cross(hull[k], hull[After(k)], y) >= 0
  BY DEF IsHull, RunsAround
<1>2. /\ Len(ring) = M /\ DOMAIN ring = 1..M
      /\ \A k \in 1..M : ring[k] = GridPoint(hull[k])
  <2>1. DOMAIN ring = 1..M /\ \A k \in 1..M : ring[k] = GridPoint(hull[k])
    BY <1>1
  <2>2. ring \in Seq({ring[k] : k \in 1..M})
    <3> HIDE DEF M
    <3>1. ring = [k \in 1..M |-> ring[k]]
      BY <1>1
    <3> HIDE DEF ring
    <3>2. ring \in [1..M -> {ring[k] : k \in 1..M}]
      BY <3>1
    <3> QED
      BY <1>1, <3>2
  <2>3. Len(ring) \in Nat /\ DOMAIN ring = 1..Len(ring)
    <3> HIDE DEF ring, M
    <3> QED
      BY <2>2
  <2> HIDE DEF ring, M
  <2> QED
    BY <1>1, <2>1, <2>3
<1>3. \A k \in 1..M : After(k) = (IF k = M THEN 1 ELSE k + 1) /\ After(k) \in 1..M
  <2> HIDE DEF M
  <2>1. \A k \in 1..M : After(k) = IF k = M THEN 1 ELSE k + 1
    BY <1>1, NextCorner
  <2> HIDE DEF After
  <2>2. \A k \in 1..M : 1 \in 1..M /\ (k # M => k + 1 \in 1..M)
    BY <1>1
  <2> QED
    BY <2>1, <2>2
<1>4. PICK turn \in 1..M :
        /\ \A k, l \in 1..turn : k <= l => hull[k][1] <= hull[l][1]
        /\ \A k, l \in turn..M : k <= l => hull[l][1] <= hull[k][1]
        /\ \A y \in P : hull[1][1] <= y[1] /\ y[1] <= hull[turn][1]
  BY <1>1 DEF RunsAround
<1> HIDE DEF M, ring, After
\* The corners that are served run to the right and back, as those of the hull do.
<1>5. /\ \A k \in 1..M : at[k] = ring[k][1] /\ at[k] \in Int
      /\ \A k, l \in 1..M : hull[k][1] <= hull[l][1] => at[k] <= at[l]
  <2>1. ASSUME NEW k \in 1..M
        PROVE  /\ at[k] = ring[k][1] /\ at[k] \in Int /\ hull[k][1] \in Int
               /\ at[k] = FiveDecimals * Rounded(hull[k][1], FiveDecimals)
    <3>1. hull[k][1] \in Int /\ GridPoint(hull[k])[1] \in Int
      BY <1>1, GridPointIsNear DEF Plane
    <3>2. GridPoint(hull[k])[1] = FiveDecimals * Rounded(hull[k][1], FiveDecimals)
      BY DEF GridPoint
    <3> QED
      BY <1>2, <3>1, <3>2
  <2>2. ASSUME NEW k \in 1..M, NEW l \in 1..M, hull[k][1] <= hull[l][1]
        PROVE  at[k] <= at[l]
    <3> HIDE DEF at
    <3> QED
      BY <2>1, <2>2, RoundedKeepsOrder
  <2> QED
    BY <2>1, <2>2
<1> HIDE DEF at
<1>6. /\ \A k, l \in 1..turn : k <= l => at[k] <= at[l]
      /\ \A k, l \in turn..M : k <= l => at[l] <= at[k]
  BY <1>1, <1>4, <1>5
\* They reach past the detection on both sides.
<1>7. at[1] <= x[1] /\ at[turn] > x[1]
  <2>1. PICK w \in Int : /\ w > FiveDecimals
                         /\ <<x[1] + w, x[2]>> \in P /\ <<x[1] - w, x[2]>> \in P
    BY DEF WideBuffer
  <2>2. 1 \in 1..M /\ hull[1] \in Plane /\ hull[turn] \in Plane
    BY <1>1
  <2>3. hull[1][1] \in Int /\ hull[turn][1] \in Int /\ x[1] \in Int /\ FiveDecimals \in Nat
    BY <2>2, RoundingAssumption DEF Plane
  <2>4. hull[1][1] <= x[1] - w /\ x[1] + w <= hull[turn][1]
    BY <1>4, <2>1
  <2>5. /\ 2 * at[1] - 2 * hull[1][1] <= FiveDecimals
        /\ 2 * hull[turn][1] - 2 * at[turn] <= FiveDecimals
    BY <1>2, <1>5, <2>2, GridPointIsNear
  <2> QED
    BY <1>5, <2>1, <2>2, <2>3, <2>4, <2>5
\* There is one step to the right past it ...
<1>8. PICK below \in 1..M : {k \in 1..M : Left(k) /\ ~Left(After(k))} = {below}
  <2> DEFINE Right == {k \in 1..turn : at[k] > x[1]}
  <2>1. PICK r \in Right : \A k \in Right : r <= k
    <3>1. Right \in SUBSET Nat /\ Right # {}
      BY <1>7
    <3> HIDE DEF Right
    <3> QED
      BY <3>1, LeastNatural
  <2>2. r \in 2..turn /\ x[1] \in Int
    <3>1. x[1] \in Int /\ at[1] \in Int /\ at[r] > x[1] /\ r \in 1..turn
      BY <1>1, <1>5 DEF Plane
    <3>2. r # 1
      BY <1>7, <3>1
    <3> QED
      BY <3>1, <3>2
  <2>3. r - 1 \in 1..turn /\ r - 1 \in 1..M /\ r \in 1..M /\ After(r - 1) = r
    BY <1>1, <1>3, <2>2
  <2>4. at[r - 1] <= x[1] /\ at[r] > x[1]
    <3>1. r - 1 \notin Right
      BY <2>1, <2>2
    <3> QED
      BY <1>5, <2>1, <2>2, <2>3, <3>1
  <2>5. Left(r - 1) /\ ~Left(After(r - 1))
    BY <1>5, <2>2, <2>3, <2>4
  <2>6. ASSUME NEW k \in 1..M, Left(k), ~Left(After(k))
        PROVE  k = r - 1
    <3>1. After(k) \in 1..M /\ at[k] \in Int /\ at[After(k)] \in Int /\ x[1] \in Int
      BY <1>3, <1>5, <2>2
    <3>2. at[k] <= x[1] /\ at[After(k)] > x[1]
      BY <2>6, <3>1
    <3>3. k # M /\ After(k) = k + 1
      BY <1>3, <1>7, <3>1, <3>2
    <3>4. k < turn
      <4> SUFFICES ASSUME turn <= k
                   PROVE  FALSE
        BY <1>1
      <4>1. k \in turn..M /\ k + 1 \in turn..M /\ k <= k + 1
        BY <1>1, <3>1, <3>3
      <4>2. at[k + 1] <= at[k]
        BY <1>6, <4>1
      <4> QED
        BY <3>1, <3>2, <3>3, <4>2
    <3>5. k \in 1..turn /\ k + 1 \in Right
      BY <1>1, <3>2, <3>3, <3>4
    <3>6. ~(r <= k)
      <4> SUFFICES ASSUME r <= k
                   PROVE  FALSE
        OBVIOUS
      <4>1. at[r] <= at[k]
        BY <1>6, <2>2, <3>5
      <4> QED
        BY <1>5, <2>2, <2>3, <2>4, <3>1, <3>2, <4>1
    <3>7. r <= k + 1
      BY <2>1, <3>5
    <3> QED
      BY <2>2, <3>5, <3>6, <3>7
  <2>7. {k \in 1..M : Left(k) /\ ~Left(After(k))} = {r - 1}
    <3> HIDE DEF Left
    <3> QED
      BY <2>3, <2>5, <2>6
  <2> QED
    BY <2>3, <2>7
\* ... and one back.
<1>9. PICK above \in 1..M : {k \in 1..M : ~Left(k) /\ Left(After(k))} = {above}
  <2> DEFINE Right == {k \in turn..M : at[k] > x[1]}
  <2>1. PICK r \in Right : \A k \in Right : r >= k
    <3>1. Right \in SUBSET (1..M) /\ Right # {}
      BY <1>1, <1>7
    <3> HIDE DEF Right
    <3> QED
      BY <1>1, <3>1, GreatestBelow
  <2>2. r \in turn..M /\ r \in 1..M /\ x[1] \in Int /\ at[r] > x[1]
    BY <1>1, <2>1 DEF Plane
  <2>3. After(r) \in 1..M /\ at[After(r)] \in Int /\ at[r] \in Int
    BY <1>3, <1>5, <2>2
  <2>4. at[After(r)] <= x[1]
    <3>1. CASE r = M
      BY <1>3, <1>7, <2>2, <3>1
    <3>2. CASE r # M
      <4>1. After(r) = r + 1 /\ r + 1 \in turn..M /\ ~(r >= r + 1)
        BY <1>1, <1>3, <2>2, <3>2
      <4>2. r + 1 \notin Right
        BY <2>1, <4>1
      <4> QED
        BY <2>2, <2>3, <4>1, <4>2
    <3> QED
      BY <3>1, <3>2
  <2>5. ~Left(r) /\ Left(After(r))
    BY <2>2, <2>3, <2>4
  <2>6. ASSUME NEW k \in 1..M, ~Left(k), Left(After(k))
        PROVE  k = r
    <3>1. After(k) \in 1..M /\ at[k] \in Int /\ at[After(k)] \in Int
      BY <1>3, <1>5
    <3>2. at[k] > x[1] /\ at[After(k)] <= x[1]
      BY <2>2, <2>6, <3>1
    <3>3. turn <= k
      <4> SUFFICES ASSUME k < turn
                   PROVE  FALSE
        BY <1>1
      <4>1. After(k) = k + 1 /\ k \in 1..turn /\ k + 1 \in 1..turn /\ k <= k + 1
        BY <1>1, <1>3
      <4>2. at[k] <= at[k + 1]
        BY <1>6, <4>1
      <4> QED
        BY <2>2, <3>1, <3>2, <4>1, <4>2
    <3>4. k \in Right /\ k <= r
      <4>1. k \in turn..M
        BY <1>1, <3>3
      <4>2. k \in Right
        BY <3>2, <4>1
      <4> QED
        BY <1>1, <2>1, <2>2, <4>1, <4>2
    <3>5. ~(k < r)
      <4> SUFFICES ASSUME k < r
                   PROVE  FALSE
        OBVIOUS
      <4>1. After(k) = k + 1 /\ k + 1 \in turn..M /\ k + 1 <= r
        BY <1>1, <1>3, <2>2, <3>3
      <4>2. at[r] <= at[k + 1]
        BY <1>6, <2>2, <4>1
      <4> QED
        BY <2>2, <2>3, <3>1, <3>2, <4>1, <4>2
    <3> QED
      BY <1>1, <2>2, <3>4, <3>5
  <2>7. {k \in 1..M : ~Left(k) /\ Left(After(k))} = {r}
    <3> HIDE DEF Left
    <3> QED
      BY <2>2, <2>5, <2>6
  <2> QED
    BY <2>2, <2>7
\* Both pass it on the side the hull passes it on.
<1>10. ASSUME NEW k \in 1..M, Left(k) # Left(After(k))
       PROVE  Cross(ring[k], ring[After(k)], x) > 0
  <2>1. After(k) \in 1..M /\ hull[k] \in Plane /\ hull[After(k)] \in Plane
    BY <1>1, <1>3
  <2>2. ring[k] = GridPoint(hull[k]) /\ ring[After(k)] = GridPoint(hull[After(k)])
    BY <1>2, <2>1
  <2>3. (GridPoint(hull[k])[1] <= x[1]) # (GridPoint(hull[After(k)])[1] <= x[1])
    BY <1>5, <1>10, <2>1, <2>2
  <2>4. \A y \in P : Cross(hull[k], hull[After(k)], y) >= 0
    BY <1>1
  <2>5. Cross(GridPoint(hull[k]), GridPoint(hull[After(k)]), x) > 0
    BY <2>1, <2>3, <2>4, RoundedEdgePasses
  <2> QED
    BY <2>2, <2>5
<1>11. /\ Left(below) /\ ~Left(After(below))
       /\ ~Left(above) /\ Left(After(above))
  <2> HIDE DEF Left
  <2> QED
    BY <1>8, <1>9
<1>12. /\ Cross(ring[below], ring[After(below)], x) > 0
       /\ Cross(ring[above], ring[After(above)], x) > 0
  BY <1>10, <1>11
<1>13. \A k \in 1..M : Left(k) <=> ring[k][1] <= x[1]
  BY <1>5
<1>14. GoesAround(ring, x)
  <2>1. \A k \in 1..M : /\ ring[k][1] <= x[1] <=> Left(k)
                        /\ ring[(k % M) + 1][1] <= x[1] <=> Left(After(k))
    BY <1>3, <1>13 DEF After
  <2>2. /\ {k \in 1..M : ring[k][1] <= x[1] /\ ~(ring[(k % M) + 1][1] <= x[1])} = {below}
        /\ {k \in 1..M : ~(ring[k][1] <= x[1]) /\ ring[(k % M) + 1][1] <= x[1]} = {above}
    <3> HIDE DEF Left
    <3> QED
      BY <1>8, <1>9, <2>1
  <2> QED
    BY <1>2, <1>12, <2>2 DEF GoesAround, After
<1> QED
  BY <1>14 DEF ring

\* Every boundary that the client is shown goes around all of its detections, however
\* these lie: the sort key of the points, what the loops of _convex_hull drop, the
\* ends that lower[:-1] and upper[:-1] leave out and the decimals fit together.
THEOREM EnvelopesAlwaysEnclose == PipelineSpec => []EnvelopesEnclose
<1>1. ASSUME PipelineInv, NEW n \in DOMAIN Shown
      PROVE  /\ Len(Shown[n].boundary) >= 3
             /\ \A d \in Shown[n].detections : GoesAround(Shown[n].boundary, d.place)
  <2>1. answer = "data" /\ phase = "done" /\ ClusterInv
    BY <1>1 DEF Shown, PipelineInv, Handover
  <2>2. PICK g \in Components : Shown[n] = Incident(g)
    BY <1>1, <2>1, ShownAreComponents
  <2>3. g \in SUBSET Rows /\ g # {} /\ rows \in Seq(Detections)
    BY <2>1, ComponentsApart DEF ClusterInv, ClusterTypeOK
  <2> DEFINE P == Buffers(g)
             hull == ConvexHull(P)
             ring == [k \in DOMAIN hull |-> GridPoint(hull[k])]
  <2>4. /\ P \in SUBSET Plane
        /\ \A x \in Places(g) : x \in Plane /\ WideBuffer(x, P)
        /\ IsHull(hull, P, Places(g)) /\ RunsAround(hull, P)
    BY <2>3, BuffersHaveHull
  <2>5. Shown[n].boundary = ring /\ Shown[n].detections = {rows[k] : k \in g}
    BY <2>2 DEF Incident, Envelope
  <2>6. \A d \in Shown[n].detections : d.place \in Places(g)
    BY <2>5 DEF Places
  <2>7. Len(ring) >= 3
    <3>1. Len(hull) \in Nat /\ Len(hull) >= 3 /\ DOMAIN hull = 1..Len(hull)
      BY <2>4 DEF IsHull, RunsAround
    <3> HIDE DEF hull
    <3>2. ring \in [1..Len(hull) -> {GridPoint(hull[k]) : k \in 1..Len(hull)}]
      BY <3>1
    <3> HIDE DEF ring
    <3>3. Len(ring) = Len(hull)
      BY <3>1, <3>2
    <3> QED
      BY <3>1, <3>3
  <2>8. \A x \in Places(g) : GoesAround(ring, x)
    <3>1. Places(g) \in SUBSET Plane
      BY <2>4
    <3> HIDE DEF P, hull
    <3> QED
      BY <2>4, <3>1, ServedRingGoesAround
  <2> HIDE DEF ring
  <2> QED
    BY <2>5, <2>6, <2>7, <2>8
<1>2. PipelineInv => EnvelopesEnclose
  BY <1>1 DEF EnvelopesEnclose
<1> QED
  BY <1>2, PipelineInvariant, PTL

\* The format tells more coordinates apart than the rounding: all but the sign of
\* zero is the same in both.
LEMMA FixedIsFiner ==
  ASSUME NEW x \in Int, NEW y \in Int, Fixed(x, FiveDecimals) = Fixed(y, FiveDecimals)
  PROVE  Rounded(x, FiveDecimals) = Rounded(y, FiveDecimals)
<1>1. /\ (x < 0) = (y < 0)
      /\ Nearest(Magnitude(x), FiveDecimals) = Nearest(Magnitude(y), FiveDecimals)
  BY DEF Fixed
<1> QED
  BY <1>1 DEF Rounded

\* Rows of an accepted frame differ in what the ID is made of.
LEMMA FingerprintsApart ==
  ASSUME PipelineInv, phase = "done", NEW k \in Rows, NEW l \in Rows,
         Fingerprint(rows[k]) = Fingerprint(rows[l])
  PROVE  k = l
<1>1. rows \in Frames(kept) /\ rows \in Seq(Detections)
  BY DEF PipelineInv, Handover, ClusterInv, ClusterTypeOK
<1>2. DOMAIN rows = Rows /\ rows[k] \in kept /\ rows[l] \in kept
  <2>1. DOMAIN rows = Rows
    BY <1>1 DEF Rows, Size
  <2>2. rows \in [1..Cardinality(kept) -> kept]
    BY <1>1 DEF Frames
  <2>3. DOMAIN rows = 1..Cardinality(kept) /\ \A n \in DOMAIN rows : rows[n] \in kept
    BY <2>2
  <2> QED
    BY <2>1, <2>3
<1>3. SameIdentity(rows[k], rows[l])
  <2>1. /\ Fixed(rows[k].place[1], FiveDecimals) = Fixed(rows[l].place[1], FiveDecimals)
        /\ Fixed(rows[k].place[2], FiveDecimals) = Fixed(rows[l].place[2], FiveDecimals)
        /\ rows[k].time = rows[l].time /\ rows[k].satellite = rows[l].satellite
    BY DEF Fingerprint
  <2>2. rows[k] \in Detections /\ rows[l] \in Detections
    BY <1>1, <1>2
  <2>3. /\ rows[k].place[1] \in Int /\ rows[k].place[2] \in Int
        /\ rows[l].place[1] \in Int /\ rows[l].place[2] \in Int
    BY <2>2, PlaneAssumption
  <2>4. \A axis \in {1, 2} : Rounded(rows[k].place[axis], FiveDecimals)
                              = Rounded(rows[l].place[axis], FiveDecimals)
    BY <2>1, <2>3, FixedIsFiner
  <2> QED
    BY <2>1, <2>4 DEF SameIdentity, SamePlace
<1>4. rows[k] = rows[l]
  BY <1>2, <1>3, KeptApart DEF PipelineInv, PayloadInv
<1> QED
  BY <1>1, <1>2, <1>4 DEF Frames

\* Incident IDs tell incidents apart, and every detection counts in its ID: what
\* the validation takes for one detection, by round(x, 5), is never finer than
\* what the ID is made of, by :.5f.
THEOREM IdsAlwaysIdentify == PipelineSpec => []IdsIdentify
<1>1. ASSUME PipelineInv, phase = "done", NEW g \in Components
      PROVE  Cardinality(IncidentId(g)) = Cardinality({rows[k] : k \in g})
  <2> DEFINE F(k) == Fingerprint(rows[k])
             id == {F(k) : k \in g}
             members == {rows[k] : k \in g}
  <2>1. g \in SUBSET Rows /\ Size \in Nat
    BY <1>1, ComponentsApart DEF PipelineInv
  <2>2. IsFiniteSet(g)
    <3>1. IsFiniteSet(1..Size)
      BY <2>1, FS_Interval
    <3> QED
      BY <2>1, <3>1, FS_Subset DEF Rows
  <2>3. \A k, l \in g : F(k) = F(l) => k = l
    BY <1>1, <2>1, FingerprintsApart
  <2>4. [k \in g |-> F(k)] \in Bijection(g, id)
    <3> HIDE DEF F
    <3> QED
      BY <2>3 DEF Bijection, Injection, Surjection, IsInjective
  <2>5. [k \in g |-> rows[k]] \in Bijection(g, members)
    <3>1. \A k, l \in g : rows[k] = rows[l] => k = l
      BY <2>3
    <3> HIDE DEF F
    <3> QED
      BY <3>1 DEF Bijection, Injection, Surjection, IsInjective
  <2>6. Cardinality(id) = Cardinality(g) /\ Cardinality(members) = Cardinality(g)
    <3> HIDE DEF id, members
    <3> QED
      BY <2>2, <2>4, <2>5, FS_Bijection DEF ExistsBijection
  <2> QED
    BY <2>6 DEF IncidentId
<1>2. ASSUME PipelineInv, phase = "done", NEW g \in Components, NEW h \in Components,
             IncidentId(g) = IncidentId(h)
      PROVE  g = h
  <2>1. g \in SUBSET Rows /\ h \in SUBSET Rows /\ g # {}
    BY <1>2, ComponentsApart DEF PipelineInv
  <2>2. PICK k \in g : TRUE
    BY <2>1
  <2>3. Fingerprint(rows[k]) \in IncidentId(h)
    BY <1>2 DEF IncidentId
  <2>4. PICK l \in h : Fingerprint(rows[k]) = Fingerprint(rows[l])
    BY <2>3 DEF IncidentId
  <2>5. k = l
    BY <1>2, <2>1, <2>4, FingerprintsApart
  <2> QED
    BY <1>2, <2>2, <2>4, <2>5, ComponentsApart DEF PipelineInv
<1>3. PipelineInv => IdsIdentify
  <2> SUFFICES ASSUME PipelineInv, answer = "data"
               PROVE  IdsIdentify
    BY DEF IdsIdentify, Shown
  <2>1. phase = "done" /\ ClusterInv /\ Shown = Incidents
    BY DEF PipelineInv, Handover, Shown
  <2> DEFINE N == Cardinality(Components)
  <2>2. PICK order :
           /\ Shown = [n \in 1..N |-> Incident(order[n])]
           /\ \A n \in 1..N : order[n] \in Components
           /\ \A m, n \in 1..N : order[m] = order[n] => m = n
    BY <2>1, ListedOnce
  <2>3. DOMAIN Shown = 1..N
    BY <2>2
  <2>4. ASSUME NEW n \in 1..N
        PROVE  /\ Shown[n].id = IncidentId(order[n])
               /\ Shown[n].detections = {rows[k] : k \in order[n]}
    BY <2>2 DEF Incident
  <2>5. ASSUME NEW n \in 1..N
        PROVE  Cardinality(Shown[n].id) = Cardinality(Shown[n].detections)
    BY <1>1, <2>1, <2>2, <2>4
  <2>6. ASSUME NEW m \in 1..N, NEW n \in 1..N, Shown[m].id = Shown[n].id
        PROVE  m = n
    BY <1>2, <2>1, <2>2, <2>4, <2>6
  <2> QED
    BY <2>3, <2>5, <2>6 DEF IdsIdentify
<1> QED
  BY <1>3, PipelineInvariant, PTL
=============================================================================
