------------------------- MODULE HistoryIngestProofs -------------------------
(***************************************************************************)
(* Proofs about HistoryIngest for every set of detections, every link      *)
(* between them and any number of overlapping attempts.                    *)
(***************************************************************************)
EXTENDS HistoryIngest, WellFoundedInduction, TLAPS

-----------------------------------------------------------------------------
(* The choices of historical_models.py are choices of something *)

\* The least of f, the one of least g among several: pairs of numbers are well
\* ordered by their parts.
LEMMA LeastPair ==
    ASSUME NEW S, S # {}, NEW f, NEW g,
           \A x \in S : f[x] \in Nat /\ g[x] \in Nat
    PROVE  \E x \in S : \A y \in S : \/ f[x] < f[y]
                                     \/ f[x] = f[y] /\ g[x] <= g[y]
<1> DEFINE Less == {p \in Nat \X Nat : p[1] < p[2]}
           Lex == LexPairOrdering(Less, Less, Nat, Nat)
           T == {<<f[x], g[x]>> : x \in S}
<1>1. \A m, n \in Nat : m < n => <<m, n>> \in Less
  OBVIOUS
<1>2. IsWellFoundedOn(Lex, Nat \X Nat)
  <2>1. IsWellFoundedOn(Less, Nat)
    BY NatLessThanWellFounded DEF OpToRel
  <2> HIDE DEF Less
  <2> QED
    BY <2>1, WFLexPairOrdering
<1>3. T \subseteq Nat \X Nat /\ T # {}
  <2>1. \A x \in S : <<f[x], g[x]>> \in Nat \X Nat
    OBVIOUS
  <2>2. PICK x \in S : TRUE
    OBVIOUS
  <2>3. <<f[x], g[x]>> \in T
    OBVIOUS
  <2> QED
    BY <2>1, <2>3
<1>4. PICK p \in T : \A q \in T : ~(<<q, p>> \in Lex)
  <2> HIDE DEF Lex, T
  <2> QED
    BY <1>2, <1>3, WFMin, ZenonT(60)
<1>5. PICK x \in S : p = <<f[x], g[x]>>
  BY <1>4
<1> HIDE DEF Less
<1>6. ASSUME NEW y \in S
      PROVE  f[x] < f[y] \/ (f[x] = f[y] /\ g[x] <= g[y])
  <2> DEFINE q == <<f[y], g[y]>>
  <2>1. ~(<<q, p>> \in Lex)
    BY <1>4
  <2>2. /\ q \in Nat \X Nat /\ p \in Nat \X Nat
        /\ q[1] = f[y] /\ q[2] = g[y] /\ p[1] = f[x] /\ p[2] = g[x]
    BY <1>5
  <2> HIDE DEF q
  <2>3. ~(<<f[y], f[x]>> \in Less) /\ ~(f[y] = f[x] /\ <<g[y], g[x]>> \in Less)
    BY <2>1, <2>2 DEF LexPairOrdering
  <2>4. ~(f[y] < f[x]) /\ ~(f[y] = f[x] /\ g[y] < g[x])
    BY <1>1, <2>3
  <2> QED
    BY <2>4
<1> QED
  BY <1>6

\* The earliest of some detections, the one of least f among simultaneous ones
LEMMA EarliestExists ==
    ASSUME NEW S \in SUBSET Detections, S # {},
           NEW f, \A d \in S : f[d] \in Nat
    PROVE  \E d \in S : \A e \in S :
               \/ Observed[d] < Observed[e]
               \/ Observed[d] = Observed[e] /\ f[d] <= f[e]
<1>1. \A d \in S : Observed[d] \in Nat /\ f[d] \in Nat
  BY HistoryAssumption
<1> QED
  BY <1>1, LeastPair

\* _new_cluster_id names a component after one of its members.
LEMMA AnchorIsMember ==
    ASSUME NEW C \in SUBSET Detections, C # {}
    PROVE  Anchor(C) \in C
<1> DEFINE f == [d \in C |-> d]
<1>1. \A d \in C : f[d] \in Nat
  BY HistoryAssumption
<1>2. \E d \in C : \A e \in C :
         \/ Observed[d] < Observed[e]
         \/ Observed[d] = Observed[e] /\ f[d] <= f[e]
  <2> HIDE DEF f
  <2> QED
    BY <1>1, EarliestExists
<1>3. \E d \in C : \A e \in C :
         \/ Observed[d] < Observed[e]
         \/ Observed[d] = Observed[e] /\ d <= e
  BY <1>2
<1> QED
  BY <1>3 DEF Anchor

Known == [Detections -> ClusterIds \cup {None}]

\* _canonical_cluster_id: a component whose old ID is still free keeps one of
\* the free ones; any other is named after a member.
LEMMA ClusterIdType ==
    ASSUME NEW V, NEW C \in SUBSET Detections, C # {}, NEW known \in Known
    PROVE  /\ ClusterId(C, V, known) \in ClusterIds
           /\ Available(C, V, known) # {} =>
                 ClusterId(C, V, known) \in Available(C, V, known)
           /\ Available(C, V, known) \subseteq ClusterIds
<1> DEFINE free == Available(C, V, known)
           owners == {d \in C : known[d] \in free}
           Early(d) == \A e \in owners :
                         \/ Observed[d] < Observed[e]
                         \/ Observed[d] = Observed[e] /\ known[d] <= known[e]
<1>1. free \subseteq ClusterIds
  BY DEF Available, KnownIds, Known
<1>2. CASE free = {}
  <2>1. ClusterId(C, V, known) = Anchor(C)
    BY <1>2 DEF ClusterId
  <2> QED
    BY <1>2, <2>1, AnchorIsMember DEF ClusterIds
<1>3. CASE free # {}
  <2>1. owners \in SUBSET Detections /\ owners # {}
    BY <1>3 DEF Available, KnownIds
  <2>2. \A d \in owners : known[d] \in Nat
    BY <1>1, HistoryAssumption DEF ClusterIds
  <2>3. \E d \in owners : Early(d)
    <3> HIDE DEF owners
    <3> QED
      BY <2>1, <2>2, EarliestExists
  <2>4. (CHOOSE d \in owners : Early(d)) \in owners
    <3> HIDE DEF owners, Early
    <3> QED
      BY <2>3
  <2>5. ClusterId(C, V, known) = known[CHOOSE d \in owners : Early(d)]
    BY <1>3 DEF ClusterId
  <2>6. ClusterId(C, V, known) \in free
    BY <2>4, <2>5
  <2> QED
    BY <1>1, <2>6
<1> QED
  BY <1>1, <1>2, <1>3

-----------------------------------------------------------------------------
(* build_ingestion_batch *)

LEMMA ComponentsOfSet ==
    ASSUME NEW V \in SUBSET Detections
    PROVE  /\ \A C \in Components(V) : C \in SUBSET V /\ C # {}
           /\ \A d \in V : Component(d, V) \in Components(V)
BY DEF Components, Component

LEMMA BatchType ==
    ASSUME NEW V \in SUBSET Detections, NEW known \in Known, NEW at \in Hours
    PROVE  /\ Batch(V, known, at) \subseteq Row
           /\ \A d \in V : Placed(V, known, at)[d]
                              \in [cluster : ClusterIds, at : Hours]
           /\ DOMAIN Placed(V, known, at) = V
<1>1. ASSUME NEW C \in Components(V)
      PROVE  /\ ActiveRow(C, V, known, at) \in Row
             /\ Tombstones(C, V, known, at) \subseteq Row
  <2>1. C \in SUBSET Detections /\ C # {}
    BY ComponentsOfSet
  <2>2. /\ ClusterId(C, V, known) \in ClusterIds
        /\ Available(C, V, known) \subseteq ClusterIds
    BY <2>1, ClusterIdType
  <2> QED
    BY <2>1, <2>2 DEF ActiveRow, Tombstones, Merged, Row
<1>2. Batch(V, known, at) \subseteq Row
  BY <1>1 DEF Batch
<1>3. ASSUME NEW d \in V
      PROVE  Placed(V, known, at)[d] \in [cluster : ClusterIds, at : Hours]
  <2>1. Component(d, V) \in SUBSET Detections /\ Component(d, V) # {}
    BY ComponentsOfSet
  <2>2. ClusterId(Component(d, V), V, known) \in ClusterIds
    BY <2>1, ClusterIdType
  <2> QED
    BY <2>2 DEF Placed
<1> QED
  BY <1>2, <1>3 DEF Placed

\* Every tombstone of a batch names the cluster of an active row of it.
LEMMA TombstoneHasTarget ==
    ASSUME NEW V \in SUBSET Detections, NEW known \in Known, NEW at \in Hours,
           NEW row \in Batch(V, known, at), ~IsActive(row)
    PROVE  \E target \in Batch(V, known, at) :
               /\ IsActive(target)
               /\ target.at = row.at
               /\ target.cluster = row.into
<1>1. PICK C \in Components(V) :
         row \in {ActiveRow(C, V, known, at)} \cup Tombstones(C, V, known, at)
  BY DEF Batch
<1>2. IsActive(ActiveRow(C, V, known, at))
  BY DEF IsActive, ActiveRow
<1>3. row \in Tombstones(C, V, known, at)
  BY <1>1, <1>2
<1>4. row.at = at /\ row.into = ClusterId(C, V, known)
  BY <1>3 DEF Tombstones
<1>5. ActiveRow(C, V, known, at) \in Batch(V, known, at)
  BY <1>1 DEF Batch
<1> QED
  BY <1>2, <1>4, <1>5 DEF ActiveRow

-----------------------------------------------------------------------------
(* Types *)

LEMMA TypeInit == Init => TypeOK
BY HistoryAssumption DEF Init, TypeOK, Hours, NoFrame, Idle, NotStored, None

RunType == [pc : {"idle", "clustered", "stamped", "resolved"},
            ids : SUBSET Detections, at : Hours,
            known : [Detections -> ClusterIds \cup {None}]]

LEMMA IdleType == Idle \in RunType
BY HistoryAssumption DEF Idle, RunType, Hours

\* What a committing attempt writes
LEMMA CommitType ==
    ASSUME TypeOK, NEW r \in Runs, Commit(r)
    PROVE  /\ run[r].ids \in SUBSET Detections
           /\ run[r].known \in Known
           /\ run[r].at \in Hours
BY DEF TypeOK, Known

LEMMA TypeStep == TypeOK /\ [Next]_vars => TypeOK'
<1> SUFFICES ASSUME TypeOK, [Next]_vars
             PROVE  TypeOK'
  OBVIOUS
<1> USE DEF TypeOK
<1>1. CASE Tick
  BY <1>1, HistoryAssumption DEF Tick, Hours
<1>2. ASSUME NEW d \in Detections, Publish(d)
      PROVE  TypeOK'
  BY <1>2 DEF Publish
<1>3. ASSUME NEW r \in Runs, Fetch(r)
      PROVE  TypeOK'
  <2>1. PICK f \in {NasaAnswer} \cup {g \in {frame[r]} : g.at >= hour - 1
                                                        /\ g.at # None} :
           /\ frame' = [frame EXCEPT ![r] = f]
           /\ run' = [run EXCEPT ![r] = [Idle EXCEPT !.pc = "clustered",
                                                     !.ids = f.ids]]
    BY <1>3 DEF Fetch
  <2>2. f \in [ids : SUBSET Detections, at : Hours \cup {None}]
    BY <2>1 DEF NasaAnswer
  <2>3. [Idle EXCEPT !.pc = "clustered", !.ids = f.ids] \in RunType
    BY <2>2, IdleType DEF RunType
  <2>4. run' \in [Runs -> RunType]
    BY <2>1, <2>3 DEF RunType
  <2> QED
    BY <1>3, <2>1, <2>2, <2>4 DEF Fetch, RunType
<1>4. ASSUME NEW r \in Runs, Stamp(r)
      PROVE  TypeOK'
  <2>1. [run[r] EXCEPT !.pc = "stamped", !.at = hour] \in RunType
    BY DEF RunType
  <2>2. run' = [run EXCEPT ![r] = [run[r] EXCEPT !.pc = "stamped", !.at = hour]]
    BY <1>4 DEF Stamp
  <2>3. run' \in [Runs -> RunType]
    BY <2>1, <2>2 DEF RunType
  <2> QED
    BY <1>4, <2>3 DEF Stamp, RunType
<1>5. ASSUME NEW r \in Runs, NoData(r) \/ RejectBatch(r) \/ GiveUp(r)
      PROVE  TypeOK'
  BY <1>5, IdleType DEF NoData, RejectBatch, GiveUp, RunType
<1>6. ASSUME NEW r \in Runs, Restart(r)
      PROVE  TypeOK'
  BY <1>6, IdleType DEF Restart, RunType, NoFrame
<1>7. ASSUME NEW r \in Runs, ReadAssignments(r)
      PROVE  TypeOK'
  <2> DEFINE known == [d \in Detections |->
                         IF d \in run[r].ids THEN assigned[d].cluster ELSE None]
  <2>1. \A d \in Detections : assigned[d].cluster \in ClusterIds \cup {None}
    BY DEF NotStored
  <2>2. known \in [Detections -> ClusterIds \cup {None}]
    BY <2>1
  <2> DEFINE read == [run[r] EXCEPT !.pc = "resolved", !.known = known]
  <2>3. run' = [run EXCEPT ![r] = read]
    BY <1>7 DEF ReadAssignments
  <2>4. run \in [Runs -> RunType]
    BY DEF RunType
  <2>5. read \in RunType
    <3> HIDE DEF known
    <3> QED
      BY <2>2, <2>4 DEF RunType
  <2> HIDE DEF read
  <2>6. run' \in [Runs -> RunType]
    BY <2>3, <2>4, <2>5
  <2> QED
    BY <1>7, <2>6 DEF ReadAssignments, RunType
<1>8. ASSUME NEW r \in Runs, Commit(r)
      PROVE  TypeOK'
  <2> DEFINE batch == Batch(run[r].ids, run[r].known, run[r].at)
             placed == Placed(run[r].ids, run[r].known, run[r].at)
  <2>1. /\ batch \subseteq Row
        /\ \A d \in run[r].ids : placed[d] \in [cluster : ClusterIds, at : Hours]
        /\ DOMAIN placed = run[r].ids
    <3>1. /\ run[r].ids \in SUBSET Detections
          /\ run[r].known \in Known
          /\ run[r].at \in Hours
      BY <1>8, CommitType
    <3>2. \A V \in SUBSET Detections, known \in Known, at \in Hours :
            /\ Batch(V, known, at) \subseteq Row
            /\ \A d \in V : Placed(V, known, at)[d]
                               \in [cluster : ClusterIds, at : Hours]
            /\ DOMAIN Placed(V, known, at) = V
      BY BatchType
    <3> QED
      BY <3>1, <3>2, Zenon
  <2>2. /\ MergeClusters(batch)
        /\ MergeDetections(placed)
        /\ run' = [run EXCEPT ![r] = Idle]
        /\ UNCHANGED <<hour, published, frame>>
    BY <1>8 DEF Commit
  <2> HIDE DEF batch, placed
  <2>3. rows' \subseteq Row
    BY <2>1, <2>2 DEF MergeClusters
  <2>4. assigned' \in [Detections ->
                         [cluster : ClusterIds, at : Hours] \cup {NotStored}]
    BY <2>1, <2>2 DEF MergeDetections
  <2>5. run' \in [Runs -> RunType]
    BY <2>2, IdleType DEF RunType
  <2> QED
    BY <2>2, <2>3, <2>4, <2>5 DEF RunType
<1>9. CASE UNCHANGED vars
  BY <1>9 DEF vars
<1> QED
  BY <1>1, <1>2, <1>3, <1>4, <1>5, <1>6, <1>7, <1>8, <1>9 DEF Next, Step

\* Every variable keeps its type: in particular each choice of a cluster ID
\* finds one, for every shape of the components and every stored assignment.
THEOREM TypeCorrect == Spec => []TypeOK
<1> QED
  BY TypeInit, TypeStep, PTL DEF Spec

-----------------------------------------------------------------------------
(* The tables *)

TablesOK == KeysUnique /\ NoOrphans /\ TombstonesResolve

\* What a commit does to the tables
LEMMA CommitWrites ==
    ASSUME TypeOK, NEW r \in Runs, Commit(r)
    PROVE  \E batch, placed :
             /\ rows' = {row \in rows : \A s \in batch : ~SameKey(row, s)}
                           \cup batch
             /\ assigned' = [d \in Detections |->
                               IF d \in DOMAIN placed
                               THEN placed[d] ELSE assigned[d]]
             /\ UniqueKeys(batch)
             /\ \A d \in DOMAIN placed :
                   \E row \in batch : SameKey(row, placed[d])
             /\ \A row \in batch : ~IsActive(row) =>
                   \E target \in batch : /\ IsActive(target)
                                         /\ target.at = row.at
                                         /\ target.cluster = row.into
<1> DEFINE batch == Batch(run[r].ids, run[r].known, run[r].at)
           placed == Placed(run[r].ids, run[r].known, run[r].at)
<1>1. \A row \in batch : ~IsActive(row) =>
         \E target \in batch : /\ IsActive(target)
                               /\ target.at = row.at
                               /\ target.cluster = row.into
  BY CommitType, TombstoneHasTarget
<1>2. Valid(batch, placed) /\ MergeClusters(batch) /\ MergeDetections(placed)
  BY DEF Commit
<1> HIDE DEF batch, placed
<1>3. /\ rows' = {row \in rows : \A s \in batch : ~SameKey(row, s)} \cup batch
      /\ assigned' = [d \in Detections |->
                        IF d \in DOMAIN placed THEN placed[d] ELSE assigned[d]]
      /\ UniqueKeys(batch)
      /\ \A d \in DOMAIN placed : \E row \in batch : SameKey(row, placed[d])
  BY <1>2 DEF Valid, MergeClusters, MergeDetections
<1> QED
  BY <1>1, <1>3

LEMMA TablesInit == Init => TablesOK
BY DEF Init, TablesOK, KeysUnique, UniqueKeys, NoOrphans, TombstonesResolve

LEMMA TablesStep == TypeOK /\ TablesOK /\ [Next]_vars => TablesOK'
<1> SUFFICES ASSUME TypeOK, TablesOK, [Next]_vars
             PROVE  TablesOK'
  OBVIOUS
<1>1. CASE UNCHANGED <<rows, assigned>>
  BY <1>1 DEF TablesOK, KeysUnique, UniqueKeys, NoOrphans, TombstonesResolve
<1>2. ASSUME NEW r \in Runs, Commit(r)
      PROVE  TablesOK'
  <2>1. PICK batch, placed :
             /\ rows' = {row \in rows : \A s \in batch : ~SameKey(row, s)}
                           \cup batch
             /\ assigned' = [d \in Detections |->
                               IF d \in DOMAIN placed
                               THEN placed[d] ELSE assigned[d]]
             /\ UniqueKeys(batch)
             /\ \A d \in DOMAIN placed :
                   \E row \in batch : SameKey(row, placed[d])
             /\ \A row \in batch : ~IsActive(row) =>
                   \E target \in batch : /\ IsActive(target)
                                         /\ target.at = row.at
                                         /\ target.cluster = row.into
    BY <1>2, CommitWrites
  <2>2. KeysUnique'
    <3>1. UniqueKeys(rows)
      BY DEF TablesOK, KeysUnique
    <3> SUFFICES ASSUME NEW x \in rows', NEW y \in rows', SameKey(x, y)
                 PROVE  x = y
      BY DEF KeysUnique, UniqueKeys
    <3>2. CASE x \in batch /\ y \in batch
      BY <2>1, <3>2 DEF UniqueKeys
    <3>3. CASE x \notin batch /\ y \notin batch
      BY <2>1, <3>1, <3>3 DEF UniqueKeys
    <3>4. CASE x \in batch /\ y \notin batch
      <4>1. ~SameKey(y, x)
        BY <2>1, <3>4
      <4> QED
        BY <4>1 DEF SameKey
    <3>5. CASE x \notin batch /\ y \in batch
      BY <2>1, <3>5
    <3> QED
      BY <3>2, <3>3, <3>4, <3>5
  <2>3. NoOrphans'
    <3> SUFFICES ASSUME NEW d \in Detections, assigned'[d] # NotStored
                 PROVE  \E row \in rows' : SameKey(row, assigned'[d])
      BY DEF NoOrphans
    <3>1. CASE d \in DOMAIN placed
      BY <2>1, <3>1
    <3>2. CASE d \notin DOMAIN placed
      <4>1. assigned'[d] = assigned[d]
        BY <2>1, <3>2
      <4>2. PICK row \in rows : SameKey(row, assigned[d])
        BY <4>1 DEF TablesOK, NoOrphans
      <4>3. CASE row \in rows'
        BY <4>1, <4>2, <4>3
      <4>4. CASE row \notin rows'
        <5>1. PICK s \in batch : SameKey(row, s)
          BY <2>1, <4>4
        <5>2. SameKey(s, assigned'[d])
          BY <4>1, <4>2, <5>1 DEF SameKey
        <5> QED
          BY <2>1, <5>2
      <4> QED
        BY <4>3, <4>4
    <3> QED
      BY <3>1, <3>2
  <2>4. TombstonesResolve'
    <3> SUFFICES ASSUME NEW S \in SUBSET {row \in rows' : ~IsActive(row)},
                        S # {}
                 PROVE  \E row \in S : \E target \in rows' \ S :
                           target.at = row.at /\ target.cluster = row.into
      BY DEF TombstonesResolve, IsActive
    <3>1. CASE S \cap batch # {}
      <4>1. PICK row \in S \cap batch : ~IsActive(row)
        BY <3>1
      <4>2. PICK target \in batch : /\ IsActive(target)
                                    /\ target.at = row.at
                                    /\ target.cluster = row.into
        BY <2>1, <4>1
      <4>3. target \in rows' \ S
        BY <2>1, <4>2
      <4> QED
        BY <4>1, <4>2, <4>3
    <3>2. CASE S \cap batch = {}
      <4>1. S \in SUBSET {row \in rows : ~IsActive(row)}
        BY <2>1, <3>2
      <4>2. PICK row \in S : \E target \in rows \ S :
               target.at = row.at /\ target.cluster = row.into
        BY <4>1 DEF TablesOK, TombstonesResolve
      <4>3. PICK target \in rows \ S :
               target.at = row.at /\ target.cluster = row.into
        BY <4>2
      <4>4. CASE target \in rows'
        BY <4>2, <4>3, <4>4
      <4>5. CASE target \notin rows'
        <5>1. PICK s \in batch : SameKey(target, s)
          BY <2>1, <4>3, <4>5
        <5>2. s \in rows' \ S /\ s.at = row.at /\ s.cluster = row.into
          BY <2>1, <3>2, <4>3, <5>1 DEF SameKey
        <5> QED
          BY <4>2, <5>2
      <4> QED
        BY <4>4, <4>5
    <3> QED
      BY <3>1, <3>2
  <2> QED
    BY <2>2, <2>3, <2>4 DEF TablesOK
<1>3. CASE UNCHANGED vars
  BY <1>1, <1>3 DEF vars
<1>4. CASE Tick \/ \E d \in Detections : Publish(d)
  BY <1>1, <1>4 DEF Tick, Publish
<1>5. ASSUME NEW r \in Runs, Step(r), ~Commit(r)
      PROVE  TablesOK'
  BY <1>1, <1>5 DEF Step, Fetch, Stamp, NoData, ReadAssignments, RejectBatch,
                    GiveUp, Restart
<1> QED
  BY <1>2, <1>3, <1>4, <1>5 DEF Next

LEMMA TablesAlwaysOK == Spec => []TablesOK
<1> QED
  BY TypeCorrect, TypeInit, TablesInit, TypeStep, TablesStep, PTL DEF Spec

\* The keys BigQuery does not enforce hold for any overlap of attempts,
\* because validation and MERGE together keep them.
THEOREM KeysAlwaysUnique == Spec => []KeysUnique
<1> QED
  BY TablesAlwaysOK, PTL DEF TablesOK

\* No stored detection ever points to a snapshot that is not there.
THEOREM NeverOrphaned == Spec => []NoOrphans
<1> QED
  BY TablesAlwaysOK, PTL DEF TablesOK

\* Tombstones never form a cycle and never dangle, however often an hour is
\* written and whoever overlaps.
THEOREM TombstonesAlwaysResolve == Spec => []TombstonesResolve
<1> QED
  BY TablesAlwaysOK, PTL DEF TablesOK

-----------------------------------------------------------------------------
(* The components of a frame do not overlap *)

LEMMA ComponentClosed ==
    ASSUME NEW V \in SUBSET Detections, NEW d \in V
    PROVE  /\ d \in Component(d, V)
           /\ Component(d, V) \in SUBSET V
           /\ ClosedIn(Component(d, V), V)
BY DEF Component, ClosedIn

LEMMA ComponentLeast ==
    ASSUME NEW V \in SUBSET Detections, NEW d \in V,
           NEW S \in SUBSET V, d \in S, ClosedIn(S, V)
    PROVE  Component(d, V) \subseteq S
BY DEF Component

\* Whoever is in a component has that component.
LEMMA ComponentOfMember ==
    ASSUME NEW V \in SUBSET Detections, NEW d \in V,
           NEW e \in Component(d, V)
    PROVE  Component(e, V) = Component(d, V)
<1>1. e \in V
  BY ComponentClosed
<1>2. Component(e, V) \subseteq Component(d, V)
  BY <1>1, ComponentClosed, ComponentLeast
<1>3. d \in Component(e, V)
  <2> SUFFICES ASSUME d \notin Component(e, V)
               PROVE  FALSE
    OBVIOUS
  <2> DEFINE Rest == Component(d, V) \ Component(e, V)
  <2>1. ASSUME NEW x \in Rest, NEW y \in V, <<x, y>> \in Linked
        PROVE  y \in Rest
    <3>1. y \in Component(d, V)
      BY <2>1, ComponentClosed DEF ClosedIn
    <3>2. <<y, x>> \in Linked /\ x \in V
      BY <2>1, ComponentClosed, HistoryAssumption
    <3>3. y \in Component(e, V) => x \in Component(e, V)
      BY <1>1, <3>2, ComponentClosed DEF ClosedIn
    <3> QED
      BY <3>1, <3>3
  <2>2. ClosedIn(Rest, V)
    BY <2>1 DEF ClosedIn
  <2>3. Rest \in SUBSET V /\ d \in Rest
    BY ComponentClosed
  <2>4. Component(d, V) \subseteq Rest
    <3> HIDE DEF Rest
    <3> QED
      BY <2>2, <2>3, ComponentLeast
  <2> QED
    BY <1>1, <2>4, ComponentClosed
<1>4. Component(d, V) \subseteq Component(e, V)
  BY <1>1, <1>3, ComponentClosed, ComponentLeast
<1> QED
  BY <1>2, <1>4

\* A detection of a batch is in one row, the one its record points to.
LEMMA BatchRowOfMember ==
    ASSUME NEW V \in SUBSET Detections, NEW known \in Known, NEW at \in Hours,
           NEW row \in Batch(V, known, at), NEW d \in row.members
    PROVE  /\ d \in V
           /\ row = ActiveRow(Component(d, V), V, known, at)
           /\ SameKey(row, Placed(V, known, at)[d])
<1>1. PICK e \in V :
         row \in {ActiveRow(Component(e, V), V, known, at)}
                    \cup Tombstones(Component(e, V), V, known, at)
  BY DEF Batch, Components
<1>2. row = ActiveRow(Component(e, V), V, known, at)
  BY <1>1 DEF Tombstones
<1>3. d \in Component(e, V)
  BY <1>2 DEF ActiveRow
<1>4. Component(d, V) = Component(e, V) /\ d \in V
  BY <1>3, ComponentOfMember, ComponentClosed
<1> QED
  BY <1>2, <1>4 DEF ActiveRow, Placed, SameKey

LEMMA BatchAt ==
    ASSUME NEW V, NEW known, NEW at, NEW row \in Batch(V, known, at)
    PROVE  row.at = at
BY DEF Batch, ActiveRow, Tombstones

\* The batch has a row for every cluster its detections belonged to: of the
\* components that hold the ID, the first in order finds it available.
LEMMA NoIdLost ==
    ASSUME NEW V \in SUBSET Detections, NEW known \in Known, NEW at \in Hours,
           NEW d \in V, known[d] # None
    PROVE  \E row \in Batch(V, known, at) :
               row.cluster = known[d] /\ row.at = at
<1> DEFINE k == known[d]
           Owners == {C \in Components(V) : k \in KnownIds(C, known)}
           f == [C \in Owners |-> Observed[Anchor(C)]]
           g == [C \in Owners |-> IncidentRank(C)]
<1>1. Owners # {}
  <2>1. Component(d, V) \in Components(V) /\ d \in Component(d, V)
    BY ComponentsOfSet, ComponentClosed
  <2>2. k \in KnownIds(Component(d, V), known)
    BY <2>1 DEF KnownIds
  <2> QED
    BY <2>1, <2>2
<1>2. \A C \in Owners : f[C] \in Nat /\ g[C] \in Nat
  <2> SUFFICES ASSUME NEW C \in Owners
               PROVE  f[C] \in Nat /\ g[C] \in Nat
    OBVIOUS
  <2>1. C \in SUBSET Detections /\ C # {}
    BY ComponentsOfSet
  <2>2. Anchor(C) \in Detections
    BY <2>1, AnchorIsMember
  <2> QED
    BY <2>1, <2>2, HistoryAssumption, RankAssumption
<1>3. PICK C \in Owners : \A D \in Owners :
         f[C] < f[D] \/ (f[C] = f[D] /\ g[C] <= g[D])
  <2> HIDE DEF Owners, f, g
  <2> QED
    BY <1>1, <1>2, LeastPair
<1>4. ASSUME NEW D \in Components(V), Before(D, C)
      PROVE  k \notin KnownIds(D, known)
  <2> SUFFICES ASSUME D \in Owners
               PROVE  FALSE
    OBVIOUS
  <2>1. f[C] < f[D] \/ (f[C] = f[D] /\ g[C] <= g[D])
    BY <1>3
  <2>2. f[D] < f[C] \/ (f[D] = f[C] /\ g[D] < g[C])
    BY <1>4 DEF Before
  <2>3. f[C] \in Nat /\ f[D] \in Nat /\ g[C] \in Nat /\ g[D] \in Nat
    BY <1>2
  <2> HIDE DEF f, g
  <2> QED
    BY <2>1, <2>2, <2>3
<1>5. k \in Available(C, V, known)
  BY <1>4 DEF Available, Consumed
<1>6. k = ClusterId(C, V, known) \/ k \in Merged(C, V, known)
  BY <1>5 DEF Merged
<1>7. C \in Components(V)
  OBVIOUS
<1>8. CASE k = ClusterId(C, V, known)
  <2>1. ActiveRow(C, V, known, at) \in Batch(V, known, at)
    BY <1>7 DEF Batch
  <2> QED
    BY <1>8, <2>1 DEF ActiveRow
<1>9. CASE k \in Merged(C, V, known)
  <2> DEFINE row == [cluster |-> k, at |-> at, members |-> {},
                     into |-> ClusterId(C, V, known)]
  <2>1. row \in Tombstones(C, V, known, at)
    BY <1>9 DEF Tombstones
  <2>2. row \in Batch(V, known, at)
    BY <1>7, <2>1 DEF Batch
  <2> QED
    BY <2>2
<1> QED
  BY <1>6, <1>8, <1>9

-----------------------------------------------------------------------------
(* Attempts one after the other, on whatever instances *)

\* No stored record is later than the hour of an attempt that comes after it,
\* and what an attempt has read is still so when it commits.
ReadsAreFresh ==
    /\ \A d \in Detections : assigned[d].at <= hour
    /\ \A r \in Runs : run[r].pc \in {"stamped", "resolved"} =>
          /\ run[r].at <= hour
          /\ \A d \in Detections : assigned[d].at <= run[r].at
    /\ \A r \in Runs : run[r].pc = "resolved" =>
          \A d \in run[r].ids : run[r].known[d] = assigned[d].cluster

\* The record of a detection follows the latest snapshot that lists it, and
\* points to no other row of that snapshot.
RecordsFollow ==
    \A row \in rows : \A d \in row.members :
        /\ row.at <= assigned[d].at
        /\ row.at = assigned[d].at => row.cluster = assigned[d].cluster

HistoryOK == ReadsAreFresh /\ RecordsFollow /\ SnapshotsDisjoint

LEMMA HistoryInit == Init => HistoryOK
BY DEF Init, HistoryOK, ReadsAreFresh, RecordsFollow, SnapshotsDisjoint,
       NotStored, Idle, None

\* What a commit reads and writes when it is the only attempt
LEMMA CommitAlone ==
    ASSUME TypeOK, ReadsAreFresh, NEW r \in Runs, Commit(r)
    PROVE  \E batch, placed :
             /\ rows' = {row \in rows : \A s \in batch : ~SameKey(row, s)}
                           \cup batch
             /\ assigned' = [d \in Detections |->
                               IF d \in run[r].ids
                               THEN placed[d] ELSE assigned[d]]
             /\ \A d \in run[r].ids : placed[d].at = run[r].at
             /\ \A row \in batch : row.at = run[r].at
             /\ \A row \in batch : \A d \in row.members :
                   d \in run[r].ids /\ SameKey(row, placed[d])
             /\ \A row, s \in batch : row # s => row.members \cap s.members = {}
             /\ \A d \in run[r].ids : assigned[d] # NotStored =>
                   \E row \in batch : /\ row.cluster = assigned[d].cluster
                                      /\ row.at = run[r].at
<1> DEFINE V == run[r].ids
           at == run[r].at
           known == run[r].known
           batch == Batch(V, known, at)
           placed == Placed(V, known, at)
<1>1. V \in SUBSET Detections /\ known \in Known /\ at \in Hours
  BY CommitType
<1>2. MergeClusters(batch) /\ MergeDetections(placed) /\ run[r].pc = "resolved"
  BY DEF Commit
<1>3. DOMAIN placed = V /\ \A d \in V : placed[d].at = at
  BY DEF Placed
<1> HIDE DEF V, at, known
<1>4. \A row \in batch : row.at = at
  BY BatchAt
<1>5. \A row \in batch : \A d \in row.members :
         /\ d \in V /\ SameKey(row, placed[d])
         /\ row = ActiveRow(Component(d, V), V, known, at)
  <2> SUFFICES ASSUME NEW row \in batch, NEW d \in row.members
               PROVE  /\ d \in V /\ SameKey(row, placed[d])
                      /\ row = ActiveRow(Component(d, V), V, known, at)
    OBVIOUS
  <2>1. row \in Batch(V, known, at)
    OBVIOUS
  <2> HIDE DEF batch, placed
  <2>2. /\ d \in V
        /\ row = ActiveRow(Component(d, V), V, known, at)
        /\ SameKey(row, Placed(V, known, at)[d])
    BY <1>1, <2>1, BatchRowOfMember
  <2> QED
    BY <1>1, <2>1, <2>2 DEF placed
<1>6. \A row, s \in batch : row # s => row.members \cap s.members = {}
  <2> SUFFICES ASSUME NEW row \in batch, NEW s \in batch,
                      NEW d \in row.members \cap s.members
               PROVE  row = s
    OBVIOUS
  <2> HIDE DEF batch
  <2> QED
    BY <1>5
<1>7. ASSUME NEW d \in V, assigned[d] # NotStored
      PROVE  \E row \in batch : /\ row.cluster = assigned[d].cluster
                                /\ row.at = at
  <2>1. assigned[d].cluster \in Detections
    BY <1>1, <1>7 DEF TypeOK, ClusterIds
  <2>2. known[d] = assigned[d].cluster /\ known[d] # None
    BY <1>2, <2>1, HistoryAssumption DEF ReadsAreFresh, None, known, V
  <2> QED
    BY <1>1, <2>2, NoIdLost
<1>8. /\ rows' = {row \in rows : \A s \in batch : ~SameKey(row, s)} \cup batch
      /\ assigned' = [d \in Detections |->
                        IF d \in V THEN placed[d] ELSE assigned[d]]
  <2> HIDE DEF batch, placed
  <2> QED
    BY <1>2, <1>3 DEF MergeClusters, MergeDetections
<1> HIDE DEF batch, placed
<1> QED
  BY <1>3, <1>4, <1>5, <1>6, <1>7, <1>8 DEF V, at

LEMMA CommitKeepsHistory ==
    ASSUME TypeOK, HistoryOK, NoOverlap, NEW r \in Runs, Commit(r)
    PROVE  HistoryOK'
<1>1. PICK batch, placed :
             /\ rows' = {row \in rows : \A s \in batch : ~SameKey(row, s)}
                           \cup batch
             /\ assigned' = [d \in Detections |->
                               IF d \in run[r].ids
                               THEN placed[d] ELSE assigned[d]]
             /\ \A d \in run[r].ids : placed[d].at = run[r].at
             /\ \A row \in batch : row.at = run[r].at
             /\ \A row \in batch : \A d \in row.members :
                   d \in run[r].ids /\ SameKey(row, placed[d])
             /\ \A row, s \in batch : row # s => row.members \cap s.members = {}
             /\ \A d \in run[r].ids : assigned[d] # NotStored =>
                   \E row \in batch : /\ row.cluster = assigned[d].cluster
                                      /\ row.at = run[r].at
  BY CommitAlone DEF HistoryOK
<1>2. /\ run[r].pc = "resolved"
      /\ run' = [run EXCEPT ![r] = Idle]
      /\ hour' = hour
  BY DEF Commit
<1>3. \A s \in Runs : s # r => run[s].pc = "idle"
  BY <1>2 DEF NoOverlap, Idle
<1>4. run \in [Runs -> RunType] /\ rows \subseteq Row
  BY DEF TypeOK, RunType
<1>5. hour \in Int /\ run[r].at \in Int
  BY <1>4 DEF TypeOK, RunType, Hours
<1>6. \A d \in Detections : assigned[d].at \in Int
  BY DEF TypeOK, Hours, NotStored, None
<1>7. /\ run[r].at <= hour
      /\ \A d \in Detections : assigned[d].at <= run[r].at
  BY <1>2 DEF HistoryOK, ReadsAreFresh
<1>8. \A d \in Detections : assigned[d].at <= assigned'[d].at
                              /\ assigned'[d].at <= run[r].at
  BY <1>1, <1>5, <1>6, <1>7
<1>9. ReadsAreFresh'
  <2>1. \A d \in Detections : assigned'[d].at <= hour'
    <3>1. \A d \in Detections : assigned'[d].at \in Int
      BY <1>1, <1>5, <1>6
    <3> QED
      BY <1>2, <1>5, <1>7, <1>8, <3>1
  <2>2. \A s \in Runs : run'[s].pc = "idle"
    BY <1>2, <1>3, <1>4 DEF Idle
  <2> QED
    BY <2>1, <2>2 DEF ReadsAreFresh
\* A row that stays and lists a detection of the batch is an older one.
<1>10. ASSUME NEW row \in rows, row \in rows', row \notin batch,
              NEW d \in row.members, d \in run[r].ids
       PROVE  row.at < run[r].at
  <2>1. row.at \in Int /\ d \in Detections
    BY <1>4 DEF Row, Hours
  <2>2. /\ row.at <= assigned[d].at
        /\ row.at = assigned[d].at => row.cluster = assigned[d].cluster
    BY DEF HistoryOK, RecordsFollow
  <2>3. ASSUME row.at = run[r].at
        PROVE  FALSE
    <3>1. row.at = assigned[d].at
      BY <1>6, <1>7, <2>1, <2>2, <2>3
    <3>2. assigned[d] # NotStored
      BY <1>4, <3>1 DEF Row, Hours, NotStored, None
    <3>3. PICK s \in batch : s.cluster = assigned[d].cluster /\ s.at = run[r].at
      BY <1>1, <1>10, <3>2
    <3>4. SameKey(row, s)
      BY <2>2, <2>3, <3>1, <3>3 DEF SameKey
    <3> QED
      BY <1>1, <1>10, <3>4
  <2> QED
    BY <1>5, <1>6, <1>7, <2>1, <2>2, <2>3
<1>11. RecordsFollow'
  <2> SUFFICES ASSUME NEW row \in rows', NEW d \in row.members
               PROVE  /\ row.at <= assigned'[d].at
                      /\ row.at = assigned'[d].at =>
                            row.cluster = assigned'[d].cluster
    BY DEF RecordsFollow
  <2>1. CASE row \in batch
    <3>1. d \in run[r].ids /\ SameKey(row, placed[d])
      BY <1>1, <2>1
    <3>2. d \in Detections /\ assigned'[d] = placed[d]
      BY <1>1, <1>4, <3>1 DEF RunType
    <3>3. row.at = run[r].at
      BY <1>1, <2>1
    <3> QED
      BY <1>5, <3>1, <3>2, <3>3 DEF SameKey
  <2>2. CASE row \notin batch
    <3>1. row \in rows
      BY <1>1, <2>2
    <3>2. d \in Detections /\ row.at \in Int
      BY <1>4, <3>1 DEF Row, Hours
    <3>3. CASE d \in run[r].ids
      <4>1. row.at < run[r].at
        BY <1>10, <2>2, <3>1, <3>3
      <4>2. assigned'[d].at = run[r].at
        BY <1>1, <3>2, <3>3
      <4> QED
        BY <1>5, <3>2, <4>1, <4>2
    <3>4. CASE d \notin run[r].ids
      <4>1. assigned'[d] = assigned[d]
        BY <1>1, <3>2, <3>4
      <4> QED
        BY <3>1, <4>1 DEF HistoryOK, RecordsFollow
    <3> QED
      BY <3>3, <3>4
  <2> QED
    BY <2>1, <2>2
<1>12. SnapshotsDisjoint'
  <2> SUFFICES ASSUME NEW x \in rows', NEW y \in rows', x.at = y.at, x # y,
                      NEW d \in x.members \cap y.members
               PROVE  FALSE
    BY DEF SnapshotsDisjoint
  <2>1. CASE x \in batch /\ y \in batch
    BY <1>1, <2>1
  <2>2. CASE x \notin batch /\ y \notin batch
    BY <1>1, <2>2 DEF HistoryOK, SnapshotsDisjoint
  <2>3. ASSUME NEW u \in rows', NEW v \in rows', u \in batch, v \notin batch,
               d \in u.members, d \in v.members, u.at = v.at
        PROVE  FALSE
    <3>1. d \in run[r].ids /\ u.at = run[r].at /\ v \in rows
      BY <1>1, <2>3
    <3>2. v.at < run[r].at
      BY <1>10, <2>3, <3>1
    <3> QED
      BY <1>5, <2>3, <3>1, <3>2
  <2> QED
    BY <2>1, <2>2, <2>3
<1> QED
  BY <1>9, <1>11, <1>12 DEF HistoryOK

LEMMA HistoryStep ==
    TypeOK /\ HistoryOK /\ NoOverlap /\ [Next]_vars => HistoryOK'
<1> SUFFICES ASSUME TypeOK, HistoryOK, NoOverlap, [Next]_vars
             PROVE  HistoryOK'
  OBVIOUS
<1>1. /\ run \in [Runs -> RunType] /\ hour \in Int
      /\ \A d \in Detections : assigned[d].at \in Int
  BY DEF TypeOK, RunType, Hours, NotStored, None
<1>2. ReadsAreFresh
  BY DEF HistoryOK
<1>3. ASSUME UNCHANGED <<rows, assigned>>, ReadsAreFresh'
      PROVE  HistoryOK'
  BY <1>3 DEF HistoryOK, RecordsFollow, SnapshotsDisjoint
<1>4. CASE Tick
  <2>1. hour' = hour + 1 /\ run' = run /\ assigned' = assigned
    BY <1>4 DEF Tick
  <2>2. \A r \in Runs : run[r].at \in Int
    BY <1>1 DEF RunType, Hours
  <2>3. ReadsAreFresh'
    BY <1>1, <1>2, <2>1, <2>2 DEF ReadsAreFresh
  <2> QED
    BY <1>3, <1>4, <2>3 DEF Tick
<1>5. ASSUME NEW d \in Detections, Publish(d)
      PROVE  HistoryOK'
  BY <1>2, <1>3, <1>5 DEF Publish, ReadsAreFresh
<1>6. ASSUME NEW r \in Runs, Fetch(r)
      PROVE  HistoryOK'
  <2>1. PICK f :
           run' = [run EXCEPT ![r] = [Idle EXCEPT !.pc = "clustered",
                                                  !.ids = f.ids]]
    BY <1>6 DEF Fetch
  <2>2. /\ run'[r].pc = "clustered"
        /\ \A s \in Runs : s # r => run'[s] = run[s]
    BY <1>1, <2>1 DEF Idle
  <2>3. ReadsAreFresh'
    BY <1>2, <1>6, <2>2 DEF Fetch, ReadsAreFresh
  <2> QED
    BY <1>3, <1>6, <2>3 DEF Fetch
<1>7. ASSUME NEW r \in Runs, Stamp(r)
      PROVE  HistoryOK'
  <2>1. /\ run'[r].pc = "stamped" /\ run'[r].at = hour
        /\ \A s \in Runs : s # r => run'[s] = run[s]
    BY <1>1, <1>7 DEF Stamp, RunType
  <2>2. ReadsAreFresh'
    BY <1>1, <1>2, <1>7, <2>1 DEF Stamp, ReadsAreFresh
  <2> QED
    BY <1>3, <1>7, <2>2 DEF Stamp
<1>8. ASSUME NEW r \in Runs, NoData(r) \/ RejectBatch(r) \/ GiveUp(r)
                               \/ Restart(r)
      PROVE  HistoryOK'
  <2>1. run' = [run EXCEPT ![r] = Idle] /\ UNCHANGED <<hour, rows, assigned>>
    BY <1>8 DEF NoData, RejectBatch, GiveUp, Restart
  <2>2. /\ run'[r].pc = "idle"
        /\ \A s \in Runs : s # r => run'[s] = run[s]
    BY <1>1, <2>1 DEF Idle
  <2>3. ReadsAreFresh'
    BY <1>2, <2>1, <2>2 DEF ReadsAreFresh
  <2> QED
    BY <1>3, <2>1, <2>3
<1>9. ASSUME NEW r \in Runs, ReadAssignments(r)
      PROVE  HistoryOK'
  <2>1. /\ run[r].pc = "stamped"
        /\ run'[r].at = run[r].at /\ run'[r].ids = run[r].ids
        /\ run'[r].known = [d \in Detections |->
              IF d \in run[r].ids THEN assigned[d].cluster ELSE None]
        /\ \A s \in Runs : s # r => run'[s] = run[s]
        /\ UNCHANGED <<hour, rows, assigned>>
    BY <1>1, <1>9 DEF ReadAssignments, RunType
  <2>2. run[r].ids \in SUBSET Detections
    BY <1>1 DEF RunType
  <2>3. ReadsAreFresh'
    BY <1>2, <2>1, <2>2 DEF ReadsAreFresh
  <2> QED
    BY <1>3, <2>1, <2>3
<1>10. ASSUME NEW r \in Runs, Commit(r)
       PROVE  HistoryOK'
  BY <1>10, CommitKeepsHistory
<1>11. CASE UNCHANGED vars
  BY <1>2, <1>3, <1>11 DEF vars, ReadsAreFresh
<1> QED
  BY <1>4, <1>5, <1>6, <1>7, <1>8, <1>9, <1>10, <1>11 DEF Next, Step

LEMMA HistoryAlwaysOK == Spec /\ []NoOverlap => []HistoryOK
<1> QED
  BY TypeCorrect, HistoryInit, HistoryStep, PTL DEF Spec

LEMMA FollowsPointsToLatest == TypeOK /\ HistoryOK => PointsToLatest
<1> SUFFICES ASSUME TypeOK, HistoryOK, NEW row \in rows, NEW d \in row.members
             PROVE  row.at < assigned[d].at \/ SameKey(row, assigned[d])
  BY DEF PointsToLatest
<1>1. row.at \in Int /\ assigned[d].at \in Int
  BY DEF TypeOK, Row, Hours, NotStored, None
<1>2. /\ row.at <= assigned[d].at
      /\ row.at = assigned[d].at => row.cluster = assigned[d].cluster
  BY DEF HistoryOK, RecordsFollow
<1> QED
  BY <1>1, <1>2 DEF SameKey

\* As long as attempts do not overlap, and however late NASA publishes, however
\* often an hour is written and whichever instance writes it: every row that
\* lists a detection is the row its record points to, or of an earlier hour.
THEOREM AlwaysPointsToLatest == Spec /\ []NoOverlap => []PointsToLatest
<1> QED
  BY TypeCorrect, HistoryAlwaysOK, FollowsPointsToLatest, PTL

LEMMA CommitKeepsItsLists ==
    TypeOK /\ [Next]_vars =>
        [\A r \in Runs : Commit(r) =>
          \A d \in Detections :
              d \in run[r].ids \/ (Listed(d) /\ assigned[d].at # run[r].at)
                  => Listed(d)']_vars
<1> SUFFICES ASSUME TypeOK, NEW r \in Runs, Commit(r), NEW d \in Detections,
                    d \in run[r].ids \/ (Listed(d) /\ assigned[d].at # run[r].at)
             PROVE  Listed(d)'
  OBVIOUS
<1> DEFINE V == run[r].ids
           known == run[r].known
           at == run[r].at
           batch == Batch(V, known, at)
           placed == Placed(V, known, at)
<1>1. /\ V \in SUBSET Detections
      /\ DOMAIN placed = V
      /\ rows' = {row \in rows : \A s \in batch : ~SameKey(row, s)} \cup batch
      /\ assigned' = [e \in Detections |->
                        IF e \in DOMAIN placed THEN placed[e] ELSE assigned[e]]
  BY DEF Commit, MergeClusters, MergeDetections, TypeOK, Placed
<1>2. CASE d \in V
  <2> DEFINE row == ActiveRow(Component(d, V), V, known, at)
  <2>1. row \in batch
    BY <1>2 DEF Batch, Components
  <2>2. d \in row.members
    BY <1>2 DEF ActiveRow, Component
  <2>3. SameKey(row, placed[d])
    BY <1>2 DEF ActiveRow, Placed, SameKey
  <2> HIDE DEF batch, placed, row
  <2>4. assigned'[d] = placed[d] /\ row \in rows'
    BY <1>1, <1>2, <2>1
  <2> QED
    BY <2>2, <2>3, <2>4 DEF Listed
<1>3. CASE d \notin V
  <2>1. PICK row \in rows : SameKey(row, assigned[d]) /\ d \in row.members
    BY <1>3 DEF Listed
  <2>2. \A s \in batch : ~SameKey(row, s)
    BY <1>3, <2>1, BatchAt DEF SameKey
  <2> HIDE DEF batch, placed
  <2>3. assigned'[d] = assigned[d] /\ row \in rows'
    BY <1>1, <1>3, <2>1, <2>2
  <2> QED
    BY <2>1, <2>3 DEF Listed
<1> QED
  BY <1>2, <1>3

\* Whatever attempts overlap: a commit leaves every detection of its frame in
\* the row it points to, and only the hour it writes can lose one from a row.
THEOREM CommitAlwaysKeepsLists == Spec => CommitKeepsLists
<1> QED
  BY TypeCorrect, CommitKeepsItsLists, PTL DEF Spec, CommitKeepsLists

\* As long as attempts do not overlap, a second one in the same hour replaces
\* what the first wrote instead of counting its detections again.
THEOREM SnapshotsAlwaysDisjoint == Spec /\ []NoOverlap => []SnapshotsDisjoint
<1> QED
  BY HistoryAlwaysOK, PTL DEF HistoryOK

LEMMA CommitKeepsIds ==
    TypeOK /\ HistoryOK /\ [Next]_vars =>
        [\A r \in Runs : Commit(r) =>
          \A d \in run[r].ids : assigned[d] # NotStored =>
              \E row \in rows' :
                  row.cluster = assigned[d].cluster /\ row.at = run[r].at]_vars
<1> SUFFICES ASSUME TypeOK, HistoryOK, NEW r \in Runs, Commit(r),
                    NEW d \in run[r].ids, assigned[d] # NotStored
             PROVE  \E row \in rows' :
                       row.cluster = assigned[d].cluster /\ row.at = run[r].at
  OBVIOUS
<1>1. PICK batch :
         /\ batch \subseteq rows'
         /\ \A e \in run[r].ids : assigned[e] # NotStored =>
               \E row \in batch : /\ row.cluster = assigned[e].cluster
                                  /\ row.at = run[r].at
  BY CommitAlone DEF HistoryOK
<1> QED
  BY <1>1

\* As long as attempts do not overlap, every cluster that had a detection of
\* the batch has a row of its own in the new snapshot, however its detections
\* have merged and split.
THEOREM IdsNeverVanish == Spec /\ []NoOverlap => NoIdVanishes
<1> QED
  BY TypeCorrect, HistoryAlwaysOK, CommitKeepsIds, PTL DEF Spec, NoIdVanishes
=============================================================================
