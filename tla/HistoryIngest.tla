---------------------------- MODULE HistoryIngest ----------------------------
(***************************************************************************)
(* The hourly ingestion of backend/historical_ingest.py: one attempt takes *)
(* a fresh 24-hour NASA frame, clusters it, stamps it with the UTC hour,   *)
(* reads from BigQuery the cluster of each detection it already knows,     *)
(* gives every component a cluster ID (historical_models.py) and writes    *)
(* both tables in one transaction (bigquery_repository.py, sql/).          *)
(*                                                                         *)
(* Nothing keeps two attempts apart: Cloud Scheduler may retry while the   *)
(* attempt before is still running, on another instance.  Each attempt     *)
(* slot here runs on an instance with a NASA cache of its own.             *)
(*                                                                         *)
(* Detections are numbers, ordered as their SHA-256 IDs are; a new cluster *)
(* ID is a hash of one detection's ID and is modelled as that detection,   *)
(* with the same order.                                                    *)
(***************************************************************************)
EXTENDS Integers, FiniteSets

CONSTANTS
    Detections,         \* the physical observations, as numbers
    Observed,           \* [Detections -> Nat]: the hour of each
    Linked,             \* the pairs cluster_fires joins (2 km, 24 h)
    IncidentRank(_),    \* the order of the incident IDs, a hash of members
    Span,               \* hours NASA's `days=1` answer looks back
    Runs,               \* attempt slots: how many attempts may overlap
    MaxHour             \* bound: the last hour of a behaviour

ASSUME HistoryAssumption ==
    /\ Detections \subseteq Nat
    /\ IsFiniteSet(Detections)
    /\ Observed \in [Detections -> Nat]
    /\ Linked \subseteq Detections \X Detections
    /\ \A p \in Linked : <<p[2], p[1]>> \in Linked
    /\ Span \in Nat
    /\ MaxHour \in Nat

\* Incident IDs are strings of hexadecimal digits, so numbers in their order.
ASSUME RankAssumption ==
    \A C \in SUBSET Detections : C # {} => IncidentRank(C) \in Nat

VARIABLES
    hour,       \* the UTC hour
    published,  \* detections NASA has made available so far
    frame,      \* per slot: the NASA frame its instance caches
    run,        \* per slot: the attempt in progress
    rows,       \* table fire_clusters
    assigned    \* table fire_detections: [cluster, at] of each stored one

vars == <<hour, published, frame, run, rows, assigned>>

-----------------------------------------------------------------------------
(* Values *)

Hours == 0..MaxHour
None == -1
ClusterIds == Detections

NoFrame == [ids |-> {}, at |-> None]
Idle == [pc |-> "idle", ids |-> {}, at |-> 0,
         known |-> [d \in Detections |-> None]]
NotStored == [cluster |-> None, at |-> None]

\* A row of fire_clusters; `into` is None while its status is 'active'.
Row == [cluster : ClusterIds, at : Hours, members : SUBSET Detections,
        into : ClusterIds \cup {None}]
IsActive(row) == row.into = None
SameKey(r, s) == r.cluster = s.cluster /\ r.at = s.at

-----------------------------------------------------------------------------
(* incident_clustering.py: connected components of the detections in V *)

ClosedIn(S, V) == \A d \in S : \A e \in V : <<d, e>> \in Linked => e \in S

Component(d, V) ==
    {e \in V : \A S \in SUBSET V : d \in S /\ ClosedIn(S, V) => e \in S}

Components(V) == {Component(d, V) : d \in V}

-----------------------------------------------------------------------------
(* historical_models.py: the cluster ID of each component.  `known` gives  *)
(* the stored cluster of each detection, None for a new one.               *)

\* The earliest member, the smallest ID among simultaneous ones
Anchor(C) ==
    CHOOSE d \in C : \A e \in C :
        \/ Observed[d] < Observed[e]
        \/ Observed[d] = Observed[e] /\ d <= e

\* The order in which components are resolved
Before(C, D) ==
    LET c == Observed[Anchor(C)]
        d == Observed[Anchor(D)]
    IN c < d \/ (c = d /\ IncidentRank(C) < IncidentRank(D))

KnownIds_WithMissing(C, known) == {known[d] : d \in C}
KnownIds(C, known) == {known[d] : d \in C} \ {None}

\* consumed_cluster_ids when the turn of C comes: an earlier component
\* takes every ID of its members that is left, so together they took all.
Consumed(C, V, known) ==
    UNION {KnownIds(D, known) : D \in {E \in Components(V) : Before(E, C)}}

Available(C, V, known) == KnownIds(C, known) \ Consumed(C, V, known)

\* _canonical_cluster_id: the available ID of the earliest member with one
ClusterId(C, V, known) ==
    LET free == Available(C, V, known)
        owners == {d \in C : known[d] \in free}
        earliest == CHOOSE d \in owners : \A e \in owners :
                        \/ Observed[d] < Observed[e]
                        \/ Observed[d] = Observed[e] /\ known[d] <= known[e]
    IN IF free = {} THEN Anchor(C) ELSE known[earliest]

Merged_None(C, V, known) == {}
Merged(C, V, known) == Available(C, V, known) \ {ClusterId(C, V, known)}

\* build_ingestion_batch: an active row for each component and a tombstone
\* for each ID merged into it
ActiveRow(C, V, known, at) ==
    [cluster |-> ClusterId(C, V, known), at |-> at, members |-> C,
     into |-> None]

Tombstones_IntoAnchor(C, V, known, at) ==
    {[cluster |-> m, at |-> at, members |-> {}, into |-> Anchor(C)] :
       m \in Merged(C, V, known)}
Tombstones(C, V, known, at) ==
    {[cluster |-> m, at |-> at, members |-> {},
      into |-> ClusterId(C, V, known)] : m \in Merged(C, V, known)}

Batch(V, known, at) ==
    UNION {{ActiveRow(C, V, known, at)} \cup Tombstones(C, V, known, at) :
             C \in Components(V)}

\* The detection records of the batch
Placed(V, known, at) ==
    [d \in V |-> [cluster |-> ClusterId(Component(d, V), V, known),
                  at |-> at]]

\* _validate_batch_relationships: the logical keys of both tables
UniqueKeys(batch) == \A r, s \in batch : SameKey(r, s) => r = s
Valid_Orphans(batch, placed) ==
    \A d \in DOMAIN placed : \E row \in batch : SameKey(row, placed[d])
Valid(batch, placed) ==
    /\ UniqueKeys(batch)
    /\ \A d \in DOMAIN placed : \E row \in batch : SameKey(row, placed[d])

-----------------------------------------------------------------------------
(* sql/history_merge.sql: the two MERGE statements of the transaction *)

MergeClusters_ByClusterOnly(batch) ==
    rows' = {r \in rows : \A s \in batch : r.cluster # s.cluster} \cup batch
MergeClusters(batch) ==
    rows' = {r \in rows : \A s \in batch : ~SameKey(r, s)} \cup batch

MergeDetections_OnlyNew(placed) ==
    assigned' = [d \in Detections |->
                   IF d \in DOMAIN placed /\ assigned[d] = NotStored
                   THEN placed[d] ELSE assigned[d]]
MergeDetections(placed) ==
    assigned' = [d \in Detections |->
                   IF d \in DOMAIN placed THEN placed[d] ELSE assigned[d]]

-----------------------------------------------------------------------------
Init ==
    /\ hour = 0
    /\ published = {}
    /\ frame = [r \in Runs |-> NoFrame]
    /\ run = [r \in Runs |-> Idle]
    /\ rows = {}
    /\ assigned = [d \in Detections |-> NotStored]

\* NASA publishes an observation, at once or late.
Publish(d) ==
    /\ d \notin published
    /\ Observed[d] <= hour
    /\ published' = published \cup {d}
    /\ UNCHANGED <<hour, frame, run, rows, assigned>>

Tick ==
    /\ hour < MaxHour
    /\ hour' = hour + 1
    /\ UNCHANGED <<published, frame, run, rows, assigned>>

\* What a query of NASA returns now
NasaAnswer ==
    [ids |-> {d \in published : Observed[d] >= hour - Span}, at |-> hour]

\* fetch_fires(days=1, force_refresh=True) and cluster_fires: the attempt
\* gets a new frame, or the cached one when that is less than an hour old.
\* A stale one (503) leaves no trace: the attempt is over.  A frame cached
\* for a public request is one an attempt that gave up leaves here.
Fetch(r) ==
    /\ run[r] = Idle
    /\ \E f \in {NasaAnswer} \cup {g \in {frame[r]} : g.at >= hour - 1
                                                      /\ g.at # None} :
          /\ frame' = [frame EXCEPT ![r] = f]
          /\ run' = [run EXCEPT ![r] = [Idle EXCEPT !.pc = "clustered",
                                                    !.ids = f.ids]]
    /\ UNCHANGED <<hour, published, rows, assigned>>

\* snapshot_hour() with detections to write
Stamp(r) ==
    /\ run[r].pc = "clustered"
    /\ run[r].ids # {}
    /\ run' = [run EXCEPT ![r].pc = "stamped", ![r].at = hour]
    /\ UNCHANGED <<hour, published, frame, rows, assigned>>

\* ... and without: the attempt ends with "no_data".
NoData(r) ==
    /\ run[r].pc = "clustered"
    /\ run[r].ids = {}
    /\ run' = [run EXCEPT ![r] = Idle]
    /\ UNCHANGED <<hour, published, frame, rows, assigned>>

\* existing_assignments
ReadAssignments(r) ==
    /\ run[r].pc = "stamped"
    /\ run' = [run EXCEPT
                 ![r].pc = "resolved",
                 ![r].known = [d \in Detections |->
                    IF d \in run[r].ids THEN assigned[d].cluster ELSE None]]
    /\ UNCHANGED <<hour, published, frame, rows, assigned>>

\* write_batch: validation and the transaction.  The answer may be lost
\* after the commit (503 instead of "ingested"); either way the attempt ends.
Commit(r) ==
    LET batch == Batch(run[r].ids, run[r].known, run[r].at)
        placed == Placed(run[r].ids, run[r].known, run[r].at)
    IN
    /\ run[r].pc = "resolved"
    /\ Valid(batch, placed)
    /\ MergeClusters(batch)
    /\ MergeDetections(placed)
    /\ run' = [run EXCEPT ![r] = Idle]
    /\ UNCHANGED <<hour, published, frame>>

\* The validation raises: 503, nothing written.
RejectBatch(r) ==
    LET batch == Batch(run[r].ids, run[r].known, run[r].at)
        placed == Placed(run[r].ids, run[r].known, run[r].at)
    IN
    /\ run[r].pc = "resolved"
    /\ ~Valid(batch, placed)
    /\ run' = [run EXCEPT ![r] = Idle]
    /\ UNCHANGED <<hour, published, frame, rows, assigned>>

\* BigQuery fails the read or the write (503), the storage guard or the
\* payload limit stops the write (507, 503).
GiveUp(r) ==
    /\ run[r].pc \in {"stamped", "resolved"}
    /\ run' = [run EXCEPT ![r] = Idle]
    /\ UNCHANGED <<hour, published, frame, rows, assigned>>

\* The instance stops: the attempt and the cache are gone.
Restart(r) ==
    /\ run' = [run EXCEPT ![r] = Idle]
    /\ frame' = [frame EXCEPT ![r] = NoFrame]
    /\ UNCHANGED <<hour, published, rows, assigned>>

Step(r) ==
    \/ Fetch(r) \/ Stamp(r) \/ NoData(r) \/ ReadAssignments(r) \/ Commit(r)
    \/ RejectBatch(r) \/ GiveUp(r) \/ Restart(r)

Next ==
    \/ Tick
    \/ \E d \in Detections : Publish(d)
    \/ \E r \in Runs : Step(r)

Spec == Init /\ [][Next]_vars

-----------------------------------------------------------------------------
(* Properties *)

\* Every variable keeps its type; in particular every row of the batch has
\* a cluster ID and the hour of its attempt.
TypeOK ==
    /\ hour \in Hours
    /\ published \subseteq Detections
    /\ frame \in [Runs -> [ids : SUBSET Detections, at : Hours \cup {None}]]
    /\ run \in [Runs -> [pc : {"idle", "clustered", "stamped", "resolved"},
                         ids : SUBSET Detections, at : Hours,
                         known : [Detections -> ClusterIds \cup {None}]]]
    /\ rows \subseteq Row
    /\ assigned \in [Detections ->
                       [cluster : ClusterIds, at : Hours] \cup {NotStored}]

\* BigQuery does not enforce keys (architecture.md 5.6): still fire_clusters
\* never holds two rows for one (cluster_id, snapshot_at), whatever attempts
\* overlap and however often an hour is written.
KeysUnique == UniqueKeys(rows)

\* Every stored detection points to a row that exists (README, "Historical
\* Analytics"), also when later attempts rewrite rows it shares a key with.
NoOrphans ==
    \A d \in Detections : assigned[d] # NotStored =>
        \E row \in rows : SameKey(row, assigned[d])

\* What Cloud Scheduler does unless it retries an attempt that still runs
NoOverlap == \A r, s \in Runs : run[r] # Idle /\ run[s] # Idle => r = s

\* A snapshot that lists a detection is the one it points to or an older one,
\* as long as attempts do not overlap: no second row of an hour lists it, and
\* no later one.
PointsToLatest ==
    \A row \in rows : \A d \in row.members :
        row.at < assigned[d].at \/ SameKey(row, assigned[d])

\* The row a detection points to has it among its members.
Listed(d) == \E row \in rows : SameKey(row, assigned[d]) /\ d \in row.members

\* The two MERGEs keep the tables together, whatever attempts overlap: a
\* commit leaves each detection of its frame in the row it points to, and takes
\* none out of a row of another hour.  In its own hour it may: a detection that
\* is no longer in the frame still points to a row that is rewritten without
\* it, so that "Every detection points to its latest" snapshot (README.md,
\* line 285) does not hold as it stands.
CommitKeepsLists ==
    [][\A r \in Runs : Commit(r) =>
          \A d \in Detections :
              d \in run[r].ids \/ (Listed(d) /\ assigned[d].at # run[r].at)
                  => Listed(d)']_vars

\* Within one hourly snapshot no detection is counted in two active
\* clusters: a retry updates the records of the attempt before it instead of
\* duplicating them (architecture.md, "Idempotent analytical ingestion"),
\* as long as attempts do not overlap.
SnapshotsDisjoint ==
    \A r, s \in rows :
        r.at = s.at /\ r # s => r.members \cap s.members = {}

\* Following merged_into_cluster_id inside a snapshot always ends at an
\* active row, also when an hour is ingested more than once.
TombstonesResolve ==
    \A S \in SUBSET {row \in rows : ~IsActive(row)} :
        S # {} => \E row \in S :
            \E target \in rows \ S :
                target.at = row.at /\ target.cluster = row.into

\* No identity vanishes: each cluster a detection of the batch belonged to
\* goes on in the batch, as a cluster of its own or as a tombstone that says
\* where it went, through every merge and split, as long as attempts do not
\* overlap.
NoIdVanishes ==
    [][\A r \in Runs : Commit(r) =>
          \A d \in run[r].ids : assigned[d] # NotStored =>
              \E row \in rows' :
                  row.cluster = assigned[d].cluster /\ row.at = run[r].at]_vars

\* Comment of build_ingestion_batch: when a cluster splits only one component
\* keeps the previous ID, which "preserves the composite snapshot primary
\* key": what attempts build is never refused for a duplicate key.
SplitKeepsKeys ==
    \A r \in Runs : run[r].pc = "resolved" =>
        UniqueKeys(Batch(run[r].ids, run[r].known, run[r].at))
=============================================================================
