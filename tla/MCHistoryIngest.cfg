\* Attempts one after the other, several in an hour, over a cluster that
\* forms, merges and splits.
SPECIFICATION Spec
CONSTANTS
    Detections = {1, 2, 3}
    Observed <- ChainObserved
    Linked <- ChainLinks
    IncidentRank <- SmallestLast
    Span = 3
    Runs = {r1}
    r1 = r1
    MaxHour = 4
INVARIANTS
    TypeOK
    KeysUnique
    NoOrphans
    PointsToLatest
    SnapshotsDisjoint
    TombstonesResolve
PROPERTIES
    NoIdVanishes
    CommitKeepsLists
CHECK_DEADLOCK FALSE
