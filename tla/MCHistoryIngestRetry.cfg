\* A retry that overlaps the attempt it retries, with a newer frame.
SPECIFICATION Spec
CONSTANTS
    Detections = {1, 2, 3}
    Observed <- TwinObserved
    Linked <- ChainLinks
    IncidentRank <- SmallestLast
    Span = 1
    r1 = r1
    r2 = r2
    Runs = {r1, r2}
    MaxHour = 2
SYMMETRY Symmetry
INVARIANT SnapshotsDisjoint
CHECK_DEADLOCK FALSE
