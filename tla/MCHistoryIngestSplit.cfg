\* A cluster that splits after an older detection joined it late,
\* attempts one after the other.
SPECIFICATION Spec
CONSTANTS
    Detections = {1, 2, 3}
    Observed <- ChainObserved
    Linked <- ChainLinks
    IncidentRank <- SmallestLast
    Span = 3
    Runs = {r1}
    r1 = r1
    MaxHour = 4
INVARIANT SplitKeepsKeys
CHECK_DEADLOCK FALSE
