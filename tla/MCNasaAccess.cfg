\* Two workers, two windows behind the one lock, a clock of half seconds that
\* is long enough for a frame to expire and be replaced and for the backoff to
\* grow and reach its cap.
SPECIFICATION Spec
CONSTANTS
    w1 = w1
    w2 = w2
    d1 = d1
    d2 = d2
    Workers = {w1, w2}
    Windows = {d1, d2}
    NasaKeyConfigured = TRUE
    PerSecond = 2
    CacheTTL = 2
    BackoffInitial = 1
    BackoffMax = 2
    MaxTime = 6
SYMMETRY Symmetry
INVARIANTS
    TypeOK
    ThrottleHasData
    FreshLabelHonest
    RetryAfterSuffices
PROPERTIES
    LastGoodKept
    RepliesCurrent
    StaleOnlyAfterFailedRefresh
    ProtectsNasa
