\* Two windows, both answered: the interval is kept for each, not by the instance.
SPECIFICATION Spec
CONSTANTS
    w1 = w1
    w2 = w2
    d1 = d1
    d2 = d2
    Workers = {w1, w2}
    Windows = {d1, d2}
    NasaKeyConfigured = TRUE
    PerSecond = 1
    CacheTTL = 3
    BackoffInitial = 1
    BackoffMax = 2
    MaxTime = 4
PROPERTY OneQueryPerInterval
