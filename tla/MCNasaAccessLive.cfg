\* Three workers contend for the lock; four requests.
SPECIFICATION LiveSpec
CONSTANTS
    w1 = w1
    w2 = w2
    w3 = w3
    d1 = d1
    Workers = {w1, w2, w3}
    Windows = {d1}
    NasaKeyConfigured = TRUE
    PerSecond = 1
    CacheTTL = 2
    BackoffInitial = 1
    BackoffMax = 2
    MaxTime = 3
    MaxRequests = 4
PROPERTY AlwaysAnswered
