\* Two instances with a guard each share one bucket; all of them run dry,
\* refill and expire.
SPECIFICATION Spec
CONSTANTS
    r1 = r1
    r2 = r2
    i1 = i1
    i2 = i2
    Shared = Shared
    Requests = {r1, r2}
    Instances = {i1, i2}
    PerSecond = 2
    SharedCapacity = 1
    SharedRefill = 2
    GuardCapacity = 1
    GuardRefill = 1
    StateTTL = 2
    MaxTime = 5
SYMMETRY Symmetry
INVARIANTS
    TypeOK
    GrantsArePaid
    FallbackBounded
    OrderedSamplesKeepLimit
PROPERTY RetryAfterSuffices
