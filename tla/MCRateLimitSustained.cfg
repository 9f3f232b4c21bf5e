\* The sustained limit of README.md taken literally.
SPECIFICATION Spec
CONSTANTS
    r1 = r1
    r2 = r2
    i1 = i1
    i2 = i2
    Shared = Shared
    Requests = {r1, r2}
    Instances = {i1, i2}
    PerSecond = 1
    SharedCapacity = 2
    SharedRefill = 1
    GuardCapacity = 2
    GuardRefill = 1
    StateTTL = 2
    MaxTime = 3
SYMMETRY Symmetry
INVARIANT SustainedLimit
