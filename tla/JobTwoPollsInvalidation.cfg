CONSTANTS
    PollCount = 2
    BenchCount = 1
    TotalOps <- ThreeOps
    Abxor0 = FALSE
    Randomized = FALSE
    Faults = {}
    MaxRounds = 1
SPECIFICATION Spec
INVARIANT
    InvalidationSeen
