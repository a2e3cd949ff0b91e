CONSTANTS
    PollCount = 1
    BenchCount = 1
    TotalOps <- ThreeOps
    Abxor0 = FALSE
    Randomized = FALSE
    Faults = {}
    MaxRounds = 2
SPECIFICATION Spec
INVARIANT
    ValidIsPure
