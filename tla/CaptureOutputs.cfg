CONSTANTS
    PollCount = 1
    BenchCount = 1
    TotalOps <- TwoOps
    Abxor0 = TRUE
    Randomized = FALSE
    Faults = {"ioctl", "affinity"}
    MaxRounds = 2
    Repeats = 2
SPECIFICATION CaptureFairSpec
INVARIANTS
    CaptureTypeOK
    KeyWithOutput
    EnergyIsOfOutput
    OverdueByOnePass
PROPERTY
    FlipNoticed
