CONSTANTS
    PollCount = 1
    BenchCount = 2
    TotalOps <- ThreeOps
    Abxor0 = TRUE
    Randomized = TRUE
    Faults = {"ioctl", "affinity"}
    MaxRounds = 2
SPECIFICATION FairSpec
INVARIANTS
    TypeOK
    MeasurementWindow
    DataOwnership
    AtMostOneLateSample
    InvalidationSeen
PROPERTIES
    Poll0WrittenBehindGate
    SlotProtocol
    StraddlesOnlyInWindow
    ImplementsMeasurement
    Termination
