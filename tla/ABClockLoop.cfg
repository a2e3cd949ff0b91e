CONSTANTS
    NS = 13
    ABDurations <- UpToThreeSeconds
    Durations <- SecondsAndFractions
    MaxSlept = 100
SPECIFICATION FairSpec
INVARIANTS
    TypeOK
    NeverASecond
    NoTimeInvented
    RunsWholeSeconds
PROPERTY
    Halts
