CONSTANTS
    Width = 4
    Params <- SmallParams
    Shifts <- ShiftsAround
    MaxFlips = 3
    MaxLoops = 4
SPECIFICATION Spec
INVARIANTS
    ReportedLoops
    OnlyTopBitsLost
