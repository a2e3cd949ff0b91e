CONSTANTS
    PollCount = 2
    TotalOps <- ThreeAndOne
    EnergyPolls = {0, 1}
    Turn = 3
    Steps <- NonePartOrNearlyAll
    OutputBits = 4
    CountedBits = 2
    Parts = 2
    Encodings <- Outputs
    Lines = 2
    Celsius = {0, 2, 127}
SPECIFICATION DumpSpec
INVARIANTS
    DeltasExact
    EnergyShared
    RowsAddUp
