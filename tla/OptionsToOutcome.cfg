CONSTANTS
    CommandLines <- UpToFour
    Thousand = 4
    Sixty = 3
    TwentyFour = 2
    Word = 4096
    OutputBits = 8
    Flags = {"OP_POLL"}
    Cpus = {0, 1, 2}
    Garbage = Garbage
SPECIFICATION Spec
INVARIANTS
    SamplesFitDuration
    OutcomeOfOptions
    JobOutTells
    HammingWeights
