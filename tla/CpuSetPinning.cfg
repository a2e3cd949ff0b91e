CONSTANTS
    CPU_SETSIZE = 7
    MaxCpu = 3
    Fields <- UpToTwoTokens
SPECIFICATION Spec
INVARIANTS
    OneThreadPerCpu
    EveryCpuPinned
    ShownCpus
