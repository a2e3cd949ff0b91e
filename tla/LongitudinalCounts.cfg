CONSTANTS
    Cpus = {0, 1}
    CounterCount = 1
    Jobs <- OneAndTwoLongitudinals
    MaxWork = 2
    MaxFaults = 2
SPECIFICATION Spec
INVARIANTS
    TypeOK
    CountsTheWindow
    InLockstep
    RecipesCounted
