CONSTANTS
    Threads = {1, 2}
    NR = 6
    SizeValues = 16
    Param1 <- OnlyTwo
    Repeats = 2
    Jobs <- DebugJob
    MaxFlips = 3
    MaxLoops = 2
SPECIFICATION Spec
INVARIANT
    OutputIsOwn
