CONSTANTS
    Threads = {1, 2}
    NR = 6
    SizeValues = 16
    Param1 <- OneAndTwo
    Repeats = 2
    Jobs <- SoundJobs
    MaxFlips = 3
    MaxLoops = 2
SPECIFICATION Spec
INVARIANTS
    TypeOK
    OutputIsWhole
    WindowInBounds
    MovesFollowFlips
