\* A reply whose enqueue failed is replayed.
SPECIFICATION ReplaySpec
CONSTANTS
    MaxLives = 2
    NoSub = NoSub
    Faults = {"enqueue"}
    MaxFaults = 1
    Daemon = {}
    Surface = {s1}
    NoLife = NoLife
    Api = {"recorder"}
    Bytes = {"good"}
    MaxFlips = 0
    MaxCrashes = 0
    MaxRuns = 1
CHECK_DEADLOCK FALSE
INVARIANTS
    ReplayKeepsParents
