\* A dead letter is replayed while the daemon records on: a flag flips, an operation fails, the
\* daemon crashes, and the tool dies and is run again.
SPECIFICATION FairReplaySpec
CONSTANTS
    MaxLives = 2
    NoSub = NoSub
    Faults = {"commit", "ack", "enqueue"}
    MaxFaults = 1
    Daemon = {d1}
    Surface = {}
    NoLife = NoLife
    Api = {"helper", "recorder"}
    Bytes = {"good"}
    MaxFlips = 1
    MaxCrashes = 1
    MaxRuns = 2
CHECK_DEADLOCK FALSE
INVARIANTS
    CompanionsAreTrue
PROPERTIES
    ReplayAdmits
    
