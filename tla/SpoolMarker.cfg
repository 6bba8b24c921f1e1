\* Two conversation threads answer at once, and both find the persistence marker missing;
\* a commit may fail unheard, and the daemon crash.
SPECIFICATION Spec
CONSTANTS
    MaxLives = 4
    NoSub = NoSub
    Faults = {"commit"}
    MaxFaults = 1
    Daemon = {d1, d2}
    Surface = {}
    NoLife = NoLife
    Api = {"helper"}
    Bytes = {"good"}
    MaxFlips = 0
    MaxCrashes = 1
SYMMETRY Threads
INVARIANTS
    OneMarker
