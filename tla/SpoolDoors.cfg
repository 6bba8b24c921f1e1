\* Every door of the spool, with every kind of failure: parents first, documented ends, and the
\* admission promise with a surface beside the owner.
\* A raised drainer and a used-up supply of lives may stop the system.
SPECIFICATION Spec
CONSTANTS
    MaxLives = 2
    NoSub = NoSub
    Faults = {"commit", "ack", "enqueue", "quarantine", "lookup", "deadletter"}
    MaxFaults = 1
    Daemon = {d1}
    Surface = {s1}
    NoLife = NoLife
    Api = {"helper", "recorder"}
    Bytes = {"good", "invalid", "garbled"}
    MaxFlips = 1
    MaxCrashes = 1
CHECK_DEADLOCK FALSE
INVARIANTS
    ToldIsKept
    OneTurnPerSubmission
    ParentsFirst
    EndsAreDocumented
PROPERTIES
    ImplementsAdmission
