\* Two threads, the cockpit and the web process race for two cards; the daemon may crash.
SPECIFICATION Spec
CONSTANTS
    MaxCards = 2
    Chat = {chat}
    NoChat = NoChat
    Kind = {"plain", "impersonation", "want"}
    Thread = {t1, t2}
    Cockpit = Cockpit
    Cycle = Cycle
    NoCard = NoCard
    Intent = {"approve", "deny"}
    MaxDefers = 0
    MaxCrashes = 1
    Env = {"cockpit", "web"}
SYMMETRY Threads
CHECK_DEADLOCK FALSE
INVARIANTS
    OnlyACrashStrands
    OneAwaitingPerChat
    RunsAtMostOnce
    RefusedNeverRuns
    AuditTellsTheTruth
    DoneIsTrue
PROPERTIES
    TerminalIsFinal
    ImplementsOneShot
