\* A foreground and a background thread, each speaking twice and audited.
SPECIFICATION FairSpec
CONSTANTS
    fg = fg
    bg = bg
    Caller = {fg, bg}
    NoCaller = NoCaller
    Priority <- Priorities
    MaxCalls = 2
    Auditor = {fg, bg}
    Threshold = 2
CHECK_DEADLOCK FALSE
INVARIANTS
    OneCallInFlight
    RepliesAreWhole
    ProbeLockIsTheProbes
    ClosedIsBelowThreshold
PROPERTIES
    PreemptedCallsLeave
    BreakerHeals
