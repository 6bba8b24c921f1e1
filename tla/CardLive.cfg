\* Every kind of card, every intent, deferrals, reminders and expiry, under fairness, without crashes.
SPECIFICATION FairSpec
CONSTANTS
    MaxCards = 1
    Chat = {chat}
    NoChat = NoChat
    Kind = {"plain", "impersonation", "want", "guarded", "dialog"}
    Thread = {t1}
    Cockpit = Cockpit
    Cycle = Cycle
    NoCard = NoCard
    Intent = {"approve", "deny", "modify", "defer", "none"}
    MaxDefers = 1
    MaxCrashes = 0
    Env = {"cycle", "aging", "drift", "threaded", "nochat", "cockpit"}
CHECK_DEADLOCK FALSE
PROPERTIES
    RunningCloses
    DueCardsResurface
    AbandonedCardsExpire
