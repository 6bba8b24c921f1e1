\* Two turns in the bound chat, one card and two surfacings of it; the cockpit approves too, the web denies, the daemon may crash.
SPECIFICATION FairConsentSpec
CONSTANTS
    MaxCards = 1
    Chat = {chat}
    NoChat = NoChat
    Kind = {"plain", "guarded"}
    Thread = {t1}
    Cockpit = Cockpit
    Cycle = Cycle
    NoCard = NoCard
    Intent = {}
    MaxDefers = 0
    MaxCrashes = 1
    Env = {"web", "cockpit"}
    Turn = {u1, u2}
    BoundChat = chat
    MaxSurfacings = 2
CHECK_DEADLOCK FALSE
INVARIANTS
    OneAttemptPerSurfacing
    ReceiptTellsTheTruth
PROPERTIES
    SettledSurfacingsStay
    EchoesGetReceipts
