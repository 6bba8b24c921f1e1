\* Three consumers race for a grant, with two purposes; the owner answers directly or through the pipeline,
\* the web process denies, the sweep expires, the clock passes, and a consumer may die.
SPECIFICATION FairSpec
CONSTANTS
    MaxCards = 1
    Chat = {}
    NoChat = NoChat
    Kind = {"plain"}
    Consumer = {p1, p2, p3}
    NoCard = NoCard
    Purpose = {q1, q2}
    NoPurpose = NoPurpose
    Door = {"direct", "pipeline"}
    MaxCrashes = 1
    Env = {"web", "sweep", "expiry"}
CHECK_DEADLOCK FALSE
INVARIANTS
    OneCallPerGrant
    CallsAreAuthorized
PROPERTIES
    ImplementsOneShot
    SpentGrantsSettle
