\* A card the will-I check refuses after its approval.
SPECIFICATION Spec
CONSTANTS
    MaxCards = 1
    Chat = {chat}
    NoChat = NoChat
    Kind = {"impersonation"}
    Thread = {t1}
    Cockpit = Cockpit
    Cycle = Cycle
    NoCard = NoCard
    Intent = {"approve"}
    MaxDefers = 0
    MaxCrashes = 0
    Env = {"cockpit"}
INVARIANT WillRefusalClosesCard
CHECK_DEADLOCK FALSE
