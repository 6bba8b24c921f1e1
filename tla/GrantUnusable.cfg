\* The owner says yes to a grant through the door the program has.
SPECIFICATION Spec
CONSTANTS
    MaxCards = 1
    Chat = {}
    NoChat = NoChat
    Kind = {"plain"}
    Consumer = {p1}
    NoCard = NoCard
    Purpose = {q1}
    NoPurpose = NoPurpose
    Door = {"pipeline"}
    MaxCrashes = 0
    Env = {}
PROPERTY YesMintsAGrant
CHECK_DEADLOCK FALSE
