\* A self-modification card with two touches of the security key; the web process denies, the
\* sweep expires, touches lapse, the world moves, and the authority store fails or the daemon dies.
SPECIFICATION FairSpec
CONSTANTS
    MaxCards = 1
    Chat = {chat}
    NoChat = NoChat
    Kind = {"dialog"}
    Thread = {t1}
    NoCard = NoCard
    MaxTouches = 2
    MaxTroubles = 1
    Env = {"web", "sweep", "lapse", "drift"}
CHECK_DEADLOCK FALSE
INVARIANTS
    RunsAreTouched
    OneTouchPerCard
    SpentMeansSettled
    ExecutedIsTrue
PROPERTIES
    ImplementsOneShot
    RatifiedCardsSettle
