SPECIFICATION SumSpec
CHECK_DEADLOCK FALSE
CONSTANTS
    MaxChanges = 3
    Early = FALSE
    Fault = {"write"}
    None = None
    Transfer = {t1, t2}
    Upload = {t1}
    Digest = {t1}
    Peer = {"session", "trusted"}
    FanOut = {1}
    SOURCE_DEADLINE = 1
    REFRESH_CLAIM = 2
    MaxParks = 1
    Unset = Unset
    own = own
    Hash = {factory, own}
    Partial = Partial
    Null = Null
    MaxEdits = 3
    Requester = {a1, a2}
    MaxStep = 1
    Temperature = {1, 2}
    MaxLives = 2
INVARIANTS
    CleanIsInTheFile
    NobodyRunsUnseen
PROPERTIES
    ChangesReachTheFile
    KeepsAPrefix
    TransfersEnd
    CatalogComesBack
    ChangesAreRead
    HoldsAreHonoured
