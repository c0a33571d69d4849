CONSTANTS
    None = None
    Document <- MCDocument
    Dhcp = "dhcp"
    Refused = {"refused"}
    Token = {t1, t2}
    MIN_WINDOW = 2
    MAX_WINDOW = 3
    Request = {1, 2, 4}
    First <- Readable
    Edits = {}
    Fault = {"write", "power", "hook"}
SPECIFICATION FairSpec
INVARIANTS
    OnlyConfirmedIsWritten
    StaticHasItsResolvers
PROPERTIES
    KeepsThePromise
    EveryChangeIsSettled
